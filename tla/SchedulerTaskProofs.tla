------------------------- MODULE SchedulerTaskProofs -------------------------
(***************************************************************************)
(* What becomes of the tasks, for every number of threads and callbacks:   *)
(* NoLostTask, AtMostOnce and StoppedIsQuiet of Scheduler, on top of the   *)
(* inductive invariant Inv of SchedulerProofs; and that the scheduler      *)
(* implements Executor.                                                    *)
(***************************************************************************)
EXTENDS SchedulerProofs

-----------------------------------------------------------------------------
(* Where the callbacks are.                                                *)

(* Fiber f has a callback that it still has to run or is running.          *)
Live(f) ==
    fiber[f].m_state \in {"INIT", "EXEC", "HOLD", "READY"} /\ fiber[f].m_cb # None

(* Callback j has no fiber yet.                                            *)
Pending(j) == j \in CbsOf(m_fibers) \/ \E t \in Worker : ft[t].cb = j

(* The fibers that a thread can be given.                                  *)
Resumable == FibersOf(m_fibers) \cup armed

(* A callback that was submitted and has not ended is pending or has       *)
(* exactly one live fiber, never both; no other callback is or has.        *)
CarriedOK ==
    /\ done \subseteq submitted
    /\ \A f \in Job : Live(f) => fiber[f].m_cb \in submitted \ done
    /\ \A f, g \in Job :
          Live(f) /\ Live(g) /\ fiber[f].m_cb = fiber[g].m_cb => f = g
    /\ \A j \in submitted \ done :
          Pending(j) \/ \E f \in Job : Live(f) /\ fiber[f].m_cb = j
    /\ \A j \in Job : Pending(j) =>
          /\ j \in submitted \ done
          /\ \A f \in Job : Live(f) => fiber[f].m_cb # j

(* A live fiber is in the queue, with a waker, or in a thread's hands.     *)
PlacedOK ==
    \A f \in Job : Live(f) => f \in Resumable \/ \E t \in Worker : Held(t) = f

(* A body on the way out that is to be suspended can be resumed.           *)
LeavingOK(t) ==
    /\ pc[t] = "hold" => Cur(t) \in Resumable
    /\ pc[t] \in {"back", "after"} /\ fiber[Cur(t)].m_state = "EXEC"
         => Cur(t) \in Resumable

(* A cb_fiber that is kept for the next callback has lost the last one.    *)
SpareOK(t) == cb_fiber[t] # None /\ ~RunsCb(t) => fiber[cb_fiber[t]].m_cb = None

(* Only a thread executes a fiber.                                         *)
ExecHeld ==
    \A f \in Job : fiber[f].m_state = "EXEC" => \E t \in Worker : Held(t) = f

TaskInv ==
    /\ CarriedOK
    /\ PlacedOK
    /\ ExecHeld
    /\ \A t \in Worker : LeavingOK(t) /\ SpareOK(t)
-----------------------------------------------------------------------------
(* Lemmas about steps of one kind.                                         *)

(* No callback moves, and live fibers keep theirs.                         *)
LEMMA CarriedKept ==
    ASSUME TypeOK, CarriedOK,
           \A f \in Job : /\ Live(f)' <=> Live(f)
                          /\ Live(f) => fiber'[f].m_cb = fiber[f].m_cb,
           \A j \in Job : Pending(j)' <=> Pending(j),
           UNCHANGED <<submitted, done>>
    PROVE  CarriedOK'
<1>1. ASSUME NEW j \in submitted \ done
      PROVE  Pending(j)' \/ \E f \in Job : Live(f)' /\ fiber'[f].m_cb = j
  <2>1. CASE \E f \in Job : Live(f) /\ fiber[f].m_cb = j
    <3>1. PICK f \in Job : Live(f) /\ fiber[f].m_cb = j
      BY <2>1
    <3>2. Live(f)' /\ fiber'[f].m_cb = j
      BY <3>1
    <3> QED BY <3>2
  <2>2. CASE ~\E f \in Job : Live(f) /\ fiber[f].m_cb = j
    <3>1. Pending(j) /\ j \in Job
      BY <2>2 DEF CarriedOK, TypeOK
    <3> QED BY <3>1
  <2> QED BY <2>1, <2>2
<1>2. \A j \in Job : Pending(j)' =>
        j \in (submitted \ done)' /\ \A f \in Job : Live(f)' => fiber'[f].m_cb # j
  BY DEF CarriedOK
<1> QED BY <1>1, <1>2 DEF CarriedOK

(* Thread t takes the fiber f it holds one step further, or lets go of it. *)
LEMMA HolderTask ==
    ASSUME Inv, TaskInv, NEW t \in Worker, NEW f, f = Held(t), f # None,
           \A g \in Job \ {f} : fiber'[g] = fiber[g],
           \A u \in Worker \ {t} : pc'[u] = pc[u] /\ ft'[u] = ft[u]
                                   /\ cb_fiber'[u] = cb_fiber[u],
           ft[t].cb = None, ft'[t].cb = None,
           CbsOf(m_fibers)' = CbsOf(m_fibers),
           UNCHANGED <<submitted, done>>,
           Live(f)' <=> Live(f),
           Live(f) => fiber'[f].m_cb = fiber[f].m_cb,
           Resumable \subseteq Resumable',
           Live(f)' => f \in Resumable' \/ Held(t)' = f,
           fiber'[f].m_state = "EXEC" => Held(t)' = f,
           LeavingOK(t)', SpareOK(t)'
    PROVE  TaskInv'
<1> USE NoneIsNoJob DEF TaskInv
<1>1. f \in Job /\ \A u \in Worker \ {t} : Held(u) # f /\ cb_fiber[u] # f
  BY HeldFacts
<1>2. \A u \in Worker \ {t} : /\ Held(u)' = Held(u) /\ Cur(u)' = Cur(u)
                              /\ RunsCb(u)' <=> RunsCb(u)
  BY DEF Held, Executing, Cur, RunsCb
<1>3. CarriedOK'
  <2>1. \A g \in Job : /\ Live(g)' <=> Live(g)
                       /\ Live(g) => fiber'[g].m_cb = fiber[g].m_cb
    BY DEF Live
  <2>2. \A j \in Job : Pending(j)' <=> Pending(j)
    BY DEF Pending
  <2> QED BY <2>1, <2>2, CarriedKept DEF Inv
<1>4. PlacedOK'
  <2> SUFFICES ASSUME NEW g \in Job, Live(g)', g \notin Resumable', g # f
               PROVE  \E u \in Worker : Held(u)' = g
    BY DEF PlacedOK
  <2>1. Live(g)
    BY DEF Live
  <2>2. PICK u \in Worker : Held(u) = g
    BY <2>1 DEF PlacedOK
  <2> QED BY <1>2, <2>2
<1>5. ExecHeld'
  <2> SUFFICES ASSUME NEW g \in Job, fiber'[g].m_state = "EXEC", g # f
               PROVE  \E u \in Worker : Held(u)' = g
    BY DEF ExecHeld
  <2>1. PICK u \in Worker : Held(u) = g
    BY DEF ExecHeld
  <2> QED BY <1>2, <2>1
<1>6. ASSUME NEW u \in Worker \ {t} PROVE LeavingOK(u)' /\ SpareOK(u)'
  <2>1. LeavingOK(u)'
    <3>1. pc[u] \in {"hold", "back", "after"} =>
            Cur(u) = Held(u) /\ Cur(u) \in Job /\ Cur(u) # f
      BY <1>1, CurIsHeld DEF Executing
    <3>2. pc[u] \in {"hold", "back", "after"} => fiber'[Cur(u)] = fiber[Cur(u)]
      BY <3>1
    <3> QED BY <1>2, <3>2 DEF LeavingOK
  <2>2. SpareOK(u)'
    <3>1. cb_fiber[u] \in Job \cup {None} /\ cb_fiber[u] # f
      BY <1>1 DEF Inv, TypeOK
    <3> QED BY <1>2, <3>1 DEF SpareOK
  <2> QED BY <2>1, <2>2
<1> QED BY <1>3, <1>4, <1>5, <1>6

(* A step that touches no fiber, no local of a thread but where it is, and *)
(* at most adds to what is queued.                                         *)
LEMMA OthersTask ==
    ASSUME Inv, TaskInv,
           \A u \in Worker : /\ Held(u)' = Held(u) /\ Cur(u)' = Cur(u)
                             /\ RunsCb(u)' <=> RunsCb(u)
                             /\ pc[u] = pc'[u] \/ pc'[u] \notin {"hold", "back", "after"},
           CbsOf(m_fibers)' = CbsOf(m_fibers),
           UNCHANGED <<fiber, submitted, done, ft, cb_fiber>>,
           Resumable \subseteq Resumable'
    PROVE  TaskInv'
<1> USE DEF TaskInv
<1>1. CarriedOK'
  BY CarriedKept DEF Live, Pending, Inv
<1>2. PlacedOK' /\ ExecHeld'
  BY DEF PlacedOK, ExecHeld, Live
<1>3. \A u \in Worker : LeavingOK(u)' /\ SpareOK(u)'
  BY DEF LeavingOK, SpareOK
<1> QED BY <1>1, <1>2, <1>3

(* The body that thread t executes, or has come back from, goes on.        *)
LEMMA BodyTask ==
    ASSUME Inv, TaskInv, NEW t \in Worker, Executing(t), NEW f, f = Cur(t),
           \A g \in Job \ {f} : fiber'[g] = fiber[g],
           fiber'[f].m_cb = fiber[f].m_cb,
           Live(f)' <=> Live(f),
           pc'[t] = "hold" \/ fiber'[f].m_state = "EXEC" => f \in Resumable',
           pc' = [pc EXCEPT ![t] = pc'[t]], Executing(t)',
           CbsOf(m_fibers)' = CbsOf(m_fibers),
           Resumable \subseteq Resumable',
           UNCHANGED <<submitted, done, ft, cb_fiber>>
    PROVE  TaskInv'
<1>1. /\ f = Held(t) /\ f # None /\ f \in Job
      /\ \A u \in Worker : cb_fiber[u] = f => u = t /\ RunsCb(t)
      /\ ft[t].cb = None
  <2>1. ft[t].cb = None
    BY DEF Inv, LocalOK, Executing
  <2> QED BY <2>1, CurIsHeld, HeldFacts
<1>2. Held(t)' = f /\ Cur(t)' = f /\ (RunsCb(t)' <=> RunsCb(t))
  BY DEF Held, Executing, Cur, RunsCb
<1>3. \A u \in Worker \ {t} : pc'[u] = pc[u]
  BY DEF Inv, TypeOK
<1>4. LeavingOK(t)'
  BY <1>2 DEF LeavingOK
<1>5. SpareOK(t)'
  <2>1. cb_fiber[t] \in Job \cup {None}
    BY DEF Inv, TypeOK
  <2> QED BY <1>1, <1>2, <2>1 DEF SpareOK, TaskInv
<1> QED BY <1>1, <1>2, <1>3, <1>4, <1>5, HolderTask

-----------------------------------------------------------------------------
(* The steps of run() and of a body.                                       *)

LEMMA YieldTask ==
    ASSUME Inv, TaskInv, NEW t \in Worker,
           YieldToReady(t) \/ YieldToHold(t) \/ Return(t)
    PROVE  TaskInv'
<1> SUFFICES ASSUME NEW f, f = Cur(t) PROVE TaskInv'
  OBVIOUS
<1> DEFINE x == fiber[f]
<1>1. Executing(t) /\ f \in Job /\ x \in FiberObject
  <2>1. Executing(t)
    BY DEF YieldToReady, YieldToHold, Return, Executing
  <2> QED BY <2>1, CurIsHeld
<1>2. /\ fiber' \in {[fiber EXCEPT ![f] = MarkReady(x)],
                     [fiber EXCEPT ![f] = MarkHold(x)], fiber}
      /\ pc'[t] \in {"back", "after"} /\ pc' = [pc EXCEPT ![t] = pc'[t]]
      /\ UNCHANGED <<m_fibers, submitted, done, armed, ft, cb_fiber>>
  BY DEF YieldToReady, YieldToHold, Return, Goto, Inv, TypeOK, tasks
<1>3. /\ \A g \in Job \ {f} : fiber'[g] = fiber[g]
      /\ fiber'[f].m_cb = x.m_cb
      /\ fiber'[f] = x \/ (fiber'[f].m_state = "READY" /\ x.m_state = "EXEC")
  <2>1. fiber \in [Job -> FiberObject]
    BY DEF Inv, TypeOK
  <2>2. CASE YieldToReady(t)
    <3>1. fiber' = [fiber EXCEPT ![f] = MarkReady(x)] /\ x.m_state = "EXEC"
      BY <2>2 DEF YieldToReady, Inv, LocalOK
    <3> QED BY <1>1, <2>1, <3>1, FiberOperations
  <2>3. CASE YieldToHold(t) \/ Return(t)
    <3>1. fiber' = [fiber EXCEPT ![f] = x] \/ fiber' = fiber
      BY <2>3 DEF YieldToHold, Return, MarkHold, tasks
    <3> QED BY <1>1, <2>1, <3>1
  <2> QED BY <2>2, <2>3
<1>4. fiber'[f].m_state = "EXEC" => f \in Resumable
  <2>1. ASSUME fiber'[f].m_state = "EXEC" PROVE pc[t] \in {"hold", "back"} /\ x.m_state = "EXEC"
    <3>1. CASE YieldToReady(t)
      <4>1. fiber'[f].m_state = "READY"
        BY <1>1, <3>1, FiberOperations DEF YieldToReady, Inv, TypeOK
      <4> QED BY <2>1, <4>1
    <3>2. CASE YieldToHold(t) \/ Return(t)
      BY <1>3, <2>1, <3>2 DEF YieldToHold, Return
    <3> QED BY <3>1, <3>2
  <2> QED BY <2>1 DEF TaskInv, LeavingOK
<1>5. Live(f)' <=> Live(f)
  BY <1>3 DEF Live
<1>6. /\ Executing(t)' /\ Resumable' = Resumable
      /\ CbsOf(m_fibers)' = CbsOf(m_fibers)
  BY <1>2 DEF Executing, Resumable
<1> QED BY <1>1, <1>2, <1>3, <1>4, <1>5, <1>6, BodyTask

(* The body hands its fiber to a waker, or queues it itself.               *)
LEMMA HandOverTask ==
    ASSUME Inv, TaskInv, NEW t \in Worker, Arm(t) \/ SwitchTo(t)
    PROVE  TaskInv'
<1> SUFFICES ASSUME NEW f, f = Cur(t) PROVE TaskInv'
  OBVIOUS
<1>1. /\ pc[t] = "exec" /\ Executing(t)
      /\ pc' = [pc EXCEPT ![t] = "hold"]
      /\ UNCHANGED <<fiber, submitted, done, ft, cb_fiber>>
  BY DEF Arm, SwitchTo, Goto, Executing
<1>2. f \in Job /\ f \notin FibersOf(m_fibers)
  BY <1>1, CurIsHeld, HeldFacts
<1>3. Resumable' = Resumable \cup {f} /\ CbsOf(m_fibers)' = CbsOf(m_fibers)
  <2>1. CASE Arm(t)
    BY <2>1 DEF Arm, Resumable
  <2>2. CASE SwitchTo(t)
    <3>1. PICK thr \in LegalPins \ {None, t} :
            m_fibers' = scheduleNoLock(m_fibers, FiberTask(f, thr))
      BY <2>2 DEF SwitchTo
    <3>2. thr \in Worker \cup {None}
      BY SchedulerAssumption DEF LegalPins
    <3>3. /\ FibersOf(m_fibers)' = FibersOf(m_fibers) \cup {f}
          /\ CbsOf(m_fibers)' = CbsOf(m_fibers)
      BY <1>2, <3>1, <3>2, AppendFiber DEF Inv, TypeOK
    <3> QED BY <2>2, <3>3 DEF SwitchTo, Resumable
  <2> QED BY <2>1, <2>2
<1>4. Executing(t)' /\ pc'[t] = "hold"
  BY <1>1 DEF Executing, Inv, TypeOK
<1>5. Live(f)' <=> Live(f)
  BY <1>1 DEF Live
<1> QED BY <1>1, <1>2, <1>3, <1>4, <1>5, BodyTask

(* run() resumes a fiber that is not executing: it stays live.             *)
LEMMA DispatchFiberTask ==
    ASSUME Inv, TaskInv, NEW t \in Worker, DispatchFiber(t) \/ DispatchDrop(t)
    PROVE  TaskInv'
<1> SUFFICES ASSUME NEW f, f = ft[t].fiber PROVE TaskInv'
  OBVIOUS
<1> DEFINE x == fiber[f]
<1>1. /\ pc[t] = "dispatch" /\ f # None /\ f = Held(t)
      /\ ft[t].cb = None /\ ~RunsCb(t)
      /\ x.m_state \notin {"EXEC", "NONE"}
  <2>1. pc[t] = "dispatch" /\ f # None
    BY DEF DispatchFiber, DispatchDrop
  <2> QED BY <2>1 DEF Inv, LocalOK, Held, RunsCb, Executing
<1>2. f \in Job /\ x \in FiberObject /\ \A u \in Worker : cb_fiber[u] = f => RunsCb(u)
  BY <1>1, HeldFacts DEF Inv, TypeOK
<1>3. /\ UNCHANGED <<m_fibers, submitted, done, armed, cb_fiber>>
      /\ CbsOf(m_fibers)' = CbsOf(m_fibers) /\ Resumable' = Resumable
      /\ pc'[t] \in {"exec", "take"} /\ pc' = [pc EXCEPT ![t] = pc'[t]]
      /\ \A u \in Worker \ {t} : pc'[u] = pc[u] /\ ft'[u] = ft[u]
      /\ ft'[t].cb = None
  BY <1>1 DEF DispatchFiber, DispatchDrop, Goto, tasks, Resumable, Inv, TypeOK,
              EmptyTask
<1>4. /\ \A g \in Job \ {f} : fiber'[g] = fiber[g]
      /\ fiber'[f].m_cb = x.m_cb
      /\ \/ fiber'[f].m_state = "EXEC" /\ x.m_state \notin {"TERM", "EXCEPT"}
            /\ Held(t)' = f
         \/ fiber'[f] = x /\ x.m_state \in {"TERM", "EXCEPT"}
  <2>1. CASE DispatchFiber(t)
    <3>1. /\ fiber' = [fiber EXCEPT ![f] = swapIn(x)] /\ ft' = ft
          /\ pc' = [pc EXCEPT ![t] = "exec"] /\ x.m_state \notin {"TERM", "EXCEPT"}
      BY <2>1 DEF DispatchFiber, Goto, Finished
    <3>2. Held(t)' = f
      BY <1>1, <3>1 DEF Held, Executing, Cur, Inv, TypeOK
    <3> QED BY <1>2, <3>1, <3>2, FiberOperations DEF Inv, TypeOK
  <2>2. CASE DispatchDrop(t)
    BY <2>2 DEF DispatchDrop, tasks, Finished
  <2> QED BY <2>1, <2>2
<1>5. Live(f)' <=> Live(f)
  BY <1>1, <1>2, <1>4 DEF Live, FiberObject, FiberState
<1>6. Live(f)' => Held(t)' = f
  BY <1>4 DEF Live
<1>7. LeavingOK(t)' /\ SpareOK(t)'
  <2>1. cb_fiber[t] # f /\ cb_fiber[t] \in Job \cup {None}
    BY <1>1, <1>2 DEF Inv, TypeOK
  <2> QED BY <1>1, <1>3, <1>4, <2>1 DEF LeavingOK, SpareOK, TaskInv
<1> QED BY <1>1, <1>2, <1>3, <1>4, <1>5, <1>6, <1>7, HolderTask

(* The thread lets go of its fiber: it is queued again, or can be resumed  *)
(* already, or has ended.                                                  *)
LEMMA LetGoTask ==
    ASSUME Inv, TaskInv, NEW t \in Worker, Reschedule(t) \/ Park(t) \/ Retire(t)
    PROVE  TaskInv'
<1> SUFFICES ASSUME NEW f, f = Cur(t) PROVE TaskInv'
  OBVIOUS
<1> USE NoneIsNoJob
<1> DEFINE x == fiber[f]
<1>1. /\ pc[t] = "after" /\ Executing(t)
      /\ RunsCb(t) <=> ft[t].fiber = None
      /\ ft[t].cb = None
  BY DEF Reschedule, Park, Retire, Executing, RunsCb, Inv, LocalOK
<1>2. /\ f = Held(t) /\ f # None /\ f \in Job /\ x \in FiberObject
      /\ f \notin FibersOf(m_fibers) \/ x.m_state = "EXEC"
      /\ \A u \in Worker : cb_fiber[u] = f => u = t /\ RunsCb(t)
      /\ RunsCb(t) => f = cb_fiber[t]
  BY <1>1, CurIsHeld, HeldFacts DEF RunsCb, Cur
<1>3. /\ UNCHANGED <<submitted, done>>
      /\ \A u \in Worker \ {t} : /\ pc'[u] = pc[u] /\ ft'[u] = ft[u]
                                 /\ cb_fiber'[u] = cb_fiber[u]
      /\ pc'[t] = "take" /\ ft'[t].cb = None
      /\ cb_fiber'[t] = cb_fiber[t] \/ (cb_fiber'[t] = None /\ RunsCb(t))
  BY <1>1 DEF Reschedule, Park, Retire, LetGo, Goto, EmptyTask, Inv, TypeOK
<1>4. ~RunsCb(t)' /\ LeavingOK(t)'
  BY <1>3 DEF RunsCb, Executing, LeavingOK
<1>5. cb_fiber[t] \in Job \cup {None} /\ fiber \in [Job -> FiberObject]
  BY DEF Inv, TypeOK
<1>6. CASE Reschedule(t)
  <2>1. /\ x.m_state = "READY" /\ fiber' = fiber /\ armed' = armed
        /\ m_fibers' = scheduleNoLock(m_fibers, FiberTask(f, None))
        /\ cb_fiber'[t] = IF RunsCb(t) THEN None ELSE cb_fiber[t]
    BY <1>1, <1>6 DEF Reschedule, LetGo, Inv, TypeOK
  <2>2. /\ FibersOf(m_fibers)' = FibersOf(m_fibers) \cup {f}
        /\ CbsOf(m_fibers)' = CbsOf(m_fibers)
    BY <1>2, <2>1, AppendFiber DEF Inv, TypeOK
  <2>3. Resumable' = Resumable \cup {f}
    BY <2>1, <2>2 DEF Resumable
  <2>4. (Live(f)' <=> Live(f)) /\ SpareOK(t)'
    BY <1>4, <2>1 DEF Live, SpareOK, TaskInv
  <2> QED BY <1>1, <1>2, <1>3, <1>4, <2>1, <2>2, <2>3, <2>4, HolderTask
<1>7. CASE Park(t)
  <2>1. /\ x.m_state = "EXEC" /\ m_fibers' = m_fibers /\ armed' = armed
        /\ fiber' = [fiber EXCEPT ![f] = Suspend(x)]
        /\ cb_fiber'[t] = IF RunsCb(t) THEN None ELSE cb_fiber[t]
    BY <1>1, <1>7 DEF Park, LetGo, Inv, TypeOK, LocalOK
  <2>2. /\ \A g \in Job \ {f} : fiber'[g] = fiber[g]
        /\ fiber'[f].m_cb = x.m_cb /\ fiber'[f].m_state = "HOLD"
    BY <1>2, <1>5, <2>1, FiberOperations
  <2>3. Resumable' = Resumable /\ f \in Resumable /\ CbsOf(m_fibers)' = CbsOf(m_fibers)
    BY <1>1, <2>1 DEF TaskInv, LeavingOK, Resumable
  <2>4. (Live(f)' <=> Live(f)) /\ SpareOK(t)'
    BY <1>2, <1>4, <1>5, <2>1, <2>2 DEF Live, SpareOK, TaskInv
  <2> QED BY <1>1, <1>2, <1>3, <1>4, <2>2, <2>3, <2>4, HolderTask
<1>8. CASE Retire(t)
  <2>1. /\ x.m_state \in {"TERM", "EXCEPT"} /\ UNCHANGED <<m_fibers, armed, cb_fiber>>
        /\ fiber' = IF RunsCb(t) THEN [fiber EXCEPT ![f] = reset(x, None)] ELSE fiber
    BY <1>1, <1>2, <1>8 DEF Retire, Finished
  <2>2. /\ \A g \in Job \ {f} : fiber'[g] = fiber[g]
        /\ RunsCb(t) => fiber'[f].m_cb = None /\ fiber'[f].m_state = "INIT"
        /\ ~RunsCb(t) => fiber'[f] = x
    BY <1>2, <1>5, <2>1 DEF reset
  <2>3. Resumable' = Resumable /\ CbsOf(m_fibers)' = CbsOf(m_fibers)
    BY <2>1 DEF Resumable
  <2>4. ~Live(f)' /\ ~Live(f) /\ fiber'[f].m_state # "EXEC"
    BY <2>1, <2>2 DEF Live
  <2>5. SpareOK(t)'
    BY <1>2, <1>4, <1>5, <2>1, <2>2 DEF SpareOK, TaskInv
  <2> QED BY <1>1, <1>2, <1>3, <1>4, <2>2, <2>3, <2>4, <2>5, HolderTask DEF Retire
<1> QED BY <1>6, <1>7, <1>8

(* A task moves from the queue into a thread's hands.                      *)
LEMMA TakeTask ==
    ASSUME Inv, TaskInv, NEW t \in Worker, Take(t)
    PROVE  TaskInv'
<1> USE NoneIsNoJob DEF TaskInv
<1>1. PICK i \in DOMAIN m_fibers :
        /\ FirstRunnable(i, t)
        /\ ft' = [ft EXCEPT ![t] = m_fibers[i]]
        /\ m_fibers' = RemoveAt(m_fibers, i)
  BY DEF Take
<1> SUFFICES ASSUME NEW task, task = m_fibers[i] PROVE TaskInv'
  OBVIOUS
<1>2. /\ FibersOf(m_fibers)' = FibersOf(m_fibers) \ {task.fiber}
      /\ CbsOf(m_fibers)' = CbsOf(m_fibers) \ {task.cb}
  BY <1>1, TakeOut DEF Inv, TypeOK
<1>3. /\ task.cb # None => task.cb \in CbsOf(m_fibers)
      /\ task.fiber # None => fiber[task.fiber].m_state # "EXEC"
      /\ None \notin FibersOf(m_fibers)
  BY <1>1, QueueElements DEF Inv, TypeOK, FirstRunnable, Runnable
<1>4. /\ pc[t] = "take" /\ pc'[t] = "dispatch" /\ ft'[t] = task
      /\ \A u \in Worker \ {t} : pc'[u] = pc[u] /\ ft'[u] = ft[u]
      /\ UNCHANGED <<fiber, submitted, done, armed, cb_fiber>>
  BY <1>1 DEF Take, Goto, Inv, TypeOK
<1>5. /\ Held(t) = None /\ Held(t)' = task.fiber /\ ft[t].cb = None
      /\ \A u \in Worker \ {t} : /\ Held(u)' = Held(u) /\ Cur(u)' = Cur(u)
      /\ \A u \in Worker : RunsCb(u)' <=> RunsCb(u)
  BY <1>4 DEF Held, Executing, Cur, RunsCb, Inv, LocalOK
<1>6. \A j \in Job : Pending(j)' <=> Pending(j)
  <2> SUFFICES ASSUME NEW j \in Job PROVE Pending(j)' <=> Pending(j)
    OBVIOUS
  <2>1. (\E u \in Worker : ft'[u].cb = j) <=> (\E u \in Worker : ft[u].cb = j) \/ task.cb = j
    BY <1>4, <1>5
  <2> QED BY <1>2, <1>3, <2>1 DEF Pending
<1>7. CarriedOK'
  BY <1>4, <1>6, CarriedKept DEF Live, Inv
<1>8. PlacedOK' /\ ExecHeld'
  <2>1. ASSUME NEW f \in Job, NEW u \in Worker, Held(u) = f
        PROVE  \E v \in Worker : Held(v)' = f
    <3>1. u # t
      BY <1>5, <2>1
    <3> QED BY <1>5, <2>1, <3>1
  <2>2. \A f \in Resumable : f \in Resumable' \/ Held(t)' = f
    BY <1>2, <1>4, <1>5 DEF Resumable
  <2> QED BY <1>4, <2>1, <2>2 DEF PlacedOK, ExecHeld, Live
<1>9. ASSUME NEW u \in Worker PROVE LeavingOK(u)' /\ SpareOK(u)'
  <2>1. SpareOK(u)'
    BY <1>4, <1>5 DEF SpareOK
  <2>2. CASE u = t
    BY <1>4, <2>1, <2>2 DEF LeavingOK
  <2>3. CASE u # t
    <3>1. pc[u] = "hold" => fiber[Cur(u)].m_state = "EXEC"
      BY DEF Inv, LocalOK
    <3>2. fiber[Cur(u)].m_state = "EXEC" /\ Cur(u) \in Resumable => Cur(u) \in Resumable'
      BY <1>2, <1>3, <1>4 DEF Resumable
    <3> QED BY <1>4, <1>5, <2>1, <2>3, <3>1, <3>2 DEF LeavingOK
  <2> QED BY <2>2, <2>3
<1> QED BY <1>7, <1>8, <1>9

(* The body ends, and its callback with it.                                *)
LEMMA FinishTask ==
    ASSUME Inv, TaskInv, NEW t \in Worker, Finish(t)
    PROVE  TaskInv'
<1> SUFFICES ASSUME NEW f, f = Cur(t), NEW c, c = fiber[f].m_cb PROVE TaskInv'
  OBVIOUS
<1> USE NoneIsNoJob DEF TaskInv
<1>1. /\ pc[t] = "exec" /\ Executing(t) /\ fiber[f].m_state = "EXEC"
      /\ pc'[t] = "back" /\ \A u \in Worker \ {t} : pc'[u] = pc[u]
      /\ done' = done \cup {c}
      /\ UNCHANGED <<m_fibers, submitted, armed, ft, cb_fiber>>
  BY DEF Finish, Goto, Executing, Inv, TypeOK, LocalOK
<1>2. /\ f = Held(t) /\ f \in Job /\ fiber[f] \in FiberObject /\ c \in Job
      /\ \A u \in Worker : cb_fiber[u] = f => u = t /\ RunsCb(t)
      /\ \A u \in Worker \ {t} : Held(u) # f
  BY <1>1, CurIsHeld, CurHasBody, HeldFacts
<1>3. /\ \A g \in Job \ {f} : fiber'[g] = fiber[g]
      /\ fiber'[f].m_state \in {"TERM", "EXCEPT"}
  <2>1. PICK o \in {MainFuncReturn(fiber[f]), MainFuncThrow(fiber[f])} :
          fiber' = [fiber EXCEPT ![f] = o]
    BY DEF Finish
  <2>2. o.m_state \in {"TERM", "EXCEPT"} /\ fiber \in [Job -> FiberObject]
    BY <1>2, <2>1, FiberOperations DEF Inv, TypeOK
  <2> QED BY <1>2, <2>1, <2>2
<1>4. /\ Live(f) /\ ~Live(f)'
      /\ \A g \in Job \ {f} : Live(g)' <=> Live(g)
      /\ \A j : Pending(j)' <=> Pending(j)
      /\ Resumable' = Resumable
      /\ \A u \in Worker : /\ Held(u)' = Held(u) /\ Cur(u)' = Cur(u)
                           /\ RunsCb(u)' <=> RunsCb(u)
  BY <1>1, <1>2, <1>3 DEF Live, Pending, Resumable, Held, Executing, Cur, RunsCb
<1>5. CarriedOK'
  <2>1. done' \subseteq submitted'
    BY <1>1, <1>2, <1>4 DEF CarriedOK
  <2>2. ASSUME NEW g \in Job, Live(g)'
        PROVE  /\ g # f /\ Live(g) /\ fiber'[g].m_cb = fiber[g].m_cb
               /\ fiber'[g].m_cb \in submitted' \ done'
    <3>1. g # f /\ Live(g) /\ fiber'[g] = fiber[g]
      BY <1>3, <1>4, <2>2
    <3>2. fiber[g].m_cb # c
      BY <1>2, <1>4, <3>1 DEF CarriedOK
    <3> QED BY <1>1, <3>1, <3>2 DEF CarriedOK
  <2>3. ASSUME NEW g \in Job, NEW h \in Job, Live(g)', Live(h)',
               fiber'[g].m_cb = fiber'[h].m_cb
        PROVE  g = h
    BY <2>2, <2>3 DEF CarriedOK
  <2>4. ASSUME NEW j \in submitted' \ done', ~Pending(j)'
        PROVE  \E g \in Job : Live(g)' /\ fiber'[g].m_cb = j
    <3>1. PICK g \in Job : Live(g) /\ fiber[g].m_cb = j
      BY <1>1, <1>4, <2>4 DEF CarriedOK
    <3>2. g # f
      BY <1>1, <2>4, <3>1
    <3> QED BY <1>3, <1>4, <3>1, <3>2
  <2>5. ASSUME NEW j \in Job, Pending(j)'
        PROVE  /\ j \in submitted' \ done'
               /\ \A g \in Job : Live(g)' => fiber'[g].m_cb # j
    <3>1. j \in submitted \ done /\ \A g \in Job : Live(g) => fiber[g].m_cb # j
      BY <1>4, <2>5 DEF CarriedOK
    <3>2. j # c
      BY <1>2, <1>4, <3>1
    <3> QED BY <1>1, <2>2, <3>1, <3>2
  <2> QED BY <2>1, <2>2, <2>3, <2>4, <2>5 DEF CarriedOK
<1>6. PlacedOK'
  BY <1>4 DEF PlacedOK
<1>7. ExecHeld'
  BY <1>3, <1>4 DEF ExecHeld
<1>8. ASSUME NEW u \in Worker PROVE LeavingOK(u)' /\ SpareOK(u)'
  <2>1. SpareOK(u)'
    <3>1. cb_fiber[u] \in Job \cup {None}
      BY DEF Inv, TypeOK
    <3> QED BY <1>1, <1>2, <1>3, <1>4, <3>1 DEF SpareOK
  <2>2. CASE u = t
    BY <1>1, <1>3, <1>4, <2>1, <2>2 DEF LeavingOK
  <2>3. CASE u # t
    <3>1. pc[u] \in {"hold", "back", "after"} => Cur(u) \in Job /\ Cur(u) # f
      BY <1>2, <2>3, CurIsHeld DEF Executing
    <3> QED BY <1>1, <1>3, <1>4, <2>1, <2>3, <3>1 DEF LeavingOK
  <2> QED BY <2>2, <2>3
<1> QED BY <1>5, <1>6, <1>7, <1>8

(* A callback in a thread's hands gets a fiber that had none to run.       *)
LEMMA DispatchCbTask ==
    ASSUME Inv, TaskInv, NEW t \in Worker, DispatchCb(t)
    PROVE  TaskInv'
<1> USE NoneIsNoJob DEF TaskInv
<1> SUFFICES ASSUME NEW c, c = ft[t].cb,
                    NEW f, f = IF cb_fiber[t] # None THEN cb_fiber[t] ELSE c
             PROVE  TaskInv'
  OBVIOUS
<1>1. /\ pc[t] = "dispatch" /\ ft[t].fiber = None
      /\ pc'[t] = "exec" /\ ft'[t] = EmptyTask /\ cb_fiber'[t] = f
      /\ \A u \in Worker \ {t} : /\ pc'[u] = pc[u] /\ ft'[u] = ft[u]
                                 /\ cb_fiber'[u] = cb_fiber[u]
      /\ UNCHANGED <<m_fibers, submitted, done, armed>>
  BY DEF DispatchCb, Goto, Inv, TypeOK
<1>2. /\ c \in Job /\ fiber[c].m_state = "NONE"
      /\ \A u \in Worker \ {t} : ft[u].cb # c
      /\ c \notin CbsOf(m_fibers)
      /\ ~RunsCb(t) /\ Held(t) = None
  <2>1. c # None /\ fiber[c].m_state = "NONE"
    BY <1>1 DEF LocalOK, Inv
  <2>2. c \in Job
    BY <2>1 DEF TypeOK, FiberAndThread, Inv
  <2> QED BY <1>1, <2>1, <2>2 DEF CbTaskUnique, CallbackOK, RunsCb, Executing, Held, Inv
<1>3. /\ f \in Job /\ ~Live(f)
      /\ \A u \in Worker \ {t} : cb_fiber[u] # f
      /\ \A u \in Worker : Held(u) # f
  <2>1. CASE cb_fiber[t] # None
    BY <1>2, <2>1 DEF CbFiberOK, CbFiberUnique, TypeOK, SpareOK, Live, Inv
  <2>2. CASE cb_fiber[t] = None
    <3>1. \A u \in Worker : Held(u) # c
      BY <1>2, HeldFacts
    <3>2. \A u \in Worker \ {t} : cb_fiber[u] # c
      BY <1>2, <3>1 DEF CbFiberOK, RunsCb, Held, Executing, Cur, Inv
    <3> QED BY <1>2, <2>2, <3>1, <3>2 DEF Live
  <2> QED BY <2>1, <2>2
<1>4. /\ \A g \in Job \ {f} : fiber'[g] = fiber[g]
      /\ fiber'[f].m_state = "EXEC" /\ fiber'[f].m_cb = c
  <2>1. PICK o \in {reset(fiber[f], c), Construct(c)} :
          fiber' = [fiber EXCEPT ![f] = swapIn(o)]
    BY DEF DispatchCb
  <2>2. o \in FiberObject /\ o.m_cb = c
    <3>1. fiber[f] \in FiberObject
      BY <1>3 DEF Inv, TypeOK
    <3>2. reset(fiber[f], c).m_cb = c /\ Construct(c).m_cb = c
      BY DEF reset, Construct
    <3>3. reset(fiber[f], c) \in FiberObject /\ Construct(c) \in FiberObject
      BY <1>2, <3>1, FiberOperations
    <3> QED BY <2>1, <3>2, <3>3
  <2>3. swapIn(o).m_state = "EXEC" /\ swapIn(o).m_cb = c
    BY <2>2, FiberOperations
  <2> QED BY <1>3, <2>1, <2>3 DEF Inv, TypeOK
<1>5. /\ Live(f)' /\ \A g \in Job \ {f} : Live(g)' <=> Live(g)
      /\ \A j \in Job : Pending(j)' <=> Pending(j) /\ j # c
      /\ Resumable' = Resumable
  <2>1. \A j \in Job : Pending(j)' <=> Pending(j) /\ j # c
    <3> SUFFICES ASSUME NEW j \in Job PROVE Pending(j)' <=> Pending(j) /\ j # c
      OBVIOUS
    <3>1. ft'[t].cb = None
      BY <1>1 DEF EmptyTask
    <3>2. (\E u \in Worker : ft'[u].cb = j) <=> (\E u \in Worker : ft[u].cb = j) /\ j # c
      BY <1>1, <1>2, <3>1
    <3> QED BY <1>1, <1>2, <3>2 DEF Pending
  <2> QED BY <1>1, <1>2, <1>4, <2>1 DEF Live, Resumable
<1>6. /\ Held(t)' = f /\ RunsCb(t)'
      /\ \A u \in Worker \ {t} : /\ Held(u)' = Held(u) /\ Cur(u)' = Cur(u)
                                 /\ RunsCb(u)' <=> RunsCb(u)
  BY <1>1 DEF Held, Executing, Cur, RunsCb, EmptyTask
<1>7. /\ Pending(c) /\ c \in submitted \ done
      /\ \A g \in Job : Live(g) => fiber[g].m_cb # c
  BY <1>2 DEF CarriedOK, Pending
<1>8. CarriedOK'
  <2>1. ASSUME NEW g \in Job, Live(g)'
        PROVE  /\ fiber'[g].m_cb \in submitted' \ done'
               /\ g # f => Live(g) /\ fiber'[g] = fiber[g] /\ fiber'[g].m_cb # c
    BY <1>1, <1>4, <1>5, <1>7, <2>1 DEF CarriedOK
  <2>2. ASSUME NEW g \in Job, NEW h \in Job, Live(g)', Live(h)',
               fiber'[g].m_cb = fiber'[h].m_cb
        PROVE  g = h
    BY <1>4, <2>1, <2>2 DEF CarriedOK
  <2>3. ASSUME NEW j \in submitted' \ done', ~Pending(j)'
        PROVE  \E g \in Job : Live(g)' /\ fiber'[g].m_cb = j
    <3>1. CASE j = c
      BY <1>3, <1>4, <1>5, <3>1
    <3>2. CASE j # c
      <4>1. j \in submitted \ done /\ ~Pending(j)
        BY <1>1, <1>5, <2>3, <3>2 DEF Inv, TypeOK
      <4>2. PICK g \in Job : Live(g) /\ fiber[g].m_cb = j
        BY <4>1 DEF CarriedOK
      <4> QED BY <1>3, <1>4, <1>5, <4>2
    <3> QED BY <3>1, <3>2
  <2>4. ASSUME NEW j \in Job, Pending(j)'
        PROVE  /\ j \in submitted' \ done'
               /\ \A g \in Job : Live(g)' => fiber'[g].m_cb # j
    <3>1. /\ j \in submitted \ done /\ j # c
          /\ \A g \in Job : Live(g) => fiber[g].m_cb # j
      BY <1>5, <2>4 DEF CarriedOK
    <3> QED BY <1>1, <1>4, <2>1, <3>1
  <2>5. done' \subseteq submitted'
    BY <1>1 DEF CarriedOK
  <2> QED BY <2>1, <2>2, <2>3, <2>4, <2>5 DEF CarriedOK
<1>9. PlacedOK' /\ ExecHeld'
  <2>1. ASSUME NEW g \in Job, NEW u \in Worker, Held(u) = g
        PROVE  \E v \in Worker : Held(v)' = g
    <3>1. u # t
      BY <1>2, <2>1
    <3> QED BY <1>6, <2>1, <3>1
  <2> QED BY <1>4, <1>5, <1>6, <2>1 DEF PlacedOK, ExecHeld
<1>10. ASSUME NEW u \in Worker PROVE LeavingOK(u)' /\ SpareOK(u)'
  <2>1. CASE u = t
    BY <1>1, <1>6, <2>1 DEF LeavingOK, SpareOK
  <2>2. CASE u # t
    <3>1. pc[u] \in {"hold", "back", "after"} => Cur(u) \in Job /\ Cur(u) # f
      BY <1>3, CurIsHeld DEF Executing
    <3>2. cb_fiber[u] \in Job \cup {None} /\ cb_fiber[u] # f
      BY <1>3, <2>2 DEF Inv, TypeOK
    <3> QED BY <1>1, <1>4, <1>5, <1>6, <2>2, <3>1, <3>2 DEF LeavingOK, SpareOK
  <2> QED BY <2>1, <2>2
<1> QED BY <1>8, <1>9, <1>10

-----------------------------------------------------------------------------
(* Clients, start() and stop().                                            *)

(* A fresh callback is submitted.                                          *)
LEMMA SubmitTask ==
    ASSUME Inv, TaskInv, NEW j \in Job, NEW thr \in Pins, Submit(j, thr)
    PROVE  TaskInv'
<1> USE NoneIsNoJob DEF TaskInv
<1>1. /\ j \notin submitted /\ submitted' = submitted \cup {j}
      /\ fiber[j].m_state = "NONE" /\ thr \in Worker \cup {None}
      /\ UNCHANGED <<done, armed, pc, ft, cb_fiber>>
  BY SchedulerAssumption DEF Submit, CallbackOK, locals, Inv
<1>2. \A u \in Worker : Held(u)' = Held(u) /\ Cur(u)' = Cur(u)
                        /\ (RunsCb(u)' <=> RunsCb(u))
  BY <1>1 DEF Held, Executing, Cur, RunsCb
<1>3. ASSUME NEW i \in submitted PROVE i # j
  BY <1>1
<1>4. CASE ScheduleCb(j, thr)
  <2>1. /\ fiber' = fiber
        /\ FibersOf(m_fibers)' = FibersOf(m_fibers)
        /\ CbsOf(m_fibers)' = CbsOf(m_fibers) \cup {j}
    <3>1. j \notin CbsOf(m_fibers)
      BY <1>1 DEF Inv, CallbackOK
    <3> QED BY <1>1, <1>4, <3>1, AppendCb DEF ScheduleCb, Inv, TypeOK
  <2>2. /\ \A f \in Job : Live(f)' <=> Live(f)
        /\ \A i : Pending(i)' <=> Pending(i) \/ i = j
        /\ Resumable' = Resumable
    BY <1>1, <2>1 DEF Live, Pending, Resumable
  <2>3. CarriedOK'
    <3>1. \A f \in Job : Live(f) => fiber[f].m_cb # j
      BY <1>1 DEF CarriedOK
    <3>2. done \subseteq submitted /\ j \notin done
      BY <1>1 DEF CarriedOK
    <3> QED BY <1>1, <2>1, <2>2, <3>1, <3>2 DEF CarriedOK
  <2>4. PlacedOK' /\ ExecHeld'
    BY <1>2, <2>1, <2>2 DEF PlacedOK, ExecHeld
  <2>5. \A u \in Worker : LeavingOK(u)' /\ SpareOK(u)'
    BY <1>1, <1>2, <2>1, <2>2 DEF LeavingOK, SpareOK
  <2> QED BY <2>3, <2>4, <2>5
<1>5. CASE ScheduleFiber(j, thr)
  <2>1. /\ \A g \in Job \ {j} : fiber'[g] = fiber[g]
        /\ fiber'[j].m_state = "INIT" /\ fiber'[j].m_cb = j
    BY <1>5 DEF ScheduleFiber, Construct, Inv, TypeOK
  <2>2. /\ FibersOf(m_fibers)' = FibersOf(m_fibers) \cup {j}
        /\ CbsOf(m_fibers)' = CbsOf(m_fibers)
    <3>1. j \notin FibersOf(m_fibers)
      BY <1>1 DEF Inv, ResumableOK
    <3> QED BY <1>1, <1>5, <3>1, AppendFiber DEF ScheduleFiber, Inv, TypeOK
  <2>3. /\ ~Live(j) /\ Live(j)'
        /\ \A g \in Job \ {j} : Live(g)' <=> Live(g)
        /\ \A i : Pending(i)' <=> Pending(i)
        /\ Resumable' = Resumable \cup {j}
    BY <1>1, <2>1, <2>2 DEF Live, Pending, Resumable
  <2>4. CarriedOK'
    <3>1. /\ \A g \in Job : Live(g) => fiber[g].m_cb # j
          /\ done \subseteq submitted /\ j \notin done /\ ~Pending(j)
      BY <1>1 DEF CarriedOK
    <3>2. ASSUME NEW g \in Job, Live(g)'
          PROVE  /\ fiber'[g].m_cb \in submitted' \ done'
                 /\ g # j => Live(g) /\ fiber'[g] = fiber[g] /\ fiber'[g].m_cb # j
      BY <1>1, <2>1, <2>3, <3>1, <3>2 DEF CarriedOK
    <3>3. ASSUME NEW g \in Job, NEW h \in Job, Live(g)', Live(h)',
                 fiber'[g].m_cb = fiber'[h].m_cb
          PROVE  g = h
      BY <2>1, <3>2, <3>3 DEF CarriedOK
    <3>4. ASSUME NEW i \in submitted' \ done', ~Pending(i)'
          PROVE  \E g \in Job : Live(g)' /\ fiber'[g].m_cb = i
      <4>1. CASE i = j
        BY <2>1, <2>3, <4>1
      <4>2. CASE i # j
        <5>1. i \in submitted \ done /\ ~Pending(i)
          BY <1>1, <2>3, <3>4, <4>2
        <5>2. PICK g \in Job : Live(g) /\ fiber[g].m_cb = i
          BY <5>1 DEF CarriedOK
        <5> QED BY <2>1, <2>3, <5>2
      <4> QED BY <4>1, <4>2
    <3>5. ASSUME NEW i \in Job, Pending(i)'
          PROVE  /\ i \in submitted' \ done'
                 /\ \A g \in Job : Live(g)' => fiber'[g].m_cb # i
      <4>1. /\ i \in submitted \ done /\ i # j
            /\ \A g \in Job : Live(g) => fiber[g].m_cb # i
        BY <2>3, <3>1, <3>5 DEF CarriedOK
      <4> QED BY <1>1, <2>1, <3>2, <4>1
    <3> QED BY <1>1, <3>1, <3>2, <3>3, <3>4, <3>5 DEF CarriedOK
  <2>5. PlacedOK' /\ ExecHeld'
    BY <1>2, <2>1, <2>3 DEF PlacedOK, ExecHeld
  <2>6. ASSUME NEW u \in Worker PROVE LeavingOK(u)' /\ SpareOK(u)'
    <3>1. pc[u] \in {"hold", "back", "after"} => Cur(u) \in Job /\ Cur(u) # j
      BY <1>1, CurIsHeld, HeldFacts DEF Executing
    <3>2. cb_fiber[u] # None /\ ~RunsCb(u) => cb_fiber[u] \in Job /\ cb_fiber[u] # j
      BY <1>1 DEF Inv, TypeOK, CbFiberOK
    <3> QED BY <1>1, <1>2, <2>1, <2>3, <3>1, <3>2 DEF LeavingOK, SpareOK
  <2> QED BY <2>4, <2>5, <2>6
<1> QED BY <1>4, <1>5 DEF Submit

LEMMA SubmitBatchTask ==
    ASSUME Inv, TaskInv, MainSubmitBatch
    PROVE  TaskInv'
<1> USE NoneIsNoJob DEF TaskInv
<1>1. PICK i, j \in Job \ submitted :
        /\ i # j
        /\ m_fibers' = scheduleNoLock(scheduleNoLock(m_fibers, CbTask(i, None)),
                                      CbTask(j, None))
        /\ submitted' = submitted \cup {i, j}
  BY DEF MainSubmitBatch
<1>2. UNCHANGED <<fiber, done, armed, pc, ft, cb_fiber>>
  BY DEF MainSubmitBatch, locals
<1>3. FibersOf(m_fibers)' = FibersOf(m_fibers)
      /\ CbsOf(m_fibers)' = CbsOf(m_fibers) \cup {i, j}
  <2> SUFFICES ASSUME NEW q, q = scheduleNoLock(m_fibers, CbTask(i, None))
               PROVE  FibersOf(m_fibers)' = FibersOf(m_fibers)
                      /\ CbsOf(m_fibers)' = CbsOf(m_fibers) \cup {i, j}
    OBVIOUS
  <2>1. i \notin CbsOf(m_fibers) /\ j \notin CbsOf(m_fibers)
    BY DEF Inv, CallbackOK
  <2>2. /\ q \in Seq(FiberAndThread) /\ QueueOK(q)
        /\ FibersOf(q) = FibersOf(m_fibers)
        /\ CbsOf(q) = CbsOf(m_fibers) \cup {i}
    BY <2>1, AppendCb DEF Inv, TypeOK
  <2>3. /\ FibersOf(m_fibers') = FibersOf(q)
        /\ CbsOf(m_fibers') = CbsOf(q) \cup {j}
    BY <1>1, <2>1, <2>2, AppendCb
  <2> QED BY <2>2, <2>3
<1>4. /\ \A f \in Job : Live(f)' <=> Live(f)
      /\ \A k : Pending(k)' <=> Pending(k) \/ k \in {i, j}
      /\ Resumable' = Resumable
      /\ \A u \in Worker : Held(u)' = Held(u) /\ Cur(u)' = Cur(u)
                           /\ (RunsCb(u)' <=> RunsCb(u))
  BY <1>2, <1>3 DEF Live, Pending, Resumable, Held, Executing, Cur, RunsCb
<1>5. CarriedOK'
  <2>1. /\ \A f \in Job : Live(f) => fiber[f].m_cb \notin {i, j}
        /\ done \subseteq submitted /\ i \notin done /\ j \notin done
    BY <1>1 DEF CarriedOK
  <2> QED BY <1>1, <1>2, <1>4, <2>1 DEF CarriedOK
<1>6. PlacedOK' /\ ExecHeld'
  BY <1>2, <1>4 DEF PlacedOK, ExecHeld
<1>7. \A u \in Worker : LeavingOK(u)' /\ SpareOK(u)'
  BY <1>2, <1>4 DEF LeavingOK, SpareOK
<1> QED BY <1>5, <1>6, <1>7

(* A fiber is queued by somebody who has no thread's fiber in hand.        *)
LEMMA WakeTask ==
    ASSUME Inv, TaskInv, NEW f \in Job, Wake(f) \/ ScheduleFinished(f)
    PROVE  TaskInv'
<1>1. /\ UNCHANGED <<fiber, submitted, done, pc, ft, cb_fiber>>
      /\ m_fibers' = scheduleNoLock(m_fibers, FiberTask(f, None))
      /\ armed' \in {armed, armed \ {f}}
      /\ f \notin FibersOf(m_fibers)
  BY DEF Wake, ScheduleFinished, locals, Inv, ResumableOK
<1>2. /\ FibersOf(m_fibers)' = FibersOf(m_fibers) \cup {f}
      /\ CbsOf(m_fibers)' = CbsOf(m_fibers)
  BY <1>1, AppendFiber DEF Inv, TypeOK
<1>3. Resumable \subseteq Resumable'
  BY <1>1, <1>2 DEF Resumable
<1>4. \A u \in Worker : Held(u)' = Held(u) /\ Cur(u)' = Cur(u)
                        /\ (RunsCb(u)' <=> RunsCb(u))
  BY <1>1 DEF Held, Executing, Cur, RunsCb
<1> QED BY <1>1, <1>2, <1>3, <1>4, OthersTask

(* Threads come and go, and stop() waits.                                  *)
LEMMA ControlTask ==
    ASSUME Inv, TaskInv, UNCHANGED <<tasks, ft, cb_fiber>>,
           \A u \in Worker : \/ pc'[u] = pc[u]
                             \/ /\ pc[u] \in {"off", "take", "idle"}
                                /\ pc'[u] \in {"take", "idle", "exit"}
    PROVE  TaskInv'
<1>1. \A u \in Worker : Held(u)' = Held(u) /\ Cur(u)' = Cur(u)
                        /\ (RunsCb(u)' <=> RunsCb(u))
  BY DEF Held, Executing, Cur, RunsCb
<1>2. Resumable' = Resumable /\ CbsOf(m_fibers)' = CbsOf(m_fibers)
  BY DEF tasks, Resumable
<1> QED BY <1>1, <1>2, OthersTask DEF tasks

LEMMA StartStopTask ==
    ASSUME Inv, TaskInv, Start \/ StopBegin \/ Stop
    PROVE  TaskInv'
<1>1. Caller \in Worker
  BY DEF Worker
<1>2. UNCHANGED <<tasks, ft, cb_fiber>>
  BY DEF Start, StopBegin, Stop, StopAlone, StopAloneCheck, StopAll, StopRoot,
         RootReturn, Join, locals
<1>3. \A u \in Worker : pc'[u] = pc[u] \/ (pc[u] = "off" /\ pc'[u] = "take")
  <2>1. CASE Start
    BY <2>1 DEF Start, Inv, EntryOK
  <2>2. CASE StopRoot
    BY <1>1, <2>2 DEF StopRoot, Goto, Inv, EntryOK, TypeOK
  <2>3. CASE StopBegin \/ StopAlone \/ StopAloneCheck \/ StopAll \/ RootReturn \/ Join
    BY <2>3 DEF StopBegin, StopAlone, StopAloneCheck, StopAll, RootReturn, Join, locals
  <2> QED BY <2>1, <2>2, <2>3 DEF Stop
<1> QED BY <1>2, <1>3, ControlTask

LEMMA IdleTask ==
    ASSUME Inv, TaskInv, NEW t \in Worker, TakeNothing(t) \/ Idle(t)
    PROVE  TaskInv'
<1>1. /\ UNCHANGED <<tasks, ft, cb_fiber>>
      /\ pc[t] \in {"take", "idle"} /\ pc'[t] \in {"take", "idle", "exit"}
      /\ \A u \in Worker \ {t} : pc'[u] = pc[u]
  BY DEF TakeNothing, Idle, Goto, Inv, TypeOK
<1> QED BY <1>1, ControlTask

-----------------------------------------------------------------------------
LEMMA InitTask == Init => TaskInv
<1> SUFFICES ASSUME Init PROVE TaskInv
  OBVIOUS
<1>1. /\ \A f \in Job : ~Live(f) /\ fiber[f].m_state # "EXEC"
      /\ done = {} /\ submitted = {}
      /\ \A t \in Worker : pc[t] = "off" /\ ft[t].cb = None /\ cb_fiber[t] = None
  BY DEF Init, Live, NoFiber, EmptyTask
<1>2. CbsOf(m_fibers) = {}
  BY DEF Init, CbsOf
<1>3. \A j \in Job : ~Pending(j)
  BY <1>1, <1>2, NoneIsNoJob DEF Pending
<1>4. CarriedOK
  BY <1>1, <1>3 DEF CarriedOK
<1>5. PlacedOK /\ ExecHeld
  BY <1>1 DEF PlacedOK, ExecHeld
<1>6. \A t \in Worker : LeavingOK(t) /\ SpareOK(t)
  BY <1>1 DEF LeavingOK, SpareOK
<1> QED BY <1>4, <1>5, <1>6 DEF TaskInv

LEMMA NextTask == Inv /\ TaskInv /\ [Next]_vars => TaskInv'
<1> SUFFICES ASSUME Inv, TaskInv, [Next]_vars PROVE TaskInv'
  OBVIOUS
<1>1. CASE UNCHANGED vars
  <2>1. UNCHANGED <<tasks, ft, cb_fiber, pc>>
    BY <1>1 DEF vars, locals
  <2> QED BY <2>1, ControlTask
<1>2. CASE Start \/ StopBegin \/ Stop
  BY <1>2, StartStopTask
<1>3. CASE MainSubmit
  BY <1>3, SubmitTask DEF MainSubmit
<1>4. CASE MainSubmitBatch
  BY <1>4, SubmitBatchTask
<1>5. ASSUME NEW f \in Job, Wake(f) \/ ScheduleFinished(f) PROVE TaskInv'
  BY <1>5, WakeTask
<1>6. ASSUME NEW t \in Worker, Run(t) PROVE TaskInv'
  BY <1>6, TakeTask, IdleTask, DispatchFiberTask, DispatchCbTask, YieldTask,
     LetGoTask DEF Run
<1>7. ASSUME NEW t \in Worker, Body(t) PROVE TaskInv'
  BY <1>7, FinishTask, YieldTask, HandOverTask DEF Body
<1>8. ASSUME NEW t \in Worker, BodySubmit(t) PROVE TaskInv'
  BY <1>8, SubmitTask DEF BodySubmit
<1> QED BY <1>1, <1>2, <1>3, <1>4, <1>5, <1>6, <1>7, <1>8 DEF Next

THEOREM TaskInvariance == Spec => []TaskInv
BY InitTask, NextTask, Invariance, PTL DEF Spec

(* However many threads there are and however their steps interleave, a    *)
(* callback that was submitted and has not ended can still be run: it is   *)
(* queued, in a thread's hands, or its fiber is queued, held or armed.     *)
THEOREM NoTaskLost == Spec => []NoLostTask
<1>1. ASSUME Inv, TaskInv PROVE NoLostTask
  <2> SUFFICES ASSUME NEW j \in submitted \ done, j \notin CbsOf(m_fibers),
                      ~\E t \in Worker : pc[t] = "dispatch" /\ ft[t].cb = j
               PROVE  \E f \in Job :
                        /\ fiber[f].m_cb = j
                        /\ \/ f \in FibersOf(m_fibers) \cup armed
                           \/ \E t \in Worker : Held(t) = f
    BY DEF NoLostTask
  <2>1. j \in Job /\ j # None
    BY <1>1, NoneIsNoJob DEF Inv, TypeOK
  <2>2. ~Pending(j)
    BY <1>1, <2>1 DEF Pending, Inv, LocalOK
  <2>3. PICK f \in Job : Live(f) /\ fiber[f].m_cb = j
    BY <1>1, <2>2 DEF TaskInv, CarriedOK
  <2>4. f \in Resumable \/ \E t \in Worker : Held(t) = f
    BY <1>1, <2>3 DEF TaskInv, PlacedOK
  <2> QED BY <2>3, <2>4 DEF Resumable
<1> QED BY <1>1, Invariance, TaskInvariance, PTL

(* No callback runs twice, whoever resumes its fiber and whichever fiber   *)
(* is used again for the next callback.                                    *)
THEOREM RunAtMostOnce == Spec => []AtMostOnce
<1>1. ASSUME Inv, TaskInv PROVE AtMostOnce
  <2> SUFFICES ASSUME NEW t \in Worker, pc[t] \in {"exec", "hold"}
               PROVE  fiber[Cur(t)].m_cb \in submitted \ done
    BY DEF AtMostOnce
  <2>1. Executing(t) /\ fiber[Cur(t)].m_state = "EXEC"
    BY <1>1 DEF Executing, Inv, LocalOK
  <2>2. Cur(t) \in Job /\ fiber[Cur(t)].m_cb \in Job
    BY <1>1, <2>1, CurIsHeld, CurHasBody
  <2>3. Live(Cur(t))
    BY <2>1, <2>2, NoneIsNoJob DEF Live
  <2> QED BY <1>1, <2>2, <2>3 DEF TaskInv, CarriedOK
<1> QED BY <1>1, Invariance, TaskInvariance, PTL
-----------------------------------------------------------------------------
(* Who is in run(), and what may be left in the queue without anybody.     *)

(* The pool's threads enter run() in start() and leave it only after       *)
(* stop() has begun; stop() waits for each of them.                        *)
PresenceOK ==
    /\ m_threads # {} \/ m_rootThread # None
    /\ \A t \in Worker : pc[t] # "off" => t \in m_threads \cup {Caller}
    /\ main # "new" => \A t \in m_threads : pc[t] # "off"
    /\ main \in {"new", "running"} => ~m_autoStop
    /\ \A t \in Worker : idle_fiber[t] = "TERM" \/ pc[t] = "exit" => m_autoStop
    /\ main \in {"stop2", "stop3"} => m_threads = {}
    /\ main \in {"join", "stopped"} => pc[Caller] \in {"off", "exit"}
    /\ main = "stopped" => \A t \in m_threads : pc[t] = "exit"

(* A task that any thread may take.                                        *)
Unpinned(q) == \E i \in DOMAIN q : q[i].thread = None

(* Such a task has a thread in run(), or one is still to come.             *)
AttendedOK ==
    Unpinned(m_fibers) =>
        \/ Alive
        \/ main = "new"
        \/ m_threads = {} /\ main \in {"running", "stop1", "stop2", "stop3", "stop4"}

QuietInv == PresenceOK /\ AttendedOK

-----------------------------------------------------------------------------
(* Steps that leave PresenceOK and AttendedOK as they are.                 *)

(* A pool that runs has a thread in run(), or nobody but the creator.      *)
LEMMA RunningAttended ==
    ASSUME Inv, PresenceOK, main = "running"
    PROVE  Alive \/ m_threads = {}
<1> SUFFICES ASSUME NEW t \in m_threads PROVE Alive
  OBVIOUS
<1>1. t \in Worker /\ pc[t] \notin {"off", "exit"}
  BY DEF Inv, TypeOK, Worker, PresenceOK
<1> QED BY <1>1 DEF Alive

(* Steps that leave the control variables, and every thread in or out of   *)
(* run().                                                                  *)
LEMMA PresenceKept ==
    ASSUME Inv, PresenceOK, UNCHANGED <<control, idle_fiber>>,
           \A u \in Worker : /\ pc'[u] = "off" <=> pc[u] = "off"
                             /\ pc'[u] = "exit" <=> pc[u] = "exit"
    PROVE  PresenceOK' /\ (Alive' <=> Alive)
<1>1. Alive' <=> Alive
  BY DEF Alive
<1>2. Caller \in Worker /\ m_threads \subseteq Worker
  BY DEF Worker, Inv, TypeOK
<1>3. /\ \A t \in Worker : pc'[t] # "off" => t \in m_threads' \cup {Caller}
      /\ main' # "new" => \A t \in m_threads' : pc'[t] # "off"
      /\ main' = "stopped" => \A t \in m_threads' : pc'[t] = "exit"
  BY <1>2 DEF PresenceOK, control
<1>4. /\ main' \in {"join", "stopped"} => pc'[Caller] \in {"off", "exit"}
      /\ \A t \in Worker : idle_fiber'[t] = "TERM" \/ pc'[t] = "exit" => m_autoStop'
  BY <1>2 DEF PresenceOK, control
<1> QED BY <1>1, <1>3, <1>4 DEF PresenceOK, control

(* A thread in run(), or a client with one, changes the queue.             *)
LEMMA QuietKept ==
    ASSUME Inv, QuietInv, UNCHANGED <<control, idle_fiber>>,
           \A u \in Worker : /\ pc'[u] = "off" <=> pc[u] = "off"
                             /\ pc'[u] = "exit" <=> pc[u] = "exit",
           Unpinned(m_fibers)' => Unpinned(m_fibers) \/ Alive \/ main \in {"new", "running"}
    PROVE  QuietInv'
<1>1. PresenceOK' /\ (Alive' <=> Alive)
  BY PresenceKept DEF QuietInv
<1>2. AttendedOK'
  BY <1>1, RunningAttended DEF QuietInv, AttendedOK, control
<1> QED BY <1>1, <1>2 DEF QuietInv

LEMMA RunQuiet ==
    ASSUME Inv, TaskInv, QuietInv, NEW t \in Worker, Run(t) \/ Body(t)
    PROVE  QuietInv'
<1>0. Alive
  <2>1. pc[t] \notin {"off", "exit"}
    BY DEF Run, Body, Take, TakeNothing, DispatchFiber, DispatchCb, DispatchDrop,
           YieldToHold, Return, Reschedule, Park, Retire, Idle, Finish, YieldToReady,
           Arm, SwitchTo
  <2> QED BY <2>1 DEF Alive
<1>1. CASE Idle(t)
  <2>1. /\ UNCHANGED <<tasks, control>> /\ pc[t] = "idle" /\ pc'[t] = "take"
        /\ \A u \in Worker \ {t} : pc'[u] = pc[u] /\ idle_fiber'[u] = idle_fiber[u]
        /\ idle_fiber'[t] = "TERM" => m_autoStop
    BY <1>1 DEF Idle, Goto, stopping, Inv, TypeOK
  <2>2. Caller \in Worker /\ m_threads \subseteq Worker
    BY DEF Worker, Inv, TypeOK
  <2>3. Alive'
    BY <2>1 DEF Alive
  <2>4. /\ \A u \in Worker : pc'[u] # "off" => u \in m_threads' \cup {Caller}
        /\ main' # "new" => \A u \in m_threads' : pc'[u] # "off"
        /\ main' = "stopped" => \A u \in m_threads' : pc'[u] = "exit"
    BY <2>1, <2>2 DEF QuietInv, PresenceOK, control
  <2>5. /\ main' \in {"join", "stopped"} => pc'[Caller] \in {"off", "exit"}
        /\ \A u \in Worker : idle_fiber'[u] = "TERM" \/ pc'[u] = "exit" => m_autoStop'
    BY <2>1, <2>2 DEF QuietInv, PresenceOK, control
  <2>6. PresenceOK'
    BY <2>1, <2>4, <2>5 DEF QuietInv, PresenceOK, control
  <2> QED BY <2>3, <2>6 DEF QuietInv, AttendedOK
<1>2. CASE TakeNothing(t)
  <2>1. /\ UNCHANGED <<tasks, control, idle_fiber, ft, cb_fiber>>
        /\ pc[t] = "take"
        /\ pc'[t] = IF idle_fiber[t] = "TERM" THEN "exit" ELSE "idle"
        /\ \A u \in Worker \ {t} : pc'[u] = pc[u]
        /\ \A i \in DOMAIN m_fibers : ~Runnable(m_fibers[i], t)
    BY <1>2 DEF TakeNothing, Goto, Inv, TypeOK
  <2>2. Caller \in Worker /\ m_threads \subseteq Worker
    BY DEF Worker, Inv, TypeOK
  <2>3. /\ \A u \in Worker : pc'[u] # "off" => u \in m_threads' \cup {Caller}
        /\ main' # "new" => \A u \in m_threads' : pc'[u] # "off"
        /\ main' = "stopped" => \A u \in m_threads' : pc'[u] = "exit"
    BY <2>1, <2>2 DEF QuietInv, PresenceOK, control
  <2>4. /\ main' \in {"join", "stopped"} => pc'[Caller] \in {"off", "exit"}
        /\ \A u \in Worker : idle_fiber'[u] = "TERM" \/ pc'[u] = "exit" => m_autoStop'
    BY <2>1, <2>2 DEF QuietInv, PresenceOK, control
  <2>5. PresenceOK'
    BY <2>1, <2>3, <2>4 DEF QuietInv, PresenceOK, control
  (* A task for anybody that t cannot take is a fiber another thread is in. *)
  <2>6. ASSUME Unpinned(m_fibers) PROVE Alive'
    <3>1. PICK i \in DOMAIN m_fibers : m_fibers[i].thread = None
      BY <2>6 DEF Unpinned
    <3>2. m_fibers[i].fiber \in Job /\ fiber[m_fibers[i].fiber].m_state = "EXEC"
      <4>1. m_fibers[i].fiber # None /\ fiber[m_fibers[i].fiber].m_state = "EXEC"
        BY <2>1, <3>1 DEF Runnable
      <4>2. m_fibers[i] \in FiberAndThread
        BY DEF Inv, TypeOK
      <4> QED BY <4>1, <4>2 DEF FiberAndThread
    <3>3. PICK u \in Worker : Held(u) = m_fibers[i].fiber
      BY <3>2 DEF TaskInv, ExecHeld
    <3>4. pc[u] \in {"dispatch", "exec", "hold", "back", "after"}
      BY <3>2, <3>3, NoneIsNoJob DEF Held, Executing
    <3>5. pc'[u] = pc[u]
      BY <2>1, <3>4
    <3> QED BY <3>4, <3>5 DEF Alive
  <2>7. AttendedOK'
    BY <2>1, <2>6 DEF AttendedOK, tasks
  <2> QED BY <2>5, <2>7 DEF QuietInv
<1>3. CASE ~(Idle(t) \/ TakeNothing(t))
  <2>1. /\ UNCHANGED <<control, idle_fiber>>
        /\ pc[t] \notin {"off", "exit"} /\ pc'[t] \notin {"off", "exit"}
        /\ \A u \in Worker \ {t} : pc'[u] = pc[u]
    BY <1>3 DEF Run, Body, Take, DispatchFiber, DispatchCb, DispatchDrop,
           YieldToHold, Return, Reschedule, Park, Retire, Finish, YieldToReady,
           Arm, SwitchTo, LetGo, Goto, Inv, TypeOK, tasks
  <2> QED BY <1>0, <2>1, QuietKept
<1> QED BY <1>1, <1>2, <1>3

LEMMA SubmitQuiet ==
    ASSUME Inv, QuietInv, NEW j \in Job, NEW thr \in Pins, Submit(j, thr),
           Alive \/ main \in {"new", "running"}
    PROVE  QuietInv'
<1>1. /\ UNCHANGED <<control, idle_fiber, pc>>
      /\ Unpinned(m_fibers)' => Alive \/ main \in {"new", "running"}
  BY DEF Submit, locals
<1> QED BY <1>1, QuietKept

LEMMA ClientQuiet ==
    ASSUME Inv, QuietInv,
           MainSubmitBatch \/ \E f \in Job : Wake(f) \/ ScheduleFinished(f)
    PROVE  QuietInv'
<1>1. /\ UNCHANGED <<control, idle_fiber, pc>>
      /\ Alive \/ main \in {"new", "running"}
  BY DEF MainSubmitBatch, Wake, ScheduleFinished, locals
<1> QED BY <1>1, QuietKept

LEMMA StartQuiet ==
    ASSUME Inv, QuietInv, Start
    PROVE  QuietInv'
<1>1. /\ main = "new" /\ main' = "running"
      /\ UNCHANGED <<m_autoStop, m_rootThread, m_threads, m_fibers, idle_fiber>>
      /\ \A u \in Worker : pc[u] = "off"
      /\ \A u \in Worker : pc'[u] = IF u \in m_threads THEN "take" ELSE "off"
      /\ m_threads \subseteq Worker
  BY DEF Start, Inv, EntryOK, TypeOK, Worker, tasks
<1>2. PresenceOK'
  BY <1>1 DEF QuietInv, PresenceOK
<1>3. m_threads # {} => Alive'
  BY <1>1 DEF Alive
<1> QED BY <1>1, <1>2, <1>3 DEF QuietInv, AttendedOK

LEMMA StopQuiet ==
    ASSUME Inv, QuietInv, StopBegin \/ Stop
    PROVE  QuietInv'
<1>1. /\ UNCHANGED <<tasks, m_rootThread, m_threads, idle_fiber>>
      /\ Caller \in Worker /\ m_threads \subseteq Worker /\ Caller \notin m_threads
      /\ Unpinned(m_fibers)' <=> Unpinned(m_fibers)
  BY SchedulerAssumption
  DEF StopBegin, Stop, StopAlone, StopAloneCheck, StopAll, StopRoot, RootReturn, Join,
      locals, tasks, Worker, Inv, TypeOK
<1>2. m_fibers = <<>> => ~Unpinned(m_fibers)
  BY DEF Unpinned
<1>3. CASE StopBegin \/ StopAlone \/ StopAloneCheck \/ StopAll
  <2>1. /\ pc' = pc /\ (m_autoStop => m_autoStop')
        /\ main \in {"running", "stop1", "stop2", "stop3"}
    BY <1>3 DEF StopBegin, StopAlone, StopAloneCheck, StopAll, locals
  <2>2. pc[Caller] = "off"
    BY <2>1 DEF Inv, EntryOK
  <2>3. /\ main' \in {"stop1", "stop2", "stop3", "stop4", "join", "stopped"}
        /\ main' \in {"stop2", "stop3"} => m_threads = {}
        /\ main' = "stopped" => m_threads = {} /\ m_fibers = <<>>
        /\ main' = "join" => m_threads # {}
    BY <1>3 DEF StopBegin, StopAlone, StopAloneCheck, StopAll, OnlyCaller, stopping,
                QuietInv, PresenceOK
  <2>4. PresenceOK'
    BY <1>1, <2>1, <2>2, <2>3 DEF QuietInv, PresenceOK
  <2>5. Alive' <=> Alive
    BY <2>1 DEF Alive
  <2> QED BY <1>1, <1>2, <2>1, <2>3, <2>4, <2>5 DEF QuietInv, AttendedOK
<1>4. CASE StopRoot
  <2>1. pc[Caller] = "off"
    BY <1>4 DEF StopRoot, Inv, EntryOK
  <2>2. /\ m_autoStop' = m_autoStop /\ main = "stop4"
        /\ \A u \in Worker \ {Caller} : pc'[u] = pc[u]
        /\ \/ main' = "join" /\ pc' = pc /\ m_fibers = <<>>
           \/ main' = "root" /\ pc'[Caller] = "take"
    BY <1>1, <1>4 DEF StopRoot, Goto, stopping, Inv, TypeOK
  <2>3. PresenceOK'
    <3>1. /\ \A u \in Worker : pc'[u] # "off" => u \in m_threads' \cup {Caller}
          /\ \A u \in m_threads' : pc'[u] # "off"
          /\ \A u \in Worker : idle_fiber'[u] = "TERM" \/ pc'[u] = "exit" => m_autoStop'
      BY <1>1, <2>1, <2>2 DEF QuietInv, PresenceOK
    <3> QED BY <1>1, <2>1, <2>2, <3>1 DEF QuietInv, PresenceOK
  <2>4. main' = "root" => Alive'
    BY <1>1, <2>2 DEF Alive
  <2> QED BY <1>1, <1>2, <2>2, <2>3, <2>4 DEF QuietInv, AttendedOK
<1>5. CASE RootReturn \/ Join
  <2>1. /\ pc' = pc /\ m_autoStop' = m_autoStop
        /\ \/ main = "root" /\ main' = "join" /\ pc[Caller] = "exit"
           \/ main = "join" /\ main' = "stopped"
        /\ main' = "stopped" => \A t \in m_threads : pc[t] = "exit"
    BY <1>5 DEF RootReturn, Join, locals
  <2>2. PresenceOK'
    BY <1>1, <2>1 DEF QuietInv, PresenceOK
  <2>3. Alive' <=> Alive
    BY <2>1 DEF Alive
  <2> QED BY <1>1, <2>1, <2>2, <2>3 DEF QuietInv, AttendedOK
<1> QED BY <1>3, <1>4, <1>5 DEF Stop

LEMMA InitQuiet == Init => QuietInv
<1> SUFFICES ASSUME Init PROVE QuietInv
  OBVIOUS
<1>1. m_threads \subseteq Worker
  BY DEF Init, Worker
<1> QED BY <1>1 DEF Init, QuietInv, PresenceOK, AttendedOK

LEMMA NextQuiet == Inv /\ TaskInv /\ QuietInv /\ [Next]_vars => QuietInv'
<1> SUFFICES ASSUME Inv, TaskInv, QuietInv, [Next]_vars PROVE QuietInv'
  OBVIOUS
<1>1. CASE UNCHANGED vars
  <2>1. UNCHANGED <<m_fibers, control, idle_fiber, pc>>
    BY <1>1 DEF vars, tasks, locals
  <2> QED BY <2>1, QuietKept
<1>2. CASE Start
  BY <1>2, StartQuiet
<1>3. CASE StopBegin \/ Stop
  BY <1>3, StopQuiet
<1>4. CASE MainSubmit
  BY <1>4, SubmitQuiet DEF MainSubmit
<1>5. CASE MainSubmitBatch \/ \E f \in Job : Wake(f) \/ ScheduleFinished(f)
  BY <1>5, ClientQuiet
<1>6. ASSUME NEW t \in Worker, Run(t) \/ Body(t) PROVE QuietInv'
  BY <1>6, RunQuiet
<1>7. ASSUME NEW t \in Worker, BodySubmit(t) PROVE QuietInv'
  <2>1. Alive
    BY <1>7 DEF BodySubmit, Alive
  <2> QED BY <1>7, <2>1, SubmitQuiet DEF BodySubmit
<1> QED BY <1>1, <1>2, <1>3, <1>4, <1>5, <1>6, <1>7 DEF Next

LEMMA QuietAlways == Spec => []QuietInv
BY InitQuiet, NextQuiet, Invariance, TaskInvariance, PTL DEF Spec

LEMMA QuietStopped == Inv /\ QuietInv => StoppedIsQuiet
<1> SUFFICES ASSUME Inv, QuietInv, main = "stopped" PROVE ~Alive /\ ~Unpinned(m_fibers)
  BY DEF StoppedIsQuiet, Alive, Unpinned
<1>1. ~Alive
  BY DEF QuietInv, PresenceOK, Alive
<1> QED BY <1>1 DEF QuietInv, AttendedOK

(* When stop() has returned every thread has left run(), and no task that  *)
(* any thread could have taken is left: a thread that leaves run() past    *)
(* such a task leaves it to the thread that is still in its fiber.         *)
THEOREM StopLeavesNothing == Spec => []StoppedIsQuiet
BY QuietStopped, QuietAlways, Invariance, PTL

-----------------------------------------------------------------------------
(* The executor that the scheduler implements.                             *)

(* A fiber that has no callback to run has none, or has the one that it    *)
(* ended with; a thread has in hand only what its pin allows.              *)
CarrierInv ==
    /\ \A f \in Job : fiber[f].m_state \in {"NONE", "TERM", "EXCEPT"}
                        => fiber[f].m_cb \in done \cup {None}
    /\ \A t \in InHand : ft[t].thread \in {None, t}

(* Everything the refinement rests on.                                     *)
Sound == Inv /\ TaskInv /\ QuietInv /\ CarrierInv

(* A fiber changes, and none of them ends.                                 *)
LEMMA CarrierKept ==
    ASSUME CarrierInv, done \subseteq done', NEW f,
           \A g \in Job \ {f} : fiber'[g] = fiber[g],
           fiber'[f].m_state \notin {"NONE", "TERM", "EXCEPT"} \/ fiber'[f] = fiber[f],
           \A t \in InHand' : \/ t \in InHand /\ ft'[t] = ft[t]
                              \/ ft'[t].thread \in {None, t}
    PROVE  CarrierInv'
BY DEF CarrierInv

LEMMA CarrierRun ==
    ASSUME Inv, CarrierInv, NEW t \in Worker, Run(t) \/ Body(t)
    PROVE  CarrierInv'
<1> USE DEF Inv, TypeOK
<1>1. done \subseteq done' /\ \A u \in Worker \ {t} : pc'[u] = pc[u] /\ ft'[u] = ft[u]
  BY DEF Run, Body, Take, TakeNothing, DispatchFiber, DispatchCb, DispatchDrop,
         YieldToHold, Return, Reschedule, Park, Retire, Idle, Finish, YieldToReady,
         Arm, SwitchTo, LetGo, Goto, tasks
<1>2. CASE Take(t)
  <2>1. fiber' = fiber /\ ft'[t].thread \in {None, t}
    BY <1>2 DEF Take, FirstRunnable, Runnable
  <2> QED BY <1>1, <2>1, CarrierKept DEF InHand
<1>3. CASE ~Take(t)
  <2>1. t \notin InHand'
    BY <1>3 DEF InHand, Run, Body, TakeNothing, DispatchFiber, DispatchCb, DispatchDrop,
         YieldToHold, Return, Reschedule, Park, Retire, Idle, Finish, YieldToReady,
         Arm, SwitchTo, LetGo, Goto
  <2>2. \A u \in InHand' : u \in InHand /\ ft'[u] = ft[u]
    BY <1>1, <2>1 DEF InHand
  <2>3. CASE UNCHANGED fiber
    BY <1>1, <2>2, <2>3, CarrierKept
  <2>4. CASE DispatchFiber(t)
    <3>1. /\ ft[t].fiber \in Job
          /\ fiber' = [fiber EXCEPT ![ft[t].fiber] = swapIn(fiber[ft[t].fiber])]
      BY <2>4 DEF DispatchFiber, FiberAndThread
    <3> QED BY <1>1, <2>2, <3>1, CarrierKept, FiberOperations
  <2>5. CASE DispatchCb(t)
    <3>1. PICK f \in {cb_fiber[t], ft[t].cb} \cap Job :
            \/ fiber' = [fiber EXCEPT ![f] = swapIn(reset(fiber[f], ft[t].cb))]
            \/ fiber' = [fiber EXCEPT ![f] = swapIn(Construct(ft[t].cb))]
      BY <2>5 DEF DispatchCb, LocalOK, FiberAndThread
    <3>2. fiber'[f].m_state = "EXEC" /\ \A g \in Job \ {f} : fiber'[g] = fiber[g]
      BY <3>1 DEF swapIn, reset, Construct
    <3> QED BY <1>1, <2>2, <3>1, <3>2, CarrierKept
  <2>6. CASE Finish(t)
    <3> SUFFICES ASSUME NEW f, f = Cur(t) PROVE CarrierInv'
      OBVIOUS
    <3>1. f \in Job /\ fiber[f] \in FiberObject
      BY <2>6, CurIsHeld DEF Finish, Executing
    <3>2. PICK o \in {MainFuncReturn(fiber[f]), MainFuncThrow(fiber[f])} :
            fiber' = [fiber EXCEPT ![f] = o]
      BY <2>6 DEF Finish
    <3>3. o.m_cb \in {fiber[f].m_cb, None}
      BY <3>1, <3>2 DEF MainFuncReturn, MainFuncThrow, FiberObject
    <3>4. done' = done \cup {fiber[f].m_cb}
      BY <2>6 DEF Finish
    <3> QED BY <1>1, <2>2, <3>1, <3>2, <3>3, <3>4 DEF CarrierInv
  <2>7. CASE YieldToReady(t) \/ YieldToHold(t) \/ Park(t)
    <3> SUFFICES ASSUME NEW f, f = Cur(t) PROVE CarrierInv'
      OBVIOUS
    <3>1. f \in Job /\ fiber[f] \in FiberObject
      BY <2>7, CurIsHeld DEF YieldToReady, YieldToHold, Park, Executing
    <3>2. \/ fiber' = [fiber EXCEPT ![f] = MarkReady(fiber[f])]
          \/ fiber' = [fiber EXCEPT ![f] = fiber[f]]
          \/ fiber' = [fiber EXCEPT ![f] = Suspend(fiber[f])]
      BY <2>7 DEF YieldToReady, YieldToHold, Park, MarkHold
    <3> QED BY <1>1, <2>2, <3>1, <3>2, FiberOperations, CarrierKept
  <2>8. CASE Retire(t)
    <3>1. /\ ft[t].fiber # None => fiber' = fiber
          /\ ft[t].fiber = None => /\ cb_fiber[t] \in Job
                                   /\ fiber' = [fiber EXCEPT ![cb_fiber[t]] =
                                                  reset(fiber[cb_fiber[t]], None)]
      BY <2>8 DEF Retire, LocalOK, Executing, Cur
    <3> QED BY <1>1, <2>2, <3>1, CarrierKept DEF reset
  <2> QED BY <1>3, <2>3, <2>4, <2>5, <2>6, <2>7, <2>8
    DEF Run, Body, TakeNothing, DispatchDrop, Return, Reschedule, Idle, Arm, SwitchTo, tasks
<1> QED BY <1>2, <1>3

LEMMA CarrierNext == Inv /\ CarrierInv /\ [Next]_vars => CarrierInv'
<1> SUFFICES ASSUME Inv, CarrierInv, [Next]_vars PROVE CarrierInv'
  OBVIOUS
<1>1. ASSUME NEW j \in Job, NEW thr \in Pins, Submit(j, thr) PROVE CarrierInv'
  <2>1. UNCHANGED <<done, pc, ft>>
    BY <1>1 DEF Submit, locals
  <2>2. \/ fiber' = fiber
        \/ fiber' = [fiber EXCEPT ![j] = Construct(j)]
    BY <1>1 DEF Submit, ScheduleCb, ScheduleFiber
  <2>3. fiber \in [Job -> FiberObject]
    BY DEF Inv, TypeOK
  <2> QED BY <2>1, <2>2, <2>3, CarrierKept DEF InHand, Construct
<1>2. ASSUME UNCHANGED <<fiber, done, ft>>,
             \A t \in Worker : pc'[t] = "dispatch" => pc[t] = "dispatch"
      PROVE  CarrierInv'
  BY <1>2 DEF CarrierInv, InHand
<1>3. CASE UNCHANGED vars
  BY <1>2, <1>3 DEF vars, tasks, locals
<1>4. CASE Start
  BY <1>2, <1>4 DEF Start, tasks
<1>5. CASE StopRoot
  BY <1>2, <1>5 DEF StopRoot, Goto, tasks, Inv, TypeOK
<1>6. CASE StopBegin \/ StopAlone \/ StopAloneCheck \/ StopAll \/ RootReturn \/ Join
  BY <1>2, <1>6 DEF StopBegin, StopAlone, StopAloneCheck, StopAll, RootReturn, Join,
                    tasks, locals
<1>7. CASE MainSubmitBatch \/ \E f \in Job : Wake(f) \/ ScheduleFinished(f)
  BY <1>2, <1>7 DEF MainSubmitBatch, Wake, ScheduleFinished, locals
<1>8. CASE MainSubmit \/ \E t \in Worker : BodySubmit(t)
  BY <1>1, <1>8 DEF MainSubmit, BodySubmit
<1> QED BY <1>3, <1>4, <1>5, <1>6, <1>7, <1>8, CarrierRun DEF Next, Stop

LEMMA SoundAlways == Spec => []Sound
<1>1. Init => CarrierInv
  BY DEF Init, CarrierInv, InHand, NoFiber
<1>2. Spec => []CarrierInv
  BY <1>1, CarrierNext, Invariance, PTL DEF Spec
<1>3. Inv /\ TaskInv /\ QuietInv /\ CarrierInv => Sound
  BY DEF Sound
<1> QED BY <1>2, <1>3, QuietAlways, Invariance, TaskInvariance, PTL

-----------------------------------------------------------------------------
(* What the state says of each callback.                                   *)

(* A callback that has a fiber: it is where its fiber is.                  *)
FiberView ==
    \A f \in Job : Live(f) => \E j \in submitted \ done :
        /\ j = fiber[f].m_cb
        /\ \A g \in Job : fiber[g].m_cb = j => g = f
        /\ Runners(j) = {t \in Worker : pc[t] = "exec" /\ Held(t) = f}
        /\ Awaited(j) <=> f \in armed
        /\ \A x \in Entries : Carries(x, j) <=> x.fiber = f

(* A callback that has no fiber yet: it is where its task is.              *)
PendingView ==
    \A j \in Job : Pending(j) =>
        /\ j \in submitted \ done
        /\ \A f \in Job : fiber[f].m_cb # j
        /\ Runners(j) = {}
        /\ ~Awaited(j)
        /\ \A x \in Entries : Carries(x, j) <=> x.cb = j

(* Every callback that was submitted and has not ended is one or the       *)
(* other; nothing is known of one that is new.                             *)
JobView ==
    /\ \A j \in submitted \ done : Pending(j) \/ \E f \in Job : Live(f) /\ fiber[f].m_cb = j
    /\ \A j \in Job \ submitted :
          ~Pending(j) /\ \A f \in Job : Live(f) => fiber[f].m_cb # j
    /\ done \subseteq submitted

(* The tasks of a fiber or a callback: in the queue, or in hand.           *)
EntryView ==
    /\ Entries \subseteq FiberAndThread
    /\ \A x \in Entries : (x.fiber = None) # (x.cb = None)
    /\ \A x \in Entries : x.fiber # None =>
         \/ x.fiber \in FibersOf(m_fibers)
         \/ \E t \in InHand : x = ft[t] /\ Held(t) = x.fiber
    /\ \A x \in Entries : x.cb # None =>
         x.cb \in CbsOf(m_fibers) \/ \E t \in InHand : x = ft[t]

(* Only a fiber without a callback is not live although it exists.         *)
LEMMA DeadFiber ==
    ASSUME Sound, NEW f \in Job, ~Live(f)
    PROVE  fiber[f].m_cb \in done \cup {None}
<1>1. fiber[f] \in FiberObject
  BY DEF Sound, Inv, TypeOK
<1> QED BY <1>1 DEF Sound, CarrierInv, Live, FiberObject, FiberState

LEMMA EntriesSeen == Sound => EntryView
<1> SUFFICES ASSUME Sound PROVE EntryView
  OBVIOUS
<1> USE DEF Sound
<1>1. \A x \in ToSet(m_fibers) :
        /\ x \in FiberAndThread /\ (x.fiber = None) # (x.cb = None)
        /\ x.fiber # None => x.fiber \in FibersOf(m_fibers)
        /\ x.cb # None => x.cb \in CbsOf(m_fibers)
  BY QueueElements DEF Inv, TypeOK, QueueOK, ToSet
<1>2. \A t \in InHand :
        /\ ft[t] \in FiberAndThread /\ (ft[t].fiber = None) # (ft[t].cb = None)
        /\ Held(t) = ft[t].fiber
  <2> SUFFICES ASSUME NEW t \in InHand
               PROVE  /\ ft[t] \in FiberAndThread /\ (ft[t].fiber = None) # (ft[t].cb = None)
                      /\ Held(t) = ft[t].fiber
    OBVIOUS
  <2>1. t \in Worker /\ pc[t] = "dispatch"
    BY DEF InHand
  <2>2. ft[t] \in FiberAndThread /\ Held(t) = ft[t].fiber
    BY <2>1 DEF Inv, TypeOK, Held, Executing
  <2>3. LocalOK(t)
    BY <2>1 DEF Inv
  <2> QED BY <2>1, <2>2, <2>3 DEF LocalOK
<1> QED BY <1>1, <1>2 DEF EntryView, Entries

LEMMA JobsSeen == Sound => JobView
BY DEF Sound, TaskInv, CarriedOK, JobView

LEMMA FibersSeen == Sound => FiberView
<1> SUFFICES ASSUME Sound, NEW f \in Job, Live(f), NEW j, j = fiber[f].m_cb
             PROVE  /\ j \in submitted \ done
                    /\ \A g \in Job : fiber[g].m_cb = j => g = f
                    /\ Runners(j) = {t \in Worker : pc[t] = "exec" /\ Held(t) = f}
                    /\ Awaited(j) <=> f \in armed
                    /\ \A x \in Entries : Carries(x, j) <=> x.fiber = f
  BY DEF FiberView
<1> USE NoneIsNoJob
<1>1. j \in submitted \ done /\ j \in Job
  BY DEF Sound, TaskInv, CarriedOK, Inv, TypeOK
<1>2. ASSUME NEW g \in Job, fiber[g].m_cb = j PROVE g = f
  <2>1. Live(g)
    BY <1>1, <1>2, DeadFiber
  <2> QED BY <1>2, <2>1 DEF Sound, TaskInv, CarriedOK
<1>3. \A t \in Worker : pc[t] = "exec" => Cur(t) = Held(t) /\ Cur(t) \in Job
  BY CurIsHeld DEF Executing, Sound
<1>4. Runners(j) = {t \in Worker : pc[t] = "exec" /\ Held(t) = f}
  BY <1>2, <1>3 DEF Runners
<1>5. Awaited(j) <=> f \in armed
  BY <1>2 DEF Awaited, Sound, Inv, TypeOK
<1>6. ASSUME NEW x \in Entries PROVE Carries(x, j) <=> x.fiber = f
  <2>1. /\ x \in FiberAndThread
        /\ x.cb # None => x.cb \in CbsOf(m_fibers) \/ \E t \in InHand : x = ft[t]
    BY <1>6, EntriesSeen DEF EntryView
  <2>2. x.cb # j
    <3>1. ~Pending(j)
      BY <1>1 DEF Sound, TaskInv, CarriedOK
    <3> QED BY <1>1, <2>1, <3>1 DEF Pending, InHand
  <2>3. x.fiber \in Job \cup {None}
    BY <2>1 DEF FiberAndThread
  <2> QED BY <1>2, <2>2, <2>3 DEF Carries
<1> QED BY <1>1, <1>2, <1>4, <1>5, <1>6

LEMMA PendingSeen == Sound => PendingView
<1> SUFFICES ASSUME Sound, NEW j \in Job, Pending(j)
             PROVE  /\ j \in submitted \ done
                    /\ \A f \in Job : fiber[f].m_cb # j
                    /\ Runners(j) = {}
                    /\ ~Awaited(j)
                    /\ \A x \in Entries : Carries(x, j) <=> x.cb = j
  BY DEF PendingView
<1> USE NoneIsNoJob
<1>1. j \in submitted \ done /\ \A f \in Job : Live(f) => fiber[f].m_cb # j
  BY DEF Sound, TaskInv, CarriedOK
<1>2. \A f \in Job : fiber[f].m_cb # j
  BY <1>1, DeadFiber
<1>3. Runners(j) = {}
  BY <1>2, CurIsHeld DEF Runners, Executing, Sound
<1>4. ~Awaited(j)
  BY <1>2 DEF Awaited, Sound, Inv, TypeOK
<1>5. \A x \in Entries : Carries(x, j) <=> x.cb = j
  BY <1>2, EntriesSeen DEF EntryView, Carries, FiberAndThread
<1> QED BY <1>1, <1>2, <1>3, <1>4, <1>5

(* The same of the next state.                                             *)
Seen == EntryView /\ JobView /\ FiberView /\ PendingView

LEMMA NowSeen == Sound => Seen
BY EntriesSeen, JobsSeen, FibersSeen, PendingSeen DEF Seen

LEMMA NextSeen == Sound' => Seen'
BY NowSeen, PTL

-----------------------------------------------------------------------------
(* What a step does to each callback.                                      *)

Same(i) == Status(i)' = Status(i) /\ Place(i)' = Place(i)

(* A callback that is new or has ended is nowhere.                         *)
LEMMA SettledSame ==
    ASSUME NEW i \in Job, i \notin submitted \ done, i \notin submitted' \ done',
           i \in submitted' <=> i \in submitted
    PROVE  Same(i)
BY DEF Same, Status, Place

(* Of a callback that was submitted and has not ended: a step that leaves  *)
(* its fibers, its waker and the thread it runs on, and that adds or       *)
(* takes away no pinned task that carries it.                              *)
LEMMA CarriedSame ==
    ASSUME Sound, Sound', NEW i \in submitted \ done, i \in submitted' \ done',
           \A f \in Job : fiber'[f].m_cb = i <=> fiber[f].m_cb = i,
           \A f \in Job : fiber[f].m_cb = i => (f \in armed' <=> f \in armed),
           \A t \in Worker : \/ /\ pc'[t] = "exec" <=> pc[t] = "exec"
                                /\ pc[t] = "exec" => Cur(t)' = Cur(t)
                             \/ /\ pc[t] = "exec" => fiber[Cur(t)].m_cb # i
                                /\ pc'[t] = "exec" => fiber'[Cur(t)'].m_cb # i,
           \A x \in Entries' \ Entries : x.thread = None \/ ~Carries(x, i)',
           \A x \in Entries \ Entries' : x.thread = None \/ ~Carries(x, i)
    PROVE  Same(i)
<1>1. Runners(i)' = Runners(i)
  <2>1. \A t \in Worker : pc[t] = "exec" => Cur(t) \in Job
    BY CurIsHeld DEF Executing, Sound
  <2> QED BY <2>1 DEF Runners
<1>2. Awaited(i)' <=> Awaited(i)
  BY DEF Awaited, Sound, Inv, TypeOK
<1>3. PinsOf(i)' = PinsOf(i)
  <2>1. Entries \subseteq FiberAndThread /\ Entries' \subseteq FiberAndThread
    BY NowSeen, NextSeen DEF Seen, EntryView
  <2>2. \A x \in FiberAndThread : Carries(x, i)' <=> Carries(x, i)
    BY DEF Carries, FiberAndThread
  <2> QED BY <2>1, <2>2 DEF PinsOf
<1> QED BY <1>1, <1>2, <1>3 DEF Same, Status, Place

(* A callback that runs, before and after.                                 *)
LEMMA RunningHere ==
    ASSUME Sound, NEW t \in Worker, pc[t] = "exec", NEW f, f = Cur(t),
           NEW j, j = fiber[f].m_cb
    PROVE  /\ f \in Job /\ f = Held(t) /\ Live(f)
           /\ j \in Job /\ j \in submitted \ done
           /\ \A g \in Job : fiber[g].m_cb = j => g = f
           /\ \A u \in Worker : pc[u] = "exec" /\ Cur(u) = f => u = t
           /\ Runners(j) = {t} /\ f \notin armed
           /\ \A x \in Entries : ~Carries(x, j)
           /\ Status(j) = "running"
<1>1. Executing(t) /\ fiber[f].m_state = "EXEC"
  BY DEF Executing, Sound, Inv, LocalOK
<1>2. f \in Job /\ f = Held(t) /\ j \in Job
  BY <1>1, CurIsHeld, CurHasBody DEF Sound
<1>3. Live(f)
  BY <1>1, <1>2, NoneIsNoJob DEF Live
<1>4. /\ \A u \in Worker \ {t} : Held(u) # f
      /\ f \notin FibersOf(m_fibers) \cup armed
  BY <1>2, NoneIsNoJob, HeldFacts DEF Sound
<1>5. /\ j \in submitted \ done
      /\ \A g \in Job : fiber[g].m_cb = j => g = f
      /\ Runners(j) = {u \in Worker : pc[u] = "exec" /\ Held(u) = f}
      /\ \A x \in Entries : Carries(x, j) <=> x.fiber = f
  BY <1>2, <1>3, NowSeen DEF Seen, FiberView
<1>6. Runners(j) = {t}
  BY <1>2, <1>4, <1>5
<1>7. \A x \in Entries : x.fiber # f
  BY <1>2, <1>4, NowSeen, NoneIsNoJob DEF Seen, EntryView, InHand
<1>8. \A u \in Worker : pc[u] = "exec" => Cur(u) = Held(u)
  BY CurIsHeld DEF Executing, Sound
<1>9. Status(j) = "running"
  BY <1>5, <1>6 DEF Status
<1> QED BY <1>2, <1>3, <1>4, <1>5, <1>6, <1>7, <1>8, <1>9

(* The callback of a body that thread t executes, in this state and in the *)
(* next.                                                                   *)
RunningView ==
    \A t \in Worker : pc[t] = "exec" =>
        /\ Status(fiber[Cur(t)].m_cb) = "running"
        /\ Place(fiber[Cur(t)].m_cb) = {t}

LEMMA RunningSeen == Sound => RunningView
BY RunningHere DEF RunningView, Place

LEMMA NextRunning == Sound' => RunningView'
BY RunningSeen, PTL

-----------------------------------------------------------------------------
(* The executor's steps.                                                   *)

Refined == [AbstractExecutor!Next]_(AbstractExecutor!executor)

LEMMA Stutters ==
    ASSUME \A i \in Job : Same(i), main' = "stopped" <=> main = "stopped"
    PROVE  Refined
BY DEF Refined, AbstractExecutor!executor, Same

LEMMA Moves ==
    ASSUME NEW S \in SUBSET Job, NEW from, NEW to, NEW places, NEW P \in places,
           main # "stopped", main' # "stopped",
           \A j \in S : Status(j) = from /\ Status(j)' = to /\ Place(j)' = P,
           \A i \in Job \ S : Same(i)
    PROVE  AbstractExecutor!Become(S, from, to, places)
BY DEF AbstractExecutor!Become, Same

(* The steps of one callback.                                              *)
LEMMA Advances ==
    ASSUME NEW j \in Job,
           \/ \E t \in Worker : AbstractExecutor!Start(j, t)
           \/ AbstractExecutor!Yield(j) \/ AbstractExecutor!Wait(j)
           \/ AbstractExecutor!Fire(j) \/ AbstractExecutor!End(j)
    PROVE  Refined
<1>1. Status(j)' # Status(j)
  BY DEF AbstractExecutor!Start, AbstractExecutor!Yield, AbstractExecutor!Wait,
         AbstractExecutor!Fire, AbstractExecutor!End, AbstractExecutor!Become
<1> QED BY <1>1 DEF Refined, AbstractExecutor!Next

(* Whoever is in run() keeps stop() from returning.                        *)
LEMMA NotStopped ==
    ASSUME Sound, NEW t \in Worker, pc[t] \notin {"off", "exit"}
    PROVE  main # "stopped"
BY DEF Sound, QuietInv, PresenceOK

LEMMA Queued ==
    ASSUME NEW q \in Seq(FiberAndThread), NEW task \in FiberAndThread,
           task.fiber # None \/ task.cb # None,
           NEW r, r = scheduleNoLock(q, task)
    PROVE  ToSet(r) = ToSet(q) \cup {task} /\ r \in Seq(FiberAndThread)
<1>1. r = Append(q, task)
  BY DEF scheduleNoLock
<1>2. /\ r \in Seq(FiberAndThread)
      /\ DOMAIN r = 1 .. Len(q) + 1
      /\ DOMAIN q = 1 .. Len(q) /\ Len(q) \in Nat
      /\ \A i \in DOMAIN q : r[i] = q[i]
      /\ r[Len(q) + 1] = task
  BY <1>1
<1>3. DOMAIN r = DOMAIN q \cup {Len(q) + 1}
  BY <1>2
<1> QED BY <1>2, <1>3 DEF ToSet

(* A step that no client of the executor can tell from none.               *)
LEMMA QuietRefined ==
    ASSUME Sound, Sound', UNCHANGED <<submitted, done, armed>>,
           main' = "stopped" <=> main = "stopped",
           \A f \in Job : \/ fiber'[f].m_cb = fiber[f].m_cb
                          \/ {fiber[f].m_cb, fiber'[f].m_cb} \subseteq done \cup {None},
           \A t \in Worker : /\ pc'[t] = "exec" <=> pc[t] = "exec"
                             /\ pc[t] = "exec" => Cur(t)' = Cur(t),
           \A x \in Entries' \ Entries : x.thread = None,
           \A x \in Entries \ Entries' : \A i \in Job \ done : ~Carries(x, i)
    PROVE  Refined
<1> SUFFICES ASSUME NEW i \in Job PROVE Same(i)
  BY Stutters
<1>1. CASE i \notin submitted \ done
  BY <1>1, SettledSame
<1>2. CASE i \in submitted \ done
  BY <1>2, NoneIsNoJob, CarriedSame
<1> QED BY <1>1, <1>2

(* The scan, and looking back at a fiber that has left its context.        *)
LEMMA QuietRun ==
    ASSUME Sound, Sound', NEW t \in Worker,
           Take(t) \/ TakeNothing(t) \/ Idle(t) \/ YieldToHold(t) \/ Return(t)
    PROVE  Refined
<1> USE DEF Sound
<1>1. /\ UNCHANGED <<submitted, done, armed, main, cb_fiber>>
      /\ pc[t] # "exec" /\ pc'[t] # "exec"
      /\ \A u \in Worker \ {t} : pc'[u] = pc[u] /\ ft'[u] = ft[u]
  BY DEF Take, TakeNothing, Idle, YieldToHold, Return, Goto, tasks, control, Inv, TypeOK
<1>2. fiber' = fiber
  <2>1. CASE YieldToHold(t)
    <3> SUFFICES ASSUME NEW f, f = Cur(t) PROVE fiber' = fiber
      OBVIOUS
    <3>1. fiber' = [fiber EXCEPT ![f] = fiber[f]]
      BY <2>1 DEF YieldToHold, MarkHold
    <3> QED BY <3>1 DEF Inv, TypeOK
  <2> QED BY <2>1 DEF Take, TakeNothing, Idle, Return, tasks
<1>3. \A u \in Worker \ {t} : Cur(u)' = Cur(u)
  BY <1>1 DEF Cur
<1>4. Entries' = Entries
  <2>1. CASE Take(t)
    <3>1. PICK i \in DOMAIN m_fibers :
            ft' = [ft EXCEPT ![t] = m_fibers[i]] /\ m_fibers' = RemoveAt(m_fibers, i)
      BY <2>1 DEF Take
    <3>2. ToSet(m_fibers) = ToSet(m_fibers)' \cup {m_fibers[i]}
      BY <3>1, TakeOut DEF Inv, TypeOK
    <3>3. t \notin InHand /\ InHand' = InHand \cup {t} /\ ft'[t] = m_fibers[i]
      BY <2>1, <3>1 DEF Take, Goto, InHand, Inv, TypeOK
    <3>4. \A u \in InHand : ft'[u] = ft[u]
      BY <1>1, <3>3 DEF InHand
    <3> QED BY <3>2, <3>3, <3>4 DEF Entries
  <2>2. CASE ~Take(t)
    <3>1. UNCHANGED <<m_fibers, ft>> /\ InHand' = InHand
      BY <2>2 DEF TakeNothing, Idle, YieldToHold, Return, Goto, tasks, InHand, Inv, TypeOK
    <3> QED BY <3>1 DEF Entries
  <2> QED BY <2>1, <2>2
<1> QED BY <1>1, <1>2, <1>3, <1>4, QuietRefined

(* The thread lets go of its fiber: for the callback nothing has changed.  *)
LEMMA QuietLetGo ==
    ASSUME Sound, Sound', NEW t \in Worker, Reschedule(t) \/ Park(t) \/ Retire(t)
    PROVE  Refined
<1> SUFFICES ASSUME NEW f, f = Cur(t) PROVE Refined
  OBVIOUS
<1> USE DEF Sound
<1>1. /\ UNCHANGED <<submitted, done, armed, main>>
      /\ pc[t] = "after" /\ pc'[t] = "take" /\ Executing(t)
      /\ \A u \in Worker \ {t} : /\ pc'[u] = pc[u] /\ ft'[u] = ft[u]
                                 /\ cb_fiber'[u] = cb_fiber[u]
  BY DEF Reschedule, Park, Retire, LetGo, Goto, control, Executing, Inv, TypeOK
<1>2. f \in Job /\ fiber \in [Job -> FiberObject] /\ f # None
  BY <1>1, CurIsHeld DEF Inv, TypeOK
<1>3. \A u \in Worker \ {t} : Cur(u)' = Cur(u)
  BY <1>1 DEF Cur
<1>4. \/ fiber'[f].m_cb = fiber[f].m_cb
      \/ {fiber[f].m_cb, fiber'[f].m_cb} \subseteq done \cup {None}
  <2>1. CASE Reschedule(t)
    BY <2>1 DEF Reschedule
  <2>2. CASE Park(t)
    <3>1. fiber' = [fiber EXCEPT ![f] = Suspend(fiber[f])]
      BY <2>2 DEF Park
    <3> QED BY <1>2, <3>1, FiberOperations
  <2>3. CASE Retire(t)
    <3>1. \/ fiber' = fiber
          \/ fiber' = [fiber EXCEPT ![f] = reset(fiber[f], None)]
      BY <1>1, <2>3 DEF Retire, Cur
    <3>2. fiber[f].m_cb \in done \cup {None}
      BY <1>2, <2>3 DEF Retire, Finished, CarrierInv
    <3> QED BY <1>2, <3>1, <3>2 DEF reset
  <2> QED BY <2>1, <2>2, <2>3
<1>5. \A g \in Job \ {f} : fiber'[g] = fiber[g]
  <2>1. Retire(t) => fiber' = fiber \/ \E o : fiber' = [fiber EXCEPT ![f] = o]
    BY <1>1 DEF Retire, Cur
  <2> QED BY <1>2, <2>1 DEF Reschedule, Park
<1>6. InHand' = InHand /\ t \notin InHand /\ \A u \in InHand : ft'[u] = ft[u]
  BY <1>1 DEF InHand
<1>7. \A x \in Entries' \ Entries : x.thread = None
  <2>1. CASE Reschedule(t)
    <3> DEFINE task == FiberTask(f, None)
    <3>1. task \in FiberAndThread /\ task.fiber = f /\ task.thread = None
      BY <1>2 DEF FiberTask, FiberAndThread
    <3>2. m_fibers' = scheduleNoLock(m_fibers, task)
      BY <2>1 DEF Reschedule
    <3> HIDE DEF task
    <3>3. ToSet(m_fibers)' = ToSet(m_fibers) \cup {task}
      BY <1>2, <3>1, <3>2, Queued DEF Inv, TypeOK
    <3> QED BY <1>6, <3>1, <3>3 DEF Entries
  <2>2. CASE Park(t) \/ Retire(t)
    <3>1. m_fibers' = m_fibers
      BY <2>2 DEF Park, Retire
    <3> QED BY <1>6, <3>1 DEF Entries
  <2> QED BY <2>1, <2>2
<1>8. Entries \subseteq Entries'
  <2>1. ToSet(m_fibers) \subseteq ToSet(m_fibers)'
    <3>1. CASE Reschedule(t)
      <4>1. FiberTask(f, None) \in FiberAndThread /\ FiberTask(f, None).fiber = f
        BY <1>2 DEF FiberTask, FiberAndThread
      <4>2. m_fibers' = scheduleNoLock(m_fibers, FiberTask(f, None))
        BY <3>1 DEF Reschedule
      <4> QED BY <1>2, <4>1, <4>2, Queued DEF Inv, TypeOK
    <3>2. CASE Park(t) \/ Retire(t)
      BY <3>2 DEF Park, Retire
    <3> QED BY <3>1, <3>2
  <2> QED BY <1>6, <2>1 DEF Entries
<1> QED BY <1>1, <1>3, <1>4, <1>5, <1>7, <1>8, QuietRefined

(* Fibers that have ended come and go.                                     *)
LEMMA QuietFinished ==
    ASSUME Sound, Sound',
           \/ \E t \in Worker : DispatchDrop(t)
           \/ \E f \in Job : ScheduleFinished(f)
    PROVE  Refined
<1> USE DEF Sound
<1>1. ASSUME NEW t \in Worker, DispatchDrop(t) PROVE Refined
  <2>1. /\ UNCHANGED <<submitted, done, armed, main, fiber, m_fibers, cb_fiber>>
        /\ t \in InHand /\ InHand' = InHand \ {t} /\ pc[t] # "exec" /\ pc'[t] # "exec"
        /\ \A u \in Worker \ {t} : pc'[u] = pc[u] /\ ft'[u] = ft[u]
    BY <1>1 DEF DispatchDrop, Goto, tasks, control, InHand, Inv, TypeOK
  <2>2. \A u \in Worker \ {t} : Cur(u)' = Cur(u)
    BY <2>1 DEF Cur
  <2>3. /\ ft[t].cb = None /\ ft[t].fiber \in Job
        /\ fiber[ft[t].fiber].m_state \in {"TERM", "EXCEPT"}
    BY <1>1 DEF DispatchDrop, Finished, Inv, LocalOK, TypeOK, FiberAndThread
  <2>4. fiber[ft[t].fiber].m_cb \in done \cup {None}
    BY <2>3 DEF CarrierInv
  <2>5. \A i \in Job \ done : ~Carries(ft[t], i)
    BY <2>3, <2>4, NoneIsNoJob DEF Carries
  <2>6. Entries' \subseteq Entries /\ Entries \ Entries' \subseteq {ft[t]}
    BY <2>1 DEF Entries, InHand
  <2> QED BY <2>1, <2>2, <2>5, <2>6, QuietRefined
<1>2. ASSUME NEW f \in Job, ScheduleFinished(f) PROVE Refined
  <2>1. /\ UNCHANGED <<submitted, done, armed, main, fiber, pc, ft, cb_fiber>>
        /\ m_fibers' = scheduleNoLock(m_fibers, FiberTask(f, None))
    BY <1>2 DEF ScheduleFinished, control, locals
  <2>2. FiberTask(f, None) \in FiberAndThread /\ FiberTask(f, None).fiber # None
        /\ FiberTask(f, None).thread = None
    BY NoneIsNoJob DEF FiberTask, FiberAndThread
  <2>3. ToSet(m_fibers)' = ToSet(m_fibers) \cup {FiberTask(f, None)}
    BY <2>1, <2>2, Queued DEF Inv, TypeOK
  <2>4. Entries' = Entries \cup {FiberTask(f, None)}
    BY <2>1, <2>3 DEF Entries, InHand
  <2>5. \A u \in Worker : Cur(u)' = Cur(u)
    BY <2>1 DEF Cur
  <2> QED BY <2>1, <2>2, <2>4, <2>5, QuietRefined
<1> QED BY <1>1, <1>2

(* Another callback than the one that thread t begins, goes on with or     *)
(* lets go of.                                                             *)
LEMMA OtherSame ==
    ASSUME Sound, Sound', NEW t \in Worker, NEW f \in Job, NEW j, NEW i \in Job, i # j,
           submitted' = submitted, done' \in {done, done \cup {j}},
           \A g \in Job \ {f} : fiber'[g].m_cb = fiber[g].m_cb,
           {fiber[f].m_cb, fiber'[f].m_cb} \subseteq {j, None} \cup done,
           \A g \in Job \ {f} : g \in armed' <=> g \in armed,
           \A u \in Worker \ {t} : pc'[u] = pc[u] /\ Cur(u)' = Cur(u),
           pc[t] = "exec" => Cur(t) = f,
           pc'[t] = "exec" => Cur(t)' = f,
           \A x \in Entries' \ Entries : ~Carries(x, i)',
           \A x \in Entries \ Entries' : ~Carries(x, i)
    PROVE  Same(i)
<1>1. CASE i \notin submitted \ done
  BY <1>1, SettledSame
<1>2. CASE i \in submitted \ done
  <2>1. i \in submitted' \ done' /\ fiber[f].m_cb # i /\ fiber'[f].m_cb # i
    BY <1>2, NoneIsNoJob
  <2> QED BY <1>2, <2>1, CarriedSame
<1> QED BY <1>1, <1>2

(* run() switches into a fiber: its callback starts, on a thread that its  *)
(* pin allows.                                                             *)
LEMMA DispatchFiberRefined ==
    ASSUME Sound, Sound', NEW t \in Worker, DispatchFiber(t)
    PROVE  Refined
<1> SUFFICES ASSUME NEW f, f = ft[t].fiber, NEW j, j = fiber[f].m_cb PROVE Refined
  OBVIOUS
<1> USE NoneIsNoJob DEF Sound
<1>1. /\ pc[t] = "dispatch" /\ f \in Job /\ f # None /\ Held(t) = f
      /\ ft[t].cb = None /\ fiber[f] \in FiberObject
      /\ fiber[f].m_state \notin {"NONE", "EXEC", "TERM", "EXCEPT"}
      /\ t \in InHand
  BY DEF DispatchFiber, Finished, Held, Executing, InHand, Inv, TypeOK, LocalOK, FiberAndThread
<1>2. /\ UNCHANGED <<submitted, done, armed, main, m_fibers, ft, cb_fiber>>
      /\ pc'[t] = "exec" /\ \A u \in Worker \ {t} : pc'[u] = pc[u]
      /\ \A g \in Job \ {f} : fiber'[g] = fiber[g]
      /\ fiber'[f].m_cb = j
  <2>1. fiber' = [fiber EXCEPT ![f] = swapIn(fiber[f])]
    BY DEF DispatchFiber
  <2> QED BY <1>1, <2>1, FiberOperations DEF DispatchFiber, Goto, control, Inv, TypeOK
<1>3. Live(f)
  <2>1. \A u \in Worker : cb_fiber[u] = f => RunsCb(u) /\ u = t
    BY <1>1, HeldFacts
  <2>2. ~RunsCb(t)
    BY <1>1 DEF RunsCb, Executing
  <2>3. j # None
    BY <1>1, <2>1, <2>2 DEF Inv, BodyKept
  <2> QED BY <1>1, <2>3 DEF Live, FiberObject, FiberState
<1>4. /\ j \in submitted \ done /\ j \in Job
      /\ Runners(j) = {u \in Worker : pc[u] = "exec" /\ Held(u) = f}
      /\ Awaited(j) <=> f \in armed
      /\ \A x \in Entries : Carries(x, j) <=> x.fiber = f
  <2>1. submitted \subseteq Job
    BY DEF Inv, TypeOK
  <2>2. Seen
    BY NowSeen
  <2> QED BY <1>1, <1>3, <2>1, <2>2 DEF Seen, FiberView
<1>5. f \notin FibersOf(m_fibers) \cup armed /\ \A u \in Worker \ {t} : Held(u) # f
  BY <1>1, HeldFacts
<1>6. Status(j) = "ready"
  <2>1. Runners(j) = {} /\ ~Awaited(j)
    BY <1>1, <1>4, <1>5
  <2> QED BY <1>4, <2>1 DEF Status
<1>7. Place(j) \subseteq {t}
  <2>1. ASSUME NEW x \in Entries, Carries(x, j) PROVE x.thread \in {None, t}
    <3>1. x.fiber = f
      BY <1>4, <2>1
    <3>2. PICK u \in InHand : x = ft[u] /\ Held(u) = f
      BY <1>1, <1>5, <3>1, NowSeen DEF Seen, EntryView
    <3>3. u = t
      BY <1>5, <3>2 DEF InHand
    <3> QED BY <1>1, <3>2, <3>3 DEF CarrierInv
  <2> QED BY <1>6, <2>1 DEF Place, PinsOf
<1>8. Cur(t)' = f /\ \A u \in Worker : Cur(u)' = Cur(u)
  BY <1>1, <1>2 DEF Cur
<1>9. Status(j)' = "running" /\ Place(j)' = {t}
  BY <1>2, <1>8, NextRunning DEF RunningView
<1>10. \A i \in Job \ {j} : Same(i)
  <2>1. InHand' = InHand \ {t}
    BY <1>1, <1>2 DEF InHand
  <2>2. Entries' \subseteq Entries /\ Entries \ Entries' \subseteq {ft[t]}
    BY <1>2, <2>1 DEF Entries
  <2>3. \A i \in Job \ {j} : ~Carries(ft[t], i)
    BY <1>1 DEF Carries
  <2> QED BY <1>1, <1>2, <1>8, <2>2, <2>3, OtherSame
<1>11. AbstractExecutor!Free(t)
  <2>1. \A i \in Job : Status(i) = "running" => t \notin Place(i)
    BY <1>1 DEF Place, Runners
  <2> QED BY <2>1 DEF AbstractExecutor!Free
<1>12. main # "stopped" /\ main' # "stopped"
  BY <1>1, <1>2, NotStopped
<1>13. AbstractExecutor!Become({j}, "ready", "running", {{t}})
  BY <1>4, <1>6, <1>9, <1>10, <1>12, Moves
<1>14. AbstractExecutor!Start(j, t)
  BY <1>4, <1>7, <1>11, <1>13 DEF AbstractExecutor!Start
<1> QED BY <1>4, <1>14, Advances

(* A callback that has no fiber yet gets one: a new one, or its thread's.  *)
LEMMA DispatchCbRefined ==
    ASSUME Sound, Sound', NEW t \in Worker, DispatchCb(t)
    PROVE  Refined
<1> SUFFICES ASSUME NEW c, c = ft[t].cb,
                    NEW f, f = IF cb_fiber[t] # None THEN cb_fiber[t] ELSE c
             PROVE  Refined
  OBVIOUS
<1> USE NoneIsNoJob DEF Sound
<1>1. /\ pc[t] = "dispatch" /\ ft[t].fiber = None /\ t \in InHand
      /\ pc'[t] = "exec" /\ ft'[t] = EmptyTask /\ cb_fiber'[t] = f
      /\ \A u \in Worker \ {t} : /\ pc'[u] = pc[u] /\ ft'[u] = ft[u]
                                 /\ cb_fiber'[u] = cb_fiber[u]
      /\ UNCHANGED <<m_fibers, submitted, done, armed, main>>
  BY DEF DispatchCb, Goto, InHand, control, Inv, TypeOK
<1>2. /\ c \in Job /\ fiber[c].m_state = "NONE"
      /\ \A u \in Worker \ {t} : ft[u].cb # c
      /\ c \notin CbsOf(m_fibers)
  <2>1. c # None /\ fiber[c].m_state = "NONE"
    BY <1>1 DEF LocalOK, Inv
  <2>2. c \in Job
    BY <2>1 DEF TypeOK, FiberAndThread, Inv
  <2> QED BY <2>1, <2>2 DEF CbTaskUnique, CallbackOK, Inv
<1>3. f \in Job /\ fiber[f].m_cb \in done \cup {None}
  <2>1. cb_fiber[t] # None => cb_fiber[t] \in Job /\ fiber[cb_fiber[t]].m_cb = None
    <3>1. ~RunsCb(t)
      BY <1>1 DEF RunsCb, Executing
    <3> QED BY <3>1 DEF TaskInv, SpareOK, Inv, TypeOK
  <2>2. fiber[c].m_cb \in done \cup {None}
    BY <1>2 DEF CarrierInv
  <2> QED BY <1>2, <2>1, <2>2
<1>4. /\ \A g \in Job \ {f} : fiber'[g] = fiber[g]
      /\ fiber'[f].m_cb = c
  <2>1. PICK o \in {reset(fiber[f], c), Construct(c)} :
          fiber' = [fiber EXCEPT ![f] = swapIn(o)]
    BY DEF DispatchCb
  <2>2. swapIn(o).m_cb = c
    BY <2>1 DEF swapIn, reset, Construct
  <2> QED BY <1>3, <2>1, <2>2 DEF Inv, TypeOK
<1>5. /\ c \in submitted \ done /\ Runners(c) = {} /\ ~Awaited(c)
      /\ \A x \in Entries : Carries(x, c) <=> x.cb = c
  <2>1. Pending(c) /\ Seen
    BY NowSeen DEF Pending
  <2> QED BY <1>2, <2>1 DEF Seen, PendingView
<1>6. Status(c) = "ready"
  BY <1>5 DEF Status
<1>7. Place(c) \subseteq {t}
  <2>1. ASSUME NEW x \in Entries, Carries(x, c) PROVE x.thread \in {None, t}
    <3>1. PICK u \in InHand : x = ft[u]
      BY <1>2, <1>5, <2>1, NowSeen DEF Seen, EntryView
    <3>2. u = t
      BY <1>2, <1>5, <2>1, <3>1 DEF InHand
    <3> QED BY <1>1, <3>1, <3>2 DEF CarrierInv
  <2> QED BY <1>6, <2>1 DEF Place, PinsOf
<1>8. Cur(t)' = f /\ \A u \in Worker \ {t} : Cur(u)' = Cur(u)
  BY <1>1 DEF Cur, EmptyTask
<1>9. Status(c)' = "running" /\ Place(c)' = {t}
  BY <1>1, <1>4, <1>8, NextRunning DEF RunningView
<1>10. \A i \in Job \ {c} : Same(i)
  <2>1. InHand' = InHand \ {t}
    BY <1>1 DEF InHand
  <2>2. Entries' \subseteq Entries /\ Entries \ Entries' \subseteq {ft[t]}
    BY <1>1, <2>1 DEF Entries, InHand
  <2>3. \A i \in Job \ {c} : ~Carries(ft[t], i)
    BY <1>1 DEF Carries
  <2> QED BY <1>1, <1>3, <1>4, <1>8, <2>2, <2>3, OtherSame
<1>11. AbstractExecutor!Free(t)
  <2>1. \A i \in Job : Status(i) = "running" => t \notin Place(i)
    BY <1>1 DEF Place, Runners
  <2> QED BY <2>1 DEF AbstractExecutor!Free
<1>12. main # "stopped" /\ main' # "stopped"
  BY <1>1, NotStopped
<1>13. AbstractExecutor!Become({c}, "ready", "running", {{t}})
  BY <1>2, <1>6, <1>9, <1>10, <1>12, Moves
<1>14. AbstractExecutor!Start(c, t)
  BY <1>2, <1>7, <1>11, <1>13 DEF AbstractExecutor!Start
<1> QED BY <1>2, <1>14, Advances

-----------------------------------------------------------------------------
(* The body gives up its thread.                                           *)
LEMMA BodyLeaves ==
    ASSUME Sound, Sound', NEW t \in Worker, pc[t] = "exec", pc'[t] # "exec",
           NEW f, f = Cur(t), NEW j, j = fiber[f].m_cb,
           \A u \in Worker \ {t} : pc'[u] = pc[u],
           \A g \in Job \ {f} : fiber'[g] = fiber[g],
           fiber'[f].m_cb \in {j, None},
           UNCHANGED <<submitted, ft, cb_fiber, main>>,
           done' \in {done, done \cup {j}},
           armed' \in {armed, armed \cup {f}},
           \A x \in Entries' \ Entries : x = FiberTask(f, x.thread),
           Entries \subseteq Entries'
    PROVE  /\ f \in Job /\ j \in Job /\ j \in submitted \ done
           /\ f \notin armed
           /\ Status(j) = "running"
           /\ Runners(j)' = {}
           /\ \A g \in Job : fiber'[g].m_cb = j => g = f
           /\ \A x \in Entries : ~Carries(x, j)'
           /\ \A i \in Job \ {j} : Same(i)
           /\ main # "stopped" /\ main' # "stopped"
<1> USE NoneIsNoJob
<1>1. /\ f \in Job /\ j \in Job /\ j \in submitted \ done /\ f \notin armed
      /\ Status(j) = "running"
      /\ \A g \in Job : fiber[g].m_cb = j => g = f
      /\ \A u \in Worker : pc[u] = "exec" /\ Cur(u) = f => u = t
      /\ \A x \in Entries : ~Carries(x, j)
  BY RunningHere
<1>2. \A u \in Worker : Cur(u)' = Cur(u)
  BY DEF Cur
<1>3. \A g \in Job : fiber'[g].m_cb = j => g = f
  BY <1>1
<1>4. Runners(j)' = {}
  <2>1. \A u \in Worker : pc[u] = "exec" => Cur(u) \in Job
    BY CurIsHeld DEF Executing, Sound
  <2> QED BY <1>1, <1>2, <1>3, <2>1 DEF Runners
<1>5. \A x \in Entries : ~Carries(x, j)'
  <2>1. \A x \in Entries : x \in FiberAndThread
    BY NowSeen DEF Seen, EntryView
  <2> QED BY <1>1, <1>3, <2>1 DEF Carries, FiberAndThread
<1>6. ASSUME NEW i \in Job \ {j} PROVE Same(i)
  <2>1. ASSUME NEW x \in Entries' \ Entries PROVE ~Carries(x, i)'
    <3>1. x.fiber = f /\ x.cb = None
      BY <2>1 DEF FiberTask
    <3> QED BY <1>1, <3>1 DEF Carries
  <2>2. \A x \in Entries \ Entries' : ~Carries(x, i)
    OBVIOUS
  <2>3. i \in Job /\ j \in Job /\ i # j
    BY <1>1, <1>6
  <2> QED BY <1>1, <1>2, <2>1, <2>2, <2>3, OtherSame
<1> QED BY <1>1, <1>3, <1>4, <1>5, <1>6, NotStopped

LEMMA BodyRefined ==
    ASSUME Sound, Sound', NEW t \in Worker, Body(t)
    PROVE  Refined
<1> SUFFICES ASSUME NEW f, f = Cur(t), NEW j, j = fiber[f].m_cb PROVE Refined
  OBVIOUS
<1> USE NoneIsNoJob DEF Sound
<1>1. /\ pc[t] = "exec" /\ pc'[t] # "exec" /\ t \notin InHand'
      /\ \A u \in Worker \ {t} : pc'[u] = pc[u]
      /\ UNCHANGED <<submitted, ft, cb_fiber, main>>
  BY DEF Body, Finish, YieldToReady, Arm, SwitchTo, Goto, InHand, control, Inv, TypeOK
<1>2. InHand' = InHand
  BY <1>1 DEF InHand
<1>3. f \in Job /\ fiber[f] \in FiberObject /\ fiber \in [Job -> FiberObject]
  BY <1>1, CurIsHeld DEF Executing, Inv, TypeOK
<1>4. Entries' = Entries \/ SwitchTo(t)
  BY <1>1, <1>2 DEF Body, Finish, YieldToReady, Arm, Entries
<1>5. CASE Finish(t)
  <2>1. /\ \A g \in Job \ {f} : fiber'[g] = fiber[g]
        /\ fiber'[f].m_cb \in {j, None}
        /\ done' = done \cup {j} /\ armed' = armed /\ Entries' = Entries
    <3>1. PICK o \in {MainFuncReturn(fiber[f]), MainFuncThrow(fiber[f])} :
            fiber' = [fiber EXCEPT ![f] = o]
      BY <1>5 DEF Finish
    <3>2. o.m_cb \in {j, None}
      BY <1>3, <3>1 DEF MainFuncReturn, MainFuncThrow, FiberObject
    <3> QED BY <1>2, <1>3, <1>5, <3>1, <3>2 DEF Finish, Entries
  <2>2. /\ j \in Job /\ j \in submitted \ done /\ Status(j) = "running"
        /\ \A i \in Job \ {j} : Same(i) /\ main # "stopped" /\ main' # "stopped"
    BY <1>1, <2>1, BodyLeaves
  <2>3. Status(j)' = "done" /\ Place(j)' = {}
    BY <1>1, <2>1, <2>2 DEF Status, Place
  <2>4. AbstractExecutor!Become({j}, "running", "done", {{}})
    BY <2>2, <2>3, Moves, NotStopped, <1>1
  <2> QED BY <2>2, <2>4, Advances DEF AbstractExecutor!End
<1>6. CASE ~Finish(t)
  <2>1. /\ \A g \in Job \ {f} : fiber'[g] = fiber[g]
        /\ fiber'[f].m_cb = j /\ done' = done
    <3>1. \/ fiber' = fiber
          \/ fiber' = [fiber EXCEPT ![f] = MarkReady(fiber[f])]
      BY <1>6 DEF Body, YieldToReady, Arm, SwitchTo
    <3> QED BY <1>3, <1>6, <3>1, FiberOperations DEF Body, YieldToReady, Arm, SwitchTo
  <2>2. CASE YieldToReady(t) \/ Arm(t)
    <3>1. /\ armed' = IF Arm(t) THEN armed \cup {f} ELSE armed
          /\ armed' \in {armed, armed \cup {f}} /\ Entries' = Entries
      <4>1. Arm(t) => armed' = armed \cup {f} /\ m_fibers' = m_fibers
        BY DEF Arm
      <4>2. ~Arm(t) => armed' = armed /\ m_fibers' = m_fibers
        BY <2>2 DEF YieldToReady
      <4> QED BY <1>1, <1>2, <4>1, <4>2 DEF Entries
    <3>2. /\ j \in Job /\ j \in submitted \ done /\ Status(j) = "running"
          /\ f \notin armed /\ Runners(j)' = {}
          /\ \A g \in Job : fiber'[g].m_cb = j => g = f
          /\ \A x \in Entries : ~Carries(x, j)'
          /\ \A i \in Job \ {j} : Same(i)
          /\ main # "stopped" /\ main' # "stopped"
      BY <1>1, <2>1, <3>1, BodyLeaves
    <3>3. Awaited(j)' <=> f \in armed'
      <4>1. armed' \subseteq Job
        BY DEF Inv, TypeOK
      <4> QED BY <2>1, <3>2, <4>1 DEF Awaited
    <3>4. Status(j)' = IF Arm(t) THEN "waiting" ELSE "ready"
      BY <1>1, <2>1, <3>1, <3>2, <3>3 DEF Status
    <3>5. Place(j)' = {}
      BY <3>1, <3>2, <3>4 DEF Place, PinsOf
    <3>6. ASSUME NEW places, {} \in places
          PROVE  AbstractExecutor!Become({j}, "running", Status(j)', places)
      BY <3>2, <3>5, <3>6, Moves
    <3>7. CASE Arm(t)
      <4>1. AbstractExecutor!Become({j}, "running", "waiting", {{}})
        BY <3>4, <3>6, <3>7
      <4> QED BY <3>2, <4>1, Advances DEF AbstractExecutor!Wait
    <3>8. CASE ~Arm(t)
      <4>1. AbstractExecutor!Become({j}, "running", "ready", AbstractExecutor!Pin)
        BY <3>4, <3>6, <3>8 DEF AbstractExecutor!Pin
      <4> QED BY <3>2, <4>1, Advances DEF AbstractExecutor!Yield
    <3> QED BY <3>7, <3>8
  <2>3. CASE SwitchTo(t)
    <3>1. PICK thr \in Worker :
            m_fibers' = scheduleNoLock(m_fibers, FiberTask(f, thr))
      BY <2>3, SchedulerAssumption DEF SwitchTo, LegalPins
    <3> DEFINE task == FiberTask(f, thr)
    <3>2. /\ task \in FiberAndThread /\ task.fiber = f /\ task.cb = None
          /\ task.thread = thr /\ task = FiberTask(f, task.thread)
      BY <1>3 DEF FiberTask, FiberAndThread
    <3> HIDE DEF task
    <3>3. Entries' = Entries \cup {task}
      <4>1. ToSet(m_fibers)' = ToSet(m_fibers) \cup {task}
        BY <1>3, <3>1, <3>2, Queued DEF Inv, TypeOK, task
      <4> QED BY <1>1, <1>2, <4>1 DEF Entries
    <3>4. /\ j \in Job /\ j \in submitted \ done /\ Status(j) = "running"
          /\ f \notin armed /\ Runners(j)' = {}
          /\ \A g \in Job : fiber'[g].m_cb = j => g = f
          /\ \A x \in Entries : ~Carries(x, j)'
          /\ \A i \in Job \ {j} : Same(i)
          /\ main # "stopped" /\ main' # "stopped"
      <4>1. armed' = armed
        BY <2>3 DEF SwitchTo
      <4> QED BY <1>1, <2>1, <3>2, <3>3, <4>1, BodyLeaves
    <3>5. ~Awaited(j)'
      <4>1. armed' = armed /\ armed \subseteq Job
        BY <2>3 DEF SwitchTo, Inv, TypeOK
      <4> QED BY <3>4, <4>1 DEF Awaited
    <3>6. Status(j)' = "ready"
      BY <1>1, <2>1, <3>4, <3>5 DEF Status
    <3>7. Carries(task, j)'
      BY <1>3, <2>1, <3>2 DEF Carries
    <3>8. Place(j)' = {thr}
      <4>1. thr # None
        BY SchedulerAssumption
      <4> QED BY <3>2, <3>3, <3>4, <3>6, <3>7, <4>1 DEF Place, PinsOf
    <3>9. {thr} \in AbstractExecutor!Pin
      BY DEF AbstractExecutor!Pin
    <3>10. AbstractExecutor!Become({j}, "running", "ready", AbstractExecutor!Pin)
      BY <3>4, <3>6, <3>8, <3>9, Moves
    <3> QED BY <3>4, <3>10, Advances DEF AbstractExecutor!Yield
  <2> QED BY <1>6, <2>2, <2>3 DEF Body
<1> QED BY <1>5, <1>6

-----------------------------------------------------------------------------
(* Clients.                                                                *)

(* A step of a client that holds no thread, seen from another callback.    *)
LEMMA ClientSame ==
    ASSUME Sound, Sound', NEW i \in Job,
           i \in submitted' <=> i \in submitted, done' = done,
           \A g \in Job : \/ fiber'[g].m_cb = fiber[g].m_cb
                          \/ /\ fiber[g].m_cb \in done \cup {None}
                             /\ fiber'[g].m_cb # i,
           \A g \in Job : fiber[g].m_cb = i => (g \in armed' <=> g \in armed),
           UNCHANGED <<pc, ft, cb_fiber>>,
           Entries \subseteq Entries',
           \A x \in Entries' \ Entries : x.thread = None \/ ~Carries(x, i)'
    PROVE  Same(i)
<1>1. CASE i \notin submitted \ done
  BY <1>1, SettledSame
<1>2. CASE i \in submitted \ done
  <2>1. \A u \in Worker : Cur(u)' = Cur(u)
    BY DEF Cur
  <2> QED BY <1>2, <2>1, NoneIsNoJob, CarriedSame
<1> QED BY <1>1, <1>2

LEMMA WakeRefined ==
    ASSUME Sound, Sound', NEW f \in Job, Wake(f)
    PROVE  Refined
<1> SUFFICES ASSUME NEW j, j = fiber[f].m_cb, NEW task, task = FiberTask(f, None)
             PROVE  Refined
  OBVIOUS
<1> USE NoneIsNoJob DEF Sound
<1>1. /\ f \in armed /\ armed' = armed \ {f} /\ Alive
      /\ m_fibers' = scheduleNoLock(m_fibers, task)
      /\ UNCHANGED <<fiber, submitted, done, main, pc, ft, cb_fiber>>
  BY DEF Wake, control, locals
<1>2. /\ task \in FiberAndThread /\ task.fiber = f /\ task.cb = None
      /\ task.thread = None
  BY DEF FiberTask, FiberAndThread
<1>3. Entries' = Entries \cup {task}
  <2>1. ToSet(m_fibers)' = ToSet(m_fibers) \cup {task}
    BY <1>1, <1>2, Queued DEF Inv, TypeOK
  <2> QED BY <1>1, <2>1 DEF Entries, InHand
<1>4. /\ f \notin FibersOf(m_fibers)
      /\ \A u \in Worker : Held(u) = f => pc[u] \in {"hold", "back", "after"}
  BY <1>1 DEF Inv, ResumableOK
<1>5. Live(f)
  <2>1. fiber[f].m_state \in {"EXEC", "HOLD"}
    BY <1>1 DEF Inv, ResumableOK
  <2>2. \A u \in Worker : cb_fiber[u] = f => RunsCb(u)
    BY <1>1 DEF Inv, CbFiberOK
  <2> QED BY <2>1, <2>2 DEF Live, Inv, BodyKept
<1>6. /\ j \in submitted \ done
      /\ \A g \in Job : fiber[g].m_cb = j => g = f
      /\ Runners(j) = {u \in Worker : pc[u] = "exec" /\ Held(u) = f}
      /\ Awaited(j)
      /\ \A x \in Entries : Carries(x, j) <=> x.fiber = f
  <2>1. Seen
    BY NowSeen
  <2> QED BY <1>1, <1>5, <2>1 DEF Seen, FiberView
<1>7. Runners(j) = {} /\ \A x \in Entries : ~Carries(x, j)
  <2>1. \A x \in Entries : x.fiber # f
    BY <1>4, NowSeen DEF Seen, EntryView, InHand
  <2> QED BY <1>4, <1>6, <2>1
<1>8. /\ Runners(j)' = {} /\ ~Awaited(j)'
      /\ \A x \in Entries' : Carries(x, j)' => x.thread = None
  <2>1. Runners(j)' = Runners(j) /\ \A x : Carries(x, j)' <=> Carries(x, j)
    BY <1>1 DEF Runners, Cur, Carries
  <2>2. ~Awaited(j)'
    BY <1>1, <1>6 DEF Awaited, Inv, TypeOK
  <2> QED BY <1>2, <1>3, <1>7, <2>1, <2>2
<1>9. /\ Status(j) = "waiting" /\ Status(j)' = "ready" /\ Place(j)' = {}
  <2>1. Status(j) = "waiting" /\ Status(j)' = "ready"
    BY <1>1, <1>6, <1>7, <1>8 DEF Status
  <2> QED BY <1>8, <2>1 DEF Place, PinsOf
<1>10. \A i \in Job \ {j} : Same(i)
  BY <1>1, <1>2, <1>3, ClientSame
<1>11. main # "stopped" /\ main' # "stopped"
  BY <1>1, NotStopped DEF Alive
<1>12. j \in Job
  BY <1>6 DEF Inv, TypeOK
<1>13. AbstractExecutor!Become({j}, "waiting", "ready", {{}})
  BY <1>9, <1>10, <1>11, <1>12, Moves
<1> QED BY <1>12, <1>13, Advances DEF AbstractExecutor!Fire

LEMMA NextPending ==
    ASSUME Sound', NEW j \in Job, Pending(j)'
    PROVE  /\ j \in submitted' \ done'
           /\ Status(j)' = "ready"
           /\ \A x \in Entries' : Carries(x, j)' <=> x.cb = j
BY NextSeen DEF Seen, PendingView, Status

LEMMA SubmitRefined ==
    ASSUME Sound, Sound', NEW j \in Job, NEW thr \in Pins, Submit(j, thr),
           main # "stopped"
    PROVE  Refined
<1> USE NoneIsNoJob DEF Sound
<1>1. /\ j \notin submitted /\ submitted' = submitted \cup {j}
      /\ fiber[j].m_state = "NONE" /\ fiber[j].m_cb \in done \cup {None}
      /\ thr \in Worker \cup {None}
      /\ UNCHANGED <<done, armed, main, pc, ft, cb_fiber>>
  BY SchedulerAssumption DEF Submit, CallbackOK, control, locals, Inv, CarrierInv
<1>2. Status(j) = "new"
  BY <1>1 DEF Status
<1>3. \A x \in Entries : x.cb # j /\ x.fiber # j
  <2>1. ~Pending(j) /\ j \notin FibersOf(m_fibers)
    BY <1>1, NowSeen DEF Seen, JobView, Inv, ResumableOK
  <2>2. \A u \in Worker : Held(u) # j
    BY <1>1, HeldFacts
  <2>3. ASSUME NEW x \in Entries PROVE x.cb # j
    BY <2>1, NowSeen DEF Seen, EntryView, InHand, Pending
  <2>4. ASSUME NEW x \in Entries PROVE x.fiber # j
    BY <2>1, <2>2, NowSeen DEF Seen, EntryView, InHand
  <2> QED BY <2>3, <2>4
<1>4. \E task \in FiberAndThread :
        /\ task.thread = thr
        /\ Entries' = Entries \cup {task}
        /\ \/ task.cb = j /\ task.fiber = None /\ fiber' = fiber
           \/ /\ task.fiber = j /\ task.cb = None
              /\ fiber' = [fiber EXCEPT ![j] = Construct(j)]
  <2>1. ASSUME NEW task \in {CbTask(j, thr), FiberTask(j, thr)},
               m_fibers' = scheduleNoLock(m_fibers, task)
        PROVE  /\ task \in FiberAndThread /\ task.thread = thr
               /\ Entries' = Entries \cup {task}
    <3>1. /\ task \in FiberAndThread /\ task.thread = thr
          /\ task.fiber # None \/ task.cb # None
      BY <1>1 DEF CbTask, FiberTask, FiberAndThread
    <3>2. ToSet(m_fibers)' = ToSet(m_fibers) \cup {task}
      BY <2>1, <3>1, Queued DEF Inv, TypeOK
    <3> QED BY <1>1, <3>1, <3>2 DEF Entries, InHand
  <2>2. CASE ScheduleCb(j, thr)
    <3>1. CbTask(j, thr).fiber = None /\ CbTask(j, thr).cb = j
      BY DEF CbTask
    <3> QED BY <2>1, <2>2, <3>1 DEF ScheduleCb
  <2>3. CASE ScheduleFiber(j, thr)
    <3>1. FiberTask(j, thr).cb = None /\ FiberTask(j, thr).fiber = j
      BY DEF FiberTask
    <3> QED BY <2>1, <2>3, <3>1 DEF ScheduleFiber
  <2> QED BY <2>2, <2>3 DEF Submit
<1>5. PICK task \in FiberAndThread :
        /\ task.thread = thr
        /\ Entries' = Entries \cup {task}
        /\ \/ task.cb = j /\ task.fiber = None /\ fiber' = fiber
           \/ /\ task.fiber = j /\ task.cb = None
              /\ fiber' = [fiber EXCEPT ![j] = Construct(j)]
  BY <1>4
<1>6. /\ \A g \in Job \ {j} : fiber'[g] = fiber[g]
      /\ fiber'[j] = fiber[j] \/ fiber'[j].m_cb = j
  <2>1. Construct(j).m_cb = j
    BY DEF Construct
  <2> QED BY <1>5, <2>1 DEF Inv, TypeOK
<1>7. \A i \in Job \ {j} : Same(i)
  <2> SUFFICES ASSUME NEW i \in Job \ {j} PROVE Same(i)
    OBVIOUS
  <2>1. ~Carries(task, i)'
    <3>1. task.fiber = j => fiber'[j].m_cb = j
      BY <1>5 DEF Inv, TypeOK, Construct
    <3> QED BY <1>5, <3>1 DEF Carries
  <2> QED BY <1>1, <1>5, <1>6, <2>1, ClientSame
<1>8. Status(j)' = "ready" /\ PinsOf(j)' = {thr} \ {None}
  <2>1. CASE task.cb = j
    <3>1. Pending(j)'
      <4>1. task \in Entries' /\ task.cb \in Job
        BY <1>5, <2>1
      <4>2. task.cb \in CbsOf(m_fibers)' \/ \E u \in InHand' : task = ft'[u]
        BY <4>1, NextSeen DEF Seen, EntryView
      <4> QED BY <2>1, <4>2 DEF Pending, InHand
    <3>2. \A x \in Entries' : Carries(x, j)' <=> x = task
      BY <1>3, <1>5, <2>1, <3>1, NextPending
    <3> QED BY <1>5, <3>1, <3>2, NextPending DEF PinsOf
  <2>2. CASE task.fiber = j
    <3>1. fiber'[j] = Construct(j)
      BY <1>5, <2>2 DEF Inv, TypeOK
    <3>2. Live(j)' /\ fiber'[j].m_cb = j
      BY <3>1 DEF Live, Construct
    <3>3. /\ j \in submitted' \ done'
          /\ Runners(j)' = {u \in Worker : pc'[u] = "exec" /\ Held(u)' = j}
          /\ Awaited(j)' <=> j \in armed'
          /\ \A x \in Entries' : Carries(x, j)' <=> x.fiber = j
      <4>1. Seen'
        BY NextSeen
      <4> QED BY <3>2, <4>1 DEF Seen, FiberView
    <3>4. /\ \A u \in Worker : Held(u)' # j
          /\ j \notin armed'
      <4>1. \A u \in Worker : Held(u) # j
        BY <1>1, HeldFacts
      <4>2. \A u \in Worker : Held(u)' = Held(u)
        BY <1>1 DEF Held, Executing, Cur
      <4> QED BY <1>1, <4>1, <4>2 DEF Inv, ResumableOK
    <3>5. Status(j)' = "ready"
      BY <3>3, <3>4 DEF Status
    <3>6. \A x \in Entries' : Carries(x, j)' <=> x = task
      BY <1>3, <1>5, <2>2, <3>3
    <3> QED BY <1>5, <3>5, <3>6 DEF PinsOf
  <2> QED BY <1>5, <2>1, <2>2
<1>9. Place(j)' = {thr} \ {None}
  BY <1>8 DEF Place
<1>10. {thr} \ {None} \in AbstractExecutor!Pin
  BY <1>1, SchedulerAssumption DEF AbstractExecutor!Pin
<1>11. AbstractExecutor!Become({j}, "new", "ready", AbstractExecutor!Pin)
  BY <1>1, <1>2, <1>7, <1>8, <1>9, <1>10, Moves
<1>12. {j} \in SUBSET Job /\ AbstractExecutor!Submit({j})
  BY <1>2, <1>11 DEF AbstractExecutor!Submit
<1> QED BY <1>12 DEF Refined, AbstractExecutor!Next

LEMMA SubmitBatchRefined ==
    ASSUME Sound, Sound', MainSubmitBatch
    PROVE  Refined
<1> USE NoneIsNoJob DEF Sound
<1>1. PICK i, j \in Job \ submitted :
        /\ i # j
        /\ m_fibers' = scheduleNoLock(scheduleNoLock(m_fibers, CbTask(i, None)),
                                      CbTask(j, None))
        /\ submitted' = submitted \cup {i, j}
  BY DEF MainSubmitBatch
<1> DEFINE S == {i, j}
           a == CbTask(i, None)
           b == CbTask(j, None)
<1>2. UNCHANGED <<fiber, done, armed, main, pc, ft, cb_fiber>> /\ main # "stopped"
  BY DEF MainSubmitBatch, control, locals
<1>3. /\ a \in FiberAndThread /\ a.cb = i /\ a.fiber = None /\ a.thread = None
      /\ b \in FiberAndThread /\ b.cb = j /\ b.fiber = None /\ b.thread = None
  BY DEF CbTask, FiberAndThread
<1> HIDE DEF a, b
<1>4. Entries' = Entries \cup {a, b}
  <2> SUFFICES ASSUME NEW q, q = scheduleNoLock(m_fibers, a)
               PROVE  Entries' = Entries \cup {a, b}
    OBVIOUS
  <2>1. ToSet(q) = ToSet(m_fibers) \cup {a} /\ q \in Seq(FiberAndThread)
    BY <1>3, Queued DEF Inv, TypeOK
  <2>2. m_fibers' = scheduleNoLock(q, b)
    BY <1>1 DEF a, b
  <2>3. ToSet(m_fibers') = ToSet(q) \cup {b}
    BY <1>3, <2>1, <2>2, Queued
  <2> QED BY <1>2, <2>1, <2>3 DEF Entries, InHand
<1>5. ASSUME NEW k \in S
      PROVE  Status(k) = "new" /\ Status(k)' = "ready" /\ Place(k)' = {}
  <2>1. Status(k) = "new"
    BY <1>1, <1>5 DEF Status
  <2>2. Pending(k)'
    <3>1. PICK x \in {a, b} : x.cb = k
      BY <1>3, <1>5
    <3>2. x \in Entries' /\ k \in Job
      BY <1>1, <1>4, <1>5
    <3> QED BY <3>1, <3>2, NextSeen DEF Seen, EntryView, Pending, InHand
  <2>3. \A x \in Entries : x.cb # k
    <3>1. ~Pending(k) /\ k \in Job
      BY <1>1, <1>5, NowSeen DEF Seen, JobView
    <3> QED BY <3>1, NowSeen DEF Seen, EntryView, Pending, InHand
  <2>4. Status(k)' = "ready" /\ \A x \in Entries' : Carries(x, k)' <=> x.cb = k
    BY <1>1, <1>5, <2>2, NextPending
  <2>5. PinsOf(k)' = {}
    BY <1>3, <1>4, <2>3, <2>4 DEF PinsOf
  <2> QED BY <2>1, <2>4, <2>5 DEF Place
<1>6. ASSUME NEW k \in Job \ S PROVE Same(k)
  BY <1>1, <1>2, <1>3, <1>4, <1>6, ClientSame
<1>7. {} \in AbstractExecutor!Pin
  BY DEF AbstractExecutor!Pin
<1>8. AbstractExecutor!Become(S, "new", "ready", AbstractExecutor!Pin)
  BY <1>2, <1>5, <1>6, <1>7, Moves
<1>9. S \in SUBSET Job /\ AbstractExecutor!Submit(S)
  BY <1>2, <1>8 DEF AbstractExecutor!Submit
<1> QED BY <1>9 DEF Refined, AbstractExecutor!Next

-----------------------------------------------------------------------------
(* start() and stop().                                                     *)

LEMMA SoundStopped == Sound => StoppedIsQuiet
BY QuietStopped DEF Sound

LEMMA NextStopped == Sound' => StoppedIsQuiet'
BY SoundStopped, PTL

(* Threads come and go.                                                    *)
LEMMA ControlSame ==
    ASSUME Sound, Sound', UNCHANGED <<tasks, ft, cb_fiber>>,
           \A u \in Worker : \/ pc'[u] = pc[u]
                             \/ pc[u] = "off" /\ pc'[u] = "take"
    PROVE  \A i \in Job : Same(i)
<1>1. /\ UNCHANGED <<fiber, m_fibers, submitted, done, armed>> /\ InHand' = InHand
      /\ \A u \in Worker : Cur(u)' = Cur(u) /\ (pc'[u] = "exec" <=> pc[u] = "exec")
  BY DEF tasks, InHand, Cur
<1>2. Entries' = Entries
  BY <1>1 DEF Entries
<1>3. ASSUME NEW i \in Job PROVE Same(i)
  <2>1. CASE i \in submitted \ done
    BY <1>1, <1>2, <2>1, CarriedSame
  <2>2. CASE i \notin submitted \ done
    BY <1>1, <2>2, SettledSame
  <2> QED BY <2>1, <2>2
<1> QED BY <1>3

(* stop() returns when nobody is left who runs anything, and nothing that  *)
(* any thread could take.                                                  *)
LEMMA StopRefined ==
    ASSUME Sound, Sound', main # "stopped", main' = "stopped",
           UNCHANGED <<tasks, locals>>
    PROVE  Refined
<1> USE NoneIsNoJob
<1>1. UNCHANGED <<fiber, m_fibers, submitted, done, armed, pc, ft, cb_fiber>>
  BY DEF tasks, locals
<1>2. /\ \A t \in Worker : pc[t] \in {"off", "exit"}
      /\ \A i \in DOMAIN m_fibers : m_fibers[i].thread # None
  BY <1>1, NextStopped DEF StoppedIsQuiet
<1>3. ASSUME NEW j \in Job
      PROVE  Status(j) # "running" /\ (Status(j) = "ready" => Place(j) # {})
  <2>1. Runners(j) = {}
    BY <1>2 DEF Runners
  <2>2. Status(j) # "running"
    BY <2>1 DEF Status
  <2>3. ASSUME Status(j) = "ready" PROVE PinsOf(j) # {}
    <3>1. j \in submitted \ done /\ ~Awaited(j)
      BY <2>3 DEF Status
    <3>2. ASSUME NEW n \in DOMAIN m_fibers, Carries(m_fibers[n], j)
          PROVE  PinsOf(j) # {}
      <4>1. m_fibers[n] \in Entries
        BY DEF Entries, ToSet
      <4> QED BY <1>2, <3>2, <4>1 DEF PinsOf
    <3>3. CASE Pending(j)
      <4>1. j \in CbsOf(m_fibers)
        BY <1>2, <3>3 DEF Pending, Sound, Inv, LocalOK
      <4>2. PICK n \in DOMAIN m_fibers : m_fibers[n].cb = j
        BY <4>1 DEF CbsOf
      <4> QED BY <3>2, <4>2 DEF Carries
    <3>4. CASE ~Pending(j)
      <4>1. PICK f \in Job : Live(f) /\ fiber[f].m_cb = j
        BY <3>1, <3>4, NowSeen DEF Seen, JobView
      <4>2. \A t \in Worker : Held(t) # f
        BY <1>2, HeldFacts DEF Sound
      <4>3. f \in FibersOf(m_fibers)
        BY <3>1, <4>1, <4>2 DEF Sound, TaskInv, PlacedOK, Resumable, Awaited
      <4>4. PICK n \in DOMAIN m_fibers : m_fibers[n].fiber = f
        BY <4>3 DEF FibersOf
      <4> QED BY <3>2, <4>1, <4>4 DEF Carries
    <3> QED BY <3>3, <3>4
  <2> QED BY <2>2, <2>3 DEF Place
<1>4. \A i \in Job : Same(i)
  BY <1>1, ControlSame
<1>5. AbstractExecutor!Stop
  BY <1>3, <1>4 DEF AbstractExecutor!Stop, Same
<1> QED BY <1>5 DEF Refined, AbstractExecutor!Next

LEMMA StartStopRefined ==
    ASSUME Sound, Sound', Start \/ StopBegin \/ Stop
    PROVE  Refined
<1>1. /\ UNCHANGED <<tasks, ft, cb_fiber>> /\ main # "stopped"
      /\ main' = "stopped" => UNCHANGED locals
  BY DEF Start, StopBegin, Stop, StopAlone, StopAloneCheck, StopAll, StopRoot,
         RootReturn, Join, locals
<1>2. CASE main' = "stopped"
  BY <1>1, <1>2, StopRefined
<1>3. CASE main' # "stopped"
  <2>1. \A u \in Worker : pc'[u] = pc[u] \/ (pc[u] = "off" /\ pc'[u] = "take")
    <3>1. CASE Start
      BY <3>1 DEF Start, Sound, Inv, EntryOK
    <3>2. CASE StopRoot
      <4>1. Caller \in Worker
        BY DEF Worker
      <4> QED BY <3>2, <4>1 DEF StopRoot, Goto, Sound, Inv, EntryOK, TypeOK
    <3>3. CASE StopBegin \/ StopAlone \/ StopAloneCheck \/ StopAll \/ RootReturn \/ Join
      BY <3>3 DEF StopBegin, StopAlone, StopAloneCheck, StopAll, RootReturn, Join, locals
    <3> QED BY <3>1, <3>2, <3>3 DEF Stop
  <2> QED BY <1>1, <1>3, <2>1, ControlSame, Stutters
<1> QED BY <1>2, <1>3

-----------------------------------------------------------------------------
LEMMA InitRefined == Init => AbstractExecutor!Init
<1> SUFFICES ASSUME Init PROVE AbstractExecutor!Init
  OBVIOUS
<1>1. \A j \in Job : Status(j) = "new" /\ Place(j) = {}
  BY DEF Init, Status, Place
<1> QED BY <1>1 DEF Init, AbstractExecutor!Init

LEMMA NextRefined == Sound /\ Sound' /\ [Next]_vars => Refined
<1> SUFFICES ASSUME Sound, Sound', [Next]_vars PROVE Refined
  OBVIOUS
<1>1. CASE UNCHANGED vars
  <2>1. UNCHANGED <<tasks, ft, cb_fiber, pc, main>>
    BY <1>1 DEF vars, locals, control
  <2> QED BY <2>1, ControlSame, Stutters
<1>2. CASE Start \/ StopBegin \/ Stop
  BY <1>2, StartStopRefined
<1>3. CASE MainSubmit
  BY <1>3, SubmitRefined DEF MainSubmit
<1>4. CASE MainSubmitBatch
  BY <1>4, SubmitBatchRefined
<1>5. CASE \E f \in Job : Wake(f) \/ ScheduleFinished(f)
  BY <1>5, WakeRefined, QuietFinished
<1>6. ASSUME NEW t \in Worker, Run(t) \/ Body(t) PROVE Refined
  BY <1>6, QuietRun, DispatchFiberRefined, DispatchCbRefined, QuietFinished,
     QuietLetGo, BodyRefined DEF Run
<1>7. ASSUME NEW t \in Worker, BodySubmit(t) PROVE Refined
  <2>1. main # "stopped"
    BY <1>7, NotStopped DEF BodySubmit
  <2> QED BY <1>7, <2>1, SubmitRefined DEF BodySubmit
<1> QED BY <1>1, <1>2, <1>3, <1>4, <1>5, <1>6, <1>7 DEF Next

(* run(), with its queue, its fibers used again and again and wake-ups     *)
(* that come before the sleeper has left, implements the executor: a       *)
(* callback runs on a thread that its pin allows, on one at a time, and    *)
(* ends once; a wake-up makes it ready once; stop() returns when nothing   *)
(* runs and nothing is left that any thread could take.                    *)
THEOREM ImplementsExecutor == Spec => ExecutorSpec
<1>1. Sound /\ Sound' /\ [Next]_vars => [AbstractExecutor!Next]_(AbstractExecutor!executor)
  BY NextRefined DEF Refined
<1> QED
  BY <1>1, InitRefined, SoundAlways, PTL DEF Spec, ExecutorSpec, AbstractExecutor!Spec
=============================================================================
