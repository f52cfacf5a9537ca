--------------------------- MODULE SchedulerProofs ---------------------------
(***************************************************************************)
(* Safety of Scheduler for every number of threads and callbacks: the type *)
(* invariant, SoleHolder, AssertionsHold and ActiveCount.                  *)
(***************************************************************************)
EXTENDS Scheduler, TLAPS, FiniteSetTheorems, SequenceTheorems

-----------------------------------------------------------------------------
(* The inductive invariant.                                                *)

(* A queued task is a fiber or a callback, never both, and no fiber and no *)
(* callback is queued twice.                                               *)
QueueOK(q) ==
    /\ \A i \in DOMAIN q : (q[i].fiber = None) # (q[i].cb = None)
    /\ \A i, k \in DOMAIN q :
        /\ q[i].fiber # None /\ q[i].fiber = q[k].fiber => i = k
        /\ q[i].cb # None /\ q[i].cb = q[k].cb => i = k

(* What thread t has in hand fits where it is.                             *)
LocalOK(t) ==
    /\ pc[t] \notin {"dispatch", "exec", "hold", "back", "after"}
         => ft[t] = EmptyTask
    /\ pc[t] # "dispatch" => ft[t].cb = None
    /\ pc[t] = "dispatch" =>
         /\ (ft[t].fiber = None) # (ft[t].cb = None)
         /\ ft[t].fiber # None
              => fiber[ft[t].fiber].m_state \notin {"EXEC", "NONE"}
         /\ ft[t].cb # None => ft[t].cb \in submitted
                               /\ fiber[ft[t].cb].m_state = "NONE"
    /\ Executing(t) => Cur(t) # None
    /\ pc[t] \in {"exec", "hold"} => fiber[Cur(t)].m_state = "EXEC"
    /\ pc[t] \in {"back", "after"}
         => fiber[Cur(t)].m_state \in {"EXEC", "READY", "TERM", "EXCEPT"}

(* A cb_fiber that is not being executed is INIT and known to nobody else. *)
RunsCb(t) == Executing(t) /\ ft[t].fiber = None

CbFiberOK(t) ==
    cb_fiber[t] # None /\ ~RunsCb(t) =>
        /\ fiber[cb_fiber[t]].m_state = "INIT"
        /\ cb_fiber[t] \notin FibersOf(m_fibers) \cup armed
        /\ \A u \in Worker : Held(u) # cb_fiber[t]

CbFiberUnique ==
    \A t, u \in Worker : cb_fiber[t] # None /\ cb_fiber[t] = cb_fiber[u] => t = u

CbTaskUnique ==
    \A t, u \in Worker : ft[t].cb # None /\ ft[t].cb = ft[u].cb => t = u

(* A fiber that can be resumed (it is queued, or a waker has it) exists;   *)
(* if a thread holds it all the same, its body is on the way out.          *)
ResumableOK ==
    /\ FibersOf(m_fibers) \cap armed = {}
    /\ \A f \in armed : fiber[f].m_state \in {"EXEC", "HOLD"}
    /\ \A f \in FibersOf(m_fibers) : fiber[f].m_state # "NONE"
    /\ \A f \in FibersOf(m_fibers) \cup armed, t \in Worker :
        Held(t) = f => /\ pc[t] \in {"hold", "back", "after"}
                       /\ fiber[f].m_state = "EXEC"

(* A callback waiting in the queue has no fiber yet.                       *)
CallbackOK ==
    /\ \A c \in CbsOf(m_fibers) : c \in submitted /\ fiber[c].m_state = "NONE"
    /\ \A c \in CbsOf(m_fibers), t \in Worker : ft[t].cb # c
    /\ \A j \in Job \ submitted : fiber[j].m_state = "NONE"

(* A fiber without a callback has ended, or waits for its thread to reset  *)
(* it with the next one.                                                   *)
BodyKept ==
    \A f \in Job : fiber[f].m_cb = None =>
        \/ fiber[f].m_state \in {"NONE", "TERM"}
        \/ \E t \in Worker : cb_fiber[t] = f /\ ~RunsCb(t)

(* Threads enter run() only by start() and by stop()'s call().             *)
EntryOK ==
    /\ main = "new" => \A t \in Worker : pc[t] = "off"
    /\ main \in {"running", "stop1", "stop2", "stop3", "stop4"} => pc[Caller] = "off"

Inv ==
    /\ TypeOK
    /\ QueueOK(m_fibers)
    /\ \A t \in Worker : LocalOK(t) /\ CbFiberOK(t)
    /\ CbFiberUnique
    /\ CbTaskUnique
    /\ ResumableOK
    /\ CallbackOK
    /\ BodyKept
    /\ EntryOK
    /\ SoleHolder
    /\ ActiveCount

-----------------------------------------------------------------------------
(* The queue's operations, in terms of the sets of what is queued.         *)

(* scheduleNoLock() of a fiber that is not queued.                         *)
LEMMA AppendFiber ==
    ASSUME NEW q \in Seq(FiberAndThread), QueueOK(q),
           NEW f \in Job, f \notin FibersOf(q), NEW thr \in Worker \cup {None},
           NEW r, r = scheduleNoLock(q, FiberTask(f, thr))
    PROVE  /\ r \in Seq(FiberAndThread)
           /\ QueueOK(r)
           /\ FibersOf(r) = FibersOf(q) \cup {f}
           /\ CbsOf(r) = CbsOf(q)
<1> DEFINE task == FiberTask(f, thr)
<1>1. f # None
  BY NoneIsNoJob
<1>2. task \in FiberAndThread /\ task.fiber = f /\ task.cb = None
  BY DEF FiberTask, FiberAndThread
<1>3. r = Append(q, task)
  BY <1>1, <1>2 DEF scheduleNoLock
<1>4. /\ r \in Seq(FiberAndThread)
      /\ DOMAIN r = 1 .. Len(q) + 1
      /\ DOMAIN q = 1 .. Len(q) /\ Len(q) \in Nat
      /\ \A i \in DOMAIN q : r[i] = q[i]
      /\ r[Len(q) + 1] = task
  <2> HIDE DEF task
  <2> QED BY <1>2, <1>3
<1> HIDE DEF task
<1>5. FibersOf(r) = FibersOf(q) \cup {f}
  BY <1>1, <1>2, <1>4 DEF FibersOf
<1>6. CbsOf(r) = CbsOf(q)
  BY <1>2, <1>4 DEF CbsOf
<1>7. QueueOK(r)
  <2>1. \A i \in DOMAIN q : q[i].fiber # f
    BY <1>1 DEF FibersOf
  <2> QED BY <1>1, <1>2, <1>4, <2>1 DEF QueueOK
<1> QED BY <1>4, <1>5, <1>6, <1>7

(* scheduleNoLock() of a callback that is not queued.                      *)
LEMMA AppendCb ==
    ASSUME NEW q \in Seq(FiberAndThread), QueueOK(q),
           NEW c \in Job, c \notin CbsOf(q), NEW thr \in Worker \cup {None},
           NEW r, r = scheduleNoLock(q, CbTask(c, thr))
    PROVE  /\ r \in Seq(FiberAndThread)
           /\ QueueOK(r)
           /\ FibersOf(r) = FibersOf(q)
           /\ CbsOf(r) = CbsOf(q) \cup {c}
<1> DEFINE task == CbTask(c, thr)
<1>1. c # None
  BY NoneIsNoJob
<1>2. task \in FiberAndThread /\ task.fiber = None /\ task.cb = c
  BY DEF CbTask, FiberAndThread
<1>3. r = Append(q, task)
  BY <1>1, <1>2 DEF scheduleNoLock
<1>4. /\ r \in Seq(FiberAndThread)
      /\ DOMAIN r = 1 .. Len(q) + 1
      /\ DOMAIN q = 1 .. Len(q) /\ Len(q) \in Nat
      /\ \A i \in DOMAIN q : r[i] = q[i]
      /\ r[Len(q) + 1] = task
  <2> HIDE DEF task
  <2> QED BY <1>2, <1>3
<1> HIDE DEF task
<1>5. FibersOf(r) = FibersOf(q)
  BY <1>2, <1>4 DEF FibersOf
<1>6. CbsOf(r) = CbsOf(q) \cup {c}
  BY <1>1, <1>2, <1>4 DEF CbsOf
<1>7. QueueOK(r)
  <2>1. \A i \in DOMAIN q : q[i].cb # c
    BY <1>1 DEF CbsOf
  <2> QED BY <1>1, <1>2, <1>4, <2>1 DEF QueueOK
<1> QED BY <1>4, <1>5, <1>6, <1>7

(* Taking the task at position i out of the queue.                         *)
LEMMA TakeOut ==
    ASSUME NEW q \in Seq(FiberAndThread), QueueOK(q), NEW i \in DOMAIN q,
           NEW r, r = RemoveAt(q, i)
    PROVE  /\ r \in Seq(FiberAndThread)
           /\ QueueOK(r)
           /\ FibersOf(r) = FibersOf(q) \ {q[i].fiber}
           /\ CbsOf(r) = CbsOf(q) \ {q[i].cb}
           /\ ToSet(r) \cup {q[i]} = ToSet(q)
<1> DEFINE old(k) == IF k < i THEN k ELSE k + 1
<1>1. /\ Len(q) \in Nat /\ DOMAIN q = 1 .. Len(q)
      /\ i \in Nat /\ 1 <= i /\ i <= Len(q)
  OBVIOUS
<1>2. /\ r \in Seq(FiberAndThread)
      /\ Len(r) = Len(q) - 1
      /\ \A k \in 1 .. Len(q) - 1 : r[k] = q[old(k)]
  <2> DEFINE a == SubSeq(q, 1, i - 1)
             b == SubSeq(q, i + 1, Len(q))
  <2>1. /\ a \in Seq(FiberAndThread) /\ Len(a) = i - 1
        /\ \A k \in 1 .. i - 1 : a[k] = q[k]
    BY <1>1
  <2>2. /\ b \in Seq(FiberAndThread) /\ Len(b) = Len(q) - i
        /\ \A k \in 1 .. Len(q) - i : b[k] = q[k + i]
    BY <1>1
  <2>3. r = a \o b
    BY DEF RemoveAt
  <2> HIDE DEF a, b
  <2>4. /\ r \in Seq(FiberAndThread) /\ Len(r) = Len(q) - 1
    <3>1. r \in Seq(FiberAndThread) /\ Len(r) = Len(a) + Len(b)
      BY <2>1, <2>2, <2>3, ConcatProperties
    <3> QED BY <1>1, <2>1, <2>2, <3>1
  <2>5. ASSUME NEW k \in 1 .. Len(q) - 1 PROVE r[k] = q[old(k)]
    <3>0. r[k] = IF k <= Len(a) THEN a[k] ELSE b[k - Len(a)]
      <4>1. k \in 1 .. Len(a) + Len(b)
        BY <1>1, <2>1, <2>2
      <4>2. a \in Seq(FiberAndThread) /\ b \in Seq(FiberAndThread)
        BY <2>1, <2>2
      <4>3. \A n \in 1 .. Len(a) + Len(b) :
              (a \o b)[n] = IF n <= Len(a) THEN a[n] ELSE b[n - Len(a)]
        BY <4>2, ConcatProperties, Zenon
      <4> QED BY <2>3, <4>1, <4>3, Zenon
    <3>1. CASE k < i
      BY <1>1, <2>1, <3>0, <3>1
    <3>2. CASE ~(k < i)
      <4> DEFINE m == k - Len(a)
      <4>1. m \in 1 .. Len(q) - i /\ m + i = k + 1 /\ ~(k <= Len(a))
        BY <1>1, <2>1, <3>2
      <4>2. b[m] = q[m + i]
        BY <2>2, <4>1
      <4>3. r[k] = b[m]
        BY <3>0, <4>1
      <4> QED BY <3>2, <4>1, <4>2, <4>3
    <3> QED BY <3>1, <3>2
  <2> QED BY <2>3, <2>4, <2>5
<1>3. /\ DOMAIN r = 1 .. Len(q) - 1
      /\ \A k \in DOMAIN r : old(k) \in DOMAIN q /\ old(k) # i /\ r[k] = q[old(k)]
      /\ \A k, m \in DOMAIN r : old(k) = old(m) => k = m
  BY <1>1, <1>2
<1>4. \A k \in DOMAIN q : k # i => \E m \in DOMAIN r : r[m] = q[k]
  <2> SUFFICES ASSUME NEW k \in DOMAIN q, k # i
               PROVE  \E m \in DOMAIN r : r[m] = q[k]
    OBVIOUS
  <2> DEFINE m == IF k < i THEN k ELSE k - 1
  <2>1. m \in DOMAIN r /\ old(m) = k
    BY <1>1, <1>3
  <2> QED BY <1>3, <2>1
<1> HIDE DEF old
<1>5. QueueOK(r)
  BY <1>3 DEF QueueOK
<1>6. FibersOf(r) = FibersOf(q) \ {q[i].fiber}
  <2>1. \A k \in DOMAIN r : r[k].fiber # None => r[k].fiber # q[i].fiber
    BY <1>3 DEF QueueOK
  <2> QED BY <1>3, <1>4, <2>1 DEF FibersOf
<1>7. CbsOf(r) = CbsOf(q) \ {q[i].cb}
  <2>1. \A k \in DOMAIN r : r[k].cb # None => r[k].cb # q[i].cb
    BY <1>3 DEF QueueOK
  <2> QED BY <1>3, <1>4, <2>1 DEF CbsOf
<1>8. ToSet(r) \cup {q[i]} = ToSet(q)
  BY <1>3, <1>4 DEF ToSet
<1> QED BY <1>2, <1>5, <1>6, <1>7, <1>8

(* What is queued is typed and found by position.                          *)
LEMMA QueueElements ==
    ASSUME NEW q \in Seq(FiberAndThread)
    PROVE  /\ FibersOf(q) \subseteq Job
           /\ CbsOf(q) \subseteq Job
           /\ \A i \in DOMAIN q :
                /\ q[i] \in FiberAndThread
                /\ q[i].fiber # None => q[i].fiber \in FibersOf(q)
                /\ q[i].cb # None => q[i].cb \in CbsOf(q)
<1>1. \A i \in DOMAIN q : q[i] \in FiberAndThread
  OBVIOUS
<1>2. \A i \in DOMAIN q : q[i].fiber \in Job \cup {None} /\ q[i].cb \in Job \cup {None}
  BY <1>1 DEF FiberAndThread
<1> QED BY <1>1, <1>2 DEF FibersOf, CbsOf

LEMMA EmptyTaskType == EmptyTask \in FiberAndThread
BY DEF EmptyTask, FiberAndThread

(* What the operations of class Fiber do to an object.                     *)
LEMMA FiberOperations ==
    ASSUME NEW o \in FiberObject
    PROVE  /\ swapIn(o) \in FiberObject /\ swapIn(o).m_state = "EXEC"
           /\ MarkReady(o) \in FiberObject /\ MarkReady(o).m_state = "READY"
           /\ MarkHold(o) = o
           /\ MainFuncReturn(o) \in FiberObject /\ MainFuncReturn(o).m_state = "TERM"
           /\ MainFuncThrow(o) \in FiberObject /\ MainFuncThrow(o).m_state = "EXCEPT"
           /\ swapIn(o).m_cb = o.m_cb /\ MarkReady(o).m_cb = o.m_cb
           /\ MainFuncThrow(o).m_cb = o.m_cb
           /\ Suspend(o) \in FiberObject /\ Suspend(o).m_state = "HOLD"
           /\ Suspend(o).m_cb = o.m_cb
           /\ \A c \in Job \cup {None} :
                /\ reset(o, c) \in FiberObject /\ reset(o, c).m_state = "INIT"
                /\ Construct(c) \in FiberObject /\ Construct(c).m_state = "INIT"
BY DEF swapIn, MarkReady, MarkHold, Suspend, MainFuncReturn, MainFuncThrow,
       reset, Construct, FiberObject, FiberState

-----------------------------------------------------------------------------
(* Counting.                                                               *)

LEMMA WorkerFinite == IsFiniteSet(Worker)
BY SchedulerAssumption, FS_AddElement DEF Worker

(* A thread takes a task: one more counted.                                *)
LEMMA CountUp ==
    ASSUME TypeOK, ActiveCount, NEW t \in Worker,
           ~Counted(t), Counted(t)',
           \A u \in Worker \ {t} : Counted(u)' <=> Counted(u),
           m_activeThreadCount' = m_activeThreadCount + 1
    PROVE  ActiveCount'
<1> DEFINE S == {u \in Worker : Counted(u)}
           T == {u \in Worker : Counted(u)'}
<1>1. T = S \cup {t} /\ t \notin S
  OBVIOUS
<1>2. IsFiniteSet(S)
  BY WorkerFinite, FS_Subset
<1> HIDE DEF S, T
<1>3. Cardinality(T) = Cardinality(S) + 1
  BY <1>1, <1>2, FS_AddElement
<1>4. m_activeThreadCount = Cardinality(S)
  BY DEF ActiveCount, S
<1> QED BY <1>3, <1>4 DEF ActiveCount, T

(* A thread comes back from a task: one less.                              *)
LEMMA CountDown ==
    ASSUME TypeOK, ActiveCount, NEW t \in Worker,
           Counted(t), ~Counted(t)',
           \A u \in Worker \ {t} : Counted(u)' <=> Counted(u),
           m_activeThreadCount' = m_activeThreadCount - 1
    PROVE  ActiveCount' /\ m_activeThreadCount' \in Nat
<1> DEFINE S == {u \in Worker : Counted(u)}
           T == {u \in Worker : Counted(u)'}
<1>1. T = S \ {t} /\ t \in S
  OBVIOUS
<1>2. IsFiniteSet(S)
  BY WorkerFinite, FS_Subset
<1> HIDE DEF S, T
<1>3. Cardinality(T) = Cardinality(S) - 1
  BY <1>1, <1>2, FS_RemoveElement
<1>4. m_activeThreadCount = Cardinality(S)
  BY DEF ActiveCount, S
<1>5. ActiveCount'
  BY <1>3, <1>4 DEF ActiveCount, T
<1>6. IsFiniteSet(T)
  BY <1>1, <1>2, FS_RemoveElement
<1>7. Cardinality(T) \in Nat
  BY <1>6, FS_CardinalityType
<1> QED BY <1>3, <1>4, <1>5, <1>7

(* Nobody's count changes.                                                 *)
LEMMA CountSame ==
    ASSUME ActiveCount,
           \A u \in Worker : Counted(u)' <=> Counted(u),
           m_activeThreadCount' = m_activeThreadCount
    PROVE  ActiveCount'
<1>1. {u \in Worker : Counted(u)} = {u \in Worker : Counted(u)'}
  OBVIOUS
<1> QED BY <1>1 DEF ActiveCount

-----------------------------------------------------------------------------
(* The steps of run().                                                     *)

(* A thread that is in run() moves on.                                     *)
LEMMA EntryKept ==
    ASSUME EntryOK, NEW t \in Worker, pc[t] # "off", main' = main,
           \A u \in Worker \ {t} : pc'[u] = pc[u]
    PROVE  EntryOK'
<1>1. Caller \in Worker
  BY DEF Worker
<1> QED BY <1>1 DEF EntryOK

LEMMA TakeStep ==
    ASSUME Inv, NEW t \in Worker, Take(t)
    PROVE  Inv'
<1> USE NoneIsNoJob DEF Inv
<1>1. PICK i \in DOMAIN m_fibers :
        /\ FirstRunnable(i, t)
        /\ ft' = [ft EXCEPT ![t] = m_fibers[i]]
        /\ m_fibers' = RemoveAt(m_fibers, i)
  BY DEF Take
<1> DEFINE task == m_fibers[i]
<1>2. /\ m_fibers' \in Seq(FiberAndThread)
      /\ QueueOK(m_fibers')
      /\ FibersOf(m_fibers') = FibersOf(m_fibers) \ {task.fiber}
      /\ CbsOf(m_fibers') = CbsOf(m_fibers) \ {task.cb}
  BY <1>1, TakeOut DEF TypeOK
<1>3. /\ FibersOf(m_fibers) \subseteq Job /\ CbsOf(m_fibers) \subseteq Job
      /\ task \in FiberAndThread
      /\ task.fiber # None => task.fiber \in FibersOf(m_fibers)
      /\ task.cb # None => task.cb \in CbsOf(m_fibers)
      /\ (task.fiber = None) # (task.cb = None)
  BY QueueElements DEF TypeOK, QueueOK
<1>4. task.fiber # None => fiber[task.fiber].m_state # "EXEC"
  BY <1>1 DEF FirstRunnable, Runnable
<1> HIDE DEF task
<1>5. /\ pc[t] = "take" /\ pc' = [pc EXCEPT ![t] = "dispatch"]
      /\ ft' = [ft EXCEPT ![t] = task]
      /\ m_activeThreadCount' = m_activeThreadCount + 1
      /\ UNCHANGED <<fiber, submitted, done, armed, control, cb_fiber, idle_fiber>>
  BY <1>1 DEF Take, Goto, task
<1>6. /\ pc'[t] = "dispatch" /\ ft'[t] = task
      /\ \A u \in Worker \ {t} : pc'[u] = pc[u] /\ ft'[u] = ft[u]
  BY <1>5 DEF TypeOK
<1>7. /\ Held(t)' = task.fiber
      /\ Held(t) = None
      /\ \A u \in Worker \ {t} : Held(u)' = Held(u)
  BY <1>5, <1>6 DEF Held, Executing, Cur
<1>8. task.fiber # None =>
        /\ \A u \in Worker : Held(u) # task.fiber
        /\ fiber[task.fiber].m_state \notin {"EXEC", "NONE"}
  BY <1>3, <1>4 DEF ResumableOK
<1>9. ActiveCount'
  BY <1>5, <1>6, CountUp DEF Counted
<1>10. TypeOK'
  BY <1>2, <1>3, <1>5 DEF TypeOK, control
<1>11. \A u \in Worker : LocalOK(u)'
  BY <1>3, <1>5, <1>6, <1>8 DEF LocalOK, CallbackOK, Executing, Cur
<1>12. \A u \in Worker : CbFiberOK(u)'
  BY <1>2, <1>3, <1>5, <1>6, <1>7 DEF CbFiberOK, RunsCb, Executing
<1>13. CbFiberUnique' /\ CbTaskUnique'
  BY <1>3, <1>5, <1>6 DEF CbFiberUnique, CbTaskUnique, CallbackOK
<1>14. ResumableOK'
  BY <1>2, <1>3, <1>5, <1>6, <1>7 DEF ResumableOK
<1>15. CallbackOK'
  BY <1>2, <1>3, <1>5, <1>6 DEF CallbackOK
<1>16. EntryOK'
  BY <1>5, <1>6, EntryKept DEF control
<1>17. SoleHolder'
  BY <1>7, <1>8 DEF SoleHolder
<1>18. BodyKept'
  BY <1>5, <1>6 DEF BodyKept, RunsCb, Executing
<1> QED BY <1>18, <1>2, <1>9, <1>10, <1>11, <1>12, <1>13, <1>14, <1>15, <1>16, <1>17

(* Looking for work and not finding any.                                   *)
LEMMA IdleStep ==
    ASSUME Inv, NEW t \in Worker, TakeNothing(t) \/ Idle(t)
    PROVE  Inv'
<1> USE DEF Inv
<1>1. /\ pc[t] \in {"take", "idle"}
      /\ pc'[t] \in {"take", "idle", "exit"}
      /\ pc' \in [Worker -> {"off", "take", "dispatch", "exec", "hold", "back",
                             "after", "idle", "exit"}]
      /\ \A u \in Worker \ {t} : pc'[u] = pc[u]
      /\ idle_fiber' \in [Worker -> {"INIT", "HOLD", "TERM"}]
      /\ UNCHANGED <<tasks, control, ft, cb_fiber, m_activeThreadCount>>
  BY DEF TakeNothing, Idle, Goto, TypeOK
<1>2. \A u \in Worker : Held(u)' = Held(u)
  BY <1>1 DEF Held, Executing, Cur, tasks
<1>3. ActiveCount'
  BY <1>1, CountSame DEF Counted
<1>4. TypeOK'
  BY <1>1 DEF TypeOK, tasks, control
<1>5. QueueOK(m_fibers)'
  BY <1>1 DEF tasks
<1>6. \A u \in Worker : LocalOK(u)'
  BY <1>1 DEF LocalOK, Executing, Cur, tasks
<1>7. \A u \in Worker : CbFiberOK(u)'
  BY <1>1, <1>2 DEF CbFiberOK, RunsCb, Executing, tasks
<1>8. CbFiberUnique' /\ CbTaskUnique'
  BY <1>1 DEF CbFiberUnique, CbTaskUnique
<1>9. ResumableOK'
  BY <1>1, <1>2 DEF ResumableOK, tasks, Held, Executing
<1>10. CallbackOK'
  BY <1>1 DEF CallbackOK, tasks
<1>11. EntryOK'
  BY <1>1, EntryKept DEF control
<1>12. SoleHolder'
  BY <1>2 DEF SoleHolder
<1>13. BodyKept'
  BY <1>1 DEF BodyKept, RunsCb, Executing, tasks
<1> QED BY <1>13, <1>3, <1>4, <1>5, <1>6, <1>7, <1>8, <1>9, <1>10, <1>11, <1>12

(* What is known of a fiber in a thread's hands.                           *)
LEMMA HeldFacts ==
    ASSUME Inv, NEW t \in Worker, NEW f, f = Held(t), f # None
    PROVE  /\ f \in Job
           /\ fiber[f].m_state # "NONE"
           /\ pc[t] \in {"dispatch", "exec", "hold", "back", "after"}
           /\ \A u \in Worker \ {t} : Held(u) # f
           /\ \A u \in Worker : ft[u].cb # f
           /\ \A u \in Worker : cb_fiber[u] = f => u = t /\ RunsCb(t)
           /\ f \notin CbsOf(m_fibers)
           /\ f \in submitted
           /\ f \in FibersOf(m_fibers) \cup armed =>
                pc[t] \in {"hold", "back", "after"} /\ fiber[f].m_state = "EXEC"
<1> USE NoneIsNoJob DEF Inv
<1>1. f \in Job
  <2>1. ft[t].fiber \in Job \cup {None} /\ cb_fiber[t] \in Job \cup {None}
    <3>1. ft[t] \in FiberAndThread
      BY DEF TypeOK
    <3> QED BY <3>1 DEF FiberAndThread, TypeOK
  <2> QED BY <2>1 DEF Held, Cur
<1>2. pc[t] \in {"dispatch", "exec", "hold", "back", "after"}
  BY DEF Held, Executing
<1>3. fiber[f].m_state # "NONE"
  BY <1>2 DEF LocalOK, Held, Executing
<1>4. \A u \in Worker \ {t} : Held(u) # f
  BY DEF SoleHolder
<1>5. \A u \in Worker : ft[u].cb # f
  BY <1>1, <1>3 DEF LocalOK
<1>6. \A u \in Worker : cb_fiber[u] = f => u = t /\ RunsCb(t)
  BY <1>4 DEF CbFiberOK, RunsCb, Held, Cur
<1>7. f \notin CbsOf(m_fibers) /\ f \in submitted
  BY <1>1, <1>3 DEF CallbackOK
<1>8. f \in FibersOf(m_fibers) \cup armed =>
        pc[t] \in {"hold", "back", "after"} /\ fiber[f].m_state = "EXEC"
  BY DEF ResumableOK
<1> QED BY <1>1, <1>2, <1>3, <1>4, <1>5, <1>6, <1>7, <1>8

(* A thread keeps its fiber f and takes it one step further.               *)
LEMMA HolderMoves ==
    ASSUME Inv, NEW t \in Worker, NEW f, f = Held(t), f # None,
           TypeOK', QueueOK(m_fibers)', ActiveCount', LocalOK(t)',
           fiber'[f].m_state # "NONE",
           \A g \in Job \ {f} : fiber'[g] = fiber[g],
           Held(t)' = f,
           RunsCb(t)' <=> RunsCb(t),
           fiber'[f].m_cb = None => fiber'[f].m_state = "TERM",
           pc' = [pc EXCEPT ![t] = pc'[t]],
           CbsOf(m_fibers)' = CbsOf(m_fibers),
           (FibersOf(m_fibers) \cup armed)'
                \subseteq FibersOf(m_fibers) \cup armed \cup {f},
           (FibersOf(m_fibers) \cap armed)' = {},
           \A g \in armed' \ {f} : g \in armed,
           f \in (FibersOf(m_fibers) \cup armed)' =>
                pc'[t] \in {"hold", "back", "after"} /\ fiber'[f].m_state = "EXEC",
           UNCHANGED <<submitted, control, ft, cb_fiber>>
    PROVE  Inv'
<1> USE NoneIsNoJob DEF Inv
<1>1. /\ f \in Job
      /\ pc[t] \in {"dispatch", "exec", "hold", "back", "after"}
      /\ \A u \in Worker \ {t} : Held(u) # f
      /\ \A u \in Worker : ft[u].cb # f
      /\ \A u \in Worker : cb_fiber[u] = f => u = t /\ RunsCb(t)
      /\ f \notin CbsOf(m_fibers)
      /\ f \in submitted
  BY HeldFacts
<1>2. \A u \in Worker \ {t} : pc'[u] = pc[u] /\ Held(u)' = Held(u)
  BY DEF TypeOK, Held, Executing, Cur
<1>3. \A u \in Worker \ {t} : LocalOK(u)'
  <2> SUFFICES ASSUME NEW u \in Worker \ {t} PROVE LocalOK(u)'
    OBVIOUS
  <2>1. pc'[u] = pc[u] /\ ft'[u] = ft[u] /\ cb_fiber'[u] = cb_fiber[u]
    BY <1>2
  <2>2. Held(u) # None => Held(u) \in Job /\ fiber'[Held(u)] = fiber[Held(u)]
    BY <1>1, HeldFacts
  <2>3. ft[u].cb # None => fiber'[ft[u].cb] = fiber[ft[u].cb]
    <3>1. ft[u].cb \in Job \cup {None}
      BY DEF TypeOK, FiberAndThread
    <3> QED BY <1>1, <3>1
  <2> QED BY <2>1, <2>2, <2>3 DEF LocalOK, Executing, Cur, Held
<1>4. \A u \in Worker : CbFiberOK(u)'
  <2> SUFFICES ASSUME NEW u \in Worker, cb_fiber[u] # None, ~RunsCb(u)'
               PROVE  CbFiberOK(u)'
    BY DEF CbFiberOK
  <2>1. ~RunsCb(u)
    BY <1>2 DEF RunsCb, Executing
  <2>2. cb_fiber[u] # f /\ cb_fiber[u] \in Job
    BY <1>1, <2>1 DEF TypeOK
  <2> QED BY <1>2, <2>1, <2>2 DEF CbFiberOK
<1>5. CbFiberUnique' /\ CbTaskUnique'
  BY DEF CbFiberUnique, CbTaskUnique
<1>6. ResumableOK'
  <2>1. \A g \in (FibersOf(m_fibers) \cup armed)' : g # f => fiber'[g] = fiber[g]
    BY <1>1, QueueElements DEF TypeOK
  <2>2. \A g \in armed' : fiber'[g].m_state \in {"EXEC", "HOLD"}
    BY <2>1 DEF ResumableOK
  <2>3. \A g \in FibersOf(m_fibers)' : fiber'[g].m_state # "NONE"
    BY <2>1 DEF ResumableOK
  <2>4. ASSUME NEW g \in (FibersOf(m_fibers) \cup armed)', NEW u \in Worker,
               Held(u)' = g
        PROVE  /\ pc'[u] \in {"hold", "back", "after"}
               /\ fiber'[g].m_state = "EXEC"
    <3>1. CASE u = t
      BY <2>4, <3>1
    <3>2. CASE u # t
      <4>1. g # f /\ g \in FibersOf(m_fibers) \cup armed /\ Held(u) = g
        BY <1>1, <1>2, <2>4, <3>2
      <4> QED BY <1>2, <2>1, <2>4, <3>2, <4>1 DEF ResumableOK
    <3> QED BY <3>1, <3>2
  <2> QED BY <2>2, <2>3, <2>4 DEF ResumableOK
<1>7. CallbackOK'
  <2>1. \A c \in CbsOf(m_fibers) : c # f /\ c \in Job /\ fiber'[c] = fiber[c]
    BY <1>1, QueueElements DEF TypeOK
  <2>2. \A j \in Job \ submitted : fiber'[j] = fiber[j]
    BY <1>1
  <2> QED BY <2>1, <2>2 DEF CallbackOK
<1>8. EntryOK'
  BY <1>1, <1>2, EntryKept DEF control
<1>9. SoleHolder'
  BY <1>1, <1>2 DEF SoleHolder
<1>10. BodyKept'
  <2> SUFFICES ASSUME NEW g \in Job \ {f}, fiber[g].m_cb = None,
                      fiber[g].m_state \notin {"NONE", "TERM"}
               PROVE  \E u \in Worker : cb_fiber'[u] = g /\ ~RunsCb(u)'
    BY DEF BodyKept
  <2>1. PICK u \in Worker : cb_fiber[u] = g /\ ~RunsCb(u)
    BY DEF BodyKept
  <2>2. ~RunsCb(u)'
    BY <1>2, <2>1 DEF RunsCb, Executing
  <2> QED BY <2>1, <2>2
<1> QED BY <1>10, <1>3, <1>4, <1>5, <1>6, <1>7, <1>8, <1>9

(* A thread lets go of its fiber f and goes back to the top of the loop.   *)
LEMMA HolderLetsGo ==
    ASSUME Inv, NEW t \in Worker, NEW f, f = Held(t), f # None,
           TypeOK', QueueOK(m_fibers)', ActiveCount', CbFiberOK(t)',
           fiber'[f].m_state # "NONE",
           \A g \in Job \ {f} : fiber'[g] = fiber[g],
           f \in armed => fiber'[f].m_state \in {"EXEC", "HOLD"},
           pc' = [pc EXCEPT ![t] = "take"],
           ft' = [ft EXCEPT ![t] = EmptyTask],
           \A u \in Worker \ {t} : cb_fiber'[u] = cb_fiber[u],
           cb_fiber'[t] \in {None, cb_fiber[t]},
           ~RunsCb(t) => cb_fiber'[t] = cb_fiber[t],
           fiber'[f].m_cb = None => fiber'[f].m_state = "TERM" \/ cb_fiber'[t] = f,
           CbsOf(m_fibers)' = CbsOf(m_fibers),
           FibersOf(m_fibers)' \subseteq FibersOf(m_fibers) \cup {f},
           (FibersOf(m_fibers) \cap armed)' = {},
           UNCHANGED <<submitted, armed, control>>
    PROVE  Inv'
<1> USE NoneIsNoJob DEF Inv
<1>1. /\ f \in Job
      /\ pc[t] \in {"dispatch", "exec", "hold", "back", "after"}
      /\ \A u \in Worker \ {t} : Held(u) # f
      /\ \A u \in Worker : ft[u].cb # f
      /\ \A u \in Worker : cb_fiber[u] = f => u = t /\ RunsCb(t)
      /\ f \notin CbsOf(m_fibers)
      /\ f \in submitted
  BY HeldFacts
<1>2. \A u \in Worker \ {t} :
        pc'[u] = pc[u] /\ ft'[u] = ft[u] /\ Held(u)' = Held(u)
  BY DEF TypeOK, Held, Executing, Cur
<1>3. pc'[t] = "take" /\ ft'[t] = EmptyTask /\ Held(t)' = None
  BY DEF TypeOK, Held, Executing
<1>4. ASSUME NEW u \in Worker PROVE LocalOK(u)'
  <2>1. CASE u = t
    BY <1>3, <2>1 DEF LocalOK, Executing, EmptyTask
  <2>2. CASE u # t
    <3>1. pc'[u] = pc[u] /\ ft'[u] = ft[u] /\ cb_fiber'[u] = cb_fiber[u]
      BY <1>2, <2>2
    <3>2. Held(u) # None => Held(u) \in Job /\ fiber'[Held(u)] = fiber[Held(u)]
      BY <1>1, <2>2, HeldFacts
    <3>3. ft[u].cb # None => fiber'[ft[u].cb] = fiber[ft[u].cb]
      <4>1. ft[u].cb \in Job \cup {None}
        BY DEF TypeOK, FiberAndThread
      <4> QED BY <1>1, <4>1
    <3> QED BY <3>1, <3>2, <3>3 DEF LocalOK, Executing, Cur, Held
  <2> QED BY <2>1, <2>2
<1>5. ASSUME NEW u \in Worker PROVE CbFiberOK(u)'
  <2>1. CASE u = t
    BY <2>1
  <2>2. CASE u # t
    <3> SUFFICES ASSUME cb_fiber[u] # None, ~RunsCb(u)'
                 PROVE  CbFiberOK(u)'
      BY <2>2 DEF CbFiberOK
    <3>1. ~RunsCb(u)
      BY <1>2, <2>2 DEF RunsCb, Executing
    <3>2. cb_fiber[u] # f /\ cb_fiber[u] \in Job
      BY <1>1, <3>1 DEF TypeOK
    <3> QED BY <1>2, <1>3, <2>2, <3>1, <3>2 DEF CbFiberOK
  <2> QED BY <2>1, <2>2
<1>6. CbFiberUnique' /\ CbTaskUnique'
  BY <1>2, <1>3 DEF CbFiberUnique, CbTaskUnique, EmptyTask
<1>7. ResumableOK'
  <2>1. \A g \in FibersOf(m_fibers)' \cup armed' : g # f => fiber'[g] = fiber[g]
    BY <1>1, QueueElements DEF TypeOK
  <2>2. \A g \in armed' : fiber'[g].m_state \in {"EXEC", "HOLD"}
    BY <2>1 DEF ResumableOK
  <2>3. \A g \in FibersOf(m_fibers)' : fiber'[g].m_state # "NONE"
    BY <2>1 DEF ResumableOK
  <2>4. ASSUME NEW g \in FibersOf(m_fibers)' \cup armed', NEW u \in Worker,
               Held(u)' = g
        PROVE  /\ pc'[u] \in {"hold", "back", "after"}
               /\ fiber'[g].m_state = "EXEC"
    <3>1. g \in Job
      BY QueueElements DEF TypeOK
    <3>2. u # t
      BY <1>3, <2>4, <3>1
    <3>3. g # f /\ g \in FibersOf(m_fibers) \cup armed /\ Held(u) = g
      BY <1>1, <1>2, <2>4, <3>2
    <3> QED BY <1>2, <2>1, <2>4, <3>2, <3>3 DEF ResumableOK
  <2> QED BY <2>2, <2>3, <2>4 DEF ResumableOK
<1>8. CallbackOK'
  <2>1. \A c \in CbsOf(m_fibers) : c # f /\ c \in Job /\ fiber'[c] = fiber[c]
    BY <1>1, QueueElements DEF TypeOK
  <2>2. \A j \in Job \ submitted : fiber'[j] = fiber[j]
    BY <1>1
  <2> QED BY <1>2, <1>3, <2>1, <2>2 DEF CallbackOK, EmptyTask
<1>9. EntryOK'
  BY <1>1, <1>2, EntryKept DEF control
<1>10. SoleHolder'
  BY <1>2, <1>3 DEF SoleHolder
<1>11. BodyKept'
  <2>1. ~RunsCb(t)'
    BY <1>3 DEF RunsCb, Executing
  <2>2. ASSUME NEW g \in Job \ {f}, fiber[g].m_cb = None,
               fiber[g].m_state \notin {"NONE", "TERM"}
        PROVE  \E u \in Worker : cb_fiber'[u] = g /\ ~RunsCb(u)'
    <3>1. PICK u \in Worker : cb_fiber[u] = g /\ ~RunsCb(u)
      BY <2>2 DEF BodyKept
    <3>2. ~RunsCb(u)'
      BY <1>2, <2>1, <3>1 DEF RunsCb, Executing
    <3> QED BY <3>1, <3>2
  <2> QED BY <2>1, <2>2 DEF BodyKept
<1> QED BY <1>11, <1>4, <1>5, <1>6, <1>7, <1>8, <1>9, <1>10

-----------------------------------------------------------------------------
LEMMA DispatchFiberStep ==
    ASSUME Inv, NEW t \in Worker, DispatchFiber(t)
    PROVE  Inv'
<1> USE NoneIsNoJob DEF Inv
<1> DEFINE f == ft[t].fiber
<1>1. pc[t] = "dispatch" /\ f # None /\ Held(t) = f
  <2>1. pc[t] = "dispatch" /\ ft[t].fiber # None
    BY DEF DispatchFiber
  <2> QED BY <2>1 DEF Held, Executing
<1>2. /\ fiber' = [fiber EXCEPT ![f] = swapIn(@)]
      /\ pc' = [pc EXCEPT ![t] = "exec"]
      /\ UNCHANGED <<m_fibers, submitted, done, armed, control, ft, cb_fiber,
                     idle_fiber, m_activeThreadCount>>
  BY DEF DispatchFiber, Goto
<1>3. f \in Job /\ f \notin FibersOf(m_fibers) \cup armed
  BY <1>1, HeldFacts
<1>4. /\ fiber' \in [Job -> FiberObject] /\ fiber'[f].m_state = "EXEC"
      /\ \A g \in Job \ {f} : fiber'[g] = fiber[g]
      /\ pc'[t] = "exec"
      /\ \A u \in Worker \ {t} : pc'[u] = pc[u]
  <2>1. fiber \in [Job -> FiberObject] /\ fiber[f] \in FiberObject
    BY <1>3 DEF TypeOK
  <2> QED BY <1>2, <1>3, <2>1, FiberOperations DEF TypeOK
<1>5. Held(t)' = f
  BY <1>1, <1>2, <1>4 DEF Held, Executing, Cur
<1> HIDE DEF f
<1>6. ActiveCount'
  BY <1>1, <1>2, <1>4, CountSame DEF Counted
<1>7. TypeOK'
  BY <1>2, <1>4 DEF TypeOK, control
<1>8. LocalOK(t)'
  BY <1>1, <1>2, <1>4, <1>5 DEF LocalOK, Executing, Cur, Held, f
<1>9. QueueOK(m_fibers)' /\ ~RunsCb(t) /\ (FibersOf(m_fibers) \cap armed)' = {}
  BY <1>1, <1>2 DEF RunsCb, Executing, ResumableOK
<1>10. fiber'[f].m_cb # None /\ ~RunsCb(t)'
  <2>1. fiber[f].m_cb # None
    <3>1. fiber[f].m_state \notin {"NONE", "TERM"}
      BY <1>1 DEF DispatchFiber, LocalOK, Finished, f
    <3>2. \A u \in Worker : cb_fiber[u] = f => RunsCb(u)
      BY <1>1, HeldFacts
    <3> QED BY <1>3, <3>1, <3>2 DEF BodyKept
  <2>2. swapIn(fiber[f]).m_cb = fiber[f].m_cb
    BY <1>3 DEF swapIn, FiberObject, TypeOK
  <2> QED BY <1>1, <1>2, <1>3, <2>1, <2>2 DEF RunsCb, f, TypeOK
<1> QED BY <1>10, <1>1, <1>2, <1>3, <1>4, <1>5, <1>6, <1>7, <1>8, <1>9, HolderMoves

(* The taken fiber had already ended.                                      *)
LEMMA DispatchDropStep ==
    ASSUME Inv, NEW t \in Worker, DispatchDrop(t)
    PROVE  Inv'
<1> USE NoneIsNoJob DEF Inv
<1> DEFINE f == ft[t].fiber
<1>1. pc[t] = "dispatch" /\ f # None /\ Held(t) = f
  <2>1. pc[t] = "dispatch" /\ ft[t].fiber # None
    BY DEF DispatchDrop
  <2> QED BY <2>1 DEF Held, Executing
<1>2. /\ m_activeThreadCount' = m_activeThreadCount - 1
      /\ ft' = [ft EXCEPT ![t] = EmptyTask]
      /\ pc' = [pc EXCEPT ![t] = "take"]
      /\ UNCHANGED <<tasks, control, cb_fiber, idle_fiber>>
  BY DEF DispatchDrop, Goto
<1>3. /\ f \notin FibersOf(m_fibers) \cup armed
      /\ f \in Job
      /\ \A u \in Worker : cb_fiber[u] = f => RunsCb(u)
      /\ fiber[f].m_state # "NONE"
      /\ \A u \in Worker \ {t} : Held(u) # f
  BY <1>1, HeldFacts
<1> HIDE DEF f
<1>4. pc'[t] = "take" /\ \A u \in Worker \ {t} : pc'[u] = pc[u]
  BY <1>2 DEF TypeOK
<1>5. ActiveCount' /\ m_activeThreadCount' \in Nat
  BY <1>1, <1>2, <1>4, CountDown DEF Counted
<1>6. TypeOK'
  BY <1>2, <1>5, EmptyTaskType DEF TypeOK, tasks, control
<1>7. CbFiberOK(t)'
  <2> SUFFICES ASSUME cb_fiber[t] # None PROVE CbFiberOK(t)'
    BY <1>2 DEF CbFiberOK
  <2>1. ~RunsCb(t)
    BY <1>1 DEF RunsCb, Executing
  <2>2. \A u \in Worker : Held(u)' # cb_fiber[t]
    BY <1>2, <1>4, <2>1 DEF CbFiberOK, Held, Executing, Cur, TypeOK
  <2> QED BY <1>2, <2>1, <2>2 DEF CbFiberOK, tasks
<1>8. QueueOK(m_fibers)' /\ (FibersOf(m_fibers) \cap armed)' = {}
  BY <1>2 DEF tasks, ResumableOK
<1>9. fiber[f].m_cb = None => fiber[f].m_state = "TERM"
  BY <1>3 DEF BodyKept
<1> QED BY <1>9, <1>1, <1>2, <1>3, <1>5, <1>6, <1>7, <1>8, HolderLetsGo DEF tasks

-----------------------------------------------------------------------------
(* The steps of a body, and of run() when the switch has returned.         *)

LEMMA CurIsHeld ==
    ASSUME Inv, NEW t \in Worker, Executing(t)
    PROVE  /\ Held(t) = Cur(t) /\ Cur(t) # None /\ Cur(t) \in Job
           /\ fiber[Cur(t)] \in FiberObject
<1>1. Held(t) = Cur(t)
  BY DEF Held, Executing
<1>2. Cur(t) # None
  BY DEF Inv, LocalOK
<1> QED BY <1>1, <1>2, HeldFacts DEF Inv, TypeOK

(* A fiber that is being executed has its callback.                        *)
LEMMA CurHasBody ==
    ASSUME Inv, NEW t \in Worker, Executing(t),
           fiber[Cur(t)].m_state \in {"EXEC", "READY"}
    PROVE  fiber[Cur(t)].m_cb \in Job
<1>1. \A u \in Worker : cb_fiber[u] = Cur(t) => RunsCb(u)
  BY CurIsHeld, HeldFacts
<1>2. fiber[Cur(t)].m_cb # None
  BY <1>1, CurIsHeld DEF Inv, BodyKept
<1> QED BY <1>2, CurIsHeld DEF FiberObject

(* Finish, YieldToReady and YieldToHold change the fiber and the place.    *)
LEMMA BodyMoves ==
    ASSUME Inv, NEW t \in Worker, NEW o \in FiberObject,
           pc[t] \in {"exec", "hold"},
           fiber' = [fiber EXCEPT ![Cur(t)] = o],
           pc' = [pc EXCEPT ![t] = "back"],
           o.m_state \in {"EXEC", "READY", "TERM", "EXCEPT"},
           o.m_cb = None => o.m_state = "TERM",
           pc[t] = "hold" => o.m_state = "EXEC",
           done' \in SUBSET Job,
           UNCHANGED <<m_fibers, submitted, armed, control, ft, cb_fiber,
                       idle_fiber, m_activeThreadCount>>
    PROVE  Inv'
<1> USE DEF Inv
<1> DEFINE f == Cur(t)
<1>1. Executing(t) /\ f = Held(t) /\ f # None /\ f \in Job
  BY CurIsHeld DEF Executing
<1>2. pc'[t] = "back" /\ \A u \in Worker \ {t} : pc'[u] = pc[u]
  BY DEF TypeOK
<1>3. Executing(t)' /\ Cur(t)' = f /\ Held(t)' = f
  BY <1>2 DEF Executing, Held, Cur
<1>4. fiber'[f] = o /\ \A g \in Job \ {f} : fiber'[g] = fiber[g]
  BY <1>1 DEF TypeOK
<1> HIDE DEF f
<1>5. TypeOK'
  BY DEF TypeOK, control
<1>6. ActiveCount'
  BY <1>2, CountSame DEF Counted
<1>7. LocalOK(t)'
  BY <1>1, <1>2, <1>3, <1>4 DEF LocalOK
<1>8. RunsCb(t)' <=> RunsCb(t)
  BY <1>1, <1>3 DEF RunsCb
<1>9. /\ QueueOK(m_fibers)' /\ (FibersOf(m_fibers) \cap armed)' = {}
      /\ f \in FibersOf(m_fibers) \cup armed => pc[t] = "hold"
  BY <1>1, HeldFacts DEF ResumableOK
<1> QED BY <1>1, <1>2, <1>3, <1>4, <1>5, <1>6, <1>7, <1>8, <1>9, HolderMoves

LEMMA FinishStep ==
    ASSUME Inv, NEW t \in Worker, Finish(t)
    PROVE  Inv'
<1> DEFINE x == fiber[Cur(t)]
<1>1. pc[t] = "exec" /\ Executing(t) /\ x.m_state = "EXEC"
  BY DEF Finish, Executing, Inv, LocalOK
<1>2. x \in FiberObject /\ x.m_cb \in Job
  BY <1>1, CurIsHeld, CurHasBody
<1>3. /\ \E o \in {MainFuncReturn(x), MainFuncThrow(x)} :
            fiber' = [fiber EXCEPT ![Cur(t)] = o]
      /\ done' = done \cup {x.m_cb}
      /\ pc' = [pc EXCEPT ![t] = "back"]
      /\ UNCHANGED <<m_fibers, submitted, armed, control, ft, cb_fiber,
                     idle_fiber, m_activeThreadCount>>
  BY DEF Finish, Goto
<1> HIDE DEF x
<1>4. PICK o \in {MainFuncReturn(x), MainFuncThrow(x)} :
        fiber' = [fiber EXCEPT ![Cur(t)] = o]
  BY <1>3
<1>5. /\ o \in FiberObject /\ o.m_state \in {"TERM", "EXCEPT"}
      /\ o.m_cb = None => o.m_state = "TERM"
  BY <1>2, <1>4, FiberOperations, NoneIsNoJob
<1>6. done' \in SUBSET Job
  BY <1>2, <1>3 DEF Inv, TypeOK
<1> QED BY <1>1, <1>3, <1>4, <1>5, <1>6, BodyMoves

LEMMA YieldToReadyStep ==
    ASSUME Inv, NEW t \in Worker, YieldToReady(t)
    PROVE  Inv'
<1> DEFINE x == fiber[Cur(t)]
<1>1. pc[t] = "exec" /\ Executing(t) /\ x.m_state = "EXEC"
  BY DEF YieldToReady, Executing, Inv, LocalOK
<1>2. x \in FiberObject /\ x.m_cb \in Job
  BY <1>1, CurIsHeld, CurHasBody
<1>3. /\ fiber' = [fiber EXCEPT ![Cur(t)] = MarkReady(x)]
      /\ pc' = [pc EXCEPT ![t] = "back"]
      /\ UNCHANGED <<m_fibers, submitted, done, armed, control, ft, cb_fiber,
                     idle_fiber, m_activeThreadCount>>
  BY DEF YieldToReady, Goto
<1> HIDE DEF x
<1>4. /\ MarkReady(x) \in FiberObject /\ MarkReady(x).m_state = "READY"
      /\ MarkReady(x).m_cb # None
  BY <1>2, FiberOperations, NoneIsNoJob
<1>5. done' \in SUBSET Job
  BY <1>3 DEF Inv, TypeOK
<1> QED BY <1>1, <1>3, <1>4, <1>5, BodyMoves

LEMMA YieldToHoldStep ==
    ASSUME Inv, NEW t \in Worker, YieldToHold(t)
    PROVE  Inv'
<1> DEFINE x == fiber[Cur(t)]
<1>1. pc[t] = "hold" /\ Executing(t) /\ x.m_state = "EXEC"
  BY DEF YieldToHold, Executing, Inv, LocalOK
<1>2. x \in FiberObject /\ x.m_cb \in Job
  BY <1>1, CurIsHeld, CurHasBody
<1>3. /\ fiber' = [fiber EXCEPT ![Cur(t)] = MarkHold(x)]
      /\ pc' = [pc EXCEPT ![t] = "back"]
      /\ UNCHANGED <<m_fibers, submitted, done, armed, control, ft, cb_fiber,
                     idle_fiber, m_activeThreadCount>>
  BY DEF YieldToHold, Goto
<1> HIDE DEF x
<1>4. MarkHold(x) \in FiberObject /\ MarkHold(x).m_state = "EXEC" /\ MarkHold(x).m_cb # None
  BY <1>1, <1>2, FiberOperations, NoneIsNoJob
<1>5. done' \in SUBSET Job
  BY <1>3 DEF Inv, TypeOK
<1> QED BY <1>1, <1>3, <1>4, <1>5, BodyMoves

(* Arm and SwitchTo hand the fiber to a waker.                             *)
LEMMA ArmStep ==
    ASSUME Inv, NEW t \in Worker, Arm(t)
    PROVE  Inv'
<1> USE DEF Inv
<1> DEFINE f == Cur(t)
<1>1. pc[t] = "exec" /\ Executing(t) /\ fiber[f].m_state = "EXEC"
  BY DEF Arm, Executing, LocalOK
<1>2. /\ armed' = armed \cup {f}
      /\ pc' = [pc EXCEPT ![t] = "hold"]
      /\ UNCHANGED <<fiber, m_fibers, submitted, done, control, ft, cb_fiber,
                     idle_fiber, m_activeThreadCount>>
  BY DEF Arm, Goto
<1>3. /\ f = Held(t) /\ f # None /\ f \in Job
      /\ f \notin FibersOf(m_fibers) \cup armed
      /\ fiber[f].m_cb # None
  BY <1>1, CurIsHeld, CurHasBody, HeldFacts, NoneIsNoJob
<1>4. pc'[t] = "hold" /\ \A u \in Worker \ {t} : pc'[u] = pc[u]
  BY <1>2 DEF TypeOK
<1>5. Executing(t)' /\ Cur(t)' = f /\ Held(t)' = f
  BY <1>2, <1>4 DEF Executing, Held, Cur
<1> HIDE DEF f
<1>6. TypeOK'
  BY <1>2, <1>3 DEF TypeOK, control
<1>7. ActiveCount'
  BY <1>1, <1>2, <1>4, CountSame DEF Counted
<1>8. LocalOK(t)'
  BY <1>1, <1>2, <1>3, <1>4, <1>5 DEF LocalOK
<1>9. RunsCb(t)' <=> RunsCb(t)
  BY <1>1, <1>2, <1>5 DEF RunsCb
<1>10. /\ QueueOK(m_fibers)' /\ (FibersOf(m_fibers) \cap armed)' = {}
       /\ (FibersOf(m_fibers) \cup armed)'
             \subseteq FibersOf(m_fibers) \cup armed \cup {f}
       /\ \A g \in armed' \ {f} : g \in armed
  BY <1>2, <1>3 DEF ResumableOK
<1> QED BY <1>1, <1>2, <1>3, <1>4, <1>5, <1>6, <1>7, <1>8, <1>9, <1>10, HolderMoves

LEMMA SwitchToStep ==
    ASSUME Inv, NEW t \in Worker, SwitchTo(t)
    PROVE  Inv'
<1> USE DEF Inv
<1> DEFINE f == Cur(t)
<1>1. pc[t] = "exec" /\ Executing(t) /\ fiber[f].m_state = "EXEC"
  BY DEF SwitchTo, Executing, LocalOK
<1>2. PICK thr \in LegalPins \ {None, t} :
        m_fibers' = scheduleNoLock(m_fibers, FiberTask(f, thr))
  BY DEF SwitchTo
<1>3. /\ pc' = [pc EXCEPT ![t] = "hold"]
      /\ UNCHANGED <<fiber, submitted, done, armed, control, ft, cb_fiber,
                     idle_fiber, m_activeThreadCount>>
  BY DEF SwitchTo, Goto
<1>4. /\ f = Held(t) /\ f # None /\ f \in Job
      /\ f \notin FibersOf(m_fibers) \cup armed
      /\ fiber[f].m_cb # None
  BY <1>1, CurIsHeld, CurHasBody, HeldFacts, NoneIsNoJob
<1>5. pc'[t] = "hold" /\ \A u \in Worker \ {t} : pc'[u] = pc[u]
  BY <1>3 DEF TypeOK
<1>6. Executing(t)' /\ Cur(t)' = f /\ Held(t)' = f
  BY <1>3, <1>5 DEF Executing, Held, Cur
<1> HIDE DEF f
<1>7. /\ m_fibers' \in Seq(FiberAndThread) /\ QueueOK(m_fibers')
      /\ FibersOf(m_fibers') = FibersOf(m_fibers) \cup {f}
      /\ CbsOf(m_fibers') = CbsOf(m_fibers)
  <2>1. thr \in Worker \cup {None}
    BY SchedulerAssumption DEF LegalPins
  <2> QED BY <1>2, <1>4, <2>1, AppendFiber DEF TypeOK
<1>8. TypeOK'
  BY <1>3, <1>7 DEF TypeOK, control
<1>9. ActiveCount'
  BY <1>1, <1>3, <1>5, CountSame DEF Counted
<1>10. LocalOK(t)'
  BY <1>1, <1>3, <1>4, <1>5, <1>6 DEF LocalOK
<1>11. RunsCb(t)' <=> RunsCb(t)
  BY <1>1, <1>3, <1>6 DEF RunsCb
<1>12. (FibersOf(m_fibers) \cap armed)' = {}
  BY <1>3, <1>4, <1>7 DEF ResumableOK
<1> QED BY <1>1, <1>3, <1>4, <1>5, <1>6, <1>7, <1>8, <1>9, <1>10, <1>11, <1>12,
           HolderMoves

LEMMA ReturnStep ==
    ASSUME Inv, NEW t \in Worker, Return(t)
    PROVE  Inv'
<1> USE DEF Inv
<1> DEFINE f == Cur(t)
<1>1. pc[t] = "back" /\ Executing(t)
  BY DEF Return, Executing
<1>2. /\ m_activeThreadCount' = m_activeThreadCount - 1
      /\ pc' = [pc EXCEPT ![t] = "after"]
      /\ UNCHANGED <<tasks, control, ft, cb_fiber, idle_fiber>>
  BY DEF Return, Goto
<1>3. /\ f = Held(t) /\ f # None /\ f \in Job
      /\ f \in FibersOf(m_fibers) \cup armed => fiber[f].m_state = "EXEC"
  BY <1>1, CurIsHeld, HeldFacts
<1>4. /\ fiber[f].m_cb = None => fiber[f].m_state = "TERM"
      /\ fiber[f].m_state # "NONE"
  <2>1. \A u \in Worker : cb_fiber[u] = f => RunsCb(u)
    BY <1>3, HeldFacts
  <2>2. fiber[f].m_state # "NONE"
    BY <1>3, HeldFacts
  <2> QED BY <1>3, <2>1, <2>2 DEF BodyKept
<1>5. pc'[t] = "after" /\ \A u \in Worker \ {t} : pc'[u] = pc[u]
  BY <1>2 DEF TypeOK
<1>6. Executing(t)' /\ Cur(t)' = f /\ Held(t)' = f
  BY <1>2, <1>5 DEF Executing, Held, Cur
<1>7. ActiveCount' /\ m_activeThreadCount' \in Nat
  BY <1>1, <1>2, <1>5, CountDown DEF Counted
<1>8. LocalOK(t)'
  BY <1>1, <1>2, <1>3, <1>5, <1>6 DEF LocalOK, tasks
<1> HIDE DEF f
<1>9. TypeOK'
  BY <1>2, <1>7 DEF TypeOK, tasks, control
<1>10. RunsCb(t)' <=> RunsCb(t)
  BY <1>1, <1>2, <1>6 DEF RunsCb
<1>11. QueueOK(m_fibers)' /\ (FibersOf(m_fibers) \cap armed)' = {}
  BY <1>2 DEF ResumableOK, tasks
<1> QED BY <1>1, <1>2, <1>3, <1>4, <1>5, <1>6, <1>7, <1>8, <1>9, <1>10, <1>11,
           HolderMoves DEF tasks

-----------------------------------------------------------------------------
(* The three ways to let go of a fiber, and starting a callback.           *)

(* The idle cb_fiber of a thread that let go of another fiber is intact.   *)
LEMMA OwnCbFiberKept ==
    ASSUME Inv, NEW t \in Worker, NEW f, f = Held(t), f # None, ~RunsCb(t),
           \A g \in Job \ {f} : fiber'[g] = fiber[g],
           pc' = [pc EXCEPT ![t] = "take"],
           ft' = [ft EXCEPT ![t] = EmptyTask],
           FibersOf(m_fibers)' \subseteq FibersOf(m_fibers) \cup {f},
           UNCHANGED <<cb_fiber, armed>>
    PROVE  CbFiberOK(t)'
<1> SUFFICES ASSUME cb_fiber[t] # None PROVE CbFiberOK(t)'
  BY DEF CbFiberOK
<1>1. cb_fiber[t] # f /\ cb_fiber[t] \in Job
  BY HeldFacts DEF Inv, TypeOK
<1>2. \A u \in Worker : Held(u)' # cb_fiber[t]
  <2>1. Held(t)' = None
    BY DEF Inv, TypeOK, Held, Executing
  <2>2. \A u \in Worker \ {t} : Held(u)' = Held(u)
    BY DEF Inv, TypeOK, Held, Executing, Cur
  <2> QED BY <1>1, <2>1, <2>2, NoneIsNoJob DEF Inv, CbFiberOK
<1> QED BY <1>1, <1>2 DEF Inv, CbFiberOK

LEMMA RescheduleStep ==
    ASSUME Inv, NEW t \in Worker, Reschedule(t)
    PROVE  Inv'
<1> USE DEF Inv
<1> DEFINE f == Cur(t)
<1>1. pc[t] = "after" /\ Executing(t) /\ fiber[f].m_state = "READY"
  BY DEF Reschedule, Executing
<1>2. /\ m_fibers' = scheduleNoLock(m_fibers, FiberTask(f, None))
      /\ ft' = [ft EXCEPT ![t] = EmptyTask]
      /\ cb_fiber' = IF ft[t].fiber # None THEN cb_fiber
                                           ELSE [cb_fiber EXCEPT ![t] = None]
      /\ pc' = [pc EXCEPT ![t] = "take"]
      /\ UNCHANGED <<fiber, submitted, done, armed, control, idle_fiber,
                     m_activeThreadCount>>
  BY DEF Reschedule, LetGo, Goto
<1>3. RunsCb(t) <=> ft[t].fiber = None
  BY <1>1 DEF RunsCb
<1>4. /\ f = Held(t) /\ f # None /\ f \in Job
      /\ f \notin FibersOf(m_fibers) \cup armed
      /\ fiber[f].m_cb # None
  BY <1>1, CurIsHeld, CurHasBody, HeldFacts, NoneIsNoJob
<1>5. pc'[t] = "take" /\ \A u \in Worker \ {t} : pc'[u] = pc[u]
  BY <1>2 DEF TypeOK
<1> HIDE DEF f
<1>6. /\ m_fibers' \in Seq(FiberAndThread) /\ QueueOK(m_fibers')
      /\ FibersOf(m_fibers') = FibersOf(m_fibers) \cup {f}
      /\ CbsOf(m_fibers') = CbsOf(m_fibers)
  BY <1>2, <1>4, AppendFiber DEF TypeOK
<1>7. /\ cb_fiber' \in [Worker -> Job \cup {None}]
      /\ \A u \in Worker \ {t} : cb_fiber'[u] = cb_fiber[u]
      /\ RunsCb(t) => cb_fiber'[t] = None
      /\ ~RunsCb(t) => cb_fiber' = cb_fiber
  BY <1>2, <1>3 DEF TypeOK
<1>8. TypeOK'
  BY <1>2, <1>6, <1>7, EmptyTaskType DEF TypeOK, control
<1>9. ActiveCount'
  BY <1>1, <1>2, <1>5, CountSame DEF Counted
<1>10. CbFiberOK(t)'
  <2>1. CASE RunsCb(t)
    BY <1>7, <2>1 DEF CbFiberOK
  <2>2. CASE ~RunsCb(t)
    BY <1>2, <1>4, <1>6, <1>7, <2>2, OwnCbFiberKept
  <2> QED BY <2>1, <2>2
<1>11. (FibersOf(m_fibers) \cap armed)' = {}
  BY <1>2, <1>4, <1>6 DEF ResumableOK
<1> QED BY <1>1, <1>2, <1>4, <1>6, <1>7, <1>8, <1>9, <1>10, <1>11, HolderLetsGo

LEMMA ParkStep ==
    ASSUME Inv, NEW t \in Worker, Park(t)
    PROVE  Inv'
<1> USE DEF Inv
<1> DEFINE f == Cur(t)
           x == fiber[f]
<1>1. pc[t] = "after" /\ Executing(t) /\ x.m_state = "EXEC"
  BY DEF Park, Executing, LocalOK
<1>2. /\ fiber' = [fiber EXCEPT ![f] = Suspend(x)]
      /\ ft' = [ft EXCEPT ![t] = EmptyTask]
      /\ cb_fiber' = IF ft[t].fiber # None THEN cb_fiber
                                           ELSE [cb_fiber EXCEPT ![t] = None]
      /\ pc' = [pc EXCEPT ![t] = "take"]
      /\ UNCHANGED <<m_fibers, submitted, done, armed, control, idle_fiber,
                     m_activeThreadCount>>
  BY DEF Park, LetGo, Goto
<1>3. RunsCb(t) <=> ft[t].fiber = None
  BY <1>1 DEF RunsCb
<1>4. f = Held(t) /\ f # None /\ f \in Job /\ x.m_cb # None /\ x \in FiberObject
  BY <1>1, CurIsHeld, CurHasBody, NoneIsNoJob
<1>5. pc'[t] = "take" /\ \A u \in Worker \ {t} : pc'[u] = pc[u]
  BY <1>2 DEF TypeOK
<1> HIDE DEF x
<1>6. Suspend(x) \in FiberObject /\ Suspend(x).m_state = "HOLD" /\ Suspend(x).m_cb # None
  BY <1>4, FiberOperations
<1> HIDE DEF f
<1>7. /\ fiber' \in [Job -> FiberObject]
      /\ fiber'[f] = Suspend(x)
      /\ \A g \in Job \ {f} : fiber'[g] = fiber[g]
  BY <1>2, <1>4, <1>6 DEF TypeOK
<1>8. /\ cb_fiber' \in [Worker -> Job \cup {None}]
      /\ \A u \in Worker \ {t} : cb_fiber'[u] = cb_fiber[u]
      /\ RunsCb(t) => cb_fiber'[t] = None
      /\ ~RunsCb(t) => cb_fiber' = cb_fiber
  BY <1>2, <1>3 DEF TypeOK
<1>9. TypeOK'
  BY <1>2, <1>7, <1>8, EmptyTaskType DEF TypeOK, control
<1>10. ActiveCount'
  BY <1>1, <1>2, <1>5, CountSame DEF Counted
<1>11. CbFiberOK(t)'
  <2>1. CASE RunsCb(t)
    BY <1>8, <2>1 DEF CbFiberOK
  <2>2. CASE ~RunsCb(t)
    BY <1>2, <1>4, <1>7, <1>8, <2>2, OwnCbFiberKept
  <2> QED BY <2>1, <2>2
<1>12. QueueOK(m_fibers)' /\ (FibersOf(m_fibers) \cap armed)' = {}
  BY <1>2 DEF ResumableOK
<1> QED BY <1>1, <1>2, <1>4, <1>6, <1>7, <1>8, <1>9, <1>10, <1>11, <1>12,
           HolderLetsGo

LEMMA RetireStep ==
    ASSUME Inv, NEW t \in Worker, Retire(t)
    PROVE  Inv'
<1> USE DEF Inv
<1> DEFINE f == Cur(t)
           x == fiber[f]
<1>1. pc[t] = "after" /\ Executing(t) /\ x.m_state \in {"TERM", "EXCEPT"}
  BY DEF Retire, Executing, Finished
<1>2. /\ fiber' = IF ft[t].fiber # None
                  THEN fiber
                  ELSE [fiber EXCEPT ![cb_fiber[t]] = reset(@, None)]
      /\ ft' = [ft EXCEPT ![t] = EmptyTask]
      /\ pc' = [pc EXCEPT ![t] = "take"]
      /\ UNCHANGED <<m_fibers, submitted, done, armed, control, cb_fiber,
                     idle_fiber, m_activeThreadCount>>
  BY DEF Retire, Goto
<1>3. /\ RunsCb(t) <=> ft[t].fiber = None
      /\ RunsCb(t) => f = cb_fiber[t]
  BY <1>1 DEF RunsCb, Cur
<1>4. /\ f = Held(t) /\ f # None /\ f \in Job /\ x \in FiberObject
      /\ f \notin FibersOf(m_fibers) \cup armed
      /\ \A u \in Worker : cb_fiber[u] = f => RunsCb(u)
      /\ \A u \in Worker \ {t} : Held(u) # f
  BY <1>1, CurIsHeld, HeldFacts
<1>5. pc'[t] = "take" /\ \A u \in Worker \ {t} : pc'[u] = pc[u]
  BY <1>2 DEF TypeOK
<1>6. x.m_cb = None => x.m_state = "TERM"
  BY <1>1, <1>4 DEF BodyKept
<1> HIDE DEF f
<1>7. /\ fiber' \in [Job -> FiberObject]
      /\ \A g \in Job \ {f} : fiber'[g] = fiber[g]
      /\ RunsCb(t) => fiber'[f].m_state = "INIT"
      /\ ~RunsCb(t) => fiber'[f] = x
  <2>1. /\ reset(fiber[f], None) \in FiberObject
        /\ reset(fiber[f], None).m_state = "INIT"
    BY <1>4, FiberOperations
  <2> QED BY <1>2, <1>3, <1>4, <2>1 DEF TypeOK
<1>8. TypeOK'
  BY <1>2, <1>7, EmptyTaskType DEF TypeOK, control
<1>9. ActiveCount'
  BY <1>1, <1>2, <1>5, CountSame DEF Counted
<1>10. CbFiberOK(t)'
  <2>1. CASE RunsCb(t)
    <3>1. \A u \in Worker : Held(u)' # f
      <4>1. Held(t)' = None
        BY <1>5 DEF Held, Executing
      <4>2. \A u \in Worker \ {t} : Held(u)' = Held(u)
        BY <1>2, <1>5 DEF TypeOK, Held, Executing, Cur
      <4> QED BY <1>4, <4>1, <4>2
    <3> QED BY <1>2, <1>3, <1>4, <1>7, <2>1, <3>1 DEF CbFiberOK
  <2>2. CASE ~RunsCb(t)
    BY <1>2, <1>4, <1>7, <2>2, OwnCbFiberKept
  <2> QED BY <2>1, <2>2
<1>11. QueueOK(m_fibers)' /\ (FibersOf(m_fibers) \cap armed)' = {}
  BY <1>2 DEF ResumableOK
<1>12. fiber'[f].m_cb = None => fiber'[f].m_state = "TERM" \/ cb_fiber'[t] = f
  BY <1>2, <1>3, <1>6, <1>7
<1>13. fiber'[f].m_state # "NONE"
  BY <1>1, <1>7
<1> QED BY <1>1, <1>2, <1>4, <1>7, <1>8, <1>9, <1>10, <1>11, <1>12, <1>13,
           HolderLetsGo

(* A callback gets the thread's cb_fiber, or a fiber of its own.           *)
LEMMA DispatchCbStep ==
    ASSUME Inv, NEW t \in Worker, DispatchCb(t)
    PROVE  Inv'
<1> USE NoneIsNoJob DEF Inv
<1> DEFINE c == ft[t].cb
           f == IF cb_fiber[t] # None THEN cb_fiber[t] ELSE c
           o == IF cb_fiber[t] # None THEN reset(fiber[f], c) ELSE Construct(c)
           x == swapIn(o)
<1>1. /\ pc[t] = "dispatch" /\ ft[t].fiber = None
      /\ fiber' = [fiber EXCEPT ![f] = x]
      /\ cb_fiber' = [cb_fiber EXCEPT ![t] = f]
      /\ ft' = [ft EXCEPT ![t] = EmptyTask]
      /\ pc' = [pc EXCEPT ![t] = "exec"]
      /\ UNCHANGED <<m_fibers, submitted, done, armed, control, idle_fiber,
                     m_activeThreadCount>>
  BY DEF DispatchCb, Goto
<1>2. /\ c \in Job /\ c \in submitted /\ fiber[c].m_state = "NONE"
      /\ \A u \in Worker \ {t} : ft[u].cb # c
      /\ c \notin CbsOf(m_fibers)
  <2>1. c # None /\ c \in submitted /\ fiber[c].m_state = "NONE"
    BY <1>1 DEF LocalOK
  <2>2. c \in Job
    BY <2>1 DEF TypeOK
  <2> QED BY <2>1, <2>2 DEF CbTaskUnique, CallbackOK
<1>3. ~RunsCb(t) /\ Held(t) = None
  BY <1>1 DEF RunsCb, Executing, Held
<1>4. /\ f \in Job
      /\ fiber[f].m_state \in {"NONE", "INIT"}
      /\ f \notin FibersOf(m_fibers) \cup armed
      /\ \A u \in Worker : Held(u) # f
      /\ \A u \in Worker \ {t} : cb_fiber[u] # f
  <2>1. CASE cb_fiber[t] # None
    BY <1>3, <2>1 DEF CbFiberOK, CbFiberUnique, TypeOK
  <2>2. CASE cb_fiber[t] = None
    <3>1. f = c
      BY <2>2
    <3>2. \A u \in Worker : Held(u) # c
      BY <1>2, HeldFacts
    <3>3. c \notin FibersOf(m_fibers) \cup armed
      BY <1>2 DEF ResumableOK
    <3>4. \A u \in Worker : cb_fiber[u] # c
      <4> SUFFICES ASSUME NEW u \in Worker, cb_fiber[u] = c PROVE FALSE
        OBVIOUS
      <4>1. CASE RunsCb(u)
        BY <1>2, <3>2, <4>1 DEF RunsCb, Held, Executing, Cur
      <4>2. CASE ~RunsCb(u)
        BY <1>2, <4>2 DEF CbFiberOK
      <4> QED BY <4>1, <4>2
    <3> QED BY <1>2, <3>1, <3>2, <3>3, <3>4
  <2> QED BY <2>1, <2>2
<1>5. f \in submitted /\ f \notin CbsOf(m_fibers)
  <2>1. CASE fiber[f].m_state = "NONE"
    <3>1. f = c
      BY <1>3, <2>1 DEF CbFiberOK
    <3> QED BY <1>2, <3>1
  <2>2. CASE fiber[f].m_state = "INIT"
    BY <1>4, <2>2 DEF CallbackOK
  <2> QED BY <1>4, <2>1, <2>2
<1>6. x \in FiberObject /\ x.m_state = "EXEC" /\ x.m_cb # None
  <2>1. /\ reset(fiber[f], c) \in FiberObject /\ reset(fiber[f], c).m_cb = c
        /\ Construct(c) \in FiberObject /\ Construct(c).m_cb = c
    <3>1. fiber[f] \in FiberObject
      BY <1>4 DEF TypeOK
    <3>2. reset(fiber[f], c).m_cb = c /\ Construct(c).m_cb = c
      BY DEF reset, Construct
    <3> QED BY <1>2, <3>1, <3>2, FiberOperations
  <2>2. o \in FiberObject /\ o.m_cb = c
    BY <2>1
  <2> HIDE DEF o, c
  <2> QED BY <1>2, <2>2, FiberOperations
<1> HIDE DEF c, f, x
<1>7. /\ fiber' \in [Job -> FiberObject] /\ fiber'[f] = x
      /\ \A g \in Job \ {f} : fiber'[g] = fiber[g]
      /\ pc'[t] = "exec" /\ ft'[t] = EmptyTask /\ cb_fiber'[t] = f
      /\ \A u \in Worker \ {t} : /\ pc'[u] = pc[u] /\ ft'[u] = ft[u]
                                 /\ cb_fiber'[u] = cb_fiber[u]
  BY <1>1, <1>4, <1>6 DEF TypeOK
<1>8. /\ Executing(t)' /\ Cur(t)' = f /\ Held(t)' = f /\ RunsCb(t)'
      /\ \A u \in Worker \ {t} : /\ Held(u)' = Held(u)
                                 /\ RunsCb(u)' <=> RunsCb(u)
  BY <1>7 DEF Executing, Cur, Held, RunsCb, EmptyTask
<1>9. \A u \in Worker \ {t} :
        /\ Held(u) # None => Held(u) \in Job /\ fiber'[Held(u)] = fiber[Held(u)]
        /\ ft[u].cb # None => ft[u].cb \in Job /\ fiber'[ft[u].cb] = fiber[ft[u].cb]
  <2> SUFFICES ASSUME NEW u \in Worker \ {t}
               PROVE  /\ Held(u) # None => Held(u) \in Job /\ fiber'[Held(u)] = fiber[Held(u)]
                      /\ ft[u].cb # None
                           => ft[u].cb \in Job /\ fiber'[ft[u].cb] = fiber[ft[u].cb]
    OBVIOUS
  <2>1. Held(u) # None => Held(u) \in Job /\ fiber'[Held(u)] = fiber[Held(u)]
    BY <1>4, <1>7, HeldFacts
  <2>2. ft[u].cb # None => ft[u].cb \in Job
    BY DEF TypeOK, FiberAndThread
  <2>3. ft[u].cb # None => ft[u].cb # f
    <3>1. ASSUME ft[u].cb = f, ft[u].cb # None PROVE FALSE
      <4>1. fiber[f].m_state = "NONE"
        BY <3>1 DEF LocalOK
      <4>2. f = c
        BY <1>3, <4>1 DEF CbFiberOK, f
      <4> QED BY <1>2, <3>1, <4>2
    <3> QED BY <3>1
  <2> QED BY <1>7, <2>1, <2>2, <2>3
<1>10. TypeOK'
  BY <1>1, <1>4, <1>7, EmptyTaskType DEF TypeOK, control
<1>11. ActiveCount'
  BY <1>1, <1>7, CountSame DEF Counted
<1>12. ASSUME NEW u \in Worker PROVE LocalOK(u)'
  <2>1. CASE u = t
    BY <1>4, <1>6, <1>7, <1>8, <2>1 DEF LocalOK, EmptyTask
  <2>2. CASE u # t
    <3>1. pc'[u] = pc[u] /\ ft'[u] = ft[u] /\ cb_fiber'[u] = cb_fiber[u]
      BY <1>7, <2>2
    <3> QED BY <1>1, <1>9, <2>2, <3>1 DEF LocalOK, Executing, Cur, Held
  <2> QED BY <2>1, <2>2
<1>13. ASSUME NEW u \in Worker PROVE CbFiberOK(u)'
  <2>1. CASE u = t
    BY <1>8, <2>1 DEF CbFiberOK
  <2>2. CASE u # t
    <3> SUFFICES ASSUME cb_fiber[u] # None, ~RunsCb(u) PROVE CbFiberOK(u)'
      BY <1>7, <1>8, <2>2 DEF CbFiberOK
    <3>1. cb_fiber[u] \in Job /\ cb_fiber[u] # f
      BY <1>4, <2>2 DEF TypeOK
    <3>2. \A v \in Worker : Held(v)' # cb_fiber[u]
      BY <1>8, <3>1 DEF CbFiberOK
    <3> QED BY <1>1, <1>7, <2>2, <3>1, <3>2 DEF CbFiberOK
  <2> QED BY <2>1, <2>2
<1>14. CbFiberUnique' /\ CbTaskUnique'
  BY <1>4, <1>7 DEF CbFiberUnique, CbTaskUnique, EmptyTask
<1>15. ResumableOK'
  <2>1. \A g \in FibersOf(m_fibers) \cup armed : g # f /\ fiber'[g] = fiber[g]
    BY <1>4, <1>7, QueueElements DEF TypeOK
  <2>2. \A g \in FibersOf(m_fibers) \cup armed, u \in Worker :
            Held(u)' = g => Held(u) = g /\ pc'[u] = pc[u]
    BY <1>7, <1>8, <2>1
  <2> QED BY <1>1, <2>1, <2>2 DEF ResumableOK
<1>16. CallbackOK'
  <2>1. \A d \in CbsOf(m_fibers) : d # f /\ d \in Job /\ fiber'[d] = fiber[d]
    BY <1>5, <1>7, QueueElements DEF TypeOK
  <2>2. \A j \in Job \ submitted : fiber'[j] = fiber[j]
    BY <1>5, <1>7
  <2> QED BY <1>1, <1>7, <2>1, <2>2 DEF CallbackOK, EmptyTask
<1>17. BodyKept'
  <2> SUFFICES ASSUME NEW g \in Job \ {f}, fiber[g].m_cb = None,
                      fiber[g].m_state \notin {"NONE", "TERM"}
               PROVE  \E u \in Worker : cb_fiber'[u] = g /\ ~RunsCb(u)'
    BY <1>6, <1>7 DEF BodyKept
  <2>1. PICK u \in Worker : cb_fiber[u] = g /\ ~RunsCb(u)
    BY DEF BodyKept
  <2>2. u # t
    BY <2>1 DEF f
  <2> QED BY <1>7, <1>8, <2>1, <2>2
<1>18. EntryOK'
  BY <1>1, <1>7, EntryKept DEF control
<1>19. SoleHolder'
  BY <1>4, <1>8 DEF SoleHolder
<1>20. QueueOK(m_fibers)'
  BY <1>1
<1> QED BY <1>10, <1>11, <1>12, <1>13, <1>14, <1>15, <1>16, <1>17, <1>18, <1>19, <1>20

-----------------------------------------------------------------------------
(* Clients touch the queue, and construct fibers nobody has seen.          *)

LEMMA ClientKeeps ==
    ASSUME Inv, UNCHANGED <<done, control, locals, m_activeThreadCount>>,
           TypeOK', QueueOK(m_fibers)', CallbackOK', ResumableOK',
           submitted \subseteq submitted', main' = main,
           \A g \in Job : \/ fiber'[g] = fiber[g]
                          \/ g \notin submitted /\ fiber'[g].m_cb # None,
           \A g \in (FibersOf(m_fibers) \cup armed)' :
              \/ g \in FibersOf(m_fibers) \cup armed
              \/ \A u \in Worker : cb_fiber[u] # g
    PROVE  Inv'
<1> USE NoneIsNoJob DEF Inv, locals
<1>1. \A u \in Worker :
        /\ pc'[u] = pc[u] /\ ft'[u] = ft[u] /\ cb_fiber'[u] = cb_fiber[u]
        /\ Held(u)' = Held(u)
        /\ RunsCb(u)' <=> RunsCb(u)
  BY DEF Held, Executing, Cur, RunsCb
<1>2. \A g \in submitted : g \in Job /\ fiber'[g] = fiber[g]
  BY DEF TypeOK
<1>3. ASSUME NEW u \in Worker PROVE LocalOK(u)'
  <2>1. Held(u) # None => fiber'[Held(u)] = fiber[Held(u)]
    BY <1>2, HeldFacts
  <2>2. ft[u].cb # None => ft[u].cb \in submitted' /\ fiber'[ft[u].cb] = fiber[ft[u].cb]
    <3>1. ft[u].cb # None => ft[u].cb \in submitted
      BY DEF LocalOK
    <3> QED BY <1>2, <3>1
  <2> QED BY <1>1, <2>1, <2>2 DEF LocalOK, Executing, Cur, Held
<1>4. ASSUME NEW u \in Worker PROVE CbFiberOK(u)'
  <2> SUFFICES ASSUME cb_fiber[u] # None, ~RunsCb(u) PROVE CbFiberOK(u)'
    BY <1>1 DEF CbFiberOK
  <2>1. /\ fiber[cb_fiber[u]].m_state = "INIT"
        /\ cb_fiber[u] \notin FibersOf(m_fibers) \cup armed
        /\ \A v \in Worker : Held(v) # cb_fiber[u]
    BY DEF CbFiberOK
  <2>2. cb_fiber[u] \in submitted
    BY <2>1 DEF CallbackOK, TypeOK
  <2>3. cb_fiber[u] \notin (FibersOf(m_fibers) \cup armed)'
    BY <2>1
  <2> QED BY <1>1, <1>2, <2>1, <2>2, <2>3 DEF CbFiberOK
<1>5. CbFiberUnique' /\ CbTaskUnique'
  BY <1>1 DEF CbFiberUnique, CbTaskUnique
<1>6. BodyKept'
  <2> SUFFICES ASSUME NEW g \in Job, fiber'[g].m_cb = None,
                      fiber'[g].m_state \notin {"NONE", "TERM"}
               PROVE  \E u \in Worker : cb_fiber'[u] = g /\ ~RunsCb(u)'
    BY DEF BodyKept
  <2>1. fiber'[g] = fiber[g]
    OBVIOUS
  <2> QED BY <1>1, <2>1 DEF BodyKept
<1>7. EntryOK'
  BY <1>1, Zenon DEF EntryOK, Worker
<1>8. SoleHolder'
  BY <1>1 DEF SoleHolder
<1>9. ActiveCount'
  BY <1>1, CountSame DEF Counted
<1> QED BY <1>3, <1>4, <1>5, <1>6, <1>7, <1>8, <1>9

LEMMA SubmitStep ==
    ASSUME Inv, NEW j \in Job, NEW thr \in Pins, Submit(j, thr)
    PROVE  Inv'
<1> USE NoneIsNoJob DEF Inv
<1>1. /\ j \notin submitted /\ submitted' = submitted \cup {j}
      /\ fiber[j].m_state = "NONE"
      /\ thr \in Worker \cup {None}
      /\ UNCHANGED <<done, armed, control, locals, m_activeThreadCount>>
  BY SchedulerAssumption DEF Submit, CallbackOK
<1>2. /\ j \notin FibersOf(m_fibers) \cup armed
      /\ j \notin CbsOf(m_fibers)
      /\ \A u \in Worker : Held(u) # j /\ cb_fiber[u] # j /\ ft[u].cb # j
  <2>1. \A u \in Worker : Held(u) # j
    BY <1>1, HeldFacts
  <2>2. \A u \in Worker : cb_fiber[u] # j
    BY <1>1, <2>1 DEF CbFiberOK, RunsCb, Held, Executing, Cur
  <2>3. \A u \in Worker : ft[u].cb # j
    BY <1>1 DEF LocalOK
  <2> QED BY <1>1, <2>1, <2>2, <2>3 DEF ResumableOK, CallbackOK
<1>3. \A u \in Worker :
        /\ pc'[u] = pc[u] /\ ft'[u] = ft[u]
        /\ Held(u)' = Held(u)
  BY <1>1 DEF locals, Held, Executing, Cur
<1>4. CASE ScheduleCb(j, thr)
  <2>1. fiber' = fiber
    BY <1>4 DEF ScheduleCb
  <2>2. /\ m_fibers' \in Seq(FiberAndThread) /\ QueueOK(m_fibers')
        /\ FibersOf(m_fibers') = FibersOf(m_fibers)
        /\ CbsOf(m_fibers') = CbsOf(m_fibers) \cup {j}
    BY <1>1, <1>2, <1>4, AppendCb DEF ScheduleCb, TypeOK
  <2>3. TypeOK'
    BY <1>1, <2>1, <2>2 DEF TypeOK, control, locals
  <2>4. CallbackOK'
    BY <1>1, <1>2, <1>3, <2>1, <2>2 DEF CallbackOK
  <2>5. ResumableOK'
    BY <1>1, <1>3, <2>1, <2>2 DEF ResumableOK
  <2> QED BY <1>1, <2>1, <2>2, <2>3, <2>4, <2>5, ClientKeeps DEF control
<1>5. CASE ScheduleFiber(j, thr)
  <2>1. /\ fiber' \in [Job -> FiberObject]
        /\ fiber'[j].m_state = "INIT" /\ fiber'[j].m_cb # None
        /\ \A g \in Job \ {j} : fiber'[g] = fiber[g]
    <3>1. /\ Construct(j) \in FiberObject /\ Construct(j).m_state = "INIT"
          /\ Construct(j).m_cb # None
      BY DEF Construct, FiberObject, FiberState
    <3>2. fiber' = [fiber EXCEPT ![j] = Construct(j)]
      BY <1>5 DEF ScheduleFiber
    <3> QED BY <3>1, <3>2 DEF TypeOK
  <2>2. /\ m_fibers' \in Seq(FiberAndThread) /\ QueueOK(m_fibers')
        /\ FibersOf(m_fibers') = FibersOf(m_fibers) \cup {j}
        /\ CbsOf(m_fibers') = CbsOf(m_fibers)
    BY <1>1, <1>2, <1>5, AppendFiber DEF ScheduleFiber, TypeOK
  <2>3. TypeOK'
    BY <1>1, <2>1, <2>2 DEF TypeOK, control, locals
  <2>4. CallbackOK'
    BY <1>1, <1>2, <1>3, <2>1, <2>2, QueueElements DEF CallbackOK, TypeOK
  <2>5. ResumableOK'
    <3>1. \A g \in FibersOf(m_fibers) \cup armed : g # j /\ fiber'[g] = fiber[g]
      BY <1>2, <2>1, QueueElements DEF TypeOK
    <3> QED BY <1>1, <1>2, <1>3, <2>1, <2>2, <3>1 DEF ResumableOK
  <2> QED BY <1>1, <1>2, <2>1, <2>2, <2>3, <2>4, <2>5, ClientKeeps DEF control
<1> QED BY <1>4, <1>5 DEF Submit

LEMMA MainSubmitBatchStep ==
    ASSUME Inv, MainSubmitBatch
    PROVE  Inv'
<1> USE NoneIsNoJob DEF Inv
<1>1. PICK i, j \in Job \ submitted :
        /\ i # j
        /\ m_fibers' = scheduleNoLock(scheduleNoLock(m_fibers, CbTask(i, None)),
                                      CbTask(j, None))
        /\ submitted' = submitted \cup {i, j}
  BY DEF MainSubmitBatch
<1>2. UNCHANGED <<fiber, done, armed, control, locals, m_activeThreadCount>>
  BY DEF MainSubmitBatch
<1>3. /\ fiber[i].m_state = "NONE" /\ fiber[j].m_state = "NONE"
      /\ i \notin CbsOf(m_fibers) /\ j \notin CbsOf(m_fibers)
      /\ \A u \in Worker : ft[u].cb # i /\ ft[u].cb # j
  BY DEF CallbackOK, LocalOK
<1> DEFINE q == scheduleNoLock(m_fibers, CbTask(i, None))
<1>4. /\ q \in Seq(FiberAndThread) /\ QueueOK(q)
      /\ FibersOf(q) = FibersOf(m_fibers)
      /\ CbsOf(q) = CbsOf(m_fibers) \cup {i}
  BY <1>3, AppendCb DEF TypeOK
<1>5. m_fibers' = scheduleNoLock(q, CbTask(j, None))
  BY <1>1
<1> HIDE DEF q
<1>6. /\ m_fibers' \in Seq(FiberAndThread) /\ QueueOK(m_fibers')
      /\ FibersOf(m_fibers') = FibersOf(m_fibers)
      /\ CbsOf(m_fibers') = CbsOf(m_fibers) \cup {i, j}
  <2>1. j \notin CbsOf(q)
    BY <1>1, <1>3, <1>4
  <2>2. CbsOf(m_fibers') = CbsOf(q) \cup {j} /\ m_fibers' \in Seq(FiberAndThread)
        /\ QueueOK(m_fibers') /\ FibersOf(m_fibers') = FibersOf(q)
    BY <1>4, <1>5, <2>1, AppendCb
  <2> QED BY <1>4, <2>2
<1>7. TypeOK'
  BY <1>1, <1>2, <1>6 DEF TypeOK, control, locals
<1>8. CallbackOK'
  BY <1>1, <1>2, <1>3, <1>6 DEF CallbackOK, locals
<1>9. ResumableOK'
  BY <1>2, <1>6 DEF ResumableOK, locals, Held, Executing, Cur
<1> QED BY <1>1, <1>2, <1>6, <1>7, <1>8, <1>9, ClientKeeps DEF control

(* A wake-up may find the body still on its way out of its context.        *)
LEMMA WakeStep ==
    ASSUME Inv, NEW f \in Job, Wake(f)
    PROVE  Inv'
<1> USE NoneIsNoJob DEF Inv
<1>1. /\ f \in armed /\ armed' = armed \ {f}
      /\ m_fibers' = scheduleNoLock(m_fibers, FiberTask(f, None))
      /\ UNCHANGED <<fiber, submitted, done, control, locals, m_activeThreadCount>>
  BY DEF Wake
<1>2. f \notin FibersOf(m_fibers) /\ fiber[f].m_state \in {"EXEC", "HOLD"}
  BY <1>1 DEF ResumableOK
<1>3. /\ m_fibers' \in Seq(FiberAndThread) /\ QueueOK(m_fibers')
      /\ FibersOf(m_fibers') = FibersOf(m_fibers) \cup {f}
      /\ CbsOf(m_fibers') = CbsOf(m_fibers)
  BY <1>1, <1>2, AppendFiber DEF TypeOK
<1>4. TypeOK'
  BY <1>1, <1>3 DEF TypeOK, control, locals
<1>5. CallbackOK'
  BY <1>1, <1>3 DEF CallbackOK, locals
<1>6. ResumableOK'
  <2>1. \A u \in Worker : Held(u)' = Held(u) /\ pc'[u] = pc[u]
    BY <1>1 DEF locals, Held, Executing, Cur
  <2> QED BY <1>1, <1>2, <1>3, <2>1 DEF ResumableOK
<1> QED BY <1>1, <1>3, <1>4, <1>5, <1>6, ClientKeeps DEF control

LEMMA ScheduleFinishedStep ==
    ASSUME Inv, NEW f \in Job, ScheduleFinished(f)
    PROVE  Inv'
<1> USE NoneIsNoJob DEF Inv
<1>1. /\ fiber[f].m_state \in {"TERM", "EXCEPT"}
      /\ f \notin FibersOf(m_fibers)
      /\ \A u \in Worker : Held(u) # f
      /\ m_fibers' = scheduleNoLock(m_fibers, FiberTask(f, None))
      /\ UNCHANGED <<fiber, submitted, done, armed, control, locals,
                     m_activeThreadCount>>
  BY DEF ScheduleFinished, Finished
<1>2. f \notin armed /\ \A u \in Worker : cb_fiber[u] # f
  <2>1. \A u \in Worker : cb_fiber[u] # f
    BY <1>1 DEF CbFiberOK, RunsCb, Held, Executing, Cur
  <2> QED BY <1>1, <2>1 DEF ResumableOK
<1>3. /\ m_fibers' \in Seq(FiberAndThread) /\ QueueOK(m_fibers')
      /\ FibersOf(m_fibers') = FibersOf(m_fibers) \cup {f}
      /\ CbsOf(m_fibers') = CbsOf(m_fibers)
  BY <1>1, AppendFiber DEF TypeOK
<1>4. TypeOK'
  BY <1>1, <1>3 DEF TypeOK, control, locals
<1>5. CallbackOK'
  BY <1>1, <1>3 DEF CallbackOK, locals
<1>6. ResumableOK'
  <2>1. \A u \in Worker : Held(u)' = Held(u) /\ pc'[u] = pc[u]
    BY <1>1 DEF locals, Held, Executing, Cur
  <2> QED BY <1>1, <1>2, <1>3, <2>1 DEF ResumableOK
<1> QED BY <1>1, <1>2, <1>3, <1>4, <1>5, <1>6, ClientKeeps DEF control

-----------------------------------------------------------------------------
(* start() and stop().                                                     *)

(* Threads that come into run() bring nothing with them.                   *)
LEMMA ThreadsEnter ==
    ASSUME Inv, TypeOK', EntryOK',
           UNCHANGED <<tasks, ft, cb_fiber, m_activeThreadCount>>,
           \A u \in Worker : pc'[u] = pc[u] \/ (pc[u] = "off" /\ pc'[u] = "take")
    PROVE  Inv'
<1> USE DEF Inv
<1>1. \A u \in Worker : /\ Held(u)' = Held(u)
                        /\ RunsCb(u)' <=> RunsCb(u)
  BY DEF Held, Executing, Cur, RunsCb
<1>2. \A u \in Worker : LocalOK(u)'
  BY DEF LocalOK, Executing, Cur, tasks
<1>3. \A u \in Worker : CbFiberOK(u)'
  BY <1>1 DEF CbFiberOK, tasks
<1>4. CbFiberUnique' /\ CbTaskUnique' /\ SoleHolder' /\ QueueOK(m_fibers)'
  BY <1>1 DEF CbFiberUnique, CbTaskUnique, SoleHolder, tasks
<1>5. ResumableOK'
  BY <1>1 DEF ResumableOK, tasks, Held, Executing
<1>6. CallbackOK' /\ BodyKept'
  BY <1>1 DEF CallbackOK, BodyKept, tasks
<1>7. ActiveCount'
  BY CountSame DEF Counted
<1> QED BY <1>2, <1>3, <1>4, <1>5, <1>6, <1>7

LEMMA StartStep ==
    ASSUME Inv, Start
    PROVE  Inv'
<1> USE DEF Inv
<1>1. \A u \in Worker : pc[u] = "off"
  BY DEF Start, EntryOK
<1>2. \A u \in Worker : pc'[u] = IF u \in m_threads THEN "take" ELSE pc[u]
  BY DEF Start
<1>3. TypeOK'
  BY DEF Start, TypeOK, tasks
<1>4. EntryOK'
  <2>1. Caller \in Worker /\ Caller \notin m_threads
    BY SchedulerAssumption DEF TypeOK, Worker
  <2> QED BY <1>1, <1>2, <2>1 DEF Start, EntryOK
<1> QED BY <1>1, <1>2, <1>3, <1>4, ThreadsEnter DEF Start

LEMMA StopStep ==
    ASSUME Inv, StopBegin \/ Stop
    PROVE  Inv'
<1> USE DEF Inv
<1>1. Caller \in Worker
  BY DEF Worker
<1>2. CASE StopRoot
  <2>1. pc[Caller] = "off"
    BY <1>2 DEF StopRoot, EntryOK
  <2>2. /\ \A u \in Worker : pc'[u] = pc[u] \/ (pc[u] = "off" /\ pc'[u] = "take")
        /\ main' \in {"root", "join"}
        /\ rootState' \in {"NONE", "INIT", "EXEC", "TERM"}
        /\ pc' \in [Worker -> {"off", "take", "dispatch", "exec", "hold", "back",
                               "after", "idle", "exit"}]
    BY <1>1, <1>2, <2>1 DEF StopRoot, Goto, TypeOK
  <2>3. UNCHANGED <<tasks, m_stopping, m_autoStop, m_rootThread, m_threads, ft,
                    cb_fiber, idle_fiber, m_activeThreadCount>>
    BY <1>2 DEF StopRoot
  <2>4. TypeOK'
    BY <2>2, <2>3 DEF TypeOK, tasks
  <2>5. EntryOK'
    BY <2>2 DEF EntryOK
  <2> QED BY <2>2, <2>3, <2>4, <2>5, ThreadsEnter
<1>3. CASE StopBegin \/ StopAlone \/ StopAloneCheck \/ StopAll \/ RootReturn \/ Join
  <2>1. UNCHANGED <<tasks, locals, m_rootThread, m_threads, m_activeThreadCount>>
    BY <1>3 DEF StopBegin, StopAlone, StopAloneCheck, StopAll, RootReturn, Join
  <2>2. /\ m_stopping' \in BOOLEAN /\ m_autoStop' \in BOOLEAN
        /\ rootState' \in {"NONE", "INIT", "EXEC", "TERM"}
    BY <1>3 DEF StopBegin, StopAlone, StopAloneCheck, StopAll, RootReturn, Join,
                TypeOK
  <2>3. /\ main' \in {"stop1", "stop2", "stop3", "stop4", "join", "stopped"}
        /\ main \in {"running", "stop1", "stop2", "stop3", "root", "join"}
        /\ main \in {"root", "join"} => main' \in {"join", "stopped"}
    BY <1>3 DEF StopBegin, StopAlone, StopAloneCheck, StopAll, RootReturn, Join
  <2>4. TypeOK'
    BY <2>1, <2>2, <2>3 DEF TypeOK, tasks, locals
  <2>5. EntryOK'
    BY <2>1, <2>3 DEF EntryOK, locals
  <2> QED BY <2>1, <2>4, <2>5, ThreadsEnter DEF locals
<1> QED BY <1>2, <1>3 DEF Stop

-----------------------------------------------------------------------------
(* The theorems.                                                           *)

LEMMA InitInv == Init => Inv
<1> SUFFICES ASSUME Init PROVE Inv
  OBVIOUS
<1> USE NoneIsNoJob DEF Init
<1>1. NoFiber \in FiberObject /\ NoFiber.m_state = "NONE"
  BY DEF NoFiber, FiberObject, FiberState
<1>2. TypeOK
  <2>1. fiber \in [Job -> FiberObject]
    BY <1>1
  <2>2. m_fibers \in Seq(FiberAndThread) /\ m_activeThreadCount \in Nat
    OBVIOUS
  <2>3. /\ rootState \in {"NONE", "INIT", "EXEC", "TERM"}
        /\ main = "new" /\ m_threads \in SUBSET Threads
        /\ m_rootThread \in {Caller, None}
    OBVIOUS
  <2>4. /\ pc \in [Worker -> {"off", "take", "dispatch", "exec", "hold", "back",
                              "after", "idle", "exit"}]
        /\ ft \in [Worker -> FiberAndThread]
        /\ cb_fiber \in [Worker -> Job \cup {None}]
        /\ idle_fiber \in [Worker -> {"INIT", "HOLD", "TERM"}]
    BY EmptyTaskType
  <2> QED BY <2>1, <2>2, <2>3, <2>4 DEF TypeOK
<1>3. FibersOf(m_fibers) = {} /\ CbsOf(m_fibers) = {} /\ QueueOK(m_fibers)
  BY DEF FibersOf, CbsOf, QueueOK
<1>4. \A t \in Worker : /\ ~Counted(t) /\ ~Executing(t) /\ Held(t) = None
                        /\ pc[t] = "off" /\ ft[t] = EmptyTask
                        /\ cb_fiber[t] = None /\ ft[t].cb = None
  BY DEF Counted, Executing, Held, EmptyTask
<1>5. ActiveCount
  <2>1. {t \in Worker : Counted(t)} = {}
    BY <1>4
  <2> QED BY <2>1, FS_EmptySet DEF ActiveCount
<1>6. \A t \in Worker : LocalOK(t) /\ CbFiberOK(t)
  BY <1>4 DEF LocalOK, CbFiberOK
<1>7. CbFiberUnique /\ CbTaskUnique /\ SoleHolder
  BY <1>4 DEF CbFiberUnique, CbTaskUnique, SoleHolder
<1>8. ResumableOK /\ CallbackOK /\ BodyKept
  BY <1>1, <1>3 DEF ResumableOK, CallbackOK, BodyKept
<1>9. EntryOK
  BY <1>4 DEF EntryOK
<1> QED BY <1>2, <1>3, <1>5, <1>6, <1>7, <1>8, <1>9 DEF Inv

LEMMA NextInv == Inv /\ [Next]_vars => Inv'
<1> SUFFICES ASSUME Inv, [Next]_vars PROVE Inv'
  OBVIOUS
<1>1. CASE UNCHANGED vars
  <2>1. UNCHANGED <<tasks, ft, cb_fiber, m_activeThreadCount, pc, main>>
    BY <1>1 DEF vars, locals, control
  <2>2. TypeOK'
    BY <1>1 DEF Inv, TypeOK, vars, tasks, locals, control
  <2>3. EntryOK'
    BY <2>1 DEF Inv, EntryOK
  <2> QED BY <2>1, <2>2, <2>3, ThreadsEnter
<1>2. CASE Start
  BY <1>2, StartStep
<1>3. CASE StopBegin \/ Stop
  BY <1>3, StopStep
<1>4. CASE MainSubmit
  BY <1>4, SubmitStep DEF MainSubmit
<1>5. CASE MainSubmitBatch
  BY <1>5, MainSubmitBatchStep
<1>6. ASSUME NEW f \in Job, Wake(f) \/ ScheduleFinished(f) PROVE Inv'
  BY <1>6, WakeStep, ScheduleFinishedStep
<1>7. ASSUME NEW t \in Worker, Run(t) PROVE Inv'
  BY <1>7, TakeStep, IdleStep, DispatchFiberStep, DispatchCbStep, DispatchDropStep,
     YieldToHoldStep, ReturnStep, RescheduleStep, ParkStep, RetireStep DEF Run
<1>8. ASSUME NEW t \in Worker, Body(t) PROVE Inv'
  BY <1>8, FinishStep, YieldToReadyStep, ArmStep, SwitchToStep DEF Body
<1>9. ASSUME NEW t \in Worker, BodySubmit(t) PROVE Inv'
  BY <1>9, SubmitStep DEF BodySubmit
<1> QED BY <1>1, <1>2, <1>3, <1>4, <1>5, <1>6, <1>7, <1>8, <1>9 DEF Next

THEOREM Invariance == Spec => []Inv
BY InitInv, NextInv, PTL DEF Spec

(* Every variable keeps its type.                                          *)
THEOREM TypeCorrect == Spec => []TypeOK
<1>1. Inv => TypeOK
  BY DEF Inv
<1> QED BY <1>1, Invariance, PTL

(* However many threads and tasks there are, and however early a wake-up   *)
(* arrives, no fiber's context is entered by two threads.                  *)
THEOREM NoContextShared == Spec => []SoleHolder
<1>1. Inv => SoleHolder
  BY DEF Inv
<1> QED BY <1>1, Invariance, PTL

(* The assertions of class Fiber at run()'s and the bodies' calls hold.    *)
THEOREM NoAssertionFails == Spec => []AssertionsHold
<1>1. ASSUME Inv PROVE AssertionsHold
  <2> SUFFICES ASSUME NEW t \in Worker
               PROVE  /\ pc[t] = "dispatch" /\ ft[t].fiber # None
                            => MaySwapIn(fiber[ft[t].fiber])
                      /\ pc[t] = "dispatch" /\ ft[t].fiber = None /\ cb_fiber[t] # None
                            => MayReset(fiber[cb_fiber[t]])
                      /\ pc[t] \in {"exec", "hold"} => fiber[Cur(t)].m_state = "EXEC"
    BY DEF AssertionsHold
  <2>1. LocalOK(t) /\ CbFiberOK(t)
    BY <1>1 DEF Inv
  <2>2. pc[t] = "dispatch" => ~RunsCb(t)
    BY DEF RunsCb, Executing
  <2> QED BY <2>1, <2>2 DEF LocalOK, CbFiberOK, MaySwapIn, MayReset
<1> QED BY <1>1, Invariance, PTL

(* stopping() never miscounts the threads that have a task in hand.        *)
THEOREM CountCorrect == Spec => []ActiveCount
<1>1. Inv => ActiveCount
  BY DEF Inv
<1> QED BY <1>1, Invariance, PTL
=============================================================================
