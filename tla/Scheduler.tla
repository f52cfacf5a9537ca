------------------------------ MODULE Scheduler ------------------------------
(***************************************************************************)
(* class Scheduler (scheduler.h, scheduler.cc): an M:N scheduler.  Every   *)
(* pool thread, and inside stop() the thread that created the scheduler,   *)
(* runs Scheduler::run(): it takes tasks from one mutex-protected list and *)
(* switches into the fiber that executes them.                             *)
(*                                                                         *)
(* pc[t] is where thread t is in run():                                    *)
(*   off       not in run()                                                *)
(*   take      top of the loop, about to lock m_mutex and scan m_fibers    *)
(*   dispatch  has taken ft and left the critical section                  *)
(*   exec      inside the body of fiber Cur(t)                             *)
(*   hold      the body has given its fiber to a waker and is about to     *)
(*             call YieldToHold()                                          *)
(*   back      swapcontext has returned to run()                           *)
(*   after     m_activeThreadCount is decremented, the state is not looked *)
(*             at yet                                                      *)
(*   idle      about to resume idle_fiber                                  *)
(*   exit      run() has returned                                          *)
(* main is where the creating thread is: new (constructed), running (after *)
(* start()), stop1..stop4 / root / join (inside stop()), stopped.          *)
(*                                                                         *)
(* m_mutex regions are atomic steps.  m_autoStop, m_stopping and the fiber *)
(* states are read without the lock, one step per access that another      *)
(* thread can tell apart.  The base class's tickle() only logs;            *)
(* m_idleThreadCount has no reader here (see IOManager).                   *)
(*                                                                         *)
(* Bodies are the environment.  They obey the discipline of the callers in *)
(* this repository: a callback is submitted once, and a fiber that waits   *)
(* is given to exactly one waker (Arm, or its own schedule() in switchTo)  *)
(* before it yields.  The wake-up may well arrive before the yield.        *)
(***************************************************************************)
EXTENDS Fiber, Naturals, FiniteSets, Sequences, SequencesExt

CONSTANTS
    Threads,    \* the threads start() may create
    Caller,     \* the thread that constructs, starts and stops the scheduler
    Pins,       \* the `thread' arguments clients pass to schedule()/switchTo()
    Waiting     \* the jobs whose bodies may wait for an outside waker

Worker == Threads \cup {Caller}

ASSUME SchedulerAssumption ==
    /\ IsFiniteSet(Threads)
    /\ Caller \notin Threads
    /\ None \notin Worker
    /\ Pins \subseteq Worker \cup {None}
    /\ Waiting \subseteq Job

VARIABLES
    fiber,                  \* the Fiber objects
    m_fibers,               \* std::list<FiberAndThread>: the task queue
    m_activeThreadCount,
    m_stopping,
    m_autoStop,
    m_rootThread,           \* Caller if use_caller, else None (-1)
    m_threads,              \* the threads the pool has (m_threadCount many)
    rootState,              \* m_rootFiber->m_state, "NONE" without use_caller
    main,                   \* where the creating thread is
    pc,                     \* where each thread is in run()
    ft,                     \* run()'s local: the task in hand
    cb_fiber,               \* run()'s local: the fiber reused for callbacks
    idle_fiber,             \* run()'s local: the state of its idle fiber
    armed,                  \* fibers whose wake-up is with an outside waker
    submitted,              \* history: callbacks handed to schedule()
    done                    \* history: callbacks whose body ended

tasks   == <<fiber, m_fibers, submitted, done, armed>>
control == <<m_stopping, m_autoStop, m_rootThread, m_threads, rootState, main>>
locals  == <<pc, ft, cb_fiber, idle_fiber>>
vars    == <<tasks, control, locals, m_activeThreadCount>>

-----------------------------------------------------------------------------
(* struct FiberAndThread                                                   *)
FiberAndThread ==
    [fiber : Job \cup {None}, cb : Job \cup {None}, thread : Worker \cup {None}]

EmptyTask         == [fiber |-> None, cb |-> None, thread |-> None]
FiberTask(f, thr) == [fiber |-> f, cb |-> None, thread |-> thr]
CbTask(c, thr)    == [fiber |-> None, cb |-> c, thread |-> thr]

(* scheduleNoLock(): an empty task is not queued.                          *)
scheduleNoLock(q, task) ==
    IF task.fiber # None \/ task.cb # None THEN Append(q, task) ELSE q

(* The fiber thread t is dealing with: ft.fiber, or cb_fiber once ft.reset *)
(* has emptied ft.                                                         *)
Cur(t) == IF ft[t].fiber # None THEN ft[t].fiber ELSE cb_fiber[t]

(* Mutant: stopping() does not look at the queue.                          *)
stoppingQueueIgnored ==
    /\ m_autoStop
    /\ m_stopping
    /\ m_activeThreadCount = 0

(* Scheduler::stopping()                                                   *)
stopping ==
    /\ m_autoStop
    /\ m_stopping
    /\ m_fibers = <<>>
    /\ m_activeThreadCount = 0

FibersOf(q) == {q[i].fiber : i \in DOMAIN q} \ {None}
CbsOf(q)    == {q[i].cb : i \in DOMAIN q} \ {None}

(* Thread t has a task in hand: from ++ to -- of m_activeThreadCount.      *)
Counted(t)   == pc[t] \in {"dispatch", "exec", "hold", "back"}
Executing(t) == pc[t] \in {"exec", "hold", "back", "after"}

(* The fiber thread t holds: it took it and has not let go of it yet.      *)
Held(t) == CASE pc[t] = "dispatch" -> ft[t].fiber
             [] Executing(t)       -> Cur(t)
             [] OTHER              -> None

(* A thread of this scheduler, and a legal pin.                            *)
Members    == m_threads \cup ({m_rootThread} \ {None})
LegalPins  == Pins \cap (Members \cup {None})
Alive      == \E t \in Worker : pc[t] \notin {"off", "exit"}

-----------------------------------------------------------------------------
(* The constructor: threads > 0, and with use_caller one thread less.      *)
Init ==
    /\ fiber = [f \in Job |-> NoFiber]
    /\ m_fibers = <<>>
    /\ m_activeThreadCount = 0
    /\ m_stopping = TRUE
    /\ m_autoStop = FALSE
    /\ m_rootThread \in {Caller, None}
    /\ m_threads \in SUBSET Threads
    /\ m_threads # {} \/ m_rootThread # None
    /\ rootState = IF m_rootThread = None THEN "NONE" ELSE "INIT"
    /\ main = "new"
    /\ pc = [t \in Worker |-> "off"]
    /\ ft = [t \in Worker |-> EmptyTask]
    /\ cb_fiber = [t \in Worker |-> None]
    /\ idle_fiber = [t \in Worker |-> "INIT"]
    /\ armed = {}
    /\ submitted = {}
    /\ done = {}

-----------------------------------------------------------------------------
(* Clients: the creating thread outside start() and stop(), and bodies.    *)

(* schedule(cb, thr)                                                       *)
ScheduleCb(j, thr) ==
    /\ m_fibers' = scheduleNoLock(m_fibers, CbTask(j, thr))
    /\ UNCHANGED fiber

(* schedule(Fiber::ptr(new Fiber(cb)), thr)                                *)
ScheduleFiber(j, thr) ==
    /\ fiber' = [fiber EXCEPT ![j] = Construct(j)]
    /\ m_fibers' = scheduleNoLock(m_fibers, FiberTask(j, thr))

Submit(j, thr) ==
    /\ j \notin submitted
    /\ thr \in LegalPins
    /\ ScheduleCb(j, thr) \/ ScheduleFiber(j, thr)
    /\ submitted' = submitted \cup {j}
    /\ UNCHANGED <<done, armed, control, locals, m_activeThreadCount>>

MainSubmit ==
    /\ main \in {"new", "running"}
    /\ \E j \in Job, thr \in Pins : Submit(j, thr)

(* A body submits another callback.                                        *)
BodySubmit(t) ==
    /\ pc[t] = "exec"
    /\ \E j \in Job, thr \in Pins : Submit(j, thr)

(* schedule(begin, end): a batch of callbacks under one lock, unpinned.    *)
MainSubmitBatch ==
    /\ main \in {"new", "running"}
    /\ \E i, j \in Job \ submitted :
        /\ i # j
        /\ m_fibers' = scheduleNoLock(scheduleNoLock(m_fibers, CbTask(i, None)),
                                      CbTask(j, None))
        /\ submitted' = submitted \cup {i, j}
    /\ UNCHANGED <<fiber, done, armed, control, locals, m_activeThreadCount>>

(* An outside waker (an event, a timer) hands the fiber back, while some   *)
(* thread of the scheduler is still in run().                              *)
Wake(f) ==
    /\ f \in armed
    /\ Alive
    /\ armed' = armed \ {f}
    /\ m_fibers' = scheduleNoLock(m_fibers, FiberTask(f, None))
    /\ UNCHANGED <<fiber, submitted, done, control, locals, m_activeThreadCount>>

(* Until stop() is called, someone who kept the pointer may schedule a     *)
(* fiber that has ended: run() must drop it.                               *)
ScheduleFinished(f) ==
    /\ Finished(fiber[f])
    /\ Alive
    /\ ~m_autoStop
    /\ f \notin FibersOf(m_fibers)
    /\ \A t \in Worker : Held(t) # f
    /\ m_fibers' = scheduleNoLock(m_fibers, FiberTask(f, None))
    /\ UNCHANGED <<fiber, submitted, done, armed, control, locals,
                   m_activeThreadCount>>

-----------------------------------------------------------------------------
(* run(), one action per step of thread t.                                 *)

Goto(t, label) == pc' = [pc EXCEPT ![t] = label]

(* Mutant: the scan does not skip fibers that are still being executed.    *)
RunnableExecuting(task, t) == task.thread \in {None, t}

(* Mutant: the scan does not skip tasks that are pinned to another thread. *)
RunnableAnyPin(task, t) ==
    task.fiber # None => fiber[task.fiber].m_state # "EXEC"

(* The scan skips tasks pinned to another thread and fibers that are still *)
(* being executed.                                                         *)
Runnable(task, t) ==
    /\ task.thread \in {None, t}
    /\ task.fiber # None => fiber[task.fiber].m_state # "EXEC"

FirstRunnable(i, t) ==
    /\ i \in DOMAIN m_fibers
    /\ Runnable(m_fibers[i], t)
    /\ \A k \in 1 .. i - 1 : ~Runnable(m_fibers[k], t)

(* Mutant: taking a task is not counted.                                   *)
TakeUncounted(t) ==
    /\ pc[t] = "take"
    /\ \E i \in DOMAIN m_fibers :
        /\ FirstRunnable(i, t)
        /\ ft' = [ft EXCEPT ![t] = m_fibers[i]]
        /\ m_fibers' = RemoveAt(m_fibers, i)
    /\ Goto(t, "dispatch")
    /\ UNCHANGED <<fiber, submitted, done, armed, control, cb_fiber, idle_fiber,
                   m_activeThreadCount>>

Take(t) ==
    /\ pc[t] = "take"
    /\ \E i \in DOMAIN m_fibers :
        /\ FirstRunnable(i, t)
        /\ ft' = [ft EXCEPT ![t] = m_fibers[i]]
        /\ m_fibers' = RemoveAt(m_fibers, i)
    /\ m_activeThreadCount' = m_activeThreadCount + 1
    /\ Goto(t, "dispatch")
    /\ UNCHANGED <<fiber, submitted, done, armed, control, cb_fiber, idle_fiber>>

(* Nothing to take: leave run() if the idle fiber has ended, else idle.    *)
TakeNothing(t) ==
    /\ pc[t] = "take"
    /\ \A i \in DOMAIN m_fibers : ~Runnable(m_fibers[i], t)
    /\ Goto(t, IF idle_fiber[t] = "TERM" THEN "exit" ELSE "idle")
    /\ UNCHANGED <<tasks, control, ft, cb_fiber, idle_fiber, m_activeThreadCount>>

(* ft.fiber->swapIn()                                                      *)
DispatchFiber(t) ==
    /\ pc[t] = "dispatch"
    /\ ft[t].fiber # None
    /\ ~Finished(fiber[ft[t].fiber])
    /\ fiber' = [fiber EXCEPT ![ft[t].fiber] = swapIn(@)]
    /\ Goto(t, "exec")
    /\ UNCHANGED <<m_fibers, submitted, done, armed, control, ft, cb_fiber,
                   idle_fiber, m_activeThreadCount>>

(* A callback runs in the thread's cb_fiber, or in a new one.              *)
DispatchCb(t) ==
    /\ pc[t] = "dispatch"
    /\ ft[t].fiber = None
    /\ LET c == ft[t].cb
           f == IF cb_fiber[t] # None THEN cb_fiber[t] ELSE c
           o == IF cb_fiber[t] # None THEN reset(fiber[f], c) ELSE Construct(c)
       IN  /\ fiber' = [fiber EXCEPT ![f] = swapIn(o)]
           /\ cb_fiber' = [cb_fiber EXCEPT ![t] = f]
    /\ ft' = [ft EXCEPT ![t] = EmptyTask]
    /\ Goto(t, "exec")
    /\ UNCHANGED <<m_fibers, submitted, done, armed, control, idle_fiber,
                   m_activeThreadCount>>

(* Mutant: dropping a fiber that has ended does not give the count back.   *)
DispatchDropCounted(t) ==
    /\ pc[t] = "dispatch"
    /\ ft[t].fiber # None
    /\ Finished(fiber[ft[t].fiber])
    /\ ft' = [ft EXCEPT ![t] = EmptyTask]
    /\ Goto(t, "take")
    /\ UNCHANGED <<tasks, control, cb_fiber, idle_fiber, m_activeThreadCount>>

(* The fiber taken has already ended: nothing to run.                      *)
DispatchDrop(t) ==
    /\ pc[t] = "dispatch"
    /\ ft[t].fiber # None
    /\ Finished(fiber[ft[t].fiber])
    /\ m_activeThreadCount' = m_activeThreadCount - 1
    /\ ft' = [ft EXCEPT ![t] = EmptyTask]
    /\ Goto(t, "take")
    /\ UNCHANGED <<tasks, control, cb_fiber, idle_fiber>>

-----------------------------------------------------------------------------
(* The body running on thread t.                                           *)

(* The body returns or throws: MainFunc() records it and swaps out.        *)
Finish(t) ==
    /\ pc[t] = "exec"
    /\ \E o \in {MainFuncReturn(fiber[Cur(t)]), MainFuncThrow(fiber[Cur(t)])} :
        fiber' = [fiber EXCEPT ![Cur(t)] = o]
    /\ done' = done \cup {fiber[Cur(t)].m_cb}
    /\ Goto(t, "back")
    /\ UNCHANGED <<m_fibers, submitted, armed, control, ft, cb_fiber, idle_fiber,
                   m_activeThreadCount>>

YieldToReady(t) ==
    /\ pc[t] = "exec"
    /\ fiber' = [fiber EXCEPT ![Cur(t)] = MarkReady(@)]
    /\ Goto(t, "back")
    /\ UNCHANGED <<m_fibers, submitted, done, armed, control, ft, cb_fiber,
                   idle_fiber, m_activeThreadCount>>

(* The body registers its fiber with an outside waker ...                  *)
Arm(t) ==
    /\ pc[t] = "exec"
    /\ fiber[Cur(t)].m_cb \in Waiting
    /\ armed' = armed \cup {Cur(t)}
    /\ Goto(t, "hold")
    /\ UNCHANGED <<fiber, m_fibers, submitted, done, control, ft, cb_fiber,
                   idle_fiber, m_activeThreadCount>>

(* ... or switchTo(thr) queues it for another thread itself ...            *)
SwitchTo(t) ==
    /\ pc[t] = "exec"
    /\ \E thr \in LegalPins \ {None, t} :
        m_fibers' = scheduleNoLock(m_fibers, FiberTask(Cur(t), thr))
    /\ Goto(t, "hold")
    /\ UNCHANGED <<fiber, submitted, done, armed, control, ft, cb_fiber,
                   idle_fiber, m_activeThreadCount>>

(* ... and calls YieldToHold().                                            *)
YieldToHold(t) ==
    /\ pc[t] = "hold"
    /\ fiber' = [fiber EXCEPT ![Cur(t)] = MarkHold(@)]
    /\ Goto(t, "back")
    /\ UNCHANGED <<m_fibers, submitted, done, armed, control, ft, cb_fiber,
                   idle_fiber, m_activeThreadCount>>

-----------------------------------------------------------------------------
(* run() again: the switch has returned.                                   *)
Return(t) ==
    /\ pc[t] = "back"
    /\ m_activeThreadCount' = m_activeThreadCount - 1
    /\ Goto(t, "after")
    /\ UNCHANGED <<tasks, control, ft, cb_fiber, idle_fiber>>

(* ft.reset(), resp. cb_fiber.reset(): the thread lets go of the object.   *)
LetGo(t) ==
    /\ ft' = [ft EXCEPT ![t] = EmptyTask]
    /\ cb_fiber' = IF ft[t].fiber # None THEN cb_fiber
                                         ELSE [cb_fiber EXCEPT ![t] = None]
    /\ Goto(t, "take")
    /\ UNCHANGED <<submitted, done, armed, control, idle_fiber,
                   m_activeThreadCount>>

(* Mutant: only a fiber task is put back, not a callback's READY fiber.    *)
RescheduleFiberOnly(t) ==
    /\ pc[t] = "after"
    /\ fiber[Cur(t)].m_state = "READY"
    /\ m_fibers' = scheduleNoLock(m_fibers, FiberTask(ft[t].fiber, None))
    /\ LetGo(t)
    /\ UNCHANGED fiber

(* READY: back into the queue, for any thread.                             *)
Reschedule(t) ==
    /\ pc[t] = "after"
    /\ fiber[Cur(t)].m_state = "READY"
    /\ m_fibers' = scheduleNoLock(m_fibers, FiberTask(Cur(t), None))
    /\ LetGo(t)
    /\ UNCHANGED fiber

(* Neither READY nor ended: the fiber becomes HOLD.                        *)
Park(t) ==
    /\ pc[t] = "after"
    /\ fiber[Cur(t)].m_state \notin {"READY", "TERM", "EXCEPT"}
    /\ fiber' = [fiber EXCEPT ![Cur(t)] = Suspend(@)]
    /\ LetGo(t)
    /\ UNCHANGED m_fibers

(* Ended: a fiber task is released; cb_fiber is reset for its next use.    *)
Retire(t) ==
    /\ pc[t] = "after"
    /\ Finished(fiber[Cur(t)])
    /\ fiber' = IF ft[t].fiber # None
                THEN fiber
                ELSE [fiber EXCEPT ![cb_fiber[t]] = reset(@, None)]
    /\ ft' = [ft EXCEPT ![t] = EmptyTask]
    /\ Goto(t, "take")
    /\ UNCHANGED <<m_fibers, submitted, done, armed, control, cb_fiber,
                   idle_fiber, m_activeThreadCount>>

(* idle(): leave for good when stopping(), otherwise yield and look again. *)
Idle(t) ==
    /\ pc[t] = "idle"
    /\ idle_fiber' = [idle_fiber EXCEPT ![t] = IF stopping THEN "TERM" ELSE "HOLD"]
    /\ Goto(t, "take")
    /\ UNCHANGED <<tasks, control, ft, cb_fiber, m_activeThreadCount>>

-----------------------------------------------------------------------------
(* start(): the threads are created under m_mutex.                         *)
Start ==
    /\ main = "new"
    /\ m_stopping
    /\ m_stopping' = FALSE
    /\ pc' = [t \in Worker |-> IF t \in m_threads THEN "take" ELSE pc[t]]
    /\ main' = "running"
    /\ UNCHANGED <<tasks, m_autoStop, m_rootThread, m_threads, rootState, ft,
                   cb_fiber, idle_fiber, m_activeThreadCount>>

(* stop(), statement by statement.                                         *)
StopBegin ==
    /\ main = "running"
    /\ m_autoStop' = TRUE
    /\ main' = "stop1"
    /\ UNCHANGED <<tasks, locals, m_stopping, m_rootThread, m_threads, rootState,
                   m_activeThreadCount>>

(* Mutant: stop() takes its shortcut although there are pool threads.      *)
OnlyCallerOrNot == m_rootThread # None /\ rootState \in {"TERM", "INIT"}

OnlyCaller == m_rootThread # None /\ m_threads = {} /\ rootState \in {"TERM", "INIT"}

(* The creating thread is the whole pool: stop at once if there is nothing *)
(* to do.                                                                  *)
StopAlone ==
    /\ main = "stop1"
    /\ OnlyCaller
    /\ m_stopping' = TRUE
    /\ main' = "stop2"
    /\ UNCHANGED <<tasks, locals, m_autoStop, m_rootThread, m_threads, rootState,
                   m_activeThreadCount>>

StopAloneCheck ==
    /\ main = "stop2"
    /\ main' = IF stopping THEN "stopped" ELSE "stop3"
    /\ UNCHANGED <<tasks, locals, m_stopping, m_autoStop, m_rootThread, m_threads,
                   rootState, m_activeThreadCount>>

StopAll ==
    /\ main = "stop3" \/ (main = "stop1" /\ ~OnlyCaller)
    /\ m_stopping' = TRUE
    /\ main' = IF m_rootThread # None THEN "stop4" ELSE "join"
    /\ UNCHANGED <<tasks, locals, m_autoStop, m_rootThread, m_threads, rootState,
                   m_activeThreadCount>>

(* m_rootFiber->call(): the creating thread joins in the work.             *)
StopRoot ==
    /\ main = "stop4"
    /\ IF stopping
       THEN main' = "join" /\ UNCHANGED <<rootState, pc>>
       ELSE main' = "root" /\ rootState' = "EXEC" /\ Goto(Caller, "take")
    /\ UNCHANGED <<tasks, m_stopping, m_autoStop, m_rootThread, m_threads, ft,
                   cb_fiber, idle_fiber, m_activeThreadCount>>

(* run() returned on the creating thread: CallerMainFunc() goes back().    *)
RootReturn ==
    /\ main = "root"
    /\ pc[Caller] = "exit"
    /\ rootState' = "TERM"
    /\ main' = "join"
    /\ UNCHANGED <<tasks, locals, m_stopping, m_autoStop, m_rootThread, m_threads,
                   m_activeThreadCount>>

Join ==
    /\ main = "join"
    /\ \A t \in m_threads : pc[t] = "exit"
    /\ main' = "stopped"
    /\ UNCHANGED <<tasks, locals, m_stopping, m_autoStop, m_rootThread, m_threads,
                   rootState, m_activeThreadCount>>

-----------------------------------------------------------------------------
Run(t) ==
    \/ Take(t) \/ TakeNothing(t)
    \/ DispatchFiber(t) \/ DispatchCb(t) \/ DispatchDrop(t)
    \/ YieldToHold(t) \/ Return(t)
    \/ Reschedule(t) \/ Park(t) \/ Retire(t)
    \/ Idle(t)

Body(t) == Finish(t) \/ YieldToReady(t) \/ Arm(t) \/ SwitchTo(t)

Stop ==
    \/ StopAlone \/ StopAloneCheck \/ StopAll \/ StopRoot \/ RootReturn \/ Join

Next ==
    \/ Start \/ StopBegin \/ Stop
    \/ MainSubmit \/ MainSubmitBatch
    \/ \E f \in Job : Wake(f) \/ ScheduleFinished(f)
    \/ \E t \in Worker : Run(t) \/ Body(t) \/ BodySubmit(t)

Spec == Init /\ [][Next]_vars

(***************************************************************************)
(* Fairness.  The operating system runs every thread that is not blocked,  *)
(* so each step of run(), of a body and of stop() is weakly fair; m_mutex  *)
(* is never held across a wait.  A waker keeps its promise.  A body that   *)
(* gets the processor again and again ends at last (strong fairness); the  *)
(* library cannot promise that for its clients.  Nobody has to submit,     *)
(* start or stop anything.                                                 *)
(***************************************************************************)
FinishJob(j) ==
    \E t \in Worker : pc[t] = "exec" /\ fiber[Cur(t)].m_cb = j /\ Finish(t)

Fairness ==
    /\ WF_vars(Stop)
    /\ \A t \in Worker : WF_vars(Run(t)) /\ WF_vars(Body(t))
    /\ \A f \in Job : WF_vars(Wake(f))
    /\ \A j \in Job : SF_vars(FinishJob(j))

FairSpec == Spec /\ Fairness

-----------------------------------------------------------------------------
(* Every variable has its type.                                            *)
TypeOK ==
    /\ fiber \in [Job -> FiberObject]
    /\ m_fibers \in Seq(FiberAndThread)
    /\ m_activeThreadCount \in Nat
    /\ m_stopping \in BOOLEAN /\ m_autoStop \in BOOLEAN
    /\ m_rootThread \in {Caller, None}
    /\ m_threads \in SUBSET Threads
    /\ rootState \in {"NONE", "INIT", "EXEC", "TERM"}
    /\ main \in {"new", "running", "stop1", "stop2", "stop3", "stop4", "root",
                 "join", "stopped"}
    /\ pc \in [Worker -> {"off", "take", "dispatch", "exec", "hold", "back",
                          "after", "idle", "exit"}]
    /\ ft \in [Worker -> FiberAndThread]
    /\ cb_fiber \in [Worker -> Job \cup {None}]
    /\ idle_fiber \in [Worker -> {"INIT", "HOLD", "TERM"}]
    /\ armed \in SUBSET Job /\ submitted \in SUBSET Job /\ done \in SUBSET Job

(* A fiber's context is never entered by two threads: between taking a     *)
(* fiber (or resetting its own cb_fiber) and letting go of it a thread is  *)
(* the only one to hold it, although a wake-up can queue the fiber again   *)
(* while its body has not left the context yet.  This rests on run()'s     *)
(* skipping EXEC fibers and on YieldToHold() leaving the state EXEC until  *)
(* the switch is over.                                                     *)
SoleHolder ==
    \A t, u \in Worker : Held(t) # None /\ Held(t) = Held(u) => t = u

(* The assertions of swapIn() and reset() never fail at run()'s calls, and *)
(* those of YieldToReady() and YieldToHold() never fail in a body.         *)
AssertionsHold ==
    \A t \in Worker :
        /\ pc[t] = "dispatch" /\ ft[t].fiber # None
              => MaySwapIn(fiber[ft[t].fiber])
        /\ pc[t] = "dispatch" /\ ft[t].fiber = None /\ cb_fiber[t] # None
              => MayReset(fiber[cb_fiber[t]])
        /\ pc[t] \in {"exec", "hold"} => fiber[Cur(t)].m_state = "EXEC"

(* m_activeThreadCount, which stopping() relies on, counts the threads     *)
(* between taking a task and coming back from it.                          *)
ActiveCount ==
    m_activeThreadCount = Cardinality({t \in Worker : Counted(t)})

(* A callback that was submitted and has not ended is somewhere it can be  *)
(* run from: in the queue, in a thread's hands, or with a waker.           *)
NoLostTask ==
    \A j \in submitted \ done :
        \/ j \in CbsOf(m_fibers)
        \/ \E t \in Worker : pc[t] = "dispatch" /\ ft[t].cb = j
        \/ \E f \in Job :
            /\ fiber[f].m_cb = j
            /\ \/ f \in FibersOf(m_fibers) \cup armed
               \/ \E t \in Worker : Held(t) = f

(* What a thread executes is a submitted callback that has not ended: no   *)
(* callback runs twice, and cb_fiber's reuse never revives an old one.     *)
AtMostOnce ==
    \A t \in Worker :
        pc[t] \in {"exec", "hold"} => fiber[Cur(t)].m_cb \in submitted \ done

(* When stop() has returned, every thread has left run() and the queue     *)
(* holds no task that any thread could have run.  It may hold one that is  *)
(* pinned to a thread that has left: the count is given back before a      *)
(* READY fiber is put back, and stopping() holds in between.               *)
StoppedIsQuiet ==
    main = "stopped" =>
        /\ \A t \in Worker : pc[t] \in {"off", "exit"}
        /\ \A i \in DOMAIN m_fibers : m_fibers[i].thread # None

(* What each callback is doing, and where: the task that carries it may be *)
(* queued or in the hands of a thread that is about to dispatch it, and    *)
(* its fiber may be one that ran other callbacks before.                   *)
Runners(j)    == {t \in Worker : pc[t] = "exec" /\ fiber[Cur(t)].m_cb = j}
Awaited(j)    == \E f \in armed : fiber[f].m_cb = j
InHand        == {t \in Worker : pc[t] = "dispatch"}
Entries       == ToSet(m_fibers) \cup {ft[t] : t \in InHand}
Carries(x, j) == x.cb = j \/ (x.fiber # None /\ fiber[x.fiber].m_cb = j)
PinsOf(j)     == {x.thread : x \in {y \in Entries : Carries(y, j)}} \ {None}

Status(j) ==
    IF j \notin submitted THEN "new"
    ELSE IF j \in done THEN "done"
    ELSE IF Runners(j) # {} THEN "running"
    ELSE IF Awaited(j) THEN "waiting"
    ELSE "ready"

Place(j) ==
    LET s == Status(j)
    IN  IF s = "running" THEN Runners(j)
        ELSE IF s = "ready" THEN PinsOf(j)
        ELSE {}

AbstractExecutor == INSTANCE Executor WITH
    Thread <- Worker,
    status <- [j \in Job |-> Status(j)],
    place <- [j \in Job |-> Place(j)],
    stopped <- main = "stopped"

(* run(), with its queue, its fibers used again and again, and wake-ups    *)
(* that come before the sleeper has left, implements the executor: a task  *)
(* runs on a thread that its pin allows and on one at a time, a wake-up    *)
(* makes it ready once, and stop() returns when nothing is left that any   *)
(* thread could take.                                                      *)
ExecutorSpec == AbstractExecutor!Spec

(* A task that nobody will take: it is pinned to a thread that is not one  *)
(* of the scheduler's or has left run(), or to the creating thread when    *)
(* stop() has gone on to join the others without entering run().           *)
Gone(t) ==
    \/ t \notin m_threads \cup {m_rootThread}
    \/ pc[t] = "exit"
    \/ pc[t] = "off" /\ main \in {"join", "stopped"}

Stranded(j) == \E t \in PinsOf(j) : Gone(t)

(* A submitted callback ends once there are threads to run it (or stop()   *)
(* lends the creating thread), pinned or not.  A task for the creating     *)
(* thread waits for stop(), and stop() gives up on a callback only if it   *)
(* waits for an outside waker or is stranded.                              *)
EveryTaskRuns ==
    \A j \in Job :
        /\ j \in submitted
        /\ main = "stop1" \/ (main = "running" /\ m_threads # {})
        ~> \/ j \in done
           \/ main = "running" /\ PinsOf(j) = {Caller}
           \/ main = "stopped" /\ Awaited(j)
           \/ Stranded(j)

(* stop() returns, unless it waits for a task that nobody will take.       *)
StopReturns == main = "stop1" ~> main = "stopped" \/ \E j \in Job : Stranded(j)
=============================================================================
