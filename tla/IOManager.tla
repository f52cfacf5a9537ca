------------------------------ MODULE IOManager ------------------------------
(***************************************************************************)
(* class IOManager (iomanager.h, iomanager.cc): a Scheduler whose threads, *)
(* instead of polling, sleep in epoll_wait() inside idle().  This module   *)
(* composes the scheduler's run() with idle(), tickle() and                *)
(* stopping(timeout); the parts have modules of their own, and what those  *)
(* establish is used here:                                                 *)
(*   - Scheduler: queue order, pins, reuse of fibers.  Here the queue is a *)
(*     set and every task a fiber; the queue's order is left to fairness.  *)
(*   - TimerManager: a timer that is due is collected once.  Here a timer  *)
(*     is the job that is its callback, and time is the set of due timers. *)
(*   - IOEvents: each waiter is resumed once.  Here an event is the job    *)
(*     that waits for it: a fiber that suspends itself, or a callback.     *)
(*                                                                         *)
(* pc[t] is where thread t is:                                             *)
(*   take, dispatch, exec, hold, back, after, exit   as in Scheduler       *)
(*   enter    found no task, about to count itself idle                    *)
(*   ask, pending, empty   the three reads of stopping(timeout)            *)
(*   leave    stopping() was true, idle() breaks out of its loop           *)
(*   sleep    in epoll_wait()                                              *)
(*   collect, deliver, events   what idle() does with what it woke for     *)
(*                                                                         *)
(* Threads are created by the constructor's start(); the creating thread   *)
(* is a client, not a member (use_caller is false).                        *)
(***************************************************************************)
EXTENDS Naturals, FiniteSets

CONSTANTS
    Job,        \* the callbacks, each submitted once
    Thread,     \* the pool threads
    Main,       \* the creating thread
    Timed,      \* those of them that are handed to addTimer()
    Pipe,       \* the pipe's read end, as epoll reports it
    None        \* no task

ASSUME IOManagerAssumption ==
    /\ IsFiniteSet(Thread) /\ Thread # {} /\ Main \notin Thread
    /\ IsFiniteSet(Job) /\ None \notin Job /\ Pipe \notin Job /\ Timed \subseteq Job

VARIABLES
    m_fibers,               \* the task queue
    m_state,                \* Fiber::m_state of each job, "NONE" before
    m_timers,               \* the callbacks of the timers in the set
    due,                    \* those of them whose time has come
    m_events,               \* the jobs registered in a FdContext
    ready,                  \* those of them epoll has an edge for
    m_pendingEventCount,
    m_activeThreadCount,
    m_idleThreadCount,
    m_stopping,             \* m_autoStop and m_stopping (set in this order)
    edge,                   \* epoll has an edge for the pipe's read end
    main, tickles,          \* the creating thread, and its tickle()s to come
    pc, job,                \* of run(): where it is, and ft
    idleTerm,               \* idle_fiber's state is TERM
    cbs, evs,               \* of idle(): callbacks collected, reports to handle
    owes,                   \* is about to call tickle(), last in schedule()
    uncounted               \* has triggered an event, and is about to count it

queue   == <<m_fibers, m_state>>
waits   == <<m_timers, due, m_events, ready>>
counts  == <<m_pendingEventCount, m_activeThreadCount, m_idleThreadCount>>
stop    == <<m_stopping, main, tickles>>
locals  == <<job, idleTerm, cbs, evs>>
vars    == <<queue, waits, counts, stop, locals, pc, edge, owes, uncounted>>

-----------------------------------------------------------------------------
At(t, label)   == pc[t] = label /\ ~owes[t] /\ ~uncounted[t]
Goto(t, label) == pc' = [pc EXCEPT ![t] = label]

(* schedule(): need_tickle says that the queue was empty; the call ends    *)
(* with tickle(), outside the lock.                                        *)
schedule(t, S) ==
    /\ m_fibers' = m_fibers \cup S
    /\ owes' = [owes EXCEPT ![t] = (m_fibers = {})]

(* Mutant of Runnable: run() does not look at the state of the fiber.      *)
RunnableAlways(j) == TRUE

(* A fiber is EXEC from swapIn() until run() has marked it again.          *)
Runnable(j) == m_state[j] # "EXEC"

(* From ++m_activeThreadCount to --, and from ++m_idleThreadCount to --.   *)
Active(t) == pc[t] \in {"dispatch", "exec", "hold", "back"}
Idling(t) == pc[t] \in {"ask", "pending", "empty", "leave", "sleep", "collect",
                        "deliver", "events"}

Init ==
    /\ m_fibers = {} /\ m_state = [j \in Job |-> "NONE"]
    /\ m_timers = {} /\ due = {} /\ m_events = {} /\ ready = {}
    /\ m_pendingEventCount = 0 /\ m_activeThreadCount = 0 /\ m_idleThreadCount = 0
    /\ m_stopping = FALSE /\ main = "running" /\ tickles = 0
    /\ edge = FALSE
    /\ pc = [t \in Thread |-> "take"]
    /\ job = [t \in Thread |-> None]
    /\ idleTerm = [t \in Thread |-> FALSE]
    /\ cbs = [t \in Thread |-> {}] /\ evs = [t \in Thread |-> {}]
    /\ owes = [t \in Thread \cup {Main} |-> FALSE]
    /\ uncounted = [t \in Thread |-> FALSE]

-----------------------------------------------------------------------------
(* tickle(): a byte into the pipe, which is an edge, if a thread is idle.  *)
Tickle(t) ==
    /\ owes[t]
    /\ owes' = [owes EXCEPT ![t] = FALSE]
    /\ edge' = (edge \/ m_idleThreadCount > 0)
    /\ UNCHANGED <<queue, waits, counts, stop, locals, pc, uncounted>>

(* The scan of run(): take a task; tickle if more may follow it.           *)
Take(t, j) ==
    /\ At(t, "take")
    /\ j \in m_fibers /\ Runnable(j)
    /\ m_fibers' = m_fibers \ {j}
    /\ m_activeThreadCount' = m_activeThreadCount + 1
    /\ job' = [job EXCEPT ![t] = j]
    /\ \E more \in BOOLEAN :
        /\ more => m_fibers' # {}
        /\ owes' = [owes EXCEPT ![t] = more]
    /\ Goto(t, "dispatch")
    /\ UNCHANGED <<m_state, waits, m_pendingEventCount, m_idleThreadCount, stop,
                   idleTerm, cbs, evs, edge, uncounted>>

(* Nothing to take: leave run() if idle() has ended, else idle.            *)
TakeNothing(t) ==
    /\ At(t, "take")
    /\ \A j \in m_fibers : ~Runnable(j)
    /\ Goto(t, IF idleTerm[t] THEN "exit" ELSE "enter")
    /\ UNCHANGED <<queue, waits, counts, stop, locals, edge, owes, uncounted>>

(* No task's fiber has ended (OnePlace; Scheduler has the test for it).    *)
SwapIn(t) ==
    /\ At(t, "dispatch")
    /\ m_state' = [m_state EXCEPT ![job[t]] = "EXEC"]
    /\ Goto(t, "exec")
    /\ UNCHANGED <<m_fibers, waits, counts, stop, locals, edge, owes, uncounted>>

(* The switch has returned: first the count, ...                           *)
Return(t) ==
    /\ At(t, "back")
    /\ m_activeThreadCount' = m_activeThreadCount - 1
    /\ Goto(t, "after")
    /\ UNCHANGED <<queue, waits, m_pendingEventCount, m_idleThreadCount, stop,
                   locals, edge, owes, uncounted>>

(* Mutant of After: a fiber that yielded is left behind.                   *)
AfterLoses(t) ==
    /\ At(t, "after")
    /\ m_state' = [m_state EXCEPT ![job[t]] = IF @ = "EXEC" THEN "HOLD" ELSE @]
    /\ job' = [job EXCEPT ![t] = None]
    /\ Goto(t, "take")
    /\ UNCHANGED <<m_fibers, waits, counts, stop, idleTerm, cbs, evs, edge, owes,
                   uncounted>>

(* ... then the state of the fiber: READY goes back into the queue, EXEC   *)
(* becomes HOLD, and a fiber that has ended is let go of.                  *)
After(t) ==
    /\ At(t, "after")
    /\ IF m_state[job[t]] = "READY" THEN schedule(t, {job[t]})
                                    ELSE UNCHANGED <<m_fibers, owes>>
    /\ m_state' = [m_state EXCEPT ![job[t]] = IF @ = "EXEC" THEN "HOLD" ELSE @]
    /\ job' = [job EXCEPT ![t] = None]
    /\ Goto(t, "take")
    /\ UNCHANGED <<waits, counts, stop, idleTerm, cbs, evs, edge, uncounted>>

-----------------------------------------------------------------------------
(* What a running job may do.                                              *)
Running(t) == At(t, "exec")

Finish(t) ==
    /\ Running(t)
    /\ m_state' = [m_state EXCEPT ![job[t]] = "TERM"]
    /\ Goto(t, "back")
    /\ UNCHANGED <<m_fibers, waits, counts, stop, locals, edge, owes, uncounted>>

YieldToReady(t) ==
    /\ Running(t)
    /\ m_state' = [m_state EXCEPT ![job[t]] = "READY"]
    /\ Goto(t, "back")
    /\ UNCHANGED <<m_fibers, waits, counts, stop, locals, edge, owes, uncounted>>

(* Only jobs that wait for an event suspend themselves (see AddEvent).     *)
YieldToHold(t) ==
    /\ At(t, "hold")
    /\ Goto(t, "back")
    /\ UNCHANGED <<queue, waits, counts, stop, locals, edge, owes, uncounted>>

(* c is a pool thread that runs a job, or the creating thread.             *)
Client(c) == IF c = Main THEN main = "running" /\ ~owes[Main] ELSE Running(c)

Submit(c, j) ==
    /\ Client(c) /\ j \notin Timed
    /\ m_state[j] = "NONE"
    /\ m_state' = [m_state EXCEPT ![j] = "INIT"]
    /\ schedule(c, {j})
    /\ UNCHANGED <<waits, counts, stop, locals, pc, edge, uncounted>>

(* onTimerInsertedAtFront(), a tickle: if the timer is the first one and   *)
(* m_tickled does not say that a tickle is on its way.                     *)
AddTimer(c, j) ==
    /\ Client(c) /\ j \in Timed
    /\ m_state[j] = "NONE"
    /\ m_state' = [m_state EXCEPT ![j] = "INIT"]
    /\ m_timers' = m_timers \cup {j}
    /\ \E front \in BOOLEAN : owes' = [owes EXCEPT ![c] = front]
    /\ UNCHANGED <<m_fibers, due, m_events, ready, counts, stop, locals, pc,
                   edge, uncounted>>

(* A fiber registers itself and then suspends, or registers a callback.    *)
AddEvent(t, j) ==
    /\ Running(t)
    /\ j \notin Timed /\ (j = job[t] \/ m_state[j] = "NONE")
    /\ m_events' = m_events \cup {j}
    /\ m_pendingEventCount' = m_pendingEventCount + 1
    /\ IF j = job[t] THEN Goto(t, "hold") /\ UNCHANGED m_state
                     ELSE m_state' = [m_state EXCEPT ![j] = "INIT"] /\ UNCHANGED pc
    /\ UNCHANGED <<m_fibers, m_timers, due, ready, m_activeThreadCount,
                   m_idleThreadCount, stop, locals, edge, owes, uncounted>>

(* Mutants of triggerEvent: no test that the event is still registered; the*)
(* event is not counted down.                                              *)
triggerEventStale(t, j) ==
    /\ m_events' = m_events \ {j}
    /\ ready' = ready \ {j}
    /\ schedule(t, {j})
    /\ uncounted' = [uncounted EXCEPT ![t] = TRUE]

triggerEventUncounted(t, j) ==
    /\ j \in m_events
    /\ m_events' = m_events \ {j}
    /\ ready' = ready \ {j}
    /\ schedule(t, {j})
    /\ UNCHANGED uncounted

(* triggerEvent(): the event leaves the context and epoll, then schedule().*)
triggerEvent(t, j) ==
    /\ j \in m_events
    /\ m_events' = m_events \ {j}
    /\ ready' = ready \ {j}
    /\ schedule(t, {j})
    /\ uncounted' = [uncounted EXCEPT ![t] = TRUE]

CancelEvent(t, j) ==
    /\ Running(t)
    /\ triggerEvent(t, j)
    /\ UNCHANGED <<m_state, m_timers, due, counts, stop, locals, pc, edge>>

Count(t) ==
    /\ uncounted[t] /\ ~owes[t]
    /\ m_pendingEventCount' = m_pendingEventCount - 1
    /\ uncounted' = [uncounted EXCEPT ![t] = FALSE]
    /\ UNCHANGED <<queue, waits, m_activeThreadCount, m_idleThreadCount, stop,
                   locals, pc, edge, owes>>

-----------------------------------------------------------------------------
(* idle(), on the thread's idle fiber; run() has counted it just before.   *)
EnterIdle(t) ==
    /\ At(t, "enter")
    /\ m_idleThreadCount' = m_idleThreadCount + 1
    /\ Goto(t, "ask")
    /\ UNCHANGED <<queue, waits, m_pendingEventCount, m_activeThreadCount, stop,
                   locals, edge, owes, uncounted>>

(* stopping(timeout): three reads under three locks or none.               *)
NoTimers  == m_timers = {}
NoEvents  == m_pendingEventCount = 0
NothingToRun == m_stopping /\ m_fibers = {} /\ m_activeThreadCount = 0

Ask(t, from, holds, to) ==
    /\ At(t, from)
    /\ Goto(t, IF holds THEN to ELSE "sleep")
    /\ UNCHANGED <<queue, waits, counts, stop, locals, edge, owes, uncounted>>

stopping(t) ==
    \/ Ask(t, "ask", NoTimers, "pending")
    \/ Ask(t, "pending", NoEvents, "empty")
    \/ Ask(t, "empty", NothingToRun, "leave")

(* idle() returns: its fiber is TERM, and run() scans the queue once more. *)
LeaveIdle(t) ==
    /\ At(t, "leave")
    /\ m_idleThreadCount' = m_idleThreadCount - 1
    /\ idleTerm' = [idleTerm EXCEPT ![t] = TRUE]
    /\ Goto(t, "take")
    /\ UNCHANGED <<queue, waits, m_pendingEventCount, m_activeThreadCount, stop,
                   job, cbs, evs, edge, owes, uncounted>>

(* epoll_wait() returns: with the edges there are, each reported once; ... *)
WakeUp(t) ==
    /\ At(t, "sleep")
    /\ edge \/ ready # {}
    /\ edge' = FALSE
    /\ evs' = [evs EXCEPT ![t] = ready \cup (IF edge THEN {Pipe} ELSE {})]
    /\ ready' = {}
    /\ Goto(t, "collect")
    /\ UNCHANGED <<queue, m_timers, due, m_events, counts, stop, job, idleTerm,
                   cbs, owes, uncounted>>

(* Mutant of Timeout: without a timer, no bound until stop() is called.    *)
TimeoutUnbounded(t) ==
    /\ At(t, "sleep")
    /\ ~edge /\ ready = {} /\ (m_timers # {} \/ m_stopping)
    /\ Goto(t, "collect")
    /\ UNCHANGED <<queue, waits, counts, stop, locals, edge, owes, uncounted>>

(* ... or with none, after the time to the next timer or MAX_TIMEOUT.      *)
Timeout(t) ==
    /\ At(t, "sleep")
    /\ ~edge /\ ready = {}
    /\ Goto(t, "collect")
    /\ UNCHANGED <<queue, waits, counts, stop, locals, edge, owes, uncounted>>

(* listExpiredCb(), and then schedule(cbs) of what it returned.            *)
Collect(t) ==
    /\ At(t, "collect")
    /\ cbs' = [cbs EXCEPT ![t] = due]
    /\ m_timers' = m_timers \ due
    /\ due' = {}
    /\ Goto(t, IF due = {} THEN "events" ELSE "deliver")
    /\ UNCHANGED <<queue, m_events, ready, counts, stop, job, idleTerm, evs, edge,
                   owes, uncounted>>

Deliver(t) ==
    /\ At(t, "deliver")
    /\ schedule(t, cbs[t])
    /\ cbs' = [cbs EXCEPT ![t] = {}]
    /\ Goto(t, "events")
    /\ UNCHANGED <<m_state, waits, counts, stop, job, idleTerm, evs, edge, uncounted>>

(* One report: dispatched, unless its event is gone by now.                *)
Report(t, j) ==
    /\ At(t, "events")
    /\ j \in evs[t]
    /\ evs' = [evs EXCEPT ![t] = @ \ {j}]
    /\ \/ triggerEvent(t, j)
       \/ j \notin m_events /\ UNCHANGED <<m_fibers, owes, m_events, ready, uncounted>>
    /\ UNCHANGED <<m_state, m_timers, due, counts, stop, job, idleTerm, cbs, pc, edge>>

(* The pipe's report: it is read until it is empty, bytes included that    *)
(* were written since epoll_wait() and would have woken another thread.    *)
Drain(t) ==
    /\ At(t, "events")
    /\ Pipe \in evs[t]
    /\ evs' = [evs EXCEPT ![t] = @ \ {Pipe}]
    /\ edge' = FALSE
    /\ UNCHANGED <<queue, waits, counts, stop, job, idleTerm, cbs, pc, owes, uncounted>>

(* Mutants of YieldIdle: back to run() after the first report; the idle    *)
(* count is stepped on the way out only.                                   *)
YieldIdleEarly(t) ==
    /\ At(t, "events")
    /\ m_idleThreadCount' = m_idleThreadCount - 1
    /\ Goto(t, "take")
    /\ UNCHANGED <<queue, waits, m_pendingEventCount, m_activeThreadCount, stop,
                   locals, edge, owes, uncounted>>

YieldIdleCounted(t) ==
    /\ At(t, "events")
    /\ evs[t] = {}
    /\ Goto(t, "take")
    /\ UNCHANGED <<queue, waits, counts, stop, locals, edge, owes, uncounted>>

(* swapOut() to run(), which scans the queue again.                        *)
YieldIdle(t) ==
    /\ At(t, "events")
    /\ evs[t] = {}
    /\ m_idleThreadCount' = m_idleThreadCount - 1
    /\ Goto(t, "take")
    /\ UNCHANGED <<queue, waits, m_pendingEventCount, m_activeThreadCount, stop,
                   locals, edge, owes, uncounted>>

-----------------------------------------------------------------------------
(* A timer's time has come; epoll has an edge for a registered event.      *)
Due(j) ==
    /\ j \in m_timers \ due
    /\ due' = due \cup {j}
    /\ UNCHANGED <<queue, m_timers, m_events, ready, counts, stop, locals, pc, edge,
                   owes, uncounted>>

Ready(j) ==
    /\ j \in m_events \ ready
    /\ ready' = ready \cup {j}
    /\ UNCHANGED <<queue, m_timers, due, m_events, counts, stop, locals, pc, edge,
                   owes, uncounted>>

(* stop() by the creating thread: the flags, a tickle per thread, join.    *)
Stop ==
    /\ main = "running" /\ ~owes[Main]
    /\ m_stopping' = TRUE
    /\ main' = "tickling" /\ tickles' = Cardinality(Thread)
    /\ UNCHANGED <<queue, waits, counts, locals, pc, edge, owes, uncounted>>

StopTickle ==
    /\ main = "tickling" /\ tickles > 0
    /\ tickles' = tickles - 1
    /\ edge' = (edge \/ m_idleThreadCount > 0)
    /\ UNCHANGED <<queue, waits, counts, m_stopping, main, locals, pc, owes, uncounted>>

Join ==
    /\ main = "tickling" /\ tickles = 0
    /\ \A t \in Thread : pc[t] = "exit"
    /\ main' = "stopped"
    /\ UNCHANGED <<queue, waits, counts, m_stopping, tickles, locals, pc, edge, owes,
                   uncounted>>

Run(t)  == \/ \E j \in Job : Take(t, j)
           \/ TakeNothing(t) \/ SwapIn(t) \/ Return(t) \/ After(t)
(* Running and Idling are what the steps under them have in common.        *)
Body(t) == \/ YieldToHold(t)
           \/ /\ Running(t)
              /\ \/ Finish(t) \/ YieldToReady(t)
                 \/ \E j \in Job : AddEvent(t, j) \/ CancelEvent(t, j)
                 \/ \E j \in Job : Submit(t, j) \/ AddTimer(t, j)
idle(t) == \/ EnterIdle(t)
           \/ /\ Idling(t)
              /\ \/ stopping(t) \/ LeaveIdle(t)
                 \/ WakeUp(t) \/ Timeout(t) \/ Collect(t) \/ Deliver(t)
                 \/ (\E j \in Job : Report(t, j)) \/ Drain(t) \/ YieldIdle(t)

(* A call of schedule() or triggerEvent() is finished first.               *)
Step(t) == \/ Tickle(t) \/ Count(t)
           \/ /\ ~owes[t] /\ ~uncounted[t]
              /\ Run(t) \/ Body(t) \/ idle(t)
Main_   == Tickle(Main) \/ Stop \/ StopTickle \/ Join
MainSubmits == \E j \in Job : Submit(Main, j) \/ AddTimer(Main, j)

(* stop() has returned, or the threads and the creating one rest.          *)
Done == main = "stopped" /\ UNCHANGED vars

Next ==
    \/ \E t \in Thread : Step(t)
    \/ Main_ \/ MainSubmits
    \/ \E j \in Job : Due(j) \/ Ready(j)
    \/ Done

Spec == Init /\ [][Next]_vars

(* The kernel runs every thread, and epoll_wait() has a bound of 3 s; a    *)
(* job does not compute for ever between two calls; the queue is a FIFO    *)
(* list, scanned from its front, so a task in it is not passed over for    *)
(* ever; stop(), once called, goes on.                                     *)
Fairness ==
    /\ \A t \in Thread : WF_vars(Step(t))
    /\ \A j \in Job : SF_vars(\E t \in Thread : Take(t, j))
    /\ WF_vars(Tickle(Main) \/ StopTickle \/ Join)
    /\ \A j \in Timed : WF_vars(Due(j))

FairSpec == Spec /\ Fairness

-----------------------------------------------------------------------------
Places == {"take", "dispatch", "exec", "hold", "back", "after", "exit", "enter",
           "ask", "pending", "empty", "leave", "sleep", "collect", "deliver", "events"}

(* Every variable has its type; hands are empty where they must be.        *)
TypeOK ==
    /\ m_fibers \subseteq Job
    /\ m_state \in [Job -> {"NONE", "INIT", "EXEC", "HOLD", "READY", "TERM"}]
    /\ m_timers \subseteq Job /\ due \subseteq m_timers
    /\ m_events \subseteq Job /\ ready \subseteq m_events
    /\ m_pendingEventCount \in Nat
    /\ m_activeThreadCount \in Nat /\ m_idleThreadCount \in Nat
    /\ m_stopping \in BOOLEAN /\ edge \in BOOLEAN
    /\ main \in {"running", "tickling", "stopped"} /\ tickles \in Nat
    /\ pc \in [Thread -> Places]
    /\ job \in [Thread -> Job \cup {None}]
    /\ idleTerm \in [Thread -> BOOLEAN]
    /\ cbs \in [Thread -> SUBSET Job]
    /\ evs \in [Thread -> SUBSET (Job \cup {Pipe})]
    /\ owes \in [Thread \cup {Main} -> BOOLEAN]
    /\ uncounted \in [Thread -> BOOLEAN]

(* The counters agree with what they count, although each is stepped apart *)
(* from it: stopping() and tickle() read nothing else.  An event counts    *)
(* until its trigger has tickled and stepped the counter.                  *)
CountsExact ==
    /\ m_activeThreadCount = Cardinality({t \in Thread : Active(t)})
    /\ m_idleThreadCount = Cardinality({t \in Thread : Idling(t)})
    /\ m_pendingEventCount =
           Cardinality(m_events) + Cardinality({t \in Thread : uncounted[t]})

(* A job is in one place at a time: queued, with a timer, with an event,   *)
(* in one thread's cbs, or in one thread's hands.  The exception is a job  *)
(* that suspends itself: it is still run when it waits for its event, and  *)
(* may be queued again by then; its state is EXEC, and no thread takes it. *)
Waits(j) == j \in m_fibers \cup m_timers \cup m_events \/ \E t \in Thread : j \in cbs[t]

OnePlace ==
    /\ m_fibers \cap (m_timers \cup m_events) = {}
    /\ m_timers \cap m_events = {}
    /\ \A t \in Thread : cbs[t] \cap (m_fibers \cup m_timers \cup m_events) = {}
    /\ \A t, u \in Thread : t # u =>
        /\ cbs[t] \cap cbs[u] = {}
        /\ job[t] = job[u] => job[t] = None
    /\ \A t \in Thread : job[t] # None /\ Waits(job[t]) =>
        pc[t] \in {"hold", "back", "after"} /\ m_state[job[t]] = "EXEC"

(* What each job is doing, as Pool sees it.                                *)
Status(j) ==
    CASE j \in m_fibers \/ (\E t \in Thread : j \in cbs[t]) -> "ready"
      [] j \in m_timers \cup m_events -> "waiting"
      [] m_state[j] = "NONE" -> "new"
      [] m_state[j] = "TERM" -> "done"
      [] OTHER -> "running"

AbstractPool == INSTANCE Pool WITH
    status <- [j \in Job |-> Status(j)],
    open <- {t \in Thread : pc[t] # "exit"}

(* The composition implements the pool: a job that is ready stays so until *)
(* one thread runs it, a waiting job is fired and not lost, and the last   *)
(* thread leaves when nothing is ready or runs, although stopping() makes  *)
(* three reads and run() scans once more after it.                         *)
PoolSpec == AbstractPool!Spec

(* A job that is ready runs, also when its tickle met no idle thread or    *)
(* every byte of the pipe went to the other threads: the 3 s of            *)
(* MAX_TIMEOUT see to it.                                                  *)
ReadyRuns == \A j \in Job : []<>(Status(j) # "ready")

(* A timer that is due is collected and an event that is ready served,     *)
(* unless the pool stops: but only if jobs do not yield READY for ever,    *)
(* for idle() is entered when the scan finds no task.                      *)
WaitEnds ==
    <>[](\A j \in Job : m_state[j] # "READY") =>
        /\ \A j \in Timed : []<>(j \notin due \/ m_stopping)
        /\ \A j \in Job \ Timed : j \in ready ~> (Status(j) # "waiting" \/ m_stopping)

(* stop() returns, if the jobs end.                                        *)
StopReturns ==
    <>[](m_stopping /\ \A j \in Job : Status(j) \in {"new", "done"}) => []<>(main = "stopped")
=============================================================================
