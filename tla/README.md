# Verification of ShioSylar

TLA+ models, TLC runs and TLAPS proofs for ShioSylar, a C++ coroutine library: fibers, an M:N
scheduler, timers, an epoll-driven I/O manager, hooked system calls and a logger that is configured
while it runs (`src/sylar`). Every
definition is written from the source; `PROJECT.json` maps each one to the lines it stands for,
lists the runs, the mutants of the code that each property must catch, the findings, the hazards
and the theorems.

    tlc -workers 2 -config scheduler.cfg MCScheduler.tla     # any run: cfg and module of PROJECT.json
    tlapm SchedulerProofs.tla                                # any module named ...Proofs

## 1. Inventory

| component | state | operations | correct when |
|---|---|---|---|
| Fiber (`fiber.cc`) | state, callback, saved context, stack; per thread: current and main fiber | constructor, reset, swapIn/swapOut, call/back, YieldToReady/Hold, MainFunc | a context is entered by one thread at a time and only when it was left; reset never throws away a suspended body |
| Scheduler (`scheduler.cc`) | task list, thread counts, stop flags, root fiber; per thread in `run()`: `ft`, `cb_fiber`, `idle_fiber` | schedule (one, batch), run, idle, start, stop, switchTo, stopping | every task runs, once, on a thread its pin allows; the active count is exact; stop() ends with nothing left to do |
| Timer, TimerManager (`timer.cc`) | ordered set of timers, `m_tickled`, `m_previouseTime` | addTimer, cancel, refresh, reset, getNextTimer, listExpiredCb, rollover detection | a timer fires once, not early, and some sleeping loop wakes for it; a cancelled timer does not fire |
| IOManager events (`iomanager.cc`) | `m_fdContexts`, `m_pendingEventCount`, epoll | addEvent, delEvent, cancelEvent, cancelAll, contextResize, triggerEvent, dispatch in idle() | each waiter is resumed at most once, no edge is lost, epoll and contexts agree, the pending count is exact |
| IOManager idle loop | pipe, `m_idleThreadCount`, stopping(timeout) | idle, tickle, stopping | a sleeping loop wakes for new work; threads leave only when no task, timer or event is left |
| Hooks (`hook.cc`) | `timer_info` per call, its timer and event | do_io, connect, accept, sleep, close, fcntl, ioctl, setsockopt | a call returns data, its error or a timeout, once; close wakes whoever waits |
| FdManager (`fd_manager.cc`) | context per descriptor | get, del, timeouts, nonblocking flags | one context per open descriptor |
| Config (`config.h`, `config.cc`) | value, listeners and a reader-writer lock per variable | setValue, fromString, LoadFromYaml, listeners | between two settings the environment is as the value says |
| Logger (`logger.cc`) | level, formatter and appenders of each logger, its spinlock | log, setters, LogIniter (the listener of `logs`) | a line finds its appenders whole; reconfiguring and logging never block each other for ever |
| Thread, Mutex, Semaphore | pthread wrappers | start handshake, join, scoped locks | the constructor returns after the thread runs |
| util, macros, singleton | - | - | not modelled |

How they interact: clients, timers' callbacks and triggered events all call `schedule()`; threads in
`run()` take tasks under `m_mutex` and switch into fibers; a thread without a task resumes its idle
fiber, which in an IOManager asks the timers how long it may sleep, sleeps in `epoll_wait`, schedules
what is due and what is ready, and yields. A hooked call registers its fiber with the I/O manager
(and a timer) and yields.

What is hard here: fiber states and stop flags are read and written without the lock that protects
the queue; a wake-up may come before the sleeper has left its context; clock readings, `epoll_wait`
reports and pointers to contexts are used after the lock or the moment they were read under;
descriptor numbers are reused; the stop condition is put together from several places.
`PROJECT.json` lists the hazards at their lines.

## 2. What is modelled

### Fiber, Scheduler, Executor
`Fiber.tla` holds the object (state and callback) and what each member function makes of it.
`Scheduler.tla` is `run()` as one control point per thread (`pc`), `start()`/`stop()` as one control
point of the creating thread (`main`), and clients. A region under `m_mutex` is one step; every access
outside the lock that another thread can observe is a step of its own: taking a task, dispatching it,
the body, the yield, the return with its decrement (`Return`), and only then the look at the state
(`Reschedule`, `Park`, `Retire`).
Bodies yield READY, hand their fiber to a waker and yield HOLD (the wake-up may come before the
yield), switch threads, submit callbacks, return or throw. Clients use the library the way the hooks
do: a callback is submitted once and a waiting fiber has one waker. The base class's `tickle()` only
logs. One `start()` and one `stop()`.

`Executor.tla` is what a scheduler promises: a callback is new, ready (with the thread it is pinned to,
if any), running on one thread, waiting or done, and each thread runs one at a time. A ready callback starts
only where its pin allows; a running one gives way, moves to another thread, waits until somebody
makes it ready again, or ends, once. `stop()` returns when nothing runs and nothing is ready but pinned
callbacks; it promises nothing to them or to one that waits. The mapping (`Scheduler!Status`, `Place`)
asks where a callback is: a task that is queued or in the hands of a thread about to dispatch it is
ready, a body between its entry and its yield runs on its thread (`Runners`), a fiber with a waker waits from
its yield on, and a callback that was submitted is ready before it has a fiber at all. So one that is
already woken while its fiber is still on its way out counts as ready, and the refinement shows that
nothing bad comes of it. `ExecutorSpec` is the property that Scheduler implements it.

### TimerManager
`TimerManager.tla`: the `std::set` is a set of pairs of a key and a timer, because the comparator
reads `m_next` of the timers themselves and `find()` works only while the two agree. Constructing a
timer (which reads the clock), inserting it under the lock and notifying after the lock are separate
steps; so are reading the clock in `listExpiredCb()` and collecting under the lock. `reset()` compares
`m_ms` before it takes the lock; as nothing keeps what it read, its locked step is allowed either way. The looper part
of `IOManager::idle()` sleeps until a deadline, wakes at any time, drains the pipe, collects and
delivers. The clock ticks and may be set back.

### IOEvents
`IOEvents.tla`: a call looks its `FdContext` up under `m_mutex` (`Start...`, `Grow`) and works on it
under the context's mutex later. Contexts are named by descriptor and generation: `contextResize()` is
`vector::resize` and may drop contexts that are in use. The kernel keeps, per descriptor, what epoll
watches, the pointer stored with it, the pending edge and what the descriptor is ready for.
`Report` captures reports in `epoll_wait`, `Dispatch...` handles each under the context's mutex,
any time later. `close()` is the hooked one. A failed ASSERT stops everything and `failed` names the
function. Clients keep `addEvent()`'s contract: nobody waits twice for one event of a descriptor.
InterestSync and NoLostEdge are claimed of a descriptor that was not closed under a waiter
(`Orphaned`) and whose first context `contextResize()` has not dropped (`Kept`): after either, the code
itself no longer keeps epoll and contexts together.

### Pool, IOManager
`IOManager.tla` composes the three: `run()`, `idle()`, `tickle()`, `stopping(timeout)` and `stop()` of
an IOManager's threads. What the other modules establish is used: the queue is a set of jobs, a timer is
the job that is its callback, an event is the job that waits for it (a fiber that suspends itself,
or a callback), time is the set of timers that are due. What is left is how the parts act together,
each access that another thread can see a step of its own:

- `schedule()` ends with `tickle()` outside the lock (`owes`), which writes to the pipe only if some
  thread is counted idle at that moment; the pipe is an edge that one thread takes for all, and reading
  it empty is a step of its own (`Drain`) that swallows what was written since it was reported;
- a timer that becomes the first one notifies or not: what `m_tickled` suppresses is TimerManager's part;
- a thread scans the queue, finds nothing, counts itself idle, makes the three reads of
  `stopping(timeout)` one after the other (`ask`, `pending`, `empty`), and sleeps or leaves;
- `idle()` collects expired callbacks, schedules them, and handles its reports one by one; an event is
  counted down after it was triggered (`uncounted`), a task after it was switched away from;
- a thread whose `idle()` has ended scans the queue once more and leaves.

`Pool.tla` is what this promises: a job is new, ready, running, waiting or done; one thread at a time
runs it; a wait ends by being fired; threads leave for good and the last one only when nothing is ready
or runs. `IOManager!Status` is the refinement mapping (a callback in a loop's hands is "ready") and
`PoolSpec` the property that the detailed specification implements it.

### FdManager, Hooks
`FdManager.tla` is the vector of descriptor contexts with its growth; `get()` lets the read lock go
before it takes the write lock, so looking and creating are two steps (`Look`, `Create`) in the calls
that use it. `Hooks.tla` is the hooked calls as fibers make them: try, arm the timer, add the event,
suspend, cancel the timer, look at `tinfo->cancelled`, try again. Timers and events are atomic here, as
their modules show them to be; but the callback of a timer is a task that runs any time after it was
collected, in three steps (`Lock`: the weak pointer and the flag's test, `Flag`, `cancelEvent`). The
`timer_info` lives as long as its call or a callback that has locked it (`KeptAlive`).
`close()` cancels, removes the context and closes in three steps (`CloseCancel`, `CloseDel`,
`CloseFd`), while the kernel gives descriptor numbers out again. A descriptor closed with a fiber
registered leaves an event in its FdContext that epoll does not know (`forgotten`): `epoll_ctl()` fails
for it from then on. A client makes no two unfinished calls for one event of a descriptor number and closes a
descriptor once; it begins no call on a number that it gets anew while a fiber woken by `close()` is still
in its call for the same event of the earlier descriptor (`addEvent()` would assert). What a system call returns is free; a timeout is there or not.

### Logger, LogConfig
`Logger.tla`: a logger's spinlock is a variable because `log()` holds it over its appenders, and while
it hands a line on to the root logger, which takes that lock too. A thread is within the list of
appenders (`next` is its iterator) or waits for a lock. The setters take the lock for one step, but for
`setLevel()`, which takes none, and `setFormatter(string)`, which writes `l_formatter` before it takes
it (`writeFormatter`); that write races with readers in C++ terms and is modelled as an atomic one.
`LogConfig.tla`: the variable `logs`. `setValue()` compares and calls the listener under the read
lock, drops it and takes the write lock to assign (`SetValue`, `Notified`, `Assign`); the
listener reconfigures logger after logger, call by call. Documents go through the conversion of
`LexicalCast` (`Convert`): appenders that lack something are left out, of two entries with one name
the first counts, an entry without a name fails the document. The program may reconfigure some loggers
itself (`Admin`). `mixed` is a history variable: the loggers that settings which overlapped, or the
program, have configured.

## 3. Runs

| run | bounds | shows |
|---|---|---|
| `scheduler` | 2 callbacks, up to 2 pool threads, with and without the creating thread, all pins | SoleHolder, AssertionsHold, ActiveCount, NoLostTask, AtMostOnce, StoppedIsQuiet, ExecutorSpec (refinement) |
| `scheduler_live` | 2 callbacks, 1 pool thread and/or the creating thread, each also as a pin | EveryTaskRuns, StopReturns |
| `timer` | 2 timers, 1 looper, clock 1..3, one "hour" = 1 | SetSync, WaitersCovered |
| `timer_race` | 1 timer, 2 loopers, clock 1..4 | OneOutcome, WaitersCovered, NeverEarly |
| `events` | 2 clients, 2 loopers, 1 descriptor beyond the initial container, 3 waiters | PendingCount, CtxClean, WaiterOnce, InterestSync, NoLostEdge |
| `iomanager` | 2 threads, 2 jobs of which one has a timer | CountsExact, OnePlace, PoolSpec (refinement), ReadyRuns, WaitEnds, StopReturns |
| `hooks` | 2 fibers, descriptors 2 and 3 with a container of 2, calls on one of them, 2 timers | Tracked, Fresh, TimeoutOwn, NothingLeft, WokenOnce |
| `config` | the root logger and one more, 2 setters, 2 threads that log, 4 documents, 1 appender added by the program | WriteSafe, Inherits, Settled, NobodyStuck |
| `events_trigger` | 1 client, 2 loopers, 1 descriptor | violated: TriggerRegistered |
| `events_shrink` | 2 clients, 2 descriptors, 2 generations | violated: GrowOnly |
| `hooks_timeout` | as `hooks` | violated: TimeoutGuarded |
| `config_appenders` | as `config`, one setter, one thread that logs | violated: AppendersApplied |

Every module also has one type invariant, `TypeOK`.

Why these bounds: two callbacks and three threads are the least at which a fiber can be queued, woken
and taken by another thread while its body leaves and a further thread watches `stopping()`; a third
callback adds no new pair of actors. In the timer runs an "hour" is one tick so that rollover and
small steps back both occur; `Stall` bounds how long a looper sits between reading the clock and
getting the lock (it must not exceed an hour, or a delayed thread looks like a clock set back). In the
event runs one descriptor is shared by everybody, since contexts of different descriptors touch only
through the container's size, which `events_shrink` looks at; three waiters allow a reader, a writer
and one more after the first was resumed. `MaxGen` bounds how often a context is dropped; in `events`
it is zero because one descriptor alone never shrinks the container.

In `iomanager` two threads are the least at which one idles, counts or leaves while the other works, and
two jobs the least at which one submits, waits or cancels while the other is in a loop's hands; a job may
wait, be fired and wait again any number of times. In `hooks` both descriptor numbers
are beyond the container, so that growth for one meets a creation for the other; calls are made on the first only,
because calls on different descriptors share nothing but timers. Two timers at a time let the callback of an
earlier call run late, into the next call. In `config` the documents differ in everything that the
conversion and the listener tell apart: formatters that parse or not, appenders that are whole or not, a
name twice or missing, the root logger named or not. Two threads that log and two that set are what
a circle of locks or two listeners at once take.

`CHECK_DEADLOCK FALSE` stands where the system really stops: after `stop()` of the base scheduler, and
after an abort. In `iomanager`, `hooks` and `config` deadlock is checked.

### Findings
1. `events_trigger`: `idle()` triggers every reported event if one of them is registered
   (iomanager.cc:441-466); a report that is stale in part fails the assertion at line 92.
2. `events_shrink`: two threads growing the container at once can shrink it (iomanager.cc:175-180).
3. `hooks_timeout`: `do_io()` adds its timer before its event (hook.cc:163, 176), and so does
   `connect_with_timeout()` (307, 317). A timer that expires in between finds no event to cancel, and the
   call waits without the timeout it was given.
4. `config_appenders`: `LogDefine::operator==` compares `appenders` with itself (logger.cc:543): a
   change of the appenders alone never reaches the logger.

Seen while modelling, without a statement in the repository that a run could refute: `stop()` may
return with a fiber queued that is pinned to a thread that has left (scheduler.cc:204 counts the task
down before it is put back), or wait for ever for such a task; in the same window `stop()` may find
nothing left to do and join the pool without lending the creating thread (scheduler.cc:120), which strands
a callback that switches to it a moment later; a clock set back is not noticed when the last `listExpiredCb()` found no
timers (timer.cc:157); an event added between `cancelAll()` and `close_f()` of the hooked `close()`
stays behind for the next user of the number (hook.cc:427, `forgotten` in Hooks); a timer added
between the three reads of `stopping(timeout)` and the departure of the last thread stays in the set;
and when two settings of the logs overlap, the loggers may end as neither of the two values says.

## 4. Fairness
`scheduler_live`: each step of `run()`, of a body and of `stop()` is weakly fair:
the operating system runs every thread that is not blocked, `m_mutex` is never held across a wait and
`run()` polls. A waker keeps its promise (weak fairness of `Wake`). A body that is resumed again and
again ends at last (strong fairness of `FinishJob`): this is the client's part, the library cannot
promise it. Nobody has to submit, start or stop anything. `EveryTaskRuns` therefore says: whatever was
submitted ends once there are threads to run it, wherever it is pinned. Both properties of the run except
the tasks that nobody will take (`Stranded`): pinned to a thread that has left `run()`, that is none of the
scheduler's, or to the creating thread when `stop()` went on without lending it; until `stop()` a task
for the creating thread waits.

`iomanager`: the steps of a thread are weakly fair together (`Step(t)`: the kernel runs every thread,
and `epoll_wait()` returns after at most 3 s, which is `Timeout`; which of its calls a body makes is left
open, but it does not compute for ever between two). Taking a given job is strongly fair: the queue is
a FIFO list scanned from its front, which the model has as a set, so a job is not passed over for ever by
threads that keep taking others. `stop()` goes on once called, and time passes (`Due`). Nothing makes an
event ready. Two properties have a condition, because the code promises no more: `WaitEnds` needs
that jobs do not yield READY for ever (`idle()` is entered only when the scan finds no task), and
`StopReturns` that the jobs end.

The other runs assume no fairness.

## 5. Proofs
TLAPS proves, for every number of threads, jobs, timers, loopers, clients, descriptors, waiters,
loggers and writers, from the named assumptions on the constants (`SchedulerAssumption`,
`NoneIsNoJob`, `TimerAssumption`, `IOEventsAssumption`, `IOManagerAssumption`, `HooksAssumption`,
`LoggerAssumption`, `LogConfigAssumption`):

| module | theorems |
|---|---|
| `SchedulerProofs` | TypeCorrect, NoContextShared (SoleHolder), NoAssertionFails (AssertionsHold), CountCorrect (ActiveCount) |
| `SchedulerTaskProofs` | NoTaskLost (NoLostTask), RunAtMostOnce (AtMostOnce), StopLeavesNothing (StoppedIsQuiet), ImplementsExecutor (ExecutorSpec) |
| `TimerProofs` | TypeCorrect, SetInSync (SetSync), OneShotOutcome (OneOutcome), NoLostWakeup (WaitersCovered), NothingEarly (NeverEarly) |
| `IOEventsProofs` | TypeCorrect, CountCorrect (PendingCount), ContextsClean (CtxClean), ResumedOnce (WaiterOnce) |
| `IOEventsSyncProofs` | InterestKept (InterestSync), EdgeKept (NoLostEdge) |
| `IOManagerProofs` | TypeCorrect, CountersExact (CountsExact), JobsInOnePlace (OnePlace), ImplementsPool (PoolSpec) |
| `HooksProofs` | TypeCorrect, ContextsTracked (Tracked), ContextsFresh (Fresh), TimeoutsOwned (TimeoutOwn), CleanReturn (NothingLeft), WokenByOne (WokenOnce) |
| `LogProofs` | TypeCorrect, LinesSafe (WriteSafe), NoCircle (NobodyStuck), FormattersInherited (Inherits), LoggersSettled (Settled) |

With these every invariant and both refinements that the passing runs check are theorems. Each component
proves `Spec => []Inv` for one inductive invariant `Inv` and takes the rest from it; `SchedulerTaskProofs`,
`IOEventsSyncProofs` and the last three theorems of `LogProofs` add a second invariant that is inductive
given the first. TLC checked each of them on small instances before it was proved.

*Scheduler.* SoleHolder is not inductive: it needs that a queued or armed fiber that some thread holds
is EXEC and on its way out (`ResumableOK`), that a thread's spare `cb_fiber` is known to nobody else
(`CbFiberOK`, `CbFiberUnique`), that no fiber is queued twice (`QueueOK`), and what each control point
implies for the thread's locals (`LocalOK`). The key step is `Take`: `run()` skips EXEC fibers, so
what it takes nobody holds.

*Tasks.* NoLostTask and AtMostOnce come from one invariant, `TaskInv`: a callback that was submitted and
has not ended is either still without a fiber (queued, or in some thread's `ft`) or has exactly one live
fiber (`CarriedOK`), and a live fiber is queued, with its waker or in a thread's hands (`PlacedOK`). It
is inductive only with what a body leaves behind when it yields (`LeavingOK`: a fiber on its way out
that is to be suspended can be resumed by somebody already) and what `reset()` finds (`SpareOK`: a spare
`cb_fiber` has lost its callback). StoppedIsQuiet is about who is in `run()`: `PresenceOK` follows start,
stop and each thread's departure; `AttendedOK` says that a task which any thread may take has a thread in
`run()`, or one that is still to enter it. The step that matters is a thread's leaving: its scan finds
no such task unless the task's fiber is still EXEC, and then the thread that is in it has not left.

*Executor.* The refinement uses both invariants and `CarrierInv`: the callback of a fiber that has ended is
done (`EndedOK`), and what a thread has in hand its pin allows it to run (`PinnedOK`); together they are
`Sound`. `Status` and `Place` look at all fibers and all tasks at once, so the proof first shows what
a step changes in each of the four places a callback can be in (`FiberView`, `PendingView`, `JobView`,
`EntryView`): a task that carries it, a fiber it is the body of, a thread that runs it. A step that leaves
these views alone is a stutter (`QuietRefined`), although it moves counts, states and locals; the steps
of the queue, of a body and of a waker have a lemma each. A task that is taken and one in hand are
the same entry to a client, which is why nothing shows until the body is entered. For `stop()`,
StoppedIsQuiet gives Executor's guard: whoever is still ready is queued under a pin.

*Timers.* SetSync is inductive with little help; it is what makes `cancel()`'s unchecked `erase` safe.
OneOutcome needs that collected one-shots have no callback (`FinishedOK`). WaitersCovered needs
`TickledOK`: while `m_tickled` suppresses notifications and all loops sleep, a tickle is on its way;
and that a refresh only moves a timer later while the clock is not set back (`StartOK`, `ClockOK`).
NeverEarly needs that a reading is at most `Stall` old.

*I/O events.* WaiterOnce is proved as `SlotOnce` (no two slots hold one waiter; the waiters in slots
are those that wait), with `AddersDistinct` for calls under way. PendingCount is a cardinality
argument over pairs of context and event: each operation adds or removes exactly the pairs it counts.
The proof covers containers that shrink and descriptors closed under their waiters.

*Interest and edges.* `SyncInv` tells two states of a descriptor's first context apart: `Followed`
(epoll watches exactly what is registered, and nobody registered was lost) and `Cut` (the descriptor was closed
under a waiter, epoll watches nothing and something stays registered, so that every later `epoll_ctl()`
takes the wrong operation and fails). Either may last for ever, and no step leads from `Cut` back while
something is left in it. `GenOK` keeps pointers to contexts from being newer than the table, so that with
one generation there is one context to point at. `CtlSync` is the step that all of `addEvent()`,
`delEvent()`, `cancelEvent()` and `idle()`'s dispatch share: re-arming with `EPOLL_CTL_MOD` raises the
edge again if the descriptor is ready, which is why a report dispatched meanwhile loses nothing.

*IOManager.* The counters are cardinalities of the sets of threads at certain places (`CountMove`: a
thread that moves changes them by what it leaves and enters) and of registered or uncounted events.
`HandsOK` says what a thread's place tells about the job in its hands: while it is dispatched or runs it
waits nowhere; once it has registered itself it may be queued, but it stays EXEC until the thread has
left it. `FreeOK` says the same of jobs nobody holds, which are never EXEC. For the refinement the cases
of `Status` are shown to exclude one another (`StatusNow`); then each action is one step of Pool or none.
The last thread to leave is the hard one (`LastLeaves`): the others hold nothing, so no job is EXEC,
so its scan that took nothing saw an empty queue - whatever the three reads of `stopping(timeout)`
saw before.

*Hooks.* `CallsOK` says what a call's place tells about its descriptor and event, and that no two calls
wait for the same one; with it, `Registered` (who is registered is suspended for exactly that) is
inductive. TimeoutOwn needs `TimersOK`: an armed timer is the last one its owner set, and a collected one
whose `timer_info` still lives belongs to the call its owner is in. For the descriptors, `DescriptorsOK`:
a number that is being opened or closed is in one caller's hands (`Handled`), it has no context while
it is given out, and the container never gets smaller than it was made. A lemma each covers the
caller that opens a descriptor (`Opens`) and the one that goes on with it or is done (`Handles`).

*Logger.* `LockOrder`: who holds a logger's lock, and what the holder's place is; the root logger has
no root, so the order of locks is of depth two and a waiting thread's holder goes on. WriteSafe follows
from it together with lists that are changed under the lock only, while the iterator moves under it
(`Undisturbed`), and appenders whose formatter is set before they are in a list. The theorems are of
LogConfig's specification, so they hold while the listener reconfigures.

*Configuration.* TypeOK needs that every document converts to definitions of the right type, whatever
its length. `WholeOnes`, the loop over a document's appenders, is a recursive function; in place of an
induction the proof takes the least place at which it would be wrong (`LeastNat`, from the well-founded
order of the naturals). Inherits is inductive with the types (`RestOK`): only `writeFormatter` breaks it,
and then its setter is in "format". Settled needs `StepInv`: a logger that only one setter at a time
configures is as the old value says until the setter comes to it (what the listener skips differs at
most in the appenders, `Unchanged`), `Halfway` while it is there (level, then formatter, then the first
`nth - 1` appenders), and as the new value says afterwards. `Alone`: as soon as a second setter starts,
every logger counts as mixed and nothing is claimed until the end.

Only model-checked: the liveness properties (EveryTaskRuns, ReadyRuns, WaitEnds and the two StopReturns),
because liveness under fairness is out of the prover's reach.

## 6. Plan

Done: Fiber, Scheduler with its refinement of Executor, TimerManager, IOEvents, IOManager with its refinement of Pool, FdManager,
Hooks, Logger, LogConfig. Next:

- `ThreadStart`: the semaphore handshake of `Thread`; a second `stop()` and a restart in Scheduler.

## 7. Not modelled
- Fiber: the saved machine contexts and stacks.
- Scheduler: a second `stop()` (which IOManager's destructor makes), a restart, the destructors.
- IOManager: a pool that includes the creating thread (`use_caller`); times in milliseconds, and so the
  narrowing of `next_timeout` to `int`.
- Hooks: the kernel's own O_NONBLOCK flag, values in milliseconds, threads without hooks, descriptors
  that are no sockets, `fcntl` and `getsockopt` commands that are passed on, SO_ERROR.
- Config: the registry (`Lookup`, `Visit`), whose variables are never removed, and conversions other
  than that of `logs`, which are the YAML library's work.
- Logger: formatting, output, reopening of files, the dump to YAML.
- Thread, Semaphore and the mutex wrappers: pthreads; a region under a lock is a step of the other modules.
- util, macros, singleton, noncopyable: no state that others share.

Counters are unbounded integers: their 64-bit ranges are out of reach, and `TypeOK` shows that they
never go below zero.
