------------------------------ MODULE IOEvents ------------------------------
(***************************************************************************)
(* The I/O events of class IOManager (iomanager.h, iomanager.cc): fibers   *)
(* and callbacks (Waiter) that wait for a descriptor to become readable or *)
(* writable, the edge-triggered epoll instance that watches descriptors,   *)
(* and the idle loops (Looper) that hand waiters to the scheduler.         *)
(*                                                                         *)
(* A call first looks the FdContext up under m_mutex and then works on it  *)
(* under the context's own mutex: two steps, between which anything may    *)
(* happen.  Each locked region is one step.  The idle loop captures events *)
(* in epoll_wait() and dispatches each of them later, under the mutex of   *)
(* the context the event points to.  contextResize() is std::vector's      *)
(* resize(): it also shrinks, and what it drops is created anew by the     *)
(* next growth, so a context is <<fd, generation>>; the dropped objects    *)
(* live on for those who hold a pointer.                                   *)
(*                                                                         *)
(* Environment: the kernel (epoll and readiness), and close()/open() of    *)
(* descriptors; close() is the hooked one (hook.cc): cancelAll() first.    *)
(* ASSERT aborts the process: `failed' names the function it stopped.      *)
(***************************************************************************)
EXTENDS Integers, FiniteSets

CONSTANTS
    Client,     \* threads that call the IOManager
    Looper,     \* threads in IOManager::idle()
    Fd,         \* descriptors
    Waiter,     \* fibers or callbacks, each waits once
    InitSize,   \* 32, the size the constructor gives m_fdContexts
    MaxGen,     \* bound: generations of a context
    None

ASSUME IOEventsAssumption ==
    /\ Fd \subseteq Nat \ {0}
    /\ InitSize \in Nat /\ MaxGen \in Nat
    /\ None \notin Waiter /\ None \notin Fd
    /\ IsFiniteSet(Fd)
    /\ \A fd \in Fd : fd >= InitSize => (fd * 3) \div 2 > fd

Event   == {"READ", "WRITE"}
Context == Fd \X (0 .. MaxGen)

VARIABLES
    size,               \* m_fdContexts.size()
    gen,                \* the generation of the context stored for a descriptor
    events,             \* FdContext::events
    slot,               \* FdContext::read and ::write, by event: who waits
    m_pendingEventCount,
    interest,           \* kernel: what epoll watches; {}: not in the instance
    data,               \* kernel: epoll_event.data.ptr
    edge,               \* kernel: an event is to be reported
    ready,              \* kernel: what the descriptor is ready for
    open,               \* kernel: the open descriptors
    call,               \* the call a client is in
    report,             \* the events a looper has captured and not dispatched
    outcome,            \* history: what became of a waiter
    failed              \* the function that ASSERT aborted, or None

contexts == <<size, gen>>
waits    == <<events, slot, m_pendingEventCount, outcome>>
kernel   == <<interest, data, edge, ready, open>>
vars     == <<contexts, waits, kernel, call, report, failed>>

-----------------------------------------------------------------------------
Idle == [op |-> "none"]

Call(op, fd, ev, w, at, ctx) ==
    [op |-> op, fd |-> fd, ev |-> ev, w |-> w, at |-> at, ctx |-> ctx]

Busy(c)       == call[c].op # "none"
In(c, op, at) == Busy(c) /\ call[c].op \in op /\ call[c].at = at
Adding(c)     == call[c].op = "add"
Using(fd)     == {c \in Client : Busy(c) /\ call[c].fd = fd}

(* m_fdContexts[fd]                                                        *)
ContextOf(fd) == <<fd, gen[fd]>>

Init ==
    /\ size = InitSize
    /\ gen = [fd \in Fd |-> 0]
    /\ events = [x \in Context |-> {}]
    /\ slot = [x \in Context |-> [ev \in Event |-> None]]
    /\ m_pendingEventCount = 0
    /\ interest = [fd \in Fd |-> {}]
    /\ data = [fd \in Fd |-> <<fd, 0>>]
    /\ edge = [fd \in Fd |-> FALSE]
    /\ ready = [fd \in Fd |-> {}]
    /\ open = Fd
    /\ call = [c \in Client |-> Idle]
    /\ report = [l \in Looper |-> {}]
    /\ outcome = [w \in Waiter |-> "new"]
    /\ failed = None

-----------------------------------------------------------------------------
(* epoll_ctl() with ADD, MOD or DEL, as the code picks the operation:      *)
(* `want' is the new set of events, {} for DEL; adding is true for ADD.    *)
(* MOD and DEL need the descriptor in the instance, ADD needs it not       *)
(* there, and ADD can fail for lack of memory or watches as well.  ADD and *)
(* MOD report anew what is ready at that moment.                           *)
CtlPossible(fd, adding) ==
    fd \in open /\ (adding <=> interest[fd] = {})

Ready(fd, want) == want # {} /\ ready[fd] \cap (want \cup {"HUP"}) # {}

epoll_ctl(fd, want, x) ==
    /\ interest' = [interest EXCEPT ![fd] = want]
    /\ data' = [data EXCEPT ![fd] = x]
    /\ edge' = [edge EXCEPT ![fd] = Ready(fd, want)]
    /\ UNCHANGED <<ready, open>>

(* triggerEvent() for each event of S on context x, and the decrement that *)
(* follows each call.                                                      *)
triggerEvent(x, S) ==
    /\ events' = [events EXCEPT ![x] = @ \ S]
    /\ slot' = [slot EXCEPT ![x] = [ev \in Event |-> IF ev \in S THEN None ELSE @[ev]]]
    /\ outcome' = [w \in Waiter |->
                     IF w \in {slot[x][ev] : ev \in S} THEN "scheduled" ELSE outcome[w]]
    /\ m_pendingEventCount' = m_pendingEventCount - Cardinality(S)

Return(c) == call' = [call EXCEPT ![c] = Idle]

-----------------------------------------------------------------------------
(* The lookup of a call, under m_mutex.                                    *)

(* Nobody waits twice for one event of a descriptor: such a caller breaks  *)
(* the contract of addEvent().                                             *)
Unclaimed(fd, ev) ==
    /\ \A x \in Context : x[1] = fd /\ slot[x][ev] # None
            => outcome[slot[x][ev]] = "lost"
    /\ \A c \in Using(fd) : call[c].op = "add" => call[c].ev # ev

StartAdd(c, fd, ev, w) ==
    /\ ~Busy(c) /\ fd \in open /\ Unclaimed(fd, ev)
    /\ outcome[w] = "new" /\ \A d \in Client : Busy(d) => call[d].w # w
    /\ call' = [call EXCEPT ![c] =
                  Call("add", fd, ev, w, IF size > fd THEN "lock" ELSE "grow",
                       ContextOf(fd))]
    /\ UNCHANGED <<contexts, waits, kernel, report, failed>>

(* The others return false when there is no context.                       *)
StartOther(c, op, fd, ev) ==
    /\ ~Busy(c) /\ fd \in open
    /\ size > fd
    /\ call' = [call EXCEPT ![c] = Call(op, fd, ev, None, "lock", ContextOf(fd))]
    /\ UNCHANGED <<contexts, waits, kernel, report, failed>>

(* close() is cancelAll() and then the kernel's close.                     *)
StartClose(c, fd) ==
    /\ ~Busy(c) /\ fd \in open
    /\ \A d \in Using(fd) : call[d].op # "close"
    /\ call' = [call EXCEPT ![c] =
                  Call("close", fd, "READ", None, IF size > fd THEN "lock" ELSE "close",
                       ContextOf(fd))]
    /\ UNCHANGED <<contexts, waits, kernel, report, failed>>

(* contextResize(fd * 1.5): to that size, up or down.                      *)
contextResize(n) ==
    /\ size' = n
    /\ gen' = [fd \in Fd |-> IF n <= fd /\ fd < size THEN gen[fd] + 1 ELSE gen[fd]]

Grow(c) ==
    /\ In(c, {"add"}, "grow")
    /\ LET fd == call[c].fd
       IN  /\ \A f \in Fd : (fd * 3) \div 2 <= f /\ f < size => gen[f] < MaxGen
           /\ contextResize((fd * 3) \div 2)
           /\ call' = [call EXCEPT ![c] = [@ EXCEPT !.at = "lock", !.ctx = <<fd, gen'[fd]>>]]
    /\ UNCHANGED <<waits, kernel, report, failed>>

-----------------------------------------------------------------------------
(* addEvent(), under the context's mutex.                                  *)
AddEvent(c) ==
    /\ In(c, {"add"}, "lock")
    /\ LET fd == call[c].fd  ev == call[c].ev  x == call[c].ctx
       IN  /\ ev \notin events[x] /\ slot[x][ev] = None
           /\ CtlPossible(fd, events[x] = {})
           /\ epoll_ctl(fd, events[x] \cup {ev}, x)
           /\ events' = [events EXCEPT ![x] = @ \cup {ev}]
           /\ slot' = [slot EXCEPT ![x][ev] = call[c].w]
           /\ outcome' = [outcome EXCEPT ![call[c].w] = "waiting"]
    /\ m_pendingEventCount' = m_pendingEventCount + 1
    /\ Return(c)
    /\ UNCHANGED <<contexts, report, failed>>

(* epoll_ctl() fails: -1.                                                  *)
AddEventFails(c) ==
    /\ In(c, {"add"}, "lock")
    /\ LET adding == events[call[c].ctx] = {}
       IN  /\ call[c].ev \notin events[call[c].ctx]
           /\ adding \/ ~CtlPossible(call[c].fd, adding)
    /\ outcome' = [outcome EXCEPT ![call[c].w] = "refused"]
    /\ Return(c)
    /\ UNCHANGED <<contexts, events, slot, m_pendingEventCount, kernel, report, failed>>

(* ASSERT(!(events & event)) at the start, ASSERT of an empty EventContext *)
(* at the end.                                                             *)
AddEventAborts(c) ==
    /\ In(c, {"add"}, "lock")
    /\ \/ call[c].ev \in events[call[c].ctx]
       \/ slot[call[c].ctx][call[c].ev] # None
    /\ failed' = "addEvent"
    /\ UNCHANGED <<contexts, waits, kernel, call, report>>

(* Mutant of DelEvent: the EventContext is not reset.                      *)
DelEventKeepsContext(c) ==
    /\ In(c, {"del"}, "lock")
    /\ LET fd == call[c].fd  ev == call[c].ev  x == call[c].ctx
       IN  /\ ev \in events[x] /\ CtlPossible(fd, FALSE)
           /\ epoll_ctl(fd, events[x] \ {ev}, x)
           /\ events' = [events EXCEPT ![x] = @ \ {ev}]
           /\ outcome' = [outcome EXCEPT ![slot[x][ev]] = "dropped"]
    /\ m_pendingEventCount' = m_pendingEventCount - 1
    /\ Return(c)
    /\ UNCHANGED <<contexts, slot, report, failed>>

(* delEvent(): the waiter is dropped.                                      *)
DelEvent(c) ==
    /\ In(c, {"del"}, "lock")
    /\ LET fd == call[c].fd  ev == call[c].ev  x == call[c].ctx
       IN  /\ ev \in events[x] /\ CtlPossible(fd, FALSE)
           /\ epoll_ctl(fd, events[x] \ {ev}, x)
           /\ events' = [events EXCEPT ![x] = @ \ {ev}]
           /\ slot' = [slot EXCEPT ![x][ev] = None]
           /\ outcome' = [outcome EXCEPT ![slot[x][ev]] = "dropped"]
    /\ m_pendingEventCount' = m_pendingEventCount - 1
    /\ Return(c)
    /\ UNCHANGED <<contexts, report, failed>>

(* cancelEvent(): the waiter is scheduled.                                 *)
CancelEvent(c) ==
    /\ In(c, {"cancel"}, "lock")
    /\ LET fd == call[c].fd  ev == call[c].ev  x == call[c].ctx
       IN  /\ ev \in events[x] /\ CtlPossible(fd, FALSE)
           /\ epoll_ctl(fd, events[x] \ {ev}, x)
           /\ triggerEvent(x, {ev})
    /\ Return(c)
    /\ UNCHANGED <<contexts, report, failed>>

(* Both return false: nothing registered, or epoll_ctl() fails.            *)
NothingToDo(c) ==
    /\ In(c, {"del", "cancel"}, "lock")
    /\ call[c].ev \in events[call[c].ctx] => ~CtlPossible(call[c].fd, FALSE)
    /\ Return(c)
    /\ UNCHANGED <<contexts, waits, kernel, report, failed>>

(* cancelAll(): what follows it in close() is the kernel's close.          *)
AfterCancelAll(c) ==
    IF call[c].op = "close" THEN call' = [call EXCEPT ![c].at = "close"]
    ELSE Return(c)

(* Mutants of CancelAll: the descriptor stays in epoll; one decrement.     *)
CancelAllKeepsInterest(c) ==
    /\ In(c, {"cancelAll", "close"}, "lock")
    /\ LET x == call[c].ctx
       IN  /\ events[x] # {} /\ CtlPossible(call[c].fd, FALSE)
           /\ triggerEvent(x, events[x])
    /\ AfterCancelAll(c)
    /\ UNCHANGED <<contexts, kernel, report, failed>>

CancelAllCountsOne(c) ==
    /\ In(c, {"cancelAll", "close"}, "lock")
    /\ LET x == call[c].ctx
       IN  /\ events[x] # {} /\ CtlPossible(call[c].fd, FALSE)
           /\ epoll_ctl(call[c].fd, {}, x)
           /\ events' = [events EXCEPT ![x] = {}]
           /\ slot' = [slot EXCEPT ![x] = [ev \in Event |-> None]]
           /\ outcome' = [w \in Waiter |->
                IF w \in {slot[x][ev] : ev \in Event} THEN "scheduled" ELSE outcome[w]]
    /\ m_pendingEventCount' = m_pendingEventCount - 1
    /\ AfterCancelAll(c)
    /\ UNCHANGED <<contexts, report, failed>>

CancelAll(c) ==
    /\ In(c, {"cancelAll", "close"}, "lock")
    /\ LET x == call[c].ctx
       IN  /\ events[x] # {} /\ CtlPossible(call[c].fd, FALSE)
           /\ epoll_ctl(call[c].fd, {}, x)
           /\ triggerEvent(x, events[x])
    /\ AfterCancelAll(c)
    /\ UNCHANGED <<contexts, report, failed>>

CancelNone(c) ==
    /\ In(c, {"cancelAll", "close"}, "lock")
    /\ events[call[c].ctx] # {} => ~CtlPossible(call[c].fd, FALSE)
    /\ AfterCancelAll(c)
    /\ UNCHANGED <<contexts, waits, kernel, report, failed>>

(* close_f(fd): epoll forgets the descriptor; who still waits is lost.     *)
KernelClose(c) ==
    /\ In(c, {"close"}, "close")
    /\ LET fd == call[c].fd
       IN  /\ open' = open \ {fd}
           /\ interest' = [interest EXCEPT ![fd] = {}]
           /\ edge' = [edge EXCEPT ![fd] = FALSE]
           /\ ready' = [ready EXCEPT ![fd] = {}]
           /\ outcome' = [w \in Waiter |->
                IF \E x \in Context, ev \in Event : x[1] = fd /\ slot[x][ev] = w
                THEN "lost" ELSE outcome[w]]
    /\ Return(c)
    /\ UNCHANGED <<contexts, events, slot, m_pendingEventCount, data, report, failed>>

-----------------------------------------------------------------------------
(* The idle loop.                                                          *)

(* epoll_wait() reports descriptors that are watched and ready now, once   *)
(* per edge, and leaves others for the next call.                          *)
Mask(fd) == ready[fd] \cap (interest[fd] \cup {"HUP"})

Report(l) ==
    /\ report[l] = {}
    /\ \E S \in SUBSET {fd \in Fd : edge[fd] /\ Mask(fd) # {}} :
        /\ S # {}
        /\ edge' = [fd \in Fd |-> edge[fd] /\ fd \notin S]
        /\ report' = [report EXCEPT ![l] = {[ctx |-> data[fd], mask |-> Mask(fd)] : fd \in S}]
    /\ UNCHANGED <<contexts, waits, interest, data, ready, open, call, failed>>

(* EPOLLERR and EPOLLHUP stand for everything that is registered.          *)
RealEvents(r) ==
    (r.mask \cup IF "HUP" \in r.mask THEN events[r.ctx] ELSE {}) \cap Event

Done(l, r) == report' = [report EXCEPT ![l] = @ \ {r}]

(* Mutant of Dispatch: the descriptor leaves epoll in any case.            *)
DispatchDeletes(l, r) ==
    /\ r \in report[l]
    /\ LET x == r.ctx  real == RealEvents(r)
       IN  /\ events[x] \cap real # {} /\ real \subseteq events[x]
           /\ CtlPossible(x[1], FALSE)
           /\ epoll_ctl(x[1], {}, x)
           /\ triggerEvent(x, real)
    /\ Done(l, r)
    /\ UNCHANGED <<contexts, call, failed>>

(* Mutant of Dispatch: the event stays registered after it was triggered.  *)
DispatchKeepsEvent(l, r) ==
    /\ r \in report[l]
    /\ LET x == r.ctx  real == RealEvents(r)
       IN  /\ events[x] \cap real # {} /\ real \subseteq events[x]
           /\ CtlPossible(x[1], FALSE)
           /\ epoll_ctl(x[1], events[x] \ real, x)
           /\ outcome' = [w \in Waiter |->
                IF w \in {slot[x][ev] : ev \in real} THEN "scheduled" ELSE outcome[w]]
           /\ m_pendingEventCount' = m_pendingEventCount - Cardinality(real)
    /\ Done(l, r)
    /\ UNCHANGED <<contexts, events, slot, call, failed>>

Dispatch(l, r) ==
    /\ r \in report[l]
    /\ LET x == r.ctx  real == RealEvents(r)
       IN  /\ events[x] \cap real # {} /\ real \subseteq events[x]
           /\ CtlPossible(x[1], FALSE)
           /\ epoll_ctl(x[1], events[x] \ real, x)
           /\ triggerEvent(x, real)
    /\ Done(l, r)
    /\ UNCHANGED <<contexts, call, failed>>

(* None of it is registered any more, or epoll_ctl() fails: next event.    *)
DispatchSkips(l, r) ==
    /\ r \in report[l]
    /\ events[r.ctx] \cap RealEvents(r) # {} => ~CtlPossible(r.ctx[1], FALSE)
    /\ Done(l, r)
    /\ UNCHANGED <<contexts, waits, kernel, call, failed>>

(* triggerEvent() is called for an event that is no longer registered:     *)
(* ASSERT(events & event).                                                 *)
DispatchAborts(l, r) ==
    /\ r \in report[l]
    /\ LET real == RealEvents(r)
       IN  events[r.ctx] \cap real # {} /\ ~(real \subseteq events[r.ctx])
    /\ CtlPossible(r.ctx[1], FALSE)
    /\ failed' = "triggerEvent"
    /\ UNCHANGED <<contexts, waits, kernel, call, report>>

-----------------------------------------------------------------------------
(* The kernel: a descriptor becomes ready or hangs up, which wakes epoll   *)
(* if it watches; the data is consumed; a closed number is given out again.*)
BecomeReady(fd, e) ==
    /\ fd \in open
    /\ e \notin ready[fd]
    /\ ready' = [ready EXCEPT ![fd] = @ \cup {e}]
    /\ edge' = [edge EXCEPT ![fd] =
                  @ \/ (interest[fd] # {} /\ e \in interest[fd] \cup {"HUP"})]
    /\ UNCHANGED <<contexts, waits, interest, data, open, call, report, failed>>

Consume(fd, e) ==
    /\ e \in ready[fd] /\ e \in Event
    /\ ready' = [ready EXCEPT ![fd] = @ \ {e}]
    /\ UNCHANGED <<contexts, waits, interest, data, edge, open, call, report, failed>>

Open(fd) ==
    /\ fd \notin open
    /\ open' = open \cup {fd}
    /\ UNCHANGED <<contexts, waits, interest, data, edge, ready, call, report, failed>>

-----------------------------------------------------------------------------
ClientStep(c) ==
    \/ \E fd \in Fd, ev \in Event, w \in Waiter : StartAdd(c, fd, ev, w)
    \/ \E fd \in Fd, ev \in Event : StartOther(c, "del", fd, ev) \/ StartOther(c, "cancel", fd, ev)
    \/ \E fd \in Fd : StartOther(c, "cancelAll", fd, "READ") \/ StartClose(c, fd)
    \/ Grow(c)
    \/ AddEvent(c) \/ AddEventFails(c) \/ AddEventAborts(c)
    \/ DelEvent(c) \/ CancelEvent(c) \/ NothingToDo(c)
    \/ CancelAll(c) \/ CancelNone(c) \/ KernelClose(c)

LooperStep(l) ==
    \/ Report(l)
    \/ \E r \in report[l] : Dispatch(l, r) \/ DispatchSkips(l, r) \/ DispatchAborts(l, r)

Kernel ==
    \E fd \in Fd : \/ Open(fd)
                   \/ \E e \in Event \cup {"HUP"} : BecomeReady(fd, e) \/ Consume(fd, e)

Next ==
    /\ failed = None
    /\ \/ \E c \in Client : ClientStep(c)
       \/ \E l \in Looper : LooperStep(l)
       \/ Kernel

Spec == Init /\ [][Next]_vars

-----------------------------------------------------------------------------
(* Properties.                                                             *)

Outcome == {"new", "waiting", "scheduled", "dropped", "refused", "lost"}

(* Every variable is of its type; a call under way has a context that      *)
(* exists, for its own descriptor.                                         *)
TypeOK ==
    /\ size \in Nat
    /\ gen \in [Fd -> 0 .. MaxGen]
    /\ events \in [Context -> SUBSET Event]
    /\ slot \in [Context -> [Event -> Waiter \cup {None}]]
    /\ m_pendingEventCount \in Nat
    /\ interest \in [Fd -> SUBSET Event]
    /\ data \in [Fd -> Context]
    /\ edge \in [Fd -> BOOLEAN]
    /\ ready \in [Fd -> SUBSET (Event \cup {"HUP"})]
    /\ open \subseteq Fd
    /\ outcome \in [Waiter -> Outcome]
    /\ failed \in {None, "addEvent", "triggerEvent"}
    /\ report \in [Looper -> SUBSET [ctx : Context, mask : SUBSET (Event \cup {"HUP"})]]
    /\ call \in [Client -> {Idle} \cup
          [op : {"add", "del", "cancel", "cancelAll", "close"}, fd : Fd, ev : Event,
           w : Waiter \cup {None}, at : {"lock", "grow", "close"}, ctx : Context]]
    /\ \A c \in Client : Busy(c) => call[c].ctx[1] = call[c].fd
    /\ \A c \in Client : Adding(c) => call[c].w # None /\ outcome[call[c].w] = "new"

(* m_pendingEventCount, which stopping() reads without a lock, is the      *)
(* number of events registered in all contexts, however adds, cancels,     *)
(* closes and dispatches race: below it the manager stops while somebody   *)
(* waits, above it the manager never stops.                                *)
Registered == {p \in Context \X Event : p[2] \in events[p[1]]}

PendingCount == m_pendingEventCount = Cardinality(Registered)

(* A context has a waiter for exactly the events that are registered in    *)
(* it: addEvent()'s last ASSERT (iomanager.cc:216) always finds a clean    *)
(* EventContext, whoever unregistered the event before.                    *)
CtxClean == \A x \in Context, ev \in Event : ev \in events[x] <=> slot[x][ev] # None

(* A waiter is in one place: as long as nobody resumed, dropped or refused *)
(* it, it is in exactly one EventContext, and afterwards in none; so it is *)
(* resumed at most once.                                                   *)
Slots(w) == {p \in Context \X Event : slot[p[1]][p[2]] = w}

WaiterOnce ==
    \A w \in Waiter :
        /\ \A p, q \in Slots(w) : p = q
        /\ Slots(w) # {} <=> outcome[w] \in {"waiting", "lost"}

(* epoll watches a descriptor for exactly what its context has registered, *)
(* and points to that context, unless the descriptor was closed under a    *)
(* waiter or contextResize() dropped its context.                          *)
Kept(fd) == gen[fd] = 0

Orphaned(fd) == \E ev \in Event : LET w == slot[ContextOf(fd)][ev]
                                  IN  w # None /\ outcome[w] = "lost"

InterestSync ==
    \A fd \in Fd : (Kept(fd) /\ ~Orphaned(fd)) =>
        /\ interest[fd] = events[ContextOf(fd)]
        /\ interest[fd] # {} => data[fd] = ContextOf(fd)

(* Edge-triggered epoll loses no event: if somebody waits for what the     *)
(* descriptor is ready for, epoll will report it or a looper has it in     *)
(* hand, whatever was dispatched, cancelled or added in between.           *)
NoLostEdge ==
    \A fd \in Fd : \A ev \in events[ContextOf(fd)] :
        (Kept(fd) /\ ~Orphaned(fd) /\ ready[fd] \cap {ev, "HUP"} # {}) =>
            \/ edge[fd]
            \/ \E l \in Looper : \E r \in report[l] :
                  r.ctx = ContextOf(fd) /\ r.mask \cap {ev, "HUP"} # {}

(* Claims of the code that do not hold.                                    *)

(* iomanager.cc:92, ASSERT(events & event): triggerEvent() is called for   *)
(* registered events only.                                                 *)
TriggerRegistered == failed # "triggerEvent"

(* iomanager.cc:175: addEvent() makes the container larger, by half.       *)
GrowOnly == [][size' >= size]_vars
=============================================================================
