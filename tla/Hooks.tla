-------------------------------- MODULE Hooks --------------------------------
(***************************************************************************)
(* The hooked system calls (hook.cc) as fibers on the pool's threads make  *)
(* them: do_io() and its callers, connect_with_timeout(), the sleep        *)
(* family, socket(), accept(), close() and the calls that change a         *)
(* descriptor's flags and timeouts.  A call that would block registers for *)
(* an event and suspends its fiber; a timer may cut the wait short.        *)
(*                                                                         *)
(* Timers and events are atomic here, as TimerManager and IOEvents show    *)
(* them to be: a timer is cancelled or collected, an event triggered once. *)
(* What is left between their calls is the subject: the callback of a      *)
(* timer runs as a task of the pool, at any time after it was collected.   *)
(*                                                                         *)
(* A client makes no two unfinished calls for one event of one descriptor  *)
(* number (addEvent() asserts that), closes a descriptor once, and leaves  *)
(* a number that it gets anew alone while a fiber that close() has woken   *)
(* is still in its call for the earlier descriptor.                        *)
(***************************************************************************)
EXTENDS FdManager, FiniteSets

CONSTANTS
    Caller,         \* fibers that make system calls, one at a time
    Timer,          \* bound: timers and callbacks that exist at a time
    Fd,             \* the descriptor numbers the kernel gives out
    Busy,           \* bound: those of them that calls are made for
    READ, WRITE,
    None            \* nobody; no descriptor (of a sleeper's timer)

VARIABLES
    open,           \* kernel: the descriptors that are open
    forgotten,      \* epoll: closed while a fiber was registered
    pc, call,       \* of each caller: where its call is, and [op, fd, ev, to]
    cancelled,      \* tinfo->cancelled of the call
    timer,          \* the timer of the call's last wait
    timers,         \* the timers, and their callbacks when collected
    waiter,         \* the fiber registered for an event of a descriptor
    expired         \* history: a timer of this call has come due

kernel  == <<open, forgotten>>
callers == <<pc, call, cancelled, timer, expired>>
vars    == <<m_datas, kernel, callers, timers, waiter>>

ASSUME HooksAssumption ==
    /\ Event = {READ, WRITE} /\ Fd \subseteq Nat /\ Busy \subseteq Fd
    /\ InitSize \in Nat /\ InitSize > 1
    /\ None \notin Fd \cup Event \cup Caller \cup Timer
    /\ NoCtx \notin FdCtx

NoCall == [op |-> None, fd |-> None, ev |-> None, to |-> FALSE]
Free   == [state |-> "free", owner |-> None, fd |-> None, ev |-> None, live |-> FALSE]

Init ==
    /\ FdManagerInit
    /\ open = {} /\ forgotten = {}
    /\ pc = [c \in Caller |-> "idle"]
    /\ call = [c \in Caller |-> NoCall]
    /\ cancelled = [c \in Caller |-> FALSE]
    /\ timer = [c \in Caller |-> None]
    /\ timers = [k \in Timer |-> Free]
    /\ waiter = [fd \in Fd |-> [e \in Event |-> None]]
    /\ expired = [c \in Caller |-> FALSE]

-----------------------------------------------------------------------------
Goto(c, label) == pc' = [pc EXCEPT ![c] = label]

(* A call begins with a new timer_info, to which the callbacks of its      *)
(* timers have weak pointers only: it ends with the call.                  *)
Enter(c, label, op, fd, ev, to) ==
    /\ pc[c] = "idle"
    /\ Goto(c, label)
    /\ call' = [call EXCEPT ![c] = [op |-> op, fd |-> fd, ev |-> ev, to |-> to]]
    /\ UNCHANGED <<cancelled, timer, expired>>

(* Mutant of Released: the flag belongs to the fiber, not to its call.     *)
ReleasedNever(c, ts) == ts

Released(c, ts) ==
    [k \in Timer |-> IF ts[k].owner = c THEN [ts[k] EXCEPT !.live = FALSE] ELSE ts[k]]

Return(c, ts) ==
    /\ Goto(c, "idle")
    /\ call' = [call EXCEPT ![c] = NoCall]
    /\ cancelled' = [cancelled EXCEPT ![c] = FALSE]
    /\ expired' = [expired EXCEPT ![c] = FALSE]
    /\ timer' = [timer EXCEPT ![c] = None]
    /\ timers' = Released(c, ts)

(* Mutant of Cancelled: the timer is left to itself.                       *)
CancelledNever(c) == timers

(* Timer::cancel(): in time, or without effect if it has been collected.   *)
Cancelled(c) ==
    [k \in Timer |-> IF k = timer[c] /\ timers[k].state = "armed" THEN Free ELSE timers[k]]

AddTimer(c, k, fd, ev) ==
    /\ timers[k] = Free /\ \A d \in Caller : timer[d] # k
    /\ timers' = [timers EXCEPT ![k] = [state |-> "armed", owner |-> c, fd |-> fd,
                                        ev |-> ev, live |-> TRUE]]
    /\ timer' = [timer EXCEPT ![c] = k]

(* triggerEvent() schedules the fibers that are registered for the events, *)
(* if epoll_ctl() has not failed; here the fibers, and what they become.   *)
Hit(fd, events) ==
    IF fd \in forgotten THEN {} ELSE {waiter[fd][e] : e \in events} \ {None}

Woken(S) == [c \in Caller |-> IF c \in S THEN "woken" ELSE pc[c]]

Unregister(fd, S) ==
    waiter' = [waiter EXCEPT ![fd] = [e \in Event |-> IF @[e] \in S THEN None ELSE @[e]]]

triggerEvent(fd, events) ==
    /\ Unregister(fd, Hit(fd, events))
    /\ pc' = Woken(Hit(fd, events))

-----------------------------------------------------------------------------
(* read() and its like, accept() and connect() of a socket that the user   *)
(* has left blocking; others go to the system at once.                     *)
Begin(c, op, fd, ev) ==
    /\ fd \in Busy /\ Found(fd) /\ ~m_datas[fd].m_userNonblock
    /\ op = "accept" => ev = READ
    /\ op = "connect" => ev = WRITE
    /\ \A d \in Caller : ~(pc[d] # "idle" /\ call[d].fd = fd /\ call[d].ev = ev)
    /\ \E to \in IF op = "connect" THEN BOOLEAN ELSE {m_datas[fd].timeout[ev]} :
        Enter(c, "try", op, fd, ev, to)
    /\ UNCHANGED <<m_datas, kernel, timers, waiter>>

(* The system call itself: it succeeds or fails, ...                       *)
TryDone(c) ==
    /\ pc[c] = "try" /\ call[c].op # "accept"
    /\ Return(c, timers)
    /\ UNCHANGED <<m_datas, kernel, waiter>>

(* ... (of accept(): with a descriptor that is tracked next) ...           *)
TryAccept(c) ==
    /\ pc[c] = "try" /\ call[c].op = "accept"
    /\ \/ \E fd \in Fd \ open :
            /\ open' = open \cup {fd}
            /\ Goto(c, "look")
            /\ call' = [call EXCEPT ![c] = [NoCall EXCEPT !.op = "accept", !.fd = fd]]
            /\ timers' = Released(c, timers)
            /\ UNCHANGED <<forgotten, cancelled, timer, expired>>
       \/ Return(c, timers) /\ UNCHANGED kernel
    /\ UNCHANGED <<m_datas, waiter>>

(* ... or would block: EAGAIN, EINPROGRESS.                                *)
TryAgain(c) ==
    /\ pc[c] = "try"
    /\ call[c].fd \in open
    /\ Goto(c, IF call[c].to THEN "arm" ELSE "add")
    /\ UNCHANGED <<m_datas, kernel, call, cancelled, timer, expired, timers, waiter>>

Arm(c) ==
    /\ pc[c] = "arm"
    /\ \E k \in Timer : AddTimer(c, k, call[c].fd, call[c].ev)
    /\ Goto(c, "add")
    /\ UNCHANGED <<m_datas, kernel, call, cancelled, expired, waiter>>

(* addEvent() and YieldToHold().  When the descriptor was closed with a    *)
(* fiber registered, its FdContext has the event still and epoll has not:  *)
(* epoll_ctl(), which then modifies or deletes, fails from now on.         *)
Add(c) ==
    /\ pc[c] = "add"
    /\ call[c].fd \in open \ forgotten
    /\ waiter' = [waiter EXCEPT ![call[c].fd][call[c].ev] = c]
    /\ Goto(c, "waiting")
    /\ UNCHANGED <<m_datas, kernel, call, cancelled, timer, expired, timers>>

(* addEvent() fails: the timer is cancelled and the call returns, connect()*)
(* too: what it returns is SO_ERROR, not modelled.                         *)
AddFails(c) ==
    /\ pc[c] = "add"
    /\ Return(c, Cancelled(c))
    /\ UNCHANGED <<m_datas, kernel, waiter>>

(* Back from YieldToHold(): timer->cancel(), ...                           *)
Resume(c) ==
    /\ pc[c] = "woken" /\ call[c].op # "sleep"
    /\ timers' = Cancelled(c)
    /\ Goto(c, "check")
    /\ UNCHANGED <<m_datas, kernel, call, cancelled, timer, expired, waiter>>

(* ... and then tinfo->cancelled: a timeout, or another try; connect()     *)
(* returns in any case.                                                    *)
TimedOut(c) ==
    /\ pc[c] = "check" /\ cancelled[c]
    /\ Return(c, timers)
    /\ UNCHANGED <<m_datas, kernel, waiter>>

Retry(c) ==
    /\ pc[c] = "check" /\ ~cancelled[c]
    /\ IF call[c].op = "connect" THEN Return(c, timers)
       ELSE /\ Goto(c, "try")
            /\ timer' = [timer EXCEPT ![c] = None]
            /\ UNCHANGED <<call, cancelled, expired, timers>>
    /\ UNCHANGED <<m_datas, kernel, waiter>>

(* sleep(), usleep(), nanosleep(): a timer whose callback schedules the    *)
(* fiber.                                                                  *)
Sleep(c) ==
    /\ pc[c] = "idle"
    /\ \E k \in Timer : AddTimer(c, k, None, None)
    /\ Goto(c, "waiting")
    /\ call' = [call EXCEPT ![c] = [NoCall EXCEPT !.op = "sleep"]]
    /\ UNCHANGED <<m_datas, kernel, cancelled, expired, waiter>>

SleepEnd(c) ==
    /\ pc[c] = "woken" /\ call[c].op = "sleep"
    /\ Return(c, timers)
    /\ UNCHANGED <<m_datas, kernel, waiter>>

-----------------------------------------------------------------------------
(* The timer's time has come: it is collected, its callback is queued.     *)
Expire(k) ==
    /\ timers[k].state = "armed"
    /\ timers' = [timers EXCEPT ![k].state = "due"]
    /\ expired' = [expired EXCEPT ![timers[k].owner] = TRUE]
    /\ UNCHANGED <<m_datas, kernel, pc, call, cancelled, timer, waiter>>

(* The callback of a call's timer: winfo.lock() and the test of the flag,  *)
(* the flag, cancelEvent().  The timer_info outlives its call as long as   *)
(* the callback of another timer of the call, which has locked it, runs;   *)
(* dead calls alike in all but that are not told apart.                    *)
KeptAlive(k) ==
    \E m \in Timer \ {k} : timers[m] = [timers[k] EXCEPT !.state = "locked"]

Lock(k) ==
    /\ timers[k].state = "due" /\ timers[k].fd # None
    /\ LET found == timers[k].live /\ ~cancelled[timers[k].owner]
       IN  \/ /\ found \/ (~timers[k].live /\ KeptAlive(k))
              /\ timers' = [timers EXCEPT ![k].state = "locked"]
           \/ ~found /\ timers' = [timers EXCEPT ![k] = Free]
    /\ UNCHANGED <<m_datas, kernel, callers, waiter>>

Flag(k) ==
    /\ timers[k].state = "locked"
    /\ timers' = [timers EXCEPT ![k].state = "flagged"]
    /\ IF timers[k].live THEN cancelled' = [cancelled EXCEPT ![timers[k].owner] = TRUE]
                         ELSE UNCHANGED cancelled
    /\ UNCHANGED <<m_datas, kernel, pc, call, timer, expired, waiter>>

(* Mutant of cancelEvent: the callback schedules the fiber of the call.    *)
cancelEventOwner(k) ==
    /\ timers[k].state = "flagged"
    /\ timers' = [timers EXCEPT ![k] = Free]
    /\ Unregister(timers[k].fd, {timers[k].owner})
    /\ pc' = Woken({timers[k].owner})
    /\ UNCHANGED <<m_datas, kernel, call, cancelled, timer, expired>>

cancelEvent(k) ==
    /\ timers[k].state = "flagged"
    /\ timers' = [timers EXCEPT ![k] = Free]
    /\ triggerEvent(timers[k].fd, {timers[k].ev})
    /\ UNCHANGED <<m_datas, kernel, call, cancelled, timer, expired>>

(* The callback of a sleeper's timer.                                      *)
WakeSleeper(k) ==
    /\ timers[k].state = "due" /\ timers[k].fd = None
    /\ timers' = [timers EXCEPT ![k] = Free]
    /\ pc' = Woken({timers[k].owner})
    /\ UNCHANGED <<m_datas, kernel, call, cancelled, timer, expired, waiter>>

(* idle() dispatches an event of an open descriptor.                       *)
EventReady(fd, ev) ==
    /\ fd \in open /\ Hit(fd, {ev}) # {}
    /\ triggerEvent(fd, {ev})
    /\ UNCHANGED <<m_datas, kernel, call, cancelled, timer, expired, timers>>

-----------------------------------------------------------------------------
(* socket(): the descriptor, and then get(fd, true), as after accept().    *)
Socket(c) ==
    /\ \E fd \in Fd \ open :
        /\ open' = open \cup {fd}
        /\ Enter(c, "look", "socket", fd, None, FALSE)
    /\ UNCHANGED <<m_datas, forgotten, timers, waiter>>

Look(c) ==
    /\ pc[c] = "look"
    /\ \/ Found(call[c].fd) /\ Return(c, timers)
       \/ /\ ~Found(call[c].fd)
          /\ Goto(c, "create")
          /\ UNCHANGED <<call, cancelled, timer, expired, timers>>
    /\ UNCHANGED <<m_datas, kernel, waiter>>

Create(c) ==
    /\ pc[c] = "create"
    /\ create(call[c].fd)
    /\ Return(c, timers)
    /\ UNCHANGED <<kernel, waiter>>

(* close(): cancelAll(), FdMgr's del(), close_f().                         *)
Close(c, fd) ==
    /\ Found(fd) /\ fd \in open
    /\ \A d \in Caller : ~(pc[d] \in {"cancel", "del", "close"} /\ call[d].fd = fd)
    /\ Enter(c, "cancel", "close", fd, None, FALSE)
    /\ UNCHANGED <<m_datas, kernel, timers, waiter>>

(* Mutant of CloseCancel: the context stays when the descriptor is closed. *)
CloseCancelOnly(c) ==
    /\ pc[c] = "cancel"
    /\ LET fd == call[c].fd IN
        /\ Unregister(fd, Hit(fd, Event))
        /\ pc' = [Woken(Hit(fd, Event)) EXCEPT ![c] = "close"]
    /\ UNCHANGED <<m_datas, kernel, call, cancelled, timer, expired, timers>>

CloseCancel(c) ==
    /\ pc[c] = "cancel"
    /\ LET fd == call[c].fd IN
        /\ Unregister(fd, Hit(fd, Event))
        /\ pc' = [Woken(Hit(fd, Event)) EXCEPT ![c] = "del"]
    /\ UNCHANGED <<m_datas, kernel, call, cancelled, timer, expired, timers>>

CloseDel(c) ==
    /\ pc[c] = "del"
    /\ del(call[c].fd)
    /\ Goto(c, "close")
    /\ UNCHANGED <<kernel, call, cancelled, timer, expired, timers, waiter>>

CloseFd(c) ==
    /\ pc[c] = "close"
    /\ open' = open \ {call[c].fd}
    /\ forgotten' = IF \E e \in Event : waiter[call[c].fd][e] # None
                    THEN forgotten \cup {call[c].fd} ELSE forgotten
    /\ Return(c, timers)
    /\ UNCHANGED <<m_datas, waiter>>

(* fcntl(F_SETFL) and ioctl(FIONBIO): the context has the user's wish.     *)
SetNonblock(c, fd, nonblock) ==
    /\ pc[c] = "idle" /\ fd \in open \cap Busy /\ Found(fd)
    /\ setUserNonblock(fd, nonblock)
    /\ UNCHANGED <<kernel, callers, timers, waiter>>

(* setsockopt(SO_RCVTIMEO, SO_SNDTIMEO); no value is -1 again.             *)
SetTimeout(c, fd, e) ==
    /\ pc[c] = "idle" /\ fd \in open \cap Busy /\ Found(fd)
    /\ setTimeout(fd, e, TRUE)
    /\ UNCHANGED <<kernel, callers, timers, waiter>>

-----------------------------------------------------------------------------
Io(c) ==
    \/ pc[c] = "idle" /\
        \E fd \in Fd, op \in {"io", "accept", "connect"}, ev \in Event : Begin(c, op, fd, ev)
    \/ TryDone(c) \/ TryAccept(c) \/ TryAgain(c) \/ Arm(c) \/ Add(c) \/ AddFails(c)
    \/ Resume(c) \/ TimedOut(c) \/ Retry(c)
    \/ Sleep(c) \/ SleepEnd(c)

Manage(c) ==
    \/ Look(c) \/ Create(c) \/ CloseCancel(c) \/ CloseDel(c) \/ CloseFd(c)
    \/ pc[c] = "idle" /\
        \/ Socket(c)
        \/ \E fd \in Fd :
            \/ Close(c, fd)
            \/ \E nonblock \in BOOLEAN : SetNonblock(c, fd, nonblock)
            \/ \E e \in Event : SetTimeout(c, fd, e)

Next ==
    \/ \E c \in Caller : Io(c) \/ Manage(c)
    \/ \E k \in Timer :
        Expire(k) \/ Lock(k) \/ Flag(k) \/ cancelEvent(k) \/ WakeSleeper(k)
    \/ \E fd \in Fd, ev \in Event : EventReady(fd, ev)

Spec == Init /\ [][Next]_vars

-----------------------------------------------------------------------------
Steps == {"idle", "try", "arm", "add", "waiting", "woken", "check", "look", "create",
          "cancel", "del", "close"}

TimerState == {"free", "armed", "due", "locked", "flagged"}

(* Every variable has its type; the sizes of m_datas are those of a few    *)
(* descriptors.                                                            *)
TypeOK ==
    /\ FdManagerTypeOK
    /\ open \subseteq Fd /\ forgotten \subseteq Fd
    /\ pc \in [Caller -> Steps]
    /\ call \in [Caller -> [op : {None, "io", "accept", "connect", "sleep", "socket", "close"},
                            fd : Fd \cup {None}, ev : Event \cup {None}, to : BOOLEAN]]
    /\ cancelled \in [Caller -> BOOLEAN] /\ expired \in [Caller -> BOOLEAN]
    /\ timer \in [Caller -> Timer \cup {None}]
    /\ timers \in [Timer -> [state : TimerState, owner : Caller \cup {None},
                             fd : Fd \cup {None}, ev : Event \cup {None}, live : BOOLEAN]]
    /\ waiter \in [Fd -> [Event -> Caller \cup {None}]]

(* A descriptor that is open, and that nobody is just opening or closing,  *)
(* has its context: it is not lost when the container grows for another    *)
(* (get() takes the write lock after it has let the read lock go).         *)
Tracked ==
    \A fd \in open :
        Found(fd) \/ \E c \in Caller : call[c].fd = fd /\ pc[c] \in {"look", "create", "close"}

(* A descriptor that was just opened has no context of an earlier use:     *)
(* close() removes it before the kernel can give the number out again.     *)
Fresh == \A c \in Caller : pc[c] \in {"look", "create"} => ~Found(call[c].fd)

(* A call fails with ETIMEDOUT only if one of its own timers came due: the *)
(* callback of an earlier call of the fiber, still queued or already past  *)
(* its test, does not reach it.                                            *)
TimeoutOwn == \A c \in Caller : cancelled[c] => expired[c]

(* A call that has returned leaves no timer armed and no event registered. *)
NothingLeft ==
    \A c \in Caller : pc[c] = "idle" =>
        /\ \A k \in Timer : ~(timers[k].owner = c /\ timers[k].state = "armed")
        /\ \A fd \in Fd, ev \in Event : waiter[fd][ev] # c

(* A suspended fiber is registered for what its call waits for, or has its *)
(* sleeper's timer; and who is registered is suspended: whoever wakes a    *)
(* fiber, be it late, wakes it once.                                       *)
WokenOnce ==
    \A c \in Caller :
        /\ \A fd \in Fd, ev \in Event :
            waiter[fd][ev] = c <=>
                pc[c] = "waiting" /\ call[c].fd = fd /\ call[c].ev = ev
        /\ pc[c] = "waiting" /\ call[c].op = "sleep" =>
            \E k \in Timer : timers[k].owner = c /\ timers[k].fd = None

(* The comment in do_io(), hook.cc:132-137: a call with a timeout has a    *)
(* timer besides the event, and comes back when the timer or the event     *)
(* triggers.  So while it is suspended its timer is still to come, or the  *)
(* callback is on its way to cancel the event.                             *)
TimeoutGuarded ==
    \A c \in Caller : pc[c] = "waiting" /\ call[c].to =>
        \E k \in Timer : timers[k].owner = c /\ timers[k].live /\
            (timers[k].state = "due" => ~cancelled[c])
=============================================================================
