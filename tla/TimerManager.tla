---------------------------- MODULE TimerManager ----------------------------
(***************************************************************************)
(* classes Timer and TimerManager (timer.h, timer.cc): timers ordered by   *)
(* the wall-clock time they are due, kept in a std::set whose comparator   *)
(* reads the m_next of the timers themselves.  An element of m_timers is a *)
(* pair <<key, timer>>, key being the m_next the timer was inserted with:  *)
(* find() succeeds only while key and m_next agree.  (Ties are broken by   *)
(* address, which no one can observe: everything due leaves together.)     *)
(*                                                                         *)
(* Clients add, cancel, refresh and reset timers from any thread; the idle *)
(* loops of an IOManager (Looper) ask how long they may sleep, sleep in    *)
(* epoll_wait() and collect what is due (the part of IOManager::idle()     *)
(* that concerns timers).  Regions under m_mutex are atomic steps.  A      *)
(* thread reads the clock BEFORE it gets the lock in Timer's constructor   *)
(* and in listExpiredCb(), and notifies AFTER it has released the lock in  *)
(* addTimer(): these are steps of their own.  m_tickled is written under a *)
(* read lock in getNextTimer(), where all writers write FALSE.             *)
(*                                                                         *)
(* The clock is the environment: it moves forward, and may be set back.    *)
(* Times are milliseconds in 64 bits; the sums stay far below 2^64.        *)
(***************************************************************************)
EXTENDS Integers, FiniteSets

CONSTANTS
    Timer,      \* the timer objects clients create, each once
    Looper,     \* the threads that run IOManager::idle()
    Period,     \* the `ms' arguments
    Hour,       \* 60*60*1000
    MinClock,   \* bounds of the wall clock
    MaxClock,
    Stall,      \* bound: how far the clock may move on while a looper sits
                \* between reading it and getting the lock
    Never,      \* ~0ull, getNextTimer()'s "no timer"
    NoTime      \* "no time read"

ASSUME TimerAssumption ==
    /\ Hour \in Nat \ {0} /\ Stall \in 0 .. Hour
    /\ MaxClock \in Nat /\ MinClock \in Hour .. MaxClock
    /\ Looper # {} /\ Period \subseteq Nat
    /\ Never \in Nat /\ \A ms \in Period : MaxClock + ms < Never
    /\ NoTime \notin Nat

Clock == MinClock .. MaxClock

VARIABLES
    m_timers,           \* the std::set, as <<key, timer>> pairs
    m_next, m_ms,       \* fields of the timers; m_next is NoTime before the
                        \* constructor has run
    m_cb,               \* TRUE: the callback is not null
    m_recurring,
    m_tickled,
    m_previouseTime,
    clock,              \* shiosylar::GetCurrentMS()
    adding,             \* timers constructed in addTimer() and not inserted yet
    notifying,          \* <<call, timer>>: calls that found the timer at_front
                        \* and have yet to tickle (two resets of one timer
                        \* that both have to count as one)
    pipe,               \* a byte waits in the pipe for the next epoll_wait()
    deadline,           \* when the looper's epoll_wait() ends; NoTime: awake
    now_ms,             \* listExpiredCb()'s local, NoTime outside
    cbs,                \* the timers whose callbacks a looper has collected
    cancelled,          \* history: cancel() returned true
    fired,              \* history: a one-shot's callback went to the scheduler
    setBack             \* history: the clock was set back

fields  == <<m_next, m_ms, m_cb, m_recurring>>
loops   == <<deadline, now_ms, cbs>>
history == <<cancelled, fired>>
vars    == <<m_timers, fields, m_tickled, m_previouseTime, clock, adding,
             notifying, pipe, loops, history, setBack>>

-----------------------------------------------------------------------------
Entry(t) == <<m_next[t], t>>

(* m_timers.find(shared_from_this()) != end()                              *)
Found(t) == Entry(t) \in m_timers

(* The timers that were put under management, and those a client has a     *)
(* pointer to: addTimer() has returned.                                    *)
Managed == {t \in Timer : m_next[t] # NoTime} \ adding
Known   == {t \in Managed : <<"addTimer", t>> \notin notifying}

Keys(S) == {e[1] : e \in S}

Asking(l)  == deadline[l] = NoTime /\ now_ms[l] = NoTime /\ cbs[l] = {}
Waiting(l) == deadline[l] # NoTime

Init ==
    /\ clock \in Clock
    /\ m_timers = {}
    /\ m_next = [t \in Timer |-> NoTime]
    /\ m_ms = [t \in Timer |-> 0]
    /\ m_cb = [t \in Timer |-> FALSE]
    /\ m_recurring = [t \in Timer |-> FALSE]
    /\ m_tickled = FALSE
    /\ m_previouseTime = clock
    /\ adding = {} /\ notifying = {} /\ pipe = FALSE
    /\ deadline = [l \in Looper |-> NoTime]
    /\ now_ms = [l \in Looper |-> NoTime]
    /\ cbs = [l \in Looper |-> {}]
    /\ cancelled = {} /\ fired = {}
    /\ setBack = FALSE

-----------------------------------------------------------------------------
(* addTimer(val, lock): insert e into S, the set before, and notify if e   *)
(* is now the first one and no notification is outstanding.                *)
addTimer(call, e, S) ==
    LET at_front == (\A k \in Keys(S) : e[1] <= k) /\ ~m_tickled
    IN  /\ m_timers' = S \cup {e}
        /\ m_tickled' = (m_tickled \/ at_front)
        /\ notifying' = IF at_front THEN notifying \cup {<<call, e[2]>>} ELSE notifying

(* addTimer(ms, cb, recurring): the constructor computes the due time ...  *)
NewTimer(t, ms, recurring) ==
    /\ m_next[t] = NoTime
    /\ m_next' = [m_next EXCEPT ![t] = clock + ms]
    /\ m_ms' = [m_ms EXCEPT ![t] = ms]
    /\ m_cb' = [m_cb EXCEPT ![t] = TRUE]
    /\ m_recurring' = [m_recurring EXCEPT ![t] = recurring]
    /\ adding' = adding \cup {t}
    /\ UNCHANGED <<m_timers, m_tickled, m_previouseTime, clock, notifying, pipe,
                   loops, history, setBack>>

(* ... and the timer goes in under the lock.                               *)
InsertTimer(t) ==
    /\ t \in adding
    /\ adding' = adding \ {t}
    /\ addTimer("addTimer", Entry(t), m_timers)
    /\ UNCHANGED <<fields, m_previouseTime, clock, pipe, loops, history, setBack>>

(* onTimerInsertedAtFront(), which is tickle(): a byte into the pipe,      *)
(* unless no thread is idle.  A looper that waits is idle; one that is     *)
(* awake may have left idle() to run fibers.                               *)
Notify(call, t) ==
    /\ <<call, t>> \in notifying
    /\ notifying' = notifying \ {<<call, t>>}
    /\ \/ pipe' = TRUE
       \/ (\A l \in Looper : ~Waiting(l)) /\ UNCHANGED pipe
    /\ UNCHANGED <<m_timers, fields, m_tickled, m_previouseTime, clock, adding,
                   loops, history, setBack>>

(* cancel()                                                                *)
Cancel(t) ==
    /\ t \in Known
    /\ m_cb[t]
    /\ m_cb' = [m_cb EXCEPT ![t] = FALSE]
    /\ m_timers' = m_timers \ {Entry(t)}
    /\ cancelled' = cancelled \cup {t}
    /\ UNCHANGED <<m_next, m_ms, m_recurring, m_tickled, m_previouseTime, clock,
                   adding, notifying, pipe, loops, fired, setBack>>

(* Mutant of Refresh: m_next moves before the timer is looked up.          *)
RefreshBeforeFind(t) ==
    /\ t \in Known
    /\ m_cb[t]
    /\ m_next' = [m_next EXCEPT ![t] = clock + m_ms[t]]
    /\ UNCHANGED <<m_timers, m_ms, m_cb, m_recurring, m_tickled, m_previouseTime,
                   clock, adding, notifying, pipe, loops, history, setBack>>

(* refresh(): due one period from now; the front is not looked at.         *)
Refresh(t) ==
    /\ t \in Known
    /\ m_cb[t] /\ Found(t)
    /\ m_next' = [m_next EXCEPT ![t] = clock + m_ms[t]]
    /\ m_timers' = (m_timers \ {Entry(t)}) \cup {<<clock + m_ms[t], t>>}
    /\ UNCHANGED <<m_ms, m_cb, m_recurring, m_tickled, m_previouseTime, clock,
                   adding, notifying, pipe, loops, history, setBack>>

(* reset(ms, from_now): a new period, from now or from the old start.  (A  *)
(* call that finds the period as it is, not from now, returns at once.  It *)
(* looks without the lock: another reset() may change the period until the *)
(* call has the lock, so what it saw says nothing here.)                   *)
Reset(t, ms, from_now) ==
    /\ t \in Known
    /\ m_cb[t] /\ Found(t)
    /\ LET start == IF from_now THEN clock ELSE m_next[t] - m_ms[t]
           next  == start + ms
       IN  /\ m_next' = [m_next EXCEPT ![t] = next]
           /\ addTimer("reset", <<next, t>>, m_timers \ {Entry(t)})
    /\ m_ms' = [m_ms EXCEPT ![t] = ms]
    /\ UNCHANGED <<m_cb, m_recurring, m_previouseTime, clock, adding, pipe, loops,
                   history, setBack>>

-----------------------------------------------------------------------------
(* The idle loop.                                                          *)

(* getNextTimer(): when is the first timer due?  (Taken out of now_ms >=   *)
(* m_next: the sleep ends at once.)                                        *)
NextTimer ==
    IF m_timers = {} THEN Never
    ELSE LET next == CHOOSE k \in Keys(m_timers) : \A j \in Keys(m_timers) : k <= j
         IN  IF clock >= next THEN clock ELSE next

(* Mutants of Sleep: m_tickled stays set; sleep before the callbacks that  *)
(* were collected are handed over.                                         *)
SleepTickled(l) ==
    /\ Asking(l)
    /\ deadline' = [deadline EXCEPT ![l] = NextTimer]
    /\ UNCHANGED <<m_timers, fields, m_tickled, m_previouseTime, clock, adding,
                   notifying, pipe, now_ms, cbs, history, setBack>>

SleepUndelivered(l) ==
    /\ deadline[l] = NoTime /\ now_ms[l] = NoTime
    /\ m_tickled' = FALSE
    /\ deadline' = [deadline EXCEPT ![l] = NextTimer]
    /\ UNCHANGED <<m_timers, fields, m_previouseTime, clock, adding, notifying,
                   pipe, now_ms, cbs, history, setBack>>

(* idle() asks and goes to sleep.  That it sleeps 3 s at most only adds    *)
(* wake-ups, and Awake is always possible.                                 *)
Sleep(l) ==
    /\ Asking(l)
    /\ m_tickled' = FALSE
    /\ deadline' = [deadline EXCEPT ![l] = NextTimer]
    /\ UNCHANGED <<m_timers, fields, m_previouseTime, clock, adding, notifying,
                   pipe, now_ms, cbs, history, setBack>>

(* Scheduler::stop() asks through stopping() as well, and does not sleep.  *)
AskOnly ==
    /\ m_tickled /\ m_tickled' = FALSE
    /\ UNCHANGED <<m_timers, fields, m_previouseTime, clock, adding, notifying,
                   pipe, loops, history, setBack>>

(* epoll_wait() returns, for whatever reason; then the first statement of  *)
(* listExpiredCb(), which reads the clock.                                 *)
Awake(l) ==
    /\ Waiting(l)
    /\ deadline' = [deadline EXCEPT ![l] = NoTime]
    /\ now_ms' = [now_ms EXCEPT ![l] = clock]
    /\ UNCHANGED <<m_timers, fields, m_tickled, m_previouseTime, clock, adding,
                   notifying, pipe, cbs, history, setBack>>

(* A looper that is awake has the event of the pipe and empties the pipe.  *)
Drain(l) ==
    /\ ~Waiting(l)
    /\ pipe /\ pipe' = FALSE
    /\ UNCHANGED <<m_timers, fields, m_tickled, m_previouseTime, clock, adding,
                   notifying, loops, history, setBack>>

(* Mutant of detectClockRollover: any step back counts.                    *)
AnyStepBack(n) == n < m_previouseTime

(* detectClockRollover(), the test: more than an hour behind the last call.*)
detectClockRollover(n) == n < m_previouseTime /\ n < m_previouseTime - Hour

(* What leaves the set: everything after a rollover, else what is due.     *)
Expired(n) ==
    IF detectClockRollover(n) THEN m_timers ELSE {e \in m_timers : e[1] <= n}

(* With no timers at all m_previouseTime is left alone.                    *)
CollectNone(l) ==
    /\ now_ms[l] # NoTime
    /\ m_timers = {}
    /\ now_ms' = [now_ms EXCEPT ![l] = NoTime]
    /\ UNCHANGED <<m_timers, fields, m_tickled, m_previouseTime, clock, adding,
                   notifying, pipe, deadline, cbs, cancelled, fired, setBack>>

(* Mutant of Collect: a one-shot timer keeps its callback.                 *)
CollectKeepsCb(l) ==
    /\ now_ms[l] # NoTime
    /\ m_timers # {}
    /\ LET n       == now_ms[l]
           expired == Expired(n)
           due     == {e[2] : e \in expired}
           again   == {t \in due : m_recurring[t]}
       IN  /\ m_next' = [t \in Timer |->
                            IF t \in again THEN n + m_ms[t] ELSE m_next[t]]
           /\ m_timers' = (m_timers \ expired)
                            \cup {<<n + m_ms[t], t>> : t \in again}
           /\ cbs' = [cbs EXCEPT ![l] = due]
           /\ m_previouseTime' = n
    /\ now_ms' = [now_ms EXCEPT ![l] = NoTime]
    /\ UNCHANGED <<m_ms, m_cb, m_recurring, m_tickled, clock, adding, notifying,
                   pipe, deadline, history, setBack>>

(* Recurring timers go back in, one period after the time that was read;   *)
(* one-shot timers lose their callback.                                    *)
Collect(l) ==
    /\ now_ms[l] # NoTime
    /\ m_timers # {}
    /\ LET n       == now_ms[l]
           expired == Expired(n)
           due     == {e[2] : e \in expired}
           again   == {t \in due : m_recurring[t]}
       IN  /\ m_next' = [t \in Timer |->
                            IF t \in again THEN n + m_ms[t] ELSE m_next[t]]
           /\ m_cb' = [t \in Timer |-> m_cb[t] /\ t \notin due \ again]
           /\ m_timers' = (m_timers \ expired)
                            \cup {<<n + m_ms[t], t>> : t \in again}
           /\ cbs' = [cbs EXCEPT ![l] = due]
           /\ m_previouseTime' = n
    /\ now_ms' = [now_ms EXCEPT ![l] = NoTime]
    /\ UNCHANGED <<m_ms, m_recurring, m_tickled, clock, adding, notifying, pipe,
                   deadline, cancelled, fired, setBack>>

(* idle() hands the callbacks to schedule(begin, end).                     *)
Deliver(l) ==
    /\ cbs[l] # {}
    /\ fired' = fired \cup {t \in cbs[l] : ~m_recurring[t]}
    /\ cbs' = [cbs EXCEPT ![l] = {}]
    /\ UNCHANGED <<m_timers, fields, m_tickled, m_previouseTime, clock, adding,
                   notifying, pipe, deadline, now_ms, cancelled, setBack>>

-----------------------------------------------------------------------------
(* The clock.                                                              *)
Tick ==
    /\ clock < MaxClock
    /\ \A l \in Looper : now_ms[l] # NoTime => clock < now_ms[l] + Stall
    /\ clock' = clock + 1
    /\ UNCHANGED <<m_timers, fields, m_tickled, m_previouseTime, adding, notifying,
                   pipe, loops, history, setBack>>

SetBack ==
    /\ clock' \in MinClock .. clock - 1
    /\ setBack' = TRUE
    /\ UNCHANGED <<m_timers, fields, m_tickled, m_previouseTime, adding, notifying,
                   pipe, loops, history>>

Client(t) ==
    \/ \E ms \in Period, r \in BOOLEAN : NewTimer(t, ms, r)
    \/ InsertTimer(t) \/ Cancel(t) \/ Refresh(t)
    \/ \E call \in {"addTimer", "reset"} : Notify(call, t)
    \/ \E ms \in Period, from_now \in BOOLEAN : Reset(t, ms, from_now)

Loop(l) ==
    Sleep(l) \/ Awake(l) \/ Drain(l) \/ CollectNone(l) \/ Collect(l) \/ Deliver(l)

Next ==
    \/ \E t \in Timer : Client(t)
    \/ \E l \in Looper : Loop(l)
    \/ AskOnly \/ Tick \/ SetBack

Spec == Init /\ [][Next]_vars

-----------------------------------------------------------------------------
(* Properties.                                                             *)

(* Every field is of its C++ type (a set of callbacks stands for the       *)
(* vector), and the phases of listExpiredCb() exclude each other.          *)
TypeOK ==
    /\ m_timers \subseteq Nat \X Timer
    /\ m_next \in [Timer -> Nat \cup {NoTime}]
    /\ m_ms \in [Timer -> Nat]
    /\ m_cb \in [Timer -> BOOLEAN] /\ m_recurring \in [Timer -> BOOLEAN]
    /\ m_tickled \in BOOLEAN /\ pipe \in BOOLEAN /\ setBack \in BOOLEAN
    /\ m_previouseTime \in Nat /\ clock \in Clock 
    /\ adding \subseteq Timer /\ notifying \subseteq {"addTimer", "reset"} \X Timer
    /\ deadline \in [Looper -> Nat \cup {NoTime}]
    /\ now_ms \in [Looper -> Clock \cup {NoTime}]
    /\ cbs \in [Looper -> SUBSET Timer]
    /\ cancelled \subseteq Timer /\ fired \subseteq Timer
    /\ \A l \in Looper : Waiting(l) => now_ms[l] = NoTime /\ cbs[l] = {}
    /\ \A l \in Looper : now_ms[l] # NoTime => cbs[l] = {}

(* The set and the timers agree: a timer that clients hold has a callback  *)
(* exactly when it is in m_timers, once, under its present m_next.  cancel *)
(* erases find()'s result without a test, which is undefined at end(), and *)
(* a timer whose m_next moved while it was in the set is never found.      *)
SetSync == m_timers = {Entry(t) : t \in {u \in Managed : m_cb[u]}}

(* A one-shot timer comes to one end: while clients hold it, it is in the  *)
(* set, in the hands of one looper, handed to the scheduler or cancelled   *)
(* (cancel() returned true): exactly one of these, whichever threads race. *)
Pending   == {e[2] : e \in m_timers}
InHand(l) == {t \in cbs[l] : ~m_recurring[t]}

OneOutcome ==
    /\ \A t \in {u \in Managed : ~m_recurring[u]} :
        /\ t \in Pending \cup cancelled \cup fired \cup UNION {cbs[l] : l \in Looper}
        /\ t \in Pending => t \notin cancelled \cup fired
        /\ t \in cancelled => t \notin fired
    /\ \A l \in Looper :
        /\ InHand(l) \cap (Pending \cup cancelled \cup fired) = {}
        /\ \A k \in Looper \ {l} : InHand(l) \cap InHand(k) = {}

(* As long as nobody sets the clock back no timer is collected before it   *)
(* is due, although loopers come to listExpiredCb()'s lock out of the      *)
(* order in which they read the clock.                                     *)
NeverEarly ==
    [][\A l \in Looper : (~setBack /\ Collect(l))
            => \A t \in cbs'[l] : m_next[t] <= now_ms[l]]_vars

(* No lost wake-up: when every looper sleeps, one of them wakes by the     *)
(* time the first timer is due, or a tickle is on its way to one.  (A      *)
(* clock set back makes deadlines, which the kernel counts in elapsed      *)
(* time, and due times incomparable.)                                      *)
WaitersCovered ==
    (~setBack /\ \A l \in Looper : Waiting(l)) =>
        \/ pipe \/ notifying # {}
        \/ \A k \in Keys(m_timers) : \E l \in Looper :
                deadline[l] <= k \/ deadline[l] <= clock
=============================================================================
