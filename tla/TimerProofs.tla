----------------------------- MODULE TimerProofs -----------------------------
(***************************************************************************)
(* Safety of TimerManager for every number of timers and loopers: the type *)
(* invariant, SetSync, OneOutcome, NeverEarly and WaitersCovered.          *)
(***************************************************************************)
EXTENDS TimerManager, TLAPS, WellFoundedInduction

-----------------------------------------------------------------------------
(* The inductive invariant.                                                *)

(* A timer starts its period at a time the clock has shown.                *)
StartOK ==
    \A t \in Timer : m_next[t] # NoTime =>
        /\ m_ms[t] <= m_next[t]
        /\ ~setBack => m_next[t] <= clock + m_ms[t]

AddingOK == \A t \in adding : m_next[t] # NoTime /\ m_cb[t]

(* Timers that were collected, fired or cancelled are managed, and no      *)
(* one-shot among them has a callback any more.                            *)
FinishedOK ==
    /\ \A t \in Timer : m_cb[t] => m_next[t] # NoTime
    /\ cancelled \subseteq Managed /\ fired \subseteq Managed
    /\ \A t \in cancelled \cup fired : ~m_cb[t]
    /\ \A l \in Looper : cbs[l] \subseteq Managed
    /\ \A l \in Looper : \A t \in InHand(l) : ~m_cb[t]

(* Until the clock is set back, a looper that has read it is at most Stall *)
(* behind.                                                                 *)
ClockOK ==
    ~setBack =>
        /\ m_previouseTime <= clock
        /\ \A l \in Looper : now_ms[l] # NoTime =>
             now_ms[l] <= clock /\ clock <= now_ms[l] + Stall

(* m_tickled is set while all sleep: the notification is on its way.       *)
TickledOK ==
    m_tickled /\ (\A l \in Looper : Waiting(l)) => pipe \/ notifying # {}

Inv ==
    /\ TypeOK /\ SetSync /\ OneOutcome
    /\ StartOK /\ AddingOK /\ FinishedOK /\ ClockOK
    /\ TickledOK /\ WaitersCovered

-----------------------------------------------------------------------------
(* Lemmas.                                                                 *)

(* A set of numbers has a smallest one.                                    *)
LEMMA LessThanWellFounded ==
    IsWellFoundedOn({p \in Nat \X Nat : p[1] < p[2]}, Nat)
BY NatLessThanWellFounded, Zenon DEF OpToRel

LEMMA MinimumExists ==
    ASSUME NEW S \in SUBSET Nat, S # {}
    PROVE  \E x \in S : \A y \in S : x <= y
<1> DEFINE R == {p \in Nat \X Nat : p[1] < p[2]}
<1>1. \E x \in S : \A y \in S : ~(<<y, x>> \in R)
    <2>1. IsWellFoundedOn(R, Nat)
        BY LessThanWellFounded
    <2> HIDE DEF R
    <2>2. QED
        BY <2>1, WFMin, Zenon
<1>2. \A x, y \in Nat : ~(<<y, x>> \in R) => x <= y
    OBVIOUS
<1>3. QED
    BY <1>1, <1>2

(* What getNextTimer() answers is a time, and no timer is due between now  *)
(* and then.                                                               *)
LEMMA NextTimerFacts ==
    ASSUME TypeOK
    PROVE  /\ NextTimer \in Nat
           /\ \A k \in Keys(m_timers) : NextTimer <= k \/ NextTimer <= clock
<1> USE TimerAssumption
<1>1. Keys(m_timers) \in SUBSET Nat
    BY DEF TypeOK, Keys
<1>2. clock \in Nat
    BY DEF TypeOK, Clock
<1>3. CASE m_timers = {}
    BY <1>3 DEF NextTimer, Keys
<1>4. CASE m_timers # {}
    <2>1. Keys(m_timers) # {}
        BY <1>4 DEF Keys
    <2> DEFINE next == CHOOSE k \in Keys(m_timers) : \A j \in Keys(m_timers) : k <= j
    <2>2. next \in Keys(m_timers) /\ \A j \in Keys(m_timers) : next <= j
        BY <1>1, <2>1, MinimumExists
    <2>3. NextTimer = IF clock >= next THEN clock ELSE next
        BY <1>4 DEF NextTimer
    <2> HIDE DEF next
    <2>4. QED
        BY <1>1, <1>2, <2>2, <2>3
<1>5. QED
    BY <1>3, <1>4

(* Every entry of the set is the entry of a managed timer.                 *)
LEMMA EntryFacts ==
    ASSUME TypeOK, SetSync
    PROVE  /\ \A e \in m_timers : /\ e[2] \in Managed /\ m_cb[e[2]]
                                  /\ e[1] = m_next[e[2]] /\ e[1] \in Nat
           /\ \A t \in Managed : m_cb[t] => Entry(t) \in m_timers
           /\ Pending = {t \in Managed : m_cb[t]}
<1>1. \A e \in m_timers : e[2] \in Managed /\ m_cb[e[2]] /\ e[1] = m_next[e[2]]
    BY DEF SetSync, Entry
<1>2. \A e \in m_timers : e[1] \in Nat
    BY DEF TypeOK
<1>3. \A t \in Managed : m_cb[t] => Entry(t) \in m_timers
    BY DEF SetSync
<1>4. Pending = {t \in Managed : m_cb[t]}
    <2>1. ASSUME NEW t \in Managed, m_cb[t]
          PROVE  t \in Pending
        <3>1. Entry(t) \in m_timers /\ Entry(t)[2] = t
            BY <1>3, <2>1 DEF Entry
        <3>2. QED
            BY <3>1, Zenon DEF Pending
    <2>2. \A t \in Pending : t \in Managed /\ m_cb[t]
        BY <1>1 DEF Pending
    <2>3. QED
        BY <2>1, <2>2
<1>5. QED
    BY <1>1, <1>2, <1>3, <1>4

(* What Collect does, in terms of the timers it takes (cbs'[l]).           *)
LEMMA CollectFacts ==
    ASSUME TypeOK, SetSync, NEW l \in Looper, Collect(l)
    PROVE  /\ now_ms[l] \in Clock /\ now_ms[l] \in Nat /\ now_ms[l] # NoTime
           /\ cbs[l] = {} /\ ~Waiting(l)
           /\ cbs' = [cbs EXCEPT ![l] = cbs'[l]]
           /\ cbs'[l] \subseteq Pending /\ Pending \subseteq Timer
           /\ m_next' = [t \in Timer |->
                            IF t \in cbs'[l] /\ m_recurring[t]
                            THEN now_ms[l] + m_ms[t] ELSE m_next[t]]
           /\ m_cb' = [t \in Timer |-> m_cb[t] /\ (t \in cbs'[l] => m_recurring[t])]
           /\ m_previouseTime' = now_ms[l]
           /\ now_ms' = [now_ms EXCEPT ![l] = NoTime]
           /\ \A t \in cbs'[l] : m_next[t] <= now_ms[l] \/ detectClockRollover(now_ms[l])
           /\ m_timers' = {e \in m_timers : e[2] \notin cbs'[l]}
                    \cup {<<now_ms[l] + m_ms[t], t>> : t \in {u \in cbs'[l] : m_recurring[u]}}
           /\ UNCHANGED <<m_ms, m_recurring, m_tickled, clock, adding, notifying,
                          pipe, deadline, history, setBack>>
<1> USE TimerAssumption
<1> DEFINE n == now_ms[l]
           due == {e[2] : e \in Expired(n)}
           again == {t \in due : m_recurring[t]}
<1>1. n \in Clock /\ n \in Nat /\ n # NoTime
    BY DEF Collect, TypeOK, Clock
<1>2. cbs[l] = {} /\ ~Waiting(l)
    BY <1>1 DEF TypeOK
<1>3. Expired(n) \subseteq m_timers
    BY DEF Expired
<1>4. due \subseteq Pending /\ Pending \subseteq Timer
    BY <1>3 DEF TypeOK, Pending
<1>5. \A e \in m_timers : e \in Expired(n) <=> e[2] \in due
    <2>1. \A e \in m_timers : e = <<m_next[e[2]], e[2]>>
        BY DEF SetSync, Entry
    <2>2. QED
        BY <1>3, <2>1
<1>6. /\ m_next' = [t \in Timer |-> IF t \in again THEN n + m_ms[t] ELSE m_next[t]]
      /\ m_cb' = [t \in Timer |-> m_cb[t] /\ t \notin due \ again]
      /\ m_timers' = (m_timers \ Expired(n)) \cup {<<n + m_ms[t], t>> : t \in again}
      /\ cbs' = [cbs EXCEPT ![l] = due]
      /\ m_previouseTime' = n
      /\ now_ms' = [now_ms EXCEPT ![l] = NoTime]
      /\ UNCHANGED <<m_ms, m_recurring, m_tickled, clock, adding, notifying,
                     pipe, deadline, history, setBack>>
    BY DEF Collect, history
<1>7. cbs'[l] = due
    BY <1>6 DEF TypeOK
<1>8. \A t \in due : m_next[t] <= n \/ detectClockRollover(n)
    <2>1. \A e \in Expired(n) : e[1] <= n \/ detectClockRollover(n)
        BY DEF Expired
    <2>2. \A e \in Expired(n) : e[1] = m_next[e[2]]
        BY <1>3, EntryFacts
    <2>3. QED
        BY <2>1, <2>2
<1>9. m_timers \ Expired(n) = {e \in m_timers : e[2] \notin due}
    BY <1>5
<1> HIDE DEF due
<1>10. \A t \in Timer : (t \in again) <=> (t \in due /\ m_recurring[t])
    OBVIOUS
<1>11. m_cb' = [t \in Timer |-> m_cb[t] /\ (t \in due => m_recurring[t])]
    BY <1>6, Zenon DEF TypeOK
<1>12. QED
    BY <1>1, <1>2, <1>4, <1>6, <1>7, <1>8, <1>9, <1>11

LEMMA CollectManaged ==
    ASSUME TypeOK, SetSync, NEW l \in Looper, Collect(l)
    PROVE  Managed' = Managed
<1> USE TimerAssumption
<1>1. cbs'[l] \subseteq Managed /\ now_ms[l] \in Nat /\ adding' = adding
    BY CollectFacts, EntryFacts
<1>2. \A t \in cbs'[l] : now_ms[l] + m_ms[t] # NoTime /\ m_next[t] # NoTime
    BY <1>1 DEF TypeOK, Managed
<1>3. \A t \in Timer : m_next'[t] = IF t \in cbs'[l] /\ m_recurring[t]
                                    THEN now_ms[l] + m_ms[t] ELSE m_next[t]
    BY CollectFacts
<1>4. \A t \in Timer : m_next'[t] # NoTime <=> m_next[t] # NoTime
    BY <1>2, <1>3
<1>5. QED
    BY <1>1, <1>4 DEF Managed

(* The due time reset() computes.                                          *)
LEMMA ResetNext ==
    ASSUME TypeOK, StartOK, NEW t \in Managed, NEW ms \in Period,
           NEW from_now \in BOOLEAN
    PROVE  (IF from_now THEN clock ELSE m_next[t] - m_ms[t]) + ms \in Nat
<1> USE TimerAssumption
<1>1. m_next[t] \in Nat /\ m_ms[t] \in Nat /\ m_ms[t] <= m_next[t]
    BY DEF TypeOK, StartOK, Managed
<1>2. clock \in Nat
    BY DEF TypeOK, Clock
<1>3. (IF from_now THEN clock ELSE m_next[t] - m_ms[t]) \in Nat
    BY <1>1, <1>2
<1>4. QED
    BY <1>3

-----------------------------------------------------------------------------
(* The type invariant.                                                     *)
LEMMA TypeStep ==
    ASSUME Inv, [Next]_vars
    PROVE  TypeOK'
<1> USE TimerAssumption
<1>0. TypeOK /\ SetSync /\ StartOK /\ Clock \subseteq Nat
    BY DEF Inv, Clock
<1>1. ASSUME NEW t \in Timer, NEW ms \in Period, NEW r \in BOOLEAN,
             NewTimer(t, ms, r)
      PROVE  TypeOK'
    BY <1>0, <1>1 DEF TypeOK, NewTimer, loops, history, Waiting
<1>2. ASSUME NEW t \in Timer, InsertTimer(t)
      PROVE  TypeOK'
    <2>1. Entry(t) \in Nat \X Timer
        BY <1>0, <1>2 DEF Inv, AddingOK, InsertTimer, TypeOK, Entry
    <2>2. QED
        BY <1>0, <1>2, <2>1
        DEF TypeOK, InsertTimer, addTimer, fields, loops, history, Waiting, Entry
<1>3. ASSUME NEW t \in Timer, NEW call \in {"addTimer", "reset"}, Notify(call, t)
      PROVE  TypeOK'
    BY <1>0, <1>3 DEF TypeOK, Notify, fields, loops, history, Waiting
<1>4. ASSUME NEW t \in Timer, Cancel(t)
      PROVE  TypeOK'
    BY <1>0, <1>4 DEF TypeOK, Cancel, loops, Waiting
<1>5. ASSUME NEW t \in Timer, Refresh(t)
      PROVE  TypeOK'
    BY <1>0, <1>5 DEF TypeOK, Refresh, loops, history, Waiting
<1>6. ASSUME NEW t \in Timer, NEW ms \in Period, NEW from_now \in BOOLEAN,
             Reset(t, ms, from_now)
      PROVE  TypeOK'
    <2> DEFINE start == IF from_now THEN clock ELSE m_next[t] - m_ms[t]
    <2>1. start + ms \in Nat
        BY <1>0, <1>6, ResetNext DEF Reset, Known
    <2>2. /\ m_next' = [m_next EXCEPT ![t] = start + ms]
          /\ m_ms' = [m_ms EXCEPT ![t] = ms]
          /\ addTimer("reset", <<start + ms, t>>, m_timers \ {Entry(t)})
          /\ UNCHANGED <<m_cb, m_recurring, m_previouseTime, clock, adding, pipe,
                         loops, history, setBack>>
        BY <1>6 DEF Reset
    <2> HIDE DEF start
    <2>3. QED
        BY <1>0, <2>1, <2>2 DEF TypeOK, addTimer, loops, history, Waiting
<1>7. ASSUME NEW l \in Looper, Sleep(l)
      PROVE  TypeOK'
    BY <1>0, <1>7, NextTimerFacts
    DEF TypeOK, Sleep, fields, history, Waiting, Asking
<1>8. ASSUME NEW l \in Looper, Awake(l)
      PROVE  TypeOK'
    BY <1>0, <1>8 DEF TypeOK, Awake, fields, history, Waiting
<1>9. ASSUME NEW l \in Looper, Drain(l)
      PROVE  TypeOK'
    BY <1>0, <1>9 DEF TypeOK, Drain, fields, loops, history, Waiting
<1>10. ASSUME NEW l \in Looper, CollectNone(l)
       PROVE  TypeOK'
    BY <1>0, <1>10 DEF TypeOK, CollectNone, fields, Waiting
<1>11. ASSUME NEW l \in Looper, Collect(l)
       PROVE  TypeOK'
    <2>1. \A t \in cbs'[l] : now_ms[l] + m_ms[t] \in Nat
        BY <1>0, <1>11, CollectFacts DEF TypeOK
    <2>2. m_timers' \subseteq Nat \X Timer
        BY <1>0, <1>11, <2>1, CollectFacts DEF TypeOK
    <2>3. m_next' \in [Timer -> Nat \cup {NoTime}]
        BY <1>0, <1>11, <2>1, CollectFacts DEF TypeOK
    <2>4. m_cb' \in [Timer -> BOOLEAN]
        BY <1>0, <1>11, CollectFacts DEF TypeOK
    <2>5. cbs' \in [Looper -> SUBSET Timer]
        BY <1>0, <1>11, CollectFacts DEF TypeOK
    <2>6. \A k \in Looper : Waiting(k)' => now_ms'[k] = NoTime /\ cbs'[k] = {}
        BY <1>0, <1>11, CollectFacts DEF TypeOK, Waiting
    <2>7. \A k \in Looper : now_ms'[k] # NoTime => cbs'[k] = {}
        BY <1>0, <1>11, CollectFacts DEF TypeOK
    <2>8. QED
        BY <1>0, <1>11, <2>2, <2>3, <2>4, <2>5, <2>6, <2>7, CollectFacts
        DEF TypeOK, history
<1>12. ASSUME NEW l \in Looper, Deliver(l)
       PROVE  TypeOK'
    BY <1>0, <1>12 DEF TypeOK, Deliver, fields, Waiting
<1>13. CASE AskOnly
    BY <1>0, <1>13 DEF TypeOK, AskOnly, fields, loops, history, Waiting
<1>14. CASE Tick
    BY <1>0, <1>14 DEF TypeOK, Tick, fields, loops, history, Waiting, Clock
<1>15. CASE SetBack
    BY <1>0, <1>15 DEF TypeOK, SetBack, fields, loops, history, Waiting, Clock
<1>16. CASE UNCHANGED vars
    BY <1>0, <1>16 DEF TypeOK, vars, fields, loops, history, Waiting
<1>17. QED
    BY <1>1, <1>2, <1>3, <1>4, <1>5, <1>6, <1>7, <1>8, <1>9, <1>10, <1>11,
       <1>12, <1>13, <1>14, <1>15, <1>16
    DEF Next, Client, Loop

-----------------------------------------------------------------------------
(* The set and the timers agree.                                           *)
LEMMA SetSyncStep ==
    ASSUME Inv, [Next]_vars
    PROVE  SetSync'
<1> USE TimerAssumption
<1>0. TypeOK /\ SetSync /\ AddingOK /\ FinishedOK
    BY DEF Inv
<1>1. ASSUME NEW t \in Timer, NEW ms \in Period, NEW r \in BOOLEAN,
             NewTimer(t, ms, r)
      PROVE  SetSync'
    <2>1. Managed' = Managed /\ t \notin Managed
        BY <1>0, <1>1 DEF NewTimer, Managed, TypeOK
    <2>2. \A u \in Managed : Entry(u)' = Entry(u) /\ m_cb'[u] = m_cb[u]
        BY <1>0, <1>1, <2>1 DEF NewTimer, Entry, TypeOK, Managed
    <2>3. m_timers' = m_timers
        BY <1>1 DEF NewTimer
    <2>4. QED
        BY <1>0, <2>1, <2>2, <2>3 DEF SetSync
<1>2. ASSUME NEW t \in Timer, InsertTimer(t)
      PROVE  SetSync'
    <2>1. Managed' = Managed \cup {t} /\ m_cb[t]
        BY <1>0, <1>2 DEF InsertTimer, Managed, TypeOK, fields, AddingOK
    <2>2. \A u \in Timer : Entry(u)' = Entry(u)
        BY <1>2 DEF InsertTimer, Entry, fields
    <2>3. m_timers' = m_timers \cup {Entry(t)} /\ m_cb' = m_cb
        BY <1>2 DEF InsertTimer, addTimer, fields
    <2>4. QED
        BY <1>0, <2>1, <2>2, <2>3 DEF SetSync, Managed
<1>3. ASSUME NEW t \in Timer, Cancel(t)
      PROVE  SetSync'
    <2>1. Managed' = Managed /\ m_timers' = m_timers \ {Entry(t)}
        BY <1>3 DEF Cancel, Managed
    <2>2. \A u \in Managed : Entry(u)' = Entry(u) /\ (m_cb'[u] <=> m_cb[u] /\ u # t)
        BY <1>0, <1>3 DEF Cancel, Entry, Managed, TypeOK
    <2>3. \A u \in Managed : Entry(u) = Entry(t) => u = t
        BY DEF Entry
    <2>4. QED
        BY <1>0, <2>1, <2>2, <2>3 DEF SetSync
<1>4. ASSUME NEW t \in Timer, NEW next,
             next # NoTime, t \in Managed, m_cb[t],
             m_next' = [m_next EXCEPT ![t] = next],
             m_timers' = (m_timers \ {Entry(t)}) \cup {<<next, t>>},
             m_cb' = m_cb, adding' = adding
      PROVE  SetSync'
    <2>1. Managed' = Managed
        BY <1>0, <1>4 DEF Managed, TypeOK
    <2>2. \A u \in Managed \ {t} : Entry(u)' = Entry(u)
        BY <1>0, <1>4 DEF Entry, Managed, TypeOK
    <2>3. Entry(t)' = <<next, t>>
        BY <1>0, <1>4 DEF Entry, TypeOK
    <2>4. \A u \in Managed : Entry(u) = Entry(t) => u = t
        BY DEF Entry
    <2>5. QED
        BY <1>0, <1>4, <2>1, <2>2, <2>3, <2>4 DEF SetSync
<1>5. ASSUME NEW t \in Timer, Refresh(t)
      PROVE  SetSync'
    <2>1. clock + m_ms[t] # NoTime
        BY <1>0 DEF TypeOK, Clock
    <2>2. QED
        BY <1>4, <1>5, <2>1 DEF Refresh, Known
<1>6. ASSUME NEW t \in Timer, NEW ms \in Period, NEW from_now \in BOOLEAN,
             Reset(t, ms, from_now)
      PROVE  SetSync'
    <2> DEFINE next == (IF from_now THEN clock ELSE m_next[t] - m_ms[t]) + ms
    <2>1. /\ t \in Known /\ m_cb[t]
          /\ m_next' = [m_next EXCEPT ![t] = next]
          /\ m_timers' = (m_timers \ {Entry(t)}) \cup {<<next, t>>}
          /\ m_cb' = m_cb /\ adding' = adding
        BY <1>0, <1>6 DEF Reset, addTimer, TypeOK
    <2>2. next # NoTime
        BY <1>0, <2>1, ResetNext DEF Known, Inv
    <2> HIDE DEF next
    <2>3. QED
        BY <1>4, <2>1, <2>2 DEF Known
<1>7. ASSUME NEW l \in Looper, Collect(l)
      PROVE  SetSync'
    <2> DEFINE n == now_ms[l]
               again == {u \in cbs'[l] : m_recurring[u]}
    <2>1. Managed' = Managed
        BY <1>0, <1>7, CollectManaged
    <2>2. \A u \in again : Entry(u)' = <<n + m_ms[u], u>> /\ u \in Managed
                           /\ m_cb[u] /\ m_cb'[u]
        BY <1>0, <1>7, CollectFacts, EntryFacts DEF Entry, TypeOK
    <2>3. \A u \in Timer \ cbs'[l] : Entry(u)' = Entry(u) /\ m_cb'[u] = m_cb[u]
        BY <1>0, <1>7, CollectFacts DEF Entry, TypeOK
    <2>4. \A u \in cbs'[l] \ again : ~m_cb'[u]
        BY <1>0, <1>7, CollectFacts DEF TypeOK
    <2>5. m_timers' = {e \in m_timers : e[2] \notin cbs'[l]}
                        \cup {<<n + m_ms[u], u>> : u \in again}
        BY <1>0, <1>7, CollectFacts
    <2>6. {e \in m_timers : e[2] \notin cbs'[l]}
            = {Entry(u) : u \in {v \in Managed : m_cb[v] /\ v \notin cbs'[l]}}
        <3>1. \A u : Entry(u)[2] = u
            BY DEF Entry
        <3>2. QED
            BY <1>0, <3>1 DEF SetSync
    <2>7. {v \in Managed : m_cb'[v]}
            = {v \in Managed : m_cb[v] /\ v \notin cbs'[l]} \cup again
        BY <2>2, <2>3, <2>4 DEF Managed
    <2> HIDE DEF again
    <2>8. {Entry(u)' : u \in {v \in Managed : m_cb[v] /\ v \notin cbs'[l]}}
            = {Entry(u) : u \in {v \in Managed : m_cb[v] /\ v \notin cbs'[l]}}
        BY <2>3 DEF Managed
    <2>9. {Entry(u)' : u \in again} = {<<n + m_ms[u], u>> : u \in again}
        BY <2>2
    <2>10. m_timers' = {Entry(u)' : u \in {v \in Managed : m_cb'[v]}}
        BY <2>5, <2>6, <2>7, <2>8, <2>9
    <2>11. QED
        BY <2>1, <2>10 DEF SetSync
<1>8. ASSUME UNCHANGED <<m_timers, fields, adding>>
      PROVE  SetSync'
    BY <1>0, <1>8 DEF SetSync, Managed, Entry, fields
<1>9. QED
    BY <1>1, <1>2, <1>3, <1>5, <1>6, <1>7, <1>8
    DEF Next, Client, Loop, Notify, Sleep, AskOnly, Awake, Drain, CollectNone,
        Deliver, Tick, SetBack, vars

-----------------------------------------------------------------------------
(* Where the timers started, who has been put under management.            *)
LEMMA StartStep ==
    ASSUME Inv, [Next]_vars
    PROVE  StartOK'
<1> USE TimerAssumption
<1>0. TypeOK /\ SetSync /\ StartOK /\ ClockOK /\ clock \in Nat
    BY DEF Inv, TypeOK, Clock
<1>1. ASSUME NEW t \in Timer, NEW ms \in Period, NEW r \in BOOLEAN,
             NewTimer(t, ms, r)
      PROVE  StartOK'
    BY <1>0, <1>1 DEF StartOK, NewTimer, TypeOK
<1>2. ASSUME NEW t \in Timer, Refresh(t)
      PROVE  StartOK'
    BY <1>0, <1>2 DEF StartOK, Refresh, TypeOK
<1>3. ASSUME NEW t \in Timer, NEW ms \in Period, NEW from_now \in BOOLEAN,
             Reset(t, ms, from_now)
      PROVE  StartOK'
    <2> DEFINE start == IF from_now THEN clock ELSE m_next[t] - m_ms[t]
    <2>1. /\ m_next' = [m_next EXCEPT ![t] = start + ms]
          /\ m_ms' = [m_ms EXCEPT ![t] = ms]
          /\ clock' = clock /\ setBack' = setBack
        BY <1>3 DEF Reset
    <2>2. start \in Nat /\ (~setBack => start <= clock)
        <3>1. /\ m_next[t] \in Nat /\ m_ms[t] \in Nat /\ m_ms[t] <= m_next[t]
              /\ ~setBack => m_next[t] <= clock + m_ms[t]
            BY <1>0, <1>3 DEF TypeOK, Reset, StartOK, Known, Managed
        <3>2. m_next[t] - m_ms[t] \in Nat
              /\ (~setBack => m_next[t] - m_ms[t] <= clock)
            BY <1>0, <3>1
        <3>3. QED
            BY <1>0, <3>2
    <2> HIDE DEF start
    <2>3. \A u \in Timer \ {t} : m_next'[u] = m_next[u] /\ m_ms'[u] = m_ms[u]
        BY <1>0, <2>1 DEF TypeOK
    <2>4. m_next'[t] = start + ms /\ m_ms'[t] = ms /\ ms \in Nat
        BY <1>0, <2>1 DEF TypeOK
    <2>5. m_ms'[t] <= m_next'[t] /\ (~setBack' => m_next'[t] <= clock' + m_ms'[t])
        BY <1>0, <2>1, <2>2, <2>4
    <2>6. QED
        BY <1>0, <2>1, <2>3, <2>5 DEF StartOK
<1>4. ASSUME NEW l \in Looper, Collect(l)
      PROVE  StartOK'
    <2> SUFFICES ASSUME NEW t \in Timer, m_next'[t] # NoTime
                 PROVE  /\ m_ms'[t] <= m_next'[t]
                        /\ ~setBack' => m_next'[t] <= clock' + m_ms'[t]
        BY DEF StartOK
    <2>1. now_ms[l] \in Nat /\ (~setBack => now_ms[l] <= clock)
        <3>1. now_ms[l] \in Nat /\ now_ms[l] # NoTime
            BY <1>0, <1>4, CollectFacts
        <3>2. QED
            BY <1>0, <3>1 DEF ClockOK
    <2>2. m_ms'[t] = m_ms[t] /\ m_ms[t] \in Nat /\ clock' = clock /\ setBack' = setBack
        BY <1>0, <1>4 DEF Collect, TypeOK
    <2>3. CASE t \in cbs'[l] /\ m_recurring[t]
        <3>1. m_next'[t] = now_ms[l] + m_ms[t]
            BY <1>0, <1>4, <2>3, CollectFacts
        <3>2. QED
            BY <1>0, <2>1, <2>2, <3>1
    <2>4. CASE ~(t \in cbs'[l] /\ m_recurring[t])
        <3>1. m_next'[t] = m_next[t]
            BY <1>0, <1>4, <2>4, CollectFacts
        <3>2. QED
            BY <1>0, <2>2, <3>1 DEF StartOK
    <2>5. QED
        BY <2>3, <2>4
<1>5. CASE Tick
    <2>1. clock' = clock + 1 /\ UNCHANGED <<m_next, m_ms, setBack>>
        BY <1>5 DEF Tick, fields
    <2>2. QED
        BY <1>0, <2>1 DEF StartOK, TypeOK
<1>6. CASE SetBack
    BY <1>0, <1>6 DEF StartOK, SetBack, fields
<1>7. ASSUME UNCHANGED <<m_next, m_ms, clock, setBack>>
      PROVE  StartOK'
    BY <1>0, <1>7 DEF StartOK
<1>8. QED
    BY <1>1, <1>2, <1>3, <1>4, <1>5, <1>6, <1>7
    DEF Next, Client, Loop, InsertTimer, Notify, Cancel, Sleep, AskOnly, Awake,
        Drain, CollectNone, Deliver, vars, fields

LEMMA AddingStep ==
    ASSUME Inv, [Next]_vars
    PROVE  AddingOK'
<1> USE TimerAssumption
<1>0. TypeOK /\ SetSync /\ AddingOK /\ clock \in Nat
    BY DEF Inv, TypeOK, Clock
<1>1. ASSUME NEW t \in Timer, NEW ms \in Period, NEW r \in BOOLEAN,
             NewTimer(t, ms, r)
      PROVE  AddingOK'
    BY <1>0, <1>1 DEF AddingOK, NewTimer, TypeOK
<1>2. ASSUME NEW t \in Timer, Cancel(t)
      PROVE  AddingOK'
    BY <1>0, <1>2 DEF AddingOK, Cancel, TypeOK, Known, Managed
<1>3. ASSUME NEW t \in Timer, Refresh(t)
      PROVE  AddingOK'
    BY <1>0, <1>3 DEF AddingOK, Refresh, TypeOK
<1>4. ASSUME NEW t \in Timer, NEW ms \in Period, NEW from_now \in BOOLEAN,
             Reset(t, ms, from_now)
      PROVE  AddingOK'
    <2>1. /\ \A u \in Timer \ {t} : m_next'[u] = m_next[u]
          /\ m_cb' = m_cb /\ adding' = adding /\ t \notin adding
        BY <1>0, <1>4 DEF Reset, TypeOK, Known, Managed
    <2>2. QED
        BY <1>0, <2>1 DEF AddingOK, TypeOK
<1>5. ASSUME NEW l \in Looper, Collect(l)
      PROVE  AddingOK'
    <2>1. cbs'[l] \cap adding = {}
        BY <1>0, <1>5, CollectFacts, EntryFacts DEF Managed
    <2>2. QED
        BY <1>0, <1>5, <2>1, CollectFacts DEF AddingOK, TypeOK
<1>6. ASSUME adding' \subseteq adding, UNCHANGED <<m_next, m_cb>>
      PROVE  AddingOK'
    BY <1>0, <1>6 DEF AddingOK
<1>7. QED
    BY <1>1, <1>2, <1>3, <1>4, <1>5, <1>6
    DEF Next, Client, Loop, InsertTimer, Notify, Sleep, AskOnly, Awake,
        Drain, CollectNone, Deliver, Tick, SetBack, vars, fields

-----------------------------------------------------------------------------
(* Collected, fired and cancelled timers; a one-shot comes to one end.     *)
LEMMA OutcomeStep ==
    ASSUME Inv, [Next]_vars
    PROVE  FinishedOK' /\ OneOutcome'
<1> USE TimerAssumption
<1>0. TypeOK /\ SetSync /\ AddingOK /\ FinishedOK /\ OneOutcome /\ clock \in Nat
    BY DEF Inv, TypeOK, Clock
<1>1. Pending = {t \in Managed : m_cb[t]}
    BY <1>0, EntryFacts
<1>2. SetSync' /\ TypeOK'
    BY SetSyncStep, TypeStep
<1>3. Pending' = {t \in Managed' : m_cb'[t]}
    <2>1. \A t : Entry(t)'[2] = t
        BY DEF Entry
    <2>2. QED
        BY <1>2, <2>1 DEF SetSync, Pending
<1>4. \A l \in Looper : \A t \in cbs[l] : t \in Managed
    BY <1>0 DEF FinishedOK
<1>5. ASSUME NEW t \in Timer, NEW ms \in Period, NEW r \in BOOLEAN,
             NewTimer(t, ms, r)
      PROVE  FinishedOK' /\ OneOutcome'
    <2>1. /\ Managed' = Managed /\ t \notin Managed
          /\ \A u \in Timer \ {t} : m_cb'[u] = m_cb[u] /\ m_recurring'[u] = m_recurring[u]
          /\ UNCHANGED <<cancelled, fired, cbs>>
          /\ m_next'[t] # NoTime
          /\ \A u \in Timer \ {t} : m_next'[u] = m_next[u]
        BY <1>0, <1>5 DEF NewTimer, Managed, TypeOK, history, loops
    <2>2. Pending' = Pending
        BY <1>1, <1>3, <2>1 DEF Managed
    <2>3. \A l \in Looper : InHand(l)' = InHand(l)
        BY <1>4, <2>1 DEF InHand, Managed
    <2>4. FinishedOK'
        <3>1. \A u \in Managed : u \in Timer \ {t}
            BY <2>1 DEF Managed
        <3>2. \A l \in Looper : InHand(l) \subseteq Managed
            BY <1>4 DEF InHand
        <3>3. \A u \in Timer : m_cb'[u] => m_next'[u] # NoTime
            BY <1>0, <2>1 DEF FinishedOK
        <3>4. QED
            BY <1>0, <2>1, <2>3, <3>1, <3>2, <3>3 DEF FinishedOK
    <2>5. OneOutcome'
        BY <1>0, <2>1, <2>2, <2>3 DEF OneOutcome, Managed
    <2>6. QED
        BY <2>4, <2>5
<1>6. ASSUME NEW t \in Timer, InsertTimer(t)
      PROVE  FinishedOK' /\ OneOutcome'
    <2>1. /\ Managed' = Managed \cup {t} /\ t \notin Managed /\ m_cb[t]
          /\ UNCHANGED <<m_next, m_cb, m_recurring, cancelled, fired, cbs>>
        BY <1>0, <1>6
        DEF InsertTimer, Managed, TypeOK, fields, history, loops, AddingOK
    <2>2. Pending' = Pending \cup {t}
        BY <1>1, <1>3, <2>1
    <2>3. \A l \in Looper : InHand(l)' = InHand(l)
        BY <2>1 DEF InHand
    <2>4. FinishedOK'
        BY <1>0, <2>1, <2>3 DEF FinishedOK
    <2>5. t \notin cancelled \cup fired /\ \A l \in Looper : t \notin cbs[l]
        BY <1>0, <2>1 DEF FinishedOK
    <2>6. OneOutcome'
        BY <1>0, <2>1, <2>2, <2>3, <2>5 DEF OneOutcome, InHand
    <2>7. QED
        BY <2>4, <2>6
<1>7. ASSUME NEW t \in Timer, Cancel(t)
      PROVE  FinishedOK' /\ OneOutcome'
    <2>1. /\ Managed' = Managed /\ t \in Managed /\ m_cb[t]
          /\ \A u \in Timer : m_cb'[u] <=> (m_cb[u] /\ u # t)
          /\ cancelled' = cancelled \cup {t}
          /\ UNCHANGED <<m_next, m_recurring, fired, cbs>>
        BY <1>0, <1>7 DEF Cancel, Managed, Known, TypeOK, loops
    <2>2. Pending' = Pending \ {t} /\ t \in Pending
        BY <1>1, <1>3, <2>1 DEF Managed
    <2>3. \A l \in Looper : InHand(l)' = InHand(l)
        BY <2>1 DEF InHand
    <2>4. t \notin fired /\ \A l \in Looper : t \notin InHand(l)
        BY <1>0, <2>1 DEF FinishedOK
    <2>5. \A l \in Looper : InHand(l) \subseteq Timer
        BY <1>0 DEF InHand, TypeOK
    <2>6. FinishedOK'
        BY <1>0, <2>1, <2>3, <2>5 DEF FinishedOK, Managed
    <2>7. OneOutcome'
        BY <1>0, <2>1, <2>2, <2>3, <2>4 DEF OneOutcome
    <2>8. QED
        BY <2>6, <2>7
<1>8. ASSUME Managed' = Managed, UNCHANGED <<m_cb, m_recurring, cancelled, fired, cbs>>,
             \A t \in Timer : m_next[t] # NoTime => m_next'[t] # NoTime
      PROVE  FinishedOK' /\ OneOutcome'
    <2>1. Pending' = Pending /\ \A l \in Looper : InHand(l)' = InHand(l)
        BY <1>1, <1>3, <1>8 DEF InHand
    <2>2. FinishedOK'
        BY <1>0, <1>8, <2>1 DEF FinishedOK
    <2>3. OneOutcome'
        BY <1>0, <1>8, <2>1 DEF OneOutcome
    <2>4. QED
        BY <2>2, <2>3
<1>9. ASSUME NEW t \in Timer, Refresh(t) \/ \E ms \in Period, from_now \in BOOLEAN :
                                                Reset(t, ms, from_now)
      PROVE  FinishedOK' /\ OneOutcome'
    <2>1. /\ t \in Managed /\ m_cb[t] /\ adding' = adding
          /\ UNCHANGED <<m_cb, m_recurring, cancelled, fired, cbs>>
          /\ \A u \in Timer \ {t} : m_next'[u] = m_next[u]
        BY <1>0, <1>9
        DEF Refresh, Reset, Known, history, loops, TypeOK
    <2>2. m_next'[t] \in Nat
        <3>1. CASE Refresh(t)
            BY <1>0, <3>1 DEF Refresh, TypeOK
        <3>2. ASSUME NEW ms \in Period, NEW from_now \in BOOLEAN, Reset(t, ms, from_now)
              PROVE  m_next'[t] \in Nat
            <4>1. m_next'[t] = (IF from_now THEN clock ELSE m_next[t] - m_ms[t]) + ms
                BY <1>0, <3>2 DEF Reset, TypeOK
            <4>2. QED
                BY <1>0, <2>1, <4>1, ResetNext DEF Inv
        <3>3. QED
            BY <1>9, <3>1, <3>2
    <2>3. Managed' = Managed
        BY <2>1, <2>2 DEF Managed
    <2>4. QED
        BY <1>8, <2>1, <2>2, <2>3
<1>10. ASSUME NEW l \in Looper, Collect(l)
       PROVE  FinishedOK' /\ OneOutcome'
    <2>1. /\ Managed' = Managed
          /\ cbs' = [cbs EXCEPT ![l] = cbs'[l]] /\ cbs[l] = {}
          /\ cbs'[l] \subseteq Pending
          /\ \A t \in Timer : m_cb'[t] = (m_cb[t] /\ (t \in cbs'[l] => m_recurring[t]))
          /\ UNCHANGED <<m_recurring, cancelled, fired>>
        BY <1>0, <1>10, CollectFacts, CollectManaged DEF history
    <2>2. \A t \in cbs'[l] : t \in Managed /\ m_cb[t]
        BY <1>1, <2>1
    <2>3. \A t \in Timer : m_next[t] # NoTime => m_next'[t] # NoTime
        BY <1>0, <1>10, CollectFacts DEF TypeOK
    <2>4. \A k \in Looper \ {l} : cbs'[k] = cbs[k] /\ InHand(k)' = InHand(k)
        BY <1>0, <2>1 DEF TypeOK, InHand
    <2>5. \A t \in InHand(l)' : t \in cbs'[l] /\ t \in Timer /\ ~m_recurring[t]
                               /\ t \in Managed /\ m_cb[t] /\ ~m_cb'[t]
        BY <2>1, <2>2 DEF InHand, Managed
    <2>6. FinishedOK'
        <3>1. \A t \in Timer : m_cb'[t] => m_next'[t] # NoTime
            BY <1>0, <2>1, <2>3 DEF FinishedOK
        <3>2. \A t \in cancelled' \cup fired' : ~m_cb'[t]
            BY <1>0, <2>1 DEF FinishedOK, TypeOK
        <3>3. \A k \in Looper : cbs'[k] \subseteq Managed'
            BY <1>0, <2>1, <2>2, <2>4 DEF FinishedOK
        <3>4. \A k \in Looper : \A t \in InHand(k)' : ~m_cb'[t]
            BY <1>0, <2>1, <2>4, <2>5 DEF FinishedOK, InHand, TypeOK
        <3>5. QED
            BY <1>0, <2>1, <3>1, <3>2, <3>3, <3>4 DEF FinishedOK
    <2>7. OneOutcome'
        <3>1. ASSUME NEW t \in Managed, ~m_recurring[t]
              PROVE  /\ t \in Pending' \cup cancelled \cup fired
                               \cup UNION {cbs'[k] : k \in Looper}
                     /\ t \in Pending' => t \notin cancelled \cup fired
                     /\ t \in cancelled => t \notin fired
            <4>1. t \in Pending' <=> t \in Pending /\ t \notin cbs'[l]
                BY <1>1, <1>3, <2>1, <3>1 DEF Managed
            <4>2. \A k \in Looper : t \in cbs[k] => t \in cbs'[k]
                BY <2>1, <2>4
            <4>3. t \in UNION {cbs[k] : k \in Looper} => t \in UNION {cbs'[k] : k \in Looper}
                BY <4>2
            <4>4. t \in cbs'[l] => t \in UNION {cbs'[k] : k \in Looper}
                OBVIOUS
            <4>5. QED
                BY <1>0, <3>1, <4>1, <4>3, <4>4 DEF OneOutcome
        <3>2. ASSUME NEW k \in Looper
              PROVE  InHand(k)' \cap (Pending' \cup cancelled \cup fired) = {}
            <4>1. CASE k = l
                BY <1>0, <1>3, <2>1, <2>5, <4>1 DEF FinishedOK
            <4>2. CASE k # l
                <5>1. \A t \in Pending' : t \in Pending
                    BY <1>1, <1>3, <2>1 DEF Managed
                <5>2. QED
                    BY <1>0, <2>4, <4>2, <5>1 DEF OneOutcome
            <4>3. QED
                BY <4>1, <4>2
        <3>3. ASSUME NEW k \in Looper, NEW j \in Looper \ {k}
              PROVE  InHand(k)' \cap InHand(j)' = {}
            <4>1. \A i \in Looper : \A t \in InHand(i) : ~m_cb[t]
                BY <1>0 DEF FinishedOK
            <4>2. QED
                BY <1>0, <2>4, <2>5, <4>1 DEF OneOutcome
        <3>4. QED
            BY <2>1, <3>1, <3>2, <3>3 DEF OneOutcome
    <2>8. QED
        BY <2>6, <2>7
<1>11. ASSUME NEW l \in Looper, Deliver(l)
       PROVE  FinishedOK' /\ OneOutcome'
    <2>1. /\ Managed' = Managed
          /\ cbs' = [cbs EXCEPT ![l] = {}]
          /\ fired' = fired \cup InHand(l)
          /\ UNCHANGED <<m_next, m_cb, m_recurring, cancelled>>
        BY <1>0, <1>11 DEF Deliver, Managed, fields, InHand
    <2>2. \A k \in Looper \ {l} : cbs'[k] = cbs[k] /\ InHand(k)' = InHand(k)
        BY <1>0, <2>1 DEF TypeOK, InHand
    <2>3. cbs'[l] = {} /\ InHand(l)' = {}
        BY <1>0, <2>1 DEF TypeOK, InHand
    <2>4. Pending' = Pending
        BY <1>1, <1>3, <2>1
    <2>5. InHand(l) \subseteq cbs[l]
        BY DEF InHand
    <2>6. FinishedOK'
        BY <1>0, <2>1, <2>2, <2>3, <2>5 DEF FinishedOK
    <2>7. \A t : ~m_recurring[t] /\ t \in UNION {cbs[k] : k \in Looper}
                    => t \in fired' \cup UNION {cbs'[k] : k \in Looper}
        BY <2>1, <2>2 DEF InHand
    <2>8. OneOutcome'
        BY <1>0, <2>1, <2>2, <2>3, <2>4, <2>7 DEF OneOutcome
    <2>9. QED
        BY <2>6, <2>8
<1>12. ASSUME UNCHANGED <<m_next, m_cb, m_recurring, adding, cancelled, fired, cbs>>
       PROVE  FinishedOK' /\ OneOutcome'
    BY <1>8, <1>12 DEF Managed
<1>13. QED
    BY <1>5, <1>6, <1>7, <1>9, <1>10, <1>11, <1>12
    DEF Next, Client, Loop, Notify, Sleep, AskOnly, Awake, Drain, CollectNone,
        Tick, SetBack, vars, fields, history, loops

-----------------------------------------------------------------------------
(* The clock, the notifications and the sleepers.                          *)
LEMMA ClockStep ==
    ASSUME Inv, [Next]_vars
    PROVE  ClockOK'
<1> USE TimerAssumption
<1>0. TypeOK /\ SetSync /\ ClockOK /\ clock \in Nat /\ m_previouseTime \in Nat
      /\ \A l \in Looper : now_ms[l] # NoTime => now_ms[l] \in Nat
    BY DEF Inv, TypeOK, Clock
<1>1. ASSUME NEW l \in Looper, Awake(l)
      PROVE  ClockOK'
    BY <1>0, <1>1 DEF ClockOK, Awake, TypeOK
<1>2. ASSUME NEW l \in Looper, CollectNone(l)
      PROVE  ClockOK'
    BY <1>0, <1>2 DEF ClockOK, CollectNone, TypeOK
<1>3. ASSUME NEW l \in Looper, Collect(l)
      PROVE  ClockOK'
    <2>1. /\ m_previouseTime' = now_ms[l] /\ now_ms[l] # NoTime
          /\ now_ms' = [now_ms EXCEPT ![l] = NoTime]
          /\ UNCHANGED <<clock, setBack>>
        BY <1>0, <1>3, CollectFacts
    <2>2. QED
        BY <1>0, <2>1 DEF ClockOK, TypeOK
<1>4. CASE Tick
    <2>1. /\ clock' = clock + 1 /\ UNCHANGED <<m_previouseTime, now_ms, setBack>>
          /\ \A l \in Looper : now_ms[l] # NoTime => clock < now_ms[l] + Stall
        BY <1>4 DEF Tick, loops
    <2>2. QED
        BY <1>0, <2>1 DEF ClockOK
<1>5. CASE SetBack
    BY <1>5 DEF SetBack, ClockOK
<1>6. ASSUME UNCHANGED <<clock, m_previouseTime, now_ms, setBack>>
      PROVE  ClockOK'
    BY <1>0, <1>6 DEF ClockOK
<1>7. QED
    BY <1>1, <1>2, <1>3, <1>4, <1>5, <1>6
    DEF Next, Client, Loop, NewTimer, InsertTimer, Cancel, Refresh, Reset, Notify,
        Sleep, AskOnly, Drain, Deliver, vars, loops

(* addTimer() keeps the sleepers covered: either it notifies, or a         *)
(* notification is on its way, or the new timer is not the first.          *)
LEMMA AddTimerCovers ==
    ASSUME Inv, NEW call, NEW e \in Nat \X Timer, NEW S \in SUBSET m_timers,
           addTimer(call, e, S), UNCHANGED <<clock, pipe, deadline, setBack>>
    PROVE  TickledOK' /\ WaitersCovered'
<1>0. TickledOK /\ WaitersCovered
    BY DEF Inv
<1> DEFINE at_front == (\A k \in Keys(S) : e[1] <= k) /\ ~m_tickled
<1>1. /\ m_timers' = S \cup {e} /\ m_tickled' = (m_tickled \/ at_front)
      /\ notifying' = IF at_front THEN notifying \cup {<<call, e[2]>>} ELSE notifying
    BY DEF addTimer
<1>2. \A l \in Looper : Waiting(l)' = Waiting(l)
    BY DEF Waiting
<1>3. CASE at_front
    <2>1. notifying' # {}
        BY <1>1, <1>3
    <2>2. QED
        BY <2>1 DEF TickledOK, WaitersCovered
<1>4. CASE ~at_front
    <2>1. m_tickled' = m_tickled /\ notifying' = notifying
        BY <1>1, <1>4 DEF Inv, TypeOK
    <2>2. TickledOK'
        BY <1>0, <1>2, <2>1 DEF TickledOK
    <2>3. WaitersCovered'
        <3>1. SUFFICES ASSUME ~setBack, \A l \in Looper : Waiting(l),
                              ~pipe, notifying = {}
                       PROVE  \A k \in Keys(m_timers') : \E l \in Looper :
                                 deadline[l] <= k \/ deadline[l] <= clock
            BY <1>2, <2>1 DEF WaitersCovered, Keys, Waiting
        <3>2. ~m_tickled
            BY <1>0, <3>1 DEF TickledOK
        <3>3. PICK j \in Keys(S) : ~(e[1] <= j)
            BY <1>4, <3>2
        <3>4. Keys(S) \subseteq Keys(m_timers) /\ Keys(m_timers) \subseteq Nat
            BY DEF Keys, Inv, TypeOK
        <3>5. \A k \in Keys(m_timers) : \E l \in Looper :
                 deadline[l] <= k \/ deadline[l] <= clock
            BY <1>0, <3>1 DEF WaitersCovered
        <3>6. PICK l \in Looper : deadline[l] <= j \/ deadline[l] <= clock
            BY <3>3, <3>4, <3>5
        <3>7. j \in Nat /\ e[1] \in Nat /\ j <= e[1]
            BY <3>3, <3>4
        <3>8. deadline[l] \in Nat
            BY <3>1 DEF Inv, TypeOK, Waiting
        <3>9. deadline[l] <= e[1] \/ deadline[l] <= clock
            BY <3>6, <3>7, <3>8
        <3>10. Keys(m_timers') = Keys(S) \cup {e[1]}
            BY <1>1 DEF Keys
        <3>11. QED
            BY <3>4, <3>5, <3>9, <3>10
    <2>4. QED
        BY <2>2, <2>3
<1>5. QED
    BY <1>3, <1>4

LEMMA CoveredStep ==
    ASSUME Inv, [Next]_vars
    PROVE  TickledOK' /\ WaitersCovered'
<1> USE TimerAssumption
<1>0. TypeOK /\ SetSync /\ StartOK /\ AddingOK /\ TickledOK /\ WaitersCovered
      /\ clock \in Nat
    BY DEF Inv, TypeOK, Clock
<1>1. ASSUME NEW t \in Timer, InsertTimer(t)
      PROVE  TickledOK' /\ WaitersCovered'
    <2>1. Entry(t) \in Nat \X Timer
        BY <1>0, <1>1 DEF AddingOK, InsertTimer, TypeOK, Entry
    <2>2. addTimer("addTimer", Entry(t), m_timers)
          /\ UNCHANGED <<clock, pipe, deadline, setBack>>
        BY <1>1 DEF InsertTimer, loops
    <2>3. QED
        BY <2>1, <2>2, AddTimerCovers
<1>2. ASSUME NEW t \in Timer, NEW ms \in Period, NEW from_now \in BOOLEAN,
             Reset(t, ms, from_now)
      PROVE  TickledOK' /\ WaitersCovered'
    <2> DEFINE next == (IF from_now THEN clock ELSE m_next[t] - m_ms[t]) + ms
    <2>1. next \in Nat
        BY <1>0, <1>2, ResetNext DEF Reset, Known
    <2>2. addTimer("reset", <<next, t>>, m_timers \ {Entry(t)})
          /\ UNCHANGED <<clock, pipe, deadline, setBack>>
        BY <1>2 DEF Reset, loops
    <2> HIDE DEF next
    <2>3. QED
        BY <2>1, <2>2, AddTimerCovers
<1>3. ASSUME NEW t \in Timer, NEW call \in {"addTimer", "reset"}, Notify(call, t)
      PROVE  TickledOK' /\ WaitersCovered'
    <2>1. /\ (\A l \in Looper : Waiting(l)) => pipe'
          /\ UNCHANGED <<m_timers, m_tickled, clock, deadline, setBack>>
        BY <1>3 DEF Notify, loops
    <2>2. QED
        BY <2>1 DEF TickledOK, WaitersCovered, Waiting
<1>4. ASSUME NEW t \in Timer, Refresh(t)
      PROVE  TickledOK' /\ WaitersCovered'
    <2>1. /\ t \in Managed /\ m_next[t] \in Nat /\ m_ms[t] \in Nat
          /\ Entry(t) \in m_timers
        BY <1>0, <1>4 DEF Refresh, Known, Managed, Found, TypeOK
    <2>2. /\ m_timers' = (m_timers \ {Entry(t)}) \cup {<<clock + m_ms[t], t>>}
          /\ UNCHANGED <<m_tickled, clock, notifying, pipe, deadline, setBack>>
        BY <1>4 DEF Refresh, loops
    <2>3. TickledOK'
        BY <1>0, <2>2 DEF TickledOK, Waiting
    <2>4. WaitersCovered'
        <3>1. SUFFICES ASSUME ~setBack, \A l \in Looper : Waiting(l),
                              ~pipe, notifying = {}
                       PROVE  \A k \in Keys(m_timers') : \E l \in Looper :
                                 deadline[l] <= k \/ deadline[l] <= clock
            BY <2>2 DEF WaitersCovered, Keys, Waiting
        <3>2. \A k \in Keys(m_timers) : \E l \in Looper :
                 deadline[l] <= k \/ deadline[l] <= clock
            BY <1>0, <3>1 DEF WaitersCovered
        <3>3. m_next[t] <= clock + m_ms[t]
            BY <1>0, <2>1, <3>1 DEF StartOK, Managed
        <3>4. Entry(t)[1] = m_next[t] /\ m_next[t] \in Keys(m_timers)
            <4>1. Entry(t)[1] = m_next[t]
                BY DEF Entry
            <4>2. Entry(t)[1] \in Keys(m_timers)
                BY <2>1, Zenon DEF Keys
            <4>3. QED
                BY <4>1, <4>2
        <3>5. PICK l \in Looper : deadline[l] <= m_next[t] \/ deadline[l] <= clock
            BY <3>2, <3>4
        <3>6. deadline[l] \in Nat
            BY <1>0, <3>1 DEF TypeOK, Waiting
        <3>7. deadline[l] <= clock + m_ms[t] \/ deadline[l] <= clock
            BY <1>0, <2>1, <3>3, <3>5, <3>6
        <3>8. \A k \in Keys(m_timers') : k \in Keys(m_timers) \/ k = clock + m_ms[t]
            BY <2>2 DEF Keys
        <3>9. QED
            BY <3>2, <3>7, <3>8
    <2>5. QED
        BY <2>3, <2>4
<1>5. ASSUME NEW l \in Looper, Sleep(l)
      PROVE  TickledOK' /\ WaitersCovered'
    <2>1. /\ ~m_tickled' /\ deadline'[l] = NextTimer
          /\ UNCHANGED <<m_timers, clock>>
        BY <1>0, <1>5 DEF Sleep, TypeOK
    <2>2. \A k \in Keys(m_timers) : deadline'[l] <= k \/ deadline'[l] <= clock
        BY <1>0, <2>1, NextTimerFacts
    <2>3. QED
        BY <2>1, <2>2 DEF TickledOK, WaitersCovered, Keys
<1>6. ASSUME NEW l \in Looper, ~Waiting(l)'
      PROVE  TickledOK' /\ WaitersCovered'
    BY <1>6 DEF TickledOK, WaitersCovered
<1>7. ASSUME NEW l \in Looper, Awake(l)
      PROVE  ~Waiting(l)'
    BY <1>0, <1>7 DEF Awake, Waiting, TypeOK
<1>8. ASSUME NEW l \in Looper, Drain(l)
      PROVE  ~Waiting(l)'
    BY <1>8 DEF Drain, Waiting, loops
<1>9. ASSUME NEW l \in Looper, CollectNone(l) \/ Collect(l) \/ Deliver(l)
      PROVE  ~Waiting(l)'
    BY <1>0, <1>9 DEF CollectNone, Collect, Deliver, Waiting, TypeOK
<1>10. CASE SetBack
    BY <1>0, <1>10 DEF SetBack, TickledOK, WaitersCovered, Waiting, loops
<1>11. ASSUME m_timers' \subseteq m_timers, m_tickled' => m_tickled,
              clock' = clock \/ clock' = clock + 1,
              UNCHANGED <<notifying, pipe, deadline, setBack>>
       PROVE  TickledOK' /\ WaitersCovered'
    <2>1. TickledOK'
        BY <1>0, <1>11 DEF TickledOK, Waiting
    <2>2. WaitersCovered'
        <3>1. SUFFICES ASSUME ~setBack, \A l \in Looper : Waiting(l),
                              ~pipe, notifying = {}, NEW k \in Keys(m_timers')
                       PROVE  \E l \in Looper :
                                 deadline[l] <= k \/ deadline[l] <= clock'
            BY <1>11 DEF WaitersCovered, Keys, Waiting
        <3>2. k \in Keys(m_timers)
            BY <1>11 DEF Keys
        <3>3. PICK l \in Looper : deadline[l] <= k \/ deadline[l] <= clock
            BY <1>0, <3>1, <3>2 DEF WaitersCovered
        <3>4. deadline[l] \in Nat
            BY <1>0, <3>1 DEF TypeOK, Waiting
        <3>5. QED
            BY <1>0, <1>11, <3>3, <3>4
    <2>3. QED
        BY <2>1, <2>2
<1>12. QED
    BY <1>1, <1>2, <1>3, <1>4, <1>5, <1>6, <1>7, <1>8, <1>9, <1>10, <1>11
    DEF Next, Client, Loop, NewTimer, Cancel, AskOnly, Tick, vars, fields, loops

-----------------------------------------------------------------------------
LEMMA InvInit ==
    Init => Inv
<1> USE TimerAssumption
<1> SUFFICES ASSUME Init
             PROVE  Inv
    OBVIOUS
<1>1. Managed = {} /\ clock \in Nat
    BY DEF Init, Managed, Clock
<1>2. TypeOK
    BY <1>1 DEF Init, TypeOK, Waiting, Clock
<1>3. SetSync /\ OneOutcome /\ StartOK /\ AddingOK
    BY <1>1 DEF Init, SetSync, OneOutcome, StartOK, AddingOK, InHand
<1>4. FinishedOK /\ ClockOK /\ TickledOK
    BY <1>1 DEF Init, FinishedOK, ClockOK, TickledOK, InHand
<1>5. WaitersCovered
    BY DEF Init, WaitersCovered, Keys
<1>6. QED
    BY <1>2, <1>3, <1>4, <1>5 DEF Inv

(* Inv is an invariant of TimerManager.                                    *)
THEOREM Invariance == Spec => []Inv
<1>1. Init => Inv
    BY InvInit
<1>2. Inv /\ [Next]_vars => Inv'
    BY TypeStep, SetSyncStep, StartStep, AddingStep, OutcomeStep, ClockStep,
       CoveredStep
    DEF Inv
<1>3. QED
    BY <1>1, <1>2, PTL DEF Spec

(* The variables keep their types and listExpiredCb()'s phases exclude     *)
(* each other.                                                             *)
THEOREM TypeCorrect == Spec => []TypeOK
BY Invariance, PTL DEF Inv

(* m_timers holds exactly the managed timers with a callback, under their  *)
(* present due times: find() in cancel(), refresh() and reset() never      *)
(* misses a live timer.                                                    *)
THEOREM SetInSync == Spec => []SetSync
BY Invariance, PTL DEF Inv

(* A one-shot timer is fired once or cancelled, never both, never lost.    *)
THEOREM OneShotOutcome == Spec => []OneOutcome
BY Invariance, PTL DEF Inv

(* When all loopers sleep, the first timer is covered by a deadline or a   *)
(* notification is on its way.                                             *)
THEOREM NoLostWakeup == Spec => []WaitersCovered
BY Invariance, PTL DEF Inv

(* While the clock is not set back, nothing is collected before it is due: *)
(* a looper that lags behind is never taken for a clock set back.          *)
THEOREM NothingEarly == Spec => NeverEarly
<1> USE TimerAssumption
<1>1. ASSUME Inv, [Next]_vars, NEW l \in Looper, ~setBack, Collect(l),
             NEW t \in cbs'[l]
      PROVE  m_next[t] <= now_ms[l]
    <2>1. TypeOK /\ SetSync /\ ClockOK
        BY <1>1 DEF Inv
    <2>2. now_ms[l] \in Nat /\ now_ms[l] # NoTime
        BY <1>1, <2>1, CollectFacts
    <2>3. clock \in Nat /\ m_previouseTime \in Nat
        BY <2>1 DEF TypeOK, Clock
    <2>4. m_previouseTime <= clock /\ clock <= now_ms[l] + Stall
        BY <1>1, <2>1, <2>2 DEF ClockOK
    <2>5. ~detectClockRollover(now_ms[l])
        BY <2>2, <2>3, <2>4 DEF detectClockRollover
    <2>6. QED
        BY <1>1, <2>1, <2>5, CollectFacts
<1>2. Inv /\ [Next]_vars =>
        [\A l \in Looper : (~setBack /\ Collect(l))
            => \A t \in cbs'[l] : m_next[t] <= now_ms[l]]_vars
    BY <1>1
<1>3. QED
    BY Invariance, <1>2, PTL DEF Spec, NeverEarly
=============================================================================
