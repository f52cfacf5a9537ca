--------------------------- MODULE IOEventsProofs ---------------------------
(***************************************************************************)
(* Safety of IOEvents for every number of clients, loopers, descriptors    *)
(* and waiters, with containers that shrink and descriptors closed under   *)
(* their waiters: the type invariant, PendingCount, CtxClean, WaiterOnce.  *)
(***************************************************************************)
EXTENDS IOEvents, TLAPS, FiniteSetTheorems

-----------------------------------------------------------------------------
(* The inductive invariant.                                                *)

(* WaiterOnce, by slots: no two hold one waiter; the waiters in slots are  *)
(* those that wait or are lost.                                            *)
SlotOnce ==
    /\ \A x, y \in Context, e, f \in Event :
          slot[x][e] # None /\ slot[x][e] = slot[y][f] => x = y /\ e = f
    /\ \A w \in Waiter : outcome[w] \in {"waiting", "lost"}
                           <=> \E x \in Context, e \in Event : slot[x][e] = w

AddersDistinct ==
    \A c, d \in Client : Adding(c) /\ Adding(d) /\ call[c].w = call[d].w => c = d

Inv ==
    /\ TypeOK /\ PendingCount /\ CtxClean
    /\ SlotOnce /\ AddersDistinct

-----------------------------------------------------------------------------
(* Lemmas.                                                                 *)

(* Sets of registered events are finite.                                   *)
LEMMA RegisteredFinite ==
    ASSUME NEW R \in SUBSET (Context \X Event)
    PROVE  IsFiniteSet(R) /\ Cardinality(R) \in Nat
<1> USE IOEventsAssumption
<1>1. IsFiniteSet(0 .. MaxGen)
    BY FS_Interval
<1>2. IsFiniteSet(Context)
    BY <1>1, FS_Product DEF Context
<1>3. IsFiniteSet(Event)
    <2>1. IsFiniteSet({"READ"})
        BY FS_Singleton
    <2>2. IsFiniteSet({"READ"} \cup {"WRITE"})
        BY <2>1, FS_AddElement
    <2>3. Event = {"READ"} \cup {"WRITE"}
        BY DEF Event
    <2>4. QED
        BY <2>2, <2>3
<1>4. IsFiniteSet(Context \X Event)
    BY <1>2, <1>3, FS_Product
<1>5. IsFiniteSet(R)
    BY <1>4, FS_Subset
<1>6. QED
    BY <1>5, FS_CardinalityType

(* A set of events has as many members as it has pairs with a context.     *)
LEMMA PairsCount ==
    ASSUME NEW x, NEW S \in SUBSET Event
    PROVE  Cardinality({x} \X S) = Cardinality(S) /\ Cardinality(S) \in Nat
<1>1. IsFiniteSet({"READ"}) /\ IsFiniteSet({x}) /\ Cardinality({x}) = 1
    BY FS_Singleton
<1>2. IsFiniteSet({"READ"} \cup {"WRITE"})
    BY <1>1, FS_AddElement
<1>3. IsFiniteSet(S)
    <2>1. S \in SUBSET ({"READ"} \cup {"WRITE"})
        BY DEF Event
    <2>2. QED
        BY <1>2, <2>1, FS_Subset
<1>4. Cardinality(S) \in Nat
    BY <1>3, FS_CardinalityType
<1>5. Cardinality({x} \X S) = Cardinality({x}) * Cardinality(S)
    BY <1>1, <1>3, FS_Product
<1>6. QED
    BY <1>1, <1>4, <1>5

(* What is left of a finite set without some of its members.               *)
LEMMA SubsetCount ==
    ASSUME NEW R, NEW P \in SUBSET R, IsFiniteSet(R)
    PROVE  Cardinality(R \ P) = Cardinality(R) - Cardinality(P)
<1>1. Cardinality(R \ P) = Cardinality(R) - Cardinality(R \cap P)
    BY FS_Difference
<1>2. R \cap P = P
    OBVIOUS
<1>3. QED
    BY <1>1, <1>2

(* triggerEvent() keeps count, contexts and waiters together, and touches  *)
(* no waiter that nobody has added yet.                                    *)
LEMMA TriggerKeeps ==
    ASSUME Inv, NEW x \in Context, NEW S \in SUBSET events[x], triggerEvent(x, S)
    PROVE  /\ events' \in [Context -> SUBSET Event]
           /\ slot' \in [Context -> [Event -> Waiter \cup {None}]]
           /\ outcome' \in [Waiter -> Outcome]
           /\ m_pendingEventCount' \in Nat
           /\ PendingCount' /\ CtxClean' /\ SlotOnce'
           /\ \A w \in Waiter : outcome[w] = "new" => outcome'[w] = "new"
<1> USE IOEventsAssumption
<1>0. TypeOK /\ PendingCount /\ CtxClean /\ SlotOnce
    BY DEF Inv
<1>1. S \subseteq Event
    BY <1>0 DEF TypeOK
<1>2. /\ events' = [events EXCEPT ![x] = events[x] \ S]
      /\ slot' = [slot EXCEPT ![x] =
                    [ev \in Event |-> IF ev \in S THEN None ELSE slot[x][ev]]]
      /\ outcome' = [w \in Waiter |->
             IF w \in {slot[x][ev] : ev \in S} THEN "scheduled" ELSE outcome[w]]
      /\ m_pendingEventCount' = m_pendingEventCount - Cardinality(S)
    BY <1>0 DEF triggerEvent, TypeOK
<1>3. /\ \A y \in Context \ {x} : slot'[y] = slot[y] /\ events'[y] = events[y]
      /\ \A e \in Event : slot'[x][e] = IF e \in S THEN None ELSE slot[x][e]
      /\ events'[x] = events[x] \ S
    BY <1>0, <1>2 DEF TypeOK
<1>4. events' \in [Context -> SUBSET Event]
    BY <1>0, <1>2 DEF TypeOK
<1>5. slot' \in [Context -> [Event -> Waiter \cup {None}]]
    <2>1. [ev \in Event |-> IF ev \in S THEN None ELSE slot[x][ev]]
              \in [Event -> Waiter \cup {None}]
        BY <1>0 DEF TypeOK
    <2>2. QED
        BY <1>0, <1>2, <2>1 DEF TypeOK
<1>6. outcome' \in [Waiter -> Outcome]
    BY <1>0, <1>2 DEF TypeOK, Outcome
<1>7. PendingCount' /\ m_pendingEventCount' \in Nat
    <2>1. Registered' = Registered \ ({x} \X S)
        <3>1. ASSUME NEW p \in Context \X Event
              PROVE  p \in Registered' <=> p \in Registered /\ p \notin {x} \X S
            <4>1. p \in Registered' <=> p[2] \in events'[p[1]]
                BY DEF Registered
            <4>2. p \in Registered <=> p[2] \in events[p[1]]
                BY DEF Registered
            <4>3. p \in {x} \X S <=> p[1] = x /\ p[2] \in S
                BY <3>1
            <4>4. QED
                BY <1>3, <4>1, <4>2, <4>3
        <3>2. Registered \subseteq Context \X Event /\ Registered' \subseteq Context \X Event
            BY DEF Registered
        <3>3. QED
            BY <3>1, <3>2
    <2>2. {x} \X S \subseteq Registered
        <3>1. ASSUME NEW p \in {x} \X S
              PROVE  p \in Registered
            <4>1. p \in Context \X Event /\ p[1] = x /\ p[2] \in S
                BY <1>1, <3>1
            <4>2. p[2] \in events[p[1]]
                BY <4>1
            <4>3. QED
                BY <4>1, <4>2 DEF Registered
        <3>2. QED
            BY <3>1
    <2>3. IsFiniteSet(Registered)
        BY RegisteredFinite DEF Registered
    <2>4. Cardinality(Registered \ ({x} \X S))
             = Cardinality(Registered) - Cardinality({x} \X S)
        BY <2>2, <2>3, SubsetCount
    <2>5. Cardinality(Registered') = Cardinality(Registered) - Cardinality(S)
        BY <1>1, <2>1, <2>4, PairsCount
    <2>6. Cardinality(Registered') \in Nat
        <3>1. Registered' \in SUBSET (Context \X Event)
            BY DEF Registered
        <3>2. QED
            BY <3>1, RegisteredFinite
    <2>7. QED
        BY <1>0, <1>2, <2>5, <2>6 DEF PendingCount
<1>8. CtxClean'
    BY <1>0, <1>3 DEF CtxClean
<1>9. \A w \in Waiter : w \in {slot[x][ev] : ev \in S}
         => outcome[w] \in {"waiting", "lost"}
    BY <1>0, <1>1 DEF SlotOnce
<1>10. SlotOnce'
    <2>1. \A y \in Context, e \in Event : slot'[y][e] # None
             => slot'[y][e] = slot[y][e] /\ (y = x => e \notin S)
        BY <1>3
    <2>2. \A y, z \in Context, e, f \in Event :
             slot'[y][e] # None /\ slot'[y][e] = slot'[z][f] => y = z /\ e = f
        BY <1>0, <2>1 DEF SlotOnce
    <2>3. ASSUME NEW w \in Waiter, outcome'[w] \in {"waiting", "lost"}
          PROVE  \E y \in Context, e \in Event : slot'[y][e] = w
        <3>1. w \notin {slot[x][ev] : ev \in S} /\ outcome'[w] = outcome[w]
            BY <1>2, <2>3
        <3>2. PICK y \in Context, e \in Event : slot[y][e] = w
            BY <1>0, <2>3, <3>1 DEF SlotOnce
        <3>3. slot'[y][e] = w
            BY <1>3, <3>1, <3>2
        <3>4. QED
            BY <3>3
    <2>4. ASSUME NEW w \in Waiter, NEW y \in Context, NEW e \in Event, slot'[y][e] = w
          PROVE  outcome'[w] \in {"waiting", "lost"}
        <3>1. slot[y][e] = w /\ (y = x => e \notin S) /\ w # None
            BY <2>1, <2>4
        <3>2. w \notin {slot[x][ev] : ev \in S}
            BY <1>0, <1>1, <3>1 DEF SlotOnce
        <3>3. outcome'[w] = outcome[w]
            BY <1>2, <3>2
        <3>4. QED
            BY <1>0, <3>1, <3>3 DEF SlotOnce
    <2>5. QED
        BY <2>2, <2>3, <2>4 DEF SlotOnce
<1>11. \A w \in Waiter : outcome[w] = "new" => outcome'[w] = "new"
    BY <1>2, <1>9
<1>12. QED
    BY <1>4, <1>5, <1>6, <1>7, <1>8, <1>10, <1>11

(* One event more, one event less.                                         *)
LEMMA RegisteredAdds ==
    ASSUME TypeOK, PendingCount, NEW x \in Context, NEW ev \in Event,
           ev \notin events[x],
           events' = [events EXCEPT ![x] = events[x] \cup {ev}],
           m_pendingEventCount' = m_pendingEventCount + 1
    PROVE  PendingCount' /\ m_pendingEventCount' \in Nat
<1>1. /\ \A y \in Context \ {x} : events'[y] = events[y]
      /\ events'[x] = events[x] \cup {ev}
    BY DEF TypeOK
<1>2. Registered' = Registered \cup {<<x, ev>>}
    <2>1. ASSUME NEW p \in Context \X Event
          PROVE  p \in Registered' <=> p \in Registered \/ p = <<x, ev>>
        <3>1. p \in Registered' <=> p[2] \in events'[p[1]]
            BY DEF Registered
        <3>2. p \in Registered <=> p[2] \in events[p[1]]
            BY DEF Registered
        <3>3. p = <<x, ev>> <=> p[1] = x /\ p[2] = ev
            BY <2>1
        <3>4. QED
            BY <1>1, <3>1, <3>2, <3>3
    <2>2. Registered \subseteq Context \X Event /\ Registered' \subseteq Context \X Event
        BY DEF Registered
    <2>3. QED
        BY <2>1, <2>2
<1>3. <<x, ev>> \notin Registered
    BY DEF Registered
<1>4. IsFiniteSet(Registered) /\ Cardinality(Registered) \in Nat
    BY RegisteredFinite DEF Registered
<1>5. Cardinality(Registered') = Cardinality(Registered) + 1
    BY <1>2, <1>3, <1>4, FS_AddElement
<1>6. QED
    BY <1>4, <1>5 DEF PendingCount

LEMMA RegisteredDrops ==
    ASSUME TypeOK, PendingCount, NEW x \in Context, NEW ev \in Event,
           ev \in events[x],
           events' = [events EXCEPT ![x] = events[x] \ {ev}],
           m_pendingEventCount' = m_pendingEventCount - 1
    PROVE  PendingCount' /\ m_pendingEventCount' \in Nat
<1>1. /\ \A y \in Context \ {x} : events'[y] = events[y]
      /\ events'[x] = events[x] \ {ev}
    BY DEF TypeOK
<1>2. Registered' = Registered \ {<<x, ev>>}
    <2>1. ASSUME NEW p \in Context \X Event
          PROVE  p \in Registered' <=> p \in Registered /\ p # <<x, ev>>
        <3>1. p \in Registered' <=> p[2] \in events'[p[1]]
            BY DEF Registered
        <3>2. p \in Registered <=> p[2] \in events[p[1]]
            BY DEF Registered
        <3>3. p = <<x, ev>> <=> p[1] = x /\ p[2] = ev
            BY <2>1
        <3>4. QED
            BY <1>1, <3>1, <3>2, <3>3
    <2>2. Registered \subseteq Context \X Event /\ Registered' \subseteq Context \X Event
        BY DEF Registered
    <2>3. QED
        BY <2>1, <2>2
<1>3. <<x, ev>> \in Registered
    BY DEF Registered
<1>4. IsFiniteSet(Registered)
    BY RegisteredFinite DEF Registered
<1>5. Cardinality(Registered') = Cardinality(Registered) - 1
    BY <1>2, <1>3, <1>4, FS_RemoveElement
<1>6. Cardinality(Registered') \in Nat
    <2>1. Registered' \in SUBSET (Context \X Event)
        BY DEF Registered
    <2>2. QED
        BY <2>1, RegisteredFinite
<1>7. QED
    BY <1>5, <1>6 DEF PendingCount

(* What a call under way carries.                                          *)
LEMMA CallFacts ==
    ASSUME TypeOK, NEW c \in Client, Busy(c)
    PROVE  /\ call[c].fd \in Fd /\ call[c].ev \in Event /\ call[c].ctx \in Context
           /\ call[c].ctx[1] = call[c].fd
           /\ Adding(c) => call[c].w \in Waiter /\ outcome[call[c].w] = "new"
<1>1. call[c] \in [op : {"add", "del", "cancel", "cancelAll", "close"}, fd : Fd, ev : Event,
           w : Waiter \cup {None}, at : {"lock", "grow", "close"}, ctx : Context]
    BY DEF TypeOK, Busy, Idle
<1>2. QED
    BY <1>1 DEF TypeOK

-----------------------------------------------------------------------------
(* The waiters: AddEvent, AddEventFails, DelEvent and KernelClose.         *)
LEMMA AddKeeps ==
    ASSUME Inv, NEW c \in Client, AddEvent(c)
    PROVE  /\ events' \in [Context -> SUBSET Event]
           /\ slot' \in [Context -> [Event -> Waiter \cup {None}]]
           /\ outcome' \in [Waiter -> Outcome]
           /\ m_pendingEventCount' \in Nat
           /\ PendingCount' /\ CtxClean' /\ SlotOnce'
           /\ \A w \in Waiter \ {call[c].w} : outcome'[w] = outcome[w]
<1> USE IOEventsAssumption
<1> DEFINE ev == call[c].ev  x == call[c].ctx  v == call[c].w
<1>0. TypeOK /\ PendingCount /\ CtxClean /\ SlotOnce
    BY DEF Inv
<1>1. ev \in Event /\ x \in Context /\ v \in Waiter /\ outcome[v] = "new"
    BY <1>0, CallFacts DEF AddEvent, In, Adding
<1>2. /\ ev \notin events[x] /\ slot[x][ev] = None
      /\ events' = [events EXCEPT ![x] = events[x] \cup {ev}]
      /\ slot' = [slot EXCEPT ![x][ev] = v]
      /\ outcome' = [outcome EXCEPT ![v] = "waiting"]
      /\ m_pendingEventCount' = m_pendingEventCount + 1
    BY <1>0 DEF AddEvent, TypeOK
<1> HIDE DEF ev, x, v
<1>3. PendingCount' /\ m_pendingEventCount' \in Nat
    BY <1>0, <1>1, <1>2, RegisteredAdds
<1>4. /\ \A y \in Context, e \in Event : slot'[y][e] =
            IF y = x /\ e = ev THEN v ELSE slot[y][e]
      /\ \A y \in Context, e \in Event : e \in events'[y] <=>
            e \in events[y] \/ (y = x /\ e = ev)
      /\ \A w \in Waiter : outcome'[w] = IF w = v THEN "waiting" ELSE outcome[w]
    BY <1>0, <1>1, <1>2 DEF TypeOK
<1>5. events' \in [Context -> SUBSET Event] /\ outcome' \in [Waiter -> Outcome]
    BY <1>0, <1>1, <1>2 DEF TypeOK, Outcome
<1>6. slot' \in [Context -> [Event -> Waiter \cup {None}]]
    BY <1>0, <1>1, <1>2 DEF TypeOK
<1>7. CtxClean'
    BY <1>0, <1>1, <1>4 DEF CtxClean
<1>8. \A y \in Context, e \in Event : slot[y][e] # v
    BY <1>0, <1>1 DEF SlotOnce
<1>9. SlotOnce'
    <2>1. \A y, z \in Context, e, f \in Event :
             slot'[y][e] # None /\ slot'[y][e] = slot'[z][f] => y = z /\ e = f
        BY <1>0, <1>4, <1>8 DEF SlotOnce
    <2>2. \A w \in Waiter : outcome'[w] \in {"waiting", "lost"}
             <=> \E y \in Context, e \in Event : slot'[y][e] = w
        <3>1. slot'[x][ev] = v /\ outcome'[v] = "waiting"
            BY <1>1, <1>4
        <3>2. ASSUME NEW w \in Waiter, w # v
              PROVE  outcome'[w] \in {"waiting", "lost"}
                        <=> \E y \in Context, e \in Event : slot'[y][e] = w
            <4>1. outcome'[w] = outcome[w]
                BY <1>4, <3>2
            <4>2. \A y \in Context, e \in Event : slot'[y][e] = w <=> slot[y][e] = w
                BY <1>1, <1>2, <1>4, <3>2
            <4>3. QED
                BY <1>0, <4>1, <4>2 DEF SlotOnce
        <3>3. QED
            BY <1>1, <3>1, <3>2
    <2>3. QED
        BY <2>1, <2>2 DEF SlotOnce
<1>10. \A w \in Waiter \ {call[c].w} : outcome'[w] = outcome[w]
    BY <1>4 DEF v
<1>11. QED
    BY <1>3, <1>5, <1>6, <1>7, <1>9, <1>10

LEMMA DelKeeps ==
    ASSUME Inv, NEW c \in Client, DelEvent(c)
    PROVE  /\ events' \in [Context -> SUBSET Event]
           /\ slot' \in [Context -> [Event -> Waiter \cup {None}]]
           /\ outcome' \in [Waiter -> Outcome]
           /\ m_pendingEventCount' \in Nat
           /\ PendingCount' /\ CtxClean' /\ SlotOnce'
           /\ \A w \in Waiter : outcome[w] = "new" => outcome'[w] = "new"
<1> USE IOEventsAssumption
<1> DEFINE ev == call[c].ev  x == call[c].ctx  v == slot[x][ev]
<1>0. TypeOK /\ PendingCount /\ CtxClean /\ SlotOnce
    BY DEF Inv
<1>1. ev \in Event /\ x \in Context
    BY <1>0, CallFacts DEF DelEvent, In
<1>2. /\ ev \in events[x]
      /\ events' = [events EXCEPT ![x] = events[x] \ {ev}]
      /\ slot' = [slot EXCEPT ![x][ev] = None]
      /\ outcome' = [outcome EXCEPT ![v] = "dropped"]
      /\ m_pendingEventCount' = m_pendingEventCount - 1
    BY <1>0 DEF DelEvent, TypeOK
<1>3. v \in Waiter /\ slot[x][ev] = v
    BY <1>0, <1>1, <1>2 DEF CtxClean, TypeOK
<1> HIDE DEF ev, x, v
<1>4. PendingCount' /\ m_pendingEventCount' \in Nat
    BY <1>0, <1>1, <1>2, RegisteredDrops
<1>5. /\ \A y \in Context, e \in Event : slot'[y][e] =
            IF y = x /\ e = ev THEN None ELSE slot[y][e]
      /\ \A y \in Context, e \in Event : e \in events'[y] <=>
            e \in events[y] /\ ~(y = x /\ e = ev)
      /\ \A w \in Waiter : outcome'[w] = IF w = v THEN "dropped" ELSE outcome[w]
    BY <1>0, <1>1, <1>2 DEF TypeOK
<1>6. events' \in [Context -> SUBSET Event] /\ outcome' \in [Waiter -> Outcome]
    BY <1>0, <1>1, <1>2, <1>3 DEF TypeOK, Outcome
<1>7. slot' \in [Context -> [Event -> Waiter \cup {None}]]
    BY <1>0, <1>1, <1>2 DEF TypeOK
<1>8. CtxClean'
    BY <1>0, <1>1, <1>5 DEF CtxClean
<1>9. \A y \in Context, e \in Event : slot[y][e] = v => y = x /\ e = ev
    BY <1>0, <1>1, <1>3 DEF SlotOnce
<1>10. SlotOnce'
    <2>1. \A y, z \in Context, e, f \in Event :
             slot'[y][e] # None /\ slot'[y][e] = slot'[z][f] => y = z /\ e = f
        BY <1>0, <1>5 DEF SlotOnce
    <2>2. \A w \in Waiter : outcome'[w] \in {"waiting", "lost"}
             <=> \E y \in Context, e \in Event : slot'[y][e] = w
        <3>1. ASSUME NEW w \in Waiter, w # v
              PROVE  outcome'[w] \in {"waiting", "lost"}
                        <=> \E y \in Context, e \in Event : slot'[y][e] = w
            <4>1. outcome'[w] = outcome[w]
                BY <1>5, <3>1
            <4>2. \A y \in Context, e \in Event : slot'[y][e] = w <=> slot[y][e] = w
                BY <1>3, <1>5, <3>1
            <4>3. QED
                BY <1>0, <4>1, <4>2 DEF SlotOnce
        <3>2. /\ outcome'[v] = "dropped"
              /\ \A y \in Context, e \in Event : slot'[y][e] # v
            BY <1>3, <1>5, <1>9
        <3>3. QED
            BY <3>1, <3>2
    <2>3. QED
        BY <2>1, <2>2 DEF SlotOnce
<1>11. \A w \in Waiter : outcome[w] = "new" => outcome'[w] = "new"
    <2>1. outcome[v] # "new"
        BY <1>0, <1>1, <1>3 DEF SlotOnce
    <2>2. QED
        BY <1>5, <2>1
<1>12. QED
    BY <1>4, <1>6, <1>7, <1>8, <1>10, <1>11

LEMMA CloseKeeps ==
    ASSUME Inv, NEW c \in Client, KernelClose(c)
    PROVE  /\ outcome' \in [Waiter -> Outcome]
           /\ SlotOnce'
           /\ \A w \in Waiter : outcome[w] = "new" => outcome'[w] = "new"
<1>0. TypeOK /\ SlotOnce
    BY DEF Inv
<1> DEFINE fd == call[c].fd
           Waits(w) == \E x \in Context, ev \in Event : x[1] = fd /\ slot[x][ev] = w
<1>1. outcome' = [w \in Waiter |-> IF Waits(w) THEN "lost" ELSE outcome[w]]
      /\ slot' = slot
    BY DEF KernelClose
<1>2. \A w \in Waiter : Waits(w) => outcome[w] \in {"waiting", "lost"}
    BY <1>0 DEF SlotOnce
<1> HIDE DEF Waits
<1>3. \A w \in Waiter : outcome'[w] = IF Waits(w) THEN "lost" ELSE outcome[w]
    BY <1>1
<1>4. outcome' \in [Waiter -> Outcome]
    BY <1>0, <1>1 DEF TypeOK, Outcome
<1>5. \A w \in Waiter : outcome'[w] \in {"waiting", "lost"}
                          <=> outcome[w] \in {"waiting", "lost"}
    BY <1>2, <1>3
<1>6. SlotOnce'
    BY <1>0, <1>1, <1>5 DEF SlotOnce
<1>7. QED
    BY <1>2, <1>3, <1>4, <1>6

-----------------------------------------------------------------------------
(* The other variables.                                                    *)
CallRecord ==
    [op : {"add", "del", "cancel", "cancelAll", "close"}, fd : Fd, ev : Event,
     w : Waiter \cup {None}, at : {"lock", "grow", "close"}, ctx : Context]

CallsOK ==
    /\ call \in [Client -> {Idle} \cup CallRecord]
    /\ \A c \in Client : Busy(c) => call[c].ctx[1] = call[c].fd
    /\ \A c \in Client : Adding(c) => call[c].w # None /\ outcome[call[c].w] = "new"

WaitsOK ==
    /\ events \in [Context -> SUBSET Event]
    /\ slot \in [Context -> [Event -> Waiter \cup {None}]]
    /\ m_pendingEventCount \in Nat
    /\ outcome \in [Waiter -> Outcome]

KernelOK ==
    /\ interest \in [Fd -> SUBSET Event]
    /\ data \in [Fd -> Context]
    /\ edge \in [Fd -> BOOLEAN]
    /\ ready \in [Fd -> SUBSET (Event \cup {"HUP"})]
    /\ open \subseteq Fd

RestOK ==
    /\ size \in Nat
    /\ gen \in [Fd -> 0 .. MaxGen]
    /\ report \in [Looper -> SUBSET [ctx : Context, mask : SUBSET (Event \cup {"HUP"})]]
    /\ failed \in {None, "addEvent", "triggerEvent"}

LEMMA TypeSplit ==
    TypeOK <=> CallsOK /\ WaitsOK /\ KernelOK /\ RestOK
BY DEF TypeOK, CallsOK, WaitsOK, KernelOK, RestOK, CallRecord

(* A call returns.  Its own waiter apart, the waiters of calls under way   *)
(* are left alone.                                                         *)
LEMMA CallReturns ==
    ASSUME Inv, NEW c \in Client, Busy(c), Return(c),
           \A w \in Waiter : outcome[w] = "new" /\ ~(Adding(c) /\ w = call[c].w)
                                => outcome'[w] = "new"
    PROVE  CallsOK' /\ AddersDistinct'
<1>0. CallsOK /\ AddersDistinct
    BY TypeSplit DEF Inv
<1>1. call' \in [Client -> {Idle} \cup CallRecord]
    BY <1>0 DEF CallsOK, Return
<1>2. /\ call'[c] = Idle
      /\ \A d \in Client \ {c} : call'[d] = call[d]
    BY <1>0 DEF CallsOK, Return
<1>3. ~Busy(c)' /\ ~Adding(c)'
    BY <1>2 DEF Busy, Adding, Idle
<1>4. \A d \in Client : Adding(d) => call[d].w \in Waiter
    BY <1>0 DEF CallsOK, Adding, Idle, CallRecord
<1>5. \A d \in Client \ {c} : Adding(d) => outcome'[call[d].w] = "new"
    BY <1>0, <1>4 DEF CallsOK, AddersDistinct
<1>6. CallsOK'
    BY <1>0, <1>1, <1>2, <1>3, <1>5 DEF CallsOK, Busy, Adding
<1>7. AddersDistinct'
    BY <1>0, <1>2, <1>3 DEF AddersDistinct, Adding
<1>8. QED
    BY <1>6, <1>7

(* A call starts or moves on.                                              *)
LEMMA CallMoves ==
    ASSUME Inv, NEW c \in Client, NEW r \in CallRecord, r.ctx[1] = r.fd,
           call' = [call EXCEPT ![c] = r],
           \A w \in Waiter : outcome[w] = "new" => outcome'[w] = "new",
           r.op = "add" => /\ r.w \in Waiter /\ r.w # None /\ outcome[r.w] = "new"
                           /\ \A d \in Client \ {c} : Adding(d) => call[d].w # r.w
    PROVE  CallsOK' /\ AddersDistinct'
<1>0. CallsOK /\ AddersDistinct
    BY TypeSplit DEF Inv
<1>1. call' \in [Client -> {Idle} \cup CallRecord]
    BY <1>0 DEF CallsOK
<1>2. /\ call'[c] = r
      /\ \A d \in Client \ {c} : call'[d] = call[d]
    BY <1>0 DEF CallsOK
<1>3. \A d \in Client : Adding(d) => call[d].w \in Waiter
    BY <1>0 DEF CallsOK, Adding, Idle, CallRecord
<1>4. \A d \in Client : Adding(d) => outcome'[call[d].w] = "new"
    BY <1>0, <1>3 DEF CallsOK
<1>5. Adding(c)' => r.w # None /\ outcome'[r.w] = "new"
    BY <1>2 DEF Adding
<1>6. CallsOK'
    BY <1>0, <1>1, <1>2, <1>4, <1>5 DEF CallsOK, Busy, Adding
<1>7. AddersDistinct'
    BY <1>0, <1>2 DEF AddersDistinct, Adding
<1>8. QED
    BY <1>6, <1>7

LEMMA CallStays ==
    ASSUME Inv, UNCHANGED call,
           \A w \in Waiter : outcome[w] = "new" => outcome'[w] = "new"
    PROVE  CallsOK' /\ AddersDistinct'
<1>0. CallsOK /\ AddersDistinct
    BY TypeSplit DEF Inv
<1>1. \A d \in Client : Adding(d) => call[d].w \in Waiter
    BY <1>0 DEF CallsOK, Adding, Idle, CallRecord
<1>2. QED
    BY <1>0, <1>1 DEF CallsOK, AddersDistinct, Busy, Adding

LEMMA CancelAllReturns ==
    ASSUME Inv, NEW c \in Client, Busy(c), ~Adding(c), AfterCancelAll(c),
           \A w \in Waiter : outcome[w] = "new" => outcome'[w] = "new"
    PROVE  CallsOK' /\ AddersDistinct'
<1>0. CallsOK
    BY TypeSplit DEF Inv
<1>1. CASE call[c].op = "close"
    <2> DEFINE r == [call[c] EXCEPT !.at = "close"]
    <2>1. call[c] \in CallRecord /\ call[c].ctx[1] = call[c].fd
        BY <1>0 DEF CallsOK, Busy, Idle
    <2>2. r \in CallRecord /\ r.ctx[1] = r.fd /\ r.op # "add"
        BY <1>1, <2>1 DEF CallRecord
    <2>3. call' = [call EXCEPT ![c] = r]
        BY <1>0, <1>1 DEF AfterCancelAll, CallsOK
    <2> HIDE DEF r
    <2>4. QED
        BY <2>2, <2>3, CallMoves
<1>2. CASE call[c].op # "close"
    BY <1>2, CallReturns DEF AfterCancelAll
<1>3. QED
    BY <1>1, <1>2

(* epoll_ctl() leaves the kernel's tables in order.                        *)
LEMMA CtlKeeps ==
    ASSUME KernelOK, NEW fd \in Fd, NEW want \in SUBSET Event, NEW x \in Context,
           epoll_ctl(fd, want, x)
    PROVE  KernelOK'
<1>1. Ready(fd, want) \in BOOLEAN
    BY DEF Ready
<1>2. QED
    BY <1>1 DEF KernelOK, epoll_ctl

(* Nothing is registered or unregistered.                                  *)
LEMMA WaitsStay ==
    ASSUME Inv, UNCHANGED waits
    PROVE  WaitsOK' /\ PendingCount' /\ CtxClean' /\ SlotOnce'
BY TypeSplit DEF Inv, waits, WaitsOK, PendingCount, Registered, CtxClean, SlotOnce

LEMMA Assembled ==
    ASSUME CallsOK, WaitsOK, KernelOK, RestOK, AddersDistinct,
           PendingCount, CtxClean, SlotOnce
    PROVE  Inv
BY TypeSplit DEF Inv

-----------------------------------------------------------------------------
(* The steps.                                                              *)
LEMMA InitInv == Init => Inv
<1> SUFFICES ASSUME Init PROVE Inv
    OBVIOUS
<1> USE IOEventsAssumption
<1>1. WaitsOK /\ KernelOK /\ RestOK
    BY DEF Init, WaitsOK, KernelOK, RestOK, Context, Outcome
<1>2. \A c \in Client : ~Busy(c) /\ ~Adding(c)
    BY DEF Init, Busy, Adding, Idle
<1>3. CallsOK /\ AddersDistinct
    BY <1>2 DEF Init, CallsOK, AddersDistinct
<1>4. PendingCount
    <2>1. Registered = {}
        BY DEF Init, Registered
    <2>2. QED
        BY <2>1, FS_EmptySet DEF Init, PendingCount
<1>5. CtxClean /\ SlotOnce
    BY DEF Init, CtxClean, SlotOnce, Outcome
<1>6. QED
    BY <1>1, <1>3, <1>4, <1>5, Assembled

LEMMA AssembledNext ==
    ASSUME CallsOK', WaitsOK', KernelOK', RestOK', AddersDistinct',
           PendingCount', CtxClean', SlotOnce'
    PROVE  Inv'
BY DEF Inv, TypeOK, CallsOK, WaitsOK, KernelOK, RestOK, CallRecord

(* A call begins: its record is well formed.                               *)
LEMMA StartFacts ==
    ASSUME RestOK, NEW fd \in Fd, NEW ev \in Event, NEW w \in Waiter \cup {None},
           NEW op \in {"add", "del", "cancel", "cancelAll", "close"},
           NEW at \in {"lock", "grow", "close"}
    PROVE  /\ Call(op, fd, ev, w, at, ContextOf(fd)) \in CallRecord
           /\ Call(op, fd, ev, w, at, ContextOf(fd)).ctx[1] = fd
<1>1. ContextOf(fd) \in Context /\ ContextOf(fd)[1] = fd
    BY DEF RestOK, ContextOf, Context
<1>2. QED
    BY <1>1 DEF Call, CallRecord

LEMMA StartStep ==
    ASSUME Inv, NEW c \in Client, NEW fd \in Fd, NEW ev \in Event,
           NEW w \in Waiter \cup {None},
           NEW op \in {"add", "del", "cancel", "cancelAll", "close"},
           NEW at \in {"lock", "grow", "close"},
           call' = [call EXCEPT ![c] = Call(op, fd, ev, w, at, ContextOf(fd))],
           op = "add" => /\ w \in Waiter /\ outcome[w] = "new"
                         /\ \A d \in Client : Busy(d) => call[d].w # w,
           UNCHANGED <<contexts, waits, kernel, report, failed>>
    PROVE  Inv'
<1> USE IOEventsAssumption
<1> DEFINE r == Call(op, fd, ev, w, at, ContextOf(fd))
<1>0. TypeOK /\ CallsOK /\ WaitsOK /\ KernelOK /\ RestOK
    BY TypeSplit DEF Inv
<1>1. r \in CallRecord /\ r.ctx[1] = r.fd /\ r.op = op /\ r.w = w
    BY <1>0, StartFacts DEF Call
<1>2. \A d \in Client : Adding(d) => Busy(d)
    BY DEF Adding, Busy
<1>3. op = "add" => \A d \in Client \ {c} : Adding(d) => call[d].w # r.w
    BY <1>1, <1>2
<1> HIDE DEF r
<1>4. \A v \in Waiter : outcome[v] = "new" => outcome'[v] = "new"
    BY DEF waits
<1>5. op = "add" => w \in Waiter /\ w # None /\ outcome[w] = "new"
    OBVIOUS
<1>6. call' = [call EXCEPT ![c] = r]
    BY DEF r
<1>7. CallsOK' /\ AddersDistinct'
    BY <1>1, <1>3, <1>4, <1>5, <1>6, CallMoves
<1>8. KernelOK' /\ RestOK'
    BY <1>0 DEF KernelOK, RestOK, kernel, contexts
<1>9. WaitsOK' /\ PendingCount' /\ CtxClean' /\ SlotOnce'
    BY WaitsStay
<1>10. QED
    BY <1>7, <1>8, <1>9, AssembledNext

LEMMA GrowStep ==
    ASSUME Inv, NEW c \in Client, Grow(c)
    PROVE  Inv'
<1> USE IOEventsAssumption
<1> DEFINE fd == call[c].fd  n == (fd * 3) \div 2
           r == [call[c] EXCEPT !.at = "lock", !.ctx = <<fd, gen'[fd]>>]
<1>0. TypeOK /\ CallsOK /\ WaitsOK /\ KernelOK /\ RestOK /\ AddersDistinct
    BY TypeSplit DEF Inv
<1>1. /\ call[c] \in CallRecord /\ fd \in Fd /\ fd \in Nat /\ Adding(c)
      /\ call[c].w \in Waiter /\ call[c].w # None /\ outcome[call[c].w] = "new"
    BY <1>0 DEF Grow, In, Busy, Adding, CallsOK, CallRecord, Idle
<1>2. n \in Nat
    BY <1>1
<1>3. /\ \A f \in Fd : n <= f /\ f < size => gen[f] < MaxGen
      /\ size' = n
      /\ gen' = [f \in Fd |-> IF n <= f /\ f < size THEN gen[f] + 1 ELSE gen[f]]
      /\ call' = [call EXCEPT ![c] = r]
      /\ UNCHANGED <<waits, kernel, report, failed>>
    BY <1>0 DEF Grow, contextResize, CallsOK
<1> HIDE DEF n
<1>4. gen' \in [Fd -> 0 .. MaxGen]
    BY <1>0, <1>2, <1>3 DEF RestOK
<1>5. RestOK' /\ KernelOK'
    BY <1>0, <1>2, <1>3, <1>4 DEF RestOK, KernelOK, kernel
<1>6. <<fd, gen'[fd]>> \in Context
    BY <1>1, <1>4 DEF Context
<1>7. r \in CallRecord /\ r.ctx[1] = r.fd /\ r.w = call[c].w
    BY <1>1, <1>6 DEF CallRecord
<1>8. \A d \in Client \ {c} : Adding(d) => call[d].w # r.w
    BY <1>0, <1>1, <1>7 DEF AddersDistinct
<1>9. \A w \in Waiter : outcome[w] = "new" => outcome'[w] = "new"
    BY <1>3 DEF waits
<1> HIDE DEF r
<1>10. CallsOK' /\ AddersDistinct'
    BY <1>1, <1>3, <1>7, <1>8, <1>9, CallMoves
<1>11. WaitsOK' /\ PendingCount' /\ CtxClean' /\ SlotOnce'
    BY <1>3, WaitsStay
<1>12. QED
    BY <1>5, <1>10, <1>11, AssembledNext

(* What the calls do to epoll keeps its tables in order.                   *)
LEMMA RestStays ==
    ASSUME Inv, UNCHANGED <<contexts, report, failed>>
    PROVE  RestOK'
BY TypeSplit DEF Inv, RestOK, contexts

LEMMA AddStep ==
    ASSUME Inv, NEW c \in Client, AddEvent(c)
    PROVE  Inv'
<1>0. TypeOK /\ CallsOK /\ WaitsOK /\ KernelOK /\ RestOK
    BY TypeSplit DEF Inv
<1>1. Busy(c) /\ Adding(c)
    BY DEF AddEvent, In, Adding
<1>2. call[c].fd \in Fd /\ call[c].ev \in Event /\ call[c].ctx \in Context
    BY <1>0, <1>1, CallFacts
<1>3. epoll_ctl(call[c].fd, events[call[c].ctx] \cup {call[c].ev}, call[c].ctx)
    BY DEF AddEvent
<1>4. events[call[c].ctx] \cup {call[c].ev} \in SUBSET Event
    BY <1>0, <1>2 DEF WaitsOK
<1>5. KernelOK'
    BY <1>0, <1>2, <1>3, <1>4, CtlKeeps
<1>6. WaitsOK' /\ PendingCount' /\ CtxClean' /\ SlotOnce'
    BY AddKeeps DEF WaitsOK
<1>7. \A w \in Waiter \ {call[c].w} : outcome'[w] = outcome[w]
    BY AddKeeps
<1>8. Return(c) /\ UNCHANGED <<contexts, report, failed>>
    BY DEF AddEvent
<1>9. CallsOK' /\ AddersDistinct'
    BY <1>1, <1>7, <1>8, CallReturns
<1>10. RestOK'
    BY <1>8, RestStays
<1>11. QED
    BY <1>5, <1>6, <1>9, <1>10, AssembledNext

LEMMA AddFailsStep ==
    ASSUME Inv, NEW c \in Client, AddEventFails(c)
    PROVE  Inv'
<1>0. CallsOK /\ WaitsOK /\ KernelOK /\ RestOK /\ PendingCount /\ CtxClean /\ SlotOnce
    BY TypeSplit DEF Inv
<1>1. Busy(c) /\ Adding(c) /\ Return(c)
    BY DEF AddEventFails, In, Adding
<1> DEFINE v == call[c].w
<1>2. v \in Waiter /\ outcome[v] = "new"
    BY <1>0, <1>1 DEF CallsOK, CallRecord, Idle, Adding
<1>3. /\ outcome' = [outcome EXCEPT ![v] = "refused"]
      /\ UNCHANGED <<contexts, events, slot, m_pendingEventCount, kernel, report, failed>>
    BY DEF AddEventFails
<1>4. \A w \in Waiter : outcome'[w] = IF w = v THEN "refused" ELSE outcome[w]
    BY <1>0, <1>2, <1>3 DEF WaitsOK
<1>5. WaitsOK' /\ PendingCount' /\ CtxClean'
    BY <1>0, <1>3 DEF WaitsOK, PendingCount, CtxClean, Registered, Outcome
<1>6. SlotOnce'
    BY <1>0, <1>2, <1>3, <1>4 DEF SlotOnce
<1>7. KernelOK' /\ RestOK'
    BY <1>0, <1>3 DEF KernelOK, RestOK, kernel, contexts
<1>8. CallsOK' /\ AddersDistinct'
    BY <1>1, <1>4, CallReturns
<1>9. QED
    BY <1>5, <1>6, <1>7, <1>8, AssembledNext

LEMMA DelStep ==
    ASSUME Inv, NEW c \in Client, DelEvent(c)
    PROVE  Inv'
<1>0. TypeOK /\ CallsOK /\ WaitsOK /\ KernelOK /\ RestOK
    BY TypeSplit DEF Inv
<1>1. Busy(c) /\ Return(c) /\ UNCHANGED <<contexts, report, failed>>
    BY DEF DelEvent, In
<1>2. call[c].fd \in Fd /\ call[c].ev \in Event /\ call[c].ctx \in Context
    BY <1>0, <1>1, CallFacts
<1>3. epoll_ctl(call[c].fd, events[call[c].ctx] \ {call[c].ev}, call[c].ctx)
    BY DEF DelEvent
<1>4. events[call[c].ctx] \ {call[c].ev} \in SUBSET Event
    BY <1>0, <1>2 DEF WaitsOK
<1>5. KernelOK'
    BY <1>0, <1>2, <1>3, <1>4, CtlKeeps
<1>6. /\ WaitsOK' /\ PendingCount' /\ CtxClean' /\ SlotOnce'
      /\ \A w \in Waiter : outcome[w] = "new" => outcome'[w] = "new"
    BY DelKeeps DEF WaitsOK
<1>7. CallsOK' /\ AddersDistinct'
    BY <1>1, <1>6, CallReturns
<1>8. RestOK'
    BY <1>1, RestStays
<1>9. QED
    BY <1>5, <1>6, <1>7, <1>8, AssembledNext

LEMMA CancelStep ==
    ASSUME Inv, NEW c \in Client, CancelEvent(c)
    PROVE  Inv'
<1>0. TypeOK /\ CallsOK /\ WaitsOK /\ KernelOK /\ RestOK
    BY TypeSplit DEF Inv
<1> DEFINE x == call[c].ctx  ev == call[c].ev
<1>1. Busy(c) /\ Return(c) /\ UNCHANGED <<contexts, report, failed>>
    BY DEF CancelEvent, In
<1>2. call[c].fd \in Fd /\ ev \in Event /\ x \in Context
    BY <1>0, <1>1, CallFacts
<1>3. /\ ev \in events[x]
      /\ epoll_ctl(call[c].fd, events[x] \ {ev}, x)
      /\ triggerEvent(x, {ev})
    BY DEF CancelEvent
<1>4. events[x] \ {ev} \in SUBSET Event /\ {ev} \in SUBSET events[x]
    BY <1>0, <1>2, <1>3 DEF WaitsOK
<1> HIDE DEF x, ev
<1>5. KernelOK'
    BY <1>0, <1>2, <1>3, <1>4, CtlKeeps
<1>6. /\ WaitsOK' /\ PendingCount' /\ CtxClean' /\ SlotOnce'
      /\ \A w \in Waiter : outcome[w] = "new" => outcome'[w] = "new"
    BY <1>2, <1>3, <1>4, TriggerKeeps DEF WaitsOK
<1>7. CallsOK' /\ AddersDistinct'
    BY <1>1, <1>6, CallReturns
<1>8. RestOK'
    BY <1>1, RestStays
<1>9. QED
    BY <1>5, <1>6, <1>7, <1>8, AssembledNext

LEMMA CancelAllStep ==
    ASSUME Inv, NEW c \in Client, CancelAll(c)
    PROVE  Inv'
<1>0. TypeOK /\ CallsOK /\ WaitsOK /\ KernelOK /\ RestOK
    BY TypeSplit DEF Inv
<1> DEFINE x == call[c].ctx
<1>1. /\ Busy(c) /\ ~Adding(c) /\ AfterCancelAll(c)
      /\ UNCHANGED <<contexts, report, failed>>
    BY DEF CancelAll, In, Adding
<1>2. call[c].fd \in Fd /\ x \in Context
    BY <1>0, <1>1, CallFacts
<1>3. epoll_ctl(call[c].fd, {}, x) /\ triggerEvent(x, events[x])
    BY DEF CancelAll
<1>4. {} \in SUBSET Event /\ events[x] \in SUBSET events[x]
    OBVIOUS
<1> HIDE DEF x
<1>5. KernelOK'
    BY <1>0, <1>2, <1>3, <1>4, CtlKeeps
<1>6. /\ WaitsOK' /\ PendingCount' /\ CtxClean' /\ SlotOnce'
      /\ \A w \in Waiter : outcome[w] = "new" => outcome'[w] = "new"
    BY <1>2, <1>3, <1>4, TriggerKeeps DEF WaitsOK
<1>7. CallsOK' /\ AddersDistinct'
    BY <1>1, <1>6, CancelAllReturns
<1>8. RestOK'
    BY <1>1, RestStays
<1>9. QED
    BY <1>5, <1>6, <1>7, <1>8, AssembledNext

LEMMA CloseStep ==
    ASSUME Inv, NEW c \in Client, KernelClose(c)
    PROVE  Inv'
<1>0. TypeOK /\ CallsOK /\ WaitsOK /\ KernelOK /\ RestOK /\ PendingCount /\ CtxClean
    BY TypeSplit DEF Inv
<1>1. /\ Busy(c) /\ Return(c) /\ UNCHANGED <<contexts, report, failed>>
      /\ UNCHANGED <<events, slot, m_pendingEventCount>>
    BY DEF KernelClose, In
<1>2. call[c].fd \in Fd
    BY <1>0, <1>1, CallFacts
<1>3. KernelOK'
    BY <1>0, <1>2 DEF KernelOK, KernelClose
<1>4. /\ outcome' \in [Waiter -> Outcome] /\ SlotOnce'
      /\ \A w \in Waiter : outcome[w] = "new" => outcome'[w] = "new"
    BY CloseKeeps
<1>5. WaitsOK' /\ PendingCount' /\ CtxClean'
    BY <1>0, <1>1, <1>4 DEF WaitsOK, PendingCount, Registered, CtxClean
<1>6. CallsOK' /\ AddersDistinct'
    BY <1>1, <1>4, CallReturns
<1>7. RestOK'
    BY <1>1, RestStays
<1>8. QED
    BY <1>3, <1>4, <1>5, <1>6, <1>7, AssembledNext

(* Calls that come to nothing.                                             *)
LEMMA NothingStep ==
    ASSUME Inv, NEW c \in Client,
           NothingToDo(c) \/ CancelNone(c) \/ AddEventAborts(c)
    PROVE  Inv'
<1>0. TypeOK /\ CallsOK /\ WaitsOK /\ KernelOK /\ RestOK
    BY TypeSplit DEF Inv
<1>1. UNCHANGED <<waits, kernel>> /\ UNCHANGED outcome
    BY DEF NothingToDo, CancelNone, AddEventAborts, waits
<1>2. WaitsOK' /\ PendingCount' /\ CtxClean' /\ SlotOnce'
    BY <1>1, WaitsStay
<1>3. KernelOK'
    BY <1>0, <1>1 DEF KernelOK, kernel
<1>4. RestOK'
    BY <1>0 DEF RestOK, contexts, NothingToDo, CancelNone, AddEventAborts
<1>5. CASE NothingToDo(c)
    <2>1. Busy(c) /\ Return(c)
        BY <1>5 DEF NothingToDo, In
    <2>2. CallsOK' /\ AddersDistinct'
        BY <1>1, <2>1, CallReturns
    <2>3. QED
        BY <1>2, <1>3, <1>4, <2>2, AssembledNext
<1>6. CASE CancelNone(c)
    <2>1. Busy(c) /\ ~Adding(c) /\ AfterCancelAll(c)
        BY <1>6 DEF CancelNone, In, Adding
    <2>2. CallsOK' /\ AddersDistinct'
        BY <1>1, <2>1, CancelAllReturns
    <2>3. QED
        BY <1>2, <1>3, <1>4, <2>2, AssembledNext
<1>7. CASE AddEventAborts(c)
    <2>1. CallsOK' /\ AddersDistinct'
        BY <1>1, <1>7, CallStays DEF AddEventAborts
    <2>2. QED
        BY <1>2, <1>3, <1>4, <2>1, AssembledNext
<1>8. QED
    BY <1>5, <1>6, <1>7

(* The idle loops.                                                         *)
LEMMA DispatchStep ==
    ASSUME Inv, NEW l \in Looper, NEW r \in report[l], Dispatch(l, r)
    PROVE  Inv'
<1>0. TypeOK /\ CallsOK /\ WaitsOK /\ KernelOK /\ RestOK
    BY TypeSplit DEF Inv
<1> DEFINE x == r.ctx  real == RealEvents(r)
<1>1. x \in Context /\ x[1] \in Fd
    BY <1>0 DEF RestOK, Context
<1>2. /\ real \subseteq events[x]
      /\ epoll_ctl(x[1], events[x] \ real, x)
      /\ triggerEvent(x, real)
      /\ Done(l, r)
      /\ UNCHANGED <<contexts, call, failed>>
    BY DEF Dispatch
<1>3. events[x] \ real \in SUBSET Event
    BY <1>0, <1>1 DEF WaitsOK
<1> HIDE DEF x, real
<1>4. KernelOK'
    BY <1>0, <1>1, <1>2, <1>3, CtlKeeps
<1>5. /\ WaitsOK' /\ PendingCount' /\ CtxClean' /\ SlotOnce'
      /\ \A w \in Waiter : outcome[w] = "new" => outcome'[w] = "new"
    BY <1>1, <1>2, TriggerKeeps DEF WaitsOK
<1>6. CallsOK' /\ AddersDistinct'
    BY <1>2, <1>5, CallStays
<1>7. RestOK'
    BY <1>0, <1>2 DEF RestOK, Done, contexts
<1>8. QED
    BY <1>4, <1>5, <1>6, <1>7, AssembledNext

(* Steps that touch neither calls nor waiters.                             *)
LEMMA QuietStep ==
    ASSUME Inv, UNCHANGED <<waits, call>>, KernelOK', RestOK'
    PROVE  Inv'
<1>1. WaitsOK' /\ PendingCount' /\ CtxClean' /\ SlotOnce'
    BY WaitsStay
<1>2. CallsOK' /\ AddersDistinct'
    BY CallStays DEF waits
<1>3. QED
    BY <1>1, <1>2, AssembledNext

LEMMA LooperStepKeeps ==
    ASSUME Inv, NEW l \in Looper, LooperStep(l)
    PROVE  Inv'
<1>0. KernelOK /\ RestOK
    BY TypeSplit DEF Inv
<1>1. CASE Report(l)
    <2>1. UNCHANGED <<waits, call>>
        BY <1>1 DEF Report
    <2>2. KernelOK'
        BY <1>0, <1>1 DEF KernelOK, Report
    <2>3. RestOK'
        <3>1. PICK S \in SUBSET Fd :
                 report' = [report EXCEPT ![l] =
                              {[ctx |-> data[fd], mask |-> Mask(fd)] : fd \in S}]
            BY <1>1 DEF Report
        <3>2. \A fd \in S : data[fd] \in Context /\ Mask(fd) \in SUBSET (Event \cup {"HUP"})
            BY <1>0 DEF KernelOK, Mask
        <3>3. report' \in [Looper ->
                    SUBSET [ctx : Context, mask : SUBSET (Event \cup {"HUP"})]]
            BY <1>0, <3>1, <3>2 DEF RestOK
        <3>4. QED
            BY <1>0, <1>1, <3>3 DEF RestOK, Report, contexts
    <2>4. QED
        BY <2>1, <2>2, <2>3, QuietStep
<1>2. ASSUME NEW r \in report[l], Dispatch(l, r)
      PROVE  Inv'
    BY <1>2, DispatchStep
<1>3. ASSUME NEW r \in report[l], DispatchSkips(l, r) \/ DispatchAborts(l, r)
      PROVE  Inv'
    <2>1. UNCHANGED <<waits, kernel, call>>
        BY <1>3 DEF DispatchSkips, DispatchAborts
    <2>2. KernelOK'
        BY <1>0, <2>1 DEF KernelOK, kernel
    <2>3. RestOK'
        BY <1>0, <1>3 DEF RestOK, DispatchSkips, DispatchAborts, Done, contexts
    <2>4. QED
        BY <2>1, <2>2, <2>3, QuietStep
<1>4. QED
    BY <1>1, <1>2, <1>3 DEF LooperStep

LEMMA KernelStepKeeps ==
    ASSUME Inv, Kernel
    PROVE  Inv'
<1>0. KernelOK /\ RestOK
    BY TypeSplit DEF Inv
<1>1. UNCHANGED <<waits, call, contexts, report, failed>>
    BY DEF Kernel, Open, BecomeReady, Consume
<1>2. KernelOK'
    <2>1. ASSUME NEW fd \in Fd, Open(fd)
          PROVE  KernelOK'
        BY <1>0, <2>1 DEF KernelOK, Open
    <2>2. ASSUME NEW fd \in Fd, NEW e \in Event \cup {"HUP"}, BecomeReady(fd, e)
          PROVE  KernelOK'
        <3>1. (edge[fd] \/ (interest[fd] # {} /\ e \in interest[fd] \cup {"HUP"}))
                 \in BOOLEAN
            BY <1>0
        <3>2. QED
            BY <1>0, <2>2, <3>1 DEF KernelOK, BecomeReady
    <2>3. ASSUME NEW fd \in Fd, NEW e \in Event \cup {"HUP"}, Consume(fd, e)
          PROVE  KernelOK'
        BY <1>0, <2>3 DEF KernelOK, Consume
    <2>4. QED
        BY <2>1, <2>2, <2>3 DEF Kernel
<1>3. RestOK'
    BY <1>1, RestStays
<1>4. QED
    BY <1>1, <1>2, <1>3, QuietStep

LEMMA ClientStepKeeps ==
    ASSUME Inv, NEW c \in Client, ClientStep(c)
    PROVE  Inv'
<1>1. ASSUME NEW fd \in Fd, NEW ev \in Event, NEW w \in Waiter, StartAdd(c, fd, ev, w)
      PROVE  Inv'
    <2> DEFINE at == IF size > fd THEN "lock" ELSE "grow"
    <2>1. at \in {"lock", "grow", "close"}
        OBVIOUS
    <2>2. /\ call' = [call EXCEPT ![c] = Call("add", fd, ev, w, at, ContextOf(fd))]
          /\ outcome[w] = "new" /\ \A d \in Client : Busy(d) => call[d].w # w
          /\ UNCHANGED <<contexts, waits, kernel, report, failed>>
        BY <1>1 DEF StartAdd
    <2> HIDE DEF at
    <2>3. QED
        BY <2>1, <2>2, StartStep
<1>2. ASSUME NEW op \in {"del", "cancel", "cancelAll"}, NEW fd \in Fd, NEW ev \in Event,
             StartOther(c, op, fd, ev)
      PROVE  Inv'
    <2>1. /\ call' = [call EXCEPT ![c] = Call(op, fd, ev, None, "lock", ContextOf(fd))]
          /\ UNCHANGED <<contexts, waits, kernel, report, failed>>
        BY <1>2 DEF StartOther
    <2>2. QED
        BY <2>1, StartStep
<1>3. ASSUME NEW fd \in Fd, StartClose(c, fd)
      PROVE  Inv'
    <2> DEFINE at == IF size > fd THEN "lock" ELSE "close"
    <2>1. at \in {"lock", "grow", "close"} /\ "READ" \in Event
        BY DEF Event
    <2>2. /\ call' = [call EXCEPT ![c] = Call("close", fd, "READ", None, at, ContextOf(fd))]
          /\ UNCHANGED <<contexts, waits, kernel, report, failed>>
        BY <1>3 DEF StartClose
    <2> HIDE DEF at
    <2>3. QED
        BY <2>1, <2>2, StartStep
<1>4. "READ" \in Event
    BY DEF Event
<1>5. QED
    BY <1>1, <1>2, <1>3, <1>4, GrowStep, AddStep, AddFailsStep, DelStep, CancelStep,
       CancelAllStep, CloseStep, NothingStep DEF ClientStep

(* WaiterOnce is SlotOnce, seen from the waiter.                           *)
LEMMA OnceFromSlots == TypeOK /\ SlotOnce => WaiterOnce
<1> SUFFICES ASSUME TypeOK, SlotOnce, NEW w \in Waiter
             PROVE  /\ \A p, q \in Slots(w) : p = q
                    /\ Slots(w) # {} <=> outcome[w] \in {"waiting", "lost"}
    BY DEF WaiterOnce
<1> USE IOEventsAssumption
<1>1. \A p \in Slots(w) : /\ p = <<p[1], p[2]>> /\ p[1] \in Context /\ p[2] \in Event
                          /\ slot[p[1]][p[2]] = w
    BY DEF Slots
<1>2. \A p, q \in Slots(w) : p = q
    <2>1. ASSUME NEW p \in Slots(w), NEW q \in Slots(w)
          PROVE  p[1] = q[1] /\ p[2] = q[2]
        BY <1>1 DEF SlotOnce
    <2>2. QED
        BY <1>1, <2>1
<1>3. Slots(w) # {} <=> \E x \in Context, e \in Event : slot[x][e] = w
    <2>1. ASSUME NEW x \in Context, NEW e \in Event, slot[x][e] = w
          PROVE  <<x, e>> \in Slots(w)
        BY <2>1 DEF Slots
    <2>2. QED
        BY <1>1, <2>1
<1>4. QED
    BY <1>2, <1>3 DEF SlotOnce

-----------------------------------------------------------------------------
(* The theorems.                                                           *)

(* The invariant is inductive.                                             *)
THEOREM Invariance == Spec => []Inv
<1>1. Init => Inv
    BY InitInv
<1>2. Inv /\ [Next]_vars => Inv'
    <2> SUFFICES ASSUME Inv, [Next]_vars PROVE Inv'
        OBVIOUS
    <2>1. CASE Next
        BY <2>1, ClientStepKeeps, LooperStepKeeps, KernelStepKeeps DEF Next
    <2>2. CASE UNCHANGED vars
        <3>1. KernelOK' /\ RestOK'
            BY <2>2, TypeSplit DEF Inv, KernelOK, RestOK, vars, kernel, contexts
        <3>2. UNCHANGED <<waits, call>>
            BY <2>2 DEF vars
        <3>3. QED
            BY <3>1, <3>2, QuietStep
    <2>3. QED
        BY <2>1, <2>2
<1>3. QED
    BY <1>1, <1>2, PTL DEF Spec

(* Type correctness: no call works on a context that does not exist or on  *)
(* another descriptor's.                                                   *)
THEOREM TypeCorrect == Spec => []TypeOK
<1>1. Inv => TypeOK
    BY DEF Inv
<1>2. QED
    BY <1>1, Invariance, PTL

(* m_pendingEventCount counts the registered events, in every context that *)
(* was ever created: stopping() is neither early nor late because of it.   *)
THEOREM CountCorrect == Spec => []PendingCount
<1>1. Inv => PendingCount
    BY DEF Inv
<1>2. QED
    BY <1>1, Invariance, PTL

(* An EventContext is clean exactly while its event is not registered.     *)
THEOREM ContextsClean == Spec => []CtxClean
<1>1. Inv => CtxClean
    BY DEF Inv
<1>2. QED
    BY <1>1, Invariance, PTL

(* No fiber or callback is resumed twice by the manager, however cancels,  *)
(* closes and reports of several loops race.                               *)
THEOREM ResumedOnce == Spec => []WaiterOnce
<1>1. Inv => WaiterOnce
    BY OnceFromSlots DEF Inv
<1>2. QED
    BY <1>1, Invariance, PTL
=============================================================================
