------------------------- MODULE IOEventsSyncProofs -------------------------
(***************************************************************************)
(* What epoll watches and what contexts have registered agree, and no edge *)
(* is lost (InterestSync, NoLostEdge), for every number of clients,        *)
(* loopers, descriptors and waiters, and for every descriptor whose first  *)
(* context contextResize() has not dropped.                                *)
(***************************************************************************)
EXTENDS IOEventsProofs

-----------------------------------------------------------------------------
(* The inductive invariant.                                                *)

First(fd) == <<fd, 0>>

(* No pointer to a context is newer than the context the table holds.      *)
GenOK ==
    /\ \A c \in Client : Busy(c) => call[c].ctx[2] <= gen[call[c].fd]
    /\ \A l \in Looper : \A r \in report[l] : r.ctx[2] <= gen[r.ctx[1]]
    /\ \A fd \in Fd : data[fd][1] = fd /\ data[fd][2] <= gen[fd]

(* The kernel watches open descriptors only.                               *)
Watched == \A fd \in Fd : interest[fd] # {} => fd \in open

(* A descriptor's first context has epoll's attention for what it has      *)
(* registered; or the descriptor was closed under its waiters: then epoll  *)
(* does not watch it, something stays registered, and no epoll_ctl() for   *)
(* it succeeds again, because each of them takes it for watched.           *)
Followed(fd) ==
    /\ interest[fd] = events[First(fd)]
    /\ \A ev \in Event : slot[First(fd)][ev] # None
                           => outcome[slot[First(fd)][ev]] # "lost"

Cut(fd) ==
    /\ interest[fd] = {} /\ events[First(fd)] # {}
    /\ \A ev \in Event : slot[First(fd)][ev] # None
                           => outcome[slot[First(fd)][ev]] = "lost"

WatchOK == \A fd \in Fd : Kept(fd) => Followed(fd) \/ Cut(fd)

(* An edge is in the kernel or in a looper's hand.                         *)
InHand(fd, ev) ==
    \E l \in Looper : \E r \in report[l] :
        r.ctx = First(fd) /\ r.mask \cap {ev, "HUP"} # {}

EdgeOK ==
    \A fd \in Fd : (Kept(fd) /\ Followed(fd)) =>
        \A ev \in events[First(fd)] :
            ready[fd] \cap {ev, "HUP"} # {} => edge[fd] \/ InHand(fd, ev)

SyncInv == GenOK /\ Watched /\ WatchOK /\ EdgeOK

-----------------------------------------------------------------------------
(* Lemmas.                                                                 *)

LEMMA FirstContext ==
    ASSUME NEW fd \in Fd
    PROVE  First(fd) \in Context /\ First(fd)[1] = fd /\ First(fd)[2] = 0
BY IOEventsAssumption DEF First, Context

(* A context no newer than a first one is that one.                        *)
LEMMA OnlyFirst ==
    ASSUME NEW x \in Context, gen[x[1]] = 0, x[2] <= gen[x[1]]
    PROVE  x = First(x[1])
BY IOEventsAssumption DEF First, Context

LEMMA ReportFacts ==
    ASSUME TypeOK, NEW l \in Looper, NEW r \in report[l]
    PROVE  r.ctx \in Context /\ r.ctx[1] \in Fd /\ r.mask \subseteq Event \cup {"HUP"}
BY DEF TypeOK, Context

(* What epoll_ctl() leaves behind.                                         *)
LEMMA CtlEffect ==
    ASSUME TypeOK, NEW fd \in Fd, NEW want \in SUBSET Event, NEW x \in Context,
           epoll_ctl(fd, want, x)
    PROVE  /\ interest'[fd] = want /\ data'[fd] = x /\ edge'[fd] = Ready(fd, want)
           /\ \A g \in Fd \ {fd} : /\ interest'[g] = interest[g] /\ data'[g] = data[g]
                                   /\ edge'[g] = edge[g]
           /\ UNCHANGED <<ready, open>>
BY DEF TypeOK, epoll_ctl

(* A step that calls epoll_ctl() for context x with what x has registered  *)
(* afterwards, that touches no other context and no waiter of another one, *)
(* and takes no report of another context out of a looper's hand.          *)
LEMMA CtlSync ==
    ASSUME TypeOK, SyncInv, NEW x \in Context, x[2] <= gen[x[1]], UNCHANGED gen,
           x[1] \in open, events[x] = {} <=> interest[x[1]] = {},
           events'[x] \subseteq Event, epoll_ctl(x[1], events'[x], x),
           \A y \in Context \ {x} : events'[y] = events[y] /\ slot'[y] = slot[y],
           \A ev \in Event : slot'[x][ev] # None =>
              \/ outcome'[slot'[x][ev]] = "waiting"
              \/ /\ slot'[x][ev] = slot[x][ev]
                 /\ outcome'[slot[x][ev]] = outcome[slot[x][ev]],
           \A y \in Context \ {x}, ev \in Event : slot[y][ev] # None =>
              outcome'[slot[y][ev]] = outcome[slot[y][ev]],
           \A l \in Looper : /\ report'[l] \subseteq report[l]
                             /\ \A r \in report[l] : r.ctx # x => r \in report'[l]
    PROVE  /\ Watched' /\ WatchOK' /\ EdgeOK'
           /\ \A fd \in Fd : data'[fd][1] = fd /\ data'[fd][2] <= gen'[fd]
<1>0. x[1] \in Fd
    BY DEF Context
<1> DEFINE d == x[1]
<1>1. /\ interest'[d] = events'[x] /\ data'[d] = x /\ edge'[d] = Ready(d, events'[x])
      /\ \A g \in Fd \ {d} : /\ interest'[g] = interest[g] /\ data'[g] = data[g]
                             /\ edge'[g] = edge[g]
      /\ UNCHANGED <<ready, open>>
    BY <1>0, CtlEffect
<1>2. Watched'
    BY <1>0, <1>1 DEF Watched, SyncInv
<1>3. \A fd \in Fd : data'[fd][1] = fd /\ data'[fd][2] <= gen'[fd]
    BY <1>0, <1>1 DEF GenOK, SyncInv
<1>4. ASSUME gen[d] = 0
      PROVE  x = First(d) /\ Followed(d) /\ Followed(d)'
    <2>1. x = First(d)
        BY <1>4, <1>0, OnlyFirst
    <2>2. Followed(d) \/ Cut(d)
        BY <1>0, <1>4 DEF SyncInv, WatchOK, Kept
    <2>3. ~Cut(d)
        BY <2>1 DEF Cut
    <2>4. Followed(d)
        BY <2>2, <2>3
    <2>5. Followed(d)'
        BY <1>1, <2>1, <2>4 DEF Followed, First
    <2>6. QED
        BY <2>1, <2>4, <2>5
<1>5. ASSUME NEW fd \in Fd, fd # d
      PROVE  /\ First(fd) \in Context \ {x}
             /\ Followed(fd)' <=> Followed(fd)
             /\ Cut(fd)' <=> Cut(fd)
    <2>1. First(fd) \in Context \ {x}
        BY <1>5, FirstContext
    <2>2. /\ events'[First(fd)] = events[First(fd)] /\ slot'[First(fd)] = slot[First(fd)]
          /\ interest'[fd] = interest[fd]
          /\ \A ev \in Event : slot[First(fd)][ev] # None =>
                outcome'[slot[First(fd)][ev]] = outcome[slot[First(fd)][ev]]
        BY <1>1, <1>5, <2>1
    <2>3. QED
        BY <2>1, <2>2 DEF Followed, Cut, First
<1>6. WatchOK'
    <2> SUFFICES ASSUME NEW fd \in Fd, gen'[fd] = 0
                 PROVE  Followed(fd)' \/ Cut(fd)'
        BY DEF WatchOK, Kept
    <2>1. CASE fd = d
        BY <1>4, <2>1
    <2>2. CASE fd # d
        <3>1. Followed(fd) \/ Cut(fd)
            BY DEF SyncInv, WatchOK, Kept
        <3>2. QED
            BY <1>5, <2>2, <3>1
    <2>3. QED
        BY <2>1, <2>2
<1>7. EdgeOK'
    <2> SUFFICES ASSUME NEW fd \in Fd, gen'[fd] = 0, Followed(fd)',
                        NEW ev \in events'[First(fd)], ready'[fd] \cap {ev, "HUP"} # {}
                 PROVE  edge'[fd] \/ InHand(fd, ev)'
        BY DEF EdgeOK, Kept, First
    <2>1. CASE fd = d
        <3>1. x = First(d)
            BY <1>4, <2>1
        <3>2. Ready(d, events'[x])
            BY <1>1, <2>1, <3>1 DEF Ready
        <3>3. QED
            BY <1>1, <2>1, <3>2
    <2>2. CASE fd # d
        <3>1. Followed(fd) /\ events'[First(fd)] = events[First(fd)] /\ First(fd) # x
            BY <1>5, <2>2
        <3>2. ready[fd] = ready'[fd] /\ edge'[fd] = edge[fd]
            BY <1>1, <2>2
        <3>3. edge[fd] \/ InHand(fd, ev)
            BY <3>1, <3>2 DEF SyncInv, EdgeOK, Kept
        <3>4. InHand(fd, ev) => InHand(fd, ev)'
            <4> SUFFICES ASSUME NEW l \in Looper, NEW r \in report[l],
                                r.ctx = First(fd), r.mask \cap {ev, "HUP"} # {}
                         PROVE  InHand(fd, ev)'
                BY DEF InHand
            <4>1. r \in report'[l]
                BY <3>1
            <4>2. QED
                BY <4>1 DEF InHand, First
        <3>5. QED
            BY <3>2, <3>3, <3>4
    <2>3. QED
        BY <2>1, <2>2
<1>8. QED
    BY <1>2, <1>3, <1>6, <1>7

(* A step that touches neither waiters nor the kernel, and takes no report *)
(* that counts out of a looper's hand.                                     *)
LEMMA RestSync ==
    ASSUME SyncInv, UNCHANGED <<events, slot, interest, edge, ready, open>>,
           \A y \in Context, ev \in Event : slot[y][ev] # None =>
              outcome'[slot[y][ev]] = outcome[slot[y][ev]],
           \A fd \in Fd : gen'[fd] = 0 => gen[fd] = 0,
           \A fd \in Fd, ev \in Event :
              (Kept(fd) /\ Followed(fd) /\ ev \in events[First(fd)] /\ InHand(fd, ev))
                 => InHand(fd, ev)',
           events \in [Context -> SUBSET Event]
    PROVE  Watched' /\ WatchOK' /\ EdgeOK'
<1>1. Watched'
    BY DEF SyncInv, Watched
<1>2. ASSUME NEW fd \in Fd
      PROVE  /\ Followed(fd)' <=> Followed(fd)
             /\ Cut(fd)' <=> Cut(fd)
             /\ Kept(fd)' => Kept(fd)
    <2>1. \A ev \in Event : slot[First(fd)][ev] # None =>
             outcome'[slot[First(fd)][ev]] = outcome[slot[First(fd)][ev]]
        BY FirstContext
    <2>2. (Followed(fd)' <=> Followed(fd)) /\ (Cut(fd)' <=> Cut(fd))
        BY <2>1 DEF Followed, Cut, First
    <2>3. QED
        BY <2>2 DEF Kept
<1>3. WatchOK'
    BY <1>2 DEF SyncInv, WatchOK
<1>4. EdgeOK'
    <2> SUFFICES ASSUME NEW fd \in Fd, Kept(fd)', Followed(fd)',
                        NEW ev \in events'[First(fd)], ready'[fd] \cap {ev, "HUP"} # {}
                 PROVE  edge'[fd] \/ InHand(fd, ev)'
        BY DEF EdgeOK, First
    <2>1. Kept(fd) /\ Followed(fd) /\ ev \in events[First(fd)] /\ ev \in Event
        BY <1>2, FirstContext
    <2>2. edge[fd] \/ InHand(fd, ev)
        BY <2>1 DEF SyncInv, EdgeOK
    <2>3. QED
        BY <2>1, <2>2 DEF Kept
<1>5. QED
    BY <1>1, <1>3, <1>4

LEMMA HandsStay ==
    ASSUME UNCHANGED report
    PROVE  \A fd \in Fd, ev \in Event : InHand(fd, ev) => InHand(fd, ev)'
BY DEF InHand, First

(* The pointers to contexts: calls, reports and the kernel's.              *)
CallsFit   == \A c \in Client : Busy(c) => call[c].ctx[2] <= gen[call[c].fd]
ReportsFit == \A l \in Looper : \A r \in report[l] : r.ctx[2] <= gen[r.ctx[1]]
DataFits   == \A fd \in Fd : data[fd][1] = fd /\ data[fd][2] <= gen[fd]

LEMMA GenSplit == GenOK <=> CallsFit /\ ReportsFit /\ DataFits
BY DEF GenOK, CallsFit, ReportsFit, DataFits

LEMMA GenSplitNext == CallsFit' /\ ReportsFit' /\ DataFits' => GenOK'
BY DEF GenOK, CallsFit, ReportsFit, DataFits

LEMMA CallsFitStay ==
    ASSUME CallsFit, UNCHANGED gen,
           \A d \in Client : Busy(d)' => /\ Busy(d)
                                        /\ call'[d].ctx = call[d].ctx
                                        /\ call'[d].fd = call[d].fd
    PROVE  CallsFit'
BY DEF CallsFit

LEMMA ReturnFits ==
    ASSUME TypeOK, CallsFit, UNCHANGED gen, NEW c \in Client,
           Return(c) \/ AfterCancelAll(c)
    PROVE  CallsFit'
<1>1. CASE Return(c)
    <2>1. \A d \in Client : Busy(d)' => Busy(d) /\ call'[d] = call[d]
        BY <1>1 DEF TypeOK, Return, Busy, Idle
    <2>2. QED
        BY <2>1, CallsFitStay
<1>2. CASE call' = [call EXCEPT ![c].at = "close"]
    <2>1. \A d \in Client : /\ call'[d].op = call[d].op
                            /\ Busy(d) => /\ call'[d].ctx = call[d].ctx
                                          /\ call'[d].fd = call[d].fd
        <3>1. \A d \in Client \ {c} : call'[d] = call[d]
            BY <1>2 DEF TypeOK
        <3>2. call'[c] = [call[c] EXCEPT !.at = "close"]
            BY <1>2 DEF TypeOK
        <3>3. call[c] = Idle \/ Busy(c)
            BY DEF TypeOK, Busy, Idle
        <3>4. /\ call'[c].op = call[c].op
              /\ Busy(c) => call'[c].ctx = call[c].ctx /\ call'[c].fd = call[c].fd
            BY <3>2, <3>3 DEF TypeOK, Idle, Busy
        <3>5. QED
            BY <3>1, <3>4
    <2>2. QED
        BY <2>1, CallsFitStay DEF Busy
<1>3. QED
    BY <1>1, <1>2 DEF AfterCancelAll

LEMMA ReportsFitStay ==
    ASSUME ReportsFit, UNCHANGED gen, \A l \in Looper : report'[l] \subseteq report[l]
    PROVE  ReportsFit'
BY DEF ReportsFit

LEMMA DataFitsStay ==
    ASSUME DataFits, UNCHANGED <<gen, data>>
    PROVE  DataFits'
BY DEF DataFits

(* triggerEvent(), as CtlSync asks for it.                                 *)
LEMMA TriggerEffect ==
    ASSUME Inv, NEW x \in Context, NEW S \in SUBSET events[x], triggerEvent(x, S)
    PROVE  /\ events'[x] = events[x] \ S
           /\ \A y \in Context \ {x} : events'[y] = events[y] /\ slot'[y] = slot[y]
           /\ \A ev \in Event : slot'[x][ev] # None =>
                 /\ slot'[x][ev] = slot[x][ev]
                 /\ outcome'[slot[x][ev]] = outcome[slot[x][ev]]
           /\ \A y \in Context \ {x}, ev \in Event : slot[y][ev] # None =>
                 outcome'[slot[y][ev]] = outcome[slot[y][ev]]
<1> USE IOEventsAssumption
<1>0. TypeOK /\ SlotOnce /\ S \subseteq Event
    BY DEF Inv, TypeOK
<1>1. /\ events' = [events EXCEPT ![x] = events[x] \ S]
      /\ slot' = [slot EXCEPT ![x] =
                    [ev \in Event |-> IF ev \in S THEN None ELSE slot[x][ev]]]
      /\ outcome' = [w \in Waiter |->
             IF w \in {slot[x][ev] : ev \in S} THEN "scheduled" ELSE outcome[w]]
    BY <1>0 DEF triggerEvent, TypeOK
<1>2. /\ events'[x] = events[x] \ S
      /\ \A y \in Context \ {x} : events'[y] = events[y] /\ slot'[y] = slot[y]
      /\ \A ev \in Event : slot'[x][ev] = IF ev \in S THEN None ELSE slot[x][ev]
    BY <1>0, <1>1 DEF TypeOK
<1>3. ASSUME NEW y \in Context, NEW ev \in Event, slot[y][ev] # None,
             y = x => ev \notin S
      PROVE  outcome'[slot[y][ev]] = outcome[slot[y][ev]]
    <2>1. slot[y][ev] \notin {slot[x][e] : e \in S}
        BY <1>0, <1>3 DEF SlotOnce
    <2>2. slot[y][ev] \in Waiter
        BY <1>0, <1>3 DEF TypeOK
    <2>3. QED
        BY <1>1, <2>1, <2>2
<1>4. QED
    BY <1>2, <1>3

-----------------------------------------------------------------------------
(* The steps.                                                              *)

LEMMA SyncAssembled ==
    ASSUME CallsFit', ReportsFit', DataFits', Watched', WatchOK', EdgeOK'
    PROVE  SyncInv'
BY GenSplitNext DEF SyncInv

(* The invariant's parts, and what a call under way works on.              *)
LEMMA SyncParts ==
    ASSUME Inv, SyncInv
    PROVE  /\ TypeOK /\ SlotOnce /\ CtxClean /\ CallsFit /\ ReportsFit /\ DataFits
           /\ events \in [Context -> SUBSET Event] /\ gen \in [Fd -> Nat]
           /\ \A c \in Client : Busy(c) =>
                 /\ call[c].fd \in Fd /\ call[c].ev \in Event /\ call[c].ctx \in Context
                 /\ call[c].ctx[1] = call[c].fd /\ call[c].ctx[2] <= gen[call[c].fd]
<1>1. TypeOK /\ SlotOnce /\ CtxClean /\ CallsFit /\ ReportsFit /\ DataFits
    BY GenSplit DEF Inv, SyncInv
<1>2. events \in [Context -> SUBSET Event] /\ gen \in [Fd -> Nat]
    BY <1>1, IOEventsAssumption DEF TypeOK
<1>3. QED
    BY <1>1, <1>2, CallFacts DEF CallsFit

(* Calls that neither register nor unregister.                             *)
LEMMA SyncStart ==
    ASSUME Inv, SyncInv, NEW c \in Client, NEW op, NEW fd \in Fd, NEW ev, NEW w, NEW at,
           call' = [call EXCEPT ![c] = Call(op, fd, ev, w, at, ContextOf(fd))],
           UNCHANGED <<contexts, waits, kernel, report, failed>>
    PROVE  SyncInv'
<1>0. TypeOK /\ CallsFit /\ ReportsFit /\ DataFits /\ events \in [Context -> SUBSET Event]
      /\ gen \in [Fd -> Nat]
    BY SyncParts
<1>1. UNCHANGED <<gen, events, slot, outcome, interest, data, edge, ready, open, report>>
    BY DEF contexts, waits, kernel
<1>2. CallsFit'
    <2>1. \A d \in Client \ {c} : call'[d] = call[d]
        BY <1>0 DEF TypeOK
    <2>2. call'[c].fd = fd /\ call'[c].ctx[2] = gen[fd]
        BY <1>0 DEF TypeOK, Call, ContextOf
    <2>3. QED
        BY <1>0, <1>1, <2>1, <2>2 DEF CallsFit, Busy
<1>3. ReportsFit' /\ DataFits'
    BY <1>0, <1>1, ReportsFitStay, DataFitsStay
<1>4. Watched' /\ WatchOK' /\ EdgeOK'
    BY <1>0, <1>1, RestSync, HandsStay
<1>5. QED
    BY <1>2, <1>3, <1>4, SyncAssembled

LEMMA SyncGrow ==
    ASSUME Inv, SyncInv, NEW c \in Client, Grow(c)
    PROVE  SyncInv'
<1>0. TypeOK /\ CallsFit /\ ReportsFit /\ DataFits /\ events \in [Context -> SUBSET Event]
      /\ gen \in [Fd -> Nat] /\ call[c].fd \in Fd
    BY SyncParts DEF Grow, In
<1> DEFINE fd == call[c].fd  n == (fd * 3) \div 2
<1>1. /\ gen' = [f \in Fd |-> IF n <= f /\ f < size THEN gen[f] + 1 ELSE gen[f]]
      /\ call' = [call EXCEPT ![c] = [@ EXCEPT !.at = "lock", !.ctx = <<fd, gen'[fd]>>]]
      /\ UNCHANGED <<events, slot, outcome, interest, data, edge, ready, open, report>>
    BY DEF Grow, contextResize, waits, kernel
<1> HIDE DEF n
<1>2. \A f \in Fd : gen'[f] \in Nat /\ gen[f] <= gen'[f]
    BY <1>0, <1>1
<1>3. CallsFit'
    <2>1. \A d \in Client \ {c} : call'[d] = call[d]
        BY <1>0, <1>1 DEF TypeOK
    <2>2. call'[c].fd = fd /\ call'[c].ctx = <<fd, gen'[fd]>>
        <3>1. call[c] \in [op : {"add", "del", "cancel", "cancelAll", "close"}, fd : Fd,
                   ev : Event, w : Waiter \cup {None}, at : {"lock", "grow", "close"},
                   ctx : Context]
            BY <1>0 DEF Grow, In, Busy, TypeOK, Idle
        <3>2. call'[c] = [call[c] EXCEPT !.at = "lock", !.ctx = <<fd, gen'[fd]>>]
            BY <1>0, <1>1 DEF TypeOK
        <3>3. QED
            BY <3>1, <3>2
    <2>3. ASSUME NEW d \in Client \ {c}, Busy(d)'
          PROVE  call'[d].ctx[2] <= gen'[call'[d].fd]
        <3>1. Busy(d) /\ call'[d] = call[d]
            BY <2>1, <2>3 DEF Busy
        <3>2. /\ call[d].fd \in Fd /\ call[d].ctx \in Context
              /\ call[d].ctx[2] <= gen[call[d].fd]
            BY <3>1, SyncParts
        <3>3. call[d].ctx[2] \in Nat
            BY <3>2 DEF Context
        <3>4. QED
            BY <1>0, <1>2, <3>1, <3>2, <3>3
    <2>4. call'[c].ctx[2] <= gen'[call'[c].fd]
        BY <1>0, <1>2, <2>2
    <2>5. QED
        BY <2>3, <2>4 DEF CallsFit
<1>4. ReportsFit'
    <2> SUFFICES ASSUME NEW l \in Looper, NEW r \in report'[l]
                 PROVE  r.ctx[2] <= gen'[r.ctx[1]]
        BY DEF ReportsFit
    <2>1. r \in report[l] /\ r.ctx[2] <= gen[r.ctx[1]]
        BY <1>0, <1>1 DEF ReportsFit
    <2>2. r.ctx \in Context /\ r.ctx[1] \in Fd
        BY <1>0, <2>1, ReportFacts
    <2>3. r.ctx[2] \in Nat
        BY <2>2 DEF Context
    <2>4. QED
        BY <1>0, <1>2, <2>1, <2>2, <2>3
<1>5. DataFits'
    <2>1. \A f \in Fd : data[f][2] \in Nat
        BY <1>0 DEF TypeOK, Context
    <2>2. QED
        BY <1>0, <1>1, <1>2, <2>1 DEF DataFits
<1>6. \A f \in Fd : gen'[f] = 0 => gen[f] = 0
    BY <1>0, <1>2
<1>7. Watched' /\ WatchOK' /\ EdgeOK'
    BY <1>0, <1>1, <1>6, RestSync, HandsStay
<1>8. QED
    BY <1>3, <1>4, <1>5, <1>7, SyncAssembled

(* Calls that call epoll_ctl().                                            *)
LEMMA SyncAdd ==
    ASSUME Inv, SyncInv, NEW c \in Client, AddEvent(c)
    PROVE  SyncInv'
<1> USE IOEventsAssumption
<1> DEFINE x == call[c].ctx  ev == call[c].ev  v == call[c].w
<1>0. /\ TypeOK /\ SlotOnce /\ CallsFit /\ ReportsFit
      /\ call[c].fd = x[1] /\ ev \in Event /\ x \in Context /\ x[2] <= gen[x[1]]
    BY SyncParts DEF AddEvent, In
<1>1. v \in Waiter /\ outcome[v] = "new"
    BY <1>0, CallFacts DEF AddEvent, In, Adding
<1>2. /\ CtlPossible(x[1], events[x] = {})
      /\ epoll_ctl(x[1], events[x] \cup {ev}, x)
      /\ events' = [events EXCEPT ![x] = events[x] \cup {ev}]
      /\ slot' = [slot EXCEPT ![x][ev] = v]
      /\ outcome' = [outcome EXCEPT ![v] = "waiting"]
      /\ UNCHANGED <<gen, report>> /\ Return(c)
    BY <1>0 DEF AddEvent, TypeOK, contexts
<1> HIDE DEF x, ev, v
<1>3. /\ events'[x] = events[x] \cup {ev} /\ events'[x] \subseteq Event
      /\ \A y \in Context \ {x} : events'[y] = events[y] /\ slot'[y] = slot[y]
      /\ \A e \in Event : slot'[x][e] = IF e = ev THEN v ELSE slot[x][e]
      /\ \A w \in Waiter \cup {None} : (w \in Waiter /\ w # v) => outcome'[w] = outcome[w]
      /\ outcome'[v] = "waiting"
    BY <1>0, <1>1, <1>2 DEF TypeOK
<1>4. ASSUME NEW y \in Context, NEW e \in Event, slot[y][e] # None
      PROVE  outcome'[slot[y][e]] = outcome[slot[y][e]]
    <2>1. slot[y][e] \in Waiter /\ slot[y][e] # v
        BY <1>0, <1>1, <1>4 DEF TypeOK, SlotOnce
    <2>2. QED
        BY <1>3, <2>1
<1>5. /\ \A e \in Event : slot'[x][e] # None =>
            \/ outcome'[slot'[x][e]] = "waiting"
            \/ slot'[x][e] = slot[x][e] /\ outcome'[slot[x][e]] = outcome[slot[x][e]]
      /\ \A y \in Context \ {x}, e \in Event : slot[y][e] # None =>
            outcome'[slot[y][e]] = outcome[slot[y][e]]
    BY <1>0, <1>3, <1>4
<1>6. epoll_ctl(x[1], events'[x], x)
    BY <1>2, <1>3
<1>7. \A l \in Looper : /\ report'[l] \subseteq report[l]
                        /\ \A r \in report[l] : r.ctx # x => r \in report'[l]
    BY <1>2
<1>8. Watched' /\ WatchOK' /\ EdgeOK' /\ DataFits'
    <2>1. x[1] \in open /\ (events[x] = {} <=> interest[x[1]] = {})
        BY <1>2 DEF CtlPossible
    <2>2. UNCHANGED gen
        BY <1>2
    <2>3. QED
        BY <1>0, <1>3, <1>5, <1>6, <1>7, <2>1, <2>2, CtlSync DEF DataFits
<1>9. CallsFit' /\ ReportsFit'
    BY <1>0, <1>2, <1>7, ReturnFits, ReportsFitStay
<1>10. QED
    BY <1>8, <1>9, SyncAssembled

LEMMA SyncDel ==
    ASSUME Inv, SyncInv, NEW c \in Client, DelEvent(c)
    PROVE  SyncInv'
<1> USE IOEventsAssumption
<1> DEFINE x == call[c].ctx  ev == call[c].ev  v == slot[x][ev]
<1>0. /\ TypeOK /\ SlotOnce /\ CtxClean /\ CallsFit /\ ReportsFit
      /\ call[c].fd = x[1] /\ ev \in Event /\ x \in Context /\ x[2] <= gen[x[1]]
    BY SyncParts DEF DelEvent, In
<1>1. /\ ev \in events[x] /\ CtlPossible(x[1], FALSE)
      /\ epoll_ctl(x[1], events[x] \ {ev}, x)
      /\ events' = [events EXCEPT ![x] = events[x] \ {ev}]
      /\ slot' = [slot EXCEPT ![x][ev] = None]
      /\ outcome' = [outcome EXCEPT ![v] = "dropped"]
      /\ UNCHANGED <<gen, report>> /\ Return(c)
    BY <1>0 DEF DelEvent, TypeOK, contexts
<1>2. v \in Waiter /\ v # None /\ v = slot[x][ev]
    BY <1>0, <1>1 DEF CtxClean, TypeOK
<1> HIDE DEF x, ev, v
<1>3. /\ events'[x] = events[x] \ {ev} /\ events'[x] \subseteq Event /\ events[x] # {}
      /\ \A y \in Context \ {x} : events'[y] = events[y] /\ slot'[y] = slot[y]
      /\ \A e \in Event : slot'[x][e] = IF e = ev THEN None ELSE slot[x][e]
      /\ \A w \in Waiter : w # v => outcome'[w] = outcome[w]
    BY <1>0, <1>1, <1>2 DEF TypeOK
<1>4. ASSUME NEW y \in Context, NEW e \in Event, slot[y][e] # None, y = x => e # ev
      PROVE  outcome'[slot[y][e]] = outcome[slot[y][e]]
    <2>1. slot[y][e] \in Waiter /\ slot[y][e] # v
        BY <1>0, <1>2, <1>4 DEF TypeOK, SlotOnce
    <2>2. QED
        BY <1>3, <2>1
<1>5. /\ \A e \in Event : slot'[x][e] # None =>
            \/ outcome'[slot'[x][e]] = "waiting"
            \/ slot'[x][e] = slot[x][e] /\ outcome'[slot[x][e]] = outcome[slot[x][e]]
      /\ \A y \in Context \ {x}, e \in Event : slot[y][e] # None =>
            outcome'[slot[y][e]] = outcome[slot[y][e]]
    BY <1>0, <1>3, <1>4
<1>6. /\ epoll_ctl(x[1], events'[x], x)
      /\ x[1] \in open /\ (events[x] = {} <=> interest[x[1]] = {})
    BY <1>1, <1>3 DEF CtlPossible
<1>7. \A l \in Looper : /\ report'[l] \subseteq report[l]
                        /\ \A r \in report[l] : r.ctx # x => r \in report'[l]
    BY <1>1
<1>8. Watched' /\ WatchOK' /\ EdgeOK' /\ DataFits'
    <2>1. UNCHANGED gen
        BY <1>1
    <2>2. QED
        BY <1>0, <1>1, <1>3, <1>5, <1>6, <1>7, <2>1, CtlSync DEF DataFits
<1>9. CallsFit' /\ ReportsFit'
    BY <1>0, <1>1, <1>7, ReturnFits, ReportsFitStay
<1>10. QED
    BY <1>8, <1>9, SyncAssembled

(* CancelEvent, CancelAll and Dispatch: triggerEvent() for some of what a  *)
(* context has registered, after epoll_ctl() for the rest of it.           *)
LEMMA SyncTrigger ==
    ASSUME Inv, SyncInv, NEW x \in Context, x[2] <= gen[x[1]], UNCHANGED gen,
           NEW S \in SUBSET events[x], S # {}, CtlPossible(x[1], FALSE),
           epoll_ctl(x[1], events[x] \ S, x), triggerEvent(x, S),
           \A l \in Looper : /\ report'[l] \subseteq report[l]
                             /\ \A r \in report[l] : r.ctx # x => r \in report'[l]
    PROVE  Watched' /\ WatchOK' /\ EdgeOK' /\ DataFits' /\ ReportsFit'
<1>0. TypeOK /\ ReportsFit
    BY SyncParts
<1>1. /\ events'[x] = events[x] \ S
      /\ \A y \in Context \ {x} : events'[y] = events[y] /\ slot'[y] = slot[y]
      /\ \A ev \in Event : slot'[x][ev] # None =>
            /\ slot'[x][ev] = slot[x][ev]
            /\ outcome'[slot[x][ev]] = outcome[slot[x][ev]]
      /\ \A y \in Context \ {x}, ev \in Event : slot[y][ev] # None =>
            outcome'[slot[y][ev]] = outcome[slot[y][ev]]
    BY TriggerEffect
<1>2. /\ events'[x] \subseteq Event /\ epoll_ctl(x[1], events'[x], x)
      /\ x[1] \in open /\ (events[x] = {} <=> interest[x[1]] = {})
      /\ \A ev \in Event : slot'[x][ev] # None =>
            \/ outcome'[slot'[x][ev]] = "waiting"
            \/ slot'[x][ev] = slot[x][ev] /\ outcome'[slot[x][ev]] = outcome[slot[x][ev]]
    BY <1>0, <1>1 DEF TypeOK, CtlPossible
<1>3. Watched' /\ WatchOK' /\ EdgeOK' /\ DataFits'
    BY <1>0, <1>1, <1>2, CtlSync DEF DataFits
<1>4. QED
    BY <1>0, <1>3, ReportsFitStay

LEMMA SyncCancel ==
    ASSUME Inv, SyncInv, NEW c \in Client, CancelEvent(c) \/ CancelAll(c)
    PROVE  SyncInv'
<1> DEFINE x == call[c].ctx
<1>0. /\ TypeOK /\ CallsFit
      /\ call[c].fd = x[1] /\ call[c].ev \in Event /\ x \in Context /\ x[2] <= gen[x[1]]
    BY SyncParts DEF CancelEvent, CancelAll, In
<1>1. PICK S \in SUBSET events[x] :
          /\ S # {} /\ CtlPossible(x[1], FALSE)
          /\ epoll_ctl(x[1], events[x] \ S, x) /\ triggerEvent(x, S)
          /\ UNCHANGED <<gen, report>> /\ (Return(c) \/ AfterCancelAll(c))
    <2>1. CASE CancelEvent(c)
        <3>1. {call[c].ev} \in SUBSET events[x] /\ {call[c].ev} # {}
            BY <2>1 DEF CancelEvent
        <3>2. QED
            BY <1>0, <2>1, <3>1 DEF CancelEvent, contexts
    <2>2. CASE CancelAll(c)
        <3>1. /\ events[x] # {} /\ CtlPossible(x[1], FALSE)
              /\ epoll_ctl(x[1], {}, x) /\ triggerEvent(x, events[x])
              /\ UNCHANGED <<gen, report>> /\ AfterCancelAll(c)
            BY <1>0, <2>2 DEF CancelAll, contexts
        <3>2. events[x] \ events[x] = {}
            OBVIOUS
        <3>3. QED
            BY <3>1, <3>2
    <2>3. QED
        BY <2>1, <2>2
<1>2. \A l \in Looper : /\ report'[l] \subseteq report[l]
                        /\ \A r \in report[l] : r.ctx # x => r \in report'[l]
    BY <1>1
<1>3. UNCHANGED gen
    BY <1>1
<1>4. CallsFit'
    BY <1>0, <1>1, <1>3, ReturnFits
<1> HIDE DEF x
<1>5. Watched' /\ WatchOK' /\ EdgeOK' /\ DataFits' /\ ReportsFit'
    BY <1>0, <1>1, <1>2, <1>3, SyncTrigger
<1>6. QED
    BY <1>4, <1>5, SyncAssembled

(* addEvent() that fails: its waiter was never in a context.               *)
LEMMA SyncAddFails ==
    ASSUME Inv, SyncInv, NEW c \in Client, AddEventFails(c)
    PROVE  SyncInv'
<1> USE IOEventsAssumption
<1> DEFINE v == call[c].w
<1>0. TypeOK /\ SlotOnce /\ CallsFit /\ ReportsFit /\ DataFits
      /\ events \in [Context -> SUBSET Event] /\ gen \in [Fd -> Nat]
    BY SyncParts
<1>1. v \in Waiter /\ outcome[v] = "new"
    BY <1>0, CallFacts DEF AddEventFails, In, Adding
<1>2. /\ outcome' = [outcome EXCEPT ![v] = "refused"] /\ Return(c)
      /\ UNCHANGED <<gen, events, slot, interest, data, edge, ready, open, report>>
    BY DEF AddEventFails, contexts, kernel
<1> HIDE DEF v
<1>3. ASSUME NEW y \in Context, NEW ev \in Event, slot[y][ev] # None
      PROVE  outcome'[slot[y][ev]] = outcome[slot[y][ev]]
    <2>1. slot[y][ev] \in Waiter /\ slot[y][ev] # v
        BY <1>0, <1>1, <1>3 DEF TypeOK, SlotOnce
    <2>2. QED
        BY <1>0, <1>1, <1>2, <2>1 DEF TypeOK
<1>4. Watched' /\ WatchOK' /\ EdgeOK'
    BY <1>0, <1>2, <1>3, RestSync, HandsStay
<1>5. CallsFit' /\ ReportsFit' /\ DataFits'
    BY <1>0, <1>2, ReturnFits, ReportsFitStay, DataFitsStay
<1>6. QED
    BY <1>4, <1>5, SyncAssembled

(* The kernel's close: whatever waits for the descriptor is lost.          *)
LEMMA SyncClose ==
    ASSUME Inv, SyncInv, NEW c \in Client, KernelClose(c)
    PROVE  SyncInv'
<1> USE IOEventsAssumption
<1>0. /\ TypeOK /\ SlotOnce /\ CtxClean /\ CallsFit /\ ReportsFit /\ DataFits
      /\ call[c].fd \in Fd
    BY SyncParts DEF KernelClose, In
<1> PICK d \in Fd : d = call[c].fd
    BY <1>0
<1>1. /\ open' = open \ {d}
      /\ interest' = [interest EXCEPT ![d] = {}] /\ edge' = [edge EXCEPT ![d] = FALSE]
      /\ ready' = [ready EXCEPT ![d] = {}]
      /\ outcome' = [w \in Waiter |->
           IF \E x \in Context, ev \in Event : x[1] = d /\ slot[x][ev] = w
           THEN "lost" ELSE outcome[w]]
      /\ Return(c) /\ UNCHANGED <<gen, events, slot, data, report>>
    BY DEF KernelClose, contexts
<1>2. /\ interest'[d] = {} /\ edge'[d] = FALSE /\ ready'[d] = {}
      /\ \A fd \in Fd \ {d} : /\ interest'[fd] = interest[fd] /\ edge'[fd] = edge[fd]
                              /\ ready'[fd] = ready[fd]
    BY <1>0, <1>1 DEF TypeOK
<1>3. ASSUME NEW x \in Context, NEW ev \in Event, slot[x][ev] # None
      PROVE  outcome'[slot[x][ev]] = IF x[1] = d THEN "lost" ELSE outcome[slot[x][ev]]
    <2>1. slot[x][ev] \in Waiter
        BY <1>0, <1>3 DEF TypeOK
    <2>2. CASE x[1] = d
        BY <1>1, <2>1, <2>2
    <2>3. CASE x[1] # d
        <3>1. \A y \in Context, e \in Event : slot[y][e] = slot[x][ev] => y = x
            BY <1>0, <1>3 DEF SlotOnce
        <3>2. ~ \E y \in Context, e \in Event : y[1] = d /\ slot[y][e] = slot[x][ev]
            BY <2>3, <3>1
        <3>3. QED
            BY <1>1, <2>1, <2>3, <3>2
    <2>4. QED
        BY <2>2, <2>3
<1>4. ASSUME NEW fd \in Fd, fd # d
      PROVE  (Followed(fd)' <=> Followed(fd)) /\ (Cut(fd)' <=> Cut(fd))
    <2>1. \A ev \in Event : slot[First(fd)][ev] # None =>
             outcome'[slot[First(fd)][ev]] = outcome[slot[First(fd)][ev]]
        BY <1>3, <1>4, FirstContext
    <2>2. QED
        BY <1>1, <1>2, <1>4, <2>1 DEF Followed, Cut, First
<1>5. Followed(d)' \/ Cut(d)'
    <2>1. \A ev \in Event : slot[First(d)][ev] # None =>
             outcome'[slot[First(d)][ev]] = "lost"
        BY <1>0, <1>3, FirstContext
    <2>2. CASE events[First(d)] = {}
        <3>1. First(d) \in Context
            BY <1>0, FirstContext
        <3>2. \A ev \in Event : slot[First(d)][ev] = None
            BY <1>0, <2>2, <3>1 DEF CtxClean
        <3>3. interest'[d] = events'[First(d)]
            BY <1>1, <1>2, <2>2
        <3>4. \A ev \in Event : slot'[First(d)][ev] = None
            BY <1>1, <3>2
        <3>5. QED
            BY <3>3, <3>4 DEF Followed, First
    <2>3. CASE events[First(d)] # {}
        BY <1>1, <1>2, <2>1, <2>3 DEF Cut, First
    <2>4. QED
        BY <2>2, <2>3
<1>6. Watched'
    BY <1>0, <1>1, <1>2 DEF Watched, SyncInv
<1>7. WatchOK'
    <2> SUFFICES ASSUME NEW fd \in Fd, Kept(fd)'
                 PROVE  Followed(fd)' \/ Cut(fd)'
        BY DEF WatchOK
    <2>1. Kept(fd)
        BY <1>1 DEF Kept
    <2>2. Followed(fd) \/ Cut(fd)
        BY <2>1 DEF WatchOK, SyncInv
    <2>3. QED
        BY <1>4, <1>5, <2>2
<1>8. EdgeOK'
    <2> SUFFICES ASSUME NEW fd \in Fd, gen[fd] = 0, Followed(fd)',
                        NEW ev \in events[First(fd)], ready'[fd] \cap {ev, "HUP"} # {}
                 PROVE  edge'[fd] \/ InHand(fd, ev)'
        BY <1>1 DEF EdgeOK, Kept, First
    <2>1. fd # d
        BY <1>2
    <2>2. edge[fd] \/ InHand(fd, ev)
        BY <1>2, <1>4, <2>1 DEF EdgeOK, SyncInv, Kept
    <2>3. InHand(fd, ev) => InHand(fd, ev)'
        BY <1>1 DEF InHand, First
    <2>4. QED
        BY <1>2, <2>1, <2>2, <2>3
<1>9. CallsFit' /\ ReportsFit' /\ DataFits'
    BY <1>0, <1>1, ReturnFits, ReportsFitStay, DataFitsStay
<1>10. QED
    BY <1>6, <1>7, <1>8, <1>9, SyncAssembled

(* Calls that come to nothing.                                             *)
LEMMA SyncNothing ==
    ASSUME Inv, SyncInv, NEW c \in Client,
           NothingToDo(c) \/ CancelNone(c) \/ AddEventAborts(c)
    PROVE  SyncInv'
<1>0. TypeOK /\ CallsFit /\ ReportsFit /\ DataFits
      /\ events \in [Context -> SUBSET Event] /\ gen \in [Fd -> Nat]
    BY SyncParts
<1>1. UNCHANGED <<gen, events, slot, outcome, interest, data, edge, ready, open, report>>
    BY DEF NothingToDo, CancelNone, AddEventAborts, contexts, waits, kernel
<1>2. Return(c) \/ AfterCancelAll(c) \/ UNCHANGED call
    BY DEF NothingToDo, CancelNone, AddEventAborts
<1>3. CallsFit'
    <2>1. UNCHANGED call => CallsFit'
        BY <1>0, <1>1 DEF CallsFit, Busy
    <2>2. QED
        BY <1>0, <1>1, <1>2, <2>1, ReturnFits
<1>4. Watched' /\ WatchOK' /\ EdgeOK'
    BY <1>0, <1>1, RestSync, HandsStay
<1>5. ReportsFit' /\ DataFits'
    BY <1>0, <1>1, ReportsFitStay, DataFitsStay
<1>6. QED
    BY <1>3, <1>4, <1>5, SyncAssembled

LEMMA SyncClient ==
    ASSUME Inv, SyncInv, NEW c \in Client, ClientStep(c)
    PROVE  SyncInv'
<1>1. ASSUME NEW fd \in Fd, NEW ev \in Event, NEW w \in Waiter, StartAdd(c, fd, ev, w)
      PROVE  SyncInv'
    <2> DEFINE at == IF size > fd THEN "lock" ELSE "grow"
    <2>1. /\ call' = [call EXCEPT ![c] = Call("add", fd, ev, w, at, ContextOf(fd))]
          /\ UNCHANGED <<contexts, waits, kernel, report, failed>>
        BY <1>1 DEF StartAdd
    <2> HIDE DEF at
    <2>2. QED
        BY <2>1, SyncStart
<1>2. ASSUME NEW op \in {"del", "cancel", "cancelAll"}, NEW fd \in Fd, NEW ev \in Event,
             StartOther(c, op, fd, ev)
      PROVE  SyncInv'
    <2>1. /\ call' = [call EXCEPT ![c] = Call(op, fd, ev, None, "lock", ContextOf(fd))]
          /\ UNCHANGED <<contexts, waits, kernel, report, failed>>
        BY <1>2 DEF StartOther
    <2>2. QED
        BY <2>1, SyncStart
<1>3. ASSUME NEW fd \in Fd, StartClose(c, fd)
      PROVE  SyncInv'
    <2> DEFINE at == IF size > fd THEN "lock" ELSE "close"
    <2>1. /\ call' = [call EXCEPT ![c] = Call("close", fd, "READ", None, at, ContextOf(fd))]
          /\ UNCHANGED <<contexts, waits, kernel, report, failed>>
        BY <1>3 DEF StartClose
    <2> HIDE DEF at
    <2>2. QED
        BY <2>1, SyncStart
<1>4. "READ" \in Event
    BY DEF Event
<1>5. QED
    BY <1>1, <1>2, <1>3, <1>4, SyncGrow, SyncAdd, SyncAddFails, SyncDel, SyncCancel,
       SyncClose, SyncNothing DEF ClientStep

-----------------------------------------------------------------------------
(* The idle loops.                                                         *)

(* An edge moves from the kernel into the looper's hand, with what the     *)
(* descriptor is ready for.                                                *)
LEMMA SyncReport ==
    ASSUME Inv, SyncInv, NEW l \in Looper, Report(l)
    PROVE  SyncInv'
<1>0. /\ TypeOK /\ CallsFit /\ ReportsFit /\ DataFits
      /\ events \in [Context -> SUBSET Event] /\ gen \in [Fd -> Nat]
    BY SyncParts
<1>1. PICK S \in SUBSET {fd \in Fd : edge[fd] /\ Mask(fd) # {}} :
          /\ edge' = [fd \in Fd |-> edge[fd] /\ fd \notin S]
          /\ report' = [report EXCEPT ![l] =
                          {[ctx |-> data[fd], mask |-> Mask(fd)] : fd \in S}]
    BY DEF Report
<1>2. /\ report[l] = {}
      /\ UNCHANGED <<gen, events, slot, outcome, interest, data, ready, open, call>>
    BY DEF Report, contexts, waits
<1>3. /\ report'[l] = {[ctx |-> data[fd], mask |-> Mask(fd)] : fd \in S}
      /\ \A k \in Looper \ {l} : report'[k] = report[k]
    BY <1>0, <1>1 DEF TypeOK
<1>4. CallsFit' /\ DataFits'
    BY <1>0, <1>2 DEF CallsFit, DataFits, Busy
<1>5. ReportsFit'
    <2> SUFFICES ASSUME NEW k \in Looper, NEW r \in report'[k]
                 PROVE  r.ctx[2] <= gen'[r.ctx[1]]
        BY DEF ReportsFit
    <2>1. CASE k = l
        <3>1. PICK fd \in S : r = [ctx |-> data[fd], mask |-> Mask(fd)]
            BY <1>3, <2>1
        <3>2. r.ctx = data[fd] /\ fd \in Fd
            BY <3>1
        <3>3. QED
            BY <1>0, <1>2, <3>2 DEF DataFits
    <2>2. CASE k # l
        BY <1>0, <1>2, <1>3, <2>2 DEF ReportsFit
    <2>3. QED
        BY <2>1, <2>2
<1>6. Watched'
    BY <1>2 DEF Watched, SyncInv
<1>7. \A fd \in Fd : /\ Followed(fd)' <=> Followed(fd)
                     /\ Cut(fd)' <=> Cut(fd)
                     /\ Kept(fd)' <=> Kept(fd)
    BY <1>2 DEF Followed, Cut, Kept, First
<1>8. WatchOK'
    BY <1>7 DEF WatchOK, SyncInv
<1>9. EdgeOK'
    <2> SUFFICES ASSUME NEW fd \in Fd, Kept(fd), Followed(fd),
                        NEW ev \in events[First(fd)], ready[fd] \cap {ev, "HUP"} # {}
                 PROVE  edge'[fd] \/ InHand(fd, ev)'
        BY <1>2, <1>7 DEF EdgeOK, First
    <2>1. edge[fd] \/ InHand(fd, ev)
        BY DEF EdgeOK, SyncInv
    <2>2. CASE InHand(fd, ev)
        <3>1. PICK k \in Looper : \E r \in report[k] :
                 r.ctx = First(fd) /\ r.mask \cap {ev, "HUP"} # {}
            BY <2>2 DEF InHand
        <3>2. report'[k] = report[k]
            BY <1>2, <1>3, <3>1
        <3>3. QED
            BY <3>1, <3>2 DEF InHand, First
    <2>3. CASE edge[fd] /\ fd \notin S
        BY <1>1, <2>3
    <2>4. CASE fd \in S
        <3> DEFINE r == [ctx |-> data[fd], mask |-> Mask(fd)]
        <3>1. r \in report'[l]
            BY <1>3, <2>4
        <3>2. data[fd] = First(fd)
            <4>1. data[fd] \in Context /\ gen[data[fd][1]] = 0 /\ data[fd][2] <= gen[data[fd][1]]
                BY <1>0 DEF DataFits, Kept, TypeOK
            <4>2. data[fd] = First(data[fd][1])
                BY <4>1, OnlyFirst
            <4>3. QED
                BY <1>0, <4>2 DEF DataFits
        <3>3. r.mask \cap {ev, "HUP"} # {}
            <4>1. ev \in interest[fd]
                BY DEF Followed
            <4>2. QED
                BY <4>1 DEF Mask
        <3>4. r.ctx = First(fd)
            BY <3>2
        <3> HIDE DEF r
        <3>5. \E q \in report'[l] : q.ctx = First(fd) /\ q.mask \cap {ev, "HUP"} # {}
            BY <3>1, <3>3, <3>4
        <3>6. QED
            BY <3>5 DEF InHand, First
    <2>5. QED
        BY <2>1, <2>2, <2>3, <2>4
<1>10. QED
    BY <1>4, <1>5, <1>6, <1>8, <1>9, SyncAssembled

LEMMA DoneEffect ==
    ASSUME TypeOK, NEW l \in Looper, NEW r \in report[l], Done(l, r)
    PROVE  \A k \in Looper : /\ report'[k] \subseteq report[k]
                             /\ \A q \in report[k] : q # r => q \in report'[k]
BY DEF TypeOK, Done

LEMMA SyncDispatch ==
    ASSUME Inv, SyncInv, NEW l \in Looper, NEW r \in report[l], Dispatch(l, r)
    PROVE  SyncInv'
<1>0. /\ TypeOK /\ CallsFit /\ ReportsFit
      /\ r.ctx \in Context /\ r.ctx[2] <= gen[r.ctx[1]]
    BY SyncParts, ReportFacts DEF ReportsFit
<1> PICK x \in Context : x = r.ctx
    BY <1>0
<1>1. PICK S \in SUBSET events[x] :
          /\ S # {} /\ CtlPossible(x[1], FALSE)
          /\ epoll_ctl(x[1], events[x] \ S, x) /\ triggerEvent(x, S)
    <2>1. RealEvents(r) \in SUBSET events[x] /\ RealEvents(r) # {}
        BY DEF Dispatch
    <2>2. QED
        BY <2>1 DEF Dispatch
<1>2. Done(l, r) /\ UNCHANGED <<gen, call>>
    BY DEF Dispatch, contexts
<1>3. \A k \in Looper : /\ report'[k] \subseteq report[k]
                        /\ \A q \in report[k] : q.ctx # x => q \in report'[k]
    BY <1>0, <1>2, DoneEffect
<1>4. UNCHANGED gen /\ x[2] <= gen[x[1]]
    BY <1>0, <1>2
<1>5. Watched' /\ WatchOK' /\ EdgeOK' /\ DataFits' /\ ReportsFit'
    BY <1>1, <1>3, <1>4, SyncTrigger
<1>6. CallsFit'
    BY <1>0, <1>2 DEF CallsFit, Busy
<1>7. QED
    BY <1>5, <1>6, SyncAssembled

(* A report that a looper skips says nothing of an event that is still     *)
(* registered, for epoll_ctl() succeeds on a descriptor that is followed.  *)
LEMMA SyncSkips ==
    ASSUME Inv, SyncInv, NEW l \in Looper, NEW r \in report[l], DispatchSkips(l, r)
    PROVE  SyncInv'
<1>0. /\ TypeOK /\ CallsFit /\ ReportsFit /\ DataFits
      /\ events \in [Context -> SUBSET Event] /\ gen \in [Fd -> Nat]
    BY SyncParts
<1>1. /\ Done(l, r)
      /\ UNCHANGED <<gen, events, slot, outcome, interest, data, edge, ready, open, call>>
      /\ events[r.ctx] \cap RealEvents(r) # {} => ~CtlPossible(r.ctx[1], FALSE)
    BY DEF DispatchSkips, contexts, waits, kernel
<1>2. \A k \in Looper : /\ report'[k] \subseteq report[k]
                        /\ \A q \in report[k] : q # r => q \in report'[k]
    BY <1>0, <1>1, DoneEffect
<1>3. ASSUME NEW fd \in Fd, NEW ev \in Event,
             Kept(fd), Followed(fd), ev \in events[First(fd)], InHand(fd, ev)
      PROVE  InHand(fd, ev)'
    <2>0. PICK k \in Looper : \E q \in report[k] :
             q.ctx = First(fd) /\ q.mask \cap {ev, "HUP"} # {}
        BY <1>3 DEF InHand
    <2>1. PICK q \in report[k] : q.ctx = First(fd) /\ q.mask \cap {ev, "HUP"} # {}
        BY <2>0
    <2>2. q # r
        <3> SUFFICES ASSUME q = r PROVE FALSE
            OBVIOUS
        <3>1. ev \in RealEvents(r)
            BY <1>3, <2>1 DEF RealEvents
        <3>2. interest[fd] # {} /\ fd \in open
            BY <1>3 DEF Followed, SyncInv, Watched
        <3>3. CtlPossible(fd, FALSE)
            BY <3>2 DEF CtlPossible
        <3>4. r.ctx = First(fd) /\ r.ctx[1] = fd
            BY <2>1 DEF First
        <3>5. QED
            BY <1>1, <1>3, <3>1, <3>3, <3>4
    <2>3. q \in report'[k]
        BY <1>2, <2>1, <2>2
    <2>4. QED
        BY <2>1, <2>3 DEF InHand, First
<1>4. UNCHANGED <<events, slot, interest, edge, ready, open>> /\ UNCHANGED outcome
    BY <1>1
<1>5. \A fd \in Fd : gen'[fd] = 0 => gen[fd] = 0
    BY <1>1
<1>6. Watched' /\ WatchOK' /\ EdgeOK'
    BY <1>0, <1>3, <1>4, <1>5, RestSync
<1>7. CallsFit' /\ ReportsFit' /\ DataFits'
    BY <1>0, <1>1, <1>2, ReportsFitStay, DataFitsStay DEF CallsFit, Busy
<1>8. QED
    BY <1>6, <1>7, SyncAssembled

(* Steps that change nothing the invariant speaks of.                      *)
LEMMA SyncStutter ==
    ASSUME Inv, SyncInv,
           UNCHANGED <<gen, events, slot, outcome, interest, data, edge, ready, call, report>>,
           open \subseteq open'
    PROVE  SyncInv'
<1>1. CallsFit' /\ ReportsFit' /\ DataFits'
    BY SyncParts DEF CallsFit, ReportsFit, DataFits, Busy
<1>2. \A fd \in Fd : /\ Followed(fd)' <=> Followed(fd)
                     /\ Cut(fd)' <=> Cut(fd)
                     /\ Kept(fd)' <=> Kept(fd)
    BY DEF Followed, Cut, Kept, First
<1>3. Watched' /\ WatchOK'
    BY <1>2 DEF SyncInv, Watched, WatchOK
<1>4. EdgeOK'
    BY <1>2 DEF SyncInv, EdgeOK, InHand, First
<1>5. QED
    BY <1>1, <1>3, <1>4, SyncAssembled

(* The kernel.                                                             *)
LEMMA SyncReady ==
    ASSUME Inv, SyncInv, NEW d \in Fd, NEW e \in Event \cup {"HUP"},
           BecomeReady(d, e) \/ Consume(d, e)
    PROVE  SyncInv'
<1>0. TypeOK
    BY DEF Inv
<1>1. UNCHANGED <<gen, events, slot, outcome, interest, data, open, call, report>>
    BY DEF BecomeReady, Consume, contexts, waits
<1>2. CallsFit' /\ ReportsFit' /\ DataFits'
    BY <1>1, SyncParts DEF CallsFit, ReportsFit, DataFits, Busy
<1>3. \A fd \in Fd : /\ Followed(fd)' <=> Followed(fd)
                     /\ Cut(fd)' <=> Cut(fd)
                     /\ Kept(fd)' <=> Kept(fd)
    BY <1>1 DEF Followed, Cut, Kept, First
<1>4. Watched' /\ WatchOK'
    BY <1>1, <1>3 DEF SyncInv, Watched, WatchOK
<1>5. ASSUME NEW fd \in Fd, NEW ev \in interest[fd], ready'[fd] \cap {ev, "HUP"} # {}
      PROVE  edge'[fd] \/ (ready[fd] \cap {ev, "HUP"} # {} /\ (edge[fd] => edge'[fd]))
    <2>1. CASE BecomeReady(d, e)
        <3>1. /\ ready'[fd] = IF fd = d THEN ready[fd] \cup {e} ELSE ready[fd]
              /\ fd # d => edge'[fd] = edge[fd]
              /\ fd = d => edge'[fd] = (\/ edge[fd]
                                        \/ /\ interest[fd] # {}
                                           /\ e \in interest[fd] \cup {"HUP"})
            BY <1>0, <2>1 DEF BecomeReady, TypeOK
        <3>2. CASE fd = d /\ e \in {ev, "HUP"}
            BY <3>1, <3>2
        <3>3. CASE ~(fd = d /\ e \in {ev, "HUP"})
            <4>1. ready[fd] \cap {ev, "HUP"} # {}
                BY <1>5, <3>1, <3>3
            <4>2. edge[fd] => edge'[fd]
                BY <3>1
            <4>3. QED
                BY <4>1, <4>2
        <3>4. QED
            BY <3>2, <3>3
    <2>2. CASE Consume(d, e)
        BY <1>0, <1>5, <2>2 DEF Consume, TypeOK
    <2>3. QED
        BY <2>1, <2>2
<1>6. EdgeOK'
    <2> SUFFICES ASSUME NEW fd \in Fd, Kept(fd), Followed(fd),
                        NEW ev \in events[First(fd)], ready'[fd] \cap {ev, "HUP"} # {}
                 PROVE  edge'[fd] \/ InHand(fd, ev)'
        BY <1>1, <1>3 DEF EdgeOK, First
    <2>1. ev \in interest[fd]
        BY DEF Followed
    <2>2. InHand(fd, ev) => InHand(fd, ev)'
        BY <1>1 DEF InHand, First
    <2>3. ready[fd] \cap {ev, "HUP"} # {} => edge[fd] \/ InHand(fd, ev)
        BY DEF EdgeOK, SyncInv
    <2>4. QED
        BY <1>5, <2>1, <2>2, <2>3
<1>7. QED
    BY <1>2, <1>4, <1>6, SyncAssembled

-----------------------------------------------------------------------------
(* The theorems.                                                           *)

LEMMA SyncNext ==
    ASSUME Inv, SyncInv, Next
    PROVE  SyncInv'
<1>1. ASSUME NEW l \in Looper, LooperStep(l)
      PROVE  SyncInv'
    <2>1. ASSUME NEW r \in report[l], DispatchAborts(l, r)
          PROVE  SyncInv'
        BY <2>1, SyncStutter DEF DispatchAborts, contexts, waits, kernel
    <2>2. QED
        BY <1>1, <2>1, SyncReport, SyncDispatch, SyncSkips DEF LooperStep
<1>2. ASSUME Kernel
      PROVE  SyncInv'
    <2>1. ASSUME NEW fd \in Fd, Open(fd)
          PROVE  SyncInv'
        BY <2>1, SyncStutter DEF Open, contexts, waits
    <2>2. QED
        BY <1>2, <2>1, SyncReady DEF Kernel
<1>3. QED
    BY <1>1, <1>2, SyncClient DEF Next

LEMMA SyncInit == Init => SyncInv
<1> SUFFICES ASSUME Init PROVE SyncInv
    OBVIOUS
<1> USE IOEventsAssumption
<1>1. GenOK
    BY DEF Init, GenOK, Busy, Idle
<1>2. \A fd \in Fd : First(fd) \in Context /\ interest[fd] = {} /\ events[First(fd)] = {}
                     /\ \A ev \in Event : slot[First(fd)][ev] = None
    BY FirstContext DEF Init
<1>3. Watched
    BY <1>2 DEF Watched
<1>4. WatchOK /\ EdgeOK
    BY <1>2 DEF WatchOK, EdgeOK, Followed
<1>5. QED
    BY <1>1, <1>3, <1>4 DEF SyncInv

(* The invariant is inductive, given that of IOEventsProofs.               *)
THEOREM SyncInvariance == Spec => []SyncInv
<1>1. Init => SyncInv
    BY SyncInit
<1>2. Inv /\ SyncInv /\ [Next]_vars => SyncInv'
    <2> SUFFICES ASSUME Inv, SyncInv, [Next]_vars PROVE SyncInv'
        OBVIOUS
    <2>1. CASE Next
        BY <2>1, SyncNext
    <2>2. CASE UNCHANGED vars
        BY <2>2, SyncStutter DEF vars, contexts, waits, kernel
    <2>3. QED
        BY <2>1, <2>2
<1>3. QED
    BY <1>1, <1>2, Invariance, PTL DEF Spec

(* A descriptor that is not orphaned is followed.                          *)
LEMMA NotOrphaned ==
    ASSUME Inv, SyncInv, NEW fd \in Fd, Kept(fd), ~Orphaned(fd)
    PROVE  Followed(fd) /\ ContextOf(fd) = First(fd) /\ First(fd) \in Context
<1>1. ContextOf(fd) = First(fd) /\ First(fd) \in Context
    BY FirstContext DEF ContextOf, First, Kept
<1>2. Followed(fd) \/ Cut(fd)
    BY DEF SyncInv, WatchOK
<1>3. ~Cut(fd)
    <2> SUFFICES ASSUME Cut(fd) PROVE FALSE
        OBVIOUS
    <2>1. PICK ev \in events[First(fd)] : ev \in Event
        BY <1>1 DEF Cut, Inv, TypeOK
    <2>2. slot[First(fd)][ev] # None
        BY <1>1, <2>1 DEF Inv, CtxClean
    <2>3. outcome[slot[First(fd)][ev]] = "lost"
        BY <2>1, <2>2 DEF Cut
    <2>4. Orphaned(fd)
        BY <1>1, <2>1, <2>2, <2>3 DEF Orphaned
    <2>5. QED
        BY <2>4
<1>4. QED
    BY <1>1, <1>2, <1>3

(* epoll watches what a context has registered, and points to it, however  *)
(* calls, closes, captures and dispatches of one descriptor interleave.    *)
THEOREM InterestKept == Spec => []InterestSync
<1>1. Inv /\ SyncInv => InterestSync
    <2> SUFFICES ASSUME Inv, SyncInv, NEW fd \in Fd, Kept(fd), ~Orphaned(fd)
                 PROVE  /\ interest[fd] = events[ContextOf(fd)]
                        /\ data[fd] = ContextOf(fd)
        BY DEF InterestSync
    <2>1. interest[fd] = events[ContextOf(fd)] /\ ContextOf(fd) = First(fd)
        BY NotOrphaned DEF Followed
    <2>2. data[fd] \in Context /\ data[fd][1] = fd /\ data[fd][2] <= gen[fd]
        BY SyncParts DEF TypeOK, DataFits
    <2>3. data[fd] = First(data[fd][1])
        BY <2>2, OnlyFirst DEF Kept
    <2>4. QED
        BY <2>1, <2>2, <2>3
<1>2. QED
    BY <1>1, Invariance, SyncInvariance, PTL

(* Nobody waits for an event that the descriptor is ready for and that     *)
(* neither epoll nor a looper will report.                                 *)
THEOREM EdgeKept == Spec => []NoLostEdge
<1>1. Inv /\ SyncInv => NoLostEdge
    <2> SUFFICES ASSUME Inv, SyncInv, NEW fd \in Fd, NEW ev \in events[ContextOf(fd)],
                        Kept(fd), ~Orphaned(fd), ready[fd] \cap {ev, "HUP"} # {}
                 PROVE  \/ edge[fd]
                        \/ \E l \in Looper : \E r \in report[l] :
                              r.ctx = ContextOf(fd) /\ r.mask \cap {ev, "HUP"} # {}
        BY DEF NoLostEdge
    <2>1. Followed(fd) /\ ContextOf(fd) = First(fd)
        BY NotOrphaned
    <2>2. edge[fd] \/ InHand(fd, ev)
        BY <2>1 DEF SyncInv, EdgeOK
    <2>3. QED
        BY <2>1, <2>2 DEF InHand
<1>2. QED
    BY <1>1, Invariance, SyncInvariance, PTL
=============================================================================
