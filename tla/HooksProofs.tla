----------------------------- MODULE HooksProofs -----------------------------
(***************************************************************************)
(* Proofs about Hooks, for every number of fibers, timers and descriptors. *)
(*                                                                         *)
(* The invariant has four parts.  CallsOK: what a call's place tells about *)
(* what it is a call of.  Registered: who is registered is suspended for   *)
(* it.  TimersOK: a timer that is armed is the last one its owner set, and *)
(* a collected one that is still live belongs to the call its owner is in. *)
(* DescriptorsOK: a number that is being opened or closed is in one        *)
(* caller's hands, and without a context when it is given out.             *)
(***************************************************************************)
EXTENDS Hooks, TLAPS

Opening == {"look", "create"}
Closing == {"cancel", "del", "close"}
Timing  == {"add", "waiting", "woken"}

IoCall(c) ==
    /\ call[c].op \in {"io", "accept", "connect"}
    /\ call[c].fd \in Fd /\ call[c].ev \in Event

SleepCall(c) == call[c].op = "sleep" /\ call[c].fd = None /\ call[c].ev = None

CallOK(c) ==
    /\ pc[c] = "idle" => call[c] = NoCall
    /\ pc[c] \in {"try", "arm", "add", "check"} => IoCall(c)
    /\ pc[c] \in {"waiting", "woken"} => IoCall(c) \/ SleepCall(c)
    /\ pc[c] \in Opening \cup Closing =>
        call[c].fd \in Fd /\ call[c].ev = None /\ call[c].op # "sleep"

CallsOK ==
    /\ \A c \in Caller : CallOK(c)
    /\ \A c, d \in Caller : c # d /\ call[c].ev # None =>
        call[c].fd # call[d].fd \/ call[c].ev # call[d].ev

Registered ==
    \A c \in Caller : \A fd \in Fd, ev \in Event :
        waiter[fd][ev] = c <=>
            pc[c] = "waiting" /\ call[c].fd = fd /\ call[c].ev = ev

Sleeping(c) == pc[c] = "waiting" /\ call[c].op = "sleep"

TimerOK(k) ==
    /\ timers[k].state = "free" => timers[k] = Free
    /\ timers[k].state # "free" =>
        /\ timers[k].owner \in Caller
        /\ \/ timers[k].fd \in Fd /\ timers[k].ev \in Event
           \/ timers[k].fd = None /\ timers[k].state \in {"armed", "due"}
    /\ timers[k].state = "armed" =>
        /\ timer[timers[k].owner] = k
        /\ timers[k].fd = call[timers[k].owner].fd
        /\ pc[timers[k].owner] \in Timing
    /\ timers[k].state # "free" /\ timers[k].fd = None => Sleeping(timers[k].owner)
    /\ timers[k].state \in {"due", "locked", "flagged"} /\ timers[k].live =>
        expired[timers[k].owner]

TimersOK ==
    /\ \A k \in Timer : TimerOK(k)
    /\ \A c \in Caller, k \in Timer : timer[c] = k /\ timers[k] # Free => timers[k].owner = c
    /\ \A c \in Caller : Sleeping(c) =>
        timer[c] \in Timer /\ timers[timer[c]].owner = c /\ timers[timer[c]].fd = None
    /\ \A k \in Timer : timers[k].state # "free" /\ timers[k].fd = None =>
        timer[timers[k].owner] = k
    /\ \A c \in Caller : cancelled[c] => expired[c]

Handled(c) == pc[c] \in Opening \cup Closing

Sized == 0 .. InitSize - 1 \subseteq DOMAIN m_datas

DescriptorsOK ==
    /\ Sized
    /\ \A c \in Caller : Handled(c) => call[c].fd \in open
    /\ \A c \in Caller : pc[c] \in Opening \cup {"close"} => ~Found(call[c].fd)
    /\ \A fd \in Fd \ open : ~Found(fd)
    /\ Tracked
    /\ \A c, d \in Caller : c # d /\ Handled(c) /\ Handled(d) => call[c].fd # call[d].fd

Inv == TypeOK /\ CallsOK /\ Registered /\ TimersOK /\ DescriptorsOK

-----------------------------------------------------------------------------
(* Types.                                                                  *)
Call == [op : {None, "io", "accept", "connect", "sleep", "socket", "close"},
         fd : Fd \cup {None}, ev : Event \cup {None}, to : BOOLEAN]
TimerRec == [state : TimerState, owner : Caller \cup {None},
             fd : Fd \cup {None}, ev : Event \cup {None}, live : BOOLEAN]

KernelType  == open \subseteq Fd /\ forgotten \subseteq Fd
CallersType ==
    /\ pc \in [Caller -> Steps] /\ call \in [Caller -> Call]
    /\ cancelled \in [Caller -> BOOLEAN] /\ expired \in [Caller -> BOOLEAN]
    /\ timer \in [Caller -> Timer \cup {None}]
TimersType  == timers \in [Timer -> TimerRec]
WaiterType  == waiter \in [Fd -> [Event -> Caller \cup {None}]]

LEMMA Types ==
    TypeOK <=> FdManagerTypeOK /\ KernelType /\ CallersType /\ TimersType /\ WaiterType
  BY DEF TypeOK, KernelType, CallersType, TimersType, WaiterType, Call, TimerRec

LEMMA NoCallType == NoCall \in Call /\ NoCall.fd = None /\ NoCall.ev = None /\ NoCall.op = None
  BY DEF NoCall, Call

LEMMA FreeType == Free \in TimerRec /\ Free.owner = None /\ Free.state = "free"
  BY DEF Free, TimerRec, TimerState

(* What the helpers make of the timers.                                    *)
LEMMA ReleasedIs ==
    ASSUME NEW c \in Caller, NEW ts \in [Timer -> TimerRec]
    PROVE  /\ Released(c, ts) \in [Timer -> TimerRec]
           /\ \A k \in Timer :
                /\ Released(c, ts)[k].state = ts[k].state
                /\ Released(c, ts)[k].owner = ts[k].owner
                /\ Released(c, ts)[k].fd = ts[k].fd
                /\ Released(c, ts)[k].ev = ts[k].ev
                /\ Released(c, ts)[k].live = (ts[k].live /\ ts[k].owner # c)
                /\ ts[k].owner # c => Released(c, ts)[k] = ts[k]
  BY DEF Released, TimerRec

LEMMA CancelledIs ==
    ASSUME TimersType, NEW c \in Caller
    PROVE  /\ Cancelled(c) \in [Timer -> TimerRec]
           /\ \A k \in Timer :
                Cancelled(c)[k] = IF k = timer[c] /\ timers[k].state = "armed"
                                  THEN Free ELSE timers[k]
  BY FreeType DEF Cancelled, TimersType

LEMMA ReturnType ==
    ASSUME CallersType, NEW c \in Caller, NEW ts \in [Timer -> TimerRec], Return(c, ts)
    PROVE  CallersType' /\ TimersType'
<1>1. TimersType'
  BY ReleasedIs DEF Return, TimersType
<1>2. pc' \in [Caller -> Steps]
  BY DEF Return, Goto, CallersType, Steps
<1>3. call' \in [Caller -> Call]
  BY NoCallType DEF Return, CallersType
<1> QED
  BY <1>1, <1>2, <1>3 DEF Return, CallersType

LEMMA EnterType ==
    ASSUME CallersType, NEW c \in Caller, NEW label \in Steps,
           NEW op \in {"io", "accept", "connect", "socket", "close"},
           NEW fd \in Fd, NEW ev \in Event \cup {None}, NEW to \in BOOLEAN,
           Enter(c, label, op, fd, ev, to)
    PROVE  CallersType'
<1>1. [op |-> op, fd |-> fd, ev |-> ev, to |-> to] \in Call
  BY DEF Call
<1> QED
  BY <1>1 DEF Enter, Goto, CallersType

LEMMA AddTimerType ==
    ASSUME TimersType, NEW c \in Caller, NEW k \in Timer, NEW fd \in Fd \cup {None},
           NEW ev \in Event \cup {None}, AddTimer(c, k, fd, ev), CallersType
    PROVE  TimersType' /\ timer' \in [Caller -> Timer \cup {None}]
<1>1. [state |-> "armed", owner |-> c, fd |-> fd, ev |-> ev, live |-> TRUE] \in TimerRec
  BY DEF TimerRec, TimerState
<1> QED
  BY <1>1 DEF AddTimer, TimersType, CallersType

LEMMA HitIs ==
    ASSUME WaiterType, NEW fd \in Fd, NEW E \in SUBSET Event
    PROVE  /\ Hit(fd, E) \subseteq Caller
           /\ \A c \in Hit(fd, E) : \E e \in Event : waiter[fd][e] = c
  BY DEF Hit, WaiterType

LEMMA UnregisterIs ==
    ASSUME WaiterType, NEW fd \in Fd, NEW S, Unregister(fd, S)
    PROVE  /\ WaiterType'
           /\ \A g \in Fd, e \in Event :
                waiter'[g][e] = IF g = fd /\ waiter[g][e] \in S THEN None ELSE waiter[g][e]
<1>1. waiter' = [waiter EXCEPT ![fd] =
                    [e \in Event |-> IF waiter[fd][e] \in S THEN None ELSE waiter[fd][e]]]
  BY DEF Unregister
<1>2. waiter'[fd] = [e \in Event |-> IF waiter[fd][e] \in S THEN None ELSE waiter[fd][e]]
  BY <1>1 DEF WaiterType
<1>3. \A g \in Fd \ {fd} : waiter'[g] = waiter[g]
  BY <1>1 DEF WaiterType
<1>4. waiter'[fd] \in [Event -> Caller \cup {None}]
  BY <1>2 DEF WaiterType
<1> QED
  BY <1>1, <1>2, <1>3, <1>4 DEF WaiterType

LEMMA WokenIs ==
    ASSUME CallersType, NEW S \in SUBSET Caller
    PROVE  /\ Woken(S) \in [Caller -> Steps]
           /\ \A c \in Caller : Woken(S)[c] = IF c \in S THEN "woken" ELSE pc[c]
  BY DEF Woken, CallersType, Steps

-----------------------------------------------------------------------------
(* The container.                                                          *)
LEMMA CtxIs == NewFdCtx \in FdCtx /\ NewFdCtx # NoCtx
<1>1. [e \in Event |-> FALSE] \in [Event -> BOOLEAN]
  OBVIOUS
<1>2. NewFdCtx \in FdCtx
  BY <1>1 DEF NewFdCtx, FdCtx
<1> QED
  BY <1>2, HooksAssumption DEF HooksAssumption

LEMMA CreateIs ==
    ASSUME FdManagerTypeOK, Sized, NEW fd \in Fd, create(fd)
    PROVE  FdManagerTypeOK' /\ Sized' /\ \A g \in Fd : Found(g)' <=> g = fd \/ Found(g)
<1>1. PICK last \in DOMAIN m_datas : DOMAIN m_datas = 0 .. last
  BY DEF FdManagerTypeOK
<1>2. last \in Nat /\ fd \in Nat /\ InitSize \in Nat /\ InitSize > 1
  BY <1>1, HooksAssumption DEF HooksAssumption
<1>3. last >= 1
  BY <1>1, <1>2 DEF Sized
<1>4. CASE fd \in DOMAIN m_datas
  <2>1. m_datas' = [m_datas EXCEPT ![fd] = NewFdCtx]
    BY <1>4 DEF create, Grown
  <2>2. DOMAIN m_datas' = 0 .. last
    BY <1>1, <2>1
  <2>3. FdManagerTypeOK'
    BY <1>1, <2>1, <2>2, CtxIs DEF FdManagerTypeOK
  <2>4. \A g \in Fd : Found(g)' <=> g = fd \/ Found(g)
    BY <1>4, <2>1, CtxIs DEF Found
  <2> QED
    BY <1>1, <2>2, <2>3, <2>4 DEF Sized
<1>5. CASE fd \notin DOMAIN m_datas
  <2>1. PICK top \in Nat : top = (fd * 3) \div 2 - 1 /\ top >= fd
    <3>1. fd >= 2
      BY <1>1, <1>2, <1>3, <1>5
    <3> QED
      BY <1>2, <3>1
  <2>2. m_datas' = [[i \in 0 .. top |-> IF i \in DOMAIN m_datas THEN m_datas[i] ELSE NoCtx]
                    EXCEPT ![fd] = NewFdCtx]
    BY <1>5, <2>1 DEF create, Grown, Resized
  <2>3. DOMAIN m_datas' = 0 .. top /\ fd \in 0 .. top /\ last < fd
    BY <1>1, <1>2, <1>5, <2>1, <2>2
  <2>4. \A i \in 0 .. top : m_datas'[i] = IF i = fd THEN NewFdCtx
                                          ELSE IF i \in 0 .. last THEN m_datas[i] ELSE NoCtx
    BY <1>1, <2>2
  <2>5. FdManagerTypeOK'
    <3>1. \A i \in DOMAIN m_datas' : m_datas'[i] \in FdCtx \cup {NoCtx}
      BY <1>1, <2>3, <2>4, CtxIs DEF FdManagerTypeOK
    <3>2. top \in DOMAIN m_datas'
      BY <2>1, <2>3
    <3> QED
      BY <2>3, <3>1, <3>2 DEF FdManagerTypeOK
  <2>6. \A g \in Fd : Found(g)' <=> g = fd \/ Found(g)
    <3> SUFFICES ASSUME NEW g \in Fd PROVE Found(g)' <=> g = fd \/ Found(g)
      OBVIOUS
    <3>1. CASE g = fd
      BY <2>3, <2>4, <3>1, CtxIs DEF Found
    <3>2. CASE g # fd /\ g \in 0 .. last
      <4>1. g \in 0 .. top
        BY <1>2, <2>1, <2>3, <3>2
      <4> QED
        BY <1>1, <2>3, <2>4, <3>2, <4>1 DEF Found
    <3>3. CASE g # fd /\ g \notin 0 .. last
      BY <1>1, <2>3, <2>4, <3>3 DEF Found
    <3> QED
      BY <3>1, <3>2, <3>3
  <2>7. Sized'
    BY <1>1, <1>2, <2>1, <2>3 DEF Sized
  <2> QED
    BY <2>5, <2>6, <2>7
<1> QED
  BY <1>4, <1>5

LEMMA DelIs ==
    ASSUME FdManagerTypeOK, Sized, NEW fd \in Fd, del(fd)
    PROVE  FdManagerTypeOK' /\ Sized' /\ \A g \in Fd : Found(g)' <=> g # fd /\ Found(g)
  BY DEF FdManagerTypeOK, Sized, del, Found

LEMMA SettersAre ==
    ASSUME FdManagerTypeOK, Sized, NEW fd \in Fd, Found(fd), NEW v \in BOOLEAN, NEW e \in Event,
           setUserNonblock(fd, v) \/ setTimeout(fd, e, v)
    PROVE  FdManagerTypeOK' /\ Sized' /\ \A g \in Fd : Found(g)' <=> Found(g)
<1>1. m_datas[fd] \in FdCtx
  BY DEF FdManagerTypeOK, Found
<1>2. [m_datas[fd] EXCEPT !.m_userNonblock = v] \in FdCtx
  BY <1>1 DEF FdCtx
<1>3. [m_datas[fd] EXCEPT !.timeout[e] = v] \in FdCtx
  BY <1>1 DEF FdCtx
<1>4. PICK ctx \in FdCtx : m_datas' = [m_datas EXCEPT ![fd] = ctx]
  BY <1>2, <1>3 DEF setUserNonblock, setTimeout
<1>5. ctx # NoCtx
  BY HooksAssumption DEF HooksAssumption
<1> QED
  BY <1>4, <1>5 DEF FdManagerTypeOK, Sized, Found

-----------------------------------------------------------------------------
(* The parts of the invariant, for steps of one kind.  Calls: ...          *)
Engaged == {"try", "arm", "add", "check", "waiting", "woken"}

(* ... a caller that goes on with its call, ...                            *)
LEMMA CallsGoOn ==
    ASSUME CallsOK, CallersType, UNCHANGED call,
           \A c \in Caller : \/ pc'[c] = pc[c]
                             \/ /\ IoCall(c) /\ pc[c] \in Engaged
                                /\ pc'[c] \in Engaged
                             \/ pc[c] = "waiting" /\ pc'[c] = "woken"
                             \/ pc[c] \in Opening \cup Closing
                                /\ pc'[c] \in Opening \cup Closing
    PROVE  CallsOK'
<1>1. \A c \in Caller : CallOK(c)'
  <2> SUFFICES ASSUME NEW c \in Caller PROVE CallOK(c)'
    OBVIOUS
  <2>1. CallOK(c)
    BY DEF CallsOK
  <2>2. CASE pc'[c] = pc[c]
    BY <2>1, <2>2 DEF CallOK, IoCall, SleepCall
  <2>3. CASE IoCall(c) /\ pc'[c] \in Engaged
    BY <2>3 DEF CallOK, IoCall, SleepCall, Engaged, Opening, Closing
  <2>4. CASE pc[c] = "waiting" /\ pc'[c] = "woken"
    BY <2>1, <2>4 DEF CallOK, IoCall, SleepCall, Opening, Closing
  <2>5. CASE pc[c] \in Opening \cup Closing /\ pc'[c] \in Opening \cup Closing
    BY <2>1, <2>5 DEF CallOK, IoCall, SleepCall, Opening, Closing
  <2> QED
    BY <2>2, <2>3, <2>4, <2>5
<1> QED
  BY <1>1 DEF CallsOK

(* ... one that begins another or ends it.                                 *)
LEMMA CallsTurn ==
    ASSUME CallsOK, CallersType, NEW c \in Caller, NEW new \in Call, NEW label \in Steps,
           call' = [call EXCEPT ![c] = new], pc' = [pc EXCEPT ![c] = label],
           label = "idle" => new = NoCall,
           label \in Engaged =>
            \/ new.op \in {"io", "accept", "connect"} /\ new.fd \in Fd /\ new.ev \in Event
            \/ label = "waiting" /\ new.op = "sleep" /\ new.fd = None /\ new.ev = None,
           label \in Opening \cup Closing =>
            new.fd \in Fd /\ new.ev = None /\ new.op # "sleep",
           new.ev # None =>
            \A d \in Caller \ {c} : call[d].fd # new.fd \/ call[d].ev # new.ev
    PROVE  CallsOK'
<1>1. call'[c] = new /\ pc'[c] = label
  BY DEF CallersType
<1>2. \A d \in Caller \ {c} : call'[d] = call[d] /\ pc'[d] = pc[d]
  BY DEF CallersType
<1>3. CallOK(c)'
  BY <1>1 DEF CallOK, IoCall, SleepCall, Engaged, Opening, Closing
<1>4. \A d \in Caller \ {c} : CallOK(d)'
  BY <1>2 DEF CallsOK, CallOK, IoCall, SleepCall
<1>5. ASSUME NEW d \in Caller, NEW e \in Caller, d # e, call'[d].ev # None
      PROVE  call'[d].fd # call'[e].fd \/ call'[d].ev # call'[e].ev
  <2>1. CASE d = c
    BY <1>1, <1>2, <1>5, <2>1
  <2>2. CASE e = c
    BY <1>1, <1>2, <1>5, <2>2
  <2>3. CASE d # c /\ e # c
    BY <1>2, <1>5, <2>3 DEF CallsOK
  <2> QED
    BY <2>1, <2>2, <2>3
<1> QED
  BY <1>3, <1>4, <1>5 DEF CallsOK

(* Registrations.                                                          *)
LEMMA RegisteredStays ==
    ASSUME Registered, UNCHANGED waiter,
           \A c \in Caller :
            \/ pc'[c] = pc[c] /\ call'[c] = call[c]
            \/ /\ ~(pc[c] = "waiting" /\ call[c].fd \in Fd)
               /\ ~(pc'[c] = "waiting" /\ call'[c].fd \in Fd)
    PROVE  Registered'
  BY DEF Registered

LEMMA RegisteredFires ==
    ASSUME Registered, WaiterType, UNCHANGED call, NEW fd \in Fd, NEW S \in SUBSET Caller,
           \A c \in S : \E e \in Event : waiter[fd][e] = c,
           Unregister(fd, S),
           \A c \in Caller : pc'[c] = "waiting" <=> pc[c] = "waiting" /\ c \notin S
    PROVE  Registered'
<1> SUFFICES ASSUME NEW c \in Caller, NEW g \in Fd, NEW ev \in Event
             PROVE  waiter'[g][ev] = c <=>
                        pc'[c] = "waiting" /\ call[c].fd = g /\ call[c].ev = ev
  BY DEF Registered
<1>1. waiter'[g][ev] = IF g = fd /\ waiter[g][ev] \in S THEN None ELSE waiter[g][ev]
  BY UnregisterIs
<1>2. None # c
  BY HooksAssumption DEF HooksAssumption
<1>3. CASE c \in S
  <2>1. call[c].fd = fd
    BY <1>3 DEF Registered
  <2> QED
    BY <1>1, <1>2, <1>3, <2>1 DEF Registered
<1>4. CASE c \notin S
  BY <1>1, <1>2, <1>4 DEF Registered
<1> QED
  BY <1>3, <1>4

(* Descriptors: steps that open, close and create nothing.                 *)
LEMMA DescriptorsStay ==
    ASSUME DescriptorsOK, Sized', \A g \in Fd : Found(g)' <=> Found(g), UNCHANGED open,
           CallsOK, open \subseteq Fd,
           \A c \in Caller :
            \/ pc'[c] = pc[c] /\ call'[c] = call[c]
            \/ ~Handled(c) /\ ~Handled(c)'
            \/ pc[c] = "cancel" /\ pc'[c] = "del" /\ call'[c] = call[c]
    PROVE  DescriptorsOK'
<1>1. \A c \in Caller : Handled(c)' <=> Handled(c)
  BY DEF Handled, Closing
<1>2. \A c \in Caller : Handled(c) =>
        call'[c] = call[c] /\ (pc'[c] = pc[c] \/ (pc[c] = "cancel" /\ pc'[c] = "del"))
  OBVIOUS
<1>3. \A c \in Caller : Handled(c) => call[c].fd \in Fd
  BY DEF CallsOK, CallOK, Handled
<1>4. \A c \in Caller : pc[c] \in Opening \cup {"close"} => Handled(c)
  BY DEF Handled, Opening, Closing
<1>5. \A c \in Caller : pc'[c] \in Opening \cup {"close"} => Handled(c)
  BY <1>1 DEF Handled, Opening, Closing
<1>6. ASSUME NEW c \in Caller, pc'[c] \in Opening \cup {"close"}
      PROVE  ~Found(call[c].fd)'
  <2>1. PICK fd \in Fd : fd = call[c].fd /\ fd = call'[c].fd /\ pc'[c] = pc[c]
    BY <1>2, <1>3, <1>5, <1>6 DEF Opening
  <2>2. ~Found(fd)
    BY <1>6, <2>1 DEF DescriptorsOK
  <2> QED
    BY <2>1, <2>2 DEF Found
<1>7. Tracked'
  <2> SUFFICES ASSUME NEW fd \in open, ~Found(fd)
               PROVE  \E c \in Caller : call'[c].fd = fd
                                        /\ pc'[c] \in {"look", "create", "close"}
    BY DEF Tracked
  <2>1. PICK c \in Caller : call[c].fd = fd /\ pc[c] \in {"look", "create", "close"}
    BY DEF DescriptorsOK, Tracked
  <2> QED
    BY <1>2, <1>4, <2>1 DEF Opening
<1>8. \A fd \in Fd \ open : ~Found(fd)'
  BY DEF DescriptorsOK
<1>9. \A c \in Caller : Handled(c)' => call'[c].fd \in open'
  BY <1>1, <1>2 DEF DescriptorsOK
<1>10. \A c, d \in Caller : c # d /\ Handled(c)' /\ Handled(d)' => call'[c].fd # call'[d].fd
  BY <1>1, <1>2 DEF DescriptorsOK
<1> QED
  BY <1>6, <1>7, <1>8, <1>9, <1>10 DEF DescriptorsOK

(* Timers: steps that leave them alone, ...                                *)
LEMMA TimersStay ==
    ASSUME TimersOK, UNCHANGED <<timers, timer, cancelled, expired>>,
           \A c \in Caller : pc[c] \in Timing => pc'[c] \in Timing /\ call'[c] = call[c],
           \A c \in Caller : Sleeping(c)' <=> Sleeping(c)
    PROVE  TimersOK'
<1>1. \A k \in Timer : TimerOK(k)'
  <2> SUFFICES ASSUME NEW k \in Timer PROVE TimerOK(k)'
    OBVIOUS
  <2>1. TimerOK(k)
    BY DEF TimersOK
  <2> QED
    BY <2>1 DEF TimerOK
<1> QED
  BY <1>1 DEF TimersOK

(* ... a caller that cancels, or leaves its call, ...                      *)
LEMMA TimersLess ==
    ASSUME TimersOK, CallersType, NEW c \in Caller,
           \A k \in Timer :
            \/ timers'[k] = timers[k]
            \/ timers'[k] = Free /\ timers[k].owner = c
            \/ /\ timers[k].owner = c /\ timers'[k].owner = c
               /\ timers'[k].state = timers[k].state
               /\ timers'[k].fd = timers[k].fd /\ timers'[k].ev = timers[k].ev
               /\ ~timers'[k].live,
           \A k \in Timer : timers[k].owner = c => timers'[k].state # "armed",
           ~Sleeping(c), ~Sleeping(c)',
           timer'[c] \in {None, timer[c]},
           \A d \in Caller \ {c} :
            /\ pc'[d] = pc[d] /\ call'[d] = call[d] /\ timer'[d] = timer[d]
            /\ cancelled'[d] = cancelled[d] /\ expired'[d] = expired[d],
           cancelled'[c] => expired'[c],
           \A k \in Timer : timers[k].owner = c /\ timers'[k].live => expired'[c] = expired[c]
    PROVE  TimersOK'
<1>0. None \notin Timer /\ None \notin Caller /\ Free.state = "free" /\ Free.owner = None
  BY FreeType, HooksAssumption DEF HooksAssumption
<1>1. \A d \in Caller \ {c} : Sleeping(d)' <=> Sleeping(d)
  BY DEF Sleeping
<1>2. \A k \in Timer : TimerOK(k)'
  <2> SUFFICES ASSUME NEW k \in Timer PROVE TimerOK(k)'
    OBVIOUS
  <2>1. TimerOK(k)
    BY DEF TimersOK
  <2>2. CASE timers[k].owner = c
    <3>1. CASE timers'[k] = Free
      BY <1>0, <3>1 DEF TimerOK
    <3>2. CASE timers'[k] # Free
      <4>1. /\ timers'[k].owner = c /\ timers'[k].state = timers[k].state
            /\ timers'[k].fd = timers[k].fd /\ timers'[k].ev = timers[k].ev
        BY <2>2, <3>2
      <4>2. timers[k].state # "free"
        BY <1>0, <2>1, <2>2 DEF TimerOK
      <4>3. timers'[k].state # "armed" /\ timers[k].fd # None
        BY <2>1, <2>2, <4>2 DEF TimerOK
      <4>4. ASSUME timers'[k].state \in {"due", "locked", "flagged"}, timers'[k].live
            PROVE  expired'[c]
        <5>1. timers'[k] = timers[k]
          BY <2>2, <3>2, <4>4
        <5>2. expired[c]
          BY <2>1, <2>2, <4>4, <5>1 DEF TimerOK
        <5>3. expired'[c] = expired[c]
          BY <2>2, <4>4
        <5> QED
          BY <5>2, <5>3
      <4> QED
        BY <2>1, <4>1, <4>2, <4>3, <4>4 DEF TimerOK
    <3> QED
      BY <3>1, <3>2
  <2>3. CASE timers[k].owner # c
    <3>1. timers'[k] = timers[k]
      BY <2>3
    <3>2. CASE timers[k].state = "free"
      BY <2>1, <3>1, <3>2 DEF TimerOK
    <3>3. CASE timers[k].state # "free"
      <4>1. timers[k].owner \in Caller \ {c}
        BY <2>1, <2>3, <3>3 DEF TimerOK
      <4>2. PICK d \in Caller \ {c} : d = timers[k].owner /\ d = timers'[k].owner
        BY <3>1, <4>1
      <4>3. Sleeping(timers[k].owner)' <=> Sleeping(d)
        BY <1>1, <4>2 DEF Sleeping
      <4> QED
        BY <2>1, <3>1, <3>3, <4>2, <4>3 DEF TimerOK
    <3> QED
      BY <3>2, <3>3
  <2> QED
    BY <2>2, <2>3
<1>3. \A d \in Caller, k \in Timer : timer'[d] = k /\ timers'[k] # Free => timers'[k].owner = d
  BY <1>0 DEF TimersOK
<1>4. ASSUME NEW d \in Caller, Sleeping(d)'
      PROVE  timer'[d] \in Timer /\ timers'[timer'[d]].owner = d /\ timers'[timer'[d]].fd = None
  <2>1. d # c /\ Sleeping(d) /\ timer'[d] = timer[d]
    BY <1>1, <1>4
  <2>2. timer[d] \in Timer /\ timers[timer[d]].owner = d /\ timers[timer[d]].fd = None
    BY <2>1 DEF TimersOK
  <2> QED
    BY <2>1, <2>2
<1>5. ASSUME NEW k \in Timer, timers'[k].state # "free", timers'[k].fd = None
      PROVE  timer'[timers'[k].owner] = k
  <2>1. TimerOK(k)
    BY DEF TimersOK
  <2>2. timers[k].state # "free" /\ timers[k].fd = None /\ timers'[k].owner = timers[k].owner
    BY <1>0, <1>5
  <2>3. timers[k].owner \in Caller /\ Sleeping(timers[k].owner)
    BY <2>1, <2>2 DEF TimerOK
  <2>4. timers[k].owner # c
    BY <2>3
  <2> QED
    BY <2>2, <2>3, <2>4 DEF TimersOK
<1>6. \A d \in Caller : cancelled'[d] => expired'[d]
  BY DEF TimersOK
<1> QED
  BY <1>2, <1>3, <1>4, <1>5, <1>6 DEF TimersOK

(* ... a caller that sets one, ...                                         *)
LEMMA TimersMore ==
    ASSUME TimersOK, CallersType, TimersType, NEW c \in Caller, NEW k \in Timer,
           NEW fd \in Fd \cup {None}, NEW ev \in Event \cup {None},
           AddTimer(c, k, fd, ev), UNCHANGED <<cancelled, expired>>,
           fd \in Fd => ev \in Event, fd = None <=> Sleeping(c)',
           pc[c] \notin Timing, pc'[c] \in Timing, call'[c].fd = fd,
           \A d \in Caller \ {c} : pc'[d] = pc[d] /\ call'[d] = call[d]
    PROVE  TimersOK'
<1>1. /\ timers[k] = Free /\ \A d \in Caller : timer[d] # k
      /\ timers'[k] = [state |-> "armed", owner |-> c, fd |-> fd, ev |-> ev, live |-> TRUE]
      /\ \A l \in Timer \ {k} : timers'[l] = timers[l]
      /\ timer'[c] = k /\ \A d \in Caller \ {c} : timer'[d] = timer[d]
  BY DEF AddTimer, TimersType, CallersType
<1>2. \A d \in Caller \ {c} : Sleeping(d)' <=> Sleeping(d)
  BY DEF Sleeping
<1>3. ~Sleeping(c)
  BY DEF Sleeping, Timing
<1>4. /\ timers'[k].state = "armed" /\ timers'[k].owner = c /\ timers'[k].fd = fd
      /\ timers'[k].ev = ev
  BY <1>1
<1>5. TimerOK(k)'
  <2>1. timers'[k].fd = None => Sleeping(timers[k].owner)'
    BY <1>4 DEF Sleeping
  <2> QED
    BY <1>1, <1>4, <2>1 DEF TimerOK
<1>6. ASSUME NEW l \in Timer \ {k} PROVE TimerOK(l)'
  <2>1. TimerOK(l) /\ timers'[l] = timers[l]
    BY <1>1 DEF TimersOK
  <2>2. CASE timers[l].state = "free"
    BY <2>1, <2>2 DEF TimerOK
  <2>3. CASE timers[l].state # "free"
    <3>1. PICK d \in Caller : d = timers[l].owner /\ d = timers'[l].owner
      BY <2>1, <2>3 DEF TimerOK
    <3>2. d = c => timers[l].state # "armed" /\ timers[l].fd # None
      BY <1>3, <2>1, <2>3, <3>1 DEF TimerOK
    <3>3. Sleeping(timers[l].owner)' <=> Sleeping(d)'
      BY <3>1 DEF Sleeping
    <3> QED
      BY <1>1, <1>2, <2>1, <2>3, <3>1, <3>2, <3>3 DEF TimerOK
  <2> QED
    BY <2>2, <2>3
<1>7. \A d \in Caller, l \in Timer : timer'[d] = l /\ timers'[l] # Free => timers'[l].owner = d
  BY <1>1, <1>4 DEF TimersOK
<1>8. ASSUME NEW d \in Caller, Sleeping(d)'
      PROVE  timer'[d] \in Timer /\ timers'[timer'[d]].owner = d /\ timers'[timer'[d]].fd = None
  <2>1. CASE d = c
    BY <1>1, <1>4, <1>8, <2>1
  <2>2. CASE d # c
    <3>1. timer[d] \in Timer /\ timers[timer[d]].owner = d /\ timers[timer[d]].fd = None
      BY <1>2, <1>8, <2>2 DEF TimersOK
    <3> QED
      BY <1>1, <2>2, <3>1
  <2> QED
    BY <2>1, <2>2
<1>9. ASSUME NEW l \in Timer, timers'[l].state # "free", timers'[l].fd = None
      PROVE  timer'[timers'[l].owner] = l
  <2>1. CASE l = k
    BY <1>1, <1>4, <2>1
  <2>2. CASE l # k
    <3>1. TimerOK(l) /\ timers'[l] = timers[l]
      BY <1>1, <2>2 DEF TimersOK
    <3>2. timers[l].owner \in Caller /\ Sleeping(timers[l].owner) /\ timer[timers[l].owner] = l
      BY <1>9, <3>1 DEF TimersOK, TimerOK
    <3>3. timers[l].owner # c
      BY <1>3, <3>2
    <3> QED
      BY <1>1, <3>1, <3>2, <3>3
  <2> QED
    BY <2>1, <2>2
<1> QED
  BY <1>5, <1>6, <1>7, <1>8, <1>9 DEF TimersOK

(* ... and a callback that has done its work.                              *)
LEMMA TimersDone ==
    ASSUME TimersOK, TimersType, NEW k \in Timer, timers[k].state \in {"due", "flagged"},
           timers' = [timers EXCEPT ![k] = Free],
           UNCHANGED <<timer, cancelled, expired, call>>,
           \A c \in Caller : pc[c] \in Timing => pc'[c] \in Timing,
           \A c \in Caller :
            Sleeping(c)' <=> Sleeping(c) /\ ~(timers[k].fd = None /\ timers[k].owner = c)
    PROVE  TimersOK'
<1>0. Free.state = "free" /\ Free.owner = None /\ None \notin Caller
  BY FreeType, HooksAssumption DEF HooksAssumption
<1>1. timers'[k] = Free /\ \A l \in Timer \ {k} : timers'[l] = timers[l]
  BY DEF TimersType
<1>2. TimerOK(k)'
  BY <1>0, <1>1 DEF TimerOK
<1>3. ASSUME NEW l \in Timer \ {k} PROVE TimerOK(l)'
  <2>1. TimerOK(l) /\ TimerOK(k) /\ timers'[l] = timers[l]
    BY <1>1 DEF TimersOK
  <2>2. CASE timers[l].state = "free"
    BY <2>1, <2>2 DEF TimerOK
  <2>3. CASE timers[l].state # "free"
    <3>1. PICK d \in Caller : d = timers[l].owner /\ d = timers'[l].owner
      BY <2>1, <2>3 DEF TimerOK
    <3>2. timers[l].fd = None /\ timers[k].fd = None => timers[k].owner # d
      BY <2>3, <3>1 DEF TimersOK
    <3>3. Sleeping(timers[l].owner)' <=> Sleeping(d)'
      BY <3>1 DEF Sleeping
    <3> QED
      BY <2>1, <2>3, <3>1, <3>2, <3>3 DEF TimerOK
  <2> QED
    BY <2>2, <2>3
<1>4. \A d \in Caller, l \in Timer : timer'[d] = l /\ timers'[l] # Free => timers'[l].owner = d
  BY <1>1 DEF TimersOK
<1>5. ASSUME NEW d \in Caller, Sleeping(d)'
      PROVE  timer'[d] \in Timer /\ timers'[timer'[d]].owner = d /\ timers'[timer'[d]].fd = None
  <2>1. timer[d] \in Timer /\ timers[timer[d]].owner = d /\ timers[timer[d]].fd = None
    BY <1>5 DEF TimersOK
  <2>2. timer[d] # k
    BY <1>5, <2>1
  <2> QED
    BY <1>1, <2>1, <2>2
<1>6. \A l \in Timer : timers'[l].state # "free" /\ timers'[l].fd = None =>
        timer'[timers'[l].owner] = l
  BY <1>0, <1>1 DEF TimersOK
<1> QED
  BY <1>2, <1>3, <1>4, <1>5, <1>6 DEF TimersOK

-----------------------------------------------------------------------------
(* What the actions have in common.                                        *)
LEMMA Assemble ==
    ASSUME FdManagerTypeOK', KernelType', CallersType', TimersType', WaiterType',
           CallsOK', Registered', TimersOK', DescriptorsOK'
    PROVE  Inv'
<1>1. TypeOK'
  BY Types, PTL
<1> QED
  BY <1>1 DEF Inv

LEMMA Parts ==
    ASSUME Inv
    PROVE  /\ FdManagerTypeOK /\ KernelType /\ CallersType /\ TimersType /\ WaiterType
           /\ CallsOK /\ Registered /\ TimersOK /\ DescriptorsOK /\ Sized
  BY Types DEF Inv, DescriptorsOK

(* No descriptor is opened, closed or created.                             *)
LEMMA Quietly ==
    ASSUME Inv, UNCHANGED <<m_datas, kernel>>,
           \A c \in Caller :
            \/ pc'[c] = pc[c] /\ call'[c] = call[c]
            \/ ~Handled(c) /\ ~Handled(c)'
            \/ pc[c] = "cancel" /\ pc'[c] = "del" /\ call'[c] = call[c]
    PROVE  FdManagerTypeOK' /\ KernelType' /\ DescriptorsOK'
<1>1. FdManagerTypeOK' /\ Sized' /\ \A g \in Fd : Found(g)' <=> Found(g)
  BY Parts DEF FdManagerTypeOK, Sized, Found
<1>2. KernelType' /\ UNCHANGED open /\ open \subseteq Fd
  BY Parts DEF KernelType, kernel
<1>3. DescriptorsOK'
  BY <1>1, <1>2, Parts, DescriptorsStay
<1> QED
  BY <1>1, <1>2, <1>3

LEMMA NoneArmed ==
    ASSUME Inv, NEW c \in Caller,
           pc[c] \notin Timing \/ (pc[c] = "woken" /\ call[c].op = "sleep")
    PROVE  \A k \in Timer : timers[k].owner = c => timers[k].state # "armed"
<1> SUFFICES ASSUME NEW k \in Timer, timers[k].owner = c, timers[k].state = "armed"
             PROVE  FALSE
  OBVIOUS
<1>1. TimerOK(k) /\ CallOK(c)
  BY Parts DEF TimersOK, CallsOK
<1>2. pc[c] = "woken" /\ timers[k].fd = None
  BY <1>1 DEF TimerOK, CallOK, IoCall, SleepCall
<1> QED
  BY <1>1, <1>2 DEF TimerOK, Sleeping

LEMMA CancelledLeaves ==
    ASSUME Inv, NEW c \in Caller
    PROVE  /\ Cancelled(c) \in [Timer -> TimerRec]
           /\ \A k \in Timer :
                /\ Cancelled(c)[k] = timers[k]
                   \/ (Cancelled(c)[k] = Free /\ timers[k].owner = c)
                /\ timers[k].owner = c => Cancelled(c)[k].state # "armed"
<1>1. TimersOK /\ TimersType
  BY Parts
<1>2. Free.state = "free"
  BY FreeType
<1> SUFFICES ASSUME NEW k \in Timer
             PROVE  /\ Cancelled(c)[k] = timers[k]
                       \/ (Cancelled(c)[k] = Free /\ timers[k].owner = c)
                    /\ timers[k].owner = c => Cancelled(c)[k].state # "armed"
  BY <1>1, CancelledIs
<1>3. Cancelled(c)[k] = IF k = timer[c] /\ timers[k].state = "armed" THEN Free ELSE timers[k]
  BY <1>1, CancelledIs
<1>4. TimerOK(k)
  BY <1>1 DEF TimersOK
<1>5. CASE k = timer[c] /\ timers[k].state = "armed"
  <2>1. timers[k] # Free
    BY <1>2, <1>5
  <2> QED
    BY <1>1, <1>2, <1>3, <1>5, <2>1 DEF TimersOK
<1>6. CASE ~(k = timer[c] /\ timers[k].state = "armed")
  BY <1>3, <1>4, <1>6 DEF TimerOK
<1> QED
  BY <1>5, <1>6

(* A call ends.                                                            *)
LEMMA ReturnSteps ==
    ASSUME Inv, NEW c \in Caller, NEW ts \in [Timer -> TimerRec], Return(c, ts),
           UNCHANGED waiter, pc[c] # "waiting",
           \A k \in Timer :
            /\ ts[k] = timers[k] \/ (ts[k] = Free /\ timers[k].owner = c)
            /\ timers[k].owner = c => ts[k].state # "armed"
    PROVE  /\ CallersType' /\ TimersType' /\ WaiterType'
           /\ CallsOK' /\ Registered' /\ TimersOK'
<1> USE Parts
<1>1. CallersType' /\ TimersType' /\ WaiterType'
  BY ReturnType DEF WaiterType
<1>2. /\ call' = [call EXCEPT ![c] = NoCall] /\ pc' = [pc EXCEPT ![c] = "idle"]
      /\ timers' = Released(c, ts) /\ timer' = [timer EXCEPT ![c] = None]
      /\ cancelled' = [cancelled EXCEPT ![c] = FALSE]
      /\ expired' = [expired EXCEPT ![c] = FALSE]
  BY DEF Return, Goto
<1>3. CallsOK'
  <2>1. NoCall \in Call /\ NoCall.ev = None
    BY NoCallType
  <2>2. "idle" \in Steps /\ "idle" \notin Engaged \cup Opening \cup Closing
    BY DEF Steps, Engaged, Opening, Closing
  <2> QED
    BY <1>2, <2>1, <2>2, CallsTurn
<1>4. /\ pc'[c] = "idle" /\ timer'[c] = None /\ ~cancelled'[c] /\ ~expired'[c]
      /\ \A d \in Caller \ {c} :
            /\ pc'[d] = pc[d] /\ call'[d] = call[d] /\ timer'[d] = timer[d]
            /\ cancelled'[d] = cancelled[d] /\ expired'[d] = expired[d]
  BY <1>2 DEF CallersType
<1>5. Registered'
  BY <1>4, RegisteredStays
<1>6. ~Sleeping(c) /\ ~Sleeping(c)'
  BY <1>4 DEF Sleeping
<1>7. Free.owner = None /\ None # c
  BY FreeType, HooksAssumption DEF HooksAssumption
<1>8. ASSUME NEW k \in Timer
      PROVE  /\ \/ timers'[k] = timers[k]
                \/ timers'[k] = Free /\ timers[k].owner = c
                \/ /\ timers[k].owner = c /\ timers'[k].owner = c
                   /\ timers'[k].state = timers[k].state
                   /\ timers'[k].fd = timers[k].fd /\ timers'[k].ev = timers[k].ev
                   /\ ~timers'[k].live
             /\ timers[k].owner = c => timers'[k].state # "armed"
             /\ timers[k].owner = c => ~timers'[k].live
  <2>0. /\ timers'[k].owner = ts[k].owner /\ timers'[k].state = ts[k].state
        /\ timers'[k].fd = ts[k].fd /\ timers'[k].ev = ts[k].ev
        /\ timers'[k].live = (ts[k].live /\ ts[k].owner # c)
        /\ ts[k].owner # c => timers'[k] = ts[k]
    BY <1>2, ReleasedIs
  <2>1. CASE ts[k].owner = c
    <3>1. ts[k] = timers[k]
      BY <1>7, <2>1
    <3>2. ~timers'[k].live
      BY <2>0, <2>1
    <3> QED
      BY <2>0, <2>1, <3>1, <3>2
  <2>2. CASE ts[k].owner # c
    <3>1. timers'[k] = ts[k]
      BY <2>0, <2>2
    <3>2. ~Free.live
      BY DEF Free
    <3> QED
      BY <2>2, <3>1, <3>2
  <2> QED
    BY <2>1, <2>2
<1>9. TimersOK'
  BY <1>4, <1>6, <1>8, TimersLess
<1> QED
  BY <1>1, <1>3, <1>5, <1>9

LEMMA ReturnPlain ==
    ASSUME Inv, NEW c \in Caller, Return(c, timers), UNCHANGED waiter,
           (pc[c] \notin Timing \/ (pc[c] = "woken" /\ call[c].op = "sleep"))
    PROVE  /\ CallersType' /\ TimersType' /\ WaiterType'
           /\ CallsOK' /\ Registered' /\ TimersOK'
<1>1. timers \in [Timer -> TimerRec]
  BY Parts DEF TimersType
<1> QED
  BY <1>1, NoneArmed, ReturnSteps DEF Timing

(* A caller that returns or goes on, and has not touched a descriptor.     *)
LEMMA Unhandled ==
    ASSUME Inv, UNCHANGED <<m_datas, kernel>>, NEW c \in Caller, ~Handled(c), ~Handled(c)',
           \A d \in Caller \ {c} : pc'[d] = pc[d] /\ call'[d] = call[d]
    PROVE  FdManagerTypeOK' /\ KernelType' /\ DescriptorsOK'
  BY Quietly

LEMMA ReturnQuietly ==
    ASSUME Inv, UNCHANGED <<m_datas, kernel>>, NEW c \in Caller, NEW ts, Return(c, ts),
           ~Handled(c)
    PROVE  FdManagerTypeOK' /\ KernelType' /\ DescriptorsOK'
<1>1. /\ pc'[c] = "idle"
      /\ \A d \in Caller \ {c} : pc'[d] = pc[d] /\ call'[d] = call[d]
  BY Parts DEF Return, Goto, CallersType
<1>2. ~Handled(c)'
  BY <1>1 DEF Handled, Opening, Closing
<1> QED
  BY <1>1, <1>2, Unhandled

(* A call begins.                                                          *)
LEMMA EnterSteps ==
    ASSUME Inv, NEW c \in Caller, NEW label \in {"try", "look", "cancel"},
           NEW op \in {"io", "accept", "connect", "socket", "close"},
           NEW fd \in Fd, NEW ev \in Event \cup {None}, NEW to \in BOOLEAN,
           Enter(c, label, op, fd, ev, to), UNCHANGED <<timers, waiter>>,
           IF label = "try"
           THEN /\ op \in {"io", "accept", "connect"} /\ ev \in Event
                /\ \A d \in Caller : ~(pc[d] # "idle" /\ call[d].fd = fd /\ call[d].ev = ev)
           ELSE ev = None
    PROVE  /\ CallersType' /\ TimersType' /\ WaiterType'
           /\ CallsOK' /\ Registered' /\ TimersOK'
           /\ pc[c] = "idle" /\ pc' = [pc EXCEPT ![c] = label]
           /\ pc'[c] = label /\ call'[c].fd = fd
           /\ \A d \in Caller \ {c} : pc'[d] = pc[d] /\ call'[d] = call[d]
<1> USE Parts
<1> DEFINE new == [op |-> op, fd |-> fd, ev |-> ev, to |-> to]
<1>1. label \in Steps /\ label # "idle" /\ label # "waiting"
  BY DEF Steps
<1>2. CallersType' /\ TimersType' /\ WaiterType'
  BY <1>1, EnterType DEF TimersType, WaiterType
<1>3. /\ pc[c] = "idle" /\ pc' = [pc EXCEPT ![c] = label] /\ call' = [call EXCEPT ![c] = new]
      /\ UNCHANGED <<cancelled, timer, expired>>
  BY DEF Enter, Goto
<1>4. /\ pc'[c] = label /\ call'[c] = new
      /\ \A d \in Caller \ {c} : pc'[d] = pc[d] /\ call'[d] = call[d]
  BY <1>3 DEF CallersType
<1>5. /\ new \in Call /\ new.fd = fd /\ new.ev = ev /\ new.op = op
  BY DEF Call
<1> HIDE DEF new
<1>6. None \notin Event
  BY HooksAssumption DEF HooksAssumption
<1>7. ev # None => \A d \in Caller \ {c} : call[d].fd # fd \/ call[d].ev # ev
  <2> SUFFICES ASSUME ev # None, NEW d \in Caller \ {c}, call[d].fd = fd, call[d].ev = ev
               PROVE  FALSE
    OBVIOUS
  <2>1. pc[d] = "idle"
    OBVIOUS
  <2>2. call[d] = NoCall
    BY <2>1 DEF CallsOK, CallOK
  <2> QED
    BY <2>2, NoCallType
<1>8. CallsOK'
  <2>1. label \in Engaged => label = "try"
    BY DEF Engaged
  <2>2. label \in Opening \cup Closing => label # "try" /\ op # "sleep"
    BY DEF Opening, Closing
  <2> QED
    BY <1>1, <1>3, <1>5, <1>6, <1>7, <2>1, <2>2, CallsTurn
<1>9. Registered'
  BY <1>1, <1>3, <1>4, RegisteredStays
<1>10. TimersOK'
  <2>1. \A d \in Caller : Sleeping(d)' <=> Sleeping(d)
    BY <1>1, <1>3, <1>4 DEF Sleeping
  <2>2. \A d \in Caller : pc[d] \in Timing => pc'[d] \in Timing /\ call'[d] = call[d]
    BY <1>3, <1>4 DEF Timing
  <2> QED
    BY <1>3, <2>1, <2>2, TimersStay
<1> QED
  BY <1>2, <1>3, <1>4, <1>5, <1>8, <1>9, <1>10

(* Fibers are woken.                                                       *)
LEMMA FireSteps ==
    ASSUME Inv, NEW fd \in Fd, NEW E \in SUBSET Event, NEW S, S = Hit(fd, E),
           Unregister(fd, S), UNCHANGED call, pc' \in [Caller -> Steps],
           \A c \in Caller : \/ pc'[c] = IF c \in S THEN "woken" ELSE pc[c]
                             \/ c \notin S /\ pc[c] = "cancel" /\ pc'[c] = "del"
    PROVE  /\ WaiterType' /\ CallsOK' /\ Registered'
           /\ \A c \in Caller : pc[c] \in Timing => pc'[c] \in Timing
           /\ \A c \in Caller : Sleeping(c)' <=> Sleeping(c)
           /\ \A c \in S : pc[c] = "waiting"
<1> USE Parts
<1>1. S \in SUBSET Caller /\ \A c \in S : \E e \in Event : waiter[fd][e] = c
  BY HitIs
<1>2. \A c \in S : pc[c] = "waiting" /\ call[c].fd = fd
  BY <1>1 DEF Registered
<1>3. \A c \in Caller : pc'[c] = "waiting" <=> pc[c] = "waiting" /\ c \notin S
  OBVIOUS
<1>4. Registered' /\ WaiterType'
  BY <1>1, <1>3, RegisteredFires, UnregisterIs
<1>5. CallsOK'
  <2>1. \A c \in Caller : \/ pc'[c] = pc[c]
                          \/ pc[c] = "waiting" /\ pc'[c] = "woken"
                          \/ pc[c] \in Opening \cup Closing /\ pc'[c] \in Opening \cup Closing
    BY <1>2 DEF Closing
  <2> QED
    BY <2>1, CallsGoOn
<1>6. \A c \in Caller : pc[c] \in Timing => pc'[c] \in Timing
  BY DEF Timing
<1>7. \A c \in S : call[c].op # "sleep"
  <2> SUFFICES ASSUME NEW c \in S PROVE call[c].op # "sleep"
    OBVIOUS
  <2>1. CallOK(c) /\ pc[c] = "waiting" /\ call[c].fd \in Fd
    BY <1>1, <1>2 DEF CallsOK
  <2> QED
    BY <2>1, HooksAssumption DEF CallOK, IoCall, SleepCall, HooksAssumption
<1>8. \A c \in Caller : Sleeping(c)' <=> Sleeping(c)
  BY <1>3, <1>7 DEF Sleeping
<1> QED
  BY <1>2, <1>4, <1>5, <1>6, <1>8

-----------------------------------------------------------------------------
(* The actions.                                                            *)
LEMMA BeginStep ==
    ASSUME Inv, NEW c \in Caller, NEW op \in {"io", "accept", "connect"}, NEW fd \in Fd,
           NEW ev \in Event, Begin(c, op, fd, ev)
    PROVE  Inv'
<1>1. PICK to \in BOOLEAN : Enter(c, "try", op, fd, ev, to)
  <2>1. fd \in DOMAIN m_datas /\ m_datas[fd] \in FdCtx
    BY Parts DEF Begin, Found, FdManagerTypeOK
  <2>2. m_datas[fd].timeout[ev] \in BOOLEAN
    BY <2>1 DEF FdCtx
  <2> QED
    BY <2>2 DEF Begin
<1>2. /\ UNCHANGED <<m_datas, kernel, timers, waiter>>
      /\ \A d \in Caller : ~(pc[d] # "idle" /\ call[d].fd = fd /\ call[d].ev = ev)
  BY DEF Begin
<1>3. /\ CallersType' /\ TimersType' /\ WaiterType'
      /\ CallsOK' /\ Registered' /\ TimersOK'
      /\ pc[c] = "idle" /\ pc'[c] = "try"
      /\ \A d \in Caller \ {c} : pc'[d] = pc[d] /\ call'[d] = call[d]
  BY <1>1, <1>2, EnterSteps
<1>4. FdManagerTypeOK' /\ KernelType' /\ DescriptorsOK'
  BY <1>2, <1>3, Unhandled DEF Handled, Opening, Closing
<1> QED
  BY <1>3, <1>4, Assemble

LEMMA ReturnStep ==
    ASSUME Inv, NEW c \in Caller, UNCHANGED <<m_datas, kernel, waiter>>, Return(c, timers),
           pc[c] \in {"try", "check"} \/ (pc[c] = "woken" /\ call[c].op = "sleep")
    PROVE  Inv'
<1>1. /\ CallersType' /\ TimersType' /\ WaiterType'
      /\ CallsOK' /\ Registered' /\ TimersOK'
  BY ReturnPlain DEF Timing
<1>2. FdManagerTypeOK' /\ KernelType' /\ DescriptorsOK'
  BY ReturnQuietly DEF Handled, Opening, Closing
<1> QED
  BY <1>1, <1>2, Assemble

LEMMA AddFailsStep ==
    ASSUME Inv, NEW c \in Caller, AddFails(c)
    PROVE  Inv'
<1>1. /\ CallersType' /\ TimersType' /\ WaiterType'
      /\ CallsOK' /\ Registered' /\ TimersOK'
  BY CancelledLeaves, ReturnSteps DEF AddFails
<1>2. FdManagerTypeOK' /\ KernelType' /\ DescriptorsOK'
  BY ReturnQuietly DEF AddFails, Handled, Opening, Closing
<1> QED
  BY <1>1, <1>2, Assemble

(* A caller goes on with its call, with no more than its place changed.    *)
LEMMA GoesOn ==
    ASSUME Inv, NEW c \in Caller, NEW label \in Engaged, Goto(c, label), UNCHANGED call,
           IoCall(c), pc[c] \in Engaged
    PROVE  /\ pc' \in [Caller -> Steps] /\ CallsOK'
           /\ pc'[c] = label /\ \A d \in Caller \ {c} : pc'[d] = pc[d]
           /\ (UNCHANGED <<m_datas, kernel>> =>
                FdManagerTypeOK' /\ KernelType' /\ DescriptorsOK')
<1>1. pc' \in [Caller -> Steps] /\ pc'[c] = label /\ \A d \in Caller \ {c} : pc'[d] = pc[d]
  BY Parts DEF CallersType, Goto, Engaged, Steps
<1>2. CallsOK'
  BY <1>1, Parts, CallsGoOn
<1>3. ~Handled(c) /\ ~Handled(c)'
  BY <1>1 DEF Handled, Opening, Closing, Engaged
<1> QED
  BY <1>1, <1>2, <1>3, Unhandled

LEMMA InIo ==
    ASSUME Inv, NEW c \in Caller,
           pc[c] \in {"try", "arm", "add", "check"} \/ (pc[c] = "woken" /\ call[c].op # "sleep")
    PROVE  IoCall(c) /\ pc[c] \in Engaged
  BY Parts DEF CallsOK, CallOK, SleepCall, Engaged

LEMMA TryAgainStep ==
    ASSUME Inv, NEW c \in Caller, TryAgain(c)
    PROVE  Inv'
<1> USE Parts
<1>1. PICK label \in {"arm", "add"} : Goto(c, label)
  BY DEF TryAgain
<1>2. /\ pc[c] = "try" /\ UNCHANGED <<m_datas, kernel, call, cancelled, timer, expired>>
      /\ UNCHANGED <<timers, waiter>>
  BY DEF TryAgain
<1>3. /\ pc' \in [Caller -> Steps] /\ CallsOK'
      /\ pc'[c] = label /\ \A d \in Caller \ {c} : pc'[d] = pc[d]
      /\ FdManagerTypeOK' /\ KernelType' /\ DescriptorsOK'
  BY <1>1, <1>2, InIo, GoesOn DEF Engaged
<1>4. CallersType' /\ TimersType' /\ WaiterType'
  BY <1>2, <1>3 DEF CallersType, TimersType, WaiterType
<1>5. Registered'
  BY <1>2, <1>3, RegisteredStays
<1>6. TimersOK'
  <2>1. \A d \in Caller : Sleeping(d)' <=> Sleeping(d)
    BY <1>2, <1>3 DEF Sleeping
  <2> QED
    BY <1>2, <1>3, <2>1, TimersStay DEF Timing
<1> QED
  BY <1>3, <1>4, <1>5, <1>6, Assemble

LEMMA ArmStep ==
    ASSUME Inv, NEW c \in Caller, Arm(c)
    PROVE  Inv'
<1> USE Parts
<1>1. PICK k \in Timer : AddTimer(c, k, call[c].fd, call[c].ev)
  BY DEF Arm
<1>2. /\ pc[c] = "arm" /\ Goto(c, "add")
      /\ UNCHANGED <<m_datas, kernel, call, cancelled, expired, waiter>>
  BY DEF Arm
<1>3. IoCall(c) /\ pc[c] \in Engaged
  BY <1>2, InIo
<1>4. /\ pc' \in [Caller -> Steps] /\ CallsOK'
      /\ pc'[c] = "add" /\ \A d \in Caller \ {c} : pc'[d] = pc[d]
      /\ FdManagerTypeOK' /\ KernelType' /\ DescriptorsOK'
  BY <1>2, <1>3, GoesOn DEF Engaged
<1>5. PICK fd \in Fd, ev \in Event : fd = call[c].fd /\ ev = call[c].ev
  BY <1>3 DEF IoCall
<1>6. TimersType' /\ timer' \in [Caller -> Timer \cup {None}]
  BY <1>1, <1>5, AddTimerType
<1>7. CallersType' /\ WaiterType'
  BY <1>2, <1>4, <1>6 DEF CallersType, WaiterType
<1>8. Registered'
  BY <1>2, <1>4, RegisteredStays
<1>9. TimersOK'
  <2>1. ~Sleeping(c)' /\ fd # None /\ call'[c].fd = fd
    BY <1>2, <1>4, <1>5, HooksAssumption DEF Sleeping, HooksAssumption
  <2>2. AddTimer(c, k, fd, ev)
    BY <1>1, <1>5
  <2>3. /\ pc[c] \notin Timing /\ pc'[c] \in Timing
        /\ \A d \in Caller \ {c} : pc'[d] = pc[d] /\ call'[d] = call[d]
    BY <1>2, <1>4 DEF Timing
  <2> QED
    BY <1>2, <2>1, <2>2, <2>3, TimersMore
<1> QED
  BY <1>4, <1>6, <1>7, <1>8, <1>9, Assemble

LEMMA AddStep ==
    ASSUME Inv, NEW c \in Caller, Add(c)
    PROVE  Inv'
<1> USE Parts
<1>1. /\ pc[c] = "add" /\ Goto(c, "waiting")
      /\ UNCHANGED <<m_datas, kernel, call, cancelled, timer, expired, timers>>
  BY DEF Add
<1>2. IoCall(c) /\ pc[c] \in Engaged
  BY <1>1, InIo
<1>3. /\ pc' \in [Caller -> Steps] /\ CallsOK'
      /\ pc'[c] = "waiting" /\ \A d \in Caller \ {c} : pc'[d] = pc[d]
      /\ FdManagerTypeOK' /\ KernelType' /\ DescriptorsOK'
  BY <1>1, <1>2, GoesOn DEF Engaged
<1>4. CallersType' /\ TimersType'
  BY <1>1, <1>3 DEF CallersType, TimersType
<1>5. PICK fd \in Fd, ev \in Event : fd = call[c].fd /\ ev = call[c].ev
  BY <1>2 DEF IoCall
<1>6. waiter' = [waiter EXCEPT ![fd][ev] = c]
  BY <1>5 DEF Add
<1>7. /\ WaiterType'
      /\ \A g \in Fd, e \in Event :
            waiter'[g][e] = IF g = fd /\ e = ev THEN c ELSE waiter[g][e]
  BY <1>6 DEF WaiterType
<1>8. Registered'
  <2> SUFFICES ASSUME NEW d \in Caller, NEW g \in Fd, NEW e \in Event
               PROVE  waiter'[g][e] = d <=>
                        pc'[d] = "waiting" /\ call[d].fd = g /\ call[d].ev = e
    BY <1>1 DEF Registered
  <2>1. CASE d = c
    BY <1>1, <1>3, <1>5, <1>7, <2>1 DEF Registered
  <2>2. CASE d # c
    <3>1. ~(call[d].fd = fd /\ call[d].ev = ev)
      BY <1>5, <2>2, HooksAssumption DEF CallsOK, HooksAssumption
    <3> QED
      BY <1>3, <1>7, <2>2, <3>1 DEF Registered
  <2> QED
    BY <2>1, <2>2
<1>9. TimersOK'
  <2>1. \A d \in Caller : Sleeping(d)' <=> Sleeping(d)
    BY <1>1, <1>2, <1>3 DEF Sleeping, IoCall
  <2> QED
    BY <1>1, <1>3, <2>1, TimersStay DEF Timing
<1> QED
  BY <1>3, <1>4, <1>7, <1>8, <1>9, Assemble

(* Back from the switch: the timer is cancelled, and the flag looked at.   *)
LEMMA ResumeStep ==
    ASSUME Inv, NEW c \in Caller, Resume(c)
    PROVE  Inv'
<1> USE Parts
<1>1. /\ pc[c] = "woken" /\ call[c].op # "sleep" /\ Goto(c, "check")
      /\ timers' = Cancelled(c)
      /\ UNCHANGED <<m_datas, kernel, call, cancelled, timer, expired, waiter>>
  BY DEF Resume
<1>2. /\ pc' \in [Caller -> Steps] /\ CallsOK'
      /\ pc'[c] = "check" /\ \A d \in Caller \ {c} : pc'[d] = pc[d]
      /\ FdManagerTypeOK' /\ KernelType' /\ DescriptorsOK'
  BY <1>1, InIo, GoesOn DEF Engaged
<1>3. CallersType' /\ TimersType' /\ WaiterType'
  BY <1>1, <1>2, CancelledLeaves DEF CallersType, TimersType, WaiterType
<1>4. Registered'
  BY <1>1, <1>2, RegisteredStays
<1>5. TimersOK'
  <2>1. ~Sleeping(c) /\ ~Sleeping(c)'
    BY <1>1, <1>2 DEF Sleeping
  <2>2. cancelled'[c] => expired'[c]
    BY <1>1 DEF TimersOK
  <2>3. \A k \in Timer : timers'[k] = timers[k] \/ (timers'[k] = Free /\ timers[k].owner = c)
    BY <1>1, CancelledLeaves
  <2>4. \A k \in Timer : timers[k].owner = c => timers'[k].state # "armed"
    BY <1>1, CancelledLeaves
  <2> QED
    BY <1>1, <1>2, <2>1, <2>2, <2>3, <2>4, TimersLess
<1> QED
  BY <1>2, <1>3, <1>4, <1>5, Assemble

LEMMA RetryStep ==
    ASSUME Inv, NEW c \in Caller, Retry(c)
    PROVE  Inv'
<1> USE Parts
<1>1. pc[c] = "check" /\ ~cancelled[c] /\ UNCHANGED <<m_datas, kernel, waiter>>
  BY DEF Retry
<1>2. CASE Return(c, timers)
  BY <1>1, <1>2, ReturnStep
<1>3. CASE /\ Goto(c, "try") /\ timer' = [timer EXCEPT ![c] = None]
           /\ UNCHANGED <<call, cancelled, expired, timers>>
  <2>1. /\ pc' \in [Caller -> Steps] /\ CallsOK'
        /\ pc'[c] = "try" /\ \A d \in Caller \ {c} : pc'[d] = pc[d]
        /\ FdManagerTypeOK' /\ KernelType' /\ DescriptorsOK'
    BY <1>1, <1>3, InIo, GoesOn DEF Engaged
  <2>2. CallersType' /\ TimersType' /\ WaiterType'
    BY <1>1, <1>3, <2>1 DEF CallersType, TimersType, WaiterType
  <2>3. Registered'
    BY <1>1, <1>3, <2>1, RegisteredStays
  <2>4. ~Sleeping(c) /\ ~Sleeping(c)'
    BY <1>1, <2>1 DEF Sleeping
  <2>5. timer'[c] = None /\ \A d \in Caller \ {c} : timer'[d] = timer[d]
    BY <1>3 DEF CallersType
  <2>6. \A k \in Timer : timers[k].owner = c => timers[k].state # "armed"
    BY <1>1, NoneArmed DEF Timing
  <2>7. TimersOK'
    BY <1>1, <1>3, <2>1, <2>4, <2>5, <2>6, TimersLess
  <2> QED
    BY <2>1, <2>2, <2>3, <2>7, Assemble
<1> QED
  BY <1>2, <1>3 DEF Retry

LEMMA SleepStep ==
    ASSUME Inv, NEW c \in Caller, Sleep(c)
    PROVE  Inv'
<1> USE Parts
<1> DEFINE new == [NoCall EXCEPT !.op = "sleep"]
<1>1. PICK k \in Timer : AddTimer(c, k, None, None)
  BY DEF Sleep
<1>2. /\ pc[c] = "idle" /\ pc' = [pc EXCEPT ![c] = "waiting"]
      /\ call' = [call EXCEPT ![c] = new]
      /\ UNCHANGED <<m_datas, kernel, cancelled, expired, waiter>>
  BY DEF Sleep, Goto
<1>3. /\ new \in Call /\ new.op = "sleep" /\ new.fd = None /\ new.ev = None
  BY DEF NoCall, Call
<1> HIDE DEF new
<1>4. /\ pc'[c] = "waiting" /\ call'[c] = new
      /\ \A d \in Caller \ {c} : pc'[d] = pc[d] /\ call'[d] = call[d]
  BY <1>2 DEF CallersType
<1>5. TimersType' /\ timer' \in [Caller -> Timer \cup {None}]
  BY <1>1, AddTimerType
<1>6. CallersType' /\ WaiterType'
  BY <1>2, <1>3, <1>5 DEF CallersType, WaiterType, Steps
<1>7. CallsOK'
  BY <1>2, <1>3, CallsTurn DEF Steps, Opening, Closing
<1>8. None \notin Fd
  BY HooksAssumption DEF HooksAssumption
<1>9. Registered'
  BY <1>2, <1>3, <1>4, <1>8, RegisteredStays
<1>10. TimersOK'
  <2>1. Sleeping(c)'
    BY <1>3, <1>4 DEF Sleeping
  <2>2. pc[c] \notin Timing /\ pc'[c] \in Timing /\ call'[c].fd = None
    BY <1>2, <1>3, <1>4 DEF Timing
  <2> QED
    BY <1>1, <1>2, <1>4, <1>8, <2>1, <2>2, TimersMore
<1>11. FdManagerTypeOK' /\ KernelType' /\ DescriptorsOK'
  BY <1>2, <1>4, Unhandled DEF Handled, Opening, Closing
<1> QED
  BY <1>5, <1>6, <1>7, <1>9, <1>10, <1>11, Assemble

-----------------------------------------------------------------------------
(* The callbacks of timers.  A timer moves on, and no caller moves.        *)
LEMMA TimerMoves ==
    ASSUME Inv, NEW k \in Timer, timers[k].state # "free",
           NEW state \in TimerState \ {"free", "armed"},
           timers' = [timers EXCEPT ![k].state = state],
           timers[k].fd = None => state = "due",
           UNCHANGED <<m_datas, kernel, pc, call, timer, waiter>>,
           cancelled' \in [Caller -> BOOLEAN], expired' \in [Caller -> BOOLEAN],
           \A c \in Caller : expired[c] => expired'[c],
           timers[k].live => expired'[timers[k].owner],
           \A c \in Caller : cancelled'[c] => expired'[c]
    PROVE  Inv'
<1> USE Parts
<1>1. /\ timers'[k].state = state /\ timers'[k].owner = timers[k].owner
      /\ timers'[k].fd = timers[k].fd /\ timers'[k].ev = timers[k].ev
      /\ timers'[k].live = timers[k].live
      /\ \A l \in Timer \ {k} : timers'[l] = timers[l]
  BY DEF TimersType, TimerRec
<1>2. TimersType'
  <2>1. [timers[k] EXCEPT !.state = state] \in TimerRec
    BY DEF TimersType, TimerRec
  <2> QED
    BY <2>1 DEF TimersType
<1>3. CallersType' /\ WaiterType'
  BY DEF CallersType, WaiterType
<1>4. CallsOK'
  BY DEF CallsOK, CallOK, IoCall, SleepCall
<1>5. Registered'
  BY RegisteredStays
<1>6. FdManagerTypeOK' /\ KernelType' /\ DescriptorsOK'
  BY Quietly
<1>7. \A c \in Caller : Sleeping(c)' <=> Sleeping(c)
  BY DEF Sleeping
<1>8. TimerOK(k)'
  <2>1. TimerOK(k)
    BY DEF TimersOK
  <2>2. PICK d \in Caller : d = timers[k].owner /\ d = timers'[k].owner
    BY <1>1, <2>1 DEF TimerOK
  <2>3. Sleeping(timers[k].owner)' <=> Sleeping(d)
    BY <1>7, <2>2 DEF Sleeping
  <2>4. state # "free" /\ state # "armed"
    OBVIOUS
  <2>5. timers'[k].live => expired'[timers'[k].owner]
    BY <1>1
  <2> QED
    BY <1>1, <2>1, <2>2, <2>3, <2>4, <2>5 DEF TimerOK
<1>9. ASSUME NEW l \in Timer \ {k} PROVE TimerOK(l)'
  <2>1. TimerOK(l) /\ timers'[l] = timers[l]
    BY <1>1 DEF TimersOK
  <2>2. CASE timers[l].state = "free"
    BY <2>1, <2>2 DEF TimerOK
  <2>3. CASE timers[l].state # "free"
    <3>1. PICK d \in Caller : d = timers[l].owner /\ d = timers'[l].owner
      BY <2>1, <2>3 DEF TimerOK
    <3>2. Sleeping(timers[l].owner)' <=> Sleeping(d)
      BY <1>7, <3>1 DEF Sleeping
    <3> QED
      BY <2>1, <2>3, <3>1, <3>2 DEF TimerOK
  <2> QED
    BY <2>2, <2>3
<1>10. \A c \in Caller, l \in Timer : timer'[c] = l /\ timers'[l] # Free => timers'[l].owner = c
  <2>1. timers[k] # Free
    BY FreeType
  <2> QED
    BY <1>1, <2>1 DEF TimersOK
<1>11. ASSUME NEW c \in Caller, Sleeping(c)'
       PROVE  timer'[c] \in Timer /\ timers'[timer'[c]].owner = c /\ timers'[timer'[c]].fd = None
  <2>1. timer[c] \in Timer /\ timers[timer[c]].owner = c /\ timers[timer[c]].fd = None
    BY <1>7, <1>11 DEF TimersOK
  <2> QED
    BY <1>1, <2>1
<1>12. \A l \in Timer : timers'[l].state # "free" /\ timers'[l].fd = None =>
        timer'[timers'[l].owner] = l
  BY <1>1 DEF TimersOK
<1>13. TimersOK'
  BY <1>8, <1>9, <1>10, <1>11, <1>12 DEF TimersOK
<1> QED
  BY <1>2, <1>3, <1>4, <1>5, <1>6, <1>13, Assemble

LEMMA ExpireStep ==
    ASSUME Inv, NEW k \in Timer, Expire(k)
    PROVE  Inv'
<1> USE Parts
<1>1. /\ timers[k].state = "armed" /\ timers' = [timers EXCEPT ![k].state = "due"]
      /\ expired' = [expired EXCEPT ![timers[k].owner] = TRUE]
      /\ UNCHANGED <<m_datas, kernel, pc, call, cancelled, timer, waiter>>
  BY DEF Expire
<1>2. timers[k].owner \in Caller
  BY <1>1 DEF TimersOK, TimerOK
<1>3. /\ expired' \in [Caller -> BOOLEAN] /\ expired'[timers[k].owner]
      /\ \A c \in Caller : expired[c] => expired'[c]
  BY <1>1, <1>2 DEF CallersType
<1>4. \A c \in Caller : cancelled'[c] => expired'[c]
  BY <1>1, <1>3 DEF TimersOK
<1>5. cancelled' \in [Caller -> BOOLEAN] /\ "due" \in TimerState \ {"free", "armed"}
  BY <1>1 DEF CallersType, TimerState
<1> QED
  BY <1>1, <1>3, <1>4, <1>5, TimerMoves

(* A callback that ends without, or with, an event to cancel.              *)
LEMMA FreeStep ==
    ASSUME Inv, NEW k \in Timer, timers[k].state \in {"due", "flagged"},
           timers' = [timers EXCEPT ![k] = Free],
           UNCHANGED <<m_datas, kernel, call, timer, cancelled, expired>>,
           pc' \in [Caller -> Steps], WaiterType', CallsOK', Registered',
           \A c \in Caller : pc'[c] = pc[c] \/ (pc[c] = "waiting" /\ pc'[c] = "woken"),
           \A c \in Caller :
            Sleeping(c)' <=> Sleeping(c) /\ ~(timers[k].fd = None /\ timers[k].owner = c)
    PROVE  Inv'
<1> USE Parts
<1>1. CallersType' /\ TimersType'
  BY FreeType DEF CallersType, TimersType
<1>2. FdManagerTypeOK' /\ KernelType' /\ DescriptorsOK'
  <2>1. \A c \in Caller : \/ pc'[c] = pc[c] /\ call'[c] = call[c]
                          \/ ~Handled(c) /\ ~Handled(c)'
    BY DEF Handled, Opening, Closing
  <2> QED
    BY <2>1, Quietly
<1>3. TimersOK'
  BY TimersDone DEF Timing
<1> QED
  BY <1>1, <1>2, <1>3, Assemble

LEMMA LockStep ==
    ASSUME Inv, NEW k \in Timer, Lock(k)
    PROVE  Inv'
<1> USE Parts
<1>1. /\ timers[k].state = "due" /\ timers[k].fd # None
      /\ UNCHANGED <<m_datas, kernel, pc, call, cancelled, timer, expired, waiter>>
  BY DEF Lock, callers
<1>2. CASE timers' = [timers EXCEPT ![k].state = "locked"]
  <2>1. timers[k].live => expired'[timers[k].owner]
    BY <1>1, <1>2 DEF TimersOK, TimerOK
  <2>2. /\ cancelled' \in [Caller -> BOOLEAN] /\ expired' \in [Caller -> BOOLEAN]
        /\ "locked" \in TimerState \ {"free", "armed"}
    BY <1>1 DEF CallersType, TimerState
  <2>3. \A c \in Caller : cancelled'[c] => expired'[c]
    BY <1>1 DEF TimersOK
  <2> QED
    BY <1>1, <1>2, <2>1, <2>2, <2>3, TimerMoves
<1>3. CASE timers' = [timers EXCEPT ![k] = Free]
  <2>1. pc' \in [Caller -> Steps] /\ WaiterType'
    BY <1>1 DEF CallersType, WaiterType
  <2>2. CallsOK'
    BY <1>1 DEF CallsOK, CallOK, IoCall, SleepCall
  <2>3. Registered'
    BY <1>1, RegisteredStays
  <2>4. \A c \in Caller : Sleeping(c)' <=> Sleeping(c)
    BY <1>1 DEF Sleeping
  <2> QED
    BY <1>1, <1>3, <2>1, <2>2, <2>3, <2>4, FreeStep
<1> QED
  BY <1>2, <1>3 DEF Lock

LEMMA FlagStep ==
    ASSUME Inv, NEW k \in Timer, Flag(k)
    PROVE  Inv'
<1> USE Parts
<1>1. /\ timers[k].state = "locked" /\ timers' = [timers EXCEPT ![k].state = "flagged"]
      /\ UNCHANGED <<m_datas, kernel, pc, call, timer, expired, waiter>>
      /\ \/ timers[k].live /\ cancelled' = [cancelled EXCEPT ![timers[k].owner] = TRUE]
         \/ UNCHANGED cancelled
  BY DEF Flag
<1>2. timers[k].live => expired[timers[k].owner]
  BY <1>1 DEF TimersOK, TimerOK
<1>3. timers[k].fd # None
  BY <1>1, HooksAssumption DEF TimersOK, TimerOK, HooksAssumption
<1>4. \A c \in Caller : cancelled'[c] => expired[c]
  BY <1>1, <1>2 DEF TimersOK, CallersType
<1>5. /\ cancelled' \in [Caller -> BOOLEAN] /\ expired' \in [Caller -> BOOLEAN]
      /\ "flagged" \in TimerState \ {"free", "armed"}
  BY <1>1 DEF CallersType, TimerState
<1> QED
  BY <1>1, <1>2, <1>3, <1>4, <1>5, TimerMoves

LEMMA CancelEventStep ==
    ASSUME Inv, NEW k \in Timer, cancelEvent(k)
    PROVE  Inv'
<1> USE Parts
<1>1. /\ timers[k].state = "flagged" /\ timers' = [timers EXCEPT ![k] = Free]
      /\ UNCHANGED <<m_datas, kernel, call, cancelled, timer, expired>>
  BY DEF cancelEvent
<1>2. timers[k].fd \in Fd /\ timers[k].ev \in Event
  BY <1>1 DEF TimersOK, TimerOK
<1>3. PICK fd \in Fd, S \in SUBSET Caller :
        fd = timers[k].fd /\ S = Hit(fd, {timers[k].ev})
  BY <1>2, HitIs
<1>4. Unregister(fd, S) /\ pc' = Woken(S)
  BY <1>3 DEF cancelEvent, triggerEvent
<1>5. /\ pc' \in [Caller -> Steps]
      /\ \A c \in Caller : pc'[c] = IF c \in S THEN "woken" ELSE pc[c]
  BY <1>4, WokenIs
<1>6. /\ WaiterType' /\ CallsOK' /\ Registered'
      /\ \A c \in Caller : Sleeping(c)' <=> Sleeping(c)
      /\ \A c \in S : pc[c] = "waiting"
  BY <1>1, <1>2, <1>3, <1>4, <1>5, FireSteps
<1>7. timers[k].fd # None
  BY <1>2, HooksAssumption DEF HooksAssumption
<1> QED
  BY <1>1, <1>5, <1>6, <1>7, FreeStep

LEMMA WakeSleeperStep ==
    ASSUME Inv, NEW k \in Timer, WakeSleeper(k)
    PROVE  Inv'
<1> USE Parts
<1>1. /\ timers[k].state = "due" /\ timers[k].fd = None
      /\ timers' = [timers EXCEPT ![k] = Free] /\ pc' = Woken({timers[k].owner})
      /\ UNCHANGED <<m_datas, kernel, call, cancelled, timer, expired, waiter>>
  BY DEF WakeSleeper
<1>2. PICK c \in Caller : c = timers[k].owner /\ Sleeping(c)
  BY <1>1 DEF TimersOK, TimerOK
<1>3. pc[c] = "waiting" /\ call[c].op = "sleep"
  BY <1>2 DEF Sleeping
<1>4. call[c].fd \notin Fd
  <2>1. CallOK(c)
    BY DEF CallsOK
  <2> QED
    BY <1>3, <2>1, HooksAssumption DEF CallOK, IoCall, SleepCall, HooksAssumption
<1>5. /\ pc' \in [Caller -> Steps]
      /\ \A d \in Caller : pc'[d] = IF d = c THEN "woken" ELSE pc[d]
  BY <1>1, <1>2, WokenIs
<1>6. WaiterType' /\ Registered'
  BY <1>1, <1>4, <1>5, RegisteredStays DEF WaiterType
<1>7. CallsOK'
  BY <1>1, <1>3, <1>5, CallsGoOn
<1>8. \A d \in Caller : Sleeping(d)' <=> Sleeping(d) /\ ~(timers[k].fd = None /\ timers[k].owner = d)
  BY <1>1, <1>2, <1>5 DEF Sleeping
<1> QED
  BY <1>1, <1>3, <1>5, <1>6, <1>7, <1>8, FreeStep

LEMMA EventReadyStep ==
    ASSUME Inv, NEW fd \in Fd, NEW ev \in Event, EventReady(fd, ev)
    PROVE  Inv'
<1> USE Parts
<1>1. /\ UNCHANGED <<m_datas, kernel, call, cancelled, timer, expired, timers>>
      /\ Unregister(fd, Hit(fd, {ev})) /\ pc' = Woken(Hit(fd, {ev}))
  BY DEF EventReady, triggerEvent
<1>2. PICK S \in SUBSET Caller : S = Hit(fd, {ev})
  BY HitIs
<1>3. /\ pc' \in [Caller -> Steps]
      /\ \A c \in Caller : pc'[c] = IF c \in S THEN "woken" ELSE pc[c]
  BY <1>1, <1>2, WokenIs
<1>4. /\ WaiterType' /\ CallsOK' /\ Registered'
      /\ \A c \in Caller : pc[c] \in Timing => pc'[c] \in Timing
      /\ \A c \in Caller : Sleeping(c)' <=> Sleeping(c)
      /\ \A c \in S : pc[c] = "waiting"
  BY <1>1, <1>2, <1>3, FireSteps
<1>5. TimersOK'
  BY <1>1, <1>4, TimersStay
<1>6. FdManagerTypeOK' /\ KernelType' /\ DescriptorsOK'
  <2>1. \A c \in Caller : \/ pc'[c] = pc[c] /\ call'[c] = call[c]
                          \/ ~Handled(c) /\ ~Handled(c)'
    BY <1>1, <1>3, <1>4 DEF Handled, Opening, Closing
  <2> QED
    BY <1>1, <2>1, Quietly
<1>7. CallersType' /\ TimersType'
  BY <1>1, <1>3 DEF CallersType, TimersType
<1> QED
  BY <1>4, <1>5, <1>6, <1>7, Assemble

-----------------------------------------------------------------------------
(* Descriptors: a caller that opens one, ...                               *)
LEMMA Opens ==
    ASSUME Inv, NEW c \in Caller, NEW fd \in Fd \ open, ~Handled(c),
           open' = open \cup {fd}, UNCHANGED m_datas,
           pc'[c] = "look", call'[c].fd = fd,
           \A d \in Caller \ {c} : pc'[d] = pc[d] /\ call'[d] = call[d]
    PROVE  FdManagerTypeOK' /\ DescriptorsOK'
<1> USE Parts
<1>1. /\ FdManagerTypeOK' /\ Sized'
      /\ \A g \in Fd : Found(g)' <=> Found(g)
  BY DEF FdManagerTypeOK, Sized, Found
<1>2. ~Found(fd)
  BY DEF DescriptorsOK
<1>3. \A d \in Caller \ {c} : Handled(d) => call[d].fd \in open /\ call[d].fd \in Fd
  BY DEF DescriptorsOK, KernelType
<1>4. \A d \in Caller \ {c} : Handled(d)' <=> Handled(d)
  BY DEF Handled
<1>5. Handled(c)' /\ pc'[c] \notin {"close"}
  BY DEF Handled, Opening
<1>6. ASSUME NEW d \in Caller, pc'[d] \in Opening \cup {"close"}
      PROVE  ~Found(call[d].fd)'
  <2>1. CASE d = c
    BY <1>2, <2>1 DEF Found
  <2>2. CASE d # c
    <3>1. ~Found(call[d].fd) /\ call'[d].fd = call[d].fd
      BY <1>6, <2>2 DEF DescriptorsOK
    <3> QED
      BY <3>1 DEF Found
  <2> QED
    BY <2>1, <2>2
<1>7. Tracked'
  <2> SUFFICES ASSUME NEW g \in open', ~Found(g)'
               PROVE  \E d \in Caller : call'[d].fd = g
                                        /\ pc'[d] \in {"look", "create", "close"}
    BY DEF Tracked
  <2>1. CASE g = fd
    BY <2>1
  <2>2. CASE g # fd
    <3>1. g \in open /\ ~Found(g)
      BY <1>1, <2>2 DEF KernelType
    <3>2. PICK d \in Caller : call[d].fd = g /\ pc[d] \in {"look", "create", "close"}
      BY <3>1 DEF DescriptorsOK, Tracked
    <3>3. d # c
      BY <3>2 DEF Handled, Opening, Closing
    <3> QED
      BY <3>2, <3>3
  <2> QED
    BY <2>1, <2>2
<1>8. \A g \in Fd \ open' : ~Found(g)'
  BY <1>1 DEF DescriptorsOK
<1>9. \A d \in Caller : Handled(d)' => call'[d].fd \in open'
  BY <1>3, <1>4
<1>10. \A d, e \in Caller : d # e /\ Handled(d)' /\ Handled(e)' => call'[d].fd # call'[e].fd
  <2> SUFFICES ASSUME NEW d \in Caller, NEW e \in Caller, d # e, Handled(d)', Handled(e)'
               PROVE  call'[d].fd # call'[e].fd
    OBVIOUS
  <2>1. CASE d = c
    BY <1>3, <1>4, <2>1
  <2>2. CASE e = c
    BY <1>3, <1>4, <2>2
  <2>3. CASE d # c /\ e # c
    BY <1>4, <2>3 DEF DescriptorsOK
  <2> QED
    BY <2>1, <2>2, <2>3
<1> QED
  BY <1>1, <1>6, <1>7, <1>8, <1>9, <1>10 DEF DescriptorsOK

(* ... or goes on with one, or ends with it.  What the caller has to show  *)
(* is about its descriptor alone: nobody else has it in hands.             *)
LEMMA Handles ==
    ASSUME Inv, NEW c \in Caller, NEW fd \in Fd, Handled(c), call[c].fd = fd,
           Sized', open' \subseteq Fd,
           \A g \in Fd \ {fd} : (Found(g)' <=> Found(g)) /\ (g \in open' <=> g \in open),
           \A d \in Caller \ {c} : pc'[d] = pc[d] /\ call'[d] = call[d],
           Handled(c)' => call'[c] = call[c] /\ fd \in open',
           pc'[c] \in Opening \cup {"close"} => ~Found(fd)',
           IF fd \in open' THEN Found(fd)' \/ pc'[c] \in {"look", "create", "close"}
                           ELSE ~Found(fd)'
    PROVE  DescriptorsOK'
<1> USE Parts
<1>1. \A d \in Caller \ {c} : Handled(d)' <=> Handled(d)
  BY DEF Handled
<1>2. \A d \in Caller \ {c} : Handled(d) => call[d].fd \in open \ {fd} /\ call[d].fd \in Fd
  BY DEF DescriptorsOK, KernelType
<1>3. pc'[c] \in Opening \cup {"close"} => Handled(c)'
  BY DEF Handled, Closing
<1>4. ASSUME NEW d \in Caller, pc'[d] \in Opening \cup {"close"}
      PROVE  ~Found(call[d].fd)'
  <2>1. CASE d = c
    <3>1. call'[c].fd = fd /\ ~Found(fd)'
      BY <1>3, <1>4, <2>1
    <3> QED
      BY <2>1, <3>1 DEF Found
  <2>2. CASE d # c
    <3>1. Handled(d)
      BY <1>4, <2>2 DEF Handled, Closing
    <3>2. PICK g \in Fd \ {fd} : g = call[d].fd /\ g = call'[d].fd
      BY <1>2, <2>2, <3>1
    <3>3. ~Found(g)
      BY <1>4, <2>2, <3>2 DEF DescriptorsOK
    <3>4. ~Found(g)'
      BY <3>3
    <3> QED
      BY <3>2, <3>4 DEF Found
  <2> QED
    BY <2>1, <2>2
<1>5. Tracked'
  <2> SUFFICES ASSUME NEW g \in open', g \in Fd, ~Found(g)'
               PROVE  \E d \in Caller : call'[d].fd = g
                                        /\ pc'[d] \in {"look", "create", "close"}
    BY DEF Tracked
  <2>1. CASE g = fd
    BY <2>1 DEF Handled, Opening, Closing
  <2>2. CASE g # fd
    <3>1. g \in open /\ ~Found(g)
      BY <2>2
    <3>2. PICK d \in Caller : call[d].fd = g /\ pc[d] \in {"look", "create", "close"}
      BY <3>1 DEF DescriptorsOK, Tracked
    <3>3. d # c
      BY <2>2, <3>2
    <3> QED
      BY <3>2, <3>3
  <2> QED
    BY <2>1, <2>2
<1>6. \A g \in Fd \ open' : ~Found(g)'
  BY DEF DescriptorsOK
<1>7. \A d \in Caller : Handled(d)' => call'[d].fd \in open'
  BY <1>1, <1>2
<1>8. \A d, e \in Caller : d # e /\ Handled(d)' /\ Handled(e)' => call'[d].fd # call'[e].fd
  <2> SUFFICES ASSUME NEW d \in Caller, NEW e \in Caller, d # e, Handled(d)', Handled(e)'
               PROVE  call'[d].fd # call'[e].fd
    OBVIOUS
  <2>1. CASE d = c
    BY <1>1, <1>2, <2>1
  <2>2. CASE e = c
    BY <1>1, <1>2, <2>2
  <2>3. CASE d # c /\ e # c
    BY <1>1, <2>3 DEF DescriptorsOK
  <2> QED
    BY <2>1, <2>2, <2>3
<1> QED
  BY <1>4, <1>5, <1>6, <1>7, <1>8 DEF DescriptorsOK

LEMMA SocketStep ==
    ASSUME Inv, NEW c \in Caller, Socket(c)
    PROVE  Inv'
<1> USE Parts
<1>1. PICK fd \in Fd \ open :
        open' = open \cup {fd} /\ Enter(c, "look", "socket", fd, None, FALSE)
  BY DEF Socket
<1>2. UNCHANGED <<m_datas, forgotten, timers, waiter>>
  BY DEF Socket
<1>3. /\ CallersType' /\ TimersType' /\ WaiterType'
      /\ CallsOK' /\ Registered' /\ TimersOK'
      /\ pc[c] = "idle" /\ pc'[c] = "look" /\ call'[c].fd = fd
      /\ \A d \in Caller \ {c} : pc'[d] = pc[d] /\ call'[d] = call[d]
  BY <1>1, <1>2, EnterSteps
<1>4. ~Handled(c)
  BY <1>3 DEF Handled, Opening, Closing
<1>5. FdManagerTypeOK' /\ DescriptorsOK'
  BY <1>1, <1>2, <1>3, <1>4, Opens
<1>6. KernelType'
  BY <1>1, <1>2 DEF KernelType
<1> QED
  BY <1>3, <1>5, <1>6, Assemble

LEMMA TryAcceptStep ==
    ASSUME Inv, NEW c \in Caller, TryAccept(c)
    PROVE  Inv'
<1> USE Parts
<1>1. pc[c] = "try" /\ UNCHANGED <<m_datas, waiter>>
  BY DEF TryAccept
<1>2. CASE Return(c, timers) /\ UNCHANGED kernel
  BY <1>1, <1>2, ReturnStep
<1>3. ASSUME NEW fd \in Fd \ open, open' = open \cup {fd}, Goto(c, "look"),
             call' = [call EXCEPT ![c] = [NoCall EXCEPT !.op = "accept", !.fd = fd]],
             timers' = Released(c, timers),
             UNCHANGED <<forgotten, cancelled, timer, expired>>
      PROVE  Inv'
  <2> DEFINE new == [NoCall EXCEPT !.op = "accept", !.fd = fd]
  <2>1. new \in Call /\ new.op = "accept" /\ new.fd = fd /\ new.ev = None
    BY DEF NoCall, Call
  <2>2. call' = [call EXCEPT ![c] = new] /\ pc' = [pc EXCEPT ![c] = "look"]
    BY <1>3 DEF Goto
  <2> HIDE DEF new
  <2>3. /\ pc'[c] = "look" /\ call'[c] = new
        /\ \A d \in Caller \ {c} : pc'[d] = pc[d] /\ call'[d] = call[d]
    BY <2>2 DEF CallersType
  <2>4. CallersType' /\ WaiterType'
    BY <1>1, <1>3, <2>1, <2>2 DEF CallersType, WaiterType, Steps
  <2>5. timers \in [Timer -> TimerRec]
    BY DEF TimersType
  <2>6. TimersType'
    BY <1>3, <2>5, ReleasedIs DEF TimersType
  <2>7. CallsOK'
    BY <2>1, <2>2, CallsTurn DEF Steps, Engaged, Opening, Closing
  <2>8. Registered'
    BY <1>1, <2>3, RegisteredStays
  <2>9. TimersOK'
    <3>1. ~Sleeping(c) /\ ~Sleeping(c)'
      BY <1>1, <2>3 DEF Sleeping
    <3>2. \A k \in Timer : timers[k].owner = c => timers[k].state # "armed"
      BY <1>1, NoneArmed DEF Timing
    <3>3. ASSUME NEW k \in Timer
          PROVE  IF timers[k].owner = c
                 THEN /\ timers'[k].owner = c /\ timers'[k].state = timers[k].state
                      /\ timers'[k].fd = timers[k].fd /\ timers'[k].ev = timers[k].ev
                      /\ ~timers'[k].live
                 ELSE timers'[k] = timers[k]
      <4>1. /\ timers'[k].owner = timers[k].owner /\ timers'[k].state = timers[k].state
            /\ timers'[k].fd = timers[k].fd /\ timers'[k].ev = timers[k].ev
            /\ timers'[k].live = (timers[k].live /\ timers[k].owner # c)
            /\ timers[k].owner # c => timers'[k] = timers[k]
        BY <1>3, <2>5, ReleasedIs
      <4> QED
        BY <4>1
    <3>4. cancelled[c] => expired[c]
      BY DEF TimersOK
    <3> QED
      BY <1>3, <2>3, <3>1, <3>2, <3>3, <3>4, TimersLess
  <2>10. FdManagerTypeOK' /\ DescriptorsOK'
    BY <1>1, <1>3, <2>1, <2>3, Opens DEF Handled, Opening, Closing
  <2>11. KernelType'
    BY <1>3 DEF KernelType
  <2> QED
    BY <2>4, <2>6, <2>7, <2>8, <2>9, <2>10, <2>11, Assemble
<1> QED
  BY <1>1, <1>2, <1>3 DEF TryAccept

(* A caller with a descriptor in hands.                                    *)
LEMMA InHands ==
    ASSUME Inv, NEW c \in Caller, Handled(c)
    PROVE  /\ call[c].fd \in Fd /\ call[c].fd \in open
           /\ pc[c] \notin Timing /\ ~Sleeping(c) /\ pc[c] # "waiting"
  BY Parts DEF CallsOK, CallOK, Handled, DescriptorsOK, Opening, Closing, Timing, Sleeping

(* ... goes on with it, ...                                                *)
LEMMA HandsOn ==
    ASSUME Inv, NEW c \in Caller, Handled(c), NEW label \in Opening \cup Closing,
           Goto(c, label), UNCHANGED <<call, cancelled, timer, expired, timers, waiter>>
    PROVE  /\ CallersType' /\ TimersType' /\ WaiterType'
           /\ CallsOK' /\ Registered' /\ TimersOK'
           /\ pc'[c] = label /\ \A d \in Caller \ {c} : pc'[d] = pc[d] /\ call'[d] = call[d]
<1> USE Parts
<1>1. /\ pc' \in [Caller -> Steps] /\ pc'[c] = label
      /\ \A d \in Caller \ {c} : pc'[d] = pc[d]
  BY DEF CallersType, Goto, Opening, Closing, Steps
<1>2. pc'[c] # "waiting"
  BY <1>1 DEF Opening, Closing
<1>3. CallersType' /\ TimersType' /\ WaiterType'
  BY <1>1 DEF CallersType, TimersType, WaiterType
<1>4. CallsOK'
  BY <1>1, CallsGoOn DEF Handled
<1>5. Registered'
  BY <1>1, <1>2, InHands, RegisteredStays
<1>6. TimersOK'
  <2>1. \A d \in Caller : Sleeping(d)' <=> Sleeping(d)
    BY <1>1, <1>2, InHands DEF Sleeping
  <2>2. \A d \in Caller : pc[d] \in Timing => pc'[d] \in Timing /\ call'[d] = call[d]
    BY <1>1, InHands
  <2> QED
    BY <2>1, <2>2, TimersStay
<1> QED
  BY <1>1, <1>3, <1>4, <1>5, <1>6

(* ... or is done with it.                                                 *)
LEMMA HandsOff ==
    ASSUME Inv, NEW c \in Caller, Handled(c), Return(c, timers), UNCHANGED waiter
    PROVE  /\ CallersType' /\ TimersType' /\ WaiterType'
           /\ CallsOK' /\ Registered' /\ TimersOK'
           /\ pc'[c] = "idle" /\ ~Handled(c)'
           /\ \A d \in Caller \ {c} : pc'[d] = pc[d] /\ call'[d] = call[d]
<1>1. /\ pc'[c] = "idle"
      /\ \A d \in Caller \ {c} : pc'[d] = pc[d] /\ call'[d] = call[d]
  BY Parts DEF Return, Goto, CallersType
<1>2. ~Handled(c)'
  BY <1>1 DEF Handled, Opening, Closing
<1>3. /\ CallersType' /\ TimersType' /\ WaiterType'
      /\ CallsOK' /\ Registered' /\ TimersOK'
  BY InHands, ReturnPlain
<1> QED
  BY <1>1, <1>2, <1>3

LEMMA LookStep ==
    ASSUME Inv, NEW c \in Caller, Look(c)
    PROVE  Inv'
<1> USE Parts
<1>1. PICK fd \in Fd : fd = call[c].fd /\ fd \in open /\ Handled(c)
  BY InHands DEF Look, Handled, Opening
<1>2. pc[c] = "look" /\ ~Found(fd)
  BY <1>1 DEF Look, DescriptorsOK, Opening
<1>3. /\ Goto(c, "create")
      /\ UNCHANGED <<m_datas, kernel, call, cancelled, timer, expired, timers, waiter>>
  BY <1>1, <1>2 DEF Look
<1>4. "create" \in Opening
  BY DEF Opening
<1>5. /\ CallersType' /\ TimersType' /\ WaiterType'
      /\ CallsOK' /\ Registered' /\ TimersOK'
      /\ pc'[c] = "create" /\ \A d \in Caller \ {c} : pc'[d] = pc[d] /\ call'[d] = call[d]
  BY <1>1, <1>3, <1>4, HandsOn
<1>6. FdManagerTypeOK' /\ KernelType' /\ Sized' /\ \A g \in Fd : Found(g)' <=> Found(g)
  BY <1>3 DEF FdManagerTypeOK, KernelType, kernel, Sized, Found
<1>7. UNCHANGED open /\ open \subseteq Fd
  BY <1>3 DEF kernel, KernelType
<1>8. DescriptorsOK'
  BY <1>1, <1>2, <1>3, <1>5, <1>6, <1>7, Handles
<1> QED
  BY <1>5, <1>6, <1>8, Assemble

LEMMA CreateStep ==
    ASSUME Inv, NEW c \in Caller, Create(c)
    PROVE  Inv'
<1> USE Parts
<1>1. PICK fd \in Fd : fd = call[c].fd /\ fd \in open /\ Handled(c)
  BY InHands DEF Create, Handled, Opening
<1>2. create(fd) /\ Return(c, timers) /\ UNCHANGED <<open, forgotten, waiter>>
  BY <1>1 DEF Create, kernel
<1>3. /\ CallersType' /\ TimersType' /\ WaiterType'
      /\ CallsOK' /\ Registered' /\ TimersOK'
      /\ pc'[c] = "idle" /\ ~Handled(c)'
      /\ \A d \in Caller \ {c} : pc'[d] = pc[d] /\ call'[d] = call[d]
  BY <1>1, <1>2, HandsOff
<1>4. FdManagerTypeOK' /\ Sized' /\ \A g \in Fd : Found(g)' <=> g = fd \/ Found(g)
  BY <1>2, CreateIs
<1>5. KernelType' /\ open \subseteq Fd
  BY <1>2 DEF KernelType
<1>6. pc'[c] \notin Opening \cup {"close"}
  BY <1>3 DEF Opening
<1>7. DescriptorsOK'
  BY <1>1, <1>2, <1>3, <1>4, <1>5, <1>6, Handles
<1> QED
  BY <1>3, <1>4, <1>5, <1>7, Assemble

LEMMA CloseDelStep ==
    ASSUME Inv, NEW c \in Caller, CloseDel(c)
    PROVE  Inv'
<1> USE Parts
<1>1. PICK fd \in Fd : fd = call[c].fd /\ fd \in open /\ Handled(c)
  BY InHands DEF CloseDel, Handled, Closing
<1>2. /\ del(fd) /\ Goto(c, "close")
      /\ UNCHANGED <<call, cancelled, timer, expired, timers, waiter>>
      /\ UNCHANGED <<open, forgotten>>
  BY <1>1 DEF CloseDel, kernel
<1>3. "close" \in Closing
  BY DEF Closing
<1>4. /\ CallersType' /\ TimersType' /\ WaiterType'
      /\ CallsOK' /\ Registered' /\ TimersOK'
      /\ pc'[c] = "close" /\ \A d \in Caller \ {c} : pc'[d] = pc[d] /\ call'[d] = call[d]
  BY <1>1, <1>2, <1>3, HandsOn
<1>5. FdManagerTypeOK' /\ Sized' /\ \A g \in Fd : Found(g)' <=> g # fd /\ Found(g)
  BY <1>2, DelIs
<1>6. KernelType' /\ open \subseteq Fd
  BY <1>2 DEF KernelType
<1>7. DescriptorsOK'
  BY <1>1, <1>2, <1>4, <1>5, <1>6, Handles
<1> QED
  BY <1>4, <1>5, <1>6, <1>7, Assemble

LEMMA CloseFdStep ==
    ASSUME Inv, NEW c \in Caller, CloseFd(c)
    PROVE  Inv'
<1> USE Parts
<1>1. PICK fd \in Fd : fd = call[c].fd /\ fd \in open /\ Handled(c)
  BY InHands DEF CloseFd, Handled, Closing
<1>2. /\ pc[c] = "close" /\ Return(c, timers) /\ UNCHANGED <<m_datas, waiter>>
      /\ open' = open \ {fd} /\ forgotten' \in {forgotten, forgotten \cup {fd}}
  BY <1>1 DEF CloseFd
<1>3. /\ CallersType' /\ TimersType' /\ WaiterType'
      /\ CallsOK' /\ Registered' /\ TimersOK'
      /\ pc'[c] = "idle" /\ ~Handled(c)'
      /\ \A d \in Caller \ {c} : pc'[d] = pc[d] /\ call'[d] = call[d]
  BY <1>1, <1>2, HandsOff
<1>4. FdManagerTypeOK' /\ Sized' /\ \A g \in Fd : Found(g)' <=> Found(g)
  BY <1>2 DEF FdManagerTypeOK, Sized, Found
<1>5. KernelType' /\ open' \subseteq Fd
  BY <1>2 DEF KernelType
<1>6. ~Found(fd) /\ ~Found(fd)'
  BY <1>1, <1>2, <1>4 DEF DescriptorsOK
<1>7. pc'[c] \notin Opening \cup {"close"}
  BY <1>3 DEF Opening
<1>8. DescriptorsOK'
  BY <1>1, <1>2, <1>3, <1>4, <1>5, <1>6, <1>7, Handles
<1> QED
  BY <1>3, <1>4, <1>5, <1>8, Assemble

LEMMA CloseCancelStep ==
    ASSUME Inv, NEW c \in Caller, CloseCancel(c)
    PROVE  Inv'
<1> USE Parts
<1>1. /\ pc[c] = "cancel"
      /\ UNCHANGED <<m_datas, kernel, call, cancelled, timer, expired, timers>>
  BY DEF CloseCancel
<1>2. PICK fd \in Fd : fd = call[c].fd
  BY <1>1, InHands DEF Handled, Closing
<1>3. PICK S \in SUBSET Caller : S = Hit(fd, Event)
  BY HitIs
<1>4. Unregister(fd, S) /\ pc' = [Woken(S) EXCEPT ![c] = "del"]
  BY <1>2, <1>3 DEF CloseCancel
<1>5. \A d \in S : pc[d] = "waiting"
  BY <1>3, HitIs DEF Registered
<1>6. /\ pc' \in [Caller -> Steps] /\ pc'[c] = "del" /\ c \notin S
      /\ \A d \in Caller \ {c} : pc'[d] = IF d \in S THEN "woken" ELSE pc[d]
  BY <1>1, <1>4, <1>5, WokenIs DEF Steps
<1>7. /\ WaiterType' /\ CallsOK' /\ Registered'
      /\ \A d \in Caller : pc[d] \in Timing => pc'[d] \in Timing
      /\ \A d \in Caller : Sleeping(d)' <=> Sleeping(d)
  <2>1. \A d \in Caller : \/ pc'[d] = IF d \in S THEN "woken" ELSE pc[d]
                          \/ d \notin S /\ pc[d] = "cancel" /\ pc'[d] = "del"
    BY <1>1, <1>6
  <2>2. UNCHANGED call /\ pc' \in [Caller -> Steps]
    BY <1>1, <1>6
  <2> QED
    BY <1>3, <1>4, <2>1, <2>2, FireSteps
<1>8. TimersOK'
  BY <1>1, <1>7, TimersStay
<1>9. FdManagerTypeOK' /\ KernelType' /\ DescriptorsOK'
  <2>1. \A d \in Caller : \/ pc'[d] = pc[d] /\ call'[d] = call[d]
                          \/ ~Handled(d) /\ ~Handled(d)'
                          \/ pc[d] = "cancel" /\ pc'[d] = "del" /\ call'[d] = call[d]
    BY <1>1, <1>5, <1>6 DEF Handled, Opening, Closing
  <2> QED
    BY <1>1, <2>1, Quietly
<1>10. CallersType' /\ TimersType'
  BY <1>1, <1>6 DEF CallersType, TimersType
<1> QED
  BY <1>7, <1>8, <1>9, <1>10, Assemble

(* close() begins: nobody else has the descriptor in hands.                *)
LEMMA CloseStep ==
    ASSUME Inv, NEW c \in Caller, NEW fd \in Fd, Close(c, fd)
    PROVE  Inv'
<1> USE Parts
<1>1. /\ Found(fd) /\ fd \in open /\ Enter(c, "cancel", "close", fd, None, FALSE)
      /\ \A d \in Caller : ~(pc[d] \in Closing /\ call[d].fd = fd)
      /\ UNCHANGED <<m_datas, kernel, timers, waiter>>
  BY DEF Close, Closing
<1>2. /\ CallersType' /\ TimersType' /\ WaiterType'
      /\ CallsOK' /\ Registered' /\ TimersOK'
      /\ pc[c] = "idle" /\ pc'[c] = "cancel" /\ call'[c].fd = fd
      /\ \A d \in Caller \ {c} : pc'[d] = pc[d] /\ call'[d] = call[d]
  BY <1>1, EnterSteps
<1>3. /\ FdManagerTypeOK' /\ Sized' /\ UNCHANGED open
      /\ \A g \in Fd : Found(g)' <=> Found(g)
  BY <1>1 DEF FdManagerTypeOK, Sized, Found, kernel
<1>4. KernelType'
  BY <1>1 DEF KernelType, kernel
<1>5. \A d \in Caller \ {c} : Handled(d)' <=> Handled(d)
  BY <1>2 DEF Handled
<1>6. ASSUME NEW d \in Caller \ {c}, Handled(d)
      PROVE  call[d].fd \in open \ {fd}
  <2>1. call[d].fd \in open
    BY <1>6, InHands
  <2>2. CASE pc[d] \in Opening
    <3>1. ~Found(call[d].fd)
      BY <2>2 DEF DescriptorsOK
    <3> QED
      BY <1>1, <2>1, <3>1
  <2>3. CASE pc[d] \in Closing
    BY <1>1, <2>1, <2>3
  <2> QED
    BY <1>6, <2>2, <2>3 DEF Handled
<1>7. ~Handled(c) /\ pc'[c] \notin Opening \cup {"close"}
  BY <1>2 DEF Handled, Opening, Closing
<1>8. ASSUME NEW d \in Caller, pc'[d] \in Opening \cup {"close"}
      PROVE  ~Found(call[d].fd)'
  <2>1. d # c
    BY <1>7, <1>8
  <2>2. Handled(d) /\ call'[d] = call[d] /\ ~Found(call[d].fd)
    BY <1>2, <1>8, <2>1 DEF Handled, Closing, DescriptorsOK
  <2>3. PICK g \in Fd : g = call[d].fd /\ g = call'[d].fd
    BY <2>2, InHands
  <2>4. ~Found(g)
    BY <2>2, <2>3
  <2>5. ~Found(g)'
    BY <1>3, <2>4
  <2> QED
    BY <2>3, <2>5 DEF Found
<1>9. Tracked'
  <2> SUFFICES ASSUME NEW g \in open, g \in Fd, ~Found(g)'
               PROVE  \E d \in Caller : call'[d].fd = g
                                        /\ pc'[d] \in {"look", "create", "close"}
    BY <1>3 DEF Tracked, KernelType
  <2>1. ~Found(g)
    BY <1>3
  <2>2. PICK d \in Caller : call[d].fd = g /\ pc[d] \in {"look", "create", "close"}
    BY <2>1 DEF DescriptorsOK, Tracked
  <2> QED
    BY <1>2, <2>2
<1>10. \A g \in Fd \ open' : ~Found(g)'
  BY <1>3 DEF DescriptorsOK
<1>11. \A d \in Caller : Handled(d)' => call'[d].fd \in open'
  BY <1>1, <1>2, <1>3, <1>5, <1>6
<1>12. \A d, e \in Caller : d # e /\ Handled(d)' /\ Handled(e)' => call'[d].fd # call'[e].fd
  <2> SUFFICES ASSUME NEW d \in Caller, NEW e \in Caller, d # e, Handled(d)', Handled(e)'
               PROVE  call'[d].fd # call'[e].fd
    OBVIOUS
  <2>1. CASE d = c
    BY <1>2, <1>5, <1>6, <2>1
  <2>2. CASE e = c
    BY <1>2, <1>5, <1>6, <2>2
  <2>3. CASE d # c /\ e # c
    BY <1>2, <1>5, <2>3 DEF DescriptorsOK
  <2> QED
    BY <2>1, <2>2, <2>3
<1>13. DescriptorsOK'
  BY <1>3, <1>8, <1>9, <1>10, <1>11, <1>12 DEF DescriptorsOK
<1> QED
  BY <1>2, <1>3, <1>4, <1>13, Assemble

(* The user's wishes.                                                      *)
LEMMA SetStep ==
    ASSUME Inv, NEW fd \in Fd, Found(fd), NEW v \in BOOLEAN, NEW e \in Event,
           setUserNonblock(fd, v) \/ setTimeout(fd, e, v),
           UNCHANGED <<kernel, callers, timers, waiter>>
    PROVE  Inv'
<1> USE Parts
<1>1. FdManagerTypeOK' /\ Sized' /\ \A g \in Fd : Found(g)' <=> Found(g)
  BY SettersAre
<1>2. UNCHANGED <<open, forgotten, pc, call, cancelled, timer, expired>>
  BY DEF kernel, callers
<1>3. KernelType' /\ CallersType' /\ TimersType' /\ WaiterType'
  BY <1>2 DEF KernelType, CallersType, TimersType, WaiterType
<1>4. CallsOK'
  BY <1>2 DEF CallsOK, CallOK, IoCall, SleepCall
<1>5. Registered'
  BY <1>2, RegisteredStays
<1>6. TimersOK'
  BY <1>2, TimersStay DEF Sleeping
<1>7. DescriptorsOK'
  BY <1>1, <1>2, DescriptorsStay DEF KernelType
<1> QED
  BY <1>1, <1>3, <1>4, <1>5, <1>6, <1>7, Assemble

LEMMA SettersStep ==
    ASSUME Inv, NEW c \in Caller, NEW fd \in Fd,
           \/ \E v \in BOOLEAN : SetNonblock(c, fd, v)
           \/ \E e \in Event : SetTimeout(c, fd, e)
    PROVE  Inv'
<1>1. READ \in Event
  BY HooksAssumption DEF HooksAssumption
<1>2. Found(fd) /\ UNCHANGED <<kernel, callers, timers, waiter>>
  BY DEF SetNonblock, SetTimeout
<1>3. PICK v \in BOOLEAN, e \in Event : setUserNonblock(fd, v) \/ setTimeout(fd, e, v)
  BY <1>1 DEF SetNonblock, SetTimeout
<1> QED
  BY <1>2, <1>3, SetStep

-----------------------------------------------------------------------------
(* The invariant.                                                          *)
LEMMA InitOK == Init => Inv
<1> SUFFICES ASSUME Init PROVE Inv
  OBVIOUS
<1> USE HooksAssumption DEF HooksAssumption
<1>1. /\ m_datas = [i \in 0 .. InitSize - 1 |-> NoCtx] /\ open = {} /\ forgotten = {}
      /\ pc = [c \in Caller |-> "idle"] /\ call = [c \in Caller |-> NoCall]
      /\ cancelled = [c \in Caller |-> FALSE] /\ expired = [c \in Caller |-> FALSE]
      /\ timer = [c \in Caller |-> None] /\ timers = [k \in Timer |-> Free]
      /\ waiter = [fd \in Fd |-> [e \in Event |-> None]]
  BY DEF Init, FdManagerInit
<1>2. FdManagerTypeOK /\ \A fd \in Fd : ~Found(fd)
  <2>1. InitSize - 1 \in DOMAIN m_datas /\ DOMAIN m_datas = 0 .. InitSize - 1
    BY <1>1
  <2> QED
    BY <1>1, <2>1 DEF FdManagerTypeOK, Found
<1>3. KernelType /\ CallersType /\ TimersType /\ WaiterType
  BY <1>1, NoCallType, FreeType
     DEF KernelType, CallersType, TimersType, WaiterType, Steps
<1>4. CallsOK
  BY <1>1, NoCallType DEF CallsOK, CallOK, Opening, Closing
<1>5. Registered
  BY <1>1 DEF Registered
<1>6. \A c \in Caller : ~Sleeping(c)
  BY <1>1 DEF Sleeping
<1>7. TimersOK
  <2>1. \A k \in Timer : timers[k] = Free /\ timers[k].state = "free"
    BY <1>1, FreeType
  <2> QED
    BY <1>1, <1>6, <2>1 DEF TimersOK, TimerOK
<1>8. DescriptorsOK
  BY <1>1, <1>2 DEF DescriptorsOK, Sized, Tracked, Handled, Opening, Closing
<1>9. TypeOK
  BY <1>2, <1>3, Types
<1> QED
  BY <1>4, <1>5, <1>7, <1>8, <1>9 DEF Inv

LEMMA UnchangedOK == Inv /\ UNCHANGED vars => Inv'
<1> SUFFICES ASSUME Inv, UNCHANGED vars PROVE Inv'
  OBVIOUS
<1> USE Parts
<1>1. UNCHANGED <<m_datas, open, forgotten, pc, call, cancelled, timer, expired, timers, waiter>>
  BY DEF vars, kernel, callers
<1>2. KernelType' /\ CallersType' /\ TimersType' /\ WaiterType'
  BY <1>1 DEF KernelType, CallersType, TimersType, WaiterType
<1>3. CallsOK'
  BY <1>1 DEF CallsOK, CallOK, IoCall, SleepCall
<1>4. Registered'
  BY <1>1, RegisteredStays
<1>5. TimersOK'
  BY <1>1, TimersStay DEF Sleeping
<1>6. FdManagerTypeOK' /\ DescriptorsOK'
  BY <1>1, Quietly DEF kernel
<1> QED
  BY <1>2, <1>3, <1>4, <1>5, <1>6, Assemble

LEMMA IoOK == ASSUME Inv, NEW c \in Caller, Io(c) PROVE Inv'
<1>1. CASE TryDone(c) \/ TimedOut(c) \/ SleepEnd(c)
  BY <1>1, ReturnStep DEF TryDone, TimedOut, SleepEnd
<1>2. CASE \E fd \in Fd, op \in {"io", "accept", "connect"}, ev \in Event : Begin(c, op, fd, ev)
  BY <1>2, BeginStep
<1>3. CASE TryAccept(c)
  BY <1>3, TryAcceptStep
<1>4. CASE TryAgain(c) \/ Arm(c) \/ Add(c) \/ AddFails(c)
  BY <1>4, TryAgainStep, ArmStep, AddStep, AddFailsStep
<1>5. CASE Resume(c) \/ Retry(c) \/ Sleep(c)
  BY <1>5, ResumeStep, RetryStep, SleepStep
<1> QED
  BY <1>1, <1>2, <1>3, <1>4, <1>5 DEF Io

LEMMA ManageOK == ASSUME Inv, NEW c \in Caller, Manage(c) PROVE Inv'
<1>1. CASE Socket(c) \/ Look(c) \/ Create(c)
  BY <1>1, SocketStep, LookStep, CreateStep
<1>2. CASE CloseCancel(c) \/ CloseDel(c) \/ CloseFd(c)
  BY <1>2, CloseCancelStep, CloseDelStep, CloseFdStep
<1>3. CASE \E fd \in Fd : Close(c, fd)
  BY <1>3, CloseStep
<1>4. CASE \E fd \in Fd : \/ \E v \in BOOLEAN : SetNonblock(c, fd, v)
                          \/ \E e \in Event : SetTimeout(c, fd, e)
  BY <1>4, SettersStep
<1> QED
  BY <1>1, <1>2, <1>3, <1>4 DEF Manage

LEMMA CallbackOK ==
    ASSUME Inv, NEW k \in Timer,
           Expire(k) \/ Lock(k) \/ Flag(k) \/ cancelEvent(k) \/ WakeSleeper(k)
    PROVE  Inv'
  BY ExpireStep, LockStep, FlagStep, CancelEventStep, WakeSleeperStep

LEMMA NextOK == Inv /\ [Next]_vars => Inv'
<1> SUFFICES ASSUME Inv, [Next]_vars PROVE Inv'
  OBVIOUS
<1>1. CASE UNCHANGED vars
  BY <1>1, UnchangedOK
<1>2. CASE \E c \in Caller : Io(c) \/ Manage(c)
  BY <1>2, IoOK, ManageOK
<1>3. CASE \E k \in Timer :
            Expire(k) \/ Lock(k) \/ Flag(k) \/ cancelEvent(k) \/ WakeSleeper(k)
  BY <1>3, CallbackOK
<1>4. CASE \E fd \in Fd, ev \in Event : EventReady(fd, ev)
  BY <1>4, EventReadyStep
<1> QED
  BY <1>1, <1>2, <1>3, <1>4 DEF Next

(* The invariant holds at all times, for any number of fibers, timers and  *)
(* descriptors.                                                            *)
THEOREM Invariant == Spec => []Inv
<1> QED
  BY InitOK, NextOK, PTL DEF Spec

-----------------------------------------------------------------------------
(* Every variable has its type at all times: the vector m_datas has no     *)
(* holes, and its entries are contexts or none (fd_manager.cc).            *)
THEOREM TypeCorrect == Spec => []TypeOK
<1>1. Inv => TypeOK
  BY DEF Inv
<1> QED
  BY <1>1, Invariant, PTL

(* get() never loses the context of a descriptor, though it takes the      *)
(* write lock only after it has let the read lock go and the vector grows  *)
(* for another descriptor meanwhile.                                       *)
THEOREM ContextsTracked == Spec => []Tracked
<1>1. Inv => Tracked
  BY DEF Inv, DescriptorsOK
<1> QED
  BY <1>1, Invariant, PTL

(* socket() and accept() never find the context of an earlier use of the   *)
(* number: close() has removed it before the kernel closes.                *)
THEOREM ContextsFresh == Spec => []Fresh
<1>1. Inv => Fresh
  BY DEF Inv, DescriptorsOK, Fresh, Opening
<1> QED
  BY <1>1, Invariant, PTL

(* do_io() returns ETIMEDOUT only when a timer of that very call came due; *)
(* callbacks that are left over from earlier calls do not reach it.        *)
THEOREM TimeoutsOwned == Spec => []TimeoutOwn
<1>1. Inv => TimeoutOwn
  BY DEF Inv, TimersOK, TimeoutOwn
<1> QED
  BY <1>1, Invariant, PTL

(* However a hooked call ends, it leaves no timer armed and no event       *)
(* registered for its fiber.                                               *)
THEOREM CleanReturn == Spec => []NothingLeft
<1>1. Inv => NothingLeft
  <2> SUFFICES ASSUME Inv, NEW c \in Caller, pc[c] = "idle"
               PROVE  /\ \A k \in Timer : ~(timers[k].owner = c /\ timers[k].state = "armed")
                      /\ \A fd \in Fd, ev \in Event : waiter[fd][ev] # c
    BY DEF NothingLeft
  <2>1. \A k \in Timer : ~(timers[k].owner = c /\ timers[k].state = "armed")
    BY NoneArmed DEF Timing
  <2>2. \A fd \in Fd, ev \in Event : waiter[fd][ev] # c
    BY DEF Inv, Registered
  <2> QED
    BY <2>1, <2>2
<1> QED
  BY <1>1, Invariant, PTL

(* A fiber is registered exactly while it is suspended for that event, and *)
(* a sleeper has its timer: nobody wakes a fiber twice.                    *)
THEOREM WokenByOne == Spec => []WokenOnce
<1>1. Inv => WokenOnce
  <2> SUFFICES ASSUME Inv, NEW c \in Caller, pc[c] = "waiting", call[c].op = "sleep"
               PROVE  \E k \in Timer : timers[k].owner = c /\ timers[k].fd = None
    BY DEF WokenOnce, Inv, Registered
  <2> QED
    BY DEF Inv, TimersOK, Sleeping
<1> QED
  BY <1>1, Invariant, PTL
=====
