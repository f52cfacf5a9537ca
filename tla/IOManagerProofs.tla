--------------------------- MODULE IOManagerProofs ---------------------------
(***************************************************************************)
(* Proofs about IOManager, for every number of threads and jobs: the       *)
(* counters that stopping() and tickle() read are exact, a job is in one   *)
(* place, and the composition of run(), idle() and stopping() implements   *)
(* the abstract pool.                                                      *)
(*                                                                         *)
(* The invariant: HandsOK says what the place of a thread tells about the  *)
(* job in its hands, FreeOK what the state of a job tells that no thread   *)
(* holds, Apart that no two places share a job, StopOK that threads begin  *)
(* to leave after stop() only.                                             *)
(***************************************************************************)
EXTENDS IOManager, FiniteSetTheorems, TLAPS

Holding == {"dispatch", "exec", "hold", "back", "after"}

Hand(t) ==
    /\ job[t] # None <=> pc[t] \in Holding
    /\ cbs[t] # {} => pc[t] = "deliver"
    /\ pc[t] = "dispatch" => ~Waits(job[t]) /\ m_state[job[t]] \in {"INIT", "HOLD", "READY"}
    /\ pc[t] = "exec" => ~Waits(job[t]) /\ m_state[job[t]] = "EXEC"
    /\ pc[t] = "hold" => Waits(job[t]) /\ m_state[job[t]] = "EXEC"
    /\ pc[t] \in {"back", "after"} =>
        m_state[job[t]] \in IF Waits(job[t]) THEN {"EXEC"} ELSE {"READY", "TERM"}

HandsOK == \A t \in Thread : Hand(t)

FreeOK ==
    \A j \in Job : (\A t \in Thread : job[t] # j) =>
        m_state[j] \in IF Waits(j) THEN {"INIT", "HOLD", "READY"} ELSE {"NONE", "TERM"}

Apart ==
    /\ m_fibers \cap (m_timers \cup m_events) = {}
    /\ m_timers \cap m_events = {}
    /\ \A t \in Thread : cbs[t] \cap (m_fibers \cup m_timers \cup m_events) = {}
    /\ \A t, u \in Thread : t # u =>
        /\ cbs[t] \cap cbs[u] = {}
        /\ job[t] = job[u] => job[t] = None

StopOK ==
    /\ main = "running" => ~m_stopping
    /\ \A t \in Thread : pc[t] \in {"leave", "exit"} \/ idleTerm[t] => m_stopping

JobsOK == HandsOK /\ FreeOK /\ Apart

Inv == TypeOK /\ CountsExact /\ JobsOK /\ StopOK

-----------------------------------------------------------------------------
(* The counters.                                                           *)
ActivePlaces == {"dispatch", "exec", "hold", "back"}
IdlePlaces   == {"ask", "pending", "empty", "leave", "sleep", "collect", "deliver", "events"}
In(S, x)     == IF x \in S THEN 1 ELSE 0

LEMMA OneStep ==
    ASSUME NEW S, IsFiniteSet(S), NEW U, NEW x, NEW in \in BOOLEAN,
           U = IF in THEN S \cup {x} ELSE S \ {x}
    PROVE  Cardinality(U) = Cardinality(S) + (IF in THEN 1 ELSE 0) - (IF x \in S THEN 1 ELSE 0)
<1>1. Cardinality(S) \in Nat
  BY FS_CardinalityType
<1>2. CASE in
  BY <1>1, <1>2, FS_AddElement
<1>3. CASE ~in
  BY <1>1, <1>3, FS_RemoveElement
<1> QED
  BY <1>2, <1>3

ActiveSet == {t \in Thread : Active(t)}
IdleSet   == {t \in Thread : Idling(t)}
LateSet   == {t \in Thread : uncounted[t]}

LEMMA Finite ==
    ASSUME TypeOK
    PROVE  /\ IsFiniteSet(ActiveSet) /\ IsFiniteSet(IdleSet) /\ IsFiniteSet(LateSet)
           /\ IsFiniteSet(m_events)
<1>1. IsFiniteSet(Thread) /\ IsFiniteSet(Job)
  BY IOManagerAssumption DEF IOManagerAssumption
<1>2. ActiveSet \subseteq Thread /\ IdleSet \subseteq Thread /\ LateSet \subseteq Thread
  BY DEF ActiveSet, IdleSet, LateSet
<1>3. m_events \subseteq Job
  BY DEF TypeOK
<1> QED
  BY <1>1, <1>2, <1>3, FS_Subset

(* A thread that moves changes the counts by what it leaves and enters.    *)
LEMMA CountMove ==
    ASSUME TypeOK, NEW t \in Thread, NEW label \in Places, Goto(t, label)
    PROVE  /\ Cardinality(ActiveSet') = Cardinality(ActiveSet)
                + In(ActivePlaces, label) - In(ActivePlaces, pc[t])
           /\ Cardinality(IdleSet') = Cardinality(IdleSet)
                + In(IdlePlaces, label) - In(IdlePlaces, pc[t])
<1>1. pc' = [pc EXCEPT ![t] = label] /\ pc \in [Thread -> Places]
  BY DEF Goto, TypeOK
<1>2. ActiveSet' = IF label \in ActivePlaces THEN ActiveSet \cup {t} ELSE ActiveSet \ {t}
  BY <1>1 DEF ActiveSet, Active, ActivePlaces
<1>3. IdleSet' = IF label \in IdlePlaces THEN IdleSet \cup {t} ELSE IdleSet \ {t}
  BY <1>1 DEF IdleSet, Idling, IdlePlaces
<1>4. (t \in ActiveSet <=> pc[t] \in ActivePlaces) /\ (t \in IdleSet <=> pc[t] \in IdlePlaces)
  BY DEF ActiveSet, Active, ActivePlaces, IdleSet, Idling, IdlePlaces
<1>5. Cardinality(ActiveSet') = Cardinality(ActiveSet)
        + (IF label \in ActivePlaces THEN 1 ELSE 0) - (IF t \in ActiveSet THEN 1 ELSE 0)
  BY <1>2, Finite, OneStep
<1>6. Cardinality(IdleSet') = Cardinality(IdleSet)
        + (IF label \in IdlePlaces THEN 1 ELSE 0) - (IF t \in IdleSet THEN 1 ELSE 0)
  BY <1>3, Finite, OneStep
<1> QED
  BY <1>4, <1>5, <1>6 DEF In

LEMMA CountStay ==
    ASSUME UNCHANGED pc
    PROVE  ActiveSet' = ActiveSet /\ IdleSet' = IdleSet
  BY DEF ActiveSet, Active, IdleSet, Idling

LEMMA LateStay ==
    ASSUME UNCHANGED uncounted
    PROVE  LateSet' = LateSet
  BY DEF LateSet

(* What an action must do to the counters.                                 *)
LEMMA CountsKept ==
    ASSUME TypeOK, CountsExact, NEW t \in Thread, NEW label \in Places,
           Goto(t, label) \/ (label = pc[t] /\ UNCHANGED pc),
           m_activeThreadCount' = m_activeThreadCount
                + In(ActivePlaces, label) - In(ActivePlaces, pc[t]),
           m_idleThreadCount' = m_idleThreadCount
                + In(IdlePlaces, label) - In(IdlePlaces, pc[t]),
           m_pendingEventCount' = Cardinality(m_events') + Cardinality(LateSet')
    PROVE  /\ CountsExact'
           /\ m_activeThreadCount' \in Nat /\ m_idleThreadCount' \in Nat
<1>1. /\ m_activeThreadCount = Cardinality(ActiveSet)
      /\ m_idleThreadCount = Cardinality(IdleSet)
      /\ m_activeThreadCount \in Nat /\ m_idleThreadCount \in Nat
  BY DEF CountsExact, ActiveSet, IdleSet, TypeOK
<1>2. /\ Cardinality(ActiveSet') = m_activeThreadCount'
      /\ Cardinality(IdleSet') = m_idleThreadCount'
  <2>1. CASE Goto(t, label)
    BY <1>1, <2>1, CountMove
  <2>2. CASE label = pc[t] /\ UNCHANGED pc
    <3>1. m_activeThreadCount' = m_activeThreadCount /\ m_idleThreadCount' = m_idleThreadCount
      BY <1>1, <2>2 DEF In
    <3> QED
      BY <1>1, <2>2, <3>1, CountStay
  <2> QED
    BY <2>1, <2>2
<1>3. CountsExact'
  BY <1>2 DEF CountsExact, ActiveSet, IdleSet, LateSet
<1>4. IsFiniteSet(ActiveSet') /\ IsFiniteSet(IdleSet')
  <2>1. ActiveSet' \subseteq Thread /\ IdleSet' \subseteq Thread
    BY DEF ActiveSet, IdleSet
  <2> QED
    BY <2>1, IOManagerAssumption, FS_Subset DEF IOManagerAssumption
<1> QED
  BY <1>2, <1>3, <1>4, FS_CardinalityType

(* The pending count, when an event is added, triggered, counted, or left. *)
LEMMA PendingKept ==
    ASSUME TypeOK, CountsExact, UNCHANGED <<m_events, uncounted, m_pendingEventCount>>
    PROVE  m_pendingEventCount' = Cardinality(m_events') + Cardinality(LateSet')
  BY DEF CountsExact, LateSet

LEMMA PendingMore ==
    ASSUME TypeOK, CountsExact, NEW j \in Job, j \notin m_events, m_events' = m_events \cup {j},
           m_pendingEventCount' = m_pendingEventCount + 1, UNCHANGED uncounted
    PROVE  m_pendingEventCount' = Cardinality(m_events') + Cardinality(LateSet')
<1>1. Cardinality(m_events') = Cardinality(m_events) + 1
  BY Finite, FS_AddElement
<1>2. Cardinality(LateSet) \in Nat /\ Cardinality(m_events) \in Nat /\ LateSet' = LateSet
  BY Finite, FS_CardinalityType, LateStay
<1>3. m_pendingEventCount = Cardinality(m_events) + Cardinality(LateSet)
  BY DEF CountsExact, LateSet
<1> QED
  BY <1>1, <1>2, <1>3

LEMMA PendingTriggered ==
    ASSUME TypeOK, CountsExact, NEW t \in Thread, NEW j, j \in m_events,
           ~uncounted[t], m_events' = m_events \ {j},
           uncounted' = [uncounted EXCEPT ![t] = TRUE], UNCHANGED m_pendingEventCount
    PROVE  m_pendingEventCount' = Cardinality(m_events') + Cardinality(LateSet')
<1>1. Cardinality(m_events') = Cardinality(m_events) - 1
  BY Finite, FS_RemoveElement
<1>2. LateSet' = LateSet \cup {t} /\ t \notin LateSet
  BY DEF LateSet, TypeOK
<1>3. Cardinality(LateSet') = Cardinality(LateSet) + 1
  BY <1>2, Finite, FS_AddElement
<1>4. m_pendingEventCount = Cardinality(m_events) + Cardinality(LateSet)
  BY DEF CountsExact, LateSet
<1>5. Cardinality(LateSet) \in Nat /\ Cardinality(m_events) \in Nat
  BY Finite, FS_CardinalityType
<1> QED
  BY <1>1, <1>3, <1>4, <1>5

LEMMA PendingCounted ==
    ASSUME TypeOK, CountsExact, NEW t \in Thread, uncounted[t],
           uncounted' = [uncounted EXCEPT ![t] = FALSE], UNCHANGED m_events,
           m_pendingEventCount' = m_pendingEventCount - 1
    PROVE  /\ m_pendingEventCount' = Cardinality(m_events') + Cardinality(LateSet')
           /\ m_pendingEventCount' \in Nat
<1>1. LateSet' = LateSet \ {t} /\ t \in LateSet
  BY DEF LateSet, TypeOK
<1>2. Cardinality(LateSet') = Cardinality(LateSet) - 1 /\ IsFiniteSet(LateSet')
  BY <1>1, Finite, FS_RemoveElement
<1>3. m_pendingEventCount = Cardinality(m_events) + Cardinality(LateSet)
  BY DEF CountsExact, LateSet
<1>4. /\ Cardinality(LateSet) \in Nat /\ Cardinality(m_events) \in Nat
      /\ Cardinality(LateSet') \in Nat
  BY <1>2, Finite, FS_CardinalityType
<1> QED
  BY <1>2, <1>3, <1>4

-----------------------------------------------------------------------------
(* The places of the jobs: steps that move no job, ...                     *)
LEMMA Stay ==
    ASSUME JobsOK, UNCHANGED <<m_fibers, m_state, m_timers, m_events, job, cbs, pc>>
    PROVE  JobsOK'
  BY DEF JobsOK, HandsOK, Hand, FreeOK, Apart, Waits

LEMMA Quiet ==
    ASSUME TypeOK, JobsOK, NEW t \in Thread, NEW label, Goto(t, label),
           UNCHANGED <<m_fibers, m_state, m_timers, m_events, job, cbs>>,
           \/ pc[t] \notin Holding \cup {"deliver"} /\ label \notin Holding
           \/ pc[t] = "hold" /\ label = "back"
           \/ pc[t] = "back" /\ label = "after"
    PROVE  JobsOK'
<1>1. pc' = [pc EXCEPT ![t] = label] /\ pc \in [Thread -> Places]
  BY DEF Goto, TypeOK
<1>2. FreeOK' /\ Apart'
  BY DEF JobsOK, FreeOK, Apart, Waits
<1>3. HandsOK'
  <2> SUFFICES ASSUME NEW u \in Thread
               PROVE  /\ job[u] # None <=> pc'[u] \in Holding
                      /\ cbs[u] # {} => pc'[u] = "deliver"
                      /\ pc'[u] = "dispatch" =>
                            ~Waits(job[u]) /\ m_state[job[u]] \in {"INIT", "HOLD", "READY"}
                      /\ pc'[u] = "exec" => ~Waits(job[u]) /\ m_state[job[u]] = "EXEC"
                      /\ pc'[u] = "hold" => Waits(job[u]) /\ m_state[job[u]] = "EXEC"
                      /\ pc'[u] \in {"back", "after"} =>
                            m_state[job[u]] \in IF Waits(job[u]) THEN {"EXEC"}
                                                ELSE {"READY", "TERM"}
    BY DEF HandsOK, Hand, Waits
  <2>1. CASE u # t
    BY <1>1, <2>1 DEF JobsOK, HandsOK, Hand
  <2>2. CASE u = t
    BY <1>1, <2>2 DEF JobsOK, HandsOK, Hand, Holding
  <2> QED
    BY <2>1, <2>2
<1> QED
  BY <1>2, <1>3 DEF JobsOK

(* ... that move some from one place where they wait to another, ...       *)
LEMMA WaitsSame ==
    ASSUME TypeOK, JobsOK, UNCHANGED <<m_state, job>>,
           \A j \in Job : Waits(j)' <=> Waits(j),
           \A t \in Thread : \/ pc'[t] = pc[t]
                             \/ pc[t] \notin Holding /\ pc'[t] \notin Holding,
           \A t \in Thread : cbs'[t] # {} => pc'[t] = "deliver",
           Apart'
    PROVE  JobsOK'
<1>1. FreeOK'
  BY DEF JobsOK, FreeOK
<1>2. HandsOK'
  <2> SUFFICES ASSUME NEW u \in Thread
               PROVE  /\ job[u] # None <=> pc'[u] \in Holding
                      /\ pc'[u] = "dispatch" =>
                            ~Waits(job[u])' /\ m_state[job[u]] \in {"INIT", "HOLD", "READY"}
                      /\ pc'[u] = "exec" => ~Waits(job[u])' /\ m_state[job[u]] = "EXEC"
                      /\ pc'[u] = "hold" => Waits(job[u])' /\ m_state[job[u]] = "EXEC"
                      /\ pc'[u] \in {"back", "after"} =>
                            m_state[job[u]] \in IF Waits(job[u])' THEN {"EXEC"}
                                                ELSE {"READY", "TERM"}
    BY DEF HandsOK, Hand
  <2>1. CASE pc'[u] = pc[u] /\ job[u] \in Job
    <3>1. Waits(job[u])' <=> Waits(job[u])
      BY <2>1
    <3> QED
      BY <2>1, <3>1 DEF JobsOK, HandsOK, Hand
  <2>2. CASE job[u] = None
    BY <2>2 DEF JobsOK, HandsOK, Hand, Holding
  <2>3. CASE pc[u] \notin Holding /\ pc'[u] \notin Holding
    BY <2>3 DEF JobsOK, HandsOK, Hand, Holding
  <2> QED
    BY <2>1, <2>2, <2>3 DEF TypeOK
<1> QED
  BY <1>1, <1>2 DEF JobsOK

LEMMA TriggerJobs ==
    ASSUME TypeOK, JobsOK, NEW j, j \in m_events, m_events' = m_events \ {j},
           m_fibers' = m_fibers \cup {j}, UNCHANGED <<m_state, m_timers, job, cbs, pc>>
    PROVE  JobsOK'
<1>1. Apart'
  BY DEF JobsOK, Apart
<1>2. \A i \in Job : Waits(i)' <=> Waits(i)
  BY DEF Waits
<1>3. \A t \in Thread : cbs'[t] # {} => pc'[t] = "deliver"
  BY DEF JobsOK, HandsOK, Hand
<1> QED
  BY <1>1, <1>2, <1>3, WaitsSame

LEMMA CollectJobs ==
    ASSUME TypeOK, JobsOK, NEW t \in Thread, Collect(t)
    PROVE  JobsOK'
<1>1. /\ pc[t] = "collect" /\ cbs[t] = {} /\ due \subseteq m_timers
      /\ pc' = [pc EXCEPT ![t] = IF due = {} THEN "events" ELSE "deliver"]
      /\ cbs' = [cbs EXCEPT ![t] = due] /\ m_timers' = m_timers \ due
      /\ m_fibers' = m_fibers /\ m_events' = m_events
      /\ m_state' = m_state /\ job' = job
  BY DEF JobsOK, HandsOK, Hand, TypeOK, Collect, At, Goto, queue
<1>2. cbs'[t] = due /\ \A u \in Thread : u # t => cbs'[u] = cbs[u]
  BY <1>1 DEF TypeOK
<1>3. Apart'
  BY <1>1, <1>2 DEF JobsOK, Apart
<1>4. \A i \in Job : Waits(i)' <=> Waits(i)
  BY <1>1, <1>2 DEF Waits
<1>5. \A u \in Thread : cbs'[u] # {} => pc'[u] = "deliver"
  BY <1>1, <1>2 DEF JobsOK, HandsOK, Hand, TypeOK
<1>6. \A u \in Thread : \/ pc'[u] = pc[u]
                        \/ pc[u] \notin Holding /\ pc'[u] \notin Holding
  BY <1>1 DEF TypeOK, Holding
<1> QED
  BY <1>1, <1>3, <1>4, <1>5, <1>6, WaitsSame

LEMMA DeliverJobs ==
    ASSUME TypeOK, JobsOK, NEW t \in Thread, Deliver(t)
    PROVE  JobsOK'
<1>1. /\ pc[t] = "deliver" /\ pc' = [pc EXCEPT ![t] = "events"]
      /\ cbs' = [cbs EXCEPT ![t] = {}] /\ m_fibers' = m_fibers \cup cbs[t]
      /\ m_timers' = m_timers /\ m_events' = m_events
      /\ m_state' = m_state /\ job' = job
  BY DEF Deliver, At, Goto, schedule, waits
<1>2. cbs'[t] = {} /\ \A u \in Thread : u # t => cbs'[u] = cbs[u]
  BY <1>1 DEF TypeOK
<1>3. Apart'
  BY <1>1, <1>2 DEF JobsOK, Apart
<1>4. \A i \in Job : Waits(i)' <=> Waits(i)
  BY <1>1, <1>2 DEF Waits
<1>5. \A u \in Thread : cbs'[u] # {} => pc'[u] = "deliver"
  BY <1>1, <1>2 DEF JobsOK, HandsOK, Hand, TypeOK
<1>6. \A u \in Thread : \/ pc'[u] = pc[u]
                        \/ pc[u] \notin Holding /\ pc'[u] \notin Holding
  BY <1>1 DEF TypeOK, Holding
<1> QED
  BY <1>1, <1>3, <1>4, <1>5, <1>6, WaitsSame

(* ... and that change one job, in the hands of one thread at most.        *)
LEMMA OneJob ==
    ASSUME TypeOK, JobsOK, NEW t \in Thread, NEW j \in Job,
           \A i \in Job \ {j} : (Waits(i)' <=> Waits(i)) /\ m_state'[i] = m_state[i],
           \A u \in Thread \ {t} :
                /\ pc'[u] = pc[u] /\ job'[u] = job[u] /\ cbs'[u] = cbs[u]
                /\ job[u] # j,
           job[t] \in {None, j}, job'[t] \in {None, j},
           Hand(t)', Apart',
           job'[t] # j => m_state'[j] \in IF Waits(j)' THEN {"INIT", "HOLD", "READY"}
                                          ELSE {"NONE", "TERM"}
    PROVE  JobsOK'
<1>1. FreeOK'
  <2> SUFFICES ASSUME NEW i \in Job, \A u \in Thread : job'[u] # i
               PROVE  m_state'[i] \in IF Waits(i)' THEN {"INIT", "HOLD", "READY"}
                                       ELSE {"NONE", "TERM"}
    BY DEF FreeOK
  <2>1. CASE i = j
    BY <2>1
  <2>2. CASE i # j
    <3>1. \A u \in Thread : job[u] # i
      BY <2>2, IOManagerAssumption DEF IOManagerAssumption
    <3> QED
      BY <2>2, <3>1 DEF JobsOK, FreeOK
  <2> QED
    BY <2>1, <2>2
<1>2. HandsOK'
  <2> SUFFICES ASSUME NEW u \in Thread, u # t
               PROVE  Hand(u)'
    BY DEF HandsOK
  <2>1. Hand(u) /\ job[u] \in Job \cup {None}
    BY DEF JobsOK, HandsOK, TypeOK
  <2>2. job'[u] = job[u] /\ pc'[u] = pc[u] /\ cbs'[u] = cbs[u]
    OBVIOUS
  <2>3. job[u] # None => m_state'[job[u]] = m_state[job[u]]
    BY <2>1
  <2>4. job[u] # None => (Waits(job[u])' <=> Waits(job[u]))
    BY <2>1, <2>2 DEF Waits
  <2> QED
    BY <2>1, <2>2, <2>3, <2>4 DEF Hand, Holding
<1> QED
  BY <1>1, <1>2 DEF JobsOK

(* A job that was not known before now waits.                              *)
LEMMA NewJob ==
    ASSUME TypeOK, JobsOK, NEW j \in Job, m_state[j] = "NONE",
           m_state' = [m_state EXCEPT ![j] = "INIT"],
           \A i \in Job \ {j} : Waits(i)' <=> Waits(i), Waits(j)', Apart',
           UNCHANGED <<job, cbs, pc>>
    PROVE  JobsOK'
<1>1. \A u \in Thread : job[u] # j
  BY IOManagerAssumption DEF JobsOK, HandsOK, Hand, Holding, IOManagerAssumption, TypeOK, Places
<1>2. FreeOK'
  BY DEF JobsOK, FreeOK, TypeOK
<1>3. HandsOK'
  <2> SUFFICES ASSUME NEW u \in Thread
               PROVE  Hand(u)'
    BY DEF HandsOK
  <2>1. Hand(u) /\ job[u] \in Job \cup {None}
    BY DEF JobsOK, HandsOK, TypeOK
  <2>2. job[u] # None => m_state'[job[u]] = m_state[job[u]]
    BY <1>1, <2>1 DEF TypeOK
  <2>3. job[u] # None => (Waits(job[u])' <=> Waits(job[u]))
    BY <1>1, <2>1 DEF Waits
  <2> QED
    BY <2>1, <2>2, <2>3 DEF Hand, Holding
<1> QED
  BY <1>2, <1>3 DEF JobsOK

LEMMA NewIsFree ==
    ASSUME TypeOK, JobsOK, NEW j \in Job, m_state[j] = "NONE"
    PROVE  ~Waits(j) /\ \A u \in Thread : job[u] # j
<1>1. \A u \in Thread : job[u] # j
  BY IOManagerAssumption DEF JobsOK, HandsOK, Hand, Holding, IOManagerAssumption, TypeOK, Places
<1> QED
  BY <1>1 DEF JobsOK, FreeOK

LEMMA TakeJobs ==
    ASSUME TypeOK, JobsOK, NEW t \in Thread, NEW j \in Job, Take(t, j)
    PROVE  JobsOK'
<1>1. /\ pc[t] = "take" /\ pc' = [pc EXCEPT ![t] = "dispatch"]
      /\ j \in m_fibers /\ m_state[j] # "EXEC" /\ m_fibers' = m_fibers \ {j}
      /\ job' = [job EXCEPT ![t] = j]
      /\ m_state' = m_state /\ m_timers' = m_timers /\ m_events' = m_events /\ cbs' = cbs
  BY DEF Take, At, Goto, Runnable, waits
<1>2. job[t] = None /\ cbs[t] = {}
  BY <1>1 DEF JobsOK, HandsOK, Hand, Holding
<1>3. \A u \in Thread : job[u] # j
  <2> SUFFICES ASSUME NEW u \in Thread, job[u] = j PROVE FALSE
    OBVIOUS
  <2>1. Waits(j) /\ j # None
    BY <1>1, IOManagerAssumption DEF Waits, IOManagerAssumption
  <2> QED
    BY <1>1, <2>1 DEF JobsOK, HandsOK, Hand, Holding
<1>4. m_state[j] \in {"INIT", "HOLD", "READY"}
  <2>1. Waits(j)
    BY <1>1 DEF Waits
  <2> QED
    BY <1>3, <2>1 DEF JobsOK, FreeOK
<1>5. ~Waits(j)'
  BY <1>1 DEF Waits, JobsOK, Apart
<1>6. Apart'
  BY <1>1, <1>3 DEF JobsOK, Apart, TypeOK
<1>7. \A i \in Job \ {j} : Waits(i)' <=> Waits(i)
  BY <1>1 DEF Waits
<1>8. job'[t] = j /\ pc'[t] = "dispatch" /\ cbs'[t] = {}
  BY <1>1, <1>2 DEF TypeOK
<1>9. ~Waits(job[t])'
  BY <1>5, <1>8 DEF Waits
<1>10. Hand(t)'
  BY <1>1, <1>4, <1>8, <1>9, IOManagerAssumption DEF Hand, Holding, IOManagerAssumption
<1>11. \A u \in Thread \ {t} : pc'[u] = pc[u] /\ job'[u] = job[u] /\ cbs'[u] = cbs[u]
  BY <1>1 DEF TypeOK
<1> QED
  BY <1>1, <1>2, <1>3, <1>6, <1>7, <1>8, <1>10, <1>11, OneJob

(* What a thread that has a job in its hands knows about it.               *)
LEMMA InHands ==
    ASSUME TypeOK, JobsOK, NEW t \in Thread, pc[t] \in Holding
    PROVE  /\ job[t] \in Job /\ job[t] # None /\ cbs[t] = {}
           /\ \A u \in Thread \ {t} : job[u] # job[t]
  BY DEF TypeOK, JobsOK, HandsOK, Hand, Holding, Apart

(* A step in which the job in a thread's hands changes its state only.     *)
LEMMA StateJobs ==
    ASSUME TypeOK, JobsOK, NEW t \in Thread, pc[t] \in Holding, NEW label, Goto(t, label),
           NEW state, m_state' = [m_state EXCEPT ![job[t]] = state],
           UNCHANGED <<m_fibers, m_timers, m_events, job, cbs>>,
           ~Waits(job[t]),
           \/ label = "exec" /\ state = "EXEC"
           \/ label = "back" /\ state \in {"READY", "TERM"}
    PROVE  JobsOK'
<1> DEFINE j == job[t]
<1>1. j \in Job /\ j # None /\ cbs[t] = {} /\ \A u \in Thread \ {t} : job[u] # j
  BY InHands
<1>2. \A i \in Job : Waits(i)' <=> Waits(i)
  BY DEF Waits
<1>3. pc'[t] = label /\ m_state'[j] = state
  BY <1>1 DEF Goto, TypeOK
<1>4. ~Waits(job[t])'
  BY DEF Waits
<1>5. Hand(t)'
  BY <1>1, <1>3, <1>4 DEF Hand, Holding
<1>6. \A u \in Thread \ {t} : pc'[u] = pc[u] /\ job'[u] = job[u] /\ cbs'[u] = cbs[u]
  BY DEF Goto, TypeOK
<1>7. Apart'
  BY DEF JobsOK, Apart
<1>8. \A i \in Job \ {j} : m_state'[i] = m_state[i]
  BY DEF TypeOK
<1>9. job'[t] = j
  OBVIOUS
<1> HIDE DEF j
<1>10. job[t] = j
  BY DEF j
<1> QED
  BY <1>1, <1>2, <1>5, <1>6, <1>7, <1>8, <1>9, <1>10, OneJob

LEMMA AfterJobs ==
    ASSUME TypeOK, JobsOK, NEW t \in Thread, After(t)
    PROVE  JobsOK'
<1>0. pc[t] = "after"
  BY DEF After, At
<1>1. PICK j \in Job : j = job[t]
  BY <1>0, InHands DEF Holding
<1>2. /\ pc' = [pc EXCEPT ![t] = "take"]
      /\ m_state' = [m_state EXCEPT ![j] = IF @ = "EXEC" THEN "HOLD" ELSE @]
      /\ m_fibers' = IF m_state[j] = "READY" THEN m_fibers \cup {j} ELSE m_fibers
      /\ job' = [job EXCEPT ![t] = None]
      /\ m_timers' = m_timers /\ m_events' = m_events /\ cbs' = cbs
      /\ j # None /\ cbs[t] = {} /\ \A u \in Thread \ {t} : job[u] # j
  BY <1>0, <1>1, InHands DEF After, At, Goto, schedule, waits, Holding
<1>3. m_state[j] \in IF Waits(j) THEN {"EXEC"} ELSE {"READY", "TERM"}
  BY <1>0, <1>1 DEF JobsOK, HandsOK, Hand
<1>4. pc'[t] = "take" /\ job'[t] = None /\ cbs'[t] = {}
  BY <1>2 DEF TypeOK
<1>5. Hand(t)'
  BY <1>4 DEF Hand, Holding
<1>6. \A i \in Job \ {j} : (Waits(i)' <=> Waits(i)) /\ m_state'[i] = m_state[i]
  BY <1>2 DEF Waits, TypeOK
<1>7. \A u \in Thread \ {t} : pc'[u] = pc[u] /\ job'[u] = job[u] /\ cbs'[u] = cbs[u]
  BY <1>2 DEF TypeOK
<1>8. Apart'
  <2>1. m_state[j] = "READY" => ~Waits(j)
    BY <1>3
  <2>2. m_fibers' \cap (m_timers \cup m_events) = {}
    BY <1>2, <2>1 DEF JobsOK, Apart, Waits
  <2>3. \A u \in Thread : cbs[u] \cap (m_fibers' \cup m_timers \cup m_events) = {}
    BY <1>2, <2>1 DEF JobsOK, Apart, Waits
  <2>4. \A u, v \in Thread : u # v /\ job'[u] = job'[v] => job'[u] = None
    BY <1>2 DEF JobsOK, Apart, TypeOK
  <2> QED
    BY <1>2, <2>2, <2>3, <2>4 DEF JobsOK, Apart
<1>9. m_state'[j] \in IF Waits(j)' THEN {"INIT", "HOLD", "READY"} ELSE {"NONE", "TERM"}
  <2>1. m_state'[j] = IF m_state[j] = "EXEC" THEN "HOLD" ELSE m_state[j]
    BY <1>2 DEF TypeOK
  <2>2. Waits(j)' <=> Waits(j) \/ m_state[j] = "READY"
    BY <1>2 DEF Waits
  <2> QED
    BY <1>3, <2>1, <2>2
<1> QED
  BY <1>1, <1>2, <1>4, <1>5, <1>6, <1>7, <1>8, <1>9, OneJob

LEMMA SubmitJobs ==
    ASSUME TypeOK, JobsOK, NEW c, NEW j \in Job, Submit(c, j)
    PROVE  JobsOK'
<1>1. ~Waits(j) /\ m_state[j] = "NONE"
  BY NewIsFree DEF Submit
<1>2. /\ m_fibers' = m_fibers \cup {j} /\ m_state' = [m_state EXCEPT ![j] = "INIT"]
      /\ UNCHANGED <<m_timers, m_events, job, cbs, pc>>
  BY DEF Submit, schedule, waits, locals
<1>3. Apart'
  BY <1>1, <1>2 DEF JobsOK, Apart, Waits
<1>4. Waits(j)' /\ \A i \in Job \ {j} : Waits(i)' <=> Waits(i)
  BY <1>2 DEF Waits
<1> QED
  BY <1>1, <1>2, <1>3, <1>4, NewJob

LEMMA AddTimerJobs ==
    ASSUME TypeOK, JobsOK, NEW c, NEW j \in Job, AddTimer(c, j)
    PROVE  JobsOK'
<1>1. ~Waits(j) /\ m_state[j] = "NONE"
  BY NewIsFree DEF AddTimer
<1>2. /\ m_timers' = m_timers \cup {j} /\ m_state' = [m_state EXCEPT ![j] = "INIT"]
      /\ UNCHANGED <<m_fibers, m_events, job, cbs, pc>>
  BY DEF AddTimer, locals
<1>3. Apart'
  BY <1>1, <1>2 DEF JobsOK, Apart, Waits
<1>4. Waits(j)' /\ \A i \in Job \ {j} : Waits(i)' <=> Waits(i)
  BY <1>2 DEF Waits
<1> QED
  BY <1>1, <1>2, <1>3, <1>4, NewJob

(* A fiber that registers itself.                                          *)
LEMMA AddOwnJobs ==
    ASSUME TypeOK, JobsOK, NEW t \in Thread, AddEvent(t, job[t])
    PROVE  JobsOK'
<1> DEFINE j == job[t]
<1>1. /\ pc[t] = "exec" /\ pc' = [pc EXCEPT ![t] = "hold"]
      /\ m_events' = m_events \cup {j}
      /\ UNCHANGED <<m_fibers, m_state, m_timers, job, cbs>>
  BY DEF AddEvent, Running, At, Goto, locals
<1>2. j \in Job /\ j # None /\ cbs[t] = {} /\ \A u \in Thread \ {t} : job[u] # j
  BY <1>1, InHands DEF Holding
<1>3. ~Waits(j) /\ m_state[j] = "EXEC"
  BY <1>1 DEF JobsOK, HandsOK, Hand
<1>4. pc'[t] = "hold" /\ Waits(job[t])' /\ m_state'[job[t]] = "EXEC"
  BY <1>1, <1>3 DEF TypeOK, Waits
<1>5. Hand(t)'
  BY <1>1, <1>2, <1>4 DEF Hand, Holding
<1> HIDE DEF j
<1>6. \A i \in Job \ {j} : (Waits(i)' <=> Waits(i)) /\ m_state'[i] = m_state[i]
  BY <1>1 DEF Waits
<1>7. \A u \in Thread \ {t} : pc'[u] = pc[u] /\ job'[u] = job[u] /\ cbs'[u] = cbs[u]
  BY <1>1 DEF TypeOK
<1>8. Apart'
  BY <1>1, <1>3 DEF JobsOK, Apart, Waits
<1>9. job[t] = j /\ job'[t] = j
  BY <1>1 DEF j
<1> QED
  BY <1>2, <1>5, <1>6, <1>7, <1>8, <1>9, OneJob

LEMMA AddEventJobs ==
    ASSUME TypeOK, JobsOK, NEW t \in Thread, NEW j \in Job, AddEvent(t, j)
    PROVE  JobsOK'
<1>1. CASE j = job[t]
  BY <1>1, AddOwnJobs
<1>2. CASE j # job[t]
  <2>1. m_state[j] = "NONE"
    BY <1>2 DEF AddEvent
  <2>2. ~Waits(j)
    BY <2>1, NewIsFree
  <2>3. /\ m_events' = m_events \cup {j} /\ m_state' = [m_state EXCEPT ![j] = "INIT"]
        /\ UNCHANGED <<m_fibers, m_timers, job, cbs, pc>>
    BY <1>2 DEF AddEvent, locals
  <2>4. Apart'
    BY <2>2, <2>3 DEF JobsOK, Apart, Waits
  <2>5. Waits(j)' /\ \A i \in Job \ {j} : Waits(i)' <=> Waits(i)
    BY <2>3 DEF Waits
  <2> QED
    BY <2>1, <2>3, <2>4, <2>5, NewJob
<1> QED
  BY <1>1, <1>2

-----------------------------------------------------------------------------
(* One step at a time.  What an action must show:                          *)
LEMMA StepOK ==
    ASSUME Inv, NEW t \in Thread, NEW label \in Places,
           Goto(t, label) \/ (label = pc[t] /\ UNCHANGED pc),
           /\ m_activeThreadCount' = m_activeThreadCount
                + In(ActivePlaces, label) - In(ActivePlaces, pc[t])
           /\ m_idleThreadCount' = m_idleThreadCount
                + In(IdlePlaces, label) - In(IdlePlaces, pc[t]),
           m_pendingEventCount' = Cardinality(m_events') + Cardinality(LateSet'),
           m_activeThreadCount' \in Nat /\ m_idleThreadCount' \in Nat => TypeOK',
           JobsOK', StopOK'
    PROVE  Inv'
<1>1. CountsExact' /\ m_activeThreadCount' \in Nat /\ m_idleThreadCount' \in Nat
  BY CountsKept DEF Inv
<1> QED
  BY <1>1 DEF Inv

(* Nobody moves.                                                           *)
LEMMA StandOK ==
    ASSUME Inv, UNCHANGED <<pc, m_activeThreadCount, m_idleThreadCount>>,
           m_pendingEventCount' = Cardinality(m_events') + Cardinality(LateSet'),
           TypeOK', JobsOK', StopOK'
    PROVE  Inv'
<1>1. PICK t \in Thread : TRUE
  BY IOManagerAssumption DEF IOManagerAssumption
<1>2. pc[t] \in Places
  BY DEF Inv, TypeOK
<1>3. /\ m_activeThreadCount' = m_activeThreadCount
            + In(ActivePlaces, pc[t]) - In(ActivePlaces, pc[t])
      /\ m_idleThreadCount' = m_idleThreadCount
            + In(IdlePlaces, pc[t]) - In(IdlePlaces, pc[t])
  BY DEF In, Inv, TypeOK
<1> QED
  BY <1>1, <1>2, <1>3, StepOK

LEMMA TakeStep ==
    ASSUME Inv, NEW t \in Thread, NEW j \in Job, Take(t, j)
    PROVE  Inv'
<1> USE DEF Inv, Take, At, waits, stop
<1>1. JobsOK'
  BY TakeJobs
<1>2. m_pendingEventCount' = Cardinality(m_events') + Cardinality(LateSet')
  BY PendingKept
<1>3. m_activeThreadCount' \in Nat /\ m_idleThreadCount' \in Nat => TypeOK'
  BY DEF TypeOK, Goto, Places, schedule
<1>4. StopOK'
  BY DEF StopOK, Goto, TypeOK
<1>5. /\ m_activeThreadCount' = m_activeThreadCount
            + In(ActivePlaces, "dispatch") - In(ActivePlaces, pc[t])
      /\ m_idleThreadCount' = m_idleThreadCount
            + In(IdlePlaces, "dispatch") - In(IdlePlaces, pc[t])
  BY DEF In, ActivePlaces, IdlePlaces, TypeOK
<1> QED
  BY <1>1, <1>2, <1>3, <1>4, <1>5, StepOK DEF Places

LEMMA SwapInStep ==
    ASSUME Inv, NEW t \in Thread, SwapIn(t)
    PROVE  Inv'
<1> USE DEF Inv, SwapIn, At, waits, counts, stop, locals
<1>1. JobsOK'
  BY StateJobs DEF JobsOK, HandsOK, Hand, Holding
<1>2. m_pendingEventCount' = Cardinality(m_events') + Cardinality(LateSet')
  BY PendingKept
<1>3. m_activeThreadCount' \in Nat /\ m_idleThreadCount' \in Nat => TypeOK'
  BY DEF TypeOK, Goto, Places, schedule
<1>4. StopOK'
  BY DEF StopOK, Goto, TypeOK
<1>5. /\ m_activeThreadCount' = m_activeThreadCount
            + In(ActivePlaces, "exec") - In(ActivePlaces, pc[t])
      /\ m_idleThreadCount' = m_idleThreadCount
            + In(IdlePlaces, "exec") - In(IdlePlaces, pc[t])
  BY DEF In, ActivePlaces, IdlePlaces, TypeOK
<1> QED
  BY <1>1, <1>2, <1>3, <1>4, <1>5, StepOK DEF Places

LEMMA ReturnStep ==
    ASSUME Inv, NEW t \in Thread, Return(t)
    PROVE  Inv'
<1> USE DEF Inv, Return, At, queue, waits, stop, locals
<1>1. JobsOK'
  BY Quiet DEF Holding
<1>2. m_pendingEventCount' = Cardinality(m_events') + Cardinality(LateSet')
  BY PendingKept
<1>3. m_activeThreadCount' \in Nat /\ m_idleThreadCount' \in Nat => TypeOK'
  BY DEF TypeOK, Goto, Places, schedule
<1>4. StopOK'
  BY DEF StopOK, Goto, TypeOK
<1>5. /\ m_activeThreadCount' = m_activeThreadCount
            + In(ActivePlaces, "after") - In(ActivePlaces, pc[t])
      /\ m_idleThreadCount' = m_idleThreadCount
            + In(IdlePlaces, "after") - In(IdlePlaces, pc[t])
  BY DEF In, ActivePlaces, IdlePlaces, TypeOK
<1> QED
  BY <1>1, <1>2, <1>3, <1>4, <1>5, StepOK DEF Places

LEMMA AfterStep ==
    ASSUME Inv, NEW t \in Thread, After(t)
    PROVE  Inv'
<1> USE DEF Inv, After, At, waits, counts, stop
<1>1. JobsOK'
  BY AfterJobs
<1>2. m_pendingEventCount' = Cardinality(m_events') + Cardinality(LateSet')
  BY PendingKept
<1>3. m_activeThreadCount' \in Nat /\ m_idleThreadCount' \in Nat => TypeOK'
  <2>1. job[t] \in Job
    BY InHands DEF Holding
  <2>2. m_fibers' \subseteq Job /\ owes' \in [Thread \cup {Main} -> BOOLEAN]
    <3>1. m_fibers \subseteq Job /\ owes \in [Thread \cup {Main} -> BOOLEAN]
      BY DEF TypeOK
    <3>2. CASE schedule(t, {job[t]})
      BY ONLY <2>1, <3>1, <3>2 DEF schedule
    <3>3. CASE UNCHANGED <<m_fibers, owes>>
      BY ONLY <3>1, <3>3
    <3> QED
      BY <3>2, <3>3
  <2>3. m_state' \in [Job -> {"NONE", "INIT", "EXEC", "HOLD", "READY", "TERM"}]
    BY <2>1 DEF TypeOK
  <2> QED
    BY <2>2, <2>3 DEF TypeOK, Goto, Places
<1>4. StopOK'
  BY DEF StopOK, Goto, TypeOK
<1>5. /\ m_activeThreadCount' = m_activeThreadCount
            + In(ActivePlaces, "take") - In(ActivePlaces, pc[t])
      /\ m_idleThreadCount' = m_idleThreadCount
            + In(IdlePlaces, "take") - In(IdlePlaces, pc[t])
  BY DEF In, ActivePlaces, IdlePlaces, TypeOK
<1> QED
  BY <1>1, <1>2, <1>3, <1>4, <1>5, StepOK DEF Places

LEMMA FinishStep ==
    ASSUME Inv, NEW t \in Thread, Finish(t)
    PROVE  Inv'
<1> USE DEF Inv, Finish, Running, At, waits, counts, stop, locals
<1>1. JobsOK'
  BY StateJobs DEF JobsOK, HandsOK, Hand, Holding
<1>2. m_pendingEventCount' = Cardinality(m_events') + Cardinality(LateSet')
  BY PendingKept
<1>3. m_activeThreadCount' \in Nat /\ m_idleThreadCount' \in Nat => TypeOK'
  BY DEF TypeOK, Goto, Places, schedule
<1>4. StopOK'
  BY DEF StopOK, Goto, TypeOK
<1>5. /\ m_activeThreadCount' = m_activeThreadCount
            + In(ActivePlaces, "back") - In(ActivePlaces, pc[t])
      /\ m_idleThreadCount' = m_idleThreadCount
            + In(IdlePlaces, "back") - In(IdlePlaces, pc[t])
  BY DEF In, ActivePlaces, IdlePlaces, TypeOK
<1> QED
  BY <1>1, <1>2, <1>3, <1>4, <1>5, StepOK DEF Places

LEMMA YieldToReadyStep ==
    ASSUME Inv, NEW t \in Thread, YieldToReady(t)
    PROVE  Inv'
<1> USE DEF Inv, YieldToReady, Running, At, waits, counts, stop, locals
<1>1. JobsOK'
  BY StateJobs DEF JobsOK, HandsOK, Hand, Holding
<1>2. m_pendingEventCount' = Cardinality(m_events') + Cardinality(LateSet')
  BY PendingKept
<1>3. m_activeThreadCount' \in Nat /\ m_idleThreadCount' \in Nat => TypeOK'
  BY DEF TypeOK, Goto, Places, schedule
<1>4. StopOK'
  BY DEF StopOK, Goto, TypeOK
<1>5. /\ m_activeThreadCount' = m_activeThreadCount
            + In(ActivePlaces, "back") - In(ActivePlaces, pc[t])
      /\ m_idleThreadCount' = m_idleThreadCount
            + In(IdlePlaces, "back") - In(IdlePlaces, pc[t])
  BY DEF In, ActivePlaces, IdlePlaces, TypeOK
<1> QED
  BY <1>1, <1>2, <1>3, <1>4, <1>5, StepOK DEF Places

LEMMA YieldToHoldStep ==
    ASSUME Inv, NEW t \in Thread, YieldToHold(t)
    PROVE  Inv'
<1> USE DEF Inv, YieldToHold, At, queue, waits, counts, stop, locals
<1>1. JobsOK'
  BY Quiet DEF Holding
<1>2. m_pendingEventCount' = Cardinality(m_events') + Cardinality(LateSet')
  BY PendingKept
<1>3. m_activeThreadCount' \in Nat /\ m_idleThreadCount' \in Nat => TypeOK'
  BY DEF TypeOK, Goto, Places, schedule
<1>4. StopOK'
  BY DEF StopOK, Goto, TypeOK
<1>5. /\ m_activeThreadCount' = m_activeThreadCount
            + In(ActivePlaces, "back") - In(ActivePlaces, pc[t])
      /\ m_idleThreadCount' = m_idleThreadCount
            + In(IdlePlaces, "back") - In(IdlePlaces, pc[t])
  BY DEF In, ActivePlaces, IdlePlaces, TypeOK
<1> QED
  BY <1>1, <1>2, <1>3, <1>4, <1>5, StepOK DEF Places

LEMMA EnterIdleStep ==
    ASSUME Inv, NEW t \in Thread, EnterIdle(t)
    PROVE  Inv'
<1> USE DEF Inv, EnterIdle, At, queue, waits, stop, locals
<1>1. JobsOK'
  BY Quiet DEF Holding
<1>2. m_pendingEventCount' = Cardinality(m_events') + Cardinality(LateSet')
  BY PendingKept
<1>3. m_activeThreadCount' \in Nat /\ m_idleThreadCount' \in Nat => TypeOK'
  BY DEF TypeOK, Goto, Places, schedule
<1>4. StopOK'
  BY DEF StopOK, Goto, TypeOK
<1>5. /\ m_activeThreadCount' = m_activeThreadCount
            + In(ActivePlaces, "ask") - In(ActivePlaces, pc[t])
      /\ m_idleThreadCount' = m_idleThreadCount
            + In(IdlePlaces, "ask") - In(IdlePlaces, pc[t])
  BY DEF In, ActivePlaces, IdlePlaces, TypeOK
<1> QED
  BY <1>1, <1>2, <1>3, <1>4, <1>5, StepOK DEF Places

LEMMA LeaveIdleStep ==
    ASSUME Inv, NEW t \in Thread, LeaveIdle(t)
    PROVE  Inv'
<1> USE DEF Inv, LeaveIdle, At, queue, waits, stop
<1>1. JobsOK'
  BY Quiet DEF Holding
<1>2. m_pendingEventCount' = Cardinality(m_events') + Cardinality(LateSet')
  BY PendingKept
<1>3. m_activeThreadCount' \in Nat /\ m_idleThreadCount' \in Nat => TypeOK'
  BY DEF TypeOK, Goto, Places, schedule
<1>4. StopOK'
  BY DEF StopOK, Goto, TypeOK
<1>5. /\ m_activeThreadCount' = m_activeThreadCount
            + In(ActivePlaces, "take") - In(ActivePlaces, pc[t])
      /\ m_idleThreadCount' = m_idleThreadCount
            + In(IdlePlaces, "take") - In(IdlePlaces, pc[t])
  BY DEF In, ActivePlaces, IdlePlaces, TypeOK
<1> QED
  BY <1>1, <1>2, <1>3, <1>4, <1>5, StepOK DEF Places

LEMMA WakeUpStep ==
    ASSUME Inv, NEW t \in Thread, WakeUp(t)
    PROVE  Inv'
<1> USE DEF Inv, WakeUp, At, queue, counts, stop
<1>1. JobsOK'
  BY Quiet DEF Holding
<1>2. m_pendingEventCount' = Cardinality(m_events') + Cardinality(LateSet')
  BY PendingKept
<1>3. m_activeThreadCount' \in Nat /\ m_idleThreadCount' \in Nat => TypeOK'
  BY DEF TypeOK, Goto, Places, schedule
<1>4. StopOK'
  BY DEF StopOK, Goto, TypeOK
<1>5. /\ m_activeThreadCount' = m_activeThreadCount
            + In(ActivePlaces, "collect") - In(ActivePlaces, pc[t])
      /\ m_idleThreadCount' = m_idleThreadCount
            + In(IdlePlaces, "collect") - In(IdlePlaces, pc[t])
  BY DEF In, ActivePlaces, IdlePlaces, TypeOK
<1> QED
  BY <1>1, <1>2, <1>3, <1>4, <1>5, StepOK DEF Places

LEMMA TimeoutStep ==
    ASSUME Inv, NEW t \in Thread, Timeout(t)
    PROVE  Inv'
<1> USE DEF Inv, Timeout, At, queue, waits, counts, stop, locals
<1>1. JobsOK'
  BY Quiet DEF Holding
<1>2. m_pendingEventCount' = Cardinality(m_events') + Cardinality(LateSet')
  BY PendingKept
<1>3. m_activeThreadCount' \in Nat /\ m_idleThreadCount' \in Nat => TypeOK'
  BY DEF TypeOK, Goto, Places, schedule
<1>4. StopOK'
  BY DEF StopOK, Goto, TypeOK
<1>5. /\ m_activeThreadCount' = m_activeThreadCount
            + In(ActivePlaces, "collect") - In(ActivePlaces, pc[t])
      /\ m_idleThreadCount' = m_idleThreadCount
            + In(IdlePlaces, "collect") - In(IdlePlaces, pc[t])
  BY DEF In, ActivePlaces, IdlePlaces, TypeOK
<1> QED
  BY <1>1, <1>2, <1>3, <1>4, <1>5, StepOK DEF Places

LEMMA CollectStep ==
    ASSUME Inv, NEW t \in Thread, Collect(t)
    PROVE  Inv'
<1> USE DEF Inv, Collect, At, queue, counts, stop
<1>1. JobsOK'
  BY CollectJobs
<1>2. m_pendingEventCount' = Cardinality(m_events') + Cardinality(LateSet')
  BY PendingKept
<1>3. m_activeThreadCount' \in Nat /\ m_idleThreadCount' \in Nat => TypeOK'
  BY DEF TypeOK, Goto, Places, schedule
<1>4. StopOK'
  BY DEF StopOK, Goto, TypeOK
<1>5. /\ m_activeThreadCount' = m_activeThreadCount
            + In(ActivePlaces, IF due = {} THEN "events" ELSE "deliver") - In(ActivePlaces, pc[t])
      /\ m_idleThreadCount' = m_idleThreadCount
            + In(IdlePlaces, IF due = {} THEN "events" ELSE "deliver") - In(IdlePlaces, pc[t])
  BY DEF In, ActivePlaces, IdlePlaces, TypeOK
<1> QED
  BY <1>1, <1>2, <1>3, <1>4, <1>5, StepOK DEF Places

LEMMA DeliverStep ==
    ASSUME Inv, NEW t \in Thread, Deliver(t)
    PROVE  Inv'
<1> USE DEF Inv, Deliver, At, waits, counts, stop
<1>1. JobsOK'
  BY DeliverJobs
<1>2. m_pendingEventCount' = Cardinality(m_events') + Cardinality(LateSet')
  BY PendingKept
<1>3. m_activeThreadCount' \in Nat /\ m_idleThreadCount' \in Nat => TypeOK'
  BY DEF TypeOK, Goto, Places, schedule
<1>4. StopOK'
  BY DEF StopOK, Goto, TypeOK
<1>5. /\ m_activeThreadCount' = m_activeThreadCount
            + In(ActivePlaces, "events") - In(ActivePlaces, pc[t])
      /\ m_idleThreadCount' = m_idleThreadCount
            + In(IdlePlaces, "events") - In(IdlePlaces, pc[t])
  BY DEF In, ActivePlaces, IdlePlaces, TypeOK
<1> QED
  BY <1>1, <1>2, <1>3, <1>4, <1>5, StepOK DEF Places

LEMMA YieldIdleStep ==
    ASSUME Inv, NEW t \in Thread, YieldIdle(t)
    PROVE  Inv'
<1> USE DEF Inv, YieldIdle, At, queue, waits, stop, locals
<1>1. JobsOK'
  BY Quiet DEF Holding
<1>2. m_pendingEventCount' = Cardinality(m_events') + Cardinality(LateSet')
  BY PendingKept
<1>3. m_activeThreadCount' \in Nat /\ m_idleThreadCount' \in Nat => TypeOK'
  BY DEF TypeOK, Goto, Places, schedule
<1>4. StopOK'
  BY DEF StopOK, Goto, TypeOK
<1>5. /\ m_activeThreadCount' = m_activeThreadCount
            + In(ActivePlaces, "take") - In(ActivePlaces, pc[t])
      /\ m_idleThreadCount' = m_idleThreadCount
            + In(IdlePlaces, "take") - In(IdlePlaces, pc[t])
  BY DEF In, ActivePlaces, IdlePlaces, TypeOK
<1> QED
  BY <1>1, <1>2, <1>3, <1>4, <1>5, StepOK DEF Places

LEMMA TakeNothingStep ==
    ASSUME Inv, NEW t \in Thread, TakeNothing(t)
    PROVE  Inv'
<1> USE DEF Inv, TakeNothing, At, queue, waits, counts, stop, locals
<1>1. JobsOK'
  BY Quiet DEF Holding
<1>2. m_pendingEventCount' = Cardinality(m_events') + Cardinality(LateSet')
  BY PendingKept
<1>3. m_activeThreadCount' \in Nat /\ m_idleThreadCount' \in Nat => TypeOK'
  BY DEF TypeOK, Goto, Places, schedule
<1>4. StopOK'
  BY DEF StopOK, Goto, TypeOK
<1>5. /\ m_activeThreadCount' = m_activeThreadCount
            + In(ActivePlaces, IF idleTerm[t] THEN "exit" ELSE "enter") - In(ActivePlaces, pc[t])
      /\ m_idleThreadCount' = m_idleThreadCount
            + In(IdlePlaces, IF idleTerm[t] THEN "exit" ELSE "enter") - In(IdlePlaces, pc[t])
  BY DEF In, ActivePlaces, IdlePlaces, TypeOK
<1> QED
  BY <1>1, <1>2, <1>3, <1>4, <1>5, StepOK DEF Places

LEMMA StoppingStep ==
    ASSUME Inv, NEW t \in Thread, stopping(t)
    PROVE  Inv'
<1>1. PICK from, holds, to :
        /\ Ask(t, from, holds, to)
        /\ \/ from = "ask" /\ to = "pending"
           \/ from = "pending" /\ to = "empty"
           \/ from = "empty" /\ to = "leave" /\ holds = NothingToRun
  BY DEF stopping
<1>2. PICK label \in {"pending", "empty", "leave", "sleep"} :
        Goto(t, label) /\ (label = "leave" => m_stopping)
  BY <1>1 DEF Ask, NothingToRun
<1> USE DEF Inv, Ask, At, queue, waits, counts, stop, locals
<1>3. JobsOK'
  BY <1>1, <1>2, Quiet DEF Holding
<1>4. m_pendingEventCount' = Cardinality(m_events') + Cardinality(LateSet')
  BY <1>1, PendingKept
<1>5. m_activeThreadCount' \in Nat /\ m_idleThreadCount' \in Nat => TypeOK'
  BY <1>1, <1>2 DEF TypeOK, Goto, Places
<1>6. StopOK'
  BY <1>1, <1>2 DEF StopOK, Goto, TypeOK
<1>7. /\ m_activeThreadCount' = m_activeThreadCount
            + In(ActivePlaces, label) - In(ActivePlaces, pc[t])
      /\ m_idleThreadCount' = m_idleThreadCount
            + In(IdlePlaces, label) - In(IdlePlaces, pc[t])
  BY <1>1, <1>2 DEF In, ActivePlaces, IdlePlaces, TypeOK
<1> QED
  BY <1>2, <1>3, <1>4, <1>5, <1>6, <1>7, StepOK DEF Places

LEMMA SubmitStep ==
    ASSUME Inv, NEW c \in Thread \cup {Main}, NEW j \in Job, Submit(c, j)
    PROVE  Inv'
<1> USE DEF Inv, Submit, waits, counts, stop, locals
<1>1. JobsOK'
  BY SubmitJobs
<1>2. m_pendingEventCount' = Cardinality(m_events') + Cardinality(LateSet')
  BY PendingKept
<1>3. TypeOK'
  BY DEF TypeOK, Places, schedule
<1>4. StopOK'
  BY DEF StopOK
<1> QED
  BY <1>1, <1>2, <1>3, <1>4, StandOK

LEMMA AddTimerStep ==
    ASSUME Inv, NEW c \in Thread \cup {Main}, NEW j \in Job, AddTimer(c, j)
    PROVE  Inv'
<1> USE DEF Inv, AddTimer, counts, stop, locals
<1>1. JobsOK'
  BY AddTimerJobs
<1>2. m_pendingEventCount' = Cardinality(m_events') + Cardinality(LateSet')
  BY PendingKept
<1>3. TypeOK'
  BY DEF TypeOK, Places, schedule
<1>4. StopOK'
  BY DEF StopOK
<1> QED
  BY <1>1, <1>2, <1>3, <1>4, StandOK

LEMMA TickleStep ==
    ASSUME Inv, NEW c \in Thread \cup {Main}, Tickle(c)
    PROVE  Inv'
<1> USE DEF Inv, Tickle, queue, waits, counts, stop, locals
<1>1. JobsOK'
  BY Stay
<1>2. m_pendingEventCount' = Cardinality(m_events') + Cardinality(LateSet')
  BY PendingKept
<1>3. TypeOK'
  BY DEF TypeOK, Places, schedule
<1>4. StopOK'
  BY DEF StopOK
<1> QED
  BY <1>1, <1>2, <1>3, <1>4, StandOK

LEMMA CountStep ==
    ASSUME Inv, NEW t \in Thread, Count(t)
    PROVE  Inv'
<1> USE DEF Inv, Count, queue, waits, stop, locals
<1>1. JobsOK'
  BY Stay
<1>2. m_pendingEventCount' = Cardinality(m_events') + Cardinality(LateSet')
  BY PendingCounted
<1>3. TypeOK'
  BY PendingCounted DEF TypeOK, Places, schedule
<1>4. StopOK'
  BY DEF StopOK
<1> QED
  BY <1>1, <1>2, <1>3, <1>4, StandOK

LEMMA TriggerStep ==
    ASSUME Inv, NEW t \in Thread, NEW j \in Job, triggerEvent(t, j), At(t, pc[t]),
           UNCHANGED <<m_state, m_timers, due, counts, stop, job, idleTerm, cbs, pc, edge>>,
           evs' \in [Thread -> SUBSET (Job \cup {Pipe})]
    PROVE  Inv'
<1> USE DEF Inv, triggerEvent, At, counts, stop
<1>1. JobsOK'
  BY TriggerJobs DEF schedule
<1>2. m_pendingEventCount' = Cardinality(m_events') + Cardinality(LateSet')
  BY PendingTriggered
<1>3. TypeOK'
  BY DEF TypeOK, Places, schedule
<1>4. StopOK'
  BY DEF StopOK
<1> QED
  BY <1>1, <1>2, <1>3, <1>4, StandOK

LEMMA DueStep ==
    ASSUME Inv, NEW j \in Job, Due(j)
    PROVE  Inv'
<1> USE DEF Inv, Due, queue, counts, stop, locals
<1>1. JobsOK'
  BY Stay
<1>2. m_pendingEventCount' = Cardinality(m_events') + Cardinality(LateSet')
  BY PendingKept
<1>3. TypeOK'
  BY DEF TypeOK, Places, schedule
<1>4. StopOK'
  BY DEF StopOK
<1> QED
  BY <1>1, <1>2, <1>3, <1>4, StandOK

LEMMA ReadyStep ==
    ASSUME Inv, NEW j \in Job, Ready(j)
    PROVE  Inv'
<1> USE DEF Inv, Ready, queue, counts, stop, locals
<1>1. JobsOK'
  BY Stay
<1>2. m_pendingEventCount' = Cardinality(m_events') + Cardinality(LateSet')
  BY PendingKept
<1>3. TypeOK'
  BY DEF TypeOK, Places, schedule
<1>4. StopOK'
  BY DEF StopOK
<1> QED
  BY <1>1, <1>2, <1>3, <1>4, StandOK

LEMMA StopStep ==
    ASSUME Inv, Stop
    PROVE  Inv'
<1> USE DEF Inv, Stop, IOManagerAssumption, queue, waits, counts, locals
<1>1. JobsOK'
  BY Stay
<1>2. m_pendingEventCount' = Cardinality(m_events') + Cardinality(LateSet')
  BY PendingKept
<1>3. TypeOK'
  BY IOManagerAssumption, FS_CardinalityType DEF TypeOK, Places, schedule
<1>4. StopOK'
  BY DEF StopOK
<1> QED
  BY <1>1, <1>2, <1>3, <1>4, StandOK

LEMMA StopTickleStep ==
    ASSUME Inv, StopTickle
    PROVE  Inv'
<1> USE DEF Inv, StopTickle, queue, waits, counts, locals
<1>1. JobsOK'
  BY Stay
<1>2. m_pendingEventCount' = Cardinality(m_events') + Cardinality(LateSet')
  BY PendingKept
<1>3. TypeOK'
  BY DEF TypeOK, Places, schedule
<1>4. StopOK'
  BY DEF StopOK
<1> QED
  BY <1>1, <1>2, <1>3, <1>4, StandOK

LEMMA JoinStep ==
    ASSUME Inv, Join
    PROVE  Inv'
<1> USE DEF Inv, Join, queue, waits, counts, locals
<1>1. JobsOK'
  BY Stay
<1>2. m_pendingEventCount' = Cardinality(m_events') + Cardinality(LateSet')
  BY PendingKept
<1>3. TypeOK'
  BY DEF TypeOK, Places, schedule
<1>4. StopOK'
  BY DEF StopOK
<1> QED
  BY <1>1, <1>2, <1>3, <1>4, StandOK

LEMMA AddEventStep ==
    ASSUME Inv, NEW t \in Thread, NEW j \in Job, AddEvent(t, j)
    PROVE  Inv'
<1> DEFINE label == IF j = job[t] THEN "hold" ELSE "exec"
<1> USE DEF Inv, AddEvent, Running, At, stop, locals
<1>1. JobsOK'
  BY AddEventJobs
<1>2. j \notin m_events
  <2>1. CASE j = job[t]
    BY <2>1 DEF JobsOK, HandsOK, Hand, Waits
  <2>2. CASE m_state[j] = "NONE"
    BY <2>2, NewIsFree DEF Waits
  <2> QED
    BY <2>1, <2>2
<1>3. m_pendingEventCount' = Cardinality(m_events') + Cardinality(LateSet')
  BY <1>2, PendingMore
<1>4. m_activeThreadCount' \in Nat /\ m_idleThreadCount' \in Nat => TypeOK'
  BY DEF TypeOK, Goto, Places
<1>5. StopOK'
  BY DEF StopOK, Goto, TypeOK
<1>6. /\ m_activeThreadCount' = m_activeThreadCount
            + In(ActivePlaces, label) - In(ActivePlaces, pc[t])
      /\ m_idleThreadCount' = m_idleThreadCount
            + In(IdlePlaces, label) - In(IdlePlaces, pc[t])
  BY DEF In, ActivePlaces, IdlePlaces, TypeOK
<1>7. Goto(t, label) \/ (label = pc[t] /\ UNCHANGED pc)
  OBVIOUS
<1>8. label \in Places
  BY DEF Places
<1> HIDE DEF label
<1> QED
  BY <1>1, <1>3, <1>4, <1>5, <1>6, <1>7, <1>8, StepOK

LEMMA CancelEventStep ==
    ASSUME Inv, NEW t \in Thread, NEW j \in Job, CancelEvent(t, j)
    PROVE  Inv'
<1>1. evs' \in [Thread -> SUBSET (Job \cup {Pipe})]
  BY DEF Inv, TypeOK, CancelEvent, locals
<1> QED
  BY <1>1, TriggerStep DEF CancelEvent, Running, At, locals

LEMMA ReportStep ==
    ASSUME Inv, NEW t \in Thread, NEW j \in Job, Report(t, j)
    PROVE  Inv'
<1>1. evs' \in [Thread -> SUBSET (Job \cup {Pipe})]
  BY DEF Inv, TypeOK, Report
<1>2. CASE triggerEvent(t, j)
  BY <1>1, <1>2, TriggerStep DEF Report, At
<1>3. CASE j \notin m_events /\ UNCHANGED <<m_fibers, owes, m_events, ready, uncounted>>
  <2> USE <1>3 DEF Inv, Report, counts, stop
  <2>1. JobsOK'
    BY Stay
  <2>2. m_pendingEventCount' = Cardinality(m_events') + Cardinality(LateSet')
    BY PendingKept
  <2>3. TypeOK'
    BY <1>1 DEF TypeOK
  <2>4. StopOK'
    BY DEF StopOK
  <2> QED
    BY <2>1, <2>2, <2>3, <2>4, StandOK
<1> QED
  BY <1>2, <1>3 DEF Report

LEMMA DrainStep ==
    ASSUME Inv, NEW t \in Thread, Drain(t)
    PROVE  Inv'
<1> USE DEF Inv, Drain, queue, waits, counts, stop
<1>1. JobsOK'
  BY Stay
<1>2. m_pendingEventCount' = Cardinality(m_events') + Cardinality(LateSet')
  BY PendingKept
<1>3. TypeOK'
  BY DEF TypeOK
<1>4. StopOK'
  BY DEF StopOK
<1> QED
  BY <1>1, <1>2, <1>3, <1>4, StandOK

-----------------------------------------------------------------------------
LEMMA InitOK == Init => Inv
<1> SUFFICES ASSUME Init PROVE Inv
  OBVIOUS
<1> USE DEF Init
<1>1. TypeOK
  BY DEF TypeOK, Places
<1>2. CountsExact
  <2>1. {t \in Thread : Active(t)} = {} /\ {t \in Thread : Idling(t)} = {}
    BY DEF Active, Idling
  <2>2. {t \in Thread : uncounted[t]} = {}
    OBVIOUS
  <2>3. Cardinality({}) = 0
    BY FS_EmptySet
  <2>4. m_events = {}
    OBVIOUS
  <2>5. /\ Cardinality({t \in Thread : Active(t)}) = 0
        /\ Cardinality({t \in Thread : Idling(t)}) = 0
        /\ Cardinality({t \in Thread : uncounted[t]}) = 0
        /\ Cardinality(m_events) = 0
    BY <2>1, <2>2, <2>3, <2>4
  <2>6. m_activeThreadCount = 0 /\ m_idleThreadCount = 0 /\ m_pendingEventCount = 0
    OBVIOUS
  <2> HIDE DEF Init
  <2> QED
    BY <2>5, <2>6 DEF CountsExact
<1>3. HandsOK
  BY DEF HandsOK, Hand, Holding
<1>4. FreeOK
  BY DEF FreeOK, Waits
<1>5. Apart
  BY DEF Apart
<1>6. StopOK
  BY DEF StopOK
<1> QED
  BY <1>1, <1>2, <1>3, <1>4, <1>5, <1>6 DEF Inv, JobsOK

LEMMA ThreadStep ==
    ASSUME Inv, NEW t \in Thread, Step(t)
    PROVE  Inv'
<1>1. CASE Run(t)
  BY <1>1, TakeStep, TakeNothingStep, SwapInStep, ReturnStep, AfterStep DEF Run
<1>2. CASE Body(t)
  BY <1>2, FinishStep, YieldToReadyStep, YieldToHoldStep, AddEventStep, CancelEventStep,
     SubmitStep, AddTimerStep DEF Body
<1>3. CASE idle(t)
  BY <1>3, EnterIdleStep, StoppingStep, LeaveIdleStep, WakeUpStep, TimeoutStep,
     CollectStep, DeliverStep, ReportStep, DrainStep, YieldIdleStep DEF idle
<1> QED
  BY <1>1, <1>2, <1>3, TickleStep, CountStep DEF Step

LEMMA NextOK == Inv /\ [Next]_vars => Inv'
<1> SUFFICES ASSUME Inv, [Next]_vars PROVE Inv'
  OBVIOUS
<1>1. CASE UNCHANGED vars
  BY <1>1 DEF vars, queue, waits, counts, stop, locals, Inv, TypeOK, CountsExact, Active,
              Idling, JobsOK, HandsOK, Hand, FreeOK, Apart, Waits, StopOK
<1>2. CASE Main_
  BY <1>2, TickleStep, StopStep, StopTickleStep, JoinStep DEF Main_
<1>3. CASE MainSubmits
  BY <1>3, SubmitStep, AddTimerStep DEF MainSubmits
<1> QED
  BY <1>1, <1>2, <1>3, ThreadStep, DueStep, ReadyStep DEF Next, Done

THEOREM Invariant == Spec => []Inv
  BY InitOK, NextOK, PTL DEF Spec

(* Every variable has its type.                                            *)
THEOREM TypeCorrect == Spec => []TypeOK
<1>1. Inv => TypeOK
  BY DEF Inv
<1> QED
  BY <1>1, Invariant, PTL

(* The counters that stopping() and tickle() read are exact at every step. *)
THEOREM CountersExact == Spec => []CountsExact
<1>1. Inv => CountsExact
  BY DEF Inv
<1> QED
  BY <1>1, Invariant, PTL

(* No job is ever in two places, in two threads' hands, or taken while the *)
(* thread that ran it has not left its context.                            *)
THEOREM JobsInOnePlace == Spec => []OnePlace
<1>1. Inv => OnePlace
  <2> SUFFICES ASSUME Inv PROVE OnePlace
    OBVIOUS
  <2>1. ASSUME NEW t \in Thread, job[t] # None, Waits(job[t])
        PROVE  pc[t] \in {"hold", "back", "after"} /\ m_state[job[t]] = "EXEC"
    BY <2>1 DEF Inv, JobsOK, HandsOK, Hand, Holding
  <2> QED
    BY <2>1 DEF OnePlace, Inv, JobsOK, Apart
<1> QED
  BY <1>1, Invariant, PTL

-----------------------------------------------------------------------------
(* The refinement.  Under the invariant the cases of Status exclude one    *)
(* another, so that they may be read in order.                             *)
Queued(j) == j \in m_fibers \/ \E t \in Thread : j \in cbs[t]

Doing(j) ==
    IF Queued(j) THEN "ready"
    ELSE IF j \in m_timers \cup m_events THEN "waiting"
    ELSE IF m_state[j] = "NONE" THEN "new"
    ELSE IF m_state[j] = "TERM" THEN "done"
    ELSE "running"

Open == {t \in Thread : pc[t] # "exit"}

InOrder == \A j \in Job : Status(j) = Doing(j)

LEMMA WaitsKnown ==
    ASSUME TypeOK, JobsOK, NEW j \in Job, Waits(j)
    PROVE  m_state[j] \notin {"NONE", "TERM"}
<1>1. CASE \A t \in Thread : job[t] # j
  BY <1>1 DEF JobsOK, FreeOK
<1>2. ASSUME NEW t \in Thread, job[t] = j
      PROVE  m_state[j] \notin {"NONE", "TERM"}
  <2>1. job[t] # None
    BY <1>2, IOManagerAssumption DEF IOManagerAssumption
  <2> QED
    BY <1>2, <2>1 DEF JobsOK, HandsOK, Hand, Holding
<1> QED
  BY <1>1, <1>2

LEMMA StatusNow == Inv => InOrder
<1> SUFFICES ASSUME Inv, NEW j \in Job PROVE Status(j) = Doing(j)
  BY DEF InOrder
<1>1. Queued(j) => j \notin m_timers \cup m_events
  BY DEF Queued, Inv, JobsOK, Apart
<1>2. Queued(j) \/ j \in m_timers \cup m_events => m_state[j] \notin {"NONE", "TERM"}
  BY WaitsKnown DEF Inv, Queued, Waits
<1>3. CASE Queued(j)
  BY <1>1, <1>2, <1>3 DEF Status, Doing, Queued
<1>4. CASE ~Queued(j) /\ j \in m_timers \cup m_events
  BY <1>1, <1>2, <1>4 DEF Status, Doing, Queued
<1>5. CASE ~Queued(j) /\ j \notin m_timers \cup m_events
  BY <1>1, <1>2, <1>5 DEF Status, Doing, Queued
<1> QED
  BY <1>3, <1>4, <1>5

LEMMA StatusNext == Inv' => InOrder'
  BY StatusNow, PTL

LEMMA BecomeOK ==
    ASSUME InOrder, InOrder', NEW S \in SUBSET Job, NEW from, NEW to,
           \A j \in S : Doing(j) = from /\ Doing(j)' = to,
           \A j \in Job \ S : Doing(j)' = Doing(j),
           Open' = Open
    PROVE  AbstractPool!Become(S, from, to)
<1>1. \A j \in S : Status(j) = from
  BY DEF InOrder
<1>2. [j \in Job |-> Status(j)]' = [j \in Job |-> IF j \in S THEN to ELSE Status(j)]
  BY DEF InOrder
<1> QED
  BY <1>1, <1>2 DEF AbstractPool!Become, Open

LEMMA StutterOK ==
    ASSUME InOrder, InOrder', \A j \in Job : Doing(j)' = Doing(j), Open' = Open
    PROVE  UNCHANGED AbstractPool!pool
  BY DEF AbstractPool!pool, InOrder, Open

Refined == [AbstractPool!Next]_(AbstractPool!pool)

(* Steps that the pool does not see.                                       *)
LEMMA Unseen ==
    ASSUME InOrder, InOrder', UNCHANGED <<m_fibers, m_state, m_timers, m_events, cbs>>,
           \A t \in Thread : pc'[t] = "exit" <=> pc[t] = "exit"
    PROVE  Refined
<1>1. \A j \in Job : Doing(j)' = Doing(j)
  BY DEF Doing, Queued
<1>2. Open' = Open
  BY DEF Open
<1> QED
  BY <1>1, <1>2, StutterOK DEF Refined

(* A thread that moves, and does not leave.                                *)
LEMMA StaysOpen ==
    ASSUME TypeOK, NEW t \in Thread, NEW label, Goto(t, label), label # "exit",
           pc[t] # "exit"
    PROVE  /\ Open' = Open
           /\ \A u \in Thread : pc'[u] = "exit" <=> pc[u] = "exit"
  BY DEF Open, Goto, TypeOK

LEMMA MovesUnseen ==
    ASSUME Inv, InOrder, InOrder', UNCHANGED <<m_fibers, m_state, m_timers, m_events, cbs>>,
           NEW t \in Thread, NEW label, Goto(t, label), label # "exit", pc[t] # "exit"
    PROVE  Refined
  BY StaysOpen, Unseen DEF Inv

LEMMA SwapInSeen ==
    ASSUME Inv, InOrder, InOrder', NEW t \in Thread,
           SwapIn(t) \/ YieldToReady(t)
    PROVE  Refined
<1>1. PICK label, state :
        /\ label # "exit" /\ state \notin {"NONE", "TERM"}
        /\ pc[t] \in {"dispatch", "exec"} /\ Goto(t, label)
        /\ m_state' = [m_state EXCEPT ![job[t]] = state]
        /\ UNCHANGED <<m_fibers, m_timers, m_events, cbs>>
  BY DEF SwapIn, YieldToReady, Running, At, waits, locals
<1>2. m_state[job[t]] \notin {"NONE", "TERM"} /\ ~Waits(job[t])
  BY <1>1 DEF Inv, JobsOK, HandsOK, Hand
<1>3. \A j \in Job : Doing(j)' = Doing(j)
  <2> SUFFICES ASSUME NEW j \in Job PROVE Doing(j)' = Doing(j)
    OBVIOUS
  <2>1. Queued(j)' <=> Queued(j)
    BY <1>1 DEF Queued
  <2>2. m_state'[j] = m_state[j] \/ (m_state'[j] \notin {"NONE", "TERM"}
                                     /\ m_state[j] \notin {"NONE", "TERM"})
    BY <1>1, <1>2 DEF Inv, TypeOK
  <2> QED
    BY <1>1, <2>1, <2>2 DEF Doing
<1> QED
  BY <1>1, <1>3, StaysOpen, StutterOK DEF Refined, Inv

LEMMA FinishSeen ==
    ASSUME Inv, InOrder, InOrder', NEW t \in Thread, Finish(t)
    PROVE  Refined
<1>1. pc[t] = "exec" /\ Goto(t, "back") /\ UNCHANGED <<m_fibers, m_timers, m_events, cbs>>
  BY DEF Finish, Running, At, waits, locals
<1>2. PICK j \in Job : j = job[t]
  BY <1>1, InHands DEF Holding, Inv
<1>3. ~Waits(j) /\ m_state[j] = "EXEC" /\ m_state' = [m_state EXCEPT ![j] = "TERM"]
  BY <1>1, <1>2 DEF Finish, Inv, JobsOK, HandsOK, Hand
<1>4. \A i \in Job : Queued(i)' <=> Queued(i)
  BY <1>1 DEF Queued
<1>5. Doing(j) = "running" /\ Doing(j)' = "done"
  BY <1>1, <1>3, <1>4 DEF Doing, Queued, Waits, Inv, TypeOK
<1>6. \A i \in Job \ {j} : Doing(i)' = Doing(i)
  BY <1>1, <1>3, <1>4 DEF Doing, Inv, TypeOK
<1>7. AbstractPool!Become({j}, "running", "done")
  BY <1>1, <1>5, <1>6, StaysOpen, BecomeOK DEF Inv
<1> QED
  BY <1>7 DEF Refined, AbstractPool!Next, AbstractPool!End

LEMMA TakeSeen ==
    ASSUME Inv, InOrder, InOrder', NEW t \in Thread, NEW j \in Job, Take(t, j)
    PROVE  Refined
<1>1. /\ pc[t] = "take" /\ Goto(t, "dispatch")
      /\ j \in m_fibers /\ m_fibers' = m_fibers \ {j}
      /\ UNCHANGED <<m_state, m_timers, m_events, cbs>>
  BY DEF Take, At, waits
<1>2. /\ j \notin m_timers \cup m_events
      /\ \A u \in Thread : j \notin cbs[u]
  BY <1>1 DEF Inv, JobsOK, Apart
<1>3. m_state[j] \notin {"NONE", "TERM"}
  BY <1>1, WaitsKnown DEF Inv, Waits
<1>4. ~Queued(j)' /\ \A i \in Job \ {j} : Queued(i)' <=> Queued(i)
  BY <1>1, <1>2 DEF Queued
<1>5. Doing(j) = "ready" /\ Doing(j)' = "running"
  BY <1>1, <1>2, <1>3, <1>4 DEF Doing, Queued
<1>6. \A i \in Job \ {j} : Doing(i)' = Doing(i)
  BY <1>1, <1>4 DEF Doing
<1>7. AbstractPool!Become({j}, "ready", "running")
  BY <1>1, <1>5, <1>6, StaysOpen, BecomeOK DEF Inv
<1> QED
  BY <1>7 DEF Refined, AbstractPool!Next, AbstractPool!Start

LEMMA AfterSeen ==
    ASSUME Inv, InOrder, InOrder', NEW t \in Thread, After(t)
    PROVE  Refined
<1>1. pc[t] = "after" /\ Goto(t, "take") /\ UNCHANGED <<m_timers, m_events, cbs>>
  BY DEF After, At, waits
<1>2. PICK j \in Job : j = job[t]
  BY <1>1, InHands DEF Holding, Inv
<1>3. /\ m_fibers' = IF m_state[j] = "READY" THEN m_fibers \cup {j} ELSE m_fibers
      /\ m_state' = [m_state EXCEPT ![j] = IF @ = "EXEC" THEN "HOLD" ELSE @]
  BY <1>2 DEF After, schedule
<1>4. m_state[j] \in IF Waits(j) THEN {"EXEC"} ELSE {"READY", "TERM"}
  BY <1>1, <1>2 DEF Inv, JobsOK, HandsOK, Hand
<1>5. \A i \in Job \ {j} : Doing(i)' = Doing(i)
  <2>1. \A i \in Job \ {j} : (Queued(i)' <=> Queued(i)) /\ m_state'[i] = m_state[i]
    BY <1>1, <1>3 DEF Queued, Inv, TypeOK
  <2> QED
    BY <1>1, <2>1 DEF Doing
<1>6. Open' = Open
  BY <1>1, StaysOpen DEF Inv
<1>7. CASE m_state[j] = "READY"
  <2>1. Queued(j)' /\ ~Waits(j)
    BY <1>3, <1>4, <1>7 DEF Queued
  <2>2. Doing(j) = "running" /\ Doing(j)' = "ready"
    BY <1>7, <2>1 DEF Doing, Queued, Waits
  <2>3. AbstractPool!Become({j}, "running", "ready")
    BY <1>5, <1>6, <2>2, BecomeOK
  <2> QED
    BY <2>3 DEF Refined, AbstractPool!Next, AbstractPool!Again
<1>8. CASE m_state[j] # "READY"
  <2>1. Queued(j)' <=> Queued(j)
    BY <1>1, <1>3, <1>8 DEF Queued
  <2>2. m_state'[j] = IF m_state[j] = "EXEC" THEN "HOLD" ELSE m_state[j]
    BY <1>3 DEF Inv, TypeOK
  <2>3. Doing(j)' = Doing(j)
    BY <1>1, <1>4, <1>8, <2>1, <2>2 DEF Doing
  <2> QED
    BY <1>5, <1>6, <2>3, StutterOK DEF Refined
<1> QED
  BY <1>7, <1>8

(* A client submits while the pool is open: the creating thread before     *)
(* stop(), a job on the thread that runs it.                               *)
LEMMA ClientOpen ==
    ASSUME Inv, NEW c \in Thread \cup {Main}, Client(c)
    PROVE  Open # {}
<1>1. CASE c = Main
  <2>1. \A t \in Thread : pc[t] # "exit"
    BY <1>1 DEF Client, Inv, StopOK
  <2> QED
    BY <2>1, IOManagerAssumption DEF Open, IOManagerAssumption
<1>2. CASE c # Main
  BY <1>2 DEF Client, Running, At, Open
<1> QED
  BY <1>1, <1>2

LEMMA SubmitSeen ==
    ASSUME Inv, InOrder, InOrder', NEW c \in Thread \cup {Main}, NEW j \in Job,
           Submit(c, j)
    PROVE  Refined
<1>1. /\ m_fibers' = m_fibers \cup {j} /\ m_state[j] = "NONE"
      /\ m_state' = [m_state EXCEPT ![j] = "INIT"]
      /\ UNCHANGED <<m_timers, m_events, cbs, pc>>
  BY DEF Submit, schedule, waits, locals
<1>2. ~Waits(j)
  BY <1>1, NewIsFree DEF Inv
<1>3. Queued(j)' /\ \A i \in Job \ {j} : Queued(i)' <=> Queued(i)
  BY <1>1 DEF Queued
<1>4. Doing(j) = "new" /\ Doing(j)' = "ready"
  BY <1>1, <1>2, <1>3 DEF Doing, Queued, Waits
<1>5. \A i \in Job \ {j} : Doing(i)' = Doing(i)
  BY <1>1, <1>3 DEF Doing, Inv, TypeOK
<1>6. Open' = Open /\ Open # {}
  BY <1>1, ClientOpen DEF Open, Submit
<1>7. AbstractPool!Become({j}, "new", "ready")
  BY <1>4, <1>5, <1>6, BecomeOK
<1> QED
  BY <1>6, <1>7 DEF Refined, AbstractPool!Next, AbstractPool!Submit, Open

(* A job that waits from now on, of the state it had.                      *)
LEMMA WaitSeen ==
    ASSUME Inv, InOrder, InOrder', NEW j \in Job, ~Waits(j),
           j \in m_timers' \cup m_events',
           m_timers' \cup m_events' = m_timers \cup m_events \cup {j},
           \A i \in Job \ {j} : m_state'[i] = m_state[i],
           UNCHANGED <<m_fibers, cbs>>, Open' = Open
    PROVE  \/ AbstractPool!Become({j}, "new", "waiting") /\ m_state[j] = "NONE"
           \/ AbstractPool!Become({j}, "running", "waiting")
                /\ m_state[j] \notin {"NONE", "TERM"}
           \/ m_state[j] = "TERM"
<1>1. \A i \in Job : Queued(i)' <=> Queued(i)
  BY DEF Queued
<1>2. Doing(j)' = "waiting"
  BY <1>1 DEF Doing, Queued, Waits
<1>3. \A i \in Job \ {j} : Doing(i)' = Doing(i)
  BY <1>1 DEF Doing
<1>4. CASE m_state[j] = "NONE"
  <2>1. Doing(j) = "new"
    BY <1>4 DEF Doing, Queued, Waits
  <2> QED
    BY <1>2, <1>3, <1>4, <2>1, BecomeOK
<1>5. CASE m_state[j] \notin {"NONE", "TERM"}
  <2>1. Doing(j) = "running"
    BY <1>5 DEF Doing, Queued, Waits
  <2> QED
    BY <1>2, <1>3, <1>5, <2>1, BecomeOK
<1> QED
  BY <1>4, <1>5

LEMMA AddTimerSeen ==
    ASSUME Inv, InOrder, InOrder', NEW c \in Thread \cup {Main}, NEW j \in Job,
           AddTimer(c, j)
    PROVE  Refined
<1>1. /\ m_timers' = m_timers \cup {j} /\ m_events' = m_events /\ m_state[j] = "NONE"
      /\ m_state' = [m_state EXCEPT ![j] = "INIT"]
      /\ UNCHANGED <<m_fibers, cbs, pc>>
  BY DEF AddTimer, locals
<1>2. ~Waits(j)
  BY <1>1, NewIsFree DEF Inv
<1>3. \A i \in Job \ {j} : m_state'[i] = m_state[i]
  BY <1>1 DEF Inv, TypeOK
<1>4. AbstractPool!Become({j}, "new", "waiting")
  BY <1>1, <1>2, <1>3, WaitSeen DEF Open
<1> QED
  BY <1>4 DEF Refined, AbstractPool!Next, AbstractPool!Arm

LEMMA AddEventSeen ==
    ASSUME Inv, InOrder, InOrder', NEW t \in Thread, NEW j \in Job, AddEvent(t, j)
    PROVE  Refined
<1>1. /\ pc[t] = "exec" /\ m_events' = m_events \cup {j} /\ m_timers' = m_timers
      /\ UNCHANGED <<m_fibers, cbs>>
  BY DEF AddEvent, Running, At, locals
<1>2. CASE j = job[t]
  <2>1. Goto(t, "hold") /\ m_state' = m_state
    BY <1>2 DEF AddEvent
  <2>2. ~Waits(j) /\ m_state[j] = "EXEC"
    BY <1>1, <1>2 DEF Inv, JobsOK, HandsOK, Hand
  <2>3. AbstractPool!Become({j}, "running", "waiting")
    BY <1>1, <2>1, <2>2, StaysOpen, WaitSeen DEF Inv
  <2> QED
    BY <2>3 DEF Refined, AbstractPool!Next, AbstractPool!Wait
<1>3. CASE j # job[t]
  <2>1. m_state[j] = "NONE" /\ m_state' = [m_state EXCEPT ![j] = "INIT"] /\ pc' = pc
    BY <1>3 DEF AddEvent
  <2>2. ~Waits(j)
    BY <2>1, NewIsFree DEF Inv
  <2>3. \A i \in Job \ {j} : m_state'[i] = m_state[i]
    BY <2>1 DEF Inv, TypeOK
  <2>4. AbstractPool!Become({j}, "new", "waiting")
    BY <1>1, <2>1, <2>2, <2>3, WaitSeen DEF Open
  <2> QED
    BY <2>4 DEF Refined, AbstractPool!Next, AbstractPool!Arm
<1> QED
  BY <1>2, <1>3

(* Events that are triggered and timers that are collected.                *)
LEMMA FireSeen ==
    ASSUME Inv, InOrder, InOrder', NEW S \in SUBSET Job, S # {},
           S \subseteq m_timers \cup m_events,
           \A i \in Job : Queued(i)' <=> Queued(i) \/ i \in S,
           m_timers' \cup m_events' = (m_timers \cup m_events) \ S,
           UNCHANGED m_state, Open' = Open
    PROVE  Refined
<1>1. \A i \in S : Doing(i) = "waiting" /\ Doing(i)' = "ready"
  BY DEF Doing, Queued, Inv, JobsOK, Apart
<1>2. \A i \in Job \ S : Doing(i)' = Doing(i)
  BY DEF Doing
<1>3. AbstractPool!Become(S, "waiting", "ready")
  BY <1>1, <1>2, BecomeOK
<1> QED
  BY <1>3 DEF Refined, AbstractPool!Next, AbstractPool!Fire

LEMMA TriggerSeen ==
    ASSUME Inv, InOrder, InOrder', NEW t \in Thread, NEW j \in Job, triggerEvent(t, j),
           UNCHANGED <<m_state, m_timers, cbs, pc>>
    PROVE  Refined
<1>1. j \in m_events /\ m_events' = m_events \ {j} /\ m_fibers' = m_fibers \cup {j}
  BY DEF triggerEvent, schedule
<1>2. \A i \in Job : Queued(i)' <=> Queued(i) \/ i \in {j}
  BY <1>1 DEF Queued
<1>3. m_timers' \cup m_events' = (m_timers \cup m_events) \ {j}
  BY <1>1 DEF Inv, JobsOK, Apart
<1> QED
  BY <1>1, <1>2, <1>3, FireSeen DEF Open

LEMMA CollectSeen ==
    ASSUME Inv, InOrder, InOrder', NEW t \in Thread, Collect(t)
    PROVE  Refined
<1>1. /\ pc[t] = "collect" /\ cbs' = [cbs EXCEPT ![t] = due] /\ m_timers' = m_timers \ due
      /\ UNCHANGED <<m_fibers, m_state, m_events>>
      /\ Goto(t, IF due = {} THEN "events" ELSE "deliver")
      /\ due \subseteq m_timers /\ due \subseteq Job
  BY DEF Collect, At, queue, Inv, TypeOK
<1>2. cbs[t] = {}
  BY <1>1 DEF Inv, JobsOK, HandsOK, Hand
<1>3. Open' = Open
  BY <1>1, StaysOpen DEF Inv
<1>4. \A i \in Job : Queued(i)' <=> Queued(i) \/ i \in due
  BY <1>1, <1>2 DEF Queued, Inv, TypeOK
<1>5. m_timers' \cup m_events' = (m_timers \cup m_events) \ due
  BY <1>1 DEF Inv, JobsOK, Apart
<1>6. CASE due = {}
  <2>1. \A i \in Job : Doing(i)' = Doing(i)
    BY <1>1, <1>4, <1>6 DEF Doing
  <2> QED
    BY <1>3, <2>1, StutterOK DEF Refined
<1>7. CASE due # {}
  BY <1>1, <1>3, <1>4, <1>5, <1>7, FireSeen
<1> QED
  BY <1>6, <1>7

LEMMA DeliverSeen ==
    ASSUME Inv, InOrder, InOrder', NEW t \in Thread, Deliver(t)
    PROVE  Refined
<1>1. /\ pc[t] = "deliver" /\ cbs' = [cbs EXCEPT ![t] = {}]
      /\ m_fibers' = m_fibers \cup cbs[t] /\ Goto(t, "events")
      /\ UNCHANGED <<m_state, m_timers, m_events>>
  BY DEF Deliver, At, schedule, waits
<1>2. \A i \in Job : Queued(i)' <=> Queued(i)
  BY <1>1 DEF Queued, Inv, TypeOK
<1>3. \A i \in Job : Doing(i)' = Doing(i)
  BY <1>1, <1>2 DEF Doing
<1> QED
  BY <1>1, <1>3, StaysOpen, StutterOK DEF Refined, Inv

(* The last thread to leave: the others hold no job, and no job is EXEC    *)
(* that no thread holds, so that its empty scan saw an empty queue.        *)
LEMMA LastLeaves ==
    ASSUME Inv, NEW t \in Thread, pc[t] = "take", \A j \in m_fibers : ~Runnable(j),
           \A u \in Thread \ {t} : pc[u] = "exit"
    PROVE  \A j \in Job : Doing(j) \notin {"ready", "running"}
<1>1. \A u \in Thread : pc[u] \notin Holding /\ cbs[u] = {} /\ job[u] = None
  BY DEF Inv, JobsOK, HandsOK, Hand, Holding
<1>2. SUFFICES ASSUME NEW j \in Job PROVE Doing(j) \notin {"ready", "running"}
  OBVIOUS
<1>3. \A u \in Thread : job[u] # j
  BY <1>1, IOManagerAssumption DEF IOManagerAssumption
<1>4. m_state[j] \in IF Waits(j) THEN {"INIT", "HOLD", "READY"} ELSE {"NONE", "TERM"}
  BY <1>3 DEF Inv, JobsOK, FreeOK
<1>5. ~Queued(j)
  BY <1>1, <1>4 DEF Queued, Waits, Runnable
<1> QED
  BY <1>4, <1>5 DEF Doing, Waits, Queued

LEMMA TakeNothingSeen ==
    ASSUME Inv, InOrder, InOrder', NEW t \in Thread, TakeNothing(t)
    PROVE  Refined
<1>1. /\ pc[t] = "take" /\ \A j \in m_fibers : ~Runnable(j)
      /\ UNCHANGED <<m_fibers, m_state, m_timers, m_events, cbs>>
  BY DEF TakeNothing, At, queue, waits, locals
<1>2. CASE ~idleTerm[t]
  BY <1>1, <1>2, MovesUnseen DEF TakeNothing
<1>3. CASE idleTerm[t]
  <2>1. pc' = [pc EXCEPT ![t] = "exit"]
    BY <1>3 DEF TakeNothing, Goto
  <2>2. Open' = Open \ {t} /\ t \in Open
    BY <1>1, <2>1 DEF Open, Inv, TypeOK
  <2>3. Open' = {} => \A j \in Job : Status(j) \notin {"ready", "running"}
    <3>1. Open' = {} => \A u \in Thread \ {t} : pc[u] = "exit"
      BY <2>2 DEF Open
    <3> QED
      BY <1>1, <3>1, LastLeaves DEF InOrder
  <2>4. \A j \in Job : Doing(j)' = Doing(j)
    BY <1>1 DEF Doing, Queued
  <2>5. [j \in Job |-> Status(j)]' = [j \in Job |-> Status(j)]
    BY <2>4 DEF InOrder
  <2>6. AbstractPool!Leave(t)
    BY <2>2, <2>3, <2>5 DEF AbstractPool!Leave, Open
  <2> QED
    BY <2>6 DEF Refined, AbstractPool!Next
<1> QED
  BY <1>2, <1>3

LEMMA UnseenSteps ==
    ASSUME Inv, InOrder, InOrder', NEW t \in Thread,
           \/ Return(t) \/ YieldToHold(t) \/ EnterIdle(t) \/ stopping(t) \/ LeaveIdle(t)
           \/ WakeUp(t) \/ Timeout(t) \/ YieldIdle(t)
    PROVE  Refined
<1>1. /\ UNCHANGED <<m_fibers, m_state, m_timers, m_events, cbs>>
      /\ pc[t] # "exit"
  BY DEF Return, YieldToHold, EnterIdle, stopping, Ask, LeaveIdle, WakeUp, Timeout,
         YieldIdle, At, queue, waits, locals
<1>2. \E label : Goto(t, label) /\ label # "exit"
  BY DEF Return, YieldToHold, EnterIdle, stopping, Ask, LeaveIdle, WakeUp, Timeout,
         YieldIdle
<1> QED
  BY <1>1, <1>2, MovesUnseen

LEMMA StandingSteps ==
    ASSUME InOrder, InOrder',
           \/ UNCHANGED vars \/ Stop \/ StopTickle \/ Join
           \/ \E c \in Thread \cup {Main} : Tickle(c)
           \/ \E t \in Thread : Count(t) \/ Drain(t)
           \/ \E j \in Job : Due(j) \/ Ready(j)
    PROVE  Refined
<1>1. UNCHANGED <<m_fibers, m_state, m_timers, m_events, cbs, pc>>
  BY DEF vars, Stop, StopTickle, Join, Tickle, Count, Drain, Due, Ready, queue, waits, locals
<1> QED
  BY <1>1, Unseen

LEMMA CancelReportSeen ==
    ASSUME Inv, InOrder, InOrder', NEW t \in Thread, NEW j \in Job,
           CancelEvent(t, j) \/ Report(t, j)
    PROVE  Refined
<1>1. UNCHANGED <<m_state, m_timers, cbs, pc>>
  BY DEF CancelEvent, Report, locals
<1>2. CASE triggerEvent(t, j)
  BY <1>1, <1>2, TriggerSeen
<1>3. CASE UNCHANGED <<m_fibers, m_events>>
  BY <1>1, <1>3, Unseen
<1> QED
  BY <1>2, <1>3 DEF CancelEvent, Report

LEMMA ThreadSeen ==
    ASSUME Inv, InOrder, InOrder', NEW t \in Thread, Step(t)
    PROVE  Refined
<1>1. CASE Run(t)
  BY <1>1, TakeSeen, TakeNothingSeen, SwapInSeen, UnseenSteps, AfterSeen DEF Run
<1>2. CASE Body(t)
  BY <1>2, FinishSeen, SwapInSeen, UnseenSteps, AddEventSeen, CancelReportSeen,
     SubmitSeen, AddTimerSeen DEF Body
<1>3. CASE idle(t)
  BY <1>3, UnseenSteps, CollectSeen, DeliverSeen, CancelReportSeen, StandingSteps DEF idle
<1> QED
  BY <1>1, <1>2, <1>3, StandingSteps DEF Step

LEMMA StepSeen ==
    ASSUME Inv, InOrder, InOrder', [Next]_vars
    PROVE  Refined
<1>1. CASE Main_
  BY <1>1, StandingSteps DEF Main_
<1>2. CASE MainSubmits
  BY <1>2, SubmitSeen, AddTimerSeen DEF MainSubmits
<1>3. CASE \E t \in Thread : Step(t)
  BY <1>3, ThreadSeen
<1>4. CASE (\E j \in Job : Due(j) \/ Ready(j)) \/ UNCHANGED vars
  BY <1>4, StandingSteps
<1> QED
  BY <1>1, <1>2, <1>3, <1>4 DEF Next, Done

LEMMA InitSeen == Init => AbstractPool!Init
<1> SUFFICES ASSUME Init PROVE AbstractPool!Init
  OBVIOUS
<1>1. \A j \in Job : Doing(j) = "new"
  BY DEF Init, Doing, Queued
<1>2. InOrder
  BY InitOK, StatusNow
<1>3. Open = Thread
  BY DEF Init, Open
<1> QED
  BY <1>1, <1>2, <1>3 DEF AbstractPool!Init, InOrder, Open

(* The composition of run(), idle(), tickle() and stopping() implements    *)
(* the pool: every step of it starts, suspends, fires or ends jobs as Pool *)
(* allows, or is not seen, and the last thread leaves when no job is ready *)
(* or runs.                                                                *)
THEOREM ImplementsPool == Spec => PoolSpec
<1>1. Inv /\ Inv' /\ [Next]_vars => [AbstractPool!Next]_(AbstractPool!pool)
  BY StatusNow, StatusNext, StepSeen DEF Refined
<1> QED
  BY <1>1, InitSeen, Invariant, PTL DEF Spec, PoolSpec, AbstractPool!Spec
=============================================================================
