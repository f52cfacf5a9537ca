------------------------------ MODULE LogProofs ------------------------------
(***************************************************************************)
(* Proofs about Logger and LogConfig, for every number of loggers, threads *)
(* and documents: reconfiguring never takes an appender away under a       *)
(* thread that writes a line; the threads that log never wait for each     *)
(* other in a circle; appenders follow their logger's formatter; between   *)
(* two settings the loggers are as the variable says.                      *)
(*                                                                         *)
(* The first two rest on one invariant about the locks that log() holds    *)
(* (WritersOK) and one about what the lists of appenders hold (LoggersOK). *)
(* What an operation on a logger does to the threads that log is said by   *)
(* Undisturbed: whoever holds a lock keeps the list he is in.  The last    *)
(* rests on StepInv: how far a setter has come with the logger it is at.   *)
(* What a document converts to (WholeOnes) is shown by the least place at  *)
(* which it would be wrong, in place of an induction.                      *)
(***************************************************************************)
EXTENDS LogConfig, SequenceTheorems, WellFoundedInduction, TLAPS

Written == [kind : Kind, l_hasFormatter : BOOLEAN, l_formatter : Pattern]

WritersOK ==
    /\ lock \in [Name -> Writer \cup {Null}]
    /\ wpc \in [Writer -> {"idle", "lock", "write"}]
    /\ at \in [Writer -> Name] /\ next \in [Writer -> Nat \ {0}]
    /\ \A w \in Writer : wpc[w] # "write" => next[w] = 1
    /\ LockOrder

LoggersOK ==
    /\ l_formatter \in [Name -> Pattern]
    /\ l_appenders \in [Name -> Seq(Written)]

(* A setter that is about to set a formatter has one that parses.          *)
SettersOK ==
    /\ spc \in [Setter -> Places]
    /\ \A s \in Setter :
        spc[s] \in {"write", "format"} => Parsed(Definition(s).formatter) \in Pattern
    /\ new \in [Setter -> Value]
    /\ on = [s \in Setter |-> on[s]]

Within ==
    \A w \in Writer : wpc[w] = "write" =>
        lock[at[w]] = w /\ next[w] \in DOMAIN l_appenders[at[w]]

Inv == WritersOK /\ LoggersOK /\ SettersOK /\ Within

Undisturbed ==
    \A n \in Name : lock[n] # Null => DOMAIN l_appenders'[n] = DOMAIN l_appenders[n]

-----------------------------------------------------------------------------
(* What the operations on a logger do.                                     *)
LEMMA SetLevelOK ==
    ASSUME LoggersOK, NEW n, NEW level, setLevel(n, level)
    PROVE  LoggersOK' /\ Undisturbed
  BY DEF LoggersOK, setLevel, Undisturbed

LEMMA ClearAppendersOK ==
    ASSUME LoggersOK, NEW n, clearAppenders(n)
    PROVE  LoggersOK' /\ Undisturbed
<1>1. <<>> \in Seq(Written)
  OBVIOUS
<1>2. l_appenders' \in [Name -> Seq(Written)]
  BY <1>1 DEF LoggersOK, clearAppenders
<1> QED
  BY <1>2 DEF LoggersOK, clearAppenders, Undisturbed

LEMMA AddAppenderOK ==
    ASSUME LoggersOK, LogConfigAssumption, NEW n, NEW k \in Kind,
           NEW f \in Pattern \cup {Null}, addAppender(n, k, f)
    PROVE  LoggersOK' /\ Undisturbed
<1> DEFINE app == [kind |-> k, l_hasFormatter |-> f # Null,
                   l_formatter |-> IF f = Null THEN l_formatter[n] ELSE f]
<1>1. CASE n \in Name
  <2>1. app \in Written
    BY <1>1 DEF LoggersOK, Written
  <2>2. l_appenders[n] \in Seq(Written)
    BY <1>1 DEF LoggersOK
  <2>3. Append(l_appenders[n], app) \in Seq(Written)
    BY <2>1, <2>2, AppendProperties
  <2>4. l_appenders' = [l_appenders EXCEPT ![n] = Append(l_appenders[n], app)]
    BY DEF addAppender
  <2> HIDE DEF app
  <2>5. l_appenders' \in [Name -> Seq(Written)]
    BY <2>3, <2>4 DEF LoggersOK
  <2>6. Undisturbed
    BY <2>4 DEF LoggersOK, addAppender, Undisturbed
  <2> QED
    BY <2>5, <2>6 DEF LoggersOK, addAppender
<1>2. CASE n \notin Name
  <2>1. l_appenders' = l_appenders
    BY <1>2 DEF LoggersOK, addAppender
  <2> QED
    BY <2>1 DEF LoggersOK, addAppender, Undisturbed
<1> QED
  BY <1>1, <1>2

LEMMA DelAppenderOK ==
    ASSUME LoggersOK, NEW n \in Name, NEW i \in DOMAIN l_appenders[n], delAppender(n, i)
    PROVE  LoggersOK' /\ Undisturbed
<1> DEFINE list == l_appenders[n]
<1>1. list \in Seq(Written) /\ i \in 1 .. Len(list)
  BY DEF LoggersOK
<1>2. SubSeq(list, 1, i - 1) \in Seq(Written) /\ SubSeq(list, i + 1, Len(list)) \in Seq(Written)
  BY <1>1
<1>3. RemoveAt(list, i) \in Seq(Written)
  BY <1>2, ConcatProperties DEF RemoveAt
<1>4. l_appenders' = [l_appenders EXCEPT ![n] = RemoveAt(list, i)]
  BY DEF delAppender
<1> HIDE DEF list
<1>5. l_appenders' \in [Name -> Seq(Written)]
  BY <1>3, <1>4 DEF LoggersOK
<1>6. Undisturbed
  BY <1>4 DEF LoggersOK, delAppender, Undisturbed
<1> QED
  BY <1>5, <1>6 DEF LoggersOK, delAppender

LEMMA WriteFormatterOK ==
    ASSUME LoggersOK, NEW n, NEW f \in Pattern, writeFormatter(n, f)
    PROVE  LoggersOK' /\ Undisturbed
  BY DEF LoggersOK, writeFormatter, Undisturbed

LEMMA SetFormatterOK ==
    ASSUME LoggersOK, NEW n, NEW f \in Pattern, setFormatter(n, f)
    PROVE  LoggersOK' /\ Undisturbed
<1> DEFINE list == l_appenders[n]
           told == [i \in DOMAIN list |->
                       IF list[i].l_hasFormatter THEN list[i]
                       ELSE [list[i] EXCEPT !.l_formatter = f]]
<1>1. CASE n \in Name
  <2>1. list \in Seq(Written) /\ DOMAIN list = 1 .. Len(list) /\ Len(list) \in Nat
    BY <1>1 DEF LoggersOK
  <2>2. \A i \in DOMAIN list : list[i] \in Written
    BY <2>1
  <2>3. \A i \in DOMAIN list : told[i] \in Written
    BY <2>2 DEF Written
  <2>4. told \in Seq(Written) /\ DOMAIN told = DOMAIN list
    <3>1. DOMAIN told = 1 .. Len(list) /\ told \in [1 .. Len(list) -> Written]
      BY <2>1, <2>3
    <3> HIDE DEF told
    <3>2. told \in Seq(Written)
      BY <2>1, <3>1
    <3> QED
      BY <2>1, <3>1, <3>2
  <2>5. l_appenders' = [l_appenders EXCEPT ![n] = told]
    BY DEF setFormatter
  <2> HIDE DEF told
  <2>6. l_appenders' \in [Name -> Seq(Written)]
    BY <2>4, <2>5 DEF LoggersOK
  <2>7. Undisturbed
    BY <2>4, <2>5 DEF LoggersOK, Undisturbed
  <2> QED
    BY <2>6, <2>7 DEF LoggersOK, setFormatter
<1>2. CASE n \notin Name
  <2>1. l_appenders' = l_appenders
    BY <1>2 DEF LoggersOK, setFormatter
  <2> QED
    BY <2>1 DEF LoggersOK, setFormatter, Undisturbed
<1> QED
  BY <1>1, <1>2

(* So the threads that log are where they were.                            *)
LEMMA WithinKept ==
    ASSUME WritersOK, Within, LoggerAssumption, Undisturbed, UNCHANGED writers
    PROVE  WritersOK' /\ Within'
<1>1. WritersOK'
  BY DEF WritersOK, LockOrder, writers
<1>2. ASSUME NEW w \in Writer, wpc'[w] = "write"
      PROVE  lock'[at'[w]] = w /\ next'[w] \in DOMAIN l_appenders'[at'[w]]
  <2>1. wpc[w] = "write" /\ at'[w] = at[w] /\ next'[w] = next[w] /\ lock' = lock
    BY <1>2 DEF writers
  <2>2. at[w] \in Name /\ lock[at[w]] = w /\ w # Null /\ next[w] \in DOMAIN l_appenders[at[w]]
    BY <2>1 DEF WritersOK, Within, LoggerAssumption
  <2> QED
    BY <2>1, <2>2 DEF Undisturbed
<1> QED
  BY <1>1, <1>2 DEF Within

-----------------------------------------------------------------------------
(* The threads that log.                                                   *)
LEMMA IdleHoldsNone ==
    ASSUME WritersOK, NEW w \in Writer, NEW n \in Name, lock[n] = w
    PROVE  wpc[w] # "idle" /\ (wpc[w] = "lock" => n # Root /\ at[w] = Root)
  BY DEF WritersOK, LockOrder

LEMMA ReleaseOK ==
    ASSUME WritersOK, Within, LoggerAssumption, NEW w \in Writer, Release(w), UNCHANGED loggers
    PROVE  WritersOK' /\ Within'
<1>1. /\ lock' \in [Name -> Writer \cup {Null}]
      /\ wpc' \in [Writer -> {"idle", "lock", "write"}]
      /\ at' \in [Writer -> Name] /\ next' \in [Writer -> Nat \ {0}]
  BY DEF WritersOK, Release, LoggerAssumption
<1>2. \A n \in Name : lock'[n] # w
  BY DEF Release, WritersOK, LoggerAssumption
<1>3. \A u \in Writer : u # w => wpc'[u] = wpc[u] /\ at'[u] = at[u] /\ next'[u] = next[u]
  BY DEF Release, WritersOK
<1>4. wpc'[w] = "idle" /\ next'[w] = 1
  BY DEF Release, WritersOK
<1>5. \A n \in Name, u \in Writer : u # w => (lock'[n] = u <=> lock[n] = u)
  BY DEF Release, WritersOK, LoggerAssumption
<1>6. LockOrder'
  <2> SUFFICES ASSUME NEW u \in Writer, NEW n \in Name, lock'[n] = u
               PROVE  \/ n = at'[u] /\ wpc'[u] = "write"
                      \/ n # Root /\ at'[u] = Root /\ wpc'[u] # "idle"
    BY DEF LockOrder
  <2> QED
    BY <1>2, <1>3, <1>5 DEF WritersOK, LockOrder
<1>7. \A u \in Writer : wpc'[u] # "write" => next'[u] = 1
  BY <1>3, <1>4 DEF WritersOK
<1>8. ASSUME NEW u \in Writer, wpc'[u] = "write"
      PROVE  lock'[at'[u]] = u /\ next'[u] \in DOMAIN l_appenders'[at'[u]]
  <2>1. u # w /\ at[u] \in Name
    BY <1>4, <1>8 DEF WritersOK
  <2>2. lock[at[u]] = u /\ next[u] \in DOMAIN l_appenders[at[u]]
    BY <1>3, <1>8, <2>1 DEF Within
  <2> QED
    BY <1>3, <1>5, <2>1, <2>2 DEF loggers
<1> QED
  BY <1>1, <1>6, <1>7, <1>8 DEF WritersOK, Within

LEMMA LogOK ==
    ASSUME WritersOK, Within, NEW w \in Writer, NEW n \in Name, NEW level, Log(w, n, level)
    PROVE  WritersOK' /\ Within'
<1>1. \A m \in Name : lock[m] # w
  BY IdleHoldsNone DEF Log
<1>2. \A u \in Writer : u # w => wpc'[u] = wpc[u] /\ at'[u] = at[u]
  BY DEF Log, WritersOK
<1>3. wpc[w] = "idle" /\ wpc'[w] = "lock" /\ next' = next /\ lock' = lock
  BY DEF Log, WritersOK
<1>4. LockOrder'
  BY <1>1, <1>2, <1>3 DEF WritersOK, LockOrder
<1>5. WritersOK'
  BY <1>2, <1>3, <1>4 DEF WritersOK, Log
<1>6. Within'
  BY <1>2, <1>3 DEF Within, Log, loggers
<1> QED
  BY <1>5, <1>6

LEMMA LogHereOK ==
    ASSUME WritersOK, Within, LoggersOK, NEW w \in Writer, LogHere(w)
    PROVE  WritersOK' /\ Within'
<1> DEFINE n == at[w]
<1>1. n \in Name /\ wpc[w] = "lock" /\ next[w] = 1
  BY DEF LogHere, WritersOK
<1>2. 1 \in DOMAIN l_appenders[n]
  BY <1>1, EmptySeq DEF LogHere, LoggersOK
<1>3. /\ lock' = [lock EXCEPT ![n] = w] /\ lock[n] = Null
      /\ wpc' = [wpc EXCEPT ![w] = "write"]
      /\ at' = at /\ next' = next /\ l_appenders' = l_appenders
  BY DEF LogHere, Hold, loggers
<1> HIDE DEF n
<1>4. LockOrder'
  <2> SUFFICES ASSUME NEW u \in Writer, NEW m \in Name, lock'[m] = u
               PROVE  \/ m = at[u] /\ wpc'[u] = "write"
                      \/ m # Root /\ at[u] = Root /\ wpc'[u] # "idle"
    BY <1>3 DEF LockOrder
  <2>1. CASE m = n
    BY <1>1, <1>3, <2>1 DEF WritersOK, n
  <2>2. CASE m # n
    BY <1>3, <2>2 DEF WritersOK, LockOrder
  <2> QED
    BY <2>1, <2>2
<1>5. WritersOK'
  BY <1>1, <1>3, <1>4 DEF WritersOK
<1>6. ASSUME NEW u \in Writer, wpc'[u] = "write"
      PROVE  lock'[at'[u]] = u /\ next'[u] \in DOMAIN l_appenders'[at'[u]]
  <2>1. CASE u = w
    BY <1>1, <1>2, <1>3, <2>1 DEF WritersOK, n
  <2>2. CASE u # w
    <3>1. at[u] \in Name /\ lock[at[u]] = u /\ next[u] \in DOMAIN l_appenders[at[u]]
      BY <1>3, <1>6, <2>2 DEF Within, WritersOK
    <3>2. at[u] # n
      BY <1>3, <3>1, <2>2, LoggerAssumption DEF LoggerAssumption
    <3> QED
      BY <1>3, <3>1, <3>2 DEF WritersOK
  <2> QED
    BY <2>1, <2>2
<1> QED
  BY <1>5, <1>6 DEF Within

LEMMA LogRootOK ==
    ASSUME WritersOK, Within, NEW w \in Writer, LogRoot(w)
    PROVE  WritersOK' /\ Within'
<1> DEFINE n == at[w]
<1>1. n \in Name /\ n # Root /\ wpc[w] = "lock"
  BY DEF LogRoot, Parent, WritersOK
<1>2. /\ lock' = [lock EXCEPT ![n] = w] /\ lock[n] = Null
      /\ at' = [at EXCEPT ![w] = Root]
      /\ wpc' = wpc /\ next' = next /\ l_appenders' = l_appenders
  BY DEF LogRoot, Parent, Hold, loggers
<1> HIDE DEF n
<1>3. LockOrder'
  <2> SUFFICES ASSUME NEW u \in Writer, NEW m \in Name, lock'[m] = u
               PROVE  \/ m = at'[u] /\ wpc[u] = "write"
                      \/ m # Root /\ at'[u] = Root /\ wpc[u] # "idle"
    BY <1>2 DEF LockOrder
  <2>1. CASE m = n
    BY <1>1, <1>2, <2>1 DEF WritersOK
  <2>2. CASE m # n /\ u # w
    BY <1>2, <2>2 DEF WritersOK, LockOrder
  <2>3. CASE m # n /\ u = w
    BY <1>1, <1>2, <2>3, IdleHoldsNone DEF WritersOK
  <2> QED
    BY <2>1, <2>2, <2>3
<1>4. WritersOK'
  BY <1>1, <1>2, <1>3, LoggerAssumption DEF WritersOK, LoggerAssumption
<1>5. ASSUME NEW u \in Writer, wpc'[u] = "write"
      PROVE  lock'[at'[u]] = u /\ next'[u] \in DOMAIN l_appenders'[at'[u]]
  <2>1. u # w /\ at'[u] = at[u]
    BY <1>1, <1>2, <1>5 DEF WritersOK
  <2>2. at[u] \in Name /\ lock[at[u]] = u /\ next[u] \in DOMAIN l_appenders[at[u]]
    BY <1>2, <1>5 DEF Within, WritersOK
  <2>3. at[u] # n
    BY <1>2, <2>2, LoggerAssumption DEF LoggerAssumption
  <2> QED
    BY <1>2, <2>1, <2>2, <2>3 DEF WritersOK
<1> QED
  BY <1>4, <1>5 DEF Within

LEMMA WriteOK ==
    ASSUME WritersOK, Within, LoggersOK, NEW w \in Writer, Write(w)
    PROVE  WritersOK' /\ Within'
<1> DEFINE list == l_appenders[at[w]]
<1>1. /\ at[w] \in Name /\ wpc[w] = "write" /\ next[w] \in Nat \ {0}
      /\ list \in Seq(Written) /\ DOMAIN list = 1 .. Len(list) /\ Len(list) \in Nat
  BY DEF Write, WritersOK, LoggersOK
<1>2. CASE /\ next[w] < Len(list)
           /\ next' = [next EXCEPT ![w] = @ + 1]
           /\ UNCHANGED <<lock, wpc, at, line>>
  <2>1. next[w] + 1 \in DOMAIN list
    BY <1>1, <1>2
  <2>2. l_appenders' = l_appenders
    BY DEF Write, loggers
  <2>3. WritersOK'
    BY <1>1, <1>2 DEF WritersOK, LockOrder
  <2>4. Within'
    BY <1>1, <1>2, <2>1, <2>2 DEF Within, WritersOK
  <2> QED
    BY <2>3, <2>4
<1>3. CASE Release(w)
  BY <1>3, ReleaseOK, LoggerAssumption DEF Write
<1> QED
  BY <1>2, <1>3 DEF Write

LEMMA LoggerStep ==
    ASSUME WritersOK, Within, LoggersOK, LoggerNext
    PROVE  WritersOK' /\ Within' /\ LoggersOK'
<1>1. UNCHANGED loggers
  BY DEF LoggerNext, Log, LogHere, LogRoot, LogNowhere, Write
<1>2. LoggersOK'
  BY <1>1 DEF LoggersOK, loggers
<1>3. PICK w \in Writer :
        \/ \E n \in Name, level \in Line : Log(w, n, level)
        \/ LogHere(w) \/ LogRoot(w) \/ LogNowhere(w) \/ Write(w)
  BY DEF LoggerNext
<1>4. CASE LogNowhere(w)
  BY <1>1, <1>2, <1>4, ReleaseOK, LoggerAssumption DEF LogNowhere
<1> QED
  BY <1>2, <1>3, <1>4, LogOK, LogHereOK, LogRootOK, WriteOK

-----------------------------------------------------------------------------
(* The setters.                                                            *)
LEMMA SetterOK ==
    ASSUME Inv, NEW s \in Setter, LoggersOK', Undisturbed, UNCHANGED writers, SettersOK'
    PROVE  Inv'
  BY WithinKept, LoggerAssumption DEF Inv

LEMMA NextLoggerOK ==
    ASSUME Inv, NEW s \in Setter, NextLogger(s)
    PROVE  Inv'
<1>1. PICK n \in left[s] :
        /\ on' = [on EXCEPT ![s] = n]
        /\ setLevel(n, IF Defined(s, n) THEN new[s][n].level ELSE 0)
        /\ Goto(s, IF Defined(s, n) /\ Parsed(new[s][n].formatter) # Null
                   THEN "write" ELSE "clear")
  BY DEF NextLogger
<1>2. LoggersOK' /\ Undisturbed /\ UNCHANGED writers
  BY <1>1, SetLevelOK DEF Inv, NextLogger
<1>3. SettersOK'
  <2>1. spc' \in [Setter -> Places] /\ new' \in [Setter -> Value]
        /\ on' = [t \in Setter |-> on'[t]]
    BY <1>1 DEF Inv, SettersOK, Goto, Places, NextLogger
  <2>2. ASSUME NEW t \in Setter, spc'[t] \in {"write", "format"}
        PROVE  Parsed(new'[t][on'[t]].formatter) \in Pattern
    <3>1. CASE t = s
      <4>1. on'[s] = n /\ new' = new
        BY <1>1 DEF Inv, SettersOK, NextLogger
      <4>2. Parsed(new[s][n].formatter) # Null
        BY <1>1, <2>2, <3>1 DEF Inv, SettersOK, Goto
      <4> QED
        BY <3>1, <4>1, <4>2 DEF Parsed
    <3>2. CASE t # s
      BY <1>1, <2>2, <3>2 DEF Inv, SettersOK, Goto, Definition, NextLogger
    <3> QED
      BY <3>1, <3>2
  <2> QED
    BY <2>1, <2>2 DEF SettersOK, Definition
<1> QED
  BY <1>2, <1>3, SetterOK

(* The other steps of a setter.  What Goto leaves and where it goes:       *)
LEMMA GotoOK ==
    ASSUME SettersOK, NEW s \in Setter, NEW label \in Places, Goto(s, label),
           label = "write" => FALSE,
           label = "format" => spc[s] = "write" /\ on'[s] = on[s],
           new' = new, on' = [t \in Setter |-> on'[t]],
           \A t \in Setter : t # s => on'[t] = on[t]
    PROVE  SettersOK'
<1>1. spc' \in [Setter -> Places] /\ new' \in [Setter -> Value]
  BY DEF SettersOK, Goto
<1>2. ASSUME NEW t \in Setter, spc'[t] \in {"write", "format"}
      PROVE  Parsed(new'[t][on'[t]].formatter) \in Pattern
  BY <1>2 DEF SettersOK, Goto, Definition
<1> QED
  BY <1>1, <1>2 DEF SettersOK, Definition

LEMMA CallOK ==
    ASSUME Inv, NEW s \in Setter,
           CallWrite(s) \/ CallSetFormatter(s) \/ CallClear(s) \/ CallAdd(s) \/ Notified(s)
    PROVE  Inv'
<1> USE DEF Inv
<1>0. on = [t \in Setter |-> on[t]]
  BY DEF SettersOK
<1>1. CASE CallWrite(s)
  <2>1. Parsed(Definition(s).formatter) \in Pattern
    BY <1>1 DEF CallWrite, SettersOK
  <2>2. LoggersOK' /\ Undisturbed
    BY <1>1, <2>1, WriteFormatterOK DEF CallWrite
  <2>3. SettersOK'
    BY <1>0, <1>1, GotoOK DEF CallWrite, Places
  <2> QED
    BY <1>1, <2>2, <2>3, SetterOK DEF CallWrite
<1>2. CASE CallSetFormatter(s)
  <2>1. Parsed(Definition(s).formatter) \in Pattern
    BY <1>2 DEF CallSetFormatter, SettersOK
  <2>2. LoggersOK' /\ Undisturbed
    BY <1>2, <2>1, SetFormatterOK DEF CallSetFormatter
  <2>3. SettersOK'
    BY <1>0, <1>2, GotoOK DEF CallSetFormatter, Places
  <2> QED
    BY <1>2, <2>2, <2>3, SetterOK DEF CallSetFormatter
<1>3. ASSUME NEW i, Appended(s, i), new' = new
      PROVE  SettersOK'
  <2>1. on' = [t \in Setter |-> on'[t]] /\ \A t \in Setter : t # s => on'[t] = on[t]
    BY <1>0, <1>3 DEF Appended
  <2>2. Goto(s, "add") \/ Goto(s, "notify")
    BY <1>3 DEF Appended
  <2> QED
    BY <1>3, <2>1, <2>2, GotoOK DEF Places
<1>4. CASE CallClear(s)
  <2>1. LoggersOK' /\ Undisturbed
    BY <1>4, ClearAppendersOK DEF CallClear
  <2> QED
    BY <1>3, <1>4, <2>1, SetterOK DEF CallClear
<1>5. CASE CallAdd(s)
  <2> DEFINE a == Definition(s).appenders[nth[s]]
  <2>1. a.type \in Kind /\ addAppender(on[s], a.type, Parsed(a.formatter))
    BY <1>5 DEF CallAdd
  <2>2. Parsed(a.formatter) \in Pattern \cup {Null}
    BY DEF Parsed
  <2>3. LoggersOK' /\ Undisturbed
    BY <2>1, <2>2, AddAppenderOK, LogConfigAssumption
  <2> QED
    BY <1>3, <1>5, <2>3, SetterOK DEF CallAdd
<1>6. CASE Notified(s)
  <2>1. LoggersOK' /\ Undisturbed
    BY <1>6 DEF Notified, loggers, LoggersOK, Undisturbed
  <2>2. SettersOK'
    BY <1>0, <1>6, GotoOK DEF Notified, Places
  <2> QED
    BY <1>6, <2>1, <2>2, SetterOK DEF Notified
<1> QED
  BY <1>1, <1>2, <1>4, <1>5, <1>6

LEMMA NoLoggerIsValue == NoLogger \in Value
  BY DEF Value

LEMMA LoadOK ==
    ASSUME Inv, NEW s \in Setter, NEW doc \in Document, Load(s, doc)
    PROVE  Inv'
<1>1. LoggersOK' /\ Undisturbed /\ UNCHANGED writers
  BY DEF Inv, Load, SetValue, loggers, LoggersOK, Undisturbed
<1>2. Convert(doc) \in Value
  BY DEF Load, Value
<1>3. SettersOK'
  <2>1. spc' \in [Setter -> Places] /\ new' \in [Setter -> Value] /\ on' = on
    BY <1>2 DEF Inv, Load, SetValue, SettersOK, Places
  <2>2. ASSUME NEW t \in Setter, spc'[t] \in {"write", "format"}
        PROVE  Parsed(new'[t][on'[t]].formatter) \in Pattern
    <3>1. t # s /\ spc'[t] = spc[t] /\ new'[t] = new[t]
      BY <2>2 DEF Inv, Load, SetValue, SettersOK
    <3> QED
      BY <2>1, <2>2, <3>1 DEF Inv, SettersOK, Definition
  <2> QED
    BY <2>1, <2>2 DEF Inv, SettersOK, Definition
<1> QED
  BY <1>1, <1>3, SetterOK

LEMMA AssignOK ==
    ASSUME Inv, NEW s \in Setter, Assign(s)
    PROVE  Inv'
<1>1. LoggersOK' /\ Undisturbed /\ UNCHANGED writers
  BY DEF Inv, Assign, loggers, LoggersOK, Undisturbed
<1>2. SettersOK'
  <2>1. spc' \in [Setter -> Places] /\ new' \in [Setter -> Value] /\ on' = on
    BY NoLoggerIsValue DEF Inv, Assign, Goto, SettersOK, Places
  <2>2. ASSUME NEW t \in Setter, spc'[t] \in {"write", "format"}
        PROVE  FALSE
    BY <2>2 DEF Inv, Assign, Goto, SettersOK
  <2> QED
    BY <2>1, <2>2 DEF Inv, SettersOK, Definition
<1> QED
  BY <1>1, <1>2, SetterOK

LEMMA AdminOK ==
    ASSUME Inv, NEW n \in Name, Admin(n)
    PROVE  Inv'
<1>1. LoggersOK' /\ Undisturbed
  <2>1. CASE \E level \in Level \ {0} : setLevel(n, level)
    BY <2>1, SetLevelOK DEF Inv
  <2>2. CASE \E f \in Pattern : setFormatter(n, f)
    BY <2>2, SetFormatterOK DEF Inv
  <2>3. CASE clearAppenders(n)
    BY <2>3, ClearAppendersOK DEF Inv
  <2>4. CASE \E f \in Pattern \cup {Null} : addAppender(n, StdOut, f)
    BY <2>4, AddAppenderOK, LogConfigAssumption DEF Inv, Kind
  <2>5. CASE \E i \in DOMAIN l_appenders[n] : delAppender(n, i)
    BY <2>5, DelAppenderOK DEF Inv
  <2> QED
    BY <2>1, <2>2, <2>3, <2>4, <2>5 DEF Admin
<1>2. SettersOK' /\ UNCHANGED writers
  BY DEF Inv, Admin, SettersOK, Definition
<1> QED
  BY <1>1, <1>2, WithinKept, LoggerAssumption DEF Inv

-----------------------------------------------------------------------------
LEMMA InitOK == Init => Inv
<1> SUFFICES ASSUME Init PROVE Inv
  OBVIOUS
<1> USE LoggerAssumption DEF LoggerAssumption, Init, LoggerInit
<1>1. WritersOK
  BY DEF WritersOK, LockOrder
<1>2. LoggersOK
  <2>1. [kind |-> StdOut, l_hasFormatter |-> FALSE, l_formatter |-> Default] \in Written
    BY LogConfigAssumption DEF LogConfigAssumption, Written, Kind
  <2> QED
    BY <2>1, LogConfigAssumption DEF LoggersOK, LogConfigAssumption
<1>3. SettersOK
  BY NoLoggerIsValue DEF SettersOK, Places, Idle
<1>4. Within
  BY DEF Within
<1> QED
  BY <1>1, <1>2, <1>3, <1>4 DEF Inv

LEMMA NextOK == Inv /\ [Next]_vars => Inv'
<1> SUFFICES ASSUME Inv, [Next]_vars PROVE Inv'
  OBVIOUS
<1>1. CASE SetterNext
  BY <1>1, LoadOK, NextLoggerOK, CallOK, AssignOK DEF SetterNext
<1>2. CASE LoggerNext /\ UNCHANGED config
  <2>1. SettersOK'
    BY <1>2 DEF Inv, SettersOK, Definition, config
  <2> QED
    BY <1>2, <2>1, LoggerStep DEF Inv
<1>3. CASE \E n \in Managed : Admin(n)
  BY <1>3, AdminOK, LogConfigAssumption DEF LogConfigAssumption
<1>4. CASE UNCHANGED vars
  BY <1>4 DEF vars, loggers, writers, config, Inv, WritersOK, LockOrder, LoggersOK,
              SettersOK, Definition, Within
<1> QED
  BY <1>1, <1>2, <1>3, <1>4 DEF Next

THEOREM Invariant == Spec => []Inv
  BY InitOK, NextOK, PTL DEF Spec

(* A thread that writes a line holds its logger, is within the list of     *)
(* appenders, and the one it is at has a formatter, whoever reconfigures   *)
(* the loggers meanwhile.                                                  *)
THEOREM LinesSafe == Spec => []WriteSafe
<1>1. Inv => WriteSafe
  <2> SUFFICES ASSUME Inv, NEW w \in Writer, wpc[w] = "write"
               PROVE  /\ lock[at[w]] = w
                      /\ next[w] \in DOMAIN l_appenders[at[w]]
                      /\ l_appenders[at[w]][next[w]].l_formatter # Null
    BY DEF WriteSafe
  <2>1. lock[at[w]] = w /\ next[w] \in DOMAIN l_appenders[at[w]]
    BY DEF Inv, Within
  <2>2. l_appenders[at[w]] \in Seq(Written)
    BY DEF Inv, LoggersOK, WritersOK
  <2>3. l_appenders[at[w]][next[w]] \in Written
    BY <2>1, <2>2
  <2> QED
    BY <2>1, <2>3, LogConfigAssumption DEF Written, LogConfigAssumption
<1> QED
  BY <1>1, Invariant, PTL

(* The threads that log never wait for each other in a circle: a logger's  *)
(* lock is taken before the root logger's, never after.                    *)
THEOREM NoCircle == Spec => []NobodyStuck
<1>1. Inv => NobodyStuck
  <2> SUFFICES ASSUME Inv, \A w \in Writer : wpc[w] # "write",
                      NEW n \in Name, lock[n] # Null
               PROVE  \E w \in Writer : wpc[w] = "lock" /\ lock[at[w]] = Null
    BY DEF NobodyStuck
  <2>1. lock[n] \in Writer
    BY DEF Inv, WritersOK
  <2>2. at[lock[n]] = Root /\ wpc[lock[n]] = "lock"
    BY <2>1 DEF Inv, WritersOK, LockOrder
  <2>3. lock[Root] \notin Writer
    BY LoggerAssumption DEF Inv, WritersOK, LockOrder, LoggerAssumption
  <2>4. lock[Root] = Null
    BY <2>3, LoggerAssumption DEF Inv, WritersOK, LoggerAssumption
  <2> QED
    BY <2>1, <2>2, <2>4
<1> QED
  BY <1>1, Invariant, PTL

-----------------------------------------------------------------------------
(* The conversion of a document (LexicalCast, logger.cc and config.h).     *)
(* What its loop over the appenders yields is shown by the least prefix    *)
(* for which it were not so.                                               *)
LEMMA LeastNat ==
    ASSUME NEW T \in SUBSET Nat, T # {}
    PROVE  \E x \in T : \A y \in T : ~(y < x)
<1> DEFINE R == {p \in Nat \X Nat : p[1] < p[2]}
<1>1. IsWellFoundedOn(R, Nat)
  BY NatLessThanWellFounded DEF OpToRel
<1> HIDE DEF R
<1>2. PICK x \in T : \A y \in T : <<y, x>> \notin R
  BY <1>1, WFMin
<1>3. \A y \in T : ~(y < x)
  BY <1>2 DEF R
<1> QED
  BY <1>3

(* One turn of the loop.                                                   *)
Turn(list, a) ==
    IF Whole(a) THEN Append(list, [type |-> a.type, formatter |-> a.formatter]) ELSE list

LEMMA TurnType ==
    ASSUME NEW list \in Seq(AppenderDef), NEW a \in AppenderEntry
    PROVE  Turn(list, a) \in Seq(AppenderDef)
<1>1. CASE Whole(a)
  <2>1. [type |-> a.type, formatter |-> a.formatter] \in AppenderDef
    BY <1>1 DEF Whole, AppenderEntry, AppenderDef
  <2>2. Append(list, [type |-> a.type, formatter |-> a.formatter]) \in Seq(AppenderDef)
    BY <2>1, AppendProperties
  <2> QED
    BY <1>1, <2>2 DEF Turn
<1>2. CASE ~Whole(a)
  BY <1>2 DEF Turn
<1> QED
  BY <1>1, <1>2

(* The first m turns.                                                      *)
Turns(entries, m, f) ==
    /\ f = [i \in 0 .. m |-> f[i]]
    /\ f[0] = <<>> /\ \A i \in 1 .. m : f[i] = Turn(f[i - 1], entries[i])

LEMMA TurnsExist ==
    ASSUME NEW entries \in Seq(AppenderEntry), NEW n \in 0 .. Len(entries)
    PROVE  \E f : Turns(entries, n, f)
<1> DEFINE T == {m \in 0 .. Len(entries) : ~ \E f : Turns(entries, m, f)}
<1> SUFFICES ASSUME T # {} PROVE FALSE
  OBVIOUS
<1>1. PICK m \in T : \A y \in T : ~(y < m)
  <2>1. T \in SUBSET Nat /\ T # {}
    OBVIOUS
  <2> HIDE DEF T
  <2> QED
    BY <2>1, LeastNat
<1>2. m \in 0 .. Len(entries) /\ m \in Nat /\ Len(entries) \in Nat
  OBVIOUS
<1>3. CASE m = 0
  <2> DEFINE f == [i \in 0 .. 0 |-> <<>>]
  <2>1. f = [i \in 0 .. m |-> f[i]] /\ f[0] = <<>> /\ 1 .. m = {}
    BY <1>3
  <2> HIDE DEF f
  <2>2. Turns(entries, m, f)
    BY <2>1 DEF Turns
  <2> QED
    BY <2>2
<1>4. CASE m # 0
  <2>1. m - 1 \in 0 .. Len(entries) /\ m - 1 < m
    BY <1>2, <1>4
  <2>2. PICK f : Turns(entries, m - 1, f)
    BY <1>1, <2>1
  <2> DEFINE g == [i \in 0 .. m |-> IF i = m THEN Turn(f[m - 1], entries[m]) ELSE f[i]]
  <2>3. g = [i \in 0 .. m |-> g[i]]
    OBVIOUS
  <2>4. g[0] = <<>>
    BY <1>2, <1>4, <2>2 DEF Turns
  <2>5. ASSUME NEW i \in 1 .. m
        PROVE  g[i] = Turn(g[i - 1], entries[i])
    <3>1. i - 1 \in 0 .. m /\ i - 1 # m /\ i \in 0 .. m
      BY <1>2, <2>5
    <3>2. CASE i = m
      BY <3>1, <3>2
    <3>3. CASE i # m
      <4>1. i \in 1 .. m - 1
        BY <1>2, <2>5, <3>3
      <4>2. f[i] = Turn(f[i - 1], entries[i])
        BY <2>2, <4>1 DEF Turns
      <4> QED
        BY <3>1, <3>3, <4>2
    <3> QED
      BY <3>2, <3>3
  <2> HIDE DEF g
  <2>6. Turns(entries, m, g)
    BY <2>3, <2>4, <2>5 DEF Turns
  <2> QED
    BY <2>6
<1> QED
  BY <1>3, <1>4

LEMMA TurnsType ==
    ASSUME NEW entries \in Seq(AppenderEntry), NEW n \in 0 .. Len(entries),
           NEW f, Turns(entries, n, f)
    PROVE  f[n] \in Seq(AppenderDef)
<1> DEFINE T == {m \in 0 .. n : f[m] \notin Seq(AppenderDef)}
<1> SUFFICES ASSUME T # {} PROVE FALSE
  OBVIOUS
<1>0. Len(entries) \in Nat /\ n \in Nat
  OBVIOUS
<1>1. PICK m \in T : \A y \in T : ~(y < m)
  <2>1. T \in SUBSET Nat /\ T # {}
    BY <1>0
  <2> HIDE DEF T
  <2> QED
    BY <2>1, LeastNat
<1>2. m \in Nat /\ m # 0 /\ m \in 1 .. n
  BY <1>0 DEF Turns
<1>3. f[m - 1] \in Seq(AppenderDef) /\ entries[m] \in AppenderEntry
  BY <1>0, <1>1, <1>2
<1>4. f[m] = Turn(f[m - 1], entries[m])
  BY <1>2 DEF Turns
<1> QED
  BY <1>3, <1>4, TurnType

LEMMA WholeOnesType ==
    ASSUME NEW entries \in Seq(AppenderEntry)
    PROVE  WholeOnes(entries) \in Seq(AppenderDef)
<1> DEFINE n == Len(entries)
           Kept(f) == f = [i \in 0 .. n |-> IF i = 0 THEN <<>>
                             ELSE IF Whole(entries[i])
                                  THEN Append(f[i - 1], [type |-> entries[i].type,
                                                         formatter |-> entries[i].formatter])
                                  ELSE f[i - 1]]
<1>0. n \in Nat /\ n \in 0 .. n
  OBVIOUS
<1>1. WholeOnes(entries) = (CHOOSE f : Kept(f))[n]
  BY DEF WholeOnes
<1>2. \E f : Kept(f)
  <2>1. PICK f : Turns(entries, n, f)
    BY <1>0, TurnsExist
  <2>2. \A i \in 0 .. n : f[i] = IF i = 0 THEN <<>> ELSE Turn(f[i - 1], entries[i])
    BY <1>0, <2>1 DEF Turns
  <2>3. f = [i \in 0 .. n |-> IF i = 0 THEN <<>> ELSE Turn(f[i - 1], entries[i])]
    BY <2>1, <2>2 DEF Turns
  <2>4. Kept(f)
    BY <2>3 DEF Turn
  <2> QED
    BY <2>4
<1>3. PICK f : Kept(f) /\ WholeOnes(entries) = f[n]
  <2> HIDE DEF Kept
  <2> QED
    BY <1>1, <1>2
<1>4. Turns(entries, n, f)
  <2>1. f = [i \in 0 .. n |-> IF i = 0 THEN <<>> ELSE Turn(f[i - 1], entries[i])]
    BY <1>3 DEF Turn
  <2>2. f = [i \in 0 .. n |-> f[i]]
    BY <2>1
  <2>3. f[0] = <<>> /\ \A i \in 1 .. n : f[i] = Turn(f[i - 1], entries[i])
    BY <1>0, <2>1
  <2> QED
    BY <2>2, <2>3 DEF Turns
<1> QED
  BY <1>0, <1>3, <1>4, TurnsType

(* A document's value: definitions of loggers, by name.                    *)
LEMMA ConvertType ==
    ASSUME NEW doc \in Seq(Entry), Converts(doc)
    PROVE  /\ DOMAIN Convert(doc) \subseteq Name
           /\ \A n \in DOMAIN Convert(doc) : Convert(doc)[n] \in Def
<1>0. DOMAIN doc = 1 .. Len(doc) /\ Len(doc) \in Nat /\ \A i \in DOMAIN doc : doc[i] \in Entry
  OBVIOUS
<1> DEFINE First(n, i) == doc[i].name = n /\ \A j \in 1 .. i - 1 : doc[j].name # n
<1>1. DOMAIN Convert(doc) = {doc[i].name : i \in DOMAIN doc}
  BY DEF Convert
<1>2. DOMAIN Convert(doc) \subseteq Name
  BY <1>0, <1>1 DEF Converts, Entry
<1>3. ASSUME NEW n \in DOMAIN Convert(doc)
      PROVE  Convert(doc)[n] \in Def
  <2> DEFINE T == {i \in DOMAIN doc : doc[i].name = n}
  <2>1. T # {} /\ T \in SUBSET Nat
    BY <1>0, <1>1
  <2>2. PICK i \in T : \A y \in T : ~(y < i)
    BY <2>1, LeastNat
  <2>3. First(n, i)
    BY <1>0, <2>2
  <2>4. \E k \in DOMAIN doc : First(n, k)
    BY <2>3
  <2>5. Convert(doc)[n] = ToDef(doc[CHOOSE k \in DOMAIN doc : First(n, k)])
    BY <1>1 DEF Convert
  <2> HIDE DEF First
  <2>6. (CHOOSE k \in DOMAIN doc : First(n, k)) \in DOMAIN doc
    BY <2>4
  <2>7. PICK e \in Entry : Convert(doc)[n] = ToDef(e)
    BY <1>0, <2>5, <2>6
  <2>8. WholeOnes(e.appenders) \in Seq(AppenderDef)
    BY WholeOnesType DEF Entry
  <2> QED
    BY <2>7, <2>8 DEF ToDef, Def, Entry
<1> QED
  BY <1>2, <1>3

LEMMA ValueType ==
    ASSUME NEW v \in Value
    PROVE  DOMAIN v \subseteq Name /\ \A n \in DOMAIN v : v[n] \in Def
<1>1. CASE v = NoLogger
  <2>1. <<>> \in Seq(Entry) /\ DOMAIN <<>> = {} 
    OBVIOUS
  <2>2. Converts(<<>>)
    BY <2>1 DEF Converts
  <2> QED
    BY <1>1, <2>1, <2>2, ConvertType DEF NoLogger
<1>2. CASE v # NoLogger
  <2>1. PICK doc \in Document : Converts(doc) /\ v = Convert(doc)
    BY <1>2 DEF Value
  <2> QED
    BY <2>1, ConvertType, LogConfigAssumption DEF LogConfigAssumption
<1> QED
  BY <1>1, <1>2

-----------------------------------------------------------------------------
(* The types of the rest, and the appender that a setter is to add.        *)
AddOK ==
    \A s \in Setter : spc[s] = "add" =>
        Defined(s, on[s]) /\ nth[s] \in DOMAIN Definition(s).appenders

RestOK ==
    /\ l_level \in [Name -> Level] /\ line \in [Writer -> Level]
    /\ m_val \in Value /\ mixed \subseteq Name
    /\ left \in [Setter -> SUBSET Name] /\ on \in [Setter -> Name] /\ nth \in [Setter -> Nat]
    /\ AddOK

(* A setter's value is of a value's type, and so is the logger at hand.    *)
LEMMA NewType ==
    ASSUME SettersOK, NEW s \in Setter
    PROVE  /\ new[s] \in Value /\ DOMAIN new[s] \subseteq Name
           /\ \A n \in DOMAIN new[s] :
                /\ new[s][n] \in Def /\ new[s][n].level \in Level
                /\ new[s][n].appenders \in Seq(AppenderDef)
                /\ DOMAIN new[s][n].appenders = 1 .. Len(new[s][n].appenders)
                /\ Len(new[s][n].appenders) \in Nat
<1>1. new[s] \in Value
  BY DEF SettersOK
<1>2. ASSUME NEW n \in DOMAIN new[s]
      PROVE  /\ new[s][n] \in Def /\ new[s][n].level \in Level
             /\ new[s][n].appenders \in Seq(AppenderDef)
  BY <1>1, ValueType DEF Def
<1> QED
  BY <1>1, <1>2, ValueType

LEMMA AppendedRest ==
    ASSUME SettersOK, RestOK, NEW s \in Setter, NEW i \in Nat \ {0}, Appended(s, i),
           UNCHANGED new
    PROVE  on' \in [Setter -> Name] /\ nth' \in [Setter -> Nat] /\ AddOK'
<1>1. on' \in [Setter -> Name] /\ nth' \in [Setter -> Nat]
  BY LoggerAssumption DEF Appended, RestOK, LoggerAssumption
<1>2. ASSUME NEW t \in Setter, spc'[t] = "add"
      PROVE  on'[t] \in DOMAIN new'[t] /\ nth'[t] \in DOMAIN new'[t][on'[t]].appenders
  <2>1. CASE t # s
    BY <1>2, <2>1 DEF Appended, Goto, SettersOK, RestOK, AddOK, Defined, Definition
  <2>2. CASE t = s
    <3>1. /\ on[s] \in DOMAIN new[s] /\ i <= Len(new[s][on[s]].appenders)
          /\ nth' = [nth EXCEPT ![s] = i] /\ on' = on
      BY <1>2, <2>2 DEF Appended, Goto, SettersOK, Defined, Definition
    <3>2. i \in DOMAIN new[s][on[s]].appenders
      BY <3>1, NewType
    <3> QED
      BY <2>2, <3>1, <3>2 DEF RestOK
  <2> QED
    BY <2>1, <2>2
<1> QED
  BY <1>1, <1>2 DEF AddOK, Defined, Definition

LEMMA RestSetter ==
    ASSUME Inv, RestOK, NEW s \in Setter,
           \/ \E doc \in Document : Load(s, doc)
           \/ NextLogger(s) \/ CallWrite(s) \/ CallSetFormatter(s)
           \/ CallClear(s) \/ CallAdd(s) \/ Notified(s) \/ Assign(s)
    PROVE  RestOK'
<1> USE DEF RestOK
<1>0. SettersOK /\ spc \in [Setter -> Places] /\ new \in [Setter -> Value]
  BY DEF Inv, SettersOK
<1>1. ASSUME NEW doc \in Document, Load(s, doc)
      PROVE  RestOK'
  <2>1. /\ spc' = [spc EXCEPT ![s] = "notify"] /\ new' = [new EXCEPT ![s] = Convert(doc)]
        /\ left' = [left EXCEPT ![s] = Changed(m_val, Convert(doc)) \cup Gone(m_val, Convert(doc))]
        /\ mixed' \in {mixed, Name}
        /\ UNCHANGED <<m_val, on, nth, l_level, line>>
    BY <1>1 DEF Load, SetValue, loggers, writers
  <2>2. Convert(doc) \in Value
    BY <1>1 DEF Load, Value
  <2>3. Changed(m_val, Convert(doc)) \cup Gone(m_val, Convert(doc)) \subseteq Name
    BY <2>2, ValueType DEF Changed, Gone
  <2>4. AddOK'
    BY <1>0, <2>1 DEF AddOK, Defined, Definition
  <2> QED
    BY <2>1, <2>3, <2>4
<1>2. CASE NextLogger(s)
  <2>1. PICK n \in left[s] :
          /\ left' = [left EXCEPT ![s] = @ \ {n}] /\ on' = [on EXCEPT ![s] = n]
          /\ setLevel(n, IF Defined(s, n) THEN new[s][n].level ELSE 0)
          /\ Goto(s, IF Defined(s, n) /\ Parsed(new[s][n].formatter) # Null
                     THEN "write" ELSE "clear")
    BY <1>2 DEF NextLogger
  <2>2. n \in Name /\ UNCHANGED <<m_val, new, nth, mixed, line>>
    BY <1>2 DEF NextLogger, writers
  <2>3. (IF Defined(s, n) THEN new[s][n].level ELSE 0) \in Level
    BY <1>0, NewType, LoggerAssumption DEF Defined, LoggerAssumption
  <2>4. l_level' \in [Name -> Level]
    BY <2>1, <2>3 DEF setLevel
  <2>5. AddOK'
    BY <1>0, <2>1, <2>2 DEF AddOK, Defined, Definition, Goto
  <2> QED
    BY <2>1, <2>2, <2>4, <2>5
<1>3. CASE CallWrite(s) \/ CallSetFormatter(s) \/ Notified(s) \/ Assign(s)
  <2>1. /\ UNCHANGED <<left, on, nth, mixed, l_level, line>>
        /\ \E label \in {"format", "clear", "assign", "idle"} : Goto(s, label)
        /\ new' = new \/ new' = [new EXCEPT ![s] = NoLogger]
        /\ m_val' = m_val \/ m_val' = new[s]
    BY <1>3 DEF CallWrite, CallSetFormatter, Notified, Assign, writeFormatter, setFormatter,
                writers, loggers
  <2>2. AddOK'
    BY <1>0, <2>1 DEF AddOK, Defined, Definition, Goto
  <2> QED
    BY <1>0, <2>1, <2>2
<1>4. CASE CallClear(s) \/ CallAdd(s)
  <2>1. UNCHANGED <<m_val, new, left, mixed, l_level, line>>
    BY <1>4 DEF CallClear, CallAdd, clearAppenders, addAppender, writers
  <2>2. \E i \in Nat \ {0} : Appended(s, i)
    <3>1. nth[s] + 1 \in Nat \ {0} /\ 1 \in Nat \ {0}
      OBVIOUS
    <3> QED
      BY <1>4, <3>1 DEF CallClear, CallAdd
  <2> QED
    BY <1>0, <2>1, <2>2, AppendedRest
<1> QED
  BY <1>1, <1>2, <1>3, <1>4

LEMMA RestNext == Inv /\ RestOK /\ [Next]_vars => RestOK'
<1> SUFFICES ASSUME Inv, RestOK, [Next]_vars PROVE RestOK'
  OBVIOUS
<1>1. CASE SetterNext
  BY <1>1, RestSetter DEF SetterNext
<1>2. CASE LoggerNext /\ UNCHANGED config
  <2>1. line' \in [Writer -> Level]
    BY <1>2, LoggerAssumption DEF RestOK, LoggerAssumption, LoggerNext, Log, LogHere, LogRoot,
       LogNowhere, Write, Release
  <2>2. UNCHANGED loggers
    BY <1>2 DEF LoggerNext, Log, LogHere, LogRoot, LogNowhere, Write
  <2> QED
    BY <1>2, <2>1, <2>2 DEF RestOK, AddOK, Defined, Definition, config, loggers
<1>3. CASE \E n \in Managed : Admin(n)
  <2>1. PICK n \in Name : Admin(n)
    BY <1>3, LogConfigAssumption DEF LogConfigAssumption
  <2>2. l_level' \in [Name -> Level]
    BY <2>1 DEF RestOK, Admin, setLevel, setFormatter, clearAppenders, addAppender, delAppender
  <2> QED
    BY <2>1, <2>2 DEF RestOK, AddOK, Defined, Definition, Admin, writers
<1>4. CASE UNCHANGED vars
  BY <1>4 DEF RestOK, AddOK, Defined, Definition, vars, config, loggers, writers
<1> QED
  BY <1>1, <1>2, <1>3, <1>4 DEF Next

LEMMA RestInit == Init => RestOK
<1> SUFFICES ASSUME Init PROVE RestOK
  OBVIOUS
<1> QED
  BY LoggerAssumption, NoLoggerIsValue DEF Init, LoggerInit, LoggerAssumption, RestOK, AddOK, Idle

THEOREM RestInvariant == Spec => []RestOK
  BY RestInit, RestNext, Invariant, PTL DEF Spec

LEMMA WrittenIsAppender ==
    ASSUME NEW list \in Seq(Written)
    PROVE  list \in Seq(Appender)
<1> DEFINE k == Len(list)
<1>1. \A a \in Written : a \in Appender
  BY DEF Written, Appender
<1>2. k \in Nat /\ list \in [1 .. k -> Written]
  OBVIOUS
<1> HIDE DEF k
<1>3. list \in [1 .. k -> Appender]
  BY <1>1, <1>2
<1> QED
  BY <1>2, <1>3

(* Type correctness of loggers, threads that log and setters; the listener *)
(* (LogIniter, logger.cc) is never at an appender that its definition does *)
(* not have, and whatever a document held, the definitions it works on are *)
(* whole: an appender of a known type, with the file it needs.             *)
THEOREM TypeCorrect == Spec => []TypeOK
<1>1. Inv /\ RestOK => TypeOK
  <2> SUFFICES ASSUME Inv, RestOK PROVE TypeOK
    OBVIOUS
  <2>1. ASSUME NEW n \in Name
        PROVE  l_appenders[n] \in Seq(Appender)
    BY WrittenIsAppender DEF Inv, LoggersOK
  <2>2. LoggerTypeOK
    BY <2>1 DEF LoggerTypeOK, Inv, WritersOK, LoggersOK, RestOK
  <2>3. \A s \in Setter : \A n \in DOMAIN new[s] : new[s][n] \in Def
    BY NewType DEF Inv
  <2> QED
    BY <2>2, <2>3 DEF TypeOK, Inv, SettersOK, RestOK, AddOK
<1> QED
  BY <1>1, Invariant, RestInvariant, PTL

-----------------------------------------------------------------------------
(* Inherits.                                                               *)
InheritsAt(n) ==
    \A i \in DOMAIN l_appenders[n] :
        ~l_appenders[n][i].l_hasFormatter => l_appenders[n][i].l_formatter = l_formatter[n]

Formatted(n) == \E s \in Setter : spc[s] = "format" /\ on[s] = n

(* A logger that a step leaves alone.                                      *)
Same(n) ==
    /\ l_level'[n] = l_level[n] /\ l_formatter'[n] = l_formatter[n]
    /\ l_appenders'[n] = l_appenders[n]

LEMMA SameInherits ==
    ASSUME NEW n, Same(n)
    PROVE  InheritsAt(n)' <=> InheritsAt(n)
  BY DEF Same, InheritsAt

LEMMA Elsewhere ==
    ASSUME LoggersOK, RestOK, NEW n, NEW m \in Name, m # n,
           \/ \E level : setLevel(n, level)
           \/ \E f : writeFormatter(n, f)
           \/ \E f : setFormatter(n, f)
           \/ clearAppenders(n)
           \/ \E k, f : addAppender(n, k, f)
           \/ \E i : delAppender(n, i)
    PROVE  Same(m)
  BY DEF LoggersOK, RestOK, Same, setLevel, writeFormatter, setFormatter, clearAppenders,
         addAppender, delAppender

LEMMA RemoveAtElements ==
    ASSUME NEW S, NEW list \in Seq(S), NEW i \in DOMAIN list
    PROVE  /\ DOMAIN RemoveAt(list, i) = 1 .. Len(list) - 1
           /\ \A j \in 1 .. Len(list) - 1 :
                \E k \in DOMAIN list : RemoveAt(list, i)[j] = list[k]
<1> DEFINE before == SubSeq(list, 1, i - 1)
           after  == SubSeq(list, i + 1, Len(list))
<1>1. i \in 1 .. Len(list) /\ Len(list) \in Nat /\ DOMAIN list = 1 .. Len(list)
  OBVIOUS
<1>2. /\ before \in Seq(S) /\ Len(before) = i - 1
      /\ \A j \in 1 .. i - 1 : before[j] = list[j]
  BY <1>1
<1>3. /\ after \in Seq(S) /\ Len(after) = Len(list) - i
      /\ \A j \in 1 .. Len(list) - i : after[j] = list[i + j]
  BY <1>1
<1> HIDE DEF before, after
<1>a. /\ before \o after \in Seq(S) /\ Len(before \o after) = Len(before) + Len(after)
      /\ \A j \in 1 .. Len(before) + Len(after) :
           (before \o after)[j] = IF j <= Len(before) THEN before[j]
                                 ELSE after[j - Len(before)]
  BY <1>2, <1>3, ConcatProperties
<1>4. Len(before \o after) = Len(list) - 1 /\ before \o after \in Seq(S)
  BY <1>1, <1>2, <1>3, <1>a
<1>5. ASSUME NEW j \in 1 .. Len(list) - 1
      PROVE  \E k \in DOMAIN list : (before \o after)[j] = list[k]
  <2>1. CASE j < i
    <3>1. j <= Len(before) /\ j \in 1 .. Len(before) + Len(after)
          /\ j \in 1 .. i - 1 /\ j \in DOMAIN list
      BY <1>1, <1>2, <1>3, <2>1
    <3>2. (before \o after)[j] = before[j]
      BY <1>a, <3>1
    <3> QED
      BY <1>2, <3>1, <3>2
  <2>2. CASE ~(j < i)
    <3>1. /\ ~(j <= Len(before)) /\ j \in 1 .. Len(before) + Len(after)
          /\ j - Len(before) \in 1 .. Len(list) - i
          /\ i + (j - Len(before)) = j + 1 /\ j + 1 \in DOMAIN list
      BY <1>1, <1>2, <1>3, <2>2
    <3>2. (before \o after)[j] = after[j - Len(before)]
      BY <1>a, <3>1
    <3>3. after[j - Len(before)] = list[j + 1]
      BY <1>3, <3>1
    <3> QED
      BY <3>1, <3>2, <3>3
  <2> QED
    BY <2>1, <2>2
<1>6. DOMAIN (before \o after) = 1 .. Len(list) - 1
  BY <1>4
<1> QED
  BY <1>5, <1>6 DEF RemoveAt, before, after

LEMMA InheritsOps ==
    ASSUME LoggersOK, RestOK, NEW n \in Name,
           \/ InheritsAt(n) /\ \E level : setLevel(n, level)
           \/ \E f : setFormatter(n, f)
           \/ clearAppenders(n)
           \/ InheritsAt(n) /\ \E k, f : addAppender(n, k, f)
           \/ InheritsAt(n) /\ \E i \in DOMAIN l_appenders[n] : delAppender(n, i)
    PROVE  InheritsAt(n)'
<1> DEFINE list == l_appenders[n]
<1>0. /\ list \in Seq(Written) /\ Len(list) \in Nat /\ DOMAIN list = 1 .. Len(list)
      /\ \A i \in DOMAIN list : list[i] \in Written
  BY DEF LoggersOK
<1>1. CASE InheritsAt(n) /\ \E level : setLevel(n, level)
  BY <1>1 DEF setLevel, InheritsAt
<1>2. ASSUME NEW f, setFormatter(n, f)
      PROVE  InheritsAt(n)'
  <2>1. /\ l_formatter'[n] = f
        /\ l_appenders'[n] = [i \in DOMAIN list |->
              IF list[i].l_hasFormatter THEN list[i] ELSE [list[i] EXCEPT !.l_formatter = f]]
    BY <1>2 DEF setFormatter, LoggersOK
  <2>2. ASSUME NEW i \in DOMAIN list, ~l_appenders'[n][i].l_hasFormatter
        PROVE  l_appenders'[n][i].l_formatter = f
    BY <1>0, <2>1, <2>2 DEF Written
  <2> QED
    BY <2>1, <2>2 DEF InheritsAt
<1>3. CASE clearAppenders(n)
  BY <1>3 DEF clearAppenders, LoggersOK, InheritsAt
<1>4. ASSUME InheritsAt(n), NEW k, NEW f, addAppender(n, k, f)
      PROVE  InheritsAt(n)'
  <2> DEFINE app == [kind |-> k, l_hasFormatter |-> f # Null,
                     l_formatter |-> IF f = Null THEN l_formatter[n] ELSE f]
  <2>1. l_appenders'[n] = Append(list, app) /\ l_formatter' = l_formatter
    BY <1>4 DEF addAppender, LoggersOK
  <2>2. ~app.l_hasFormatter => app.l_formatter = l_formatter[n]
    OBVIOUS
  <2> HIDE DEF app
  <2>3. /\ DOMAIN Append(list, app) = 1 .. Len(list) + 1
        /\ \A i \in 1 .. Len(list) + 1 :
             Append(list, app)[i] = IF i = Len(list) + 1 THEN app ELSE list[i]
    BY <1>0
  <2> QED
    BY <1>0, <1>4, <2>1, <2>2, <2>3 DEF InheritsAt
<1>5. ASSUME InheritsAt(n), NEW i \in DOMAIN list, delAppender(n, i)
      PROVE  InheritsAt(n)'
  <2>1. l_appenders'[n] = RemoveAt(list, i) /\ l_formatter' = l_formatter
    BY <1>5 DEF delAppender, LoggersOK
  <2>2. /\ DOMAIN RemoveAt(list, i) = 1 .. Len(list) - 1
        /\ \A j \in 1 .. Len(list) - 1 :
             \E k \in DOMAIN list : RemoveAt(list, i)[j] = list[k]
    BY <1>0, RemoveAtElements
  <2> QED
    BY <1>5, <2>1, <2>2 DEF InheritsAt
<1> QED
  BY <1>1, <1>2, <1>3, <1>4, <1>5

(* A step in which setters stay where they are or one leaves a place, and  *)
(* at most one logger is touched.                                          *)
LEMMA InheritsStep ==
    ASSUME Inherits, NEW n \in Name, \A m \in Name : m # n => Same(m),
           Formatted(n)' \/ InheritsAt(n)',
           \A m \in Name : m # n /\ Formatted(m) => Formatted(m)'
    PROVE  Inherits'
<1>1. ASSUME NEW m \in Name, ~Formatted(m)'
      PROVE  InheritsAt(m)'
  <2>1. CASE m = n
    BY <1>1, <2>1
  <2>2. CASE m # n
    <3>1. InheritsAt(m)
      BY <1>1, <2>2 DEF Inherits, InheritsAt, Formatted
    <3> QED
      BY <2>2, <3>1, SameInherits
  <2> QED
    BY <2>1, <2>2
<1> QED
  BY <1>1 DEF Inherits, InheritsAt, Formatted

LEMMA InheritsRest ==
    ASSUME Inherits, UNCHANGED loggers, \A n \in Name : Formatted(n) => Formatted(n)'
    PROVE  Inherits'
<1>1. \A n \in Name : Same(n)
  BY DEF loggers, Same
<1>2. ASSUME NEW n \in Name, ~Formatted(n)'
      PROVE  InheritsAt(n)'
  <2>1. InheritsAt(n)
    BY <1>2 DEF Inherits, InheritsAt, Formatted
  <2> QED
    BY <1>1, <2>1, SameInherits
<1> QED
  BY <1>2 DEF Inherits, InheritsAt, Formatted

(* Where the other setters are, when s moves.                              *)
LEMMA StillFormatted ==
    ASSUME SettersOK, NEW s \in Setter, NEW label, Goto(s, label), spc[s] # "format",
           \A t \in Setter : t # s => on'[t] = on[t]
    PROVE  \A n : Formatted(n) => Formatted(n)'
<1>1. \A t \in Setter : t # s => spc'[t] = spc[t]
  BY DEF SettersOK, Goto
<1> SUFFICES ASSUME NEW n, Formatted(n) PROVE Formatted(n)'
  OBVIOUS
<1>2. PICK t \in Setter : spc[t] = "format" /\ on[t] = n
  BY DEF Formatted
<1>3. spc'[t] = "format" /\ on'[t] = n
  BY <1>1, <1>2
<1> QED
  BY <1>3 DEF Formatted

LEMMA InheritsSetter ==
    ASSUME Inv, RestOK, Inherits, NEW s \in Setter,
           \/ \E doc \in Document : Load(s, doc)
           \/ NextLogger(s) \/ CallWrite(s) \/ CallSetFormatter(s)
           \/ CallClear(s) \/ CallAdd(s) \/ Notified(s) \/ Assign(s)
    PROVE  Inherits'
<1>0. LoggersOK /\ SettersOK /\ spc \in [Setter -> Places] /\ on \in [Setter -> Name]
  BY DEF Inv, SettersOK, RestOK
<1>1. ASSUME NEW doc \in Document, Load(s, doc)
      PROVE  Inherits'
  <2>1. Goto(s, "notify") /\ spc[s] # "format" /\ UNCHANGED <<on, loggers>>
    BY <1>1 DEF Load, SetValue, Goto
  <2> QED
    BY <1>0, <2>1, StillFormatted, InheritsRest
<1>2. CASE Notified(s) \/ Assign(s)
  <2>1. \E label : Goto(s, label) /\ spc[s] # "format" /\ UNCHANGED <<on, loggers>>
    BY <1>2 DEF Notified, Assign
  <2> QED
    BY <1>0, <2>1, StillFormatted, InheritsRest
<1>3. CASE NextLogger(s)
  <2>1. PICK n \in left[s] :
          /\ on' = [on EXCEPT ![s] = n] /\ \E level : setLevel(n, level)
          /\ \E label : Goto(s, label)
    BY <1>3 DEF NextLogger
  <2>2. spc[s] # "format" /\ \A t \in Setter : t # s => on'[t] = on[t]
    BY <1>0, <1>3, <2>1 DEF NextLogger
  <2>3. \A m : Formatted(m) => Formatted(m)'
    BY <1>0, <2>1, <2>2, StillFormatted
  <2>4. n \in Name /\ \A m \in Name : m # n => Same(m)
    BY <1>0, <2>1, Elsewhere DEF RestOK
  <2>5. ASSUME ~Formatted(n)
        PROVE  InheritsAt(n)'
    <3>1. InheritsAt(n)
      BY <2>4, <2>5 DEF Inherits, InheritsAt, Formatted
    <3> QED
      BY <1>0, <2>1, <2>4, <3>1, InheritsOps
  <2> QED
    BY <2>3, <2>4, <2>5, InheritsStep
<1> PICK n \in Name : n = on[s]
  BY <1>0
<1>4. CASE CallWrite(s)
  <2>1. Goto(s, "format") /\ writeFormatter(n, Parsed(Definition(s).formatter))
        /\ spc[s] # "format" /\ UNCHANGED on
    BY <1>4 DEF CallWrite
  <2>2. \A m : Formatted(m) => Formatted(m)'
    BY <1>0, <2>1, StillFormatted
  <2>3. spc'[s] = "format" /\ on'[s] = n
    BY <1>0, <2>1 DEF Goto
  <2>4. Formatted(n)'
    BY <2>3 DEF Formatted
  <2>5. \A m \in Name : m # n => Same(m)
    BY <1>0, <2>1, Elsewhere
  <2> QED
    BY <2>2, <2>4, <2>5, InheritsStep
<1>5. CASE CallSetFormatter(s)
  <2>1. /\ setFormatter(n, Parsed(Definition(s).formatter))
        /\ Goto(s, "clear") /\ UNCHANGED on
    BY <1>5 DEF CallSetFormatter
  <2>2. \A m \in Name : m # n /\ Formatted(m) => Formatted(m)'
    <3> SUFFICES ASSUME NEW m \in Name, m # n, Formatted(m) PROVE Formatted(m)'
      OBVIOUS
    <3>1. PICK t \in Setter : spc[t] = "format" /\ on[t] = m
      BY DEF Formatted
    <3>2. spc'[t] = "format" /\ on'[t] = m
      BY <1>0, <2>1, <3>1 DEF Goto
    <3> QED
      BY <3>2 DEF Formatted
  <2>3. InheritsAt(n)' /\ \A m \in Name : m # n => Same(m)
    BY <1>0, <2>1, Elsewhere, InheritsOps
  <2> QED
    BY <2>2, <2>3, InheritsStep
<1>6. CASE CallClear(s) \/ CallAdd(s)
  <2>1. clearAppenders(n) \/ \E k, f : addAppender(n, k, f)
    BY <1>6 DEF CallClear, CallAdd
  <2>2. spc[s] # "format" /\ \E i : Appended(s, i)
    BY <1>6 DEF CallClear, CallAdd
  <2>3. (Goto(s, "add") \/ Goto(s, "notify")) /\ \A t \in Setter : t # s => on'[t] = on[t]
    BY <1>0, <2>2 DEF Appended
  <2>4. \A m : Formatted(m) => Formatted(m)'
    BY <1>0, <2>2, <2>3, StillFormatted
  <2>5. \A m \in Name : m # n => Same(m)
    BY <1>0, <2>1, Elsewhere
  <2>6. ASSUME ~Formatted(n)
        PROVE  InheritsAt(n)'
    <3>1. InheritsAt(n)
      BY <2>6 DEF Inherits, InheritsAt, Formatted
    <3> QED
      BY <1>0, <2>1, <3>1, InheritsOps
  <2> QED
    BY <2>4, <2>5, <2>6, InheritsStep
<1> QED
  BY <1>1, <1>2, <1>3, <1>4, <1>5, <1>6

LEMMA InheritsNext == Inv /\ RestOK /\ Inherits /\ [Next]_vars => Inherits'
<1> SUFFICES ASSUME Inv, RestOK, Inherits, [Next]_vars PROVE Inherits'
  OBVIOUS
<1>0. LoggersOK
  BY DEF Inv
<1>1. CASE SetterNext
  BY <1>1, InheritsSetter DEF SetterNext
<1>2. CASE \/ LoggerNext /\ UNCHANGED config
           \/ UNCHANGED vars
  <2>1. UNCHANGED loggers /\ UNCHANGED <<spc, on>>
    BY <1>2 DEF LoggerNext, Log, LogHere, LogRoot, LogNowhere, Write, config, vars
  <2> QED
    BY <2>1, InheritsRest DEF Formatted
<1>3. CASE \E n \in Managed : Admin(n)
  <2>1. PICK n \in Name : Admin(n)
    BY <1>3, LogConfigAssumption DEF LogConfigAssumption
  <2>2. \A m : Formatted(m)' <=> Formatted(m)
    BY <2>1 DEF Admin, Formatted
  <2>3. \A m \in Name : m # n => Same(m)
    BY <1>0, <2>1, Elsewhere DEF Admin
  <2>4. ASSUME ~Formatted(n)
        PROVE  InheritsAt(n)'
    <3>1. InheritsAt(n)
      BY <2>4 DEF Inherits, InheritsAt, Formatted
    <3> QED
      BY <1>0, <2>1, <3>1, InheritsOps DEF Admin
  <2> QED
    BY <2>2, <2>3, <2>4, InheritsStep
<1> QED
  BY <1>1, <1>2, <1>3 DEF Next

(* An appender without a formatter of its own writes with its logger's,    *)
(* however settings, and what the program does to a logger, overlap.       *)
THEOREM FormattersInherited == Spec => []Inherits
<1>1. Init => Inherits
  BY DEF Init, LoggerInit, Inherits
<1> QED
  BY <1>1, InheritsNext, Invariant, RestInvariant, PTL DEF Spec

-----------------------------------------------------------------------------
(* Settled.  A logger that only one setter at a time configures is as the  *)
(* old value says until that setter comes to it, halfway while it is there *)
(* and as the new value says afterwards.                                   *)
Like(a, d) ==
    LET f == Parsed(d.formatter)
    IN  a.kind = d.type /\ a.l_hasFormatter = (f # Null) /\ (f # Null => a.l_formatter = f)

Doing(s) == spc[s] \in {"write", "format", "clear", "add"}

(* The first k - 1 appenders of a definition are there.                    *)
AddedUpTo(n, d, k) ==
    /\ Len(l_appenders[n]) = k - 1
    /\ \A i \in 1 .. k - 1 : Like(l_appenders[n][i], d.appenders[i])

(* How far the setter is at its logger.                                    *)
Halfway(s) ==
    LET n == on[s]
    IN  /\ spc[s] # "clear" => Defined(s, n)
        /\ Defined(s, n) =>
            /\ l_level[n] = Definition(s).level
            /\ spc[s] \in {"clear", "add"} => Configured(n, Definition(s))
            /\ spc[s] = "add" => AddedUpTo(n, Definition(s), nth[s])

Along(s, n) ==
    IF Doing(s) /\ on[s] = n THEN Halfway(s)
    ELSE AsConfigured(n, IF n \in left[s] THEN m_val ELSE new[s])

LoopsOK ==
    \A s \in Setter :
        /\ Doing(s) => on[s] \notin left[s]
        /\ spc[s] = "assign" => left[s] = {}

Alone == mixed = Name \/ \A s, t \in Setter : spc[s] # "idle" /\ spc[t] # "idle" => s = t

Steady ==
    \A n \in Name \ mixed :
        /\ spc = Idle => AsConfigured(n, m_val)
        /\ \A s \in Setter : spc[s] # "idle" => Along(s, n)

StepInv == LoopsOK /\ Alone /\ Steady

LEMMA SameConfigured ==
    ASSUME NEW n, NEW v, Same(n), AsConfigured(n, v)
    PROVE  AsConfigured(n, v)'
  BY DEF Same, AsConfigured, Configured, Appenders

(* What the listener leaves alone is as the new value says: it differs     *)
(* from the old one at most in the appenders.                              *)
LEMMA Unchanged ==
    ASSUME NEW v, NEW w, NEW n, n \notin Changed(v, w) \cup Gone(v, w), AsConfigured(n, v)
    PROVE  AsConfigured(n, w)
<1>1. CASE n \in DOMAIN w
  <2>1. n \in DOMAIN v /\ SameDef(v[n], w[n])
    BY <1>1 DEF Changed
  <2>2. Configured(n, v[n])
        /\ \E u \in Value : n \in DOMAIN u /\ SameDef(u[n], v[n]) /\ Appenders(n, u[n])
    BY <2>1 DEF AsConfigured
  <2>3. Configured(n, w[n])
    BY <2>1, <2>2 DEF Configured, SameDef
  <2>4. \E u \in Value : n \in DOMAIN u /\ SameDef(u[n], w[n]) /\ Appenders(n, u[n])
    BY <2>1, <2>2 DEF SameDef
  <2> QED
    BY <1>1, <2>3, <2>4 DEF AsConfigured
<1>2. CASE n \notin DOMAIN w
  <2>1. n \notin DOMAIN v
    BY <1>2 DEF Gone
  <2> QED
    BY <1>2, <2>1 DEF AsConfigured
<1> QED
  BY <1>1, <1>2

(* A logger with the definition's level, formatter and all its appenders.  *)
LEMMA Complete ==
    ASSUME NEW v \in Value, NEW n \in DOMAIN v, v[n].appenders \in Seq(AppenderDef),
           Configured(n, v[n])', AddedUpTo(n, v[n], Len(v[n].appenders) + 1)'
    PROVE  AsConfigured(n, v)'
<1> DEFINE d == v[n]
           k == Len(d.appenders)
<1>1. k \in Nat /\ DOMAIN d.appenders = 1 .. k /\ (k + 1) - 1 = k
  OBVIOUS
<1>2. /\ Len(l_appenders'[n]) = k
      /\ \A i \in 1 .. k : Like(l_appenders'[n][i], d.appenders[i])
  <2> HIDE DEF k, d
  <2>1. AddedUpTo(n, d, k + 1)'
    BY DEF d, k
  <2> QED
    BY <1>1, <2>1 DEF AddedUpTo
<1>3. Appenders(n, d)'
  BY <1>1, <1>2 DEF Appenders, Like
<1>4. SameDef(v[n], v[n])
  BY DEF SameDef
<1> QED
  BY <1>3, <1>4 DEF AsConfigured

-----------------------------------------------------------------------------
(* A setter at work, and a logger that it is not at.                       *)
LEMMA AlongElse ==
    ASSUME NEW s \in Setter, NEW n \in Name, Same(n), m_val' = m_val, new'[s] = new[s],
           n \in left'[s] <=> n \in left[s], Along(s, n),
           ~(Doing(s) /\ on[s] = n), ~(Doing(s)' /\ on'[s] = n)
    PROVE  Along(s, n)'
<1> DEFINE v == IF n \in left[s] THEN m_val ELSE new[s]
<1>1. PICK u : u = v
  OBVIOUS
<1>2. AsConfigured(n, u)
  BY <1>1 DEF Along
<1>3. AsConfigured(n, u)'
  BY <1>2, SameConfigured
<1>4. u = (IF n \in left'[s] THEN m_val' ELSE new'[s])
  BY <1>1
<1> QED
  BY <1>3, <1>4 DEF Along

LEMMA AlongAll ==
    ASSUME NEW s \in Setter, NEW n \in Name, Same(n), Along(s, n), m_val' = m_val,
           new'[s] = new[s], left'[s] = left[s], on'[s] = on[s], nth'[s] = nth[s],
           spc'[s] = spc[s]
    PROVE  Along(s, n)'
<1>1. CASE Doing(s) /\ on[s] = n
  <2>1. Halfway(s)
    BY <1>1 DEF Along
  <2>2. Halfway(s)'
    BY <1>1, <2>1 DEF Halfway, Defined, Definition, Configured, AddedUpTo, Same
  <2> QED
    BY <1>1, <2>2 DEF Along, Doing
<1>2. CASE ~(Doing(s) /\ on[s] = n)
  BY <1>2, AlongElse DEF Doing
<1> QED
  BY <1>1, <1>2

(* While a logger is not mixed only one setter is under way.               *)
LEMMA OnlyOne ==
    ASSUME Alone, RestOK, NEW n \in Name \ mixed, NEW s \in Setter, spc[s] # "idle"
    PROVE  \A t \in Setter : t # s => spc[t] = "idle"
  BY DEF Alone, RestOK

(* A step of s, at work before and after it.                               *)
LEMMA AtWork ==
    ASSUME StepInv, SettersOK, RestOK, NEW s \in Setter, spc[s] # "idle",
           NEW label, Goto(s, label), label # "idle", mixed' = mixed,
           \A t \in Setter : t # s => on'[t] = on[t] /\ left'[t] = left[t],
           Doing(s)' => on'[s] \notin left'[s],
           spc'[s] = "assign" => left'[s] = {},
           \A n \in Name \ mixed : Along(s, n)'
    PROVE  StepInv'
<1>1. spc'[s] = label /\ \A t \in Setter : t # s => spc'[t] = spc[t]
  BY DEF SettersOK, Goto
<1>2. LoopsOK'
  BY <1>1 DEF StepInv, LoopsOK, Doing
<1>3. Alone'
  BY <1>1 DEF StepInv, Alone
<1>4. ASSUME NEW n \in Name \ mixed
      PROVE  /\ spc' # Idle
             /\ \A t \in Setter : spc'[t] # "idle" => Along(t, n)'
  <2>1. \A t \in Setter : t # s => spc'[t] = "idle"
    BY <1>1, OnlyOne DEF StepInv
  <2> QED
    BY <1>1, <2>1 DEF Idle
<1>5. Steady'
  BY <1>4 DEF Steady, Idle
<1> QED
  BY <1>2, <1>3, <1>5 DEF StepInv

LEMMA SteadyLoad ==
    ASSUME Inv, RestOK, StepInv, NEW s \in Setter, NEW doc \in Document, Load(s, doc)
    PROVE  StepInv'
<1> DEFINE v == Convert(doc)
           todo == Changed(m_val, v) \cup Gone(m_val, v)
<1>1. /\ SettersOK /\ spc[s] = "idle" /\ spc' = [spc EXCEPT ![s] = "notify"]
      /\ new' = [new EXCEPT ![s] = v] /\ left' = [left EXCEPT ![s] = todo]
      /\ mixed' = (IF spc = Idle THEN mixed ELSE Name)
      /\ UNCHANGED <<m_val, on, nth, loggers>>
  BY DEF Load, SetValue, Inv
<1>2. /\ spc'[s] = "notify" /\ new'[s] = v /\ left'[s] = todo
      /\ \A t \in Setter : t # s => spc'[t] = spc[t] /\ left'[t] = left[t]
  BY <1>1 DEF SettersOK, RestOK
<1>3. LoopsOK'
  BY <1>1, <1>2 DEF StepInv, LoopsOK, Doing
<1>4. CASE spc = Idle
  <2>1. Alone' /\ \A t \in Setter : t # s => spc'[t] = "idle"
    BY <1>2, <1>4 DEF Alone, Idle
  <2>2. ASSUME NEW n \in Name \ mixed
        PROVE  Along(s, n)'
    <3>1. Same(n) /\ AsConfigured(n, m_val) /\ ~Doing(s)'
      BY <1>1, <1>2, <1>4, <2>2 DEF StepInv, Steady, Same, loggers, Doing
    <3>2. AsConfigured(n, IF n \in todo THEN m_val ELSE v)
      <4> HIDE DEF v
      <4> QED
        BY <3>1, Unchanged
    <3>3. PICK u : u = (IF n \in todo THEN m_val ELSE v)
      OBVIOUS
    <3>4. AsConfigured(n, u)'
      BY <3>1, <3>2, <3>3, SameConfigured
    <3>5. u = (IF n \in left'[s] THEN m_val' ELSE new'[s])
      BY <1>1, <1>2, <3>3
    <3> QED
      BY <3>1, <3>4, <3>5 DEF Along
  <2>3. spc' # Idle /\ mixed' = mixed
    BY <1>1, <1>2, <1>4 DEF Idle
  <2>4. Steady'
    BY <2>1, <2>2, <2>3 DEF Steady, Idle
  <2> QED
    BY <1>3, <2>1, <2>4 DEF StepInv
<1>5. CASE spc # Idle
  BY <1>1, <1>3, <1>5 DEF StepInv, Alone, Steady
<1> QED
  BY <1>4, <1>5

LEMMA SteadyNextLogger ==
    ASSUME Inv, RestOK, StepInv, NEW s \in Setter, NextLogger(s)
    PROVE  StepInv'
<1>1. PICK n \in left[s] :
        /\ left' = [left EXCEPT ![s] = @ \ {n}] /\ on' = [on EXCEPT ![s] = n]
        /\ setLevel(n, IF Defined(s, n) THEN new[s][n].level ELSE 0)
        /\ Goto(s, IF Defined(s, n) /\ Parsed(new[s][n].formatter) # Null
                   THEN "write" ELSE "clear")
  BY DEF NextLogger
<1>2. PICK label \in {"write", "clear"} :
        label = (IF Defined(s, n) /\ Parsed(new[s][n].formatter) # Null
                 THEN "write" ELSE "clear")
  OBVIOUS
<1>3. /\ SettersOK /\ LoggersOK /\ n \in Name /\ spc[s] = "notify" /\ Goto(s, label)
      /\ UNCHANGED <<m_val, new, nth, mixed>>
  BY <1>1, <1>2 DEF NextLogger, Inv, RestOK
<1>4. /\ spc'[s] = label /\ on'[s] = n /\ left'[s] = left[s] \ {n}
      /\ \A t \in Setter : t # s => on'[t] = on[t] /\ left'[t] = left[t]
  BY <1>1, <1>3 DEF SettersOK, RestOK, Goto
<1>5. /\ \A m \in Name : m # n => Same(m)
      /\ l_formatter' = l_formatter
      /\ l_level'[n] = IF Defined(s, n) THEN new[s][n].level ELSE 0
  BY <1>1, <1>3, Elsewhere DEF setLevel, RestOK
<1>6. ASSUME NEW m \in Name \ mixed
      PROVE  Along(s, m)'
  <2>1. Along(s, m) /\ ~Doing(s)
    BY <1>3, <1>6 DEF StepInv, Steady, Doing
  <2>2. CASE m # n
    BY <1>3, <1>4, <1>5, <1>6, <2>1, <2>2, AlongElse
  <2>3. CASE m = n
    <3>1. Halfway(s)'
      BY <1>2, <1>3, <1>4, <1>5 DEF Halfway, Defined, Definition, Configured
    <3> QED
      BY <1>4, <2>3, <3>1 DEF Along, Doing
  <2> QED
    BY <2>2, <2>3
<1> QED
  BY <1>3, <1>4, <1>6, AtWork

LEMMA SteadyFormatter ==
    ASSUME Inv, RestOK, StepInv, NEW s \in Setter, CallWrite(s) \/ CallSetFormatter(s)
    PROVE  StepInv'
<1>1. PICK n \in Name : n = on[s]
  BY DEF RestOK
<1>2. PICK label \in {"format", "clear"} :
        /\ Goto(s, label)
        /\ label = "clear" => CallSetFormatter(s)
  BY DEF CallWrite, CallSetFormatter
<1>3. /\ SettersOK /\ LoggersOK /\ Doing(s) /\ spc[s] \notin {"clear", "add", "idle"}
      /\ UNCHANGED <<m_val, new, left, on, nth, mixed, l_level>>
  BY DEF CallWrite, CallSetFormatter, writeFormatter, setFormatter, Doing, Inv
<1>4. spc'[s] = label
  BY <1>2, <1>3 DEF SettersOK, Goto
<1>5. \A m \in Name : m # n => Same(m)
  BY <1>1, <1>3, Elsewhere DEF CallWrite, CallSetFormatter
<1>6. label = "clear" => l_formatter'[n] = Definition(s).formatter
  <2> SUFFICES ASSUME label = "clear" PROVE l_formatter'[n] = Definition(s).formatter
    OBVIOUS
  <2>1. /\ spc[s] = "format" /\ l_formatter' = [l_formatter EXCEPT ![n] = Parsed(Definition(s).formatter)]
    BY <1>1, <1>2 DEF CallSetFormatter, setFormatter
  <2>2. Parsed(Definition(s).formatter) = Definition(s).formatter
    BY <1>3, <2>1, LogConfigAssumption DEF SettersOK, Parsed, LogConfigAssumption
  <2> QED
    BY <1>3, <2>1, <2>2 DEF LoggersOK
<1>7. ASSUME NEW m \in Name \ mixed
      PROVE  Along(s, m)'
  <2>1. Along(s, m)
    BY <1>3, <1>7 DEF StepInv, Steady
  <2>2. CASE m # n
    BY <1>1, <1>3, <1>5, <1>7, <2>1, <2>2, AlongElse
  <2>3. CASE m = n
    <3>1. Halfway(s)
      BY <1>1, <1>3, <2>1, <2>3 DEF Along
    <3>2. Halfway(s)'
      BY <1>1, <1>3, <1>4, <1>6, <3>1 DEF Halfway, Defined, Definition, Configured
    <3> QED
      BY <1>1, <1>3, <1>4, <2>3, <3>2 DEF Along, Doing
  <2> QED
    BY <2>2, <2>3
<1>8. on'[s] \notin left'[s] /\ \A t \in Setter : t # s => on'[t] = on[t] /\ left'[t] = left[t]
  BY <1>3 DEF StepInv, LoopsOK
<1> QED
  BY <1>2, <1>3, <1>4, <1>7, <1>8, AtWork

(* A setter goes on to its logger's i-th appender, the ones before it being *)
(* there, or is done with the logger.                                      *)
LEMMA SteadyAppended ==
    ASSUME Inv, RestOK, StepInv, NEW s \in Setter, NEW n \in Name, n = on[s],
           Doing(s), NEW i \in Nat \ {0}, Appended(s, i),
           UNCHANGED <<m_val, new, left, mixed>>,
           \A m \in Name : m # n => Same(m),
           n \notin mixed /\ Defined(s, n) =>
               /\ i <= Len(Definition(s).appenders) + 1
               /\ \A d : d = Definition(s) => Configured(n, d)' /\ AddedUpTo(n, d, i)',
           n \notin mixed /\ ~Defined(s, n) => l_appenders'[n] = <<>>
    PROVE  StepInv'
<1>0. SettersOK
  BY DEF Inv
<1>1. PICK label \in {"add", "notify"} : Goto(s, label)
  BY DEF Appended
<1>2. /\ spc'[s] = label /\ on[s] \notin left[s] /\ left'[s] = left[s]
      /\ \A t \in Setter : t # s => on'[t] = on[t] /\ left'[t] = left[t]
  BY <1>0, <1>1 DEF SettersOK, Goto, Appended, RestOK, StepInv, LoopsOK
<1>3. label = "add" => /\ on' = on /\ nth'[s] = i /\ Defined(s, n)
  BY <1>0, <1>1, <1>2 DEF Appended, SettersOK, Goto, RestOK
<1>4. label = "notify" => ~(Defined(s, n) /\ i <= Len(Definition(s).appenders))
  BY <1>0, <1>2 DEF Appended, SettersOK, Goto
<1>5. ASSUME NEW m \in Name \ mixed
      PROVE  Along(s, m)'
  <2>1. Along(s, m)
    BY <1>5 DEF StepInv, Steady, Doing
  <2>2. CASE m # n
    <3>1. ~(Doing(s)' /\ on'[s] = m)
      BY <1>2, <1>3, <2>2 DEF Doing
    <3> QED
      BY <1>2, <1>5, <2>1, <2>2, <3>1, AlongElse
  <2>3. CASE m = n /\ label = "add"
    <3>1. PICK d : d = Definition(s)
      OBVIOUS
    <3>2. /\ Definition(s)' = d /\ Defined(s, n)'
      BY <1>3, <2>3, <3>1 DEF Definition, Defined
    <3>3. AddedUpTo(n, d, i)' /\ Configured(n, d)'
      BY <1>3, <1>5, <2>3, <3>1
    <3>4. l_level'[n] = d.level
      BY <3>3 DEF Configured
    <3>5. Halfway(s)'
      BY <1>2, <1>3, <2>3, <3>2, <3>3, <3>4 DEF Halfway
    <3> QED
      BY <1>2, <1>3, <2>3, <3>5 DEF Along, Doing
  <2>4. CASE m = n /\ label = "notify"
    <3>1. PICK v \in Value : v = new[s]
      BY <1>0 DEF SettersOK
    <3>2. CASE Defined(s, n)
      <4>1. n \in DOMAIN v /\ v[n].appenders \in Seq(AppenderDef)
            /\ Len(v[n].appenders) \in Nat /\ Definition(s) = v[n]
        BY <1>0, <3>1, <3>2, NewType DEF Defined, Definition
      <4>2. i = Len(v[n].appenders) + 1
        BY <1>4, <1>5, <2>4, <3>2, <4>1
      <4>3. AddedUpTo(n, v[n], i)' /\ Configured(n, v[n])'
        BY <1>5, <2>4, <3>2, <4>1
      <4>4. AsConfigured(n, v)'
        BY <4>1, <4>2, <4>3, Complete
      <4> QED
        BY <1>2, <2>4, <3>1, <4>4 DEF Along, Doing
    <3>3. CASE ~Defined(s, n)
      <4>1. AsConfigured(n, v)'
        BY <1>5, <2>4, <3>1, <3>3 DEF AsConfigured, Defined
      <4> QED
        BY <1>2, <2>4, <3>1, <4>1 DEF Along, Doing
    <3> QED
      BY <3>2, <3>3
  <2> QED
    BY <2>2, <2>3, <2>4
<1>6. spc[s] # "idle" /\ label # "idle" /\ label # "assign"
      /\ (Doing(s)' => on'[s] \notin left'[s])
  BY <1>2, <1>3 DEF Doing
<1> QED
  BY <1>0, <1>1, <1>2, <1>5, <1>6, AtWork

LEMMA SteadyClear ==
    ASSUME Inv, RestOK, StepInv, NEW s \in Setter, CallClear(s)
    PROVE  StepInv'
<1>1. PICK n \in Name : n = on[s]
  BY DEF RestOK
<1>2. /\ LoggersOK /\ SettersOK /\ clearAppenders(n) /\ spc[s] = "clear" /\ Appended(s, 1)
      /\ UNCHANGED <<m_val, new, left, mixed>>
  BY <1>1 DEF CallClear, Inv
<1>3. \A m \in Name : m # n => Same(m)
  BY <1>2, Elsewhere
<1>4. /\ l_appenders'[n] = <<>> /\ l_level' = l_level /\ l_formatter' = l_formatter
  BY <1>2 DEF clearAppenders, LoggersOK
<1>5. ASSUME n \notin mixed, Defined(s, n)
      PROVE  /\ 1 <= Len(Definition(s).appenders) + 1
             /\ \A d : d = Definition(s) => Configured(n, d)' /\ AddedUpTo(n, d, 1)'
  <2>1. Halfway(s)
    BY <1>1, <1>2, <1>5 DEF StepInv, Steady, Along, Doing
  <2>2. Configured(n, Definition(s)) /\ Len(Definition(s).appenders) \in Nat
    BY <1>1, <1>2, <1>5, <2>1, NewType DEF Halfway, Defined, Definition
  <2>3. ASSUME NEW d, d = Definition(s)
        PROVE  Configured(n, d)' /\ AddedUpTo(n, d, 1)'
    BY <1>4, <2>2, <2>3 DEF Configured, AddedUpTo
  <2> QED
    BY <2>2, <2>3
<1>6. Doing(s) /\ 1 \in Nat \ {0}
  BY <1>2 DEF Doing
<1> QED
  BY <1>1, <1>2, <1>3, <1>4, <1>5, <1>6, SteadyAppended

LEMMA SteadyAdd ==
    ASSUME Inv, RestOK, StepInv, NEW s \in Setter, CallAdd(s)
    PROVE  StepInv'
<1>1. PICK n \in Name : n = on[s]
  BY DEF RestOK
<1>2. PICK i \in Nat : i = nth[s]
  BY DEF RestOK
<1>3. PICK d : d = Definition(s)
  OBVIOUS
<1>4. /\ LoggersOK /\ SettersOK /\ spc[s] = "add" /\ Appended(s, i + 1)
      /\ addAppender(n, d.appenders[i].type, Parsed(d.appenders[i].formatter))
      /\ UNCHANGED <<m_val, new, left, mixed>>
  BY <1>1, <1>2, <1>3 DEF CallAdd, Inv
<1>5. /\ Defined(s, n) /\ Len(d.appenders) \in Nat /\ i \in 1 .. Len(d.appenders)
  BY <1>1, <1>2, <1>3, <1>4, NewType DEF RestOK, AddOK, Defined, Definition
<1>6. \A m \in Name : m # n => Same(m)
  BY <1>4, Elsewhere
<1> DEFINE f == Parsed(d.appenders[i].formatter)
           app == [kind |-> d.appenders[i].type, l_hasFormatter |-> f # Null,
                   l_formatter |-> IF f = Null THEN l_formatter[n] ELSE f]
<1>7. /\ l_appenders'[n] = Append(l_appenders[n], app) /\ l_appenders[n] \in Seq(Written)
      /\ l_level' = l_level /\ l_formatter' = l_formatter
  BY <1>4 DEF addAppender, LoggersOK
<1>8. Like(app, d.appenders[i])
  BY DEF Like
<1> HIDE DEF app
<1>9. ASSUME n \notin mixed
      PROVE  Configured(n, d)' /\ AddedUpTo(n, d, i + 1)'
  <2>1. Halfway(s)
    BY <1>1, <1>4, <1>9 DEF StepInv, Steady, Along, Doing
  <2>2. Configured(n, d) /\ AddedUpTo(n, d, i)
    BY <1>1, <1>2, <1>3, <1>4, <1>5, <2>1 DEF Halfway
  <2>3. /\ Len(l_appenders[n]) = i - 1
        /\ \A j \in 1 .. i - 1 : Like(l_appenders[n][j], d.appenders[j])
    BY <2>2 DEF AddedUpTo
  <2>4. /\ Len(l_appenders'[n]) = i /\ l_appenders'[n][i] = app
        /\ \A j \in 1 .. i - 1 : l_appenders'[n][j] = l_appenders[n][j]
    BY <1>5, <1>7, <2>3, AppendProperties
  <2>5. \A j \in 1 .. i : Like(l_appenders'[n][j], d.appenders[j])
    <3> SUFFICES ASSUME NEW j \in 1 .. i PROVE Like(l_appenders'[n][j], d.appenders[j])
      OBVIOUS
    <3>1. j = i \/ j \in 1 .. i - 1
      BY <1>5
    <3> QED
      BY <1>8, <2>3, <2>4, <3>1
  <2>6. (i + 1) - 1 = i
    BY <1>5
  <2> QED
    BY <1>7, <2>2, <2>4, <2>5, <2>6 DEF Configured, AddedUpTo
<1>10. Doing(s) /\ i + 1 \in Nat \ {0} /\ i + 1 <= Len(d.appenders) + 1
  BY <1>4, <1>5 DEF Doing
<1> QED
  BY <1>1, <1>3, <1>4, <1>5, <1>6, <1>9, <1>10, SteadyAppended

(* The two steps after the loops.                                          *)
LEMMA SteadyNotified ==
    ASSUME Inv, RestOK, StepInv, NEW s \in Setter, Notified(s)
    PROVE  StepInv'
<1>1. /\ SettersOK /\ spc[s] = "notify" /\ left[s] = {} /\ Goto(s, "assign")
      /\ UNCHANGED <<m_val, new, left, on, nth, mixed, loggers>>
  BY DEF Notified, Inv
<1>2. spc'[s] = "assign"
  BY <1>1 DEF SettersOK, Goto
<1>3. ASSUME NEW n \in Name \ mixed
      PROVE  Along(s, n)'
  <2>1. Along(s, n) /\ Same(n) /\ ~Doing(s) /\ ~Doing(s)'
    BY <1>1, <1>2, <1>3 DEF StepInv, Steady, Doing, Same, loggers
  <2> QED
    BY <1>1, <1>3, <2>1, AlongElse
<1>4. ~Doing(s)'
  BY <1>2 DEF Doing
<1> QED
  BY <1>1, <1>2, <1>3, <1>4, AtWork

LEMMA SteadyAssign ==
    ASSUME Inv, RestOK, StepInv, NEW s \in Setter, Assign(s)
    PROVE  StepInv'
<1>1. /\ SettersOK /\ spc[s] = "assign" /\ Goto(s, "idle") /\ m_val' = new[s]
      /\ UNCHANGED <<left, on, nth, mixed, loggers>>
  BY DEF Assign, Inv
<1>2. /\ spc' \in [Setter -> Places] /\ spc'[s] = "idle"
      /\ \A t \in Setter : t # s => spc'[t] = spc[t]
  BY <1>1 DEF SettersOK, Goto, Places
<1>3. LoopsOK' /\ Alone'
  BY <1>1, <1>2 DEF StepInv, LoopsOK, Alone, Doing
<1>4. ASSUME NEW n \in Name \ mixed
      PROVE  /\ AsConfigured(n, m_val)'
             /\ \A t \in Setter : spc'[t] = "idle"
  <2>1. \A t \in Setter : t # s => spc[t] = "idle"
    BY <1>1, <1>4, OnlyOne DEF StepInv
  <2>2. Along(s, n) /\ ~Doing(s) /\ left[s] = {} /\ Same(n)
    BY <1>1, <1>4 DEF StepInv, LoopsOK, Steady, Doing, Same, loggers
  <2>3. PICK v : v = new[s]
    OBVIOUS
  <2>4. AsConfigured(n, v)
    BY <2>2, <2>3 DEF Along
  <2>5. AsConfigured(n, v)'
    BY <2>2, <2>4, SameConfigured
  <2> QED
    BY <1>1, <1>2, <2>1, <2>3, <2>5
<1>5. Steady'
  BY <1>1, <1>4 DEF Steady
<1> QED
  BY <1>3, <1>5 DEF StepInv

(* The setters stay where they are, and what is not mixed as it is.        *)
LEMMA SteadyElsewhere ==
    ASSUME StepInv, RestOK, UNCHANGED <<m_val, spc, new, left, on, nth>>,
           mixed \subseteq mixed', mixed' \subseteq Name,
           \A n \in Name \ mixed' : Same(n)
    PROVE  StepInv'
<1>1. LoopsOK' /\ Alone'
  BY DEF StepInv, LoopsOK, Alone, Doing
<1>2. ASSUME NEW n \in Name \ mixed'
      PROVE  /\ spc' = Idle => AsConfigured(n, m_val)'
             /\ \A s \in Setter : spc'[s] # "idle" => Along(s, n)'
  <2>1. n \in Name \ mixed /\ Same(n)
    BY <1>2
  <2>2. PICK v : v = m_val
    OBVIOUS
  <2>3. spc' = Idle => AsConfigured(n, m_val)'
    BY <2>1, <2>2, SameConfigured DEF StepInv, Steady
  <2>4. ASSUME NEW s \in Setter, spc'[s] # "idle"
        PROVE  Along(s, n)'
    BY <2>1, <2>4, AlongAll DEF StepInv, Steady
  <2> QED
    BY <2>3, <2>4
<1>3. Steady'
  BY <1>2 DEF Steady, Idle
<1> QED
  BY <1>1, <1>3 DEF StepInv

LEMMA StepNext == Inv /\ RestOK /\ StepInv /\ [Next]_vars => StepInv'
<1> SUFFICES ASSUME Inv, RestOK, StepInv, [Next]_vars PROVE StepInv'
  OBVIOUS
<1>1. CASE SetterNext
  <2>1. PICK s \in Setter :
          \/ \E doc \in Document : Load(s, doc)
          \/ NextLogger(s) \/ CallWrite(s) \/ CallSetFormatter(s)
          \/ CallClear(s) \/ CallAdd(s) \/ Notified(s) \/ Assign(s)
    BY <1>1 DEF SetterNext
  <2> QED
    BY <2>1, SteadyLoad, SteadyNextLogger, SteadyFormatter, SteadyClear, SteadyAdd,
       SteadyNotified, SteadyAssign
<1>2. CASE \/ LoggerNext /\ UNCHANGED config
           \/ UNCHANGED vars
  <2>1. UNCHANGED <<loggers, config>>
    BY <1>2 DEF LoggerNext, Log, LogHere, LogRoot, LogNowhere, Write, vars
  <2>2. \A n \in Name : Same(n)
    BY <2>1 DEF loggers, Same
  <2> QED
    BY <2>1, <2>2, SteadyElsewhere DEF config, RestOK
<1>3. CASE \E n \in Managed : Admin(n)
  <2>1. PICK n \in Name : Admin(n)
    BY <1>3, LogConfigAssumption DEF LogConfigAssumption
  <2>2. \A m \in Name : m # n => Same(m)
    BY <2>1, Elsewhere DEF Admin, Inv
  <2> QED
    BY <2>1, <2>2, SteadyElsewhere DEF Admin, RestOK
<1> QED
  BY <1>1, <1>2, <1>3 DEF Next

LEMMA StepInit == Init => StepInv
<1> SUFFICES ASSUME Init PROVE StepInv
  OBVIOUS
<1>1. LoopsOK /\ Alone /\ \A s \in Setter : spc[s] = "idle"
  BY DEF Init, Idle, LoopsOK, Alone, Doing
<1>2. ASSUME NEW n \in Name
      PROVE  AsConfigured(n, m_val)
  <2>1. DOMAIN NoLogger = {}
    BY DEF NoLogger, Convert
  <2> QED
    BY <2>1 DEF Init, LoggerInit, AsConfigured
<1>3. Steady
  BY <1>1, <1>2 DEF Steady
<1> QED
  BY <1>1, <1>3 DEF StepInv

(* Between two settings every logger that nobody else configures is as the *)
(* variable says (setValue(), config.h, and LogIniter, logger.cc): it has  *)
(* the level and formatter of its definition, and all the appenders of a   *)
(* single definition, in their order; one without a definition has none.   *)
THEOREM LoggersSettled == Spec => []Settled
<1>1. StepInv => Settled
  BY DEF StepInv, Steady, Settled
<1> QED
  BY <1>1, StepInit, StepNext, Invariant, RestInvariant, PTL DEF Spec
=============================================================================
