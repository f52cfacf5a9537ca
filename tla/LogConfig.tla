------------------------------ MODULE LogConfig ------------------------------
(***************************************************************************)
(* The configuration variable "logs" (ConfigVar, config.h; LogIniter,      *)
(* logger.cc) and the loggers it configures while other threads log.       *)
(*                                                                         *)
(* setValue() compares, calls the listener under the variable's read lock, *)
(* drops it and takes the write lock to assign.  The listener reconfigures *)
(* the loggers one after the other, in the order of their names; which     *)
(* order that is does not matter here: left[s] is the loggers it has still *)
(* to begin with.                                                          *)
(*                                                                         *)
(* spc[s]: "idle"; "notify", "write", "format", "clear", "add" (in the     *)
(* listener, holds the read lock; but for the first it is at logger on[s], *)
(* and about to make that call); "assign" (between the locks).             *)
(***************************************************************************)
EXTENDS Logger

CONSTANTS
    Setter,         \* threads that load a configuration
    Document,       \* what they load: sequences of Entry
    Bad,            \* a formatter that does not parse, an unknown type
    Info,           \* the level INFO
    Managed,        \* loggers that the program configures itself, too
    MaxAppenders    \* bound: appenders that are added to one logger

VARIABLES
    m_val,          \* the variable
    spc, new,       \* of each setter: where it is, the value it sets
    left, on, nth,  \* and its loops over loggers and appenders
    mixed           \* history: loggers that others than one setter at a
                    \* time have configured

config == <<m_val, spc, new, left, on, nth, mixed>>
vars == <<loggers, writers, config>>

AppenderDef == [type : Kind, formatter : Pattern \cup {Null, Bad}]
Def == [level : Level, formatter : Pattern \cup {Null, Bad}, appenders : Seq(AppenderDef)]

(* An entry of the document; Null is a key that is not there.              *)
AppenderEntry ==
    [type : Kind \cup {Null, Bad}, file : BOOLEAN, formatter : Pattern \cup {Null, Bad}]
Entry == [name : Name \cup {Null}, level : Level, formatter : Pattern \cup {Null, Bad},
          appenders : Seq(AppenderEntry)]

ASSUME LogConfigAssumption ==
    /\ Document \subseteq Seq(Entry)
    /\ Managed \subseteq Name /\ Default \in Pattern
    /\ Null \notin Name \cup Pattern \cup Kind /\ Bad \notin Pattern \cup Kind \cup {Null}

(* The conversion: an appender without a type, of an unknown one, or that  *)
(* lacks its file is left out; an entry without a name fails the document. *)
(* The variable is a set ordered by name: of two entries of one name the   *)
(* first one counts.                                                       *)
Whole(a) == a.type \in Kind /\ (a.type = File => a.file)

WholeOnes(entries) ==
    LET kept[i \in 0 .. Len(entries)] ==
            IF i = 0 THEN <<>>
            ELSE IF Whole(entries[i])
                 THEN Append(kept[i - 1], [type |-> entries[i].type,
                                           formatter |-> entries[i].formatter])
                 ELSE kept[i - 1]
    IN  kept[Len(entries)]

ToDef(e) == [level |-> e.level, formatter |-> e.formatter, appenders |-> WholeOnes(e.appenders)]

Converts(doc) == \A i \in DOMAIN doc : doc[i].name # Null

Convert(doc) ==
    [n \in {doc[i].name : i \in DOMAIN doc} |->
        ToDef(doc[CHOOSE i \in DOMAIN doc :
                    doc[i].name = n /\ \A j \in 1 .. i - 1 : doc[j].name # n])]

NoLogger == Convert(<<>>)
Value == {Convert(doc) : doc \in {d \in Document : Converts(d)}} \cup {NoLogger}

Idle == [s \in Setter |-> "idle"]

Init ==
    /\ LoggerInit
    /\ m_val = NoLogger
    /\ spc = Idle
    /\ new = [s \in Setter |-> NoLogger] /\ left = [s \in Setter |-> {}]
    /\ on = [s \in Setter |-> Root] /\ nth = [s \in Setter |-> 1]
    /\ mixed = {}

-----------------------------------------------------------------------------
(* operator== of LogDefine: it compares appenders with itself.             *)
SameDef(d, e) == d.level = e.level /\ d.formatter = e.formatter

SameValue(v, w) ==
    /\ DOMAIN v = DOMAIN w
    /\ \A n \in DOMAIN v : SameDef(v[n], w[n])

(* Mutant of Parsed: isError() is not asked.                               *)
ParsedAnyhow(f) == f

(* A formatter that does not parse is as good as none.                     *)
Parsed(f) == IF f \in Pattern THEN f ELSE Null

Changed(old, v) == {n \in DOMAIN v : n \in DOMAIN old => ~SameDef(old[n], v[n])}
Gone(old, v)    == DOMAIN old \ DOMAIN v

-----------------------------------------------------------------------------
(* A line of the setter's own: it needs the root logger's lock.            *)
LogLine == lock[Root] = Null \/ l_level[Root] > Info

(* setValue() up to the end of the listener's own line.                    *)
SetValue(s, v) ==
    /\ spc[s] = "idle"
    /\ ~SameValue(v, m_val)
    /\ LogLine
    /\ spc' = [spc EXCEPT ![s] = "notify"]
    /\ new' = [new EXCEPT ![s] = v]
    /\ left' = [left EXCEPT ![s] = Changed(m_val, v) \cup Gone(m_val, v)]
    /\ mixed' = IF spc = Idle THEN mixed ELSE Name
    /\ UNCHANGED <<m_val, on, nth, loggers, writers>>

(* A document that does not convert: fromString() catches the exception.   *)
Load(s, doc) == Converts(doc) /\ SetValue(s, Convert(doc))

Goto(s, label) == spc' = [spc EXCEPT ![s] = label]
Defined(s, n)  == n \in DOMAIN new[s]
Definition(s) == new[s][on[s]]

(* The loops over the loggers: those of the value, then those that are     *)
(* gone.  setLevel() is the first call.                                    *)
NextLogger(s) ==
    /\ spc[s] = "notify"
    /\ \E n \in left[s] :
        /\ Defined(s, n) \/ \A m \in left[s] : ~Defined(s, m)
        /\ left' = [left EXCEPT ![s] = @ \ {n}] /\ on' = [on EXCEPT ![s] = n]
        /\ setLevel(n, IF Defined(s, n) THEN new[s][n].level ELSE 0)
        /\ Goto(s, IF Defined(s, n) /\ Parsed(new[s][n].formatter) # Null
                   THEN "write" ELSE "clear")
    /\ UNCHANGED <<m_val, new, nth, mixed, writers>>

(* setFormatter(string) ...                                                *)
CallWrite(s) ==
    /\ spc[s] = "write"
    /\ writeFormatter(on[s], Parsed(Definition(s).formatter))
    /\ Goto(s, "format")
    /\ UNCHANGED <<m_val, new, left, on, nth, mixed, writers>>

(* ... and setFormatter(ptr) from it.                                      *)
CallSetFormatter(s) ==
    /\ spc[s] = "format"
    /\ setFormatter(on[s], Parsed(Definition(s).formatter))
    /\ Goto(s, "clear")
    /\ UNCHANGED <<m_val, new, left, on, nth, mixed, writers>>

(* The logger is done with when there is no (further) appender.            *)
Appended(s, i) ==
    IF Defined(s, on[s]) /\ i <= Len(Definition(s).appenders)
    THEN Goto(s, "add") /\ nth' = [nth EXCEPT ![s] = i] /\ UNCHANGED on
    ELSE Goto(s, "notify") /\ nth' = [nth EXCEPT ![s] = 1]
                           /\ on' = [on EXCEPT ![s] = Root]

(* Mutant of CallClear: the appenders of the last definition stay.         *)
CallClearNot(s) ==
    /\ spc[s] = "clear"
    /\ Appended(s, 1)
    /\ UNCHANGED <<m_val, new, left, mixed, loggers, writers>>

CallClear(s) ==
    /\ spc[s] = "clear"
    /\ clearAppenders(on[s])
    /\ Appended(s, 1)
    /\ UNCHANGED <<m_val, new, left, mixed, writers>>

(* There is nothing to add when the type is neither of the two: a null     *)
(* pointer, which is the end of this thread.                               *)
CallAdd(s) ==
    /\ spc[s] = "add"
    /\ LET a == Definition(s).appenders[nth[s]]
       IN  a.type \in Kind /\ addAppender(on[s], a.type, Parsed(a.formatter))
    /\ Appended(s, nth[s] + 1)
    /\ UNCHANGED <<m_val, new, left, mixed, writers>>

(* The read lock is dropped ...                                            *)
Notified(s) ==
    /\ spc[s] = "notify" /\ left[s] = {}
    /\ Goto(s, "assign")
    /\ UNCHANGED <<m_val, new, left, on, nth, mixed, loggers, writers>>

(* ... and the write lock taken.                                           *)
Assign(s) ==
    /\ spc[s] = "assign"
    /\ \A t \in Setter : spc[t] \in {"idle", "assign"}
    /\ m_val' = new[s]
    /\ Goto(s, "idle") /\ new' = [new EXCEPT ![s] = NoLogger]
    /\ UNCHANGED <<left, on, nth, mixed, loggers, writers>>

(* A program that configures a logger by itself; which appender it adds    *)
(* makes no difference.                                                    *)
Admin(n) ==
    /\ \/ \E level \in Level \ {0} : setLevel(n, level)
       \/ \E f \in Pattern : setFormatter(n, f)
       \/ clearAppenders(n)
       \/ \E f \in Pattern \cup {Null} :
            Len(l_appenders[n]) < MaxAppenders /\ addAppender(n, StdOut, f)
       \/ \E i \in DOMAIN l_appenders[n] : delAppender(n, i)
    /\ mixed' = mixed \cup {n}
    /\ UNCHANGED <<m_val, spc, new, left, on, nth, writers>>

SetterNext ==
    \E s \in Setter :
        \/ \E doc \in Document : Load(s, doc)
        \/ NextLogger(s) \/ CallWrite(s) \/ CallSetFormatter(s)
        \/ CallClear(s) \/ CallAdd(s) \/ Notified(s) \/ Assign(s)

Next ==
    \/ SetterNext
    \/ LoggerNext /\ UNCHANGED config
    \/ \E n \in Managed : Admin(n)

Spec == Init /\ [][Next]_vars

-----------------------------------------------------------------------------
Places == {"idle", "notify", "write", "format", "clear", "add", "assign"}

(* Every variable has its type, and the listener has an appender to add.   *)
TypeOK ==
    /\ LoggerTypeOK
    /\ m_val \in Value
    /\ spc \in [Setter -> Places]
    /\ new \in [Setter -> Value]
    /\ left \in [Setter -> SUBSET Name] /\ on \in [Setter -> Name] /\ nth \in [Setter -> Nat]
    /\ \A s \in Setter :
        /\ \A n \in DOMAIN new[s] : new[s][n] \in Def
        /\ spc[s] = "add" => Defined(s, on[s]) /\ nth[s] \in DOMAIN Definition(s).appenders
    /\ mixed \subseteq Name

(* An appender without a formatter of its own writes with its logger's,    *)
(* unless a setFormatter() is under way: also when two threads load        *)
(* configurations at once (addAppender() and setFormatter(), logger.cc).   *)
Inherits ==
    \A n \in Name :
        (\A s \in Setter : ~(spc[s] = "format" /\ on[s] = n))
        => \A i \in DOMAIN l_appenders[n] :
                ~l_appenders[n][i].l_hasFormatter =>
                    l_appenders[n][i].l_formatter = l_formatter[n]

Configured(n, d) ==
    /\ l_level[n] = d.level
    /\ Parsed(d.formatter) # Null => l_formatter[n] = d.formatter

(* The appenders of logger n are those of definition d.                    *)
Appenders(n, d) ==
    /\ Len(l_appenders[n]) = Len(d.appenders)
    /\ \A i \in DOMAIN d.appenders :
        LET a == l_appenders[n][i]
            f == Parsed(d.appenders[i].formatter)
        IN  /\ a.kind = d.appenders[i].type
            /\ a.l_hasFormatter = (f # Null)
            /\ f # Null => a.l_formatter = f

(* Logger n is as value v says: when v names it, it has the level and the  *)
(* formatter of its definition and the appenders of one single definition  *)
(* that differs at most in them; else it is left without appenders.        *)
AsConfigured(n, v) ==
    IF n \in DOMAIN v
    THEN /\ Configured(n, v[n])
         /\ \E u \in Value : n \in DOMAIN u /\ SameDef(u[n], v[n]) /\ Appenders(n, u[n])
    ELSE l_appenders[n] = <<>> \/ n = Root

(* Between two settings the loggers are as the variable says.  Settings    *)
(* that overlap, and what the program configures itself, are left out      *)
(* (setValue(), config.h, and LogIniter, logger.cc).                       *)
Settled == spc = Idle => \A n \in Name \ mixed : AsConfigured(n, m_val)

(* logger.cc: the listener brings the settings of the configuration into   *)
(* the running environment.  A change of appenders alone never gets there. *)
AppendersApplied ==
    spc = Idle => \A n \in DOMAIN m_val \ mixed : Appenders(n, m_val[n])

(* Threads that log never wait for each other in a circle, however they    *)
(* are reconfigured: while one holds a logger's lock some thread writes or *)
(* can take the lock that it wants (log() calls l_root->log() with its own *)
(* lock held, logger.cc).                                                  *)
NobodyStuck ==
    \/ \E w \in Writer : wpc[w] = "write"
    \/ \A n \in Name : lock[n] = Null
    \/ \E w \in Writer : wpc[w] = "lock" /\ lock[at[w]] = Null
=============================================================================
