-------------------------------- MODULE Logger --------------------------------
(***************************************************************************)
(* class Logger, class LogAppender and LoggerManager (logger.h, logger.cc):*)
(* loggers with a level, a formatter and appenders, and the threads that   *)
(* write lines through them.  A logger without appenders hands its lines   *)
(* to the root logger, and holds its own lock while it does.               *)
(*                                                                         *)
(* What is done under one lock is one step; log() holds the logger's lock  *)
(* over several.  An appender is a record: its own lock is only held for a *)
(* step.  Levels: 0 is UNKNOW, which lets everything pass.                 *)
(*                                                                         *)
(* wpc[w]: "idle", "lock" (wants the lock of at[w]), "write".              *)
(***************************************************************************)
EXTENDS Naturals, SequencesExt

CONSTANTS
    Name,           \* the loggers
    Root,           \* the main logger
    Writer,         \* threads that log
    Level,          \* 0 .. n
    Line,           \* the levels of the lines that are logged
    StdOut, File,   \* kinds of appenders
    Pattern,        \* formatters
    Default,        \* the formatter of a new logger
    Null            \* no formatter, no appender, no thread

VARIABLES
    l_level, l_formatter, l_appenders,  \* of each logger
    lock,           \* its m_mutex: the writer that holds it
    wpc, at,        \* of each writer: what it does, in which logger
    line,           \* the level of its line
    next            \* of its iterator over the appenders

ASSUME LoggerAssumption ==
    /\ Root \in Name /\ Null \notin Writer
    /\ {0, 1} \cup Line \subseteq Level      \* UNKNOW, DEBUG

loggers == <<l_level, l_formatter, l_appenders>>
writers == <<lock, wpc, at, line, next>>

Kind == {StdOut, File}

Appender == [kind : Kind, l_hasFormatter : BOOLEAN, l_formatter : Pattern \cup {Null}]

LoggerInit ==
    /\ l_level = [n \in Name |-> 1]
    /\ l_formatter = [n \in Name |-> Default]
    /\ l_appenders = [n \in Name |->
            IF n = Root
            THEN <<[kind |-> StdOut, l_hasFormatter |-> FALSE, l_formatter |-> Default]>>
            ELSE <<>>]
    /\ lock = [n \in Name |-> Null]
    /\ wpc = [w \in Writer |-> "idle"]
    /\ at = [w \in Writer |-> Root] /\ line = [w \in Writer |-> 0]
    /\ next = [w \in Writer |-> 1]

-----------------------------------------------------------------------------
(* What the other threads call; each takes the lock, but for setLevel().   *)
setLevel(n, level) ==
    /\ l_level' = [l_level EXCEPT ![n] = level]
    /\ UNCHANGED <<l_formatter, l_appenders>>

(* Mutant of clearAppenders: without the lock.                             *)
clearAppendersAtOnce(n) ==
    /\ l_appenders' = [l_appenders EXCEPT ![n] = <<>>]
    /\ UNCHANGED <<l_level, l_formatter>>

clearAppenders(n) ==
    /\ lock[n] = Null
    /\ l_appenders' = [l_appenders EXCEPT ![n] = <<>>]
    /\ UNCHANGED <<l_level, l_formatter>>

(* A new appender, with a formatter of its own or with the logger's.       *)
addAppender(n, k, f) ==
    /\ lock[n] = Null
    /\ l_appenders' = [l_appenders EXCEPT ![n] =
            Append(@, [kind |-> k, l_hasFormatter |-> f # Null,
                       l_formatter |-> IF f = Null THEN l_formatter[n] ELSE f])]
    /\ UNCHANGED <<l_level, l_formatter>>

delAppender(n, i) ==
    /\ lock[n] = Null
    /\ l_appenders' = [l_appenders EXCEPT ![n] = RemoveAt(@, i)]
    /\ UNCHANGED <<l_level, l_formatter>>

(* setFormatter(string) writes l_formatter before it takes the lock.       *)
writeFormatter(n, f) ==
    /\ l_formatter' = [l_formatter EXCEPT ![n] = f]
    /\ UNCHANGED <<l_level, l_appenders>>

(* Mutant of setFormatter: the appenders keep theirs.                      *)
setFormatterOnly(n, f) ==
    /\ lock[n] = Null
    /\ l_formatter' = [l_formatter EXCEPT ![n] = f]
    /\ UNCHANGED <<l_level, l_appenders>>

(* An appender without a formatter of its own gets the new one.            *)
setFormatter(n, f) ==
    /\ lock[n] = Null
    /\ l_formatter' = [l_formatter EXCEPT ![n] = f]
    /\ l_appenders' = [l_appenders EXCEPT ![n] = [i \in DOMAIN @ |->
            IF @[i].l_hasFormatter THEN @[i] ELSE [@[i] EXCEPT !.l_formatter = f]]]
    /\ UNCHANGED l_level

-----------------------------------------------------------------------------
(* log(): the level is read without the lock.                              *)
Log(w, n, level) ==
    /\ wpc[w] = "idle"
    /\ l_level[n] <= level
    /\ wpc' = [wpc EXCEPT ![w] = "lock"]
    /\ at' = [at EXCEPT ![w] = n] /\ line' = [line EXCEPT ![w] = level]
    /\ UNCHANGED <<lock, next, loggers>>

Release(w) ==
    /\ lock' = [n \in Name |-> IF lock[n] = w THEN Null ELSE lock[n]]
    /\ wpc' = [wpc EXCEPT ![w] = "idle"]
    /\ at' = [at EXCEPT ![w] = Root] /\ line' = [line EXCEPT ![w] = 0]
    /\ next' = [next EXCEPT ![w] = 1]

(* Mutant of Parent: the root logger has itself as l_root.                 *)
ParentAlways(n) == {Root}

(* l_root of a logger: the root logger has none.                           *)
Parent(n) == {Root} \ {n}

Hold(w) == lock' = [lock EXCEPT ![at[w]] = w]

LogHere(w) ==
    /\ wpc[w] = "lock" /\ lock[at[w]] = Null
    /\ l_appenders[at[w]] # <<>>
    /\ Hold(w)
    /\ wpc' = [wpc EXCEPT ![w] = "write"]
    /\ UNCHANGED <<at, line, next, loggers>>

(* l_root->log(): its level, and then its lock.                            *)
LogRoot(w) ==
    /\ wpc[w] = "lock" /\ lock[at[w]] = Null
    /\ l_appenders[at[w]] = <<>>
    /\ \E n \in Parent(at[w]) :
        /\ l_level[n] <= line[w]
        /\ at' = [at EXCEPT ![w] = n]
    /\ Hold(w)
    /\ UNCHANGED <<wpc, line, next, loggers>>

LogNowhere(w) ==
    /\ wpc[w] = "lock" /\ lock[at[w]] = Null
    /\ l_appenders[at[w]] = <<>>
    /\ \A n \in Parent(at[w]) : l_level[n] > line[w]
    /\ Release(w)
    /\ UNCHANGED loggers

(* The next appender's log().                                              *)
Write(w) ==
    /\ wpc[w] = "write"
    /\ \/ /\ next[w] < Len(l_appenders[at[w]])
          /\ next' = [next EXCEPT ![w] = @ + 1]
          /\ UNCHANGED <<lock, wpc, at, line>>
       \/ /\ next[w] >= Len(l_appenders[at[w]])
          /\ Release(w)
    /\ UNCHANGED loggers

LoggerNext ==
    \E w \in Writer :
        \/ \E n \in Name, level \in Line : Log(w, n, level)
        \/ LogHere(w) \/ LogRoot(w) \/ LogNowhere(w) \/ Write(w)

-----------------------------------------------------------------------------
LoggerTypeOK ==
    /\ l_level \in [Name -> Level]
    /\ l_formatter \in [Name -> Pattern]
    /\ \A n \in Name : l_appenders[n] \in Seq(Appender)
    /\ lock \in [Name -> Writer \cup {Null}]
    /\ wpc \in [Writer -> {"idle", "lock", "write"}]
    /\ at \in [Writer -> Name] /\ line \in [Writer -> Level]
    /\ next \in [Writer -> Nat]

(* A thread that writes a line is within the appenders of a logger that it *)
(* holds, and the one it is at has a formatter: no reconfiguration takes   *)
(* the list or a formatter away under it.                                  *)
WriteSafe ==
    \A w \in Writer : wpc[w] = "write" =>
        /\ lock[at[w]] = w
        /\ next[w] \in DOMAIN l_appenders[at[w]]
        /\ l_appenders[at[w]][next[w]].l_formatter # Null

(* The locks are taken in one order, logger before root: a thread that     *)
(* holds a lock writes, or waits for the root logger's with another's.     *)
LockOrder ==
    \A w \in Writer, n \in Name : lock[n] = w =>
        \/ n = at[w] /\ wpc[w] = "write"
        \/ n # Root /\ at[w] = Root /\ wpc[w] # "idle"
=============================================================================
