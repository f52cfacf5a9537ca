-------------------------------- MODULE Pool --------------------------------
(***************************************************************************)
(* What an IOManager promises its clients (the class comment of            *)
(* scheduler.h and the comments of idle() in iomanager.cc): a pool of      *)
(* threads to which callbacks are submitted, at once or with a timer or an *)
(* event they wait for.  A job that is ready runs on one thread; while it  *)
(* runs it may yield, wait for an event, or end.  Threads leave for good,  *)
(* and the last one does so only when nothing is ready and nothing runs.   *)
(* A job that waits is promised nothing then: stopping() reads timers,     *)
(* events and tasks one after the other, and a timer may be added between. *)
(***************************************************************************)
CONSTANTS
    Job,        \* the callbacks submitted to the pool
    Thread      \* its threads

VARIABLES
    status,     \* what each job is doing
    open        \* the threads that have not left

pool == <<status, open>>

Status == {"new", "ready", "running", "waiting", "done"}

PoolTypeOK == status \in [Job -> Status] /\ open \subseteq Thread

Become(S, from, to) ==
    /\ \A j \in S : status[j] = from
    /\ status' = [j \in Job |-> IF j \in S THEN to ELSE status[j]]
    /\ UNCHANGED open

Submit(j)  == open # {} /\ Become({j}, "new", "ready")
Arm(j)     == Become({j}, "new", "waiting")
Start(j)   == Become({j}, "ready", "running")
Again(j)   == Become({j}, "running", "ready")
Wait(j)    == Become({j}, "running", "waiting")
End(j)     == Become({j}, "running", "done")

(* Timers that are due at the same time, or one event.                     *)
Fire(S)    == S # {} /\ Become(S, "waiting", "ready")

Leave(t) ==
    /\ t \in open
    /\ open' = open \ {t}
    /\ open' = {} => \A j \in Job : status[j] \notin {"ready", "running"}
    /\ UNCHANGED status

Init == status = [j \in Job |-> "new"] /\ open = Thread

Next ==
    \/ \E j \in Job : Submit(j) \/ Arm(j) \/ Start(j) \/ Again(j) \/ Wait(j) \/ End(j)
    \/ \E S \in SUBSET Job : Fire(S)
    \/ \E t \in Thread : Leave(t)

Spec == Init /\ [][Next]_pool
=============================================================================
