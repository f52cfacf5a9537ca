------------------------------- MODULE Executor -------------------------------
(***************************************************************************)
(* What a Scheduler promises its clients (the comments of scheduler.h on   *)
(* the class, start(), stop() and schedule(), and what switchTo() and the  *)
(* yields of a fiber are there for): callbacks are submitted, each on its  *)
(* own or several at once, for any thread or for one.  A callback that is  *)
(* ready is started by a thread it may run on and runs on one thread at a  *)
(* time, one at a time on each thread.  While it runs it may give way,     *)
(* move to another thread, wait for somebody who makes it ready again, or  *)
(* end, which it does once.                                                *)
(*                                                                         *)
(* stop() returns when nothing runs and nothing is ready that any thread   *)
(* may take.  It promises nothing to a callback that waits, or that is     *)
(* pinned: its thread may have left.                                       *)
(***************************************************************************)
CONSTANTS
    Job,        \* the callbacks
    Thread      \* the threads that run them

VARIABLES
    status,     \* what each callback is doing
    place,      \* of a ready one: its pin, {} for none; of a running one:
                \* the thread it runs on
    stopped     \* stop() has returned

executor == <<status, place, stopped>>

Status == {"new", "ready", "running", "waiting", "done"}
Pin    == {{}} \cup {{t} : t \in Thread}

ExecutorTypeOK ==
    status \in [Job -> Status] /\ place \in [Job -> Pin] /\ stopped \in BOOLEAN

(* The callbacks in S go from one status to the next, with one of places.  *)
Become(S, from, to, places) ==
    /\ ~stopped
    /\ \A j \in S : status[j] = from
    /\ status' = [j \in Job |-> IF j \in S THEN to ELSE status[j]]
    /\ \E P \in places : place' = [j \in Job |-> IF j \in S THEN P ELSE place[j]]
    /\ UNCHANGED stopped

Submit(S) == S # {} /\ Become(S, "new", "ready", Pin)

Free(t) == \A j \in Job : status[j] = "running" => t \notin place[j]

Start(j, t) ==
    /\ Become({j}, "ready", "running", {{t}})
    /\ place[j] \subseteq {t} /\ Free(t)

Yield(j) == Become({j}, "running", "ready", Pin)
Wait(j)  == Become({j}, "running", "waiting", {{}})
Fire(j)  == Become({j}, "waiting", "ready", {{}})
End(j)   == Become({j}, "running", "done", {{}})

Stop ==
    /\ ~stopped /\ stopped' = TRUE
    /\ \A j \in Job : status[j] # "running" /\ (status[j] = "ready" => place[j] # {})
    /\ UNCHANGED <<status, place>>

Init ==
    /\ status = [j \in Job |-> "new"]
    /\ place = [j \in Job |-> {}]
    /\ stopped = FALSE

(* Each of the five changes its callback's status; said first, it tells    *)
(* the steps of an implementation apart that no client sees.               *)
Next ==
    \/ \E S \in SUBSET Job : Submit(S)
    \/ \E j \in Job :
        /\ status'[j] # status[j]
        /\ (\E t \in Thread : Start(j, t)) \/ Yield(j) \/ Wait(j) \/ Fire(j) \/ End(j)
    \/ Stop

Spec == Init /\ [][Next]_executor
=============================================================================
