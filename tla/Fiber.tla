-------------------------------- MODULE Fiber --------------------------------
(***************************************************************************)
(* class Fiber (fiber.h, fiber.cc): a coroutine object and what its member *)
(* functions do to it.  An object keeps the enum State and the callback it *)
(* was given.  The saved context (m_ctx, m_stack, m_stacksize) is not data *)
(* here: where a body resumes is the business of whoever models the body.  *)
(*                                                                         *)
(* Objects are named after the callback they were constructed with: every  *)
(* callback is handed to one constructor at most, so f names one object.   *)
(* An object that does not exist yet is in state "NONE".                   *)
(***************************************************************************)
CONSTANTS
    Job,    \* the callbacks (std::function<void()>) handed to the system
    None    \* a null pointer, an empty function, or thread id -1

ASSUME NoneIsNoJob == None \notin Job

FiberState == {"NONE", "INIT", "HOLD", "EXEC", "TERM", "READY", "EXCEPT"}

FiberObject == [m_state : FiberState, m_cb : Job \cup {None}]

NoFiber == [m_state |-> "NONE", m_cb |-> None]

-----------------------------------------------------------------------------
(* Fiber(cb, stacksize, use_caller): INIT is the member's initializer.     *)
Construct(cb) == [m_state |-> "INIT", m_cb |-> cb]

(* The assertion of reset(): a suspended body may not be thrown away.      *)
MayReset(o) == o.m_state \in {"TERM", "EXCEPT", "INIT"}

(* Mutant: reset() keeps the old callback.                                 *)
resetKeepsCb(o, cb) == [o EXCEPT !.m_state = "INIT"]

reset(o, cb) == [m_state |-> "INIT", m_cb |-> cb]

(* The assertion of swapIn(): nobody is inside this context.               *)
MaySwapIn(o) == o.m_state # "EXEC"

swapIn(o) == [o EXCEPT !.m_state = "EXEC"]

(* YieldToReady() marks the fiber before it leaves its context.            *)
MarkReady(o) == [o EXCEPT !.m_state = "READY"]

(* Mutant: YieldToHold() marks the fiber HOLD before it leaves.            *)
MarkHoldEarly(o) == [o EXCEPT !.m_state = "HOLD"]

(* YieldToHold() marks nothing (the assignment is commented out): the body *)
(* is still EXEC when it leaves; Scheduler::run() turns it into HOLD.      *)
MarkHold(o) == o

(* run() suspends a fiber that came back neither READY nor ended.          *)
Suspend(o) == [o EXCEPT !.m_state = "HOLD"]

(* MainFunc(): the body returned, resp. threw.  m_cb survives a throw.     *)
MainFuncReturn(o) == [m_state |-> "TERM", m_cb |-> None]
MainFuncThrow(o)  == [o EXCEPT !.m_state = "EXCEPT"]

(* The check of run() before it resumes a fiber it took.                   *)
Finished(o) == o.m_state \in {"TERM", "EXCEPT"}
=============================================================================
