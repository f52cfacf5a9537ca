---------------------------- MODULE MCScheduler ----------------------------
(* Instances of Scheduler for TLC.                                         *)
EXTENDS Scheduler

CONSTANTS j1, j2, t1, t2, caller, none

MCJob      == {j1, j2}
MCThreads  == {t1, t2}
MCOneThread == {t1}
MCAnyPin   == {none, t1, t2, caller}
MCOnePin   == {none, t1, caller}
MCNobody   == {}

(* Jobs are interchangeable, and so are the pool's threads.                *)
MCSymmetry == Permutations(MCJob) \cup Permutations(MCThreads)
=============================================================================
