------------------------------ MODULE MCHooks -------------------------------
(* Two fibers, two descriptor numbers and two timers.                      *)
EXTENDS Hooks, TLC

CONSTANTS c1, c2, k1, k2

MCCaller    == {c1, c2}
MCTimer     == {k1, k2}
MCEvent     == {READ, WRITE}
MCFd        == {2, 3}
MCBusy      == {2}
MCSymmetry  == Permutations(MCCaller) \cup Permutations(MCTimer)
=============================================================================
