-------------------------- MODULE MCTimerManager ---------------------------
(* Two timers, two idle loops and a clock of a few ticks, with an hour of  *)
(* one or two ticks.                                                       *)
EXTENDS TimerManager, TLC

CONSTANTS e1, e2, l1, l2, NoClock

MCTimer     == {e1, e2}
MCOneTimer  == {e1}
MCLooper    == {l1, l2}
MCOneLooper == {l1}
MCPeriod    == {0, 2}
MCNoTime    == NoClock
MCSymmetry  == Permutations(MCTimer) \cup Permutations(MCLooper)
=============================================================================
