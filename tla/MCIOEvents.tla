----------------------------- MODULE MCIOEvents -----------------------------
(* A descriptor beyond the initial container, or two of them; readers and  *)
(* writers of it on two threads, one or two idle loops.                    *)
EXTENDS IOEvents, TLC

CONSTANTS c1, c2, l1, l2, w1, w2, w3, Nil

MCClient    == {c1, c2}
MCOneClient == {c1}
MCLooper    == {l1, l2}
MCOneLooper == {l1}
MCNoLooper  == {}
MCFd        == {2}
MCTwoFds    == {2, 3}
MCWaiter    == {w1, w2, w3}
MCTwoWaiters == {w1, w2}
MCNone      == Nil
MCSymmetry  == Permutations(MCClient) \cup Permutations(MCLooper)
                 \cup Permutations(MCWaiter)
=============================================================================
