------------------------------ MODULE MCGates -------------------------------
(* One gate, two operator calls and two wait_for calls, as model values.   *)
EXTENDS Gates, TLC

CONSTANTS r1, o1, o2, w1, w2

MCRequests  == {r1}
MCOperators == {o1, o2}
MCWaiters   == {w1, w2}
MCSymmetry  == Permutations(MCOperators) \cup Permutations(MCWaiters)
=============================================================================
