----------------------------- MODULE MCIdentity -----------------------------
(* Two processes, two keys; both are interchangeable.                      *)
EXTENDS Identity, TLC

CONSTANTS k1, k2

MCKeys == {k1, k2}
Symmetry == Permutations(Procs) \cup Permutations(MCKeys)

=============================================================================
