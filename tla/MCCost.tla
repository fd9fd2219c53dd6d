------------------------------- MODULE MCCost -------------------------------
(* Small instances of Cost.                                                *)
EXTENDS Cost, TLC

CONSTANTS c1, c2, c3

ThreeCallers == {c1, c2, c3}
TwoCallers   == {c1, c2}

(* Usage within its projection ...                                         *)
Honest       == 1 :> {0, 1} @@ 2 :> {1, 2}

(* ... and usage without one, or with a prompt on top of it.               *)
WithPrompt   == 0 :> {1} @@ 2 :> {1, 3}

Symmetry3    == Permutations(ThreeCallers)
Symmetry2    == Permutations(TwoCallers)
=============================================================================
