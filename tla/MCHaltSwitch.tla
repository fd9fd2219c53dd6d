---------------------------- MODULE MCHaltSwitch ----------------------------
(* Small instances of HaltSwitch.                                          *)
EXTENDS HaltSwitch

CONSTANTS a1, c1, c2

OneAgent   == {a1}
TwoCallers == {c1, c2}
=============================================================================
