---------------------------- MODULE MCAuditChain ----------------------------
(* A small instance of AuditChain: two sessions whose lock keys collide,   *)
(* and enough event ids for a rebuild.                                     *)
EXTENDS AuditChain, TLC

CONSTANTS w1, w2, w3, s1, s2, k1, k2

MCKeys    == {k1, k2}
MCIds     == 1..4
SharedKey == s1 :> k1 @@ s2 :> k1
=============================================================================
