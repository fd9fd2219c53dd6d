---------------------------- MODULE MCKeyRotation ----------------------------
(* A small instance of KeyRotation: two rotations of three keys over the   *)
(* system session and a session of an agent.                               *)
EXTENDS KeyRotation

CONSTANTS k1, k2, k3, s0, s1, r1, r2
=============================================================================
