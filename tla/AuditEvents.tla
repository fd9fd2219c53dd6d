---------------------------- MODULE AuditEvents -----------------------------
(***************************************************************************)
(* The names of what the audit stores keep: the sessions that log() chains *)
(* and the ids of the events.                                              *)
(*                                                                         *)
(* An hmac is a keyed hash over an event that contains a fresh event_id    *)
(* (uuid4), so two records never share one: the hmac of a record is        *)
(* represented by its id, and None (no predecessor) by 0.                  *)
(***************************************************************************)
EXTENDS Naturals

CONSTANTS
    Sessions,
    Ids             \* event ids; the bound on how many are drawn

ASSUME IdsAssumption == Ids \subseteq Nat \ {0}

None == 0

=============================================================================
