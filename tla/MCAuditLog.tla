----------------------------- MODULE MCAuditLog -----------------------------
(* Small instances of AuditLog.                                            *)
EXTENDS AuditLog, TLC

CONSTANTS c1, c2, s1

TwoCallers   == {c1, c2}
OneSession   == {s1}
FiveIds      == 1..5
CallSymmetry == Permutations(TwoCallers)
=============================================================================
