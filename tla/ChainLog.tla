------------------------------ MODULE ChainLog ------------------------------
(***************************************************************************)
(* What insert_with_chain_lock promises, with the locking left out: every  *)
(* session has one append-only chain of records, and a new record carries  *)
(* the hmac of the record that is last at the instant it is inserted.      *)
(***************************************************************************)
EXTENDS AuditEvents, Sequences

VARIABLE chain      \* chain[s]: the rows of session s in chain_seq order

Record == [id : Ids, prev : Ids \cup {None}]

(* "SELECT hmac_value ... ORDER BY chain_seq DESC LIMIT 1".                 *)
LastHmac(c) == IF c = <<>> THEN None ELSE c[Len(c)].id

(* The rows of one chain, checked as verify_chain_records checks them: the *)
(* genesis row has no predecessor and each row names the one before it.    *)
Linked(c) ==
    \A i \in 1..Len(c) : c[i].prev = IF i = 1 THEN None ELSE c[i-1].id

LogInit == chain = [s \in Sessions |-> <<>>]

(* One locked read-build-insert, as a single step.                         *)
AppendLinked(s, id) ==
    chain' = [chain EXCEPT ![s] = Append(@, [id |-> id, prev |-> LastHmac(@)])]

LogNext == \E s \in Sessions, id \in Ids : AppendLinked(s, id)

LogSpec == LogInit /\ [][LogNext]_chain

=============================================================================
