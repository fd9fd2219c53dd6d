---------------------------- MODULE RowSelection ----------------------------
(***************************************************************************)
(* The rows of a store or a file that a loop or a query keeps, in their    *)
(* order.  SelectSeq says the same, but the prover cannot look into it:    *)
(* here a selection is given by its positions, and the k-th of them is the *)
(* one with k of them up to it.                                            *)
(***************************************************************************)
EXTENDS Naturals, Sequences, FiniteSets

UpToPos(P, i) == {j \in P : j <= i}

Nth(P, k) == CHOOSE i \in P : Cardinality(UpToPos(P, i)) = k

(* The event ids of some rows.                                             *)
IdsOf(rows) == {rows[i].id : i \in 1..Len(rows)}

RowsAt(rows, P) == [k \in 1..Cardinality(P) |-> rows[Nth(P, k)]]

=============================================================================
