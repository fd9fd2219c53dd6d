-------------------------- MODULE AuditLog_proofs ---------------------------
(***************************************************************************)
(* What becomes of the events of log(): the theorems about AuditLog, where *)
(* the database may be away, then about MemoryAudit, where there is none,  *)
(* and about AuditChain, the insert into the database that AuditLog takes  *)
(* as one step. The lemmas about row selections that the first two share   *)
(* come first.                                                             *)
(*                                                                         *)
(* The degraded log, for any number of calls, sessions and events, any     *)
(* file size and drain batch, any outages and crashes: whatever log()      *)
(* returned is kept in the primary or the fallback, unless it was in a     *)
(* file the size cap gave up or died with the memory buffer of a crashed   *)
(* process; the rows of a session in the fallback never fork; and the      *)
(* locks are owned by the calls that say so. The calls inside the fallback *)
(* are exactly the queue of its session lock, and only the head has built  *)
(* a record (Queued); the drain owns the global lock (Draining); records   *)
(* wait in the order of their ids, each naming no younger one (Chained,    *)
(* Sorted); and what a drain has passed in the file is in the primary      *)
(* (Passed), so that removing the file loses nothing.                      *)
(***************************************************************************)
EXTENDS AuditLog, MemoryAudit, AuditChain, FiniteSetTheorems, WellFoundedInduction, TLAPS

-----------------------------------------------------------------------------
(* Selections of rows.                                                     *)

(* The sets of positions of a sequence of length n.                        *)
Positions(n) == SUBSET (1..n)

(* A non-empty set of naturals has a least one.                            *)
LEMMA MinExists ==
    ASSUME NEW T \in SUBSET Nat, T # {}
    PROVE  \E x \in T : \A y \in T : x <= y
  <1> DEFINE R == OpToRel(<, Nat)
  <1>1. IsWellFoundedOn(R, Nat)
    BY NatLessThanWellFounded
  <1> HIDE DEF R
  <1>2. PICK x \in T : \A y \in T : ~ (<<y, x>> \in R)
    BY <1>1, WFMin
  <1>3. \A y \in T : y < x => <<y, x>> \in R
    BY DEF R, OpToRel
  <1>4. \A y \in T : ~ (y < x)
    BY <1>2, <1>3, Zenon
  <1> QED BY <1>4

(* The positions up to one, and what a position is.                        *)
LEMMA UpToPosIn ==
    ASSUME NEW n \in Nat, NEW P \in Positions(n), NEW i \in Nat
    PROVE  /\ \A j : j \in UpToPos(P, i) <=> j \in P /\ j <= i
           /\ \A j \in P : j \in Nat /\ 1 <= j /\ j <= n
  BY DEF UpToPos, Positions

(* How many of a set of positions lie up to one: finite, at most all of    *)
(* them, none up to 0 and all of them up to the last row.                  *)
LEMMA UpToPosSize ==
    ASSUME NEW n \in Nat, NEW P \in Positions(n), NEW i \in Nat
    PROVE  /\ IsFiniteSet(P) /\ Cardinality(P) \in Nat /\ Cardinality(P) <= n
           /\ IsFiniteSet(UpToPos(P, i)) /\ Cardinality(UpToPos(P, i)) \in 0..Cardinality(P)
           /\ i = 0 => Cardinality(UpToPos(P, i)) = 0
           /\ i >= n => UpToPos(P, i) = P
  <1>1. IsFiniteSet(1..n) /\ Cardinality(1..n) = n
    BY FS_Interval
  <1>2. IsFiniteSet(P) /\ Cardinality(P) \in Nat /\ Cardinality(P) <= n
    BY <1>1, FS_Subset, FS_CardinalityType DEF Positions
  <1>3. UpToPos(P, i) \in SUBSET P
    BY DEF UpToPos
  <1>4. /\ IsFiniteSet(UpToPos(P, i)) /\ Cardinality(UpToPos(P, i)) \in Nat
        /\ Cardinality(UpToPos(P, i)) <= Cardinality(P)
    BY <1>2, <1>3, FS_Subset, FS_CardinalityType
  <1>5. ASSUME i = 0 PROVE Cardinality(UpToPos(P, i)) = 0
    <2>1. UpToPos(P, i) = {}
      BY <1>5, UpToPosIn
    <2> QED BY <2>1, FS_EmptySet
  <1>6. ASSUME i >= n PROVE UpToPos(P, i) = P
    <2>1. \A j \in P : j \in UpToPos(P, i)
      BY <1>6, UpToPosIn
    <2> QED BY <1>3, <2>1
  <1> QED BY <1>2, <1>4, <1>5, <1>6

(* The next position adds one to that number if it is one of the set.      *)
LEMMA UpToPosNext ==
    ASSUME NEW n \in Nat, NEW P \in Positions(n), NEW i \in Nat
    PROVE  Cardinality(UpToPos(P, i + 1)) =
               IF i + 1 \in P THEN Cardinality(UpToPos(P, i)) + 1 ELSE Cardinality(UpToPos(P, i))
  <1>1. CASE i + 1 \in P
    <2>1. UpToPos(P, i + 1) = UpToPos(P, i) \cup {i + 1} /\ i + 1 \notin UpToPos(P, i)
      BY <1>1, UpToPosIn
    <2>2. IsFiniteSet(UpToPos(P, i))
      BY UpToPosSize
    <2> QED BY <1>1, <2>1, <2>2, FS_AddElement
  <1>2. CASE i + 1 \notin P
    <2>1. UpToPos(P, i + 1) = UpToPos(P, i)
      <3>1. \A j \in UpToPos(P, i + 1) : j \in UpToPos(P, i)
        BY <1>2, UpToPosIn
      <3>2. \A j \in UpToPos(P, i) : j \in UpToPos(P, i + 1)
        BY UpToPosIn
      <3> QED BY <3>1, <3>2
    <2> QED BY <1>2, <2>1
  <1> QED BY <1>1, <1>2

(* A later position of the set has more of them up to it.                  *)
LEMMA UpToPosGrows ==
    ASSUME NEW n \in Nat, NEW P \in Positions(n), NEW i \in Nat, NEW j \in P, i < j
    PROVE  Cardinality(UpToPos(P, i)) < Cardinality(UpToPos(P, j))
  <1>0. j \in Nat
    BY UpToPosIn
  <1>1. /\ IsFiniteSet(UpToPos(P, j)) /\ Cardinality(UpToPos(P, j)) \in Nat
        /\ Cardinality(UpToPos(P, i)) \in Nat
    BY <1>0, UpToPosSize
  <1>2. UpToPos(P, i) \in SUBSET UpToPos(P, j) /\ j \in UpToPos(P, j) /\ j \notin UpToPos(P, i)
    <2>1. ASSUME NEW x \in UpToPos(P, i) PROVE x \in UpToPos(P, j)
      <3>1. x \in P /\ x \in Nat /\ x <= i
        BY UpToPosIn
      <3>2. x <= j
        BY <1>0, <3>1
      <3> QED BY <1>0, <3>1, <3>2, UpToPosIn
    <2>2. j \in UpToPos(P, j) /\ j \notin UpToPos(P, i)
      BY <1>0, UpToPosIn
    <2> QED BY <2>1, <2>2
  <1>3. Cardinality(UpToPos(P, i)) <= Cardinality(UpToPos(P, j))
    BY <1>1, <1>2, FS_Subset
  <1>4. Cardinality(UpToPos(P, i)) # Cardinality(UpToPos(P, j))
    BY <1>1, <1>2, FS_Subset
  <1> QED BY <1>1, <1>3, <1>4

(* Nth(P, k) is a position of the set with k of them up to it, and the     *)
(* only one.                                                               *)
LEMMA NthIs ==
    ASSUME NEW n \in Nat, NEW P \in Positions(n), NEW k \in 1..Cardinality(P)
    PROVE  /\ Nth(P, k) \in P
           /\ Cardinality(UpToPos(P, Nth(P, k))) = k
           /\ \A i \in P : Cardinality(UpToPos(P, i)) = k => i = Nth(P, k)
  <1> DEFINE T == {i \in Nat : Cardinality(UpToPos(P, i)) >= k}
  <1>0. Cardinality(P) \in Nat
    BY UpToPosSize
  <1>1. n \in T
    <2>1. UpToPos(P, n) = P
      BY UpToPosSize
    <2> QED BY <1>0, <2>1
  <1>2. PICK i \in T : \A j \in T : i <= j
    BY <1>1, MinExists
  <1>3. i \in Nat /\ Cardinality(UpToPos(P, i)) >= k /\ Cardinality(UpToPos(P, i)) \in Nat
    BY UpToPosSize
  <1>4. i # 0
    BY <1>0, <1>3, UpToPosSize
  <1>5. PICK h \in Nat : i = h + 1
    BY <1>3, <1>4
  <1>6. Cardinality(UpToPos(P, h)) < k /\ Cardinality(UpToPos(P, h)) \in Nat
    <2>1. Cardinality(UpToPos(P, h)) \in Nat
      BY UpToPosSize
    <2>2. h \notin T
      BY <1>2, <1>5
    <2> QED BY <1>0, <2>1, <2>2
  <1>7. i \in P /\ Cardinality(UpToPos(P, i)) = k
    BY <1>0, <1>3, <1>5, <1>6, UpToPosNext
  <1>8. Nth(P, k) \in P /\ Cardinality(UpToPos(P, Nth(P, k))) = k
    BY <1>7 DEF Nth
  <1>9. ASSUME NEW j \in P, Cardinality(UpToPos(P, j)) = k PROVE j = Nth(P, k)
    <2>1. j \in Nat /\ Nth(P, k) \in Nat
      BY <1>8, UpToPosIn
    <2>2. ~(j < Nth(P, k))
      BY <1>0, <1>8, <1>9, <2>1, UpToPosGrows
    <2>3. ~(Nth(P, k) < j)
      BY <1>0, <1>8, <1>9, <2>1, UpToPosGrows
    <2> QED BY <2>1, <2>2, <2>3
  <1> QED BY <1>8, <1>9

(* Every position of the set is its Nth for the number up to it.           *)
LEMMA NthOf ==
    ASSUME NEW n \in Nat, NEW P \in Positions(n), NEW i \in P
    PROVE  /\ Cardinality(UpToPos(P, i)) \in 1..Cardinality(P)
           /\ Nth(P, Cardinality(UpToPos(P, i))) = i
  <1>1. i \in Nat /\ 0 < i
    BY UpToPosIn
  <1>2. /\ Cardinality(UpToPos(P, i)) \in 0..Cardinality(P) /\ Cardinality(P) \in Nat
        /\ Cardinality(UpToPos(P, 0)) = 0
    BY <1>1, UpToPosSize
  <1>3. Cardinality(UpToPos(P, 0)) < Cardinality(UpToPos(P, i))
    BY <1>1, UpToPosGrows
  <1>4. Cardinality(UpToPos(P, i)) \in 1..Cardinality(P)
    BY <1>2, <1>3
  <1> QED BY <1>4, NthIs

(* A selection is a sequence of as many rows as positions; each of its     *)
(* rows stands at its position, and each selected row is in it.            *)
LEMMA RowsAtRows ==
    ASSUME NEW S, NEW rows \in Seq(S), NEW P \in Positions(Len(rows))
    PROVE  /\ RowsAt(rows, P) \in Seq(S)
           /\ Cardinality(P) \in Nat /\ Len(RowsAt(rows, P)) = Cardinality(P)
           /\ Cardinality(P) <= Len(rows)
           /\ \A k \in 1..Cardinality(P) :
                Nth(P, k) \in P /\ RowsAt(rows, P)[k] = rows[Nth(P, k)]
           /\ \A i \in P : \E k \in 1..Cardinality(P) : RowsAt(rows, P)[k] = rows[i]
           /\ RowsAt(rows, P) = <<>> <=> P = {}
  <1>0. /\ Len(rows) \in Nat /\ Cardinality(P) \in Nat /\ IsFiniteSet(P)
        /\ Cardinality(P) <= Len(rows)
    BY UpToPosSize
  <1>1. ASSUME NEW k \in 1..Cardinality(P)
        PROVE  Nth(P, k) \in P /\ RowsAt(rows, P)[k] = rows[Nth(P, k)] /\ rows[Nth(P, k)] \in S
    <2>1. Nth(P, k) \in P
      BY <1>0, NthIs
    <2>2. rows[Nth(P, k)] \in S
      <3>1. Nth(P, k) \in 1..Len(rows)
        BY <2>1 DEF Positions
      <3> QED BY <3>1
    <2> QED BY <2>1, <2>2 DEF RowsAt
  <1>2. RowsAt(rows, P) \in [1..Cardinality(P) -> S]
    BY <1>1 DEF RowsAt
  <1>3. RowsAt(rows, P) \in Seq(S) /\ Len(RowsAt(rows, P)) = Cardinality(P)
    BY <1>0, <1>2
  <1>4. ASSUME NEW i \in P
        PROVE  \E k \in 1..Cardinality(P) : RowsAt(rows, P)[k] = rows[i]
    BY <1>0, <1>1, NthOf
  <1>5. RowsAt(rows, P) = <<>> <=> Cardinality(P) = 0
    BY <1>3
  <1>6. Cardinality(P) = 0 <=> P = {}
    BY <1>0, FS_EmptySet
  <1> QED BY <1>0, <1>1, <1>3, <1>4, <1>5, <1>6

(* The last row of a selection stands at its greatest position.            *)
LEMMA RowsAtLast ==
    ASSUME NEW S, NEW rows \in Seq(S), NEW P \in Positions(Len(rows)), P # {}
    PROVE  \E m \in P : /\ \A i \in P : i <= m
                        /\ Len(RowsAt(rows, P)) > 0
                        /\ RowsAt(rows, P)[Len(RowsAt(rows, P))] = rows[m]
  <1> DEFINE k == Cardinality(P)
             m == Nth(P, k)
  <1>0. Len(rows) \in Nat /\ k \in 1..k /\ k \in Nat /\ k > 0
    <2>1. IsFiniteSet(P) /\ k \in Nat
      BY UpToPosSize
    <2>2. k # 0
      BY <2>1, FS_EmptySet
    <2> QED BY <2>1, <2>2
  <1>1. m \in P /\ Cardinality(UpToPos(P, m)) = k
    BY <1>0, NthIs
  <1>2. ASSUME NEW i \in P PROVE i <= m
    <2>0. i \in Nat /\ m \in Nat
      BY <1>0, <1>1, UpToPosIn
    <2>1. Cardinality(UpToPos(P, i)) \in 0..k
      BY <1>0, <2>0, UpToPosSize
    <2>2. ~(m < i)
      BY <1>0, <1>1, <2>0, <2>1, UpToPosGrows
    <2> QED BY <2>0, <2>2
  <1>3. Len(RowsAt(rows, P)) = k /\ RowsAt(rows, P)[k] = rows[m]
    BY <1>0, RowsAtRows
  <1> HIDE DEF k, m
  <1> QED BY <1>0, <1>1, <1>2, <1>3

(* A selection has a row for each of its positions, in their order: two of *)
(* its rows stand at different positions.                                  *)
LEMMA NthInjective ==
    ASSUME NEW n \in Nat, NEW P \in Positions(n),
           NEW k \in 1..Cardinality(P), NEW l \in 1..Cardinality(P), Nth(P, k) = Nth(P, l)
    PROVE  k = l
  <1>1. Cardinality(UpToPos(P, Nth(P, k))) = k
    BY NthIs
  <1>2. Cardinality(UpToPos(P, Nth(P, l))) = l
    BY NthIs
  <1> QED BY <1>1, <1>2

(* A selection depends on the rows at its positions only.                  *)
LEMMA RowsAtSame ==
    ASSUME NEW n \in Nat, NEW P \in Positions(n), NEW a, NEW b, \A i \in P : a[i] = b[i]
    PROVE  RowsAt(a, P) = RowsAt(b, P)
  <1>1. \A k \in 1..Cardinality(P) : a[Nth(P, k)] = b[Nth(P, k)]
    BY NthIs
  <1> QED BY <1>1 DEF RowsAt

(* A new last position adds its row at the end of the selection.           *)
LEMMA RowsAtGrows ==
    ASSUME NEW S, NEW rows \in Seq(S), NEW x \in S, NEW P \in Positions(Len(rows))
    PROVE  RowsAt(Append(rows, x), P \cup {Len(rows) + 1}) = Append(RowsAt(rows, P), x)
  <1>a. PICK n \in Nat : n = Len(rows)
    OBVIOUS
  <1>b. P \in Positions(n)
    BY <1>a
  <1>c. P \cup {n + 1} \in Positions(n + 1)
    BY <1>b DEF Positions
  <1>d. PICK Q \in Positions(n + 1) : Q = P \cup {n + 1}
    BY <1>c
  <1>1. /\ IsFiniteSet(P) /\ Cardinality(P) \in Nat /\ n + 1 \in Nat
        /\ \A i \in P : i \in Nat /\ 1 <= i /\ i <= n
    <2>1. IsFiniteSet(P) /\ Cardinality(P) \in Nat
      BY <1>b, UpToPosSize
    <2>2. \A i \in P : i \in Nat /\ 1 <= i /\ i <= n
      BY <1>b DEF Positions
    <2> QED BY <2>1, <2>2
  <1>2. n + 1 \notin P
    BY <1>1
  <1>3. Cardinality(Q) = Cardinality(P) + 1
    BY <1>d, <1>1, <1>2, FS_AddElement
  <1>4. ASSUME NEW i \in P PROVE UpToPos(Q, i) = UpToPos(P, i)
    <2>1. \A j : j \in UpToPos(Q, i) <=> j \in Q /\ j <= i
      BY DEF UpToPos
    <2>2. \A j : j \in UpToPos(P, i) <=> j \in P /\ j <= i
      BY DEF UpToPos
    <2>3. ~(n + 1 <= i)
      BY <1>1
    <2> QED BY <1>d, <2>1, <2>2, <2>3
  <1>5. UpToPos(Q, n + 1) = Q
    <2>1. \A j \in Q : j <= n + 1
      BY <1>d, <1>1
    <2> QED BY <2>1 DEF UpToPos
  <1>6. ASSUME NEW k \in 1..Cardinality(P) PROVE Nth(Q, k) = Nth(P, k)
    <2>1. Nth(P, k) \in P /\ Cardinality(UpToPos(P, Nth(P, k))) = k
      BY <1>b, NthIs
    <2>2. Nth(P, k) \in Q /\ Cardinality(UpToPos(Q, Nth(P, k))) = k
      BY <1>d, <1>4, <2>1
    <2>3. k \in 1..Cardinality(Q)
      BY <1>1, <1>3
    <2> QED BY <1>1, <2>2, <2>3, NthIs
  <1>7. Nth(Q, Cardinality(P) + 1) = n + 1
    <2>1. n + 1 \in Q /\ Cardinality(P) + 1 \in 1..Cardinality(Q)
      BY <1>d, <1>1, <1>3
    <2>2. Cardinality(UpToPos(Q, n + 1)) = Cardinality(P) + 1
      BY <1>3, <1>5
    <2> QED BY <1>1, <2>1, <2>2, NthIs
  <1> DEFINE t == RowsAt(rows, P)
             u == RowsAt(Append(rows, x), Q)
             k0 == Cardinality(P)
  <1>8. /\ t \in Seq(S) /\ Len(t) = k0
        /\ \A k \in 1..k0 : Nth(P, k) \in P /\ t[k] = rows[Nth(P, k)]
    BY RowsAtRows
  <1>9. /\ Append(rows, x) \in Seq(S) /\ Append(rows, x)[n + 1] = x
        /\ Len(Append(rows, x)) = n + 1
        /\ \A i \in 1..n : Append(rows, x)[i] = rows[i]
    BY <1>a
  <1>10. /\ u \in Seq(S) /\ Len(u) = k0 + 1
         /\ \A k \in 1..k0 + 1 : u[k] = Append(rows, x)[Nth(Q, k)]
    <2>1. PICK z \in Seq(S) : z = Append(rows, x)
      BY <1>9, Zenon
    <2>2. Q \in Positions(Len(z))
      BY <1>9, <2>1, Zenon
    <2>3. \A R \in Positions(Len(z)) :
             /\ RowsAt(z, R) \in Seq(S) /\ Len(RowsAt(z, R)) = Cardinality(R)
             /\ \A k \in 1..Cardinality(R) : RowsAt(z, R)[k] = z[Nth(R, k)]
      BY RowsAtRows
    <2>4. /\ RowsAt(z, Q) \in Seq(S) /\ Len(RowsAt(z, Q)) = Cardinality(Q)
          /\ \A k \in 1..Cardinality(Q) : RowsAt(z, Q)[k] = z[Nth(Q, k)]
      BY <2>2, <2>3, Zenon
    <2> QED BY <1>3, <2>1, <2>4
  <1>11. ASSUME NEW k \in 1..k0 PROVE u[k] = t[k]
    <2>1. k \in 1..k0 + 1 /\ Nth(P, k) \in 1..n
      BY <1>1, <1>8
    <2> QED BY <1>6, <1>8, <1>9, <1>10, <2>1
  <1>12. u[k0 + 1] = x
    <2>1. k0 + 1 \in 1..k0 + 1
      BY <1>1
    <2> QED BY <1>7, <1>9, <1>10, <2>1
  <1>13. k0 \in Nat
    BY <1>1
  <1> HIDE DEF t, u, k0
  <1>14. /\ Append(t, x) \in Seq(S) /\ Len(Append(t, x)) = k0 + 1 /\ Append(t, x)[k0 + 1] = x
         /\ \A k \in 1..k0 : Append(t, x)[k] = t[k]
    BY <1>8, <1>13
  <1>15. \A k \in 1..k0 + 1 : u[k] = Append(t, x)[k]
    BY <1>11, <1>12, <1>13, <1>14
  <1>16. u = Append(t, x)
    BY <1>10, <1>14, <1>15
  <1>17. Q = P \cup {Len(rows) + 1}
    BY <1>a, <1>d
  <1> QED BY <1>16, <1>17, Zenon DEF t, u

(* t is a followed by b.                                                   *)
IsJoin(t, a, b) ==
    /\ Len(t) = Len(a) + Len(b)
    /\ \A i \in 1..Len(a) : i \in 1..Len(t) /\ t[i] = a[i]
    /\ \A i \in 1..Len(b) : Len(a) + i \in 1..Len(t) /\ t[Len(a) + i] = b[i]
    /\ \A i \in 1..Len(t) : i \in 1..Len(a) \/ \E j \in 1..Len(b) : i = Len(a) + j

(* The rows of a concatenation, and of the rows up to a position.          *)
LEMMA Joined ==
    ASSUME NEW S, NEW a \in Seq(S), NEW b \in Seq(S)
    PROVE  \E t \in Seq(S) : t = a \o b /\ IsJoin(t, a, b)
  <1>1. /\ a \o b \in Seq(S) /\ Len(a \o b) = Len(a) + Len(b)
        /\ Len(a) \in Nat /\ Len(b) \in Nat
        /\ \A i \in 1..Len(a) : (a \o b)[i] = a[i]
        /\ \A i \in 1..Len(b) : (a \o b)[Len(a) + i] = b[i]
    OBVIOUS
  <1>2. PICK t \in Seq(S) :
          /\ t = a \o b /\ Len(t) = Len(a) + Len(b)
          /\ \A i \in 1..Len(a) : t[i] = a[i]
          /\ \A i \in 1..Len(b) : t[Len(a) + i] = b[i]
    BY <1>1, Zenon
  <1>3. /\ Len(t) = Len(a) + Len(b)
        /\ \A i \in 1..Len(a) : t[i] = a[i]
        /\ \A i \in 1..Len(b) : t[Len(a) + i] = b[i]
    BY <1>2
  <1>4. /\ \A i \in 1..Len(a) : i \in 1..Len(t)
        /\ \A i \in 1..Len(b) : Len(a) + i \in 1..Len(t)
    BY <1>1, <1>3
  <1>5. ASSUME NEW i \in 1..Len(t), i \notin 1..Len(a)
        PROVE  \E j \in 1..Len(b) : i = Len(a) + j
    <2>1. i - Len(a) \in 1..Len(b) /\ i = Len(a) + (i - Len(a))
      BY <1>1, <1>3, <1>5
    <2> QED BY <2>1
  <1>6. IsJoin(t, a, b)
    BY <1>3, <1>4, <1>5, Zenon DEF IsJoin
  <1> QED BY <1>2, <1>6, Zenon

(* t is the first k rows of q, and what follows them.                      *)
IsPrefix(t, q, k) == Len(t) = k /\ \A i \in 1..k : i \in 1..Len(q) /\ t[i] = q[i]
(* ... and what follows them.                                              *)
IsSuffix(t, q, k) ==
    /\ Len(t) = Len(q) - k
    /\ \A i \in 1..Len(t) : k + i \in 1..Len(q) /\ t[i] = q[k + i]
    /\ \A j \in 1..Len(q) : j > k => \E i \in 1..Len(t) : j = k + i

(* SubSeq cuts them off.                                                   *)
LEMMA Prefix ==
    ASSUME NEW S, NEW q \in Seq(S), NEW k \in Nat, k <= Len(q)
    PROVE  \E t \in Seq(S) : t = SubSeq(q, 1, k) /\ IsPrefix(t, q, k)
  <1>1. Len(q) \in Nat
    OBVIOUS
  <1>2. \A i \in 1..k : i \in 1..Len(q)
    BY <1>1
  <1>3. /\ SubSeq(q, 1, k) \in Seq(S) /\ Len(SubSeq(q, 1, k)) = k
        /\ \A i \in 1..k : SubSeq(q, 1, k)[i] = q[i]
    BY <1>1
  <1>4. IsPrefix(SubSeq(q, 1, k), q, k)
    BY <1>2, <1>3, Zenon DEF IsPrefix
  <1> QED BY <1>3, <1>4, Zenon

(* What follows the first k rows, in its shape.                            *)
LEMMA SuffixOf ==
    ASSUME NEW S, NEW q \in Seq(S), NEW k \in Nat, k <= Len(q)
    PROVE  \E t \in Seq(S) : t = SubSeq(q, k + 1, Len(q)) /\ IsSuffix(t, q, k)
  <1> DEFINE u == SubSeq(q, k + 1, Len(q))
  <1>1. Len(q) \in Nat
    OBVIOUS
  <1>2. u \in Seq(S) /\ Len(u) = Len(q) - k /\ \A i \in 1..Len(q) - k : u[i] = q[k + i]
    BY <1>1
  <1> HIDE DEF u
  <1>3. \A i \in 1..Len(u) : k + i \in 1..Len(q) /\ u[i] = q[k + i]
    BY <1>1, <1>2
  <1>4. ASSUME NEW j \in 1..Len(q), j > k PROVE \E i \in 1..Len(u) : j = k + i
    <2>1. j - k \in 1..Len(u) /\ j = k + (j - k)
      BY <1>1, <1>2, <1>4
    <2> QED BY <2>1
  <1>5. IsSuffix(u, q, k)
    BY <1>2, <1>3, <1>4, Zenon DEF IsSuffix
  <1> QED BY <1>2, <1>5, Zenon DEF u

(* The rows behind a position.                                             *)
LEMMA Suffix ==
    ASSUME NEW S, NEW q \in Seq(S), NEW k \in Nat, k <= Len(q),
           NEW t, t = SubSeq(q, k + 1, Len(q))
    PROVE  /\ t \in Seq(S) /\ Len(t) = Len(q) - k
           /\ \A i \in 1..Len(t) : k + i \in 1..Len(q) /\ t[i] = q[k + i]
           /\ \A j \in 1..Len(q) : j > k => j - k \in 1..Len(t) /\ t[j - k] = q[j]
  OBVIOUS

-----------------------------------------------------------------------------
(* The inductive invariant.                                                *)

(* Where a call is inside the fallback store, and where it has built the   *)
(* record it is about to append.                                           *)
BuiltPhases == {"fbMarkerBuilt", "fbRecordBuilt"}
FbPhases == {"fbMarker", "fbRecord"} \cup BuiltPhases

(* What waits in the fallback store.                                       *)
Waiting == Buffered \cup Elements(rotated)

(* The calls inside the fallback of a session are the ones in its queue,   *)
(* each once, and only its head has built a record.                        *)
Queued ==
    /\ \A s \in Sessions : \A i \in 1..Len(queue[s]) :
         /\ call[queue[s][i]].pc \in FbPhases /\ call[queue[s][i]].sess = s
         /\ \A j \in 1..Len(queue[s]) : queue[s][i] = queue[s][j] => i = j
    /\ \A c \in Callers : call[c].pc \in FbPhases =>
         \E i \in 1..Len(queue[Sess(c)]) : queue[Sess(c)][i] = c
    /\ \A c \in Callers : call[c].pc \in BuiltPhases =>
         queue[Sess(c)] # <<>> /\ queue[Sess(c)][1] = c

(* The global lock is held by the call that drains.                        *)
Draining ==
    /\ lock # NoCall => lock \in Callers /\ call[lock].pc = "draining"
    /\ \A c \in Callers : call[c].pc = "draining" => lock = c

(* p may be named as the predecessor of a record of session s: it is none, *)
(* or no record of s in the fallback is younger.                           *)
Names(s, p) == p = None \/ \A r \in Waiting : r.sess = s => r.id <= p

(* Every waiting record names an older one, and one no older than each of  *)
(* the records before it; so do the cached predecessors and the records    *)
(* about to be appended, which are younger than all that waits.            *)
Chained ==
    /\ \A r \in Waiting : r.id < nextId /\ r.prev < r.id
    /\ \A r, q \in Waiting :
         r.sess = q.sess /\ r.id < q.id => q.prev = None \/ r.id <= q.prev
    /\ \A s \in Sessions : last[s] < nextId /\ Names(s, last[s])
    /\ \A c \in Callers : call[c].pc \in BuiltPhases =>
         LET b == call[c].built IN
         /\ b \in LogRecord /\ b.sess = Sess(c) /\ b.id < nextId /\ b.prev < b.id
         /\ Names(b.sess, b.prev)
         /\ \A r \in Waiting : r.sess = b.sess => r.id < b.id

(* Of a session, the rows of a and then those of b are in the order of     *)
(* their ids.                                                              *)
Before(a, b) ==
    \A i \in 1..Len(a), j \in 1..Len(b) : a[i].sess = b[j].sess => a[i].id <= b[j].id
Ordered(a) ==
    \A i, j \in 1..Len(a) : i <= j /\ a[i].sess = a[j].sess => a[i].id <= a[j].id

(* Within a session the fallback is written in the order of the ids: the   *)
(* rotated file, the file, the memory buffer, which is empty until the     *)
(* file is given up.                                                       *)
Sorted ==
    /\ fsOk => mem = <<>>
    /\ Ordered(file) /\ Ordered(mem)
    /\ Before(rotated, file) /\ Before(rotated, mem) /\ Before(file, mem)

(* What a drain has passed in the file is in the primary.                  *)
Passed ==
    \A c \in Callers : call[c].pc = "draining" =>
        \A i \in 1..Len(file) : i <= call[c].pos => file[i].id \in RowIds

(* The inductive invariant of the degraded log.                            *)
Inv == TypeOK /\ Queued /\ Draining /\ Chained /\ Sorted /\ Passed /\ ReturnedKept

-----------------------------------------------------------------------------
(* Types.                                                                  *)

(* The type invariant, variable by variable.                               *)
Typed ==
    /\ chain \in [Sessions -> Seq(LogRecord)]
    /\ up \in BOOLEAN /\ fsOk \in BOOLEAN
    /\ file \in Seq(LogRecord) /\ rotated \in Seq(LogRecord) /\ mem \in Seq(LogRecord)
    /\ last \in [Sessions -> Ids \cup {None}] /\ hydrated \in SUBSET Sessions
    /\ lock \in Callers \cup {NoCall}
    /\ queue \in [Sessions -> Seq(Callers)]
    /\ degraded \in SUBSET Sessions
    /\ call \in [Callers -> Calls]
    /\ nextId \in Nat
    /\ returned \in SUBSET Ids /\ dropped \in SUBSET Ids
    /\ outages \in 0..MaxOutages /\ crashes \in 0..MaxCrashes

(* The two forms say the same, now ...                                     *)
LEMMA TypedIs == TypeOK <=> Typed
  BY DEF TypeOK, Typed

(* ... and after a step.                                                   *)
LEMMA TypedIsNext == TypeOK' <=> Typed'
  BY DEF TypeOK, Typed

(* A call's own fields.                                                    *)
LEMMA CallFields ==
    ASSUME Typed, NEW c \in Callers
    PROVE  /\ call[c] \in Calls /\ call[c].pc \in Phases /\ Sess(c) \in Sessions
           /\ call[c].model \in BOOLEAN /\ call[c].built \in LogRecord \cup {NoRecord}
           /\ call[c].pos \in Nat
           /\ chain[Sess(c)] \in Seq(LogRecord) /\ queue[Sess(c)] \in Seq(Callers)
  BY DEF Typed, Calls, Sess

(* A call moved on keeps its other fields, and the other calls theirs.     *)
LEMMA GotoKeeps ==
    ASSUME Typed, NEW c \in Callers, NEW p \in Phases, Goto(c, p)
    PROVE  /\ call' \in [Callers -> Calls]
           /\ call'[c].pc = p /\ call'[c].sess = call[c].sess
           /\ call'[c].built = call[c].built /\ call'[c].pos = call[c].pos
           /\ \A d \in Callers : d # c => call'[d] = call[d]
  BY DEF Typed, Goto, Calls

(* The record build_record or build_marker makes of a call.                *)
LEMMA BuiltFields ==
    ASSUME Typed, NEW c \in Callers, NEW k \in {"event", "marker"},
           NEW p \in Ids \cup {None}, NEW fb \in BOOLEAN, nextId \in Ids
    PROVE  /\ Built(c, k, p, fb) \in LogRecord
           /\ Built(c, k, p, fb).id = nextId /\ Built(c, k, p, fb).sess = Sess(c)
           /\ Built(c, k, p, fb).prev = p /\ Built(c, k, p, fb).kind = k
  <1> DEFINE m == k = "event" /\ call[c].model
  <1>1. Sess(c) \in Sessions
    BY CallFields
  <1>2. m \in BOOLEAN
    OBVIOUS
  <1>3. Built(c, k, p, fb) = [id |-> nextId, sess |-> Sess(c), prev |-> p, kind |-> k,
                              model |-> m, mac |-> m, fb |-> fb]
    BY DEF Built
  <1> HIDE DEF m
  <1> QED BY <1>1, <1>2, <1>3 DEF LogRecord

(* The last row's id is an id, or none.                                    *)
LEMMA LastHmacType ==
    ASSUME NEW q \in Seq(LogRecord)
    PROVE  LastHmac(q) \in Ids \cup {None}
  <1>1. CASE q = <<>>
    BY <1>1 DEF LastHmac
  <1>2. CASE q # <<>>
    <2>1. q[Len(q)] \in LogRecord
      BY <1>2
    <2> QED BY <1>2, <2>1 DEF LastHmac, LogRecord
  <1> QED BY <1>1, <1>2

(* An insert adds one row at the end of its session.                       *)
LEMMA InsertAdds ==
    ASSUME Typed, NEW c \in Callers, NEW k \in {"event", "marker"}, InsertPrimary(c, k)
    PROVE  /\ nextId \in Ids /\ nextId' = nextId + 1
           /\ \E b \in LogRecord :
                b.id = nextId /\ chain' = [chain EXCEPT ![Sess(c)] = Append(@, b)]
  <1>1. LastHmac(chain[Sess(c)]) \in Ids \cup {None}
    BY CallFields, LastHmacType
  <1> DEFINE b == Built(c, k, LastHmac(chain[Sess(c)]), FALSE)
  <1>2. nextId \in Ids /\ nextId' = nextId + 1
    BY DEF InsertPrimary, Fresh
  <1>3. b \in LogRecord /\ b.id = nextId
    BY <1>1, <1>2, BuiltFields
  <1>4. chain' = [chain EXCEPT ![Sess(c)] = Append(@, b)]
    BY DEF InsertPrimary
  <1> HIDE DEF b
  <1> QED BY <1>2, <1>3, <1>4

(* The rows of a session among some records.                               *)
LEMMA OfSessionRows ==
    ASSUME NEW recs \in Seq(LogRecord), NEW s
    PROVE  /\ OfSession(recs, s) \in Seq(LogRecord)
           /\ \A i \in 1..Len(recs) : recs[i].sess = s =>
                \E k \in 1..Len(OfSession(recs, s)) : OfSession(recs, s)[k] = recs[i]
           /\ OfSession(recs, s) # <<>> =>
                \E m \in 1..Len(recs) :
                   /\ recs[m].sess = s /\ LastHmac(OfSession(recs, s)) = recs[m].id
                   /\ \A i \in 1..Len(recs) : recs[i].sess = s => i <= m
           /\ OfSession(recs, s) = <<>> => \A i \in 1..Len(recs) : recs[i].sess # s
  <1> DEFINE P == {i \in 1..Len(recs) : recs[i].sess = s}
             sel == RowsAt(recs, P)
  <1>0. OfSession(recs, s) = sel
    BY DEF OfSession
  <1>1. \A i : i \in P <=> i \in 1..Len(recs) /\ recs[i].sess = s
    OBVIOUS
  <1>2. P \in Positions(Len(recs))
    BY DEF Positions
  <1> HIDE DEF P
  <1>3. /\ sel \in Seq(LogRecord) /\ Len(sel) = Cardinality(P)
        /\ \A i \in P : \E k \in 1..Cardinality(P) : sel[k] = recs[i]
        /\ sel = <<>> <=> P = {}
    BY <1>2, RowsAtRows
  <1>4. ASSUME sel # <<>>
        PROVE  \E m \in P : LastHmac(sel) = recs[m].id /\ \A i \in P : i <= m
    <2>1. P # {}
      BY <1>3, <1>4
    <2>2. PICK m \in P : (\A i \in P : i <= m) /\ sel[Len(sel)] = recs[m]
      BY <1>2, <2>1, RowsAtLast
    <2> QED BY <1>4, <2>2 DEF LastHmac
  <1> HIDE DEF sel
  <1> QED BY <1>0, <1>1, <1>3, <1>4

(* A scan finds an id, or none.                                            *)
LEMMA ScanType ==
    ASSUME Typed, NEW s \in Sessions
    PROVE  Scan(s) \in Ids \cup {None}
  <1>1. /\ OfSession(mem, s) \in Seq(LogRecord) /\ OfSession(file, s) \in Seq(LogRecord)
        /\ OfSession(<<>>, s) \in Seq(LogRecord)
    <2>1. <<>> \in Seq(LogRecord)
      OBVIOUS
    <2> QED BY <2>1, OfSessionRows DEF Typed
  <1>2. \A q \in Seq(LogRecord) : LastHmac(q) \in Ids \cup {None}
    BY LastHmacType
  <1> QED BY <1>1, <1>2 DEF Scan

(* The predecessor FbBuild gives its record.                               *)
FbPrev(s) == IF s \in hydrated THEN last[s] ELSE Scan(s)
FbKind(c) == IF call[c].pc = "fbMarker" THEN "marker" ELSE "event"

(* FbBuild in short.                                                       *)
LEMMA FbBuilds ==
    ASSUME Typed, NEW c \in Callers, FbBuild(c)
    PROVE  \E b \in LogRecord, at \in BuiltPhases :
             /\ b.id = nextId /\ b.sess = Sess(c) /\ b.prev = FbPrev(Sess(c))
             /\ FbPrev(Sess(c)) \in Ids \cup {None} /\ nextId \in Ids /\ nextId' = nextId + 1
             /\ call' = [call EXCEPT ![c].built = b, ![c].pc = at]
             /\ call' \in [Callers -> Calls]
             /\ call'[c].built = b /\ call'[c].pc = at /\ call'[c].sess = Sess(c)
             /\ \A d \in Callers : d # c => call'[d] = call[d]
  <1> DEFINE b == Built(c, FbKind(c), FbPrev(Sess(c)), TRUE)
             at == IF FbKind(c) = "marker" THEN "fbMarkerBuilt" ELSE "fbRecordBuilt"
  <1>1. Sess(c) \in Sessions
    BY CallFields
  <1>2. FbPrev(Sess(c)) \in Ids \cup {None}
    BY <1>1, ScanType DEF FbPrev, Typed
  <1>3. FbKind(c) \in {"event", "marker"} /\ at \in BuiltPhases
    BY DEF FbKind, BuiltPhases
  <1>4. nextId \in Ids /\ nextId' = nextId + 1
    BY DEF FbBuild, Fresh
  <1>5. b \in LogRecord /\ b.id = nextId /\ b.sess = Sess(c) /\ b.prev = FbPrev(Sess(c))
    <2>1. PICK fb \in BOOLEAN : fb = TRUE
      OBVIOUS
    <2> HIDE DEF b, at
    <2>2. ASSUME NEW k \in {"event", "marker"}, NEW p \in Ids \cup {None}
          PROVE  /\ Built(c, k, p, fb) \in LogRecord /\ Built(c, k, p, fb).id = nextId
                 /\ Built(c, k, p, fb).sess = Sess(c) /\ Built(c, k, p, fb).prev = p
      BY <1>4, BuiltFields
    <2>3. b = Built(c, FbKind(c), FbPrev(Sess(c)), fb)
      BY <2>1 DEF b
    <2> QED BY <1>2, <1>3, <2>2, <2>3
  <1>6. call' = [call EXCEPT ![c].built = b, ![c].pc = at]
    BY DEF FbBuild, FbKind, FbPrev
  <1> HIDE DEF b, at
  <1>7. /\ call' \in [Callers -> Calls]
        /\ call'[c].built = b /\ call'[c].pc = at /\ call'[c].sess = Sess(c)
        /\ \A d \in Callers : d # c => call'[d] = call[d]
    BY <1>3, <1>5, <1>6 DEF Typed, Calls, Phases, BuiltPhases, Sess
  <1> QED BY <1>2, <1>3, <1>4, <1>5, <1>6, <1>7

(* Serializing keeps the links.                                            *)
LEMMA SerializeKeeps ==
    ASSUME NEW r \in LogRecord
    PROVE  /\ Serialize(r) \in LogRecord
           /\ Serialize(r).id = r.id /\ Serialize(r).sess = r.sess /\ Serialize(r).prev = r.prev
  BY DEF Serialize, LogRecord

(* The ids of some records.                                                *)
LEMMA IdsOfType ==
    ASSUME NEW q \in Seq(LogRecord)
    PROVE  IdsOf(q) \in SUBSET Ids
  <1>1. ASSUME NEW i \in 1..Len(q) PROVE q[i].id \in Ids
    <2>1. q[i] \in LogRecord
      OBVIOUS
    <2> QED BY <2>1 DEF LogRecord
  <1> QED BY <1>1 DEF IdsOf

(* The batch of a drain: as many of the undrained records as fit in it.    *)
LEMMA BatchIs ==
    ASSUME Typed, NEW c \in Callers
    PROVE  /\ Undrained(c) \in Seq(LogRecord)
           /\ Batch(c) \in Seq(LogRecord) /\ Len(Batch(c)) <= Len(Undrained(c))
           /\ \A i \in 1..Len(Batch(c)) : Batch(c)[i] = Undrained(c)[i]
  <1>0. call[c].pos \in Nat /\ BatchSize \in Nat
    BY CallFields, BoundsAssumption
  <1>1. Undrained(c) \in Seq(LogRecord)
    BY <1>0 DEF Undrained, Typed
  <1> DEFINE q == Undrained(c)
             n == IF BatchSize < Len(q) THEN BatchSize ELSE Len(q)
  <1>2. Batch(c) = SubSeq(q, 1, n)
    BY DEF Batch, UpTo
  <1>3. n \in Nat /\ n <= Len(q)
    BY <1>0, <1>1
  <1> HIDE DEF q, n
  <1>4. q \in Seq(LogRecord)
    BY <1>1 DEF q
  <1>5. Batch(c) \in Seq(LogRecord) /\ Len(Batch(c)) = n
    BY <1>2, <1>3, <1>4
  <1>6. \A i \in 1..n : Batch(c)[i] = q[i]
    BY <1>2, <1>3, <1>4
  <1> QED BY <1>1, <1>3, <1>5, <1>6 DEF q

(* write_batch keeps every row and adds the batch.                         *)
LEMMA WriteBatchAdds ==
    ASSUME Typed, NEW batch \in Seq(LogRecord), WriteBatch(batch)
    PROVE  /\ chain' \in [Sessions -> Seq(LogRecord)]
           /\ \A s \in Sessions : /\ Len(chain[s]) <= Len(chain'[s])
                                  /\ \A i \in 1..Len(chain[s]) : chain'[s][i] = chain[s][i]
           /\ \A i \in 1..Len(batch) : batch[i].sess \in Sessions /\
                \E k \in 1..Len(chain'[batch[i].sess]) : chain'[batch[i].sess][k] = batch[i]
  <1>1. ASSUME NEW s \in Sessions
        PROVE  /\ chain'[s] = chain[s] \o OfSession(batch, s)
               /\ chain[s] \in Seq(LogRecord) /\ OfSession(batch, s) \in Seq(LogRecord)
    BY OfSessionRows DEF WriteBatch, Typed
  <1>2. ASSUME NEW s \in Sessions
        PROVE  /\ chain'[s] \in Seq(LogRecord)
               /\ Len(chain'[s]) = Len(chain[s]) + Len(OfSession(batch, s))
               /\ \A i \in 1..Len(chain[s]) : chain'[s][i] = chain[s][i]
               /\ \A k \in 1..Len(OfSession(batch, s)) :
                    chain'[s][Len(chain[s]) + k] = OfSession(batch, s)[k]
    <2> DEFINE a == chain[s]
               b == OfSession(batch, s)
    <2>1. chain'[s] = a \o b /\ a \in Seq(LogRecord) /\ b \in Seq(LogRecord)
      BY <1>1
    <2> HIDE DEF a, b
    <2>2. /\ a \o b \in Seq(LogRecord) /\ Len(a \o b) = Len(a) + Len(b)
          /\ \A i \in 1..Len(a) : (a \o b)[i] = a[i]
          /\ \A k \in 1..Len(b) : (a \o b)[Len(a) + k] = b[k]
      BY <2>1
    <2> QED BY <2>1, <2>2 DEF a, b
  <1>3. chain' \in [Sessions -> Seq(LogRecord)]
    <2>1. chain' = [s \in Sessions |-> chain[s] \o OfSession(batch, s)]
      BY DEF WriteBatch
    <2>2. \A s \in Sessions : chain[s] \o OfSession(batch, s) \in Seq(LogRecord)
      BY <1>1
    <2> QED BY <2>1, <2>2
  <1>4. ASSUME NEW s \in Sessions
        PROVE  Len(chain[s]) \in Nat /\ Len(OfSession(batch, s)) \in Nat
    BY <1>1
  <1>5. ASSUME NEW i \in 1..Len(batch)
        PROVE  batch[i].sess \in Sessions /\
                \E k \in 1..Len(chain'[batch[i].sess]) : chain'[batch[i].sess][k] = batch[i]
    <2> DEFINE s == batch[i].sess
    <2>1. s \in Sessions
      <3>1. batch[i] \in LogRecord
        OBVIOUS
      <3> QED BY <3>1 DEF LogRecord
    <2>2. PICK k \in 1..Len(OfSession(batch, s)) : OfSession(batch, s)[k] = batch[i]
      BY OfSessionRows
    <2> HIDE DEF s
    <2>3. chain'[s][Len(chain[s]) + k] = batch[i]
      BY <1>2, <2>1, <2>2
    <2>4. PICK n \in Nat, m \in Nat : n = Len(chain[s]) /\ m = Len(OfSession(batch, s))
      BY <1>4, <2>1
    <2>5. Len(chain'[s]) = n + m /\ k \in 1..m
      BY <1>2, <2>1, <2>4
    <2>6. n + k \in 1..Len(chain'[s])
      BY <2>5
    <2>7. \E j \in 1..Len(chain'[s]) : chain'[s][j] = batch[i]
      BY <2>3, <2>4, <2>6
    <2> QED BY <2>1, <2>7 DEF s
  <1> QED BY <1>2, <1>3, <1>4, <1>5

(* What an append leaves: found is what the size check left of the file,   *)
(* and the record is in the file behind it, in the memory buffer, or both. *)
Appended(r, found) ==
    /\ \/ found = file /\ rotated' = rotated /\ dropped' = dropped
       \/ found = <<>> /\ rotated' = file /\ dropped' = dropped \cup IdsOf(rotated)
       \/ found = <<>> /\ rotated' = rotated /\ dropped' = dropped \cup IdsOf(file)
    /\ file' \in {found, Append(found, Serialize(r))}
    /\ mem' \in {mem, Append(mem, r)}
    /\ file' = Append(found, Serialize(r)) \/ mem' = Append(mem, r)
    /\ fsOk' \in BOOLEAN /\ (fsOk' => fsOk /\ mem' = mem)
    /\ fsOk \/ (found = file /\ file' = file)

(* Every way an append to the fallback ends has that shape.                *)
LEMMA AppendShape ==
    ASSUME Typed, NEW r \in LogRecord, AppendFile(r)
    PROVE  \E found \in {file, <<>>} : Appended(r, found)
  <1>1. CASE ~fsOk /\ mem' = Append(mem, r) /\ UNCHANGED <<fileVars, fsOk>>
    <2>1. file' = file /\ rotated' = rotated /\ dropped' = dropped /\ fsOk' = fsOk
      BY <1>1 DEF fileVars
    <2>2. Appended(r, file)
      BY <1>1, <2>1 DEF Appended, Typed
    <2> QED BY <2>2
  <1>2. ASSUME NEW found \in {file, <<>>}, fsOk, SizeCheck(found),
               \/ file' = Append(found, Serialize(r)) /\ UNCHANGED <<mem, fsOk>>
               \/ /\ file' \in {found, Append(found, Serialize(r))}
                  /\ fsOk' = FALSE /\ mem' = Append(mem, r)
        PROVE  Appended(r, found)
    <2>1. fsOk' \in BOOLEAN
      BY <1>2 DEF Typed
    <2> QED BY <1>2, <2>1 DEF Appended, SizeCheck
  <1> QED BY <1>1, <1>2 DEF AppendFile

(* The types after an append.                                              *)
LEMMA AppendedTypes ==
    ASSUME Typed, NEW r \in LogRecord, NEW found \in {file, <<>>}, Appended(r, found)
    PROVE  /\ file' \in Seq(LogRecord) /\ rotated' \in Seq(LogRecord)
           /\ mem' \in Seq(LogRecord) /\ dropped' \in SUBSET Ids /\ fsOk' \in BOOLEAN
  <1>1. /\ file \in Seq(LogRecord) /\ rotated \in Seq(LogRecord) /\ mem \in Seq(LogRecord)
        /\ found \in Seq(LogRecord) /\ Serialize(r) \in LogRecord /\ dropped \in SUBSET Ids
    <2>1. <<>> \in Seq(LogRecord)
      OBVIOUS
    <2> QED BY <2>1, SerializeKeeps DEF Typed
  <1>2. Append(found, Serialize(r)) \in Seq(LogRecord) /\ Append(mem, r) \in Seq(LogRecord)
    BY <1>1
  <1>3. IdsOf(file) \in SUBSET Ids /\ IdsOf(rotated) \in SUBSET Ids
    BY <1>1, IdsOfType
  <1> QED BY <1>1, <1>2, <1>3 DEF Appended

(* A call inside the fallback is in the queue of its session, which is     *)
(* then not empty.                                                         *)
LEMMA InQueue ==
    ASSUME Typed, Queued, NEW c \in Callers, call[c].pc \in FbPhases
    PROVE  /\ queue[Sess(c)] \in Seq(Callers) /\ queue[Sess(c)] # <<>>
           /\ Len(queue[Sess(c)]) \in Nat \ {0}
           /\ Head(queue[Sess(c)]) = queue[Sess(c)][1]
  <1>1. queue[Sess(c)] \in Seq(Callers)
    BY CallFields
  <1>2. \E i \in 1..Len(queue[Sess(c)]) : queue[Sess(c)][i] = c
    BY DEF Queued
  <1> QED BY <1>1, <1>2

(* LeaveFallback in short: the head leaves the queue, for its end or for   *)
(* good.                                                                   *)
LEMMA Leaves ==
    ASSUME Typed, Queued, NEW c \in Callers, call[c].pc \in FbPhases, LeaveFallback(c)
    PROVE  \E to \in {"fbRecord", "idle"} :
             /\ Goto(c, to)
             /\ queue' = [queue EXCEPT ![Sess(c)] = IF to = "fbRecord" THEN Append(Tail(@), c)
                                                                       ELSE Tail(@)]
             /\ queue' \in [Sessions -> Seq(Callers)]
  <1>1. Sess(c) \in Sessions /\ queue[Sess(c)] \in Seq(Callers) /\ queue[Sess(c)] # <<>>
    BY CallFields, InQueue
  <1>2. Tail(queue[Sess(c)]) \in Seq(Callers) /\ Append(Tail(queue[Sess(c)]), c) \in Seq(Callers)
    BY <1>1
  <1> DEFINE to == IF call[c].pc \in {"fbMarker", "fbMarkerBuilt"} THEN "fbRecord" ELSE "idle"
  <1>3. /\ to \in {"fbRecord", "idle"} /\ Goto(c, to)
        /\ queue' = [queue EXCEPT ![Sess(c)] = IF to = "fbRecord" THEN Append(Tail(@), c)
                                                                  ELSE Tail(@)]
    BY DEF LeaveFallback
  <1> HIDE DEF to
  <1>4. queue' \in [Sessions -> Seq(Callers)]
    BY <1>1, <1>2, <1>3 DEF Typed
  <1> QED BY <1>3, <1>4

(* Who builds, appends or is refused is at the head of its queue.          *)
LEMMA BuiltRecord ==
    ASSUME Inv, NEW c \in Callers, call[c].pc \in BuiltPhases
    PROVE  /\ call[c].built \in LogRecord /\ call[c].built.sess = Sess(c)
           /\ call[c].pc \in FbPhases /\ queue[Sess(c)][1] = c
  BY DEF Inv, Chained, Queued, FbPhases

(* Every step keeps the types.                                             *)
LEMMA TypeInit == Init => Typed
  <1> SUFFICES ASSUME Init PROVE Typed
    OBVIOUS
  <1>1. (CHOOSE s \in Sessions : TRUE) \in Sessions
    BY BoundsAssumption
  <1>2. call \in [Callers -> Calls]
    BY <1>1 DEF Init, Idle, Calls, Phases
  <1>3. MaxOutages \in Nat /\ MaxCrashes \in Nat
    BY BoundsAssumption
  <1> QED BY <1>2, <1>3 DEF Init, LogInit, Typed, None

(* Every step keeps the types.                                             *)
LEMMA TypeStep ==
    ASSUME Inv, [Next]_vars
    PROVE  Typed'
  <1>0. Typed /\ Queued
    BY TypedIs DEF Inv
  <1>1. ASSUME NEW c \in Callers, NEW s \in Sessions, NEW m \in Models, Log(c, s, m)
        PROVE  Typed'
    <2>1. m \in BOOLEAN
      BY BoundsAssumption
    <2>2. call' \in [Callers -> Calls]
      BY <1>0, <1>1, <2>1 DEF Log, Typed, Calls, Phases
    <2> QED BY <1>0, <1>1, <2>2 DEF Log, Typed, fileVars, cacheVars, envVars
  <1>2. ASSUME NEW c \in Callers, NEW k \in {"event", "marker"}, InsertPrimary(c, k)
        PROVE  /\ chain' \in [Sessions -> Seq(LogRecord)] /\ nextId' \in Nat
               /\ nextId \in Ids
    <2>1. /\ nextId \in Ids /\ nextId' = nextId + 1
          /\ \E b \in LogRecord : chain' = [chain EXCEPT ![Sess(c)] = Append(@, b)]
      BY <1>0, <1>2, InsertAdds
    <2>2. Sess(c) \in Sessions /\ chain[Sess(c)] \in Seq(LogRecord)
      BY <1>0, CallFields
    <2> QED BY <1>0, <2>1, <2>2 DEF Typed
  <1>3. ASSUME NEW c \in Callers, EmitMarker(c) PROVE Typed'
    <2>1. call' \in [Callers -> Calls]
      BY <1>0, <1>3, GotoKeeps DEF EmitMarker, Phases
    <2>2. chain' \in [Sessions -> Seq(LogRecord)] /\ nextId' \in Nat
      BY <1>2, <1>3 DEF EmitMarker
    <2> QED BY <1>0, <1>3, <2>1, <2>2 DEF EmitMarker, Typed, fileVars, cacheVars, envVars
  <1>4. ASSUME NEW c \in Callers, EmitRecord(c) PROVE Typed'
    <2>1. call' \in [Callers -> Calls]
      BY <1>0, <1>4, GotoKeeps DEF EmitRecord, Phases
    <2>2. chain' \in [Sessions -> Seq(LogRecord)] /\ nextId' \in Nat /\ nextId \in Ids
      BY <1>2, <1>4 DEF EmitRecord
    <2> QED BY <1>0, <1>4, <2>1, <2>2 DEF EmitRecord, Typed, fileVars, cacheVars, envVars
  <1>5. ASSUME NEW c \in Callers, PrimaryFails(c) PROVE Typed'
    <2>1. Sess(c) \in Sessions /\ queue[Sess(c)] \in Seq(Callers)
      BY <1>0, CallFields
    <2>2. \E p \in Phases : Goto(c, p)
      BY <1>5 DEF PrimaryFails, Phases
    <2>3. call' \in [Callers -> Calls]
      BY <1>0, <2>2, GotoKeeps
    <2>4. chain' \in [Sessions -> Seq(LogRecord)] /\ nextId' \in Nat
      BY <1>0, <1>2, <1>5 DEF PrimaryFails, Typed
    <2>5. queue' \in [Sessions -> Seq(Callers)] /\ degraded' \in SUBSET Sessions
      BY <1>0, <1>5, <2>1 DEF PrimaryFails, Typed
    <2> QED BY <1>0, <1>5, <2>3, <2>4, <2>5 DEF PrimaryFails, Typed, fileVars, cacheVars,
               envVars
  <1>6. ASSUME NEW c \in Callers, FbBuild(c) PROVE Typed'
    <2>1. /\ FbPrev(Sess(c)) \in Ids \cup {None} /\ call' \in [Callers -> Calls]
          /\ nextId' = nextId + 1
      BY <1>0, <1>6, FbBuilds
    <2>2. Sess(c) \in Sessions
      BY <1>0, CallFields
    <2>3. last' \in [Sessions -> Ids \cup {None}] /\ hydrated' \in SUBSET Sessions
      BY <1>0, <1>6, <2>1, <2>2 DEF FbBuild, FbPrev, Typed
    <2> QED BY <1>0, <1>6, <2>1, <2>3 DEF FbBuild, Typed, fileVars, envVars
  <1>7. ASSUME NEW c \in Callers, FbAppend(c) PROVE Typed'
    <2> DEFINE r == call[c].built
    <2>1. r \in LogRecord /\ call[c].pc \in FbPhases
      BY <1>7, BuiltRecord DEF FbAppend, BuiltPhases
    <2>2. r.id \in Ids /\ r.sess \in Sessions
      BY <2>1 DEF LogRecord
    <2>3. PICK found \in {file, <<>>} : Appended(r, found)
      BY <1>0, <1>7, <2>1, AppendShape DEF FbAppend
    <2>4. /\ file' \in Seq(LogRecord) /\ rotated' \in Seq(LogRecord)
          /\ mem' \in Seq(LogRecord) /\ dropped' \in SUBSET Ids /\ fsOk' \in BOOLEAN
      BY <1>0, <2>1, <2>3, AppendedTypes
    <2>5. queue' \in [Sessions -> Seq(Callers)] /\ \E p \in Phases : Goto(c, p)
      BY <1>0, <1>7, <2>1, Leaves DEF FbAppend, Phases
    <2>6. call' \in [Callers -> Calls]
      BY <1>0, <2>5, GotoKeeps
    <2>7. last' \in [Sessions -> Ids \cup {None}] /\ returned' \in SUBSET Ids
      BY <1>0, <1>7, <2>2 DEF FbAppend, Typed
    <2> QED BY <1>0, <1>7, <2>4, <2>5, <2>6, <2>7 DEF FbAppend, Typed, envVars
  <1>8. ASSUME NEW c \in Callers, FbRefused(c) PROVE Typed'
    <2>1. queue' \in [Sessions -> Seq(Callers)] /\ \E p \in Phases : Goto(c, p)
      BY <1>0, <1>8, Leaves DEF FbRefused, Phases, FbPhases
    <2>2. call' \in [Callers -> Calls]
      BY <1>0, <2>1, GotoKeeps
    <2> QED BY <1>0, <1>8, <2>1, <2>2 DEF FbRefused, Typed, fileVars, cacheVars, envVars
  <1>9. ASSUME NEW c \in Callers, DrainBegin(c) PROVE Typed'
    <2>1. call' \in [Callers -> Calls]
      BY <1>0, <1>9 DEF DrainBegin, Typed, Calls, Phases
    <2> QED BY <1>0, <1>9, <2>1 DEF DrainBegin, Typed, fileVars, cacheVars, envVars
  <1>10. ASSUME NEW c \in Callers, DrainBatch(c) PROVE Typed'
    <2>1. Batch(c) \in Seq(LogRecord) /\ Len(Batch(c)) \in Nat
      BY <1>0, BatchIs
    <2>2. chain' \in [Sessions -> Seq(LogRecord)]
      BY <1>0, <1>10, <2>1, WriteBatchAdds DEF DrainBatch
    <2>3. mem' \in Seq(LogRecord)
      <3>1. CASE mem' = mem
        BY <1>0, <3>1 DEF Typed
      <3>2. CASE mem' = SubSeq(mem, Len(Batch(c)) + 1, Len(mem))
        BY <1>0, <2>1, <3>2 DEF Typed
      <3> QED BY <1>10, <3>1, <3>2 DEF DrainBatch
    <2>4. call' \in [Callers -> Calls]
      <3>1. CASE call' = call
        BY <1>0, <3>1 DEF Typed
      <3>2. CASE call' = [call EXCEPT ![c].pos = @ + Len(Batch(c))]
        <4>1. call[c].pos + Len(Batch(c)) \in Nat
          BY <1>0, <2>1, CallFields
        <4> QED BY <1>0, <3>2, <4>1 DEF Typed, Calls
      <3> QED BY <1>10, <3>1, <3>2 DEF DrainBatch
    <2> QED BY <1>0, <1>10, <2>2, <2>3, <2>4 DEF DrainBatch, Typed, fileVars, cacheVars,
               envVars
  <1>11. ASSUME NEW c \in Callers, DrainEnd(c) PROVE Typed'
    <2>1. call' \in [Callers -> Calls]
      BY <1>0, <1>11, GotoKeeps DEF DrainEnd, Phases
    <2>2. /\ file' \in Seq(LogRecord) /\ last' \in [Sessions -> Ids \cup {None}]
          /\ hydrated' \in SUBSET Sessions
      <3>1. CASE file' = <<>> /\ last' = [s \in Sessions |-> None] /\ hydrated' = {}
        BY <3>1
      <3>2. CASE UNCHANGED <<file, cacheVars>>
        BY <1>0, <3>2 DEF Typed, cacheVars
      <3> QED BY <1>11, <3>1, <3>2 DEF DrainEnd
    <2> QED BY <1>0, <1>11, <2>1, <2>2 DEF DrainEnd, Typed, envVars
  <1>12. ASSUME NEW c \in Callers, DrainFails(c) PROVE Typed'
    <2>1. call' \in [Callers -> Calls]
      BY <1>0, <1>12, GotoKeeps DEF DrainFails, Phases
    <2>2. chain' \in [Sessions -> Seq(LogRecord)]
      <3>1. CASE UNCHANGED chain
        BY <1>0, <3>1 DEF Typed
      <3>2. CASE WriteBatch(Batch(c))
        BY <1>0, <3>2, BatchIs, WriteBatchAdds
      <3> QED BY <1>12, <3>1, <3>2 DEF DrainFails, DrainRaises
    <2> QED BY <1>0, <1>12, <2>1, <2>2 DEF DrainFails, Typed, fileVars, cacheVars, envVars
  <1>13. CASE Outage \/ Recover \/ UNCHANGED vars
    <2>1. outages' \in 0..MaxOutages
      BY <1>0, <1>13, BoundsAssumption DEF Outage, Recover, vars, envVars, Typed
    <2>2. up' \in BOOLEAN
      BY <1>0, <1>13 DEF Outage, Recover, vars, Typed
    <2> QED BY <1>0, <1>13, <2>1, <2>2
            DEF Outage, Recover, vars, Typed, fileVars, cacheVars, envVars
  <1>14. CASE Crash
    <2>1. crashes' \in 0..MaxCrashes
      BY <1>0, <1>14, BoundsAssumption DEF Crash, Typed
    <2>2. call' \in [Callers -> Calls]
      <3>1. (CHOOSE s \in Sessions : TRUE) \in Sessions
        BY BoundsAssumption
      <3> QED BY <1>14, <3>1 DEF Crash, Idle, Calls, Phases
    <2> QED BY <1>0, <1>14, <2>1, <2>2 DEF Crash, Typed, fileVars
  <1> QED BY <1>1, <1>3, <1>4, <1>5, <1>6, <1>7, <1>8, <1>9, <1>10, <1>11, <1>12, <1>13, <1>14
          DEF Next, CallStep

-----------------------------------------------------------------------------
(* The locks.                                                              *)

(* A step of a call that stays outside the fallback leaves the queues.     *)
LEMMA QueuedOutside ==
    ASSUME Typed, Queued, NEW c \in Callers, queue' = queue,
           call[c].pc \notin FbPhases, call'[c].pc \notin FbPhases,
           \A d \in Callers : d # c => call'[d] = call[d]
    PROVE  Queued'
  <1>1. ASSUME NEW s \in Sessions, NEW i \in 1..Len(queue[s])
        PROVE  /\ call'[queue[s][i]].pc \in FbPhases /\ call'[queue[s][i]].sess = s
               /\ \A j \in 1..Len(queue[s]) : queue[s][i] = queue[s][j] => i = j
    <2>1. /\ call[queue[s][i]].pc \in FbPhases /\ call[queue[s][i]].sess = s
          /\ \A j \in 1..Len(queue[s]) : queue[s][i] = queue[s][j] => i = j
      BY DEF Queued
    <2>2. queue[s][i] \in Callers
      <3>1. queue[s] \in Seq(Callers)
        BY DEF Typed
      <3> QED BY <3>1
    <2> QED BY <2>1, <2>2
  <1>2. ASSUME NEW d \in Callers, call'[d].pc \in FbPhases
        PROVE  d # c /\ call'[d] = call[d]
    BY <1>2
  <1>3. ASSUME NEW d \in Callers, call'[d].pc \in FbPhases
        PROVE  \E i \in 1..Len(queue[call'[d].sess]) : queue[call'[d].sess][i] = d
    BY <1>2, <1>3 DEF Queued, Sess
  <1>4. ASSUME NEW d \in Callers, call'[d].pc \in BuiltPhases
        PROVE  queue[call'[d].sess] # <<>> /\ queue[call'[d].sess][1] = d
    BY <1>2, <1>4 DEF Queued, Sess, FbPhases
  <1> QED BY <1>1, <1>3, <1>4 DEF Queued, Sess

(* PrimaryFails puts its call at the end of its queue.                     *)
LEMMA QueuedJoin ==
    ASSUME Typed, Queued, NEW c \in Callers, call[c].pc \notin FbPhases,
           queue' = [queue EXCEPT ![Sess(c)] = Append(@, c)],
           call'[c].pc \in FbPhases \ BuiltPhases, call'[c].sess = Sess(c),
           \A d \in Callers : d # c => call'[d] = call[d]
    PROVE  Queued'
  <1> DEFINE s0 == Sess(c)
             q == queue[s0]
  <1>0. s0 \in Sessions /\ q \in Seq(Callers) /\ Len(q) \in Nat
    BY CallFields
  <1>1. /\ queue'[s0] = Append(q, c) /\ Len(queue'[s0]) = Len(q) + 1
        /\ queue'[s0][Len(q) + 1] = c
        /\ \A i \in 1..Len(q) : queue'[s0][i] = q[i]
        /\ \A s \in Sessions : s # s0 => queue'[s] = queue[s]
    BY <1>0 DEF Typed
  <1>2. ASSUME NEW s \in Sessions, NEW i \in 1..Len(queue[s])
        PROVE  queue[s][i] \in Callers /\ queue[s][i] # c
    <2>1. queue[s] \in Seq(Callers)
      BY DEF Typed
    <2>2. call[queue[s][i]].pc \in FbPhases
      BY DEF Queued
    <2> QED BY <2>1, <2>2
  <1>3. ASSUME NEW s \in Sessions, NEW i \in 1..Len(queue[s])
        PROVE  call'[queue[s][i]].pc \in FbPhases /\ call'[queue[s][i]].sess = s
    BY <1>2 DEF Queued
  <1>4. ASSUME NEW s \in Sessions, NEW i \in 1..Len(queue'[s])
        PROVE  /\ call'[queue'[s][i]].pc \in FbPhases /\ call'[queue'[s][i]].sess = s
               /\ \A j \in 1..Len(queue'[s]) : queue'[s][i] = queue'[s][j] => i = j
    <2>1. CASE s # s0
      BY <1>1, <1>3, <2>1 DEF Queued
    <2>2. CASE s = s0
      <3>1. ASSUME NEW k \in 1..Len(queue'[s])
            PROVE  \/ k \in 1..Len(q) /\ queue'[s][k] = q[k]
                   \/ k = Len(q) + 1 /\ queue'[s][k] = c
        <4>1. k \in 1..(Len(q) + 1)
          BY <1>1, <2>2
        <4>2. k \in 1..Len(q) \/ k = Len(q) + 1
          BY <1>0, <4>1
        <4> QED BY <1>1, <2>2, <4>2
      <3>2. call'[queue'[s][i]].pc \in FbPhases /\ call'[queue'[s][i]].sess = s
        BY <1>0, <1>3, <2>2, <3>1
      <3>3. ASSUME NEW j \in 1..Len(queue'[s]), queue'[s][i] = queue'[s][j] PROVE i = j
        <4>1. \A k \in 1..Len(q) : q[k] # c
          BY <1>0, <1>2
        <4>2. \A k, m \in 1..Len(q) : q[k] = q[m] => k = m
          BY <1>0 DEF Queued
        <4> QED BY <3>1, <3>3, <4>1, <4>2
      <3> QED BY <3>2, <3>3
    <2> QED BY <2>1, <2>2
  <1>5. ASSUME NEW d \in Callers, call'[d].pc \in FbPhases
        PROVE  \E i \in 1..Len(queue'[call'[d].sess]) : queue'[call'[d].sess][i] = d
    <2>1. CASE d = c
      <3>1. Len(q) + 1 \in 1..Len(queue'[s0])
        BY <1>0, <1>1
      <3> QED BY <1>1, <2>1, <3>1
    <2>2. CASE d # c
      <3>1. call'[d] = call[d] /\ call[d].sess \in Sessions
        BY <2>2, CallFields DEF Sess
      <3>2. PICK i \in 1..Len(queue[call[d].sess]) : queue[call[d].sess][i] = d
        BY <1>5, <3>1 DEF Queued, Sess
      <3>3. CASE call[d].sess = s0
        <4>1. i \in 1..Len(queue'[s0]) /\ queue'[s0][i] = d
          BY <1>0, <1>1, <3>2, <3>3
        <4> QED BY <3>1, <3>3, <4>1
      <3>4. CASE call[d].sess # s0
        BY <1>1, <3>1, <3>2, <3>4
      <3> QED BY <3>3, <3>4
    <2> QED BY <2>1, <2>2
  <1>6. ASSUME NEW d \in Callers, call'[d].pc \in BuiltPhases
        PROVE  queue'[call'[d].sess] # <<>> /\ queue'[call'[d].sess][1] = d
    <2>1. d # c /\ call'[d] = call[d] /\ call[d].sess \in Sessions
      BY <1>6, CallFields DEF Sess
    <2>2. queue[call[d].sess] # <<>> /\ queue[call[d].sess][1] = d
      BY <1>6, <2>1 DEF Queued, Sess
    <2>3. CASE call[d].sess = s0
      <3>1. 1 \in 1..Len(q) /\ Len(queue'[s0]) # 0
        BY <1>0, <1>1, <2>2, <2>3
      <3>2. queue'[s0][1] = d /\ queue'[s0] # <<>>
        BY <1>1, <2>2, <2>3, <3>1
      <3> QED BY <2>1, <2>3, <3>2
    <2>4. CASE call[d].sess # s0
      BY <1>1, <2>1, <2>2, <2>4
    <2> QED BY <2>3, <2>4
  <1> QED BY <1>4, <1>5, <1>6 DEF Queued, Sess

(* FbBuild and its head of the queue.                                      *)
LEMMA QueuedBuild ==
    ASSUME Typed, Queued, NEW c \in Callers, queue' = queue, call[c].pc \in FbPhases,
           Head(queue[Sess(c)]) = c, call'[c].pc \in BuiltPhases, call'[c].sess = Sess(c),
           \A d \in Callers : d # c => call'[d] = call[d]
    PROVE  Queued'
  <1>0. queue[Sess(c)] # <<>> /\ queue[Sess(c)][1] = c
    BY InQueue
  <1>1. ASSUME NEW s \in Sessions, NEW i \in 1..Len(queue[s])
        PROVE  /\ call'[queue[s][i]].pc \in FbPhases /\ call'[queue[s][i]].sess = s
               /\ \A j \in 1..Len(queue[s]) : queue[s][i] = queue[s][j] => i = j
    <2>1. /\ call[queue[s][i]].pc \in FbPhases /\ call[queue[s][i]].sess = s
          /\ \A j \in 1..Len(queue[s]) : queue[s][i] = queue[s][j] => i = j
      BY DEF Queued
    <2>2. queue[s][i] \in Callers
      <3>1. queue[s] \in Seq(Callers)
        BY DEF Typed
      <3> QED BY <3>1
    <2> QED BY <2>1, <2>2 DEF FbPhases, Sess
  <1>2. ASSUME NEW d \in Callers, call'[d].pc \in FbPhases
        PROVE  \E i \in 1..Len(queue[call'[d].sess]) : queue[call'[d].sess][i] = d
    <2>1. call[d].pc \in FbPhases /\ call'[d].sess = call[d].sess
      BY <1>2 DEF Sess
    <2>2. \E i \in 1..Len(queue[call[d].sess]) : queue[call[d].sess][i] = d
      BY <2>1 DEF Queued, Sess
    <2> QED BY <2>1, <2>2
  <1>3. ASSUME NEW d \in Callers, call'[d].pc \in BuiltPhases
        PROVE  queue[call'[d].sess] # <<>> /\ queue[call'[d].sess][1] = d
    BY <1>0, <1>3 DEF Queued, Sess
  <1> QED BY <1>1, <1>2, <1>3 DEF Queued, Sess

(* The head of a queue leaves it, or goes to its end.                      *)
LEMMA QueuedLeave ==
    ASSUME Typed, Queued, NEW c \in Callers, call[c].pc \in FbPhases,
           queue[Sess(c)][1] = c, NEW to \in {"fbRecord", "idle"},
           queue' = [queue EXCEPT ![Sess(c)] = IF to = "fbRecord" THEN Append(Tail(@), c)
                                                                  ELSE Tail(@)],
           call'[c].pc = to, call'[c].sess = Sess(c),
           \A d \in Callers : d # c => call'[d] = call[d]
    PROVE  Queued'
  <1> DEFINE s0 == Sess(c)
             q == queue[s0]
             t == Tail(q)
             n == Len(q)
  <1>0. s0 \in Sessions /\ q \in Seq(Callers) /\ n \in Nat \ {0} /\ q # <<>>
    BY CallFields, InQueue
  <1>1. t \in Seq(Callers) /\ Len(t) = n - 1 /\ \A i \in 1..(n - 1) : t[i] = q[i + 1]
    BY <1>0
  <1>2. /\ queue'[s0] = IF to = "fbRecord" THEN Append(t, c) ELSE t
        /\ \A s \in Sessions : s # s0 => queue'[s] = queue[s]
    BY <1>0 DEF Typed
  <1>3. /\ \A i \in 1..(n - 1) : queue'[s0][i] = q[i + 1]
        /\ to = "fbRecord" => Len(queue'[s0]) = n /\ queue'[s0][n] = c
        /\ to = "idle" => Len(queue'[s0]) = n - 1
    <2>1. /\ Len(Append(t, c)) = n /\ Append(t, c)[n] = c
          /\ \A i \in 1..(n - 1) : Append(t, c)[i] = t[i]
      BY <1>0, <1>1
    <2> QED BY <1>1, <1>2, <2>1
  <1> HIDE DEF t
  <1>4. \A i \in 2..n : q[i] \in Callers /\ q[i] # c
    <2>1. \A i \in 1..n : q[i] \in Callers /\ (q[1] = q[i] => 1 = i)
      BY <1>0 DEF Queued
    <2> QED BY <1>0, <2>1
  <1>5. \A i \in 1..n : call[q[i]].pc \in FbPhases /\ call[q[i]].sess = s0
    BY <1>0 DEF Queued
  <1>6. \A i, j \in 1..n : q[i] = q[j] => i = j
    BY <1>0 DEF Queued
  <1>7. ASSUME NEW k \in 1..Len(queue'[s0])
        PROVE  \/ k \in 1..(n - 1) /\ k + 1 \in 2..n /\ queue'[s0][k] = q[k + 1]
               \/ to = "fbRecord" /\ k = n /\ queue'[s0][k] = c
    BY <1>0, <1>3
  <1>8. ASSUME NEW i \in 1..Len(queue'[s0])
        PROVE  /\ call'[queue'[s0][i]].pc \in FbPhases /\ call'[queue'[s0][i]].sess = s0
               /\ \A j \in 1..Len(queue'[s0]) : queue'[s0][i] = queue'[s0][j] => i = j
    <2>1. call'[queue'[s0][i]].pc \in FbPhases /\ call'[queue'[s0][i]].sess = s0
      <3>1. CASE i \in 1..(n - 1) /\ i + 1 \in 2..n /\ queue'[s0][i] = q[i + 1]
        <4>1. i + 1 \in 1..n
          BY <1>0, <3>1
        <4>2. call'[q[i + 1]] = call[q[i + 1]]
          BY <1>4, <3>1
        <4> QED BY <1>5, <3>1, <4>1, <4>2
      <3>2. CASE to = "fbRecord" /\ i = n /\ queue'[s0][i] = c
        BY <3>2 DEF FbPhases
      <3> QED BY <1>7, <3>1, <3>2
    <2>2. ASSUME NEW j \in 1..Len(queue'[s0]), queue'[s0][i] = queue'[s0][j] PROVE i = j
      BY <1>0, <1>4, <1>6, <1>7, <2>2
    <2> QED BY <2>1, <2>2
  <1>9. ASSUME NEW s \in Sessions, s # s0, NEW i \in 1..Len(queue[s])
        PROVE  /\ call'[queue[s][i]].pc \in FbPhases /\ call'[queue[s][i]].sess = s
               /\ \A j \in 1..Len(queue[s]) : queue[s][i] = queue[s][j] => i = j
    <2>1. /\ call[queue[s][i]].pc \in FbPhases /\ call[queue[s][i]].sess = s
          /\ \A j \in 1..Len(queue[s]) : queue[s][i] = queue[s][j] => i = j
      BY DEF Queued
    <2>2. queue[s][i] \in Callers /\ queue[s][i] # c
      <3>1. queue[s] \in Seq(Callers)
        BY DEF Typed
      <3> QED BY <1>9, <2>1, <3>1 DEF Sess
    <2> QED BY <2>1, <2>2
  <1>10. ASSUME NEW d \in Callers, call'[d].pc \in FbPhases
         PROVE  \E i \in 1..Len(queue'[call'[d].sess]) : queue'[call'[d].sess][i] = d
    <2>1. CASE d = c
      <3>1. to = "fbRecord"
        BY <1>10, <2>1 DEF FbPhases, BuiltPhases
      <3>2. n \in 1..Len(queue'[s0]) /\ queue'[s0][n] = c
        BY <1>0, <1>3, <3>1
      <3> QED BY <2>1, <3>2
    <2>2. CASE d # c
      <3>1. call'[d] = call[d] /\ call[d].sess \in Sessions
        BY <2>2, CallFields DEF Sess
      <3>2. PICK i \in 1..Len(queue[call[d].sess]) : queue[call[d].sess][i] = d
        BY <1>10, <3>1 DEF Queued, Sess
      <3>3. CASE call[d].sess = s0
        <4>1. i \in 1..n /\ q[i] = d /\ i # 1
          BY <2>2, <3>2, <3>3
        <4>2. PICK k \in 1..(n - 1) : i = k + 1
          BY <1>0, <4>1
        <4>3. k \in 1..Len(queue'[s0]) /\ queue'[s0][k] = d
          BY <1>0, <1>3, <4>1, <4>2
        <4> QED BY <3>1, <3>3, <4>3
      <3>4. CASE call[d].sess # s0
        BY <1>2, <3>1, <3>2, <3>4
      <3> QED BY <3>3, <3>4
    <2> QED BY <2>1, <2>2
  <1>11. ASSUME NEW d \in Callers, call'[d].pc \in BuiltPhases
         PROVE  queue'[call'[d].sess] # <<>> /\ queue'[call'[d].sess][1] = d
    <2>1. d # c
      BY <1>11 DEF BuiltPhases
    <2>2. call'[d] = call[d] /\ call[d].sess \in Sessions
      BY <2>1, CallFields DEF Sess
    <2>3. queue[call[d].sess] # <<>> /\ queue[call[d].sess][1] = d
      BY <1>11, <2>2 DEF Queued, Sess
    <2>4. call[d].sess # s0
      BY <2>1, <2>3
    <2> QED BY <1>2, <2>2, <2>3, <2>4
  <1>12. ASSUME NEW s \in Sessions, NEW i \in 1..Len(queue'[s])
         PROVE  /\ call'[queue'[s][i]].pc \in FbPhases /\ call'[queue'[s][i]].sess = s
                /\ \A j \in 1..Len(queue'[s]) : queue'[s][i] = queue'[s][j] => i = j
    <2>1. CASE s = s0
      BY <1>8, <2>1
    <2>2. CASE s # s0
      <3>1. queue'[s] = queue[s]
        BY <1>2, <2>2
      <3> QED BY <1>9, <2>2, <3>1
    <2> QED BY <2>1, <2>2
  <1> QED BY <1>10, <1>11, <1>12 DEF Queued, Sess

(* A step of a call that neither starts nor ends a drain leaves the lock.  *)
LEMMA DrainingKept ==
    ASSUME Draining, NEW c \in Callers, lock' = lock,
           call[c].pc # "draining", call'[c].pc # "draining",
           \A d \in Callers : d # c => call'[d] = call[d]
    PROVE  Draining'
  BY DEF Draining

(* Every step keeps the queues and the lock in order.                      *)
LEMMA LocksStep ==
    ASSUME Inv, [Next]_vars
    PROVE  Queued' /\ Draining'
  <1>0. Typed /\ Queued /\ Draining
    BY TypedIs DEF Inv
  <1> USE <1>0
  <1>1. ASSUME NEW c \in Callers, queue' = queue, lock' = lock,
               call[c].pc \notin FbPhases \cup {"draining"},
               call'[c].pc \notin FbPhases \cup {"draining"},
               \A d \in Callers : d # c => call'[d] = call[d]
        PROVE  Queued' /\ Draining'
    BY <1>1, QueuedOutside, DrainingKept
  <1>2. ASSUME NEW c \in Callers, NEW s \in Sessions, NEW m \in Models, Log(c, s, m)
        PROVE  Queued' /\ Draining'
    <2>1. /\ queue' = queue /\ lock' = lock /\ call[c].pc = "idle"
          /\ call'[c].pc \in {"marker", "record"}
          /\ \A d \in Callers : d # c => call'[d] = call[d]
      BY <1>2 DEF Log, Typed
    <2> QED BY <1>1, <2>1 DEF FbPhases, BuiltPhases
  <1>3. ASSUME NEW c \in Callers, EmitMarker(c) \/ EmitRecord(c)
        PROVE  Queued' /\ Draining'
    <2>1. /\ queue' = queue /\ lock' = lock /\ call[c].pc \in {"marker", "record"}
          /\ \E p \in {"drain", "idle"} : Goto(c, p)
      BY <1>3 DEF EmitMarker, EmitRecord
    <2>2. /\ call'[c].pc \in {"drain", "idle"}
          /\ \A d \in Callers : d # c => call'[d] = call[d]
      BY <2>1, GotoKeeps DEF Phases
    <2> QED BY <1>1, <2>1, <2>2 DEF FbPhases, BuiltPhases
  <1>4. ASSUME NEW c \in Callers, PrimaryFails(c) PROVE Queued' /\ Draining'
    <2>1. /\ queue' = [queue EXCEPT ![Sess(c)] = Append(@, c)] /\ lock' = lock
          /\ call[c].pc \in {"marker", "record"}
          /\ \E p \in {"fbRecord", "fbMarker"} : Goto(c, p)
      BY <1>4 DEF PrimaryFails
    <2>2. /\ call'[c].pc \in {"fbRecord", "fbMarker"} /\ call'[c].sess = Sess(c)
          /\ \A d \in Callers : d # c => call'[d] = call[d]
      BY <2>1, GotoKeeps DEF Phases, Sess
    <2>3. Queued'
      BY <2>1, <2>2, QueuedJoin DEF FbPhases, BuiltPhases
    <2>4. Draining'
      BY <2>1, <2>2, DrainingKept
    <2> QED BY <2>3, <2>4
  <1>5. ASSUME NEW c \in Callers, FbBuild(c) PROVE Queued' /\ Draining'
    <2>1. /\ queue' = queue /\ lock' = lock /\ call[c].pc \in {"fbMarker", "fbRecord"}
          /\ Head(queue[Sess(c)]) = c
      BY <1>5 DEF FbBuild
    <2>2. /\ call'[c].pc \in BuiltPhases /\ call'[c].sess = Sess(c)
          /\ \A d \in Callers : d # c => call'[d] = call[d]
      BY <1>5, FbBuilds
    <2>3. Queued'
      BY <2>1, <2>2, QueuedBuild DEF FbPhases
    <2>4. Draining'
      BY <2>1, <2>2, DrainingKept DEF BuiltPhases
    <2> QED BY <2>3, <2>4
  <1>6. ASSUME NEW c \in Callers, FbAppend(c) \/ FbRefused(c) PROVE Queued' /\ Draining'
    <2>1. call[c].pc \in FbPhases /\ lock' = lock /\ LeaveFallback(c)
      BY <1>6 DEF FbAppend, FbRefused, FbPhases, BuiltPhases
    <2>2. queue[Sess(c)][1] = c
      <3>1. CASE FbAppend(c)
        BY <3>1, BuiltRecord DEF FbAppend, BuiltPhases
      <3>2. CASE FbRefused(c)
        BY <2>1, <3>2, InQueue DEF FbRefused
      <3> QED BY <1>6, <3>1, <3>2
    <2>3. PICK to \in {"fbRecord", "idle"} :
            /\ Goto(c, to)
            /\ queue' = [queue EXCEPT ![Sess(c)] = IF to = "fbRecord" THEN Append(Tail(@), c)
                                                                      ELSE Tail(@)]
      BY <2>1, Leaves
    <2>4. /\ call'[c].pc = to /\ call'[c].sess = Sess(c)
          /\ \A d \in Callers : d # c => call'[d] = call[d]
      BY <2>3, GotoKeeps DEF Phases, Sess
    <2>5. Queued'
      BY <2>1, <2>2, <2>3, <2>4, QueuedLeave
    <2>6. Draining'
      BY <2>1, <2>4, DrainingKept DEF FbPhases, BuiltPhases
    <2> QED BY <2>5, <2>6
  <1>7. ASSUME NEW c \in Callers, DrainBegin(c) PROVE Queued' /\ Draining'
    <2>1. /\ queue' = queue /\ lock = NoCall /\ lock' = c /\ call[c].pc = "drain"
          /\ call'[c].pc = "draining" /\ \A d \in Callers : d # c => call'[d] = call[d]
      BY <1>7 DEF DrainBegin, Typed, Calls
    <2>2. Queued'
      BY <2>1, QueuedOutside DEF FbPhases, BuiltPhases
    <2>3. Draining'
      BY <2>1, BoundsAssumption DEF Draining
    <2> QED BY <2>2, <2>3
  <1>8. ASSUME NEW c \in Callers, DrainBatch(c) PROVE Queued' /\ Draining'
    <2>1. /\ queue' = queue /\ lock' = lock /\ call[c].pc = "draining"
          /\ call' = call \/ call' = [call EXCEPT ![c].pos = @ + Len(Batch(c))]
      BY <1>8 DEF DrainBatch
    <2>2. call'[c].pc = "draining" /\ \A d \in Callers : d # c => call'[d] = call[d]
      BY <2>1 DEF Typed, Calls
    <2>3. Queued'
      BY <2>1, <2>2, QueuedOutside DEF FbPhases, BuiltPhases
    <2>4. Draining'
      BY <2>1, <2>2 DEF Draining
    <2> QED BY <2>3, <2>4
  <1>9. ASSUME NEW c \in Callers, DrainEnd(c) \/ DrainFails(c) PROVE Queued' /\ Draining'
    <2>1. /\ queue' = queue /\ lock' = NoCall /\ call[c].pc = "draining"
          /\ Goto(c, "record")
      BY <1>9 DEF DrainEnd, DrainFails
    <2>2. call'[c].pc = "record" /\ \A d \in Callers : d # c => call'[d] = call[d]
      BY <2>1, GotoKeeps DEF Phases
    <2>3. Queued'
      BY <2>1, <2>2, QueuedOutside DEF FbPhases, BuiltPhases
    <2>4. Draining'
      <3>1. \A d \in Callers : call[d].pc = "draining" => d = c
        BY <2>1 DEF Draining
      <3> QED BY <2>1, <2>2, <3>1 DEF Draining
    <2> QED BY <2>3, <2>4
  <1>10. CASE Outage \/ Recover \/ UNCHANGED vars
    <2>1. queue' = queue /\ lock' = lock /\ call' = call
      BY <1>10 DEF Outage, Recover, vars
    <2> QED BY <2>1 DEF Queued, Draining, Sess
  <1>11. CASE Crash
    <2>1. /\ \A c \in Callers : call'[c].pc = "idle"
          /\ \A s \in Sessions : queue'[s] = <<>>
          /\ lock' = NoCall
      BY <1>11 DEF Crash, Idle
    <2> QED BY <2>1 DEF Queued, Draining, FbPhases, BuiltPhases
  <1> QED BY <1>2, <1>3, <1>4, <1>5, <1>6, <1>7, <1>8, <1>9, <1>10, <1>11 DEF Next, CallStep

(* The queue of a session holds a call once if it is inside the fallback   *)
(* of that session, and not at all otherwise.                              *)
LEMMA QueueCounts ==
    ASSUME Typed, Queued, NEW s \in Sessions, NEW c \in Callers
    PROVE  (call[c].sess = s /\ call[c].pc \in FbPhases)
             <=> Cardinality({i \in 1..Len(queue[s]) : queue[s][i] = c}) = 1
  <1> DEFINE I == {i \in 1..Len(queue[s]) : queue[s][i] = c}
  <1>1. CASE call[c].sess = s /\ call[c].pc \in FbPhases
    <2>1. PICK i \in 1..Len(queue[s]) : queue[s][i] = c
      BY <1>1 DEF Queued, Sess
    <2>2. \A j \in 1..Len(queue[s]) : queue[s][j] = c => j = i
      BY <2>1 DEF Queued
    <2>3. I = {i}
      BY <2>1, <2>2
    <2> QED BY <1>1, <2>3, FS_Singleton
  <1>2. CASE ~(call[c].sess = s /\ call[c].pc \in FbPhases)
    <2>1. I = {}
      BY <1>2 DEF Queued
    <2>2. Cardinality(I) = 0
      BY <2>1, FS_EmptySet
    <2> QED BY <1>2, <2>2
  <1> QED BY <1>1, <1>2

-----------------------------------------------------------------------------
(* The chain of the fallback.                                              *)

(* Ids are numbers, and so is the name of no predecessor.                  *)
LEMMA IdNat ==
    /\ \A x \in Ids : x \in Nat /\ x > 0
    /\ \A x \in Ids \cup {None} : x \in Nat
    /\ None \in Nat
  <1>1. \A x \in Ids : x \in Nat /\ x > 0
    BY IdsAssumption
  <1> QED BY <1>1 DEF None

(* What waits, by where it is.                                             *)
LEMMA WaitingIs ==
    /\ \A r \in Waiting : \/ \E i \in 1..Len(file) : r = file[i]
                          \/ \E i \in 1..Len(mem) : r = mem[i]
                          \/ \E i \in 1..Len(rotated) : r = rotated[i]
    /\ \A i \in 1..Len(file) : file[i] \in Waiting
    /\ \A i \in 1..Len(mem) : mem[i] \in Waiting
    /\ \A i \in 1..Len(rotated) : rotated[i] \in Waiting
  BY DEF Waiting, Buffered, Elements

(* ... and after a step.                                                   *)
LEMMA WaitingIsNext ==
    /\ \A r \in Waiting' : \/ \E i \in 1..Len(file') : r = file'[i]
                           \/ \E i \in 1..Len(mem') : r = mem'[i]
                           \/ \E i \in 1..Len(rotated') : r = rotated'[i]
  BY DEF Waiting, Buffered, Elements

(* What waits are records.                                                 *)
LEMMA WaitingType ==
    ASSUME Typed
    PROVE  \A r \in Waiting : /\ r \in LogRecord /\ r.id \in Nat /\ r.id > 0
                              /\ r.prev \in Nat /\ r.sess \in Sessions
  <1>1. ASSUME NEW r \in Waiting PROVE r \in LogRecord
    <2>1. file \in Seq(LogRecord) /\ mem \in Seq(LogRecord) /\ rotated \in Seq(LogRecord)
      BY DEF Typed
    <2> QED BY <2>1, WaitingIs
  <1>2. ASSUME NEW r \in LogRecord
        PROVE  r.id \in Nat /\ r.id > 0 /\ r.prev \in Nat /\ r.sess \in Sessions
    <2>1. r.id \in Ids /\ r.prev \in Ids \cup {None} /\ r.sess \in Sessions
      BY DEF LogRecord
    <2> QED BY <2>1, IdNat
  <1> QED BY <1>1, <1>2

(* The file, when it is there, and the memory buffer tell the youngest     *)
(* record of a session.                                                    *)
LEMMA ScanNames ==
    ASSUME Typed, Sorted, Chained, NEW s \in Sessions
    PROVE  Names(s, Scan(s)) /\ Scan(s) < nextId
  <1> DEFINE onDisk == OfSession(IF fsOk THEN file ELSE <<>>, s)
             inMem  == OfSession(mem, s)
  <1>0. /\ mem \in Seq(LogRecord) /\ file \in Seq(LogRecord) /\ <<>> \in Seq(LogRecord)
        /\ nextId \in Nat /\ nextId > 0
    <2>1. last[s] \in Ids \cup {None} /\ last[s] < nextId /\ nextId \in Nat
      BY DEF Typed, Chained
    <2>2. last[s] \in Nat
      BY <2>1, IdNat
    <2> QED BY <2>1, <2>2 DEF Typed
  <1>1. CASE inMem # <<>>
    <2>1. PICK m \in 1..Len(mem) : /\ mem[m].sess = s /\ LastHmac(inMem) = mem[m].id
                                   /\ \A i \in 1..Len(mem) : mem[i].sess = s => i <= m
      BY <1>0, <1>1, OfSessionRows
    <2>2. Scan(s) = mem[m].id
      BY <1>1, <2>1 DEF Scan
    <2>3. \A r \in Waiting : r.sess = s => r.id <= mem[m].id
      BY <2>1, WaitingIs DEF Sorted, Before, Ordered
    <2>4. mem[m].id < nextId
      BY WaitingIs DEF Chained
    <2> QED BY <2>2, <2>3, <2>4 DEF Names
  <1>2. CASE inMem = <<>> /\ fsOk /\ OfSession(file, s) # <<>>
    <2>1. PICK m \in 1..Len(file) : /\ file[m].sess = s
                                    /\ LastHmac(OfSession(file, s)) = file[m].id
                                    /\ \A i \in 1..Len(file) : file[i].sess = s => i <= m
      BY <1>0, <1>2, OfSessionRows
    <2>2. Scan(s) = file[m].id
      BY <1>2, <2>1 DEF Scan
    <2>3. \A i \in 1..Len(mem) : mem[i].sess # s
      BY <1>0, <1>2, OfSessionRows
    <2>4. \A r \in Waiting : r.sess = s => r.id <= file[m].id
      BY <2>1, <2>3, WaitingIs DEF Sorted, Before, Ordered
    <2>5. file[m].id < nextId
      BY WaitingIs DEF Chained
    <2> QED BY <2>2, <2>4, <2>5 DEF Names
  <1>3. CASE inMem = <<>> /\ onDisk = <<>>
    <2>1. Scan(s) = None
      BY <1>3 DEF Scan, LastHmac
    <2> QED BY <1>0, <2>1 DEF Names, None
  <1>4. CASE inMem = <<>> /\ ~fsOk
    <2>1. OfSession(<<>>, s) = <<>>
      <3>1. ASSUME OfSession(<<>>, s) # <<>> PROVE FALSE
        <4>1. \E m \in 1..Len(<<>>) : TRUE
          BY <1>0, <3>1, OfSessionRows
        <4> QED BY <4>1
      <3> QED BY <3>1
    <2> QED BY <1>3, <1>4, <2>1
  <1> QED BY <1>1, <1>2, <1>3, <1>4

(* A step that adds nothing to what waits keeps the links.                 *)
LEMMA ChainedShrinks ==
    ASSUME Typed, Chained, \A r \in Waiting' : r \in Waiting,
           nextId' \in Nat, nextId' >= nextId,
           \A s \in Sessions : last'[s] = last[s] \/ last'[s] = None,
           \A c \in Callers : call'[c].pc \in BuiltPhases =>
               /\ call[c].pc \in BuiltPhases
               /\ call'[c].built = call[c].built /\ call'[c].sess = call[c].sess
    PROVE  Chained'
  <1>1. \A r \in Waiting' : r.id < nextId' /\ r.prev < r.id
    <2>1. ASSUME NEW r \in Waiting' PROVE r.id < nextId' /\ r.prev < r.id
      <3>1. r \in Waiting /\ r.id \in Nat
        BY WaitingType
      <3>2. r.id < nextId /\ r.prev < r.id
        BY <3>1 DEF Chained
      <3> QED BY <3>1, <3>2 DEF Typed
    <2> QED BY <2>1
  <1>2. \A r, q \in Waiting' :
          r.sess = q.sess /\ r.id < q.id => q.prev = None \/ r.id <= q.prev
    BY DEF Chained
  <1>3. ASSUME NEW s \in Sessions
        PROVE  last'[s] < nextId' /\ Names(s, last[s])'
    <2>1. last[s] < nextId /\ Names(s, last[s]) /\ last[s] \in Nat /\ nextId \in Nat
      <3>1. last[s] \in Ids \cup {None} /\ last[s] < nextId /\ nextId \in Nat /\ Names(s, last[s])
        BY DEF Typed, Chained
      <3> QED BY <3>1, IdNat
    <2>2. CASE last'[s] = last[s]
      BY <2>1, <2>2 DEF Names
    <2>3. CASE last'[s] = None
      BY <2>1, <2>3 DEF Names, None
    <2> QED BY <2>2, <2>3
  <1>4. ASSUME NEW c \in Callers, call'[c].pc \in BuiltPhases, NEW b, b = call'[c].built
        PROVE  /\ b \in LogRecord /\ b.sess = call'[c].sess /\ b.id < nextId' /\ b.prev < b.id
               /\ b.prev = None \/ \A r \in Waiting' : r.sess = b.sess => r.id <= b.prev
               /\ \A r \in Waiting' : r.sess = b.sess => r.id < b.id
    <2>1. /\ b = call[c].built /\ b \in LogRecord /\ b.sess = call[c].sess /\ b.id < nextId
          /\ b.prev < b.id
          /\ b.prev = None \/ \A r \in Waiting : r.sess = b.sess => r.id <= b.prev
          /\ \A r \in Waiting : r.sess = b.sess => r.id < b.id
      BY <1>4 DEF Chained, Names, Sess
    <2>2. b.id \in Nat /\ nextId \in Nat
      BY <2>1, IdsAssumption DEF LogRecord, Typed
    <2>3. b.id < nextId' /\ b.sess = call'[c].sess
      BY <1>4, <2>1, <2>2
    <2> QED BY <2>1, <2>3
  <1> QED BY <1>1, <1>2, <1>3, <1>4 DEF Chained, Names, Sess

(* Nothing of session s in a is younger than n.                            *)
Upto(a, s, n) == \A i \in 1..Len(a) : a[i].sess = s => a[i].id <= n

(* A row put at the end of a sequence keeps the order of the ids.          *)
LEMMA OrderedAppend ==
    ASSUME NEW S, NEW a \in Seq(S), NEW b \in Seq(S), NEW x \in S, x.id \in Nat
    PROVE  /\ Ordered(a) /\ Upto(a, x.sess, x.id) => Ordered(Append(a, x))
           /\ Before(b, a) /\ Upto(b, x.sess, x.id) => Before(b, Append(a, x))
  <1> DEFINE ax == Append(a, x)
             n == Len(a)
  <1>1. /\ n \in Nat /\ Len(ax) = n + 1 /\ ax[n + 1] = x
        /\ \A i \in 1..n : ax[i] = a[i]
    OBVIOUS
  <1>2. \A i \in 1..Len(ax) : i \in 1..n \/ i = n + 1
    BY <1>1
  <1> HIDE DEF ax, n
  <1>3. ASSUME Ordered(a), Upto(a, x.sess, x.id) PROVE Ordered(ax)
    <2>1. ASSUME NEW i \in 1..Len(ax), NEW j \in 1..Len(ax), i <= j, ax[i].sess = ax[j].sess
          PROVE  ax[i].id <= ax[j].id
      <3>1. CASE j = n + 1 /\ i = n + 1
        BY <1>1, <3>1
      <3>2. CASE j = n + 1 /\ i \in 1..n
        BY <1>1, <1>3, <2>1, <3>2 DEF Upto, n
      <3>3. CASE j \in 1..n
        <4>1. i \in 1..n
          BY <1>1, <1>2, <2>1, <3>3
        <4> QED BY <1>1, <1>3, <2>1, <3>3, <4>1 DEF Ordered, n
      <3> QED BY <1>2, <3>1, <3>2, <3>3
    <2> QED BY <2>1 DEF Ordered
  <1>4. ASSUME Before(b, a), Upto(b, x.sess, x.id) PROVE Before(b, ax)
    <2>1. ASSUME NEW i \in 1..Len(b), NEW j \in 1..Len(ax), b[i].sess = ax[j].sess
          PROVE  b[i].id <= ax[j].id
      <3>1. CASE j = n + 1
        BY <1>1, <1>4, <2>1, <3>1 DEF Upto
      <3>2. CASE j \in 1..n
        BY <1>1, <1>4, <2>1, <3>2 DEF Before, n
      <3> QED BY <1>2, <3>1, <3>2
    <2> QED BY <2>1 DEF Before
  <1> QED BY <1>3, <1>4 DEF ax

(* What has nothing after it is in order with it.                          *)
LEMMA OrderedEmpty ==
    ASSUME NEW a
    PROVE  Ordered(<<>>) /\ Before(a, <<>>) /\ Before(<<>>, a)
  BY DEF Ordered, Before

(* ... keeps the order.                                                    *)
LEMMA SortedSuffix ==
    ASSUME Typed, Sorted, NEW k \in Nat, k <= Len(mem),
           mem' = SubSeq(mem, k + 1, Len(mem)), fsOk' = fsOk,
           file' = file, rotated' = rotated
    PROVE  Sorted' /\ \A r \in Waiting' : r \in Waiting
  <1>1. /\ mem' \in Seq(LogRecord) /\ Len(mem') = Len(mem) - k
        /\ \A i \in 1..Len(mem') : k + i \in 1..Len(mem) /\ mem'[i] = mem[k + i]
    BY Suffix DEF Typed
  <1>2. Len(mem) \in Nat /\ Len(mem') \in Nat
    BY <1>1 DEF Typed
  <1>3. Ordered(mem')
    <2>1. ASSUME NEW i \in 1..Len(mem'), NEW j \in 1..Len(mem'), i <= j,
                 mem'[i].sess = mem'[j].sess
          PROVE  mem'[i].id <= mem'[j].id
      <3>1. k + i <= k + j
        BY <1>2, <2>1
      <3> QED BY <1>1, <2>1, <3>1 DEF Sorted, Ordered
    <2> QED BY <2>1 DEF Ordered
  <1>4. Before(rotated, mem') /\ Before(file, mem')
    BY <1>1 DEF Sorted, Before
  <1>5. fsOk => mem' = <<>>
    BY <1>1, <1>2 DEF Sorted
  <1>6. Sorted'
    <2>1. /\ Ordered(file') /\ Before(rotated', file') /\ Before(rotated', mem')
          /\ Before(file', mem')
      BY <1>4 DEF Sorted
    <2> QED BY <1>3, <1>5, <2>1 DEF Sorted, Ordered, Before
  <1>7. ASSUME NEW r \in Waiting' PROVE r \in Waiting
    <2>1. CASE \E i \in 1..Len(mem') : r = mem'[i]
      BY <1>1, <2>1, WaitingIs
    <2>2. CASE \/ \E i \in 1..Len(file) : r = file[i]
               \/ \E i \in 1..Len(rotated) : r = rotated[i]
      BY <2>2, WaitingIs
    <2>3. \/ \E i \in 1..Len(mem') : r = mem'[i]
          \/ \E i \in 1..Len(file) : r = file[i]
          \/ \E i \in 1..Len(rotated) : r = rotated[i]
      BY WaitingIsNext
    <2> QED BY <2>1, <2>2, <2>3
  <1> QED BY <1>6, <1>7

(* A record built on the cache or on a scan is the youngest of its         *)
(* session, and may name what it names.                                    *)
LEMMA ChainedBuild ==
    ASSUME Typed, Sorted, Chained, NEW c \in Callers, FbBuild(c)
    PROVE  Chained'
  <1>1. PICK b \in LogRecord, at \in BuiltPhases :
          /\ b.id = nextId /\ b.sess = Sess(c) /\ b.prev = FbPrev(Sess(c))
          /\ FbPrev(Sess(c)) \in Ids \cup {None} /\ nextId \in Ids /\ nextId' = nextId + 1
          /\ call'[c].built = b /\ call'[c].pc = at /\ call'[c].sess = Sess(c)
          /\ \A d \in Callers : d # c => call'[d] = call[d]
    BY FbBuilds
  <1> DEFINE s0 == Sess(c)
             p == FbPrev(s0)
  <1>2. s0 \in Sessions /\ nextId \in Nat /\ p \in Nat /\ nextId' \in Nat /\ nextId < nextId'
    BY <1>1, CallFields, IdNat
  <1>3. Names(s0, p) /\ p < nextId
    <2>1. CASE s0 \in hydrated
      BY <1>2, <2>1 DEF FbPrev, Chained
    <2>2. CASE s0 \notin hydrated
      BY <1>2, <2>2, ScanNames DEF FbPrev
    <2> QED BY <2>1, <2>2
  <1>4. Waiting' = Waiting
    BY DEF FbBuild, fileVars, Waiting, Buffered, Elements
  <1>5. last' = [last EXCEPT ![s0] = p]
    BY DEF FbBuild, FbPrev
  <1> HIDE DEF p
  <1>6. ASSUME NEW r \in Waiting PROVE r.id < nextId /\ r.id \in Nat /\ r.prev < r.id
    BY WaitingType DEF Chained
  <1>7. \A r \in Waiting' : r.id < nextId' /\ r.prev < r.id
    BY <1>2, <1>4, <1>6
  <1>8. \A r, q \in Waiting' :
          r.sess = q.sess /\ r.id < q.id => q.prev = None \/ r.id <= q.prev
    BY <1>4 DEF Chained
  <1>9. ASSUME NEW s \in Sessions
        PROVE  last'[s] < nextId' /\ Names(s, last[s])'
    <2>1. CASE s = s0
      <3>1. last'[s] = p
        BY <1>5, <2>1 DEF Typed
      <3>2. p < nextId'
        BY <1>2, <1>3
      <3> QED BY <1>3, <1>4, <2>1, <3>1, <3>2 DEF Names
    <2>2. CASE s # s0
      <3>1. last'[s] = last[s] /\ last[s] < nextId /\ Names(s, last[s]) /\ last[s] \in Ids \cup {None}
        BY <1>2, <1>5, <2>2 DEF Typed, Chained
      <3>2. last[s] \in Nat
        BY <3>1, IdNat
      <3> QED BY <1>2, <1>4, <3>1, <3>2 DEF Names
    <2> QED BY <2>1, <2>2
  <1>10. ASSUME NEW d \in Callers, call'[d].pc \in BuiltPhases, NEW e, e = call'[d].built
         PROVE  /\ e \in LogRecord /\ e.sess = call'[d].sess /\ e.id < nextId' /\ e.prev < e.id
                /\ e.prev = None \/ \A r \in Waiting' : r.sess = e.sess => r.id <= e.prev
                /\ \A r \in Waiting' : r.sess = e.sess => r.id < e.id
    <2>1. CASE d = c
      <3>1. e = b /\ b.prev = p
        BY <1>1, <1>10, <2>1 DEF p
      <3> QED BY <1>1, <1>2, <1>3, <1>4, <1>6, <2>1, <3>1 DEF Names
    <2>2. CASE d # c
      <3>1. /\ e = call[d].built /\ e \in LogRecord /\ e.sess = call'[d].sess /\ e.id < nextId
            /\ e.prev < e.id
            /\ e.prev = None \/ \A r \in Waiting : r.sess = e.sess => r.id <= e.prev
            /\ \A r \in Waiting : r.sess = e.sess => r.id < e.id
        BY <1>1, <1>10, <2>2 DEF Chained, Names, Sess
      <3>2. e.id \in Ids
        BY <3>1 DEF LogRecord
      <3>3. e.id < nextId'
        BY <1>2, <3>1, <3>2, IdNat
      <3> QED BY <1>4, <3>1, <3>3
    <2> QED BY <2>1, <2>2
  <1> QED BY <1>7, <1>8, <1>9, <1>10 DEF Chained, Names, Sess

(* An append adds the built record, if it adds one, behind the others.     *)
LEMMA WaitingAppended ==
    ASSUME Typed, NEW b \in LogRecord, NEW found \in {file, <<>>}, Appended(b, found)
    PROVE  \A r \in Waiting' :
             r \in Waiting \/ (r \in LogRecord /\ r.id = b.id /\ r.sess = b.sess /\ r.prev = b.prev)
  <1>0. /\ file \in Seq(LogRecord) /\ rotated \in Seq(LogRecord) /\ mem \in Seq(LogRecord)
        /\ found \in Seq(LogRecord)
    <2>1. <<>> \in Seq(LogRecord)
      OBVIOUS
    <2> QED BY <2>1 DEF Typed
  <1>1. /\ Serialize(b) \in LogRecord /\ Serialize(b).id = b.id
        /\ Serialize(b).sess = b.sess /\ Serialize(b).prev = b.prev
    BY SerializeKeeps
  <1>2. ASSUME NEW i \in 1..Len(file')
        PROVE  file'[i] = Serialize(b) \/ \E j \in 1..Len(file) : file'[i] = file[j]
    <2>1. \A j \in 1..Len(found) : found[j] = file[j] /\ j \in 1..Len(file)
      <3>1. CASE found = file
        BY <3>1
      <3>2. CASE found = <<>>
        BY <3>2
      <3> QED BY <3>1, <3>2
    <2>2. CASE file' = found
      BY <2>1, <2>2
    <2>3. CASE file' = Append(found, Serialize(b))
      <3>1. \A j \in 1..Len(Append(found, Serialize(b))) :
              \/ Append(found, Serialize(b))[j] = Serialize(b)
              \/ j \in 1..Len(found) /\ Append(found, Serialize(b))[j] = found[j]
        BY <1>0
      <3> QED BY <2>1, <2>3, <3>1
    <2> QED BY <2>2, <2>3 DEF Appended
  <1>3. ASSUME NEW i \in 1..Len(mem')
        PROVE  mem'[i] = b \/ \E j \in 1..Len(mem) : mem'[i] = mem[j]
    <2>1. CASE mem' = mem
      BY <2>1
    <2>2. CASE mem' = Append(mem, b)
      <3>1. \A j \in 1..Len(Append(mem, b)) :
              Append(mem, b)[j] = b \/ (j \in 1..Len(mem) /\ Append(mem, b)[j] = mem[j])
        BY <1>0
      <3> QED BY <2>2, <3>1
    <2> QED BY <2>1, <2>2 DEF Appended
  <1>4. rotated' = rotated \/ rotated' = file
    BY DEF Appended
  <1> QED BY <1>1, <1>2, <1>3, <1>4, WaitingIs, WaitingIsNext

(* Appending a record built on all that waits keeps the links.             *)
LEMMA ChainedAppend ==
    ASSUME Inv, Typed, NEW c \in Callers, FbAppend(c)
    PROVE  Chained'
  <1> DEFINE b == call[c].built
  <1>1. /\ b \in LogRecord /\ b.sess = Sess(c) /\ call[c].pc \in FbPhases
        /\ call[c].pc \in BuiltPhases /\ queue[Sess(c)][1] = c
    BY BuiltRecord DEF FbAppend, BuiltPhases
  <1>2. /\ b.id < nextId /\ b.prev < b.id
        /\ b.prev = None \/ \A r \in Waiting : r.sess = b.sess => r.id <= b.prev
        /\ \A r \in Waiting : r.sess = b.sess => r.id < b.id
    BY <1>1 DEF Inv, Chained, Names
  <1>3. /\ last' = [last EXCEPT ![b.sess] = b.id] /\ nextId' = nextId
        /\ AppendFile(b) /\ LeaveFallback(c)
    BY DEF FbAppend
  <1>4. b.id \in Nat /\ b.id > 0 /\ b.sess \in Sessions /\ b.prev \in Nat
    <2>1. b.id \in Ids /\ b.sess \in Sessions /\ b.prev \in Ids \cup {None}
      BY <1>1 DEF LogRecord
    <2> QED BY <2>1, IdNat
  <1> HIDE DEF b
  <1>5. PICK found \in {file, <<>>} : Appended(b, found)
    BY <1>1, <1>3, AppendShape
  <1>6. ASSUME NEW r \in Waiting'
        PROVE  \/ r \in Waiting
               \/ r.id = b.id /\ r.sess = b.sess /\ r.prev = b.prev
    BY <1>1, <1>5, WaitingAppended
  <1>7. ASSUME NEW r \in Waiting
        PROVE  r.id \in Nat /\ r.prev \in Nat /\ r.id < nextId /\ r.prev < r.id
    BY WaitingType DEF Chained, Inv
  <1>8. /\ call'[c].pc \notin BuiltPhases
        /\ \A d \in Callers : d # c => call'[d] = call[d]
    <2>1. \E to \in {"fbRecord", "idle"} : Goto(c, to)
      BY <1>1, <1>3, Leaves DEF Inv
    <2> QED BY <2>1, GotoKeeps DEF Phases, BuiltPhases
  <1>9. \A r \in Waiting' : r.id < nextId' /\ r.prev < r.id
    BY <1>2, <1>3, <1>6, <1>7
  <1>10. ASSUME NEW r \in Waiting', NEW q \in Waiting', r.sess = q.sess, r.id < q.id
         PROVE  q.prev = None \/ r.id <= q.prev
    <2>1. CASE q \in Waiting /\ r \in Waiting
      BY <1>10, <2>1 DEF Inv, Chained
    <2>2. CASE q \in Waiting /\ r.id = b.id /\ r.sess = b.sess
      <3>1. q.id < b.id /\ q.id \in Nat /\ b.id < q.id
        BY <1>2, <1>7, <1>10, <2>2
      <3> QED BY <1>4, <3>1
    <2>3. CASE r \in Waiting /\ q.id = b.id /\ q.sess = b.sess /\ q.prev = b.prev
      BY <1>2, <1>10, <2>3
    <2>4. CASE r.id = b.id /\ q.id = b.id
      BY <1>4, <1>10, <2>4
    <2> QED BY <1>6, <2>1, <2>2, <2>3, <2>4
  <1>11. ASSUME NEW s \in Sessions
         PROVE  last'[s] < nextId' /\ Names(s, last[s])'
    <2>1. CASE s = b.sess
      <3>1. last'[s] = b.id
        BY <1>3, <2>1 DEF Typed
      <3>2. \A r \in Waiting' : r.sess = s => r.id <= b.id
        BY <1>2, <1>4, <1>6, <1>7, <2>1
      <3> QED BY <1>2, <1>3, <3>1, <3>2 DEF Names
    <2>2. CASE s # b.sess
      <3>1. last'[s] = last[s] /\ last[s] < nextId /\ Names(s, last[s])
        BY <1>3, <2>2 DEF Typed, Inv, Chained
      <3>2. \A r \in Waiting' : r.sess = s => r \in Waiting
        BY <1>6, <2>2
      <3> QED BY <1>3, <3>1, <3>2 DEF Names
    <2> QED BY <2>1, <2>2
  <1>12. ASSUME NEW d \in Callers, call'[d].pc \in BuiltPhases, NEW e, e = call'[d].built
         PROVE  /\ e \in LogRecord /\ e.sess = call'[d].sess /\ e.id < nextId' /\ e.prev < e.id
                /\ e.prev = None \/ \A r \in Waiting' : r.sess = e.sess => r.id <= e.prev
                /\ \A r \in Waiting' : r.sess = e.sess => r.id < e.id
    <2>1. d # c /\ call'[d] = call[d]
      BY <1>8, <1>12
    <2>2. /\ e \in LogRecord /\ e.sess = call[d].sess /\ e.id < nextId
          /\ e.prev < e.id
          /\ e.prev = None \/ \A r \in Waiting : r.sess = e.sess => r.id <= e.prev
          /\ \A r \in Waiting : r.sess = e.sess => r.id < e.id
      BY <1>12, <2>1 DEF Inv, Chained, Names, Sess
    <2>3. queue[call[d].sess][1] = d
      BY <1>12, <2>1 DEF Inv, Queued, Sess
    <2>4. e.sess # b.sess
      BY <1>1, <2>1, <2>2, <2>3
    <2>5. \A r \in Waiting' : r.sess = e.sess => r \in Waiting
      BY <1>6, <2>4
    <2> QED BY <1>3, <2>1, <2>2, <2>5
  <1> QED BY <1>9, <1>10, <1>11, <1>12 DEF Chained, Names, Sess

(* ... and the order.                                                      *)
LEMMA SortedAppend ==
    ASSUME Inv, Typed, NEW c \in Callers, FbAppend(c)
    PROVE  Sorted'
  <1> DEFINE b == call[c].built
             x == Serialize(b)
  <1>1. b \in LogRecord /\ call[c].pc \in BuiltPhases
    BY BuiltRecord DEF FbAppend, BuiltPhases
  <1>2. \A r \in Waiting : r.sess = b.sess => r.id < b.id
    BY <1>1 DEF Inv, Chained
  <1>3. b.id \in Nat /\ x \in LogRecord /\ x.id = b.id /\ x.sess = b.sess
    <2>1. b.id \in Ids
      BY <1>1 DEF LogRecord
    <2> QED BY <1>1, <2>1, IdNat, SerializeKeeps
  <1>4. PICK found \in {file, <<>>} : Appended(b, found)
    BY <1>1, AppendShape DEF FbAppend
  <1> HIDE DEF b, x
  <1>5. /\ file \in Seq(LogRecord) /\ rotated \in Seq(LogRecord) /\ mem \in Seq(LogRecord)
        /\ <<>> \in Seq(LogRecord) /\ found \in Seq(LogRecord)
    <2>1. <<>> \in Seq(LogRecord)
      OBVIOUS
    <2> QED BY <2>1 DEF Typed
  <1>6. /\ Upto(file, b.sess, b.id) /\ Upto(rotated, b.sess, b.id) /\ Upto(mem, b.sess, b.id)
        /\ Upto(found, b.sess, b.id)
    <2>1. ASSUME NEW r \in Waiting, r.sess = b.sess PROVE r.id <= b.id
      BY <1>2, <1>3, <2>1, WaitingType
    <2>2. Upto(file, b.sess, b.id) /\ Upto(rotated, b.sess, b.id) /\ Upto(mem, b.sess, b.id)
      BY <2>1, WaitingIs DEF Upto
    <2>3. Upto(<<>>, b.sess, b.id)
      BY DEF Upto
    <2> QED BY <2>2, <2>3
  <1>7. \A a : Ordered(<<>>) /\ Before(a, <<>>) /\ Before(<<>>, a)
    BY OrderedEmpty
  <1>8. Sorted
    BY DEF Inv
  <1>9. Ordered(found) /\ Before(found, mem)
    BY <1>7, <1>8 DEF Sorted
  <1>10. \A a, q \in Seq(LogRecord) :
           /\ Ordered(a) /\ Upto(a, b.sess, b.id) => Ordered(Append(a, x)) /\ Ordered(Append(a, b))
           /\ Before(q, a) /\ Upto(q, b.sess, b.id)
                => Before(q, Append(a, x)) /\ Before(q, Append(a, b))
    BY <1>1, <1>3, OrderedAppend
  <1>11. file' = found \/ file' = Append(found, x)
    BY <1>4 DEF Appended, x
  <1>12. mem' = mem \/ mem' = Append(mem, b)
    BY <1>4 DEF Appended
  <1>13. Ordered(file') /\ Ordered(mem')
    BY <1>5, <1>6, <1>8, <1>9, <1>10, <1>11, <1>12 DEF Sorted
  <1>14. rotated' \in {rotated, file} /\ Before(rotated', found)
    BY <1>4, <1>7, <1>8 DEF Appended, Sorted
  <1>15. Upto(rotated', b.sess, b.id) /\ Before(rotated', mem) /\ rotated' \in Seq(LogRecord)
    BY <1>5, <1>6, <1>8, <1>14 DEF Sorted
  <1>16. Before(rotated', file') /\ Before(rotated', mem')
    BY <1>5, <1>10, <1>11, <1>12, <1>14, <1>15
  <1>17. fsOk' => mem' = <<>>
    BY <1>4, <1>8 DEF Appended, Sorted
  <1>18. Before(file', mem')
    <2>1. CASE ~fsOk
      <3>1. file' = file
        BY <1>4, <2>1 DEF Appended
      <3> QED BY <1>5, <1>6, <1>8, <1>10, <1>12, <3>1 DEF Sorted
    <2>2. CASE fsOk
      <3>1. mem = <<>>
        BY <1>8, <2>2 DEF Sorted
      <3>2. Upto(file', b.sess, b.id) /\ file' \in Seq(LogRecord)
        <4>1. Append(found, x) \in Seq(LogRecord)
          BY <1>3, <1>5
        <4>2. Upto(Append(found, x), b.sess, b.id)
          BY <1>3, <1>5, <1>6 DEF Upto
        <4> QED BY <1>5, <1>6, <1>11, <4>1, <4>2
      <3>3. Before(file', mem)
        BY <1>7, <3>1
      <3> QED BY <1>5, <1>10, <1>12, <3>2, <3>3
    <2> QED BY <2>1, <2>2
  <1> QED BY <1>13, <1>16, <1>17, <1>18 DEF Sorted, Ordered, Before

(* A step that leaves the fallback and the built records alone.            *)
LEMMA ChainSame ==
    ASSUME Typed, Sorted, Chained,
           file' = file, rotated' = rotated, mem' = mem, fsOk' = fsOk, last' = last,
           nextId' \in Nat, nextId' >= nextId,
           \A c \in Callers : call'[c].pc \in BuiltPhases => call'[c] = call[c]
    PROVE  Chained' /\ Sorted'
  <1>1. Waiting' = Waiting
    BY DEF Waiting, Buffered, Elements
  <1>2. Chained'
    BY <1>1, ChainedShrinks
  <1> QED BY <1>2 DEF Sorted, Ordered, Before

(* Every step keeps the links and the order.                               *)
LEMMA ChainStep ==
    ASSUME Inv, [Next]_vars
    PROVE  Chained' /\ Sorted'
  <1>0. Typed /\ Sorted /\ Chained /\ Queued /\ nextId \in Nat
    BY TypedIs DEF Inv, Typed
  <1>1. Typed'
    BY TypeStep
  <1>2. nextId' \in Nat
    BY <1>1 DEF Typed
  <1>3. ASSUME NEW c \in Callers, file' = file, rotated' = rotated, mem' = mem,
               fsOk' = fsOk, last' = last, nextId' >= nextId, call'[c].pc \notin BuiltPhases,
               \A d \in Callers : d # c => call'[d] = call[d]
        PROVE  Chained' /\ Sorted'
    BY <1>0, <1>2, <1>3, ChainSame
  <1>4. ASSUME NEW c \in Callers, NEW s \in Sessions, NEW m \in Models, Log(c, s, m)
        PROVE  Chained' /\ Sorted'
    <2>1. /\ file' = file /\ rotated' = rotated /\ mem' = mem /\ fsOk' = fsOk /\ last' = last
          /\ nextId' = nextId
      BY <1>4 DEF Log, fileVars, cacheVars
    <2>2. /\ call'[c].pc \in {"marker", "record"}
          /\ \A d \in Callers : d # c => call'[d] = call[d]
      BY <1>0, <1>4 DEF Log, Typed
    <2> QED BY <1>0, <1>3, <2>1, <2>2 DEF BuiltPhases
  <1>5. ASSUME NEW c \in Callers, EmitMarker(c) \/ EmitRecord(c) \/ PrimaryFails(c)
        PROVE  Chained' /\ Sorted'
    <2>1. /\ file' = file /\ rotated' = rotated /\ mem' = mem /\ fsOk' = fsOk /\ last' = last
          /\ \E p \in {"drain", "idle", "fbRecord", "fbMarker"} : Goto(c, p)
      BY <1>5 DEF EmitMarker, EmitRecord, PrimaryFails, fileVars, cacheVars
    <2>2. nextId' = nextId \/ nextId' = nextId + 1
      BY <1>5 DEF EmitMarker, EmitRecord, PrimaryFails, InsertPrimary, Fresh
    <2>3. nextId' >= nextId
      BY <1>0, <2>2
    <2>4. /\ call'[c].pc \in {"drain", "idle", "fbRecord", "fbMarker"}
          /\ \A d \in Callers : d # c => call'[d] = call[d]
      BY <1>0, <2>1, GotoKeeps DEF Phases
    <2> QED BY <1>3, <2>1, <2>3, <2>4 DEF BuiltPhases
  <1>6. ASSUME NEW c \in Callers, FbBuild(c) PROVE Chained' /\ Sorted'
    <2>1. Chained'
      BY <1>0, <1>6, ChainedBuild
    <2> QED BY <1>0, <1>6, <2>1 DEF FbBuild, fileVars, Sorted, Ordered, Before
  <1>7. ASSUME NEW c \in Callers, FbAppend(c) PROVE Chained' /\ Sorted'
    BY <1>0, <1>7, ChainedAppend, SortedAppend
  <1>8. ASSUME NEW c \in Callers, FbRefused(c) PROVE Chained' /\ Sorted'
    <2>1. /\ file' = file /\ rotated' = rotated /\ mem' = mem /\ fsOk' = fsOk /\ last' = last
          /\ nextId' = nextId
      BY <1>8 DEF FbRefused, fileVars, cacheVars
    <2>2. \E to \in {"fbRecord", "idle"} : Goto(c, to)
      BY <1>0, <1>8, Leaves DEF FbRefused, FbPhases
    <2>3. /\ call'[c].pc \in {"fbRecord", "idle"}
          /\ \A d \in Callers : d # c => call'[d] = call[d]
      BY <1>0, <2>2, GotoKeeps DEF Phases
    <2> QED BY <1>0, <1>3, <2>1, <2>3 DEF BuiltPhases
  <1>9. ASSUME NEW c \in Callers, DrainBegin(c) \/ DrainFails(c) PROVE Chained' /\ Sorted'
    <2>1. /\ file' = file /\ rotated' = rotated /\ mem' = mem /\ fsOk' = fsOk /\ last' = last
          /\ nextId' = nextId
      BY <1>9 DEF DrainBegin, DrainFails, fileVars, cacheVars
    <2>2. /\ call'[c].pc \in {"draining", "record"}
          /\ \A d \in Callers : d # c => call'[d] = call[d]
      BY <1>0, <1>9 DEF DrainBegin, DrainFails, Goto, Typed, Calls
    <2> QED BY <1>0, <1>3, <2>1, <2>2 DEF BuiltPhases
  <1>10. ASSUME NEW c \in Callers, DrainBatch(c) PROVE Chained' /\ Sorted'
    <2>1. /\ file' = file /\ rotated' = rotated /\ fsOk' = fsOk /\ last' = last
          /\ nextId' = nextId /\ call[c].pc = "draining"
      BY <1>10 DEF DrainBatch, fileVars, cacheVars
    <2>2. /\ call'[c].pc = "draining"
          /\ \A d \in Callers : d # c => call'[d] = call[d]
      BY <1>0, <1>10 DEF DrainBatch, Typed, Calls
    <2>3. CASE mem' = mem
      BY <1>0, <1>3, <2>1, <2>2, <2>3 DEF BuiltPhases
    <2>4. CASE mem # <<>>
      <3>1. mem' = SubSeq(mem, Len(Batch(c)) + 1, Len(mem))
        BY <1>10, <2>4 DEF DrainBatch
      <3>2. Undrained(c) = mem
        BY <2>4 DEF Undrained
      <3>3. Len(Batch(c)) \in Nat /\ Len(Batch(c)) <= Len(mem)
        BY <1>0, <3>2, BatchIs
      <3>4. Sorted' /\ \A r \in Waiting' : r \in Waiting
        BY <1>0, <2>1, <3>1, <3>3, SortedSuffix
      <3>5. \A d \in Callers : call'[d].pc \in BuiltPhases => call'[d] = call[d]
        BY <2>2 DEF BuiltPhases
      <3>6. Chained'
        BY <1>0, <1>2, <2>1, <3>4, <3>5, ChainedShrinks
      <3> QED BY <3>4, <3>6
    <2> QED BY <1>10, <2>3, <2>4 DEF DrainBatch
  <1>11. ASSUME NEW c \in Callers, DrainEnd(c) PROVE Chained' /\ Sorted'
    <2>1. /\ rotated' = rotated /\ mem' = mem /\ fsOk' = fsOk /\ nextId' = nextId
          /\ Goto(c, "record")
          /\ \/ file' = <<>> /\ last' = [s \in Sessions |-> None]
             \/ file' = file /\ last' = last
      BY <1>11 DEF DrainEnd, cacheVars
    <2>2. call'[c].pc = "record" /\ \A d \in Callers : d # c => call'[d] = call[d]
      BY <1>0, <2>1, GotoKeeps DEF Phases
    <2>3. CASE file' = file /\ last' = last
      BY <1>0, <1>3, <2>1, <2>2, <2>3 DEF BuiltPhases
    <2>4. CASE file' = <<>> /\ last' = [s \in Sessions |-> None]
      <3>1. \A r \in Waiting' : r \in Waiting
        BY <2>1, <2>4, WaitingIs, WaitingIsNext
      <3>2. \A d \in Callers : call'[d].pc \in BuiltPhases => call'[d] = call[d]
        BY <2>2 DEF BuiltPhases
      <3>3. Chained'
        BY <1>0, <1>2, <2>1, <2>4, <3>1, <3>2, ChainedShrinks
      <3>4. Sorted'
        BY <1>0, <2>1, <2>4 DEF Sorted, Ordered, Before
      <3> QED BY <3>3, <3>4
    <2> QED BY <2>1, <2>3, <2>4
  <1>12. CASE Outage \/ Recover \/ UNCHANGED vars
    <2>1. /\ file' = file /\ rotated' = rotated /\ mem' = mem /\ fsOk' = fsOk /\ last' = last
          /\ nextId' = nextId /\ call' = call
      BY <1>12 DEF Outage, Recover, vars, fileVars, cacheVars
    <2> QED BY <1>0, <1>2, <2>1, ChainSame
  <1>13. CASE Crash
    <2>1. /\ file' = file /\ rotated' = rotated /\ mem' = <<>> /\ nextId' = nextId
          /\ last' = [s \in Sessions |-> None] /\ \A c \in Callers : call'[c].pc = "idle"
      BY <1>13 DEF Crash, fileVars, Idle
    <2>2. \A r \in Waiting' : r \in Waiting
      BY <2>1, WaitingIs, WaitingIsNext
    <2>3. Chained'
      BY <1>0, <1>2, <2>1, <2>2, ChainedShrinks DEF BuiltPhases
    <2>4. Sorted'
      BY <1>0, <2>1 DEF Sorted, Ordered, Before
    <2> QED BY <2>3, <2>4
  <1> QED BY <1>4, <1>5, <1>6, <1>7, <1>8, <1>9, <1>10, <1>11, <1>12, <1>13 DEF Next, CallStep

-----------------------------------------------------------------------------
(* What was returned.                                                      *)

(* ReturnedKept in terms of the ids of each place.                         *)
KeptIds == RowIds \cup IdsOf(file) \cup IdsOf(mem) \cup IdsOf(rotated)

(* ... are the ids of everything that is kept.                             *)
LEMMA KeptIs ==
    /\ \A id : (\E r \in Everything : r.id = id) <=> id \in KeptIds
    /\ \A id : id \in RowIds <=> \E s \in Sessions : \E i \in 1..Len(chain[s]) : chain[s][i].id = id
  <1>1. \A id : id \in RowIds <=> \E s \in Sessions : \E i \in 1..Len(chain[s]) : chain[s][i].id = id
    BY DEF RowIds, IdsOf
  <1>2. \A r : r \in Everything <=> \/ \E s \in Sessions : \E i \in 1..Len(chain[s]) : r = chain[s][i]
                                    \/ \E i \in 1..Len(file) : r = file[i]
                                    \/ \E i \in 1..Len(mem) : r = mem[i]
                                    \/ \E i \in 1..Len(rotated) : r = rotated[i]
    <2> DEFINE U == UNION {Rows(s) : s \in Sessions}
    <2>1. \A r : r \in U <=> \E s \in Sessions : \E i \in 1..Len(chain[s]) : r = chain[s][i]
      BY DEF Rows, Elements
    <2>2. \A r : r \in Everything <=> r \in U \/ r \in Buffered \/ r \in Elements(rotated)
      <3>1. Everything = U \cup Buffered \cup Elements(rotated)
        BY DEF Everything
      <3> HIDE DEF U
      <3> QED BY <3>1
    <2>3. \A r : r \in Buffered <=> \/ \E i \in 1..Len(file) : r = file[i]
                                   \/ \E i \in 1..Len(mem) : r = mem[i]
      BY DEF Buffered, Elements
    <2>4. \A r : r \in Elements(rotated) <=> \E i \in 1..Len(rotated) : r = rotated[i]
      BY DEF Elements
    <2> HIDE DEF U
    <2> QED BY <2>1, <2>2, <2>3, <2>4
  <1>3. \A id : id \in KeptIds <=> \/ id \in RowIds
                                   \/ \E i \in 1..Len(file) : id = file[i].id
                                   \/ \E i \in 1..Len(mem) : id = mem[i].id
                                   \/ \E i \in 1..Len(rotated) : id = rotated[i].id
    BY DEF KeptIds, IdsOf
  <1>4. ASSUME NEW id PROVE (\E r \in Everything : r.id = id) <=> id \in KeptIds
    BY <1>1, <1>2, <1>3
  <1> QED BY <1>1, <1>4

(* ... and after a step.                                                   *)
LEMMA KeptIsNext ==
    /\ \A id : (\E r \in Everything' : r.id = id) <=> id \in KeptIds'
    /\ \A id : id \in RowIds' <=>
         \E s \in Sessions : \E i \in 1..Len(chain'[s]) : chain'[s][i].id = id
  <1>1. \A id : id \in RowIds' <=>
          \E s \in Sessions : \E i \in 1..Len(chain'[s]) : chain'[s][i].id = id
    BY DEF RowIds, IdsOf
  <1>2. \A r : r \in Everything' <=>
          \/ \E s \in Sessions : \E i \in 1..Len(chain'[s]) : r = chain'[s][i]
          \/ \E i \in 1..Len(file') : r = file'[i]
          \/ \E i \in 1..Len(mem') : r = mem'[i]
          \/ \E i \in 1..Len(rotated') : r = rotated'[i]
    <2> DEFINE U == UNION {Rows(s) : s \in Sessions}
    <2>1. \A r : r \in U' <=> \E s \in Sessions : \E i \in 1..Len(chain'[s]) : r = chain'[s][i]
      BY DEF Rows, Elements
    <2>2. \A r : r \in Everything' <=> r \in U' \/ r \in Buffered' \/ r \in Elements(rotated')
      <3>1. Everything' = U' \cup Buffered' \cup Elements(rotated')
        BY DEF Everything
      <3> HIDE DEF U
      <3> QED BY <3>1
    <2>3. \A r : r \in Buffered' <=> \/ \E i \in 1..Len(file') : r = file'[i]
                                   \/ \E i \in 1..Len(mem') : r = mem'[i]
      BY DEF Buffered, Elements
    <2>4. \A r : r \in Elements(rotated') <=> \E i \in 1..Len(rotated') : r = rotated'[i]
      BY DEF Elements
    <2> HIDE DEF U
    <2> QED BY <2>1, <2>2, <2>3, <2>4
  <1>3. \A id : id \in KeptIds' <=> \/ id \in RowIds'
                                    \/ \E i \in 1..Len(file') : id = file'[i].id
                                    \/ \E i \in 1..Len(mem') : id = mem'[i].id
                                    \/ \E i \in 1..Len(rotated') : id = rotated'[i].id
    BY DEF KeptIds, IdsOf
  <1>4. ASSUME NEW id PROVE (\E r \in Everything' : r.id = id) <=> id \in KeptIds'
    BY <1>1, <1>2, <1>3
  <1> QED BY <1>1, <1>4

(* A row once in the primary stays there.                                  *)
LEMMA RowsGrow ==
    ASSUME Typed, \A s \in Sessions : /\ Len(chain[s]) <= Len(chain'[s])
                                      /\ Len(chain'[s]) \in Nat
                                      /\ \A i \in 1..Len(chain[s]) : chain'[s][i] = chain[s][i]
    PROVE  \A id \in RowIds : id \in RowIds'
  <1> SUFFICES ASSUME NEW id \in RowIds PROVE id \in RowIds'
    OBVIOUS
  <1>0. PICK s \in Sessions : \E i \in 1..Len(chain[s]) : chain[s][i].id = id
    BY KeptIs
  <1>1. PICK i \in 1..Len(chain[s]) : chain[s][i].id = id
    BY <1>0
  <1>2. Len(chain[s]) \in Nat
    BY DEF Typed
  <1>3. i \in 1..Len(chain'[s]) /\ chain'[s][i].id = id
    BY <1>1, <1>2
  <1> QED BY <1>3, KeptIsNext

(* An insert into the primary adds the drawn id to its rows and takes none *)
(* away.                                                                   *)
LEMMA InsertGrows ==
    ASSUME Typed, NEW c \in Callers, NEW k \in {"event", "marker"}, InsertPrimary(c, k)
    PROVE  nextId \in RowIds' /\ \A id \in RowIds : id \in RowIds'
  <1> DEFINE s0 == Sess(c)
  <1>1. PICK b \in LogRecord : b.id = nextId /\ chain' = [chain EXCEPT ![s0] = Append(@, b)]
    BY InsertAdds
  <1>2. s0 \in Sessions /\ chain[s0] \in Seq(LogRecord) /\ Len(chain[s0]) \in Nat
    BY CallFields
  <1> HIDE DEF s0
  <1>3. /\ chain'[s0] = Append(chain[s0], b)
        /\ \A s \in Sessions : s # s0 => chain'[s] = chain[s]
    BY <1>1, <1>2 DEF Typed
  <1>4. /\ Len(chain'[s0]) = Len(chain[s0]) + 1 /\ chain'[s0][Len(chain[s0]) + 1] = b
        /\ \A i \in 1..Len(chain[s0]) : chain'[s0][i] = chain[s0][i]
    BY <1>2, <1>3
  <1>5. ASSUME NEW s \in Sessions
        PROVE  /\ Len(chain[s]) <= Len(chain'[s]) /\ Len(chain'[s]) \in Nat
               /\ \A i \in 1..Len(chain[s]) : chain'[s][i] = chain[s][i]
    <2>1. Len(chain[s]) \in Nat
      BY DEF Typed
    <2> QED BY <1>2, <1>3, <1>4, <2>1
  <1>6. \A id \in RowIds : id \in RowIds'
    BY <1>5, RowsGrow
  <1>7. Len(chain[s0]) + 1 \in 1..Len(chain'[s0])
    BY <1>2, <1>4
  <1>8. nextId \in RowIds'
    BY <1>1, <1>2, <1>4, <1>7, KeptIsNext
  <1> QED BY <1>6, <1>8

(* A drained batch is in the primary afterwards, with all that was there.  *)
LEMMA BatchGrows ==
    ASSUME Typed, NEW batch \in Seq(LogRecord), WriteBatch(batch)
    PROVE  /\ \A id \in RowIds : id \in RowIds'
           /\ \A i \in 1..Len(batch) : batch[i].id \in RowIds'
  <1>1. /\ chain' \in [Sessions -> Seq(LogRecord)]
        /\ \A s \in Sessions : /\ Len(chain[s]) <= Len(chain'[s])
                               /\ \A i \in 1..Len(chain[s]) : chain'[s][i] = chain[s][i]
        /\ \A i \in 1..Len(batch) : batch[i].sess \in Sessions /\
             \E k \in 1..Len(chain'[batch[i].sess]) : chain'[batch[i].sess][k] = batch[i]
    BY WriteBatchAdds
  <1>2. \A id \in RowIds : id \in RowIds'
    BY <1>1, RowsGrow
  <1>3. \A i \in 1..Len(batch) : batch[i].id \in RowIds'
    BY <1>1, KeptIsNext
  <1> QED BY <1>2, <1>3

(* The ids of some records, by position.                                   *)
LEMMA IdsOfIn ==
    ASSUME NEW q
    PROVE  \A id : id \in IdsOf(q) <=> \E i \in 1..Len(q) : q[i].id = id
  BY DEF IdsOf

(* What is kept stays kept when the primary only grows, the fallback is    *)
(* left alone, and what is returned anew is in the primary.                *)
LEMMA KeptSame ==
    ASSUME ReturnedKept, \A id \in RowIds : id \in RowIds',
           file' = file, rotated' = rotated, mem' = mem, dropped' = dropped,
           \A id \in returned' : id \in returned \/ id \in RowIds'
    PROVE  ReturnedKept'
  <1> SUFFICES ASSUME NEW id \in returned', id \notin dropped' PROVE id \in KeptIds'
    BY KeptIsNext DEF ReturnedKept
  <1>1. id \in RowIds' \/ id \in KeptIds
    BY KeptIs DEF ReturnedKept
  <1>2. IdsOf(file') = IdsOf(file) /\ IdsOf(mem') = IdsOf(mem) /\ IdsOf(rotated') = IdsOf(rotated)
    OBVIOUS
  <1>3. KeptIds' = RowIds' \cup IdsOf(file') \cup IdsOf(mem') \cup IdsOf(rotated')
    BY DEF KeptIds, IdsOf
  <1> QED BY <1>1, <1>2, <1>3 DEF KeptIds

(* What a drain has passed stays passed while the file does not change.    *)
LEMMA PassedSame ==
    ASSUME Passed, \A id \in RowIds : id \in RowIds', file' = file,
           \A c \in Callers : call'[c].pc = "draining" =>
               call[c].pc = "draining" /\ call'[c].pos = call[c].pos
    PROVE  Passed'
  BY DEF Passed

(* Without a drain under way there is nothing to have passed.              *)
LEMMA PassedVoid ==
    ASSUME \A c \in Callers : call'[c].pc # "draining"
    PROVE  Passed'
  BY DEF Passed

(* When nothing is left behind a position, the position is past the end.   *)
LEMMA NoneLeft ==
    ASSUME NEW q \in Seq(LogRecord), NEW a \in Nat, SubSeq(q, a + 1, Len(q)) = <<>>
    PROVE  Len(q) <= a
  <1>1. Len(q) \in Nat
    OBVIOUS
  <1>2. ASSUME a < Len(q) PROVE FALSE
    <2>1. Len(SubSeq(q, a + 1, Len(q))) = Len(q) - a
      BY <1>1, <1>2
    <2>2. Len(q) - a = 0
      BY <2>1
    <2> QED BY <1>1, <1>2, <2>2
  <1> QED BY <1>1, <1>2

(* An append keeps what the file, the rotated file and the buffer held,    *)
(* but for the file the size check gives up, and adds its own record.      *)
LEMMA KeptAppend ==
    ASSUME Inv, Typed, NEW c \in Callers, FbAppend(c)
    PROVE  ReturnedKept'
  <1> DEFINE b == call[c].built
             x == Serialize(b)
  <1>1. b \in LogRecord
    BY BuiltRecord DEF FbAppend, BuiltPhases
  <1>2. x \in LogRecord /\ x.id = b.id
    BY <1>1, SerializeKeeps
  <1>3. PICK found \in {file, <<>>} : Appended(b, found)
    BY <1>1, AppendShape DEF FbAppend
  <1>4. chain' = chain /\ \A id \in returned' : id \in returned \/ id = b.id
    BY DEF FbAppend
  <1> HIDE DEF b, x
  <1>5. /\ file \in Seq(LogRecord) /\ rotated \in Seq(LogRecord) /\ mem \in Seq(LogRecord)
        /\ found \in Seq(LogRecord)
    <2>1. <<>> \in Seq(LogRecord)
      OBVIOUS
    <2> QED BY <2>1 DEF Typed
  <1>6. ASSUME NEW q \in Seq(LogRecord), NEW y \in LogRecord
        PROVE  y.id \in IdsOf(Append(q, y)) /\ \A id \in IdsOf(q) : id \in IdsOf(Append(q, y))
    <2>1. /\ Len(q) \in Nat /\ Len(Append(q, y)) = Len(q) + 1 /\ Append(q, y)[Len(q) + 1] = y
          /\ \A i \in 1..Len(q) : Append(q, y)[i] = q[i]
      OBVIOUS
    <2>2. PICK n \in Nat : n = Len(q)
      BY <2>1
    <2>9. Append(q, y) \in Seq(LogRecord)
      OBVIOUS
    <2>3. PICK z \in Seq(LogRecord) : z = Append(q, y)
      BY <2>9, Zenon
    <2>4. Len(z) = n + 1 /\ z[n + 1] = y /\ \A i \in 1..n : z[i] = q[i]
      BY <2>1, <2>2, <2>3
    <2>5. n + 1 \in 1..Len(z)
      BY <2>2, <2>4
    <2>6. \A i \in 1..n : i \in 1..Len(z)
      BY <2>2, <2>4
    <2>7. y.id \in IdsOf(z)
      BY <2>4, <2>5, IdsOfIn
    <2>8. \A id \in IdsOf(q) : id \in IdsOf(z)
      BY <2>2, <2>4, <2>6, IdsOfIn
    <2> QED BY <2>3, <2>7, <2>8
  <1>7. /\ file' = found \/ file' = Append(found, x)
        /\ mem' = mem \/ mem' = Append(mem, b)
        /\ file' = Append(found, x) \/ mem' = Append(mem, b)
    BY <1>3 DEF Appended, x
  <1>8. b.id \in IdsOf(file') \/ b.id \in IdsOf(mem')
    BY <1>1, <1>2, <1>5, <1>6, <1>7
  <1>9. /\ \A id \in IdsOf(mem) : id \in IdsOf(mem')
        /\ \A id \in IdsOf(found) : id \in IdsOf(file')
    BY <1>1, <1>2, <1>5, <1>6, <1>7
  <1>10. \A id \in IdsOf(file) : id \in IdsOf(file') \/ id \in IdsOf(rotated') \/ id \in dropped'
    BY <1>3, <1>9 DEF Appended
  <1>11. /\ \A id \in IdsOf(rotated) : id \in IdsOf(rotated') \/ id \in dropped'
         /\ \A id \in dropped : id \in dropped'
    BY <1>3 DEF Appended
  <1>12. \A id \in RowIds : id \in RowIds'
    BY <1>4 DEF RowIds
  <1> SUFFICES ASSUME NEW id \in returned', id \notin dropped' PROVE id \in KeptIds'
    BY KeptIsNext DEF ReturnedKept
  <1>13. KeptIds' = RowIds' \cup IdsOf(file') \cup IdsOf(mem') \cup IdsOf(rotated')
    BY DEF KeptIds, IdsOf
  <1>14. CASE id = b.id
    BY <1>8, <1>13, <1>14
  <1>15. CASE id \in returned
    <2>1. id \in KeptIds
      BY <1>11, <1>15, KeptIs DEF Inv, ReturnedKept
    <2>2. KeptIds = RowIds \cup IdsOf(file) \cup IdsOf(mem) \cup IdsOf(rotated)
      BY DEF KeptIds
    <2> QED BY <1>9, <1>10, <1>11, <1>12, <1>13, <2>1, <2>2
  <1> QED BY <1>4, <1>14, <1>15

(* A batch moves from the buffer to the primary, or is passed in the file. *)
LEMMA KeptBatch ==
    ASSUME Inv, Typed, NEW c \in Callers, DrainBatch(c)
    PROVE  ReturnedKept' /\ Passed'
  <1> DEFINE batch == Batch(c)
             k == Len(batch)
  <1>0. /\ call[c].pc = "draining" /\ Undrained(c) # <<>> /\ WriteBatch(batch)
        /\ file' = file /\ rotated' = rotated /\ dropped' = dropped /\ returned' = returned
    BY DEF DrainBatch, fileVars
  <1>1. /\ batch \in Seq(LogRecord) /\ Undrained(c) \in Seq(LogRecord) /\ k <= Len(Undrained(c))
        /\ \A i \in 1..k : batch[i] = Undrained(c)[i]
    BY BatchIs
  <1>2. /\ \A id \in RowIds : id \in RowIds'
        /\ \A i \in 1..k : batch[i].id \in RowIds'
    BY <1>0, <1>1, BatchGrows
  <1>3. k \in Nat
    BY <1>1
  <1>4. CASE mem # <<>>
    <2>1. Undrained(c) = mem /\ mem' = SubSeq(mem, k + 1, Len(mem)) /\ call' = call
      BY <1>4 DEF Undrained, DrainBatch
    <2>2. mem \in Seq(LogRecord) /\ Len(mem) \in Nat
      BY DEF Typed
    <2>3. \A j \in 1..Len(mem) : j > k => j - k \in 1..Len(mem') /\ mem'[j - k] = mem[j]
      <3> HIDE DEF k, batch
      <3> QED BY <1>1, <1>3, <2>1, <2>2, Suffix
    <2>4. ASSUME NEW id \in IdsOf(mem) PROVE id \in IdsOf(mem') \/ id \in RowIds'
      <3>1. PICK j \in 1..Len(mem) : mem[j].id = id
        BY IdsOfIn
      <3>2. CASE j > k
        <4>1. j - k \in 1..Len(mem') /\ mem'[j - k].id = id
          BY <2>3, <3>1, <3>2
        <4> QED BY <4>1, IdsOfIn
      <3>3. CASE ~(j > k)
        <4>1. j \in 1..k
          BY <1>3, <2>2, <3>3
        <4> QED BY <1>1, <1>2, <2>1, <3>1, <4>1
      <3> QED BY <3>2, <3>3
    <2>5. ReturnedKept'
      <3> SUFFICES ASSUME NEW id \in returned', id \notin dropped' PROVE id \in KeptIds'
        BY KeptIsNext DEF ReturnedKept
      <3>1. id \in KeptIds
        BY <1>0, KeptIs DEF Inv, ReturnedKept
      <3>2. KeptIds' = RowIds' \cup IdsOf(file') \cup IdsOf(mem') \cup IdsOf(rotated')
        BY DEF KeptIds, IdsOf
      <3> QED BY <1>0, <1>2, <2>4, <3>1, <3>2 DEF KeptIds
    <2>6. Passed'
      BY <1>0, <1>2, <2>1, PassedSame DEF Inv
    <2> QED BY <2>5, <2>6
  <1>5. CASE mem = <<>>
    <2> DEFINE p == call[c].pos
    <2>1. mem' = mem /\ call' = [call EXCEPT ![c].pos = @ + k]
      BY <1>5 DEF DrainBatch
    <2>2. ReturnedKept'
      BY <1>0, <1>2, <2>1, KeptSame DEF Inv
    <2>3. fsOk /\ Undrained(c) = SubSeq(file, p + 1, Len(file))
      BY <1>0, <1>5 DEF Undrained
    <2>4. p \in Nat /\ file \in Seq(LogRecord) /\ Len(file) \in Nat
      BY CallFields DEF Typed
    <2>5. call'[c].pos = p + k /\ \A d \in Callers : d # c => call'[d] = call[d]
      BY <2>1 DEF Typed, Calls
    <2>6. \A d \in Callers : call[d].pc = "draining" => d = c
      BY <1>0 DEF Inv, Draining
    <2>7. ASSUME NEW i \in 1..Len(file), i <= p + k PROVE file[i].id \in RowIds'
      <3>1. CASE i <= p
        <4>1. file[i].id \in RowIds
          BY <1>0, <3>1 DEF Inv, Passed
        <4> QED BY <1>2, <4>1
      <3>2. CASE p < i
        <4>1. i - p \in 1..k /\ p <= Len(file)
          BY <1>3, <2>4, <2>7, <3>2
        <4>2. Undrained(c)[i - p] = file[i]
          BY <2>3, <2>4, <3>2, <4>1, Suffix
        <4>3. batch[i - p].id \in RowIds' /\ batch[i - p] = Undrained(c)[i - p]
          BY <1>1, <1>2, <4>1
        <4> QED BY <4>2, <4>3
      <3> QED BY <2>4, <3>1, <3>2
    <2>8. ASSUME NEW d \in Callers, call'[d].pc = "draining" PROVE d = c
      BY <2>5, <2>6, <2>8
    <2> HIDE DEF p, k
    <2>9. \A i \in 1..Len(file) : i <= call'[c].pos => file[i].id \in RowIds'
      BY <2>5, <2>7
    <2>10. Passed'
      BY <1>0, <2>8, <2>9 DEF Passed
    <2> QED BY <2>2, <2>10
  <1> QED BY <1>4, <1>5

(* Every step keeps what was returned, and what a drain has passed.        *)
LEMMA KeptStep ==
    ASSUME Inv, [Next]_vars
    PROVE  ReturnedKept' /\ Passed'
  <1>0. Typed /\ ReturnedKept /\ Passed /\ Draining /\ Queued
    BY TypedIs DEF Inv
  <1>1. ASSUME NEW c \in Callers, \A id \in RowIds : id \in RowIds',
               file' = file, rotated' = rotated, mem' = mem, dropped' = dropped,
               \A id \in returned' : id \in returned \/ id \in RowIds',
               call'[c].pc # "draining",
               \A d \in Callers : d # c => call'[d] = call[d]
        PROVE  ReturnedKept' /\ Passed'
    <2>1. \A d \in Callers : call'[d].pc = "draining" =>
               call[d].pc = "draining" /\ call'[d].pos = call[d].pos
      BY <1>1
    <2> QED BY <1>0, <1>1, <2>1, KeptSame, PassedSame
  <1>2. chain' = chain => \A id \in RowIds : id \in RowIds'
    BY DEF RowIds
  <1>3. ASSUME NEW c \in Callers, NEW s \in Sessions, NEW m \in Models, Log(c, s, m)
        PROVE  ReturnedKept' /\ Passed'
    <2>1. /\ file' = file /\ rotated' = rotated /\ mem' = mem /\ dropped' = dropped
          /\ returned' = returned /\ chain' = chain
      BY <1>3 DEF Log, fileVars
    <2>2. /\ call'[c].pc \in {"marker", "record"}
          /\ \A d \in Callers : d # c => call'[d] = call[d]
      BY <1>0, <1>3 DEF Log, Typed
    <2> QED BY <1>1, <1>2, <2>1, <2>2
  <1>4. ASSUME NEW c \in Callers, EmitMarker(c) \/ EmitRecord(c) \/ PrimaryFails(c)
        PROVE  ReturnedKept' /\ Passed'
    <2>1. /\ file' = file /\ rotated' = rotated /\ mem' = mem /\ dropped' = dropped
          /\ \E p \in {"drain", "idle", "fbRecord", "fbMarker"} : Goto(c, p)
      BY <1>4 DEF EmitMarker, EmitRecord, PrimaryFails, fileVars
    <2>2. \/ chain' = chain /\ returned' = returned
          \/ /\ \E k \in {"event", "marker"} : InsertPrimary(c, k)
             /\ \A id \in returned' : id \in returned \/ id = nextId
      BY <1>4 DEF EmitMarker, EmitRecord, PrimaryFails
    <2>3. /\ \A id \in RowIds : id \in RowIds'
          /\ \A id \in returned' : id \in returned \/ id \in RowIds'
      BY <1>0, <1>2, <2>2, InsertGrows
    <2>4. /\ call'[c].pc \in {"drain", "idle", "fbRecord", "fbMarker"}
          /\ \A d \in Callers : d # c => call'[d] = call[d]
      BY <1>0, <2>1, GotoKeeps DEF Phases
    <2> QED BY <1>1, <2>1, <2>3, <2>4
  <1>5. ASSUME NEW c \in Callers, FbBuild(c) PROVE ReturnedKept' /\ Passed'
    <2>1. /\ file' = file /\ rotated' = rotated /\ mem' = mem /\ dropped' = dropped
          /\ returned' = returned /\ chain' = chain
      BY <1>5 DEF FbBuild, fileVars
    <2>2. call'[c].pc \in BuiltPhases /\ \A d \in Callers : d # c => call'[d] = call[d]
      BY <1>0, <1>5, FbBuilds
    <2> QED BY <1>1, <1>2, <2>1, <2>2 DEF BuiltPhases
  <1>6. ASSUME NEW c \in Callers, FbAppend(c) PROVE ReturnedKept' /\ Passed'
    <2>1. ReturnedKept'
      BY <1>0, <1>6, KeptAppend
    <2>2. lock = NoCall /\ LeaveFallback(c) /\ call[c].pc \in FbPhases
      BY <1>6 DEF FbAppend, FbPhases, BuiltPhases
    <2>3. \A d \in Callers : call[d].pc # "draining"
      BY <1>0, <2>2, BoundsAssumption DEF Draining
    <2>4. \E to \in {"fbRecord", "idle"} : Goto(c, to)
      BY <1>0, <2>2, Leaves
    <2>5. /\ call'[c].pc \in {"fbRecord", "idle"}
          /\ \A d \in Callers : d # c => call'[d] = call[d]
      BY <1>0, <2>4, GotoKeeps DEF Phases
    <2>6. Passed'
      BY <2>3, <2>5, PassedVoid
    <2> QED BY <2>1, <2>6
  <1>7. ASSUME NEW c \in Callers, FbRefused(c) PROVE ReturnedKept' /\ Passed'
    <2>1. /\ file' = file /\ rotated' = rotated /\ mem' = mem /\ dropped' = dropped
          /\ returned' = returned /\ chain' = chain
      BY <1>7 DEF FbRefused, fileVars
    <2>2. \E to \in {"fbRecord", "idle"} : Goto(c, to)
      BY <1>0, <1>7, Leaves DEF FbRefused, FbPhases
    <2>3. /\ call'[c].pc \in {"fbRecord", "idle"}
          /\ \A d \in Callers : d # c => call'[d] = call[d]
      BY <1>0, <2>2, GotoKeeps DEF Phases
    <2> QED BY <1>1, <1>2, <2>1, <2>3
  <1>8. ASSUME NEW c \in Callers, DrainBegin(c) PROVE ReturnedKept' /\ Passed'
    <2>1. /\ file' = file /\ rotated' = rotated /\ mem' = mem /\ dropped' = dropped
          /\ returned' = returned /\ chain' = chain /\ lock = NoCall
      BY <1>8 DEF DrainBegin, fileVars
    <2>2. call'[c].pos = 0 /\ \A d \in Callers : d # c => call'[d] = call[d]
      BY <1>0, <1>8 DEF DrainBegin, Typed, Calls
    <2>3. \A d \in Callers : call[d].pc # "draining"
      BY <1>0, <2>1, BoundsAssumption DEF Draining
    <2>4. \A d \in Callers : call'[d].pc = "draining" => d = c
      BY <2>2, <2>3
    <2>5. \A i \in 1..Len(file) : ~(i <= 0)
      <3>1. Len(file) \in Nat
        BY <1>0 DEF Typed
      <3> QED BY <3>1
    <2>6. Passed'
      BY <2>1, <2>2, <2>4, <2>5 DEF Passed
    <2> QED BY <1>0, <1>2, <2>1, <2>6, KeptSame
  <1>9. ASSUME NEW c \in Callers, DrainBatch(c) PROVE ReturnedKept' /\ Passed'
    BY <1>0, <1>9, KeptBatch
  <1>10. ASSUME NEW c \in Callers, DrainEnd(c) PROVE ReturnedKept' /\ Passed'
    <2>1. /\ rotated' = rotated /\ mem' = mem /\ dropped' = dropped /\ returned' = returned
          /\ chain' = chain /\ Goto(c, "record") /\ call[c].pc = "draining" /\ Undrained(c) = <<>>
          /\ file' = file \/ (file' = <<>> /\ fsOk)
      BY <1>10 DEF DrainEnd
    <2>2. call'[c].pc = "record" /\ \A d \in Callers : d # c => call'[d] = call[d]
      BY <1>0, <2>1, GotoKeeps DEF Phases
    <2>3. \A d \in Callers : call[d].pc = "draining" => d = c
      BY <1>0, <2>1 DEF Draining
    <2>4. Passed'
      BY <2>2, <2>3, PassedVoid
    <2>5. CASE file' = file
      BY <1>0, <1>2, <2>1, <2>4, <2>5, KeptSame
    <2>6. CASE file' = <<>> /\ fsOk
      <3> DEFINE p == call[c].pos
      <3>1. mem = <<>> /\ SubSeq(file, p + 1, Len(file)) = <<>>
        BY <2>1, <2>6 DEF Undrained
      <3>2. p \in Nat /\ file \in Seq(LogRecord) /\ Len(file) \in Nat
        BY <1>0, CallFields DEF Typed
      <3>3. Len(file) <= p
        BY <3>1, <3>2, NoneLeft
      <3>4. ASSUME NEW id \in IdsOf(file) PROVE id \in RowIds
        <4>1. PICK i \in 1..Len(file) : file[i].id = id
          BY IdsOfIn
        <4>2. i <= p
          BY <3>2, <3>3
        <4> QED BY <1>0, <2>1, <4>1, <4>2 DEF Passed
      <3>5. ReturnedKept'
        <4> SUFFICES ASSUME NEW id \in returned', id \notin dropped' PROVE id \in KeptIds'
          BY KeptIsNext DEF ReturnedKept
        <4>1. id \in KeptIds
          BY <1>0, <2>1, KeptIs DEF ReturnedKept
        <4>2. KeptIds' = RowIds' \cup IdsOf(file') \cup IdsOf(mem') \cup IdsOf(rotated')
          BY DEF KeptIds, IdsOf
        <4> QED BY <1>2, <2>1, <3>4, <4>1, <4>2 DEF KeptIds
      <3> QED BY <2>4, <3>5
    <2> QED BY <2>1, <2>5, <2>6
  <1>11. ASSUME NEW c \in Callers, DrainFails(c) PROVE ReturnedKept' /\ Passed'
    <2>1. /\ file' = file /\ rotated' = rotated /\ mem' = mem /\ dropped' = dropped
          /\ returned' = returned /\ Goto(c, "record")
          /\ chain' = chain \/ WriteBatch(Batch(c))
      BY <1>11 DEF DrainFails, DrainRaises, fileVars
    <2>2. \A id \in RowIds : id \in RowIds'
      BY <1>0, <1>2, <2>1, BatchIs, BatchGrows
    <2>3. call'[c].pc = "record" /\ \A d \in Callers : d # c => call'[d] = call[d]
      BY <1>0, <2>1, GotoKeeps DEF Phases
    <2> QED BY <1>1, <2>1, <2>2, <2>3
  <1>12. CASE Outage \/ Recover \/ UNCHANGED vars
    <2>1. /\ file' = file /\ rotated' = rotated /\ mem' = mem /\ dropped' = dropped
          /\ returned' = returned /\ chain' = chain /\ call' = call
      BY <1>12 DEF Outage, Recover, vars, fileVars
    <2> QED BY <1>0, <1>2, <2>1, KeptSame, PassedSame
  <1>13. CASE Crash
    <2>1. /\ file' = file /\ rotated' = rotated /\ dropped' = dropped /\ chain' = chain
          /\ \A id \in returned' : id \in returned /\ id \notin IdsOf(mem)
          /\ \A c \in Callers : call'[c].pc = "idle"
      BY <1>13 DEF Crash, fileVars, Idle, IdsOf
    <2>2. ReturnedKept'
      <3> SUFFICES ASSUME NEW id \in returned', id \notin dropped' PROVE id \in KeptIds'
        BY KeptIsNext DEF ReturnedKept
      <3>1. id \in KeptIds /\ id \notin IdsOf(mem)
        BY <1>0, <2>1, KeptIs DEF ReturnedKept
      <3>2. KeptIds' = RowIds' \cup IdsOf(file') \cup IdsOf(mem') \cup IdsOf(rotated')
        BY DEF KeptIds, IdsOf
      <3> QED BY <1>2, <2>1, <3>1, <3>2 DEF KeptIds
    <2>3. Passed'
      BY <2>1, PassedVoid
    <2> QED BY <2>2, <2>3
  <1> QED BY <1>3, <1>4, <1>5, <1>6, <1>7, <1>8, <1>9, <1>10, <1>11, <1>12, <1>13
          DEF Next, CallStep

-----------------------------------------------------------------------------
(* The theorems.                                                           *)

(* The invariant holds initially and is kept by every step.                *)
LEMMA InvInit == Init => Inv
  <1> SUFFICES ASSUME Init PROVE Inv
    OBVIOUS
  <1>1. TypeOK
    BY TypeInit, TypedIs
  <1>2. /\ file = <<>> /\ rotated = <<>> /\ mem = <<>> /\ returned = {} /\ lock = NoCall
        /\ nextId = 1 /\ \A c \in Callers : call[c].pc = "idle"
        /\ \A s \in Sessions : last[s] = None /\ queue[s] = <<>>
    BY DEF Init, Idle
  <1>3. Waiting = {}
    BY <1>2, WaitingIs
  <1>4. Queued /\ Draining
    BY <1>2 DEF Queued, Draining, FbPhases, BuiltPhases
  <1>5. Chained
    BY <1>2, <1>3 DEF Chained, Names, BuiltPhases, None
  <1>6. Sorted
    BY <1>2, OrderedEmpty DEF Sorted
  <1> QED BY <1>1, <1>2, <1>4, <1>5, <1>6 DEF Inv, Passed, ReturnedKept

(* Every step keeps the invariant.                                         *)
LEMMA InvStep == Inv /\ [Next]_vars => Inv'
  BY TypeStep, TypedIsNext, LocksStep, ChainStep, KeptStep DEF Inv

(* For any number of concurrent calls, sessions and events, outages and    *)
(* crashes, whatever the database acknowledges and the file system         *)
(* refuses, a record log() returned is in the primary or waits in the      *)
(* fallback, unless a rotation of the full file gave it up.                *)
THEOREM LogReturnedKept == Spec => []ReturnedKept
  <1>1. Inv => ReturnedKept
    BY DEF Inv
  <1> QED BY InvInit, InvStep, <1>1, PTL DEF Spec

(* The fallback's records are one chain per session: no two of them name   *)
(* the same predecessor, through restarts, rotations, the change to the    *)
(* memory buffer, and drains that forget the cached predecessors.          *)
THEOREM LogFallbackLinear == Spec => []FallbackLinear
  <1>1. Inv => FallbackLinear
    <2> SUFFICES ASSUME Inv, NEW r \in Waiting, NEW q \in Waiting
                 PROVE  /\ r.sess = q.sess /\ r.id # q.id /\ r.prev = q.prev => r.prev = None
                        /\ r.prev # None => r.prev < r.id
      BY DEF FallbackLinear, Waiting
    <2>1. Typed /\ Chained
      BY TypedIs DEF Inv
    <2>2. r.id \in Nat /\ q.id \in Nat /\ r.prev \in Nat /\ q.prev \in Nat
      BY <2>1, WaitingType
    <2>3. r.prev < r.id /\ q.prev < q.id
      BY <2>1 DEF Chained
    <2>4. ASSUME r.sess = q.sess, r.id # q.id, r.prev = q.prev PROVE r.prev = None
      <3>1. CASE r.id < q.id
        <4>1. q.prev = None \/ r.id <= q.prev
          BY <2>1, <2>4, <3>1 DEF Chained
        <4> QED BY <2>2, <2>3, <2>4, <4>1
      <3>2. CASE q.id < r.id
        <4>1. r.prev = None \/ q.id <= r.prev
          BY <2>1, <2>4, <3>2 DEF Chained
        <4> QED BY <2>2, <2>3, <2>4, <4>1
      <3> QED BY <2>2, <2>4, <3>1, <3>2
    <2> QED BY <2>3, <2>4
  <1> QED BY InvInit, InvStep, <1>1, PTL DEF Spec

(* The global lock is always held by a call that drains, and each session  *)
(* lock is queued for by exactly the calls inside the fallback: no way out *)
(* of the fallback or of a drain keeps a lock.                             *)
THEOREM LogLocksOwned == Spec => []LocksOwned
  <1>1. Inv => LocksOwned
    <2> SUFFICES ASSUME Inv PROVE LocksOwned
      OBVIOUS
    <2>1. Typed /\ Queued /\ Draining /\ TypeOK
      BY TypedIs DEF Inv
    <2>2. lock # NoCall => call[lock].pc = "draining"
      BY <2>1 DEF Draining
    <2>3. ASSUME NEW s \in Sessions, NEW c \in Callers
          PROVE  (call[c].sess = s /\ call[c].pc \in FbPhases)
                   <=> Cardinality({i \in 1..Len(queue[s]) : queue[s][i] = c}) = 1
      BY <2>1, QueueCounts
    <2>4. FbPhases = {"fbMarker", "fbRecord", "fbMarkerBuilt", "fbRecordBuilt"}
      BY DEF FbPhases, BuiltPhases
    <2> QED BY <2>1, <2>2, <2>3, <2>4 DEF LocksOwned
  <1> QED BY InvInit, InvStep, <1>1, PTL DEF Spec

-----------------------------------------------------------------------------
(***************************************************************************)
(* The in-memory stores and the batching writer. Their specification is    *)
(* MemSpec; they share the sessions and ids with the degraded log, and no  *)
(* variable.                                                               *)
(*                                                                         *)
(* The caps hold because a store, the buffer and the batches never hold an *)
(* id twice and an id is in one place of the writer only (MemStocked,      *)
(* MemPending, MemApart). A step loses at most the rows the ring drops,    *)
(* and counts each of them (MemCounted). The rows of a session are chained *)
(* because a call between its read and its append holds the session lock   *)
(* alone, and the predecessor it read is still the last row (MemLinking);  *)
(* a flush lands unchained rows only, which no bucket shows.               *)
(***************************************************************************)

(* No id stands twice in q, and all of them are below n.                   *)
Distinct(q) == \A i, j \in 1..Len(q) : q[i].id = q[j].id => i = j
Below(q, n) == \A i \in 1..Len(q) : q[i].id < n
Loose(q)    == \A i \in 1..Len(q) : q[i].sess = Unchained

(* The ids of some rows.                                                   *)
LEMMA IdsAre ==
    ASSUME NEW q
    PROVE  \A id : id \in IdsOf(q) <=> \E i \in 1..Len(q) : q[i].id = id
  BY DEF IdsOf

(* Rows without repetition have as many ids as rows, and no rows have more.*)
LEMMA IdsCount ==
    ASSUME NEW q \in Seq(Row)
    PROVE  /\ IsFiniteSet(IdsOf(q)) /\ Cardinality(IdsOf(q)) \in Nat
           /\ Cardinality(IdsOf(q)) <= Len(q)
           /\ Distinct(q) => Cardinality(IdsOf(q)) = Len(q)
  <1> DEFINE n == Len(q)
             g == [i \in 1..n |-> q[i].id]
  <1>1. n \in Nat
    OBVIOUS
  <1>2. IsFiniteSet(1..n) /\ Cardinality(1..n) = n
    BY <1>1, FS_Interval
  <1>3. g \in Surjection(1..n, IdsOf(q))
    <2>1. g \in [1..n -> IdsOf(q)]
      BY IdsAre
    <2>2. \A id \in IdsOf(q) : \E i \in 1..n : g[i] = id
      BY IdsAre
    <2> QED BY <2>1, <2>2 DEF Surjection
  <1>4. IsFiniteSet(IdsOf(q)) /\ Cardinality(IdsOf(q)) <= n
    BY <1>2, <1>3, FS_Surjection
  <1>5. ASSUME Distinct(q) PROVE Cardinality(IdsOf(q)) = n
    <2>1. g \in Injection(1..n, IdsOf(q))
      <3>1. g \in [1..n -> IdsOf(q)]
        BY IdsAre
      <3>2. \A i, j \in 1..n : g[i] = g[j] => i = j
        BY <1>5 DEF Distinct
      <3>3. DOMAIN g = 1..n
        OBVIOUS
      <3> HIDE DEF g
      <3> QED BY <3>1, <3>2, <3>3 DEF Injection, IsInjective
    <2> QED BY <1>2, <1>3, <2>1, FS_Surjection
  <1>6. Cardinality(IdsOf(q)) \in Nat
    BY <1>4, FS_CardinalityType
  <1> QED BY <1>4, <1>5, <1>6

(* The rows of a batch that a store misses: rows of the batch, in its      *)
(* order, that the store has no row for; and all of them.                  *)
LEMMA MissingRows ==
    ASSUME NEW q \in Seq(Row), NEW batch \in Seq(Row)
    PROVE  \E t \in Seq(Row) :
             /\ t = Missing(q, batch)
             /\ \A k \in 1..Len(t) : \E i \in 1..Len(batch) : t[k] = batch[i]
             /\ \A k \in 1..Len(t) : t[k].id \notin IdsOf(q)
             /\ \A i \in 1..Len(batch) : batch[i].id \in IdsOf(q) \/ batch[i].id \in IdsOf(t)
             /\ Distinct(batch) => Distinct(t)
  <1> DEFINE P == {i \in 1..Len(batch) : batch[i].id \notin IdsOf(q)}
  <1>1. \A i : i \in P <=> i \in 1..Len(batch) /\ batch[i].id \notin IdsOf(q)
    OBVIOUS
  <1>2. P \in Positions(Len(batch)) /\ Len(batch) \in Nat
    BY DEF Positions
  <1>3. Missing(q, batch) = RowsAt(batch, P)
    BY DEF Missing
  <1> HIDE DEF P
  <1>4. /\ RowsAt(batch, P) \in Seq(Row) /\ Len(RowsAt(batch, P)) = Cardinality(P)
        /\ \A k \in 1..Cardinality(P) :
             Nth(P, k) \in P /\ RowsAt(batch, P)[k] = batch[Nth(P, k)]
        /\ \A i \in P : \E k \in 1..Cardinality(P) : RowsAt(batch, P)[k] = batch[i]
    BY <1>2, RowsAtRows, Zenon
  <1>5. PICK t \in Seq(Row) :
          /\ t = RowsAt(batch, P) /\ Len(t) = Cardinality(P)
          /\ \A k \in 1..Cardinality(P) : Nth(P, k) \in P /\ t[k] = batch[Nth(P, k)]
          /\ \A i \in P : \E k \in 1..Cardinality(P) : t[k] = batch[i]
    BY <1>4, Zenon
  <1>6. /\ Len(t) = Cardinality(P)
        /\ \A k \in 1..Len(t) : Nth(P, k) \in P /\ t[k] = batch[Nth(P, k)]
        /\ \A i \in P : \E k \in 1..Len(t) : t[k] = batch[i]
    BY <1>5, Zenon
  <1>7. \A k \in 1..Len(t) : \E i \in 1..Len(batch) : t[k] = batch[i]
    BY <1>1, <1>6
  <1>8. \A k \in 1..Len(t) : t[k].id \notin IdsOf(q)
    BY <1>1, <1>6
  <1>9. ASSUME NEW i \in 1..Len(batch), batch[i].id \notin IdsOf(q)
        PROVE  batch[i].id \in IdsOf(t)
    <2>1. PICK k \in 1..Len(t) : t[k] = batch[i]
      BY <1>1, <1>6, <1>9
    <2> QED BY <2>1, IdsAre
  <1>10. ASSUME Distinct(batch), NEW k \in 1..Len(t), NEW l \in 1..Len(t), t[k].id = t[l].id
         PROVE  k = l
    <2>1. Nth(P, k) \in 1..Len(batch) /\ Nth(P, l) \in 1..Len(batch)
      BY <1>1, <1>6, <1>10
    <2>2. batch[Nth(P, k)].id = batch[Nth(P, l)].id
      BY <1>6, <1>10
    <2>3. Nth(P, k) = Nth(P, l)
      BY <1>10, <2>1, <2>2 DEF Distinct
    <2> QED BY <1>2, <1>6, <1>10, <2>3, NthInjective
  <1>11. Distinct(batch) => Distinct(t)
    BY <1>10 DEF Distinct
  <1>12. t = Missing(q, batch)
    BY <1>3, <1>5
  <1> QED BY <1>7, <1>8, <1>9, <1>11, <1>12, Zenon

(* t is the store q and what it misses of a batch: every row is one of the *)
(* store or of the batch, every id is there, and none of them twice.       *)
IsAll(t, q, batch) ==
    /\ Distinct(t)
    /\ \A i \in 1..Len(q) : i \in 1..Len(t) /\ t[i] = q[i]
    /\ \A i \in 1..Len(t) : i \in 1..Len(q) \/ \E j \in 1..Len(batch) : t[i] = batch[j]
    /\ \A id : id \in IdsOf(q) \/ id \in IdsOf(batch) => id \in IdsOf(t)

(* That is what write_batch adds to.                                       *)
LEMMA AllRows ==
    ASSUME NEW q \in Seq(Row), NEW batch \in Seq(Row), Distinct(q), Distinct(batch)
    PROVE  \E m, t \in Seq(Row) :
             /\ m = Missing(q, batch) /\ t = q \o m
             /\ Len(t) = Len(q) + Len(m) /\ IsAll(t, q, batch)
  <1>1. PICK m \in Seq(Row) :
          /\ m = Missing(q, batch)
          /\ \A k \in 1..Len(m) : \E i \in 1..Len(batch) : m[k] = batch[i]
          /\ \A k \in 1..Len(m) : m[k].id \notin IdsOf(q)
          /\ \A i \in 1..Len(batch) : batch[i].id \in IdsOf(q) \/ batch[i].id \in IdsOf(m)
          /\ Distinct(batch) => Distinct(m)
    BY MissingRows, Zenon
  <1>2. /\ \A k \in 1..Len(m) : \E i \in 1..Len(batch) : m[k] = batch[i]
        /\ \A k \in 1..Len(m) : m[k].id \notin IdsOf(q)
        /\ \A i \in 1..Len(batch) : batch[i].id \in IdsOf(q) \/ batch[i].id \in IdsOf(m)
        /\ Distinct(m)
    BY <1>1, Zenon
  <1>3. PICK t \in Seq(Row) : t = q \o m /\ IsJoin(t, q, m)
    BY Joined, Zenon
  <1>4. /\ \A i \in 1..Len(q) : i \in 1..Len(t) /\ t[i] = q[i]
        /\ \A i \in 1..Len(m) : Len(q) + i \in 1..Len(t) /\ t[Len(q) + i] = m[i]
        /\ \A i \in 1..Len(t) : i \in 1..Len(q) \/ \E j \in 1..Len(m) : i = Len(q) + j
        /\ Len(t) = Len(q) + Len(m)
    BY <1>3, Zenon DEF IsJoin
  <1>5. \A i \in 1..Len(t) : i \in 1..Len(q) \/ \E j \in 1..Len(batch) : t[i] = batch[j]
    BY <1>2, <1>4
  <1>6. /\ \A id \in IdsOf(q) : id \in IdsOf(t)
        /\ \A id \in IdsOf(m) : id \in IdsOf(t)
        /\ \A id \in IdsOf(batch) : id \in IdsOf(q) \/ id \in IdsOf(m)
    <2>1. ASSUME NEW id \in IdsOf(q) PROVE id \in IdsOf(t)
      <3>1. PICK k \in 1..Len(q) : q[k].id = id
        BY IdsAre
      <3>2. k \in 1..Len(t) /\ t[k].id = id
        BY <1>4, <3>1
      <3> QED BY <3>2, IdsAre
    <2>2. ASSUME NEW id \in IdsOf(m) PROVE id \in IdsOf(t)
      <3>1. PICK k \in 1..Len(m) : m[k].id = id
        BY IdsAre
      <3>2. Len(q) + k \in 1..Len(t) /\ t[Len(q) + k].id = id
        BY <1>4, <3>1
      <3> QED BY <3>2, IdsAre
    <2>3. ASSUME NEW id \in IdsOf(batch) PROVE id \in IdsOf(q) \/ id \in IdsOf(m)
      BY <1>2, IdsAre
    <2> QED BY <2>1, <2>2, <2>3
  <1>7. ASSUME NEW i \in 1..Len(t), NEW j \in 1..Len(t), t[i].id = t[j].id
        PROVE  i = j
    <2>1. \A k \in 1..Len(q) : t[k].id \in IdsOf(q)
      BY <1>4, IdsAre
    <2>2. \A k \in 1..Len(m) : t[Len(q) + k].id \notin IdsOf(q)
      BY <1>2, <1>4
    <2>3. CASE i \in 1..Len(q) /\ j \in 1..Len(q)
      BY <1>4, <1>7, <2>3 DEF Distinct
    <2>4. CASE i \notin 1..Len(q) /\ j \notin 1..Len(q)
      <3>1. PICK k \in 1..Len(m) : i = Len(q) + k
        BY <1>4, <2>4
      <3>2. PICK l \in 1..Len(m) : j = Len(q) + l
        BY <1>4, <2>4
      <3>3. m[k].id = m[l].id
        BY <1>4, <1>7, <3>1, <3>2
      <3> QED BY <1>2, <3>1, <3>2, <3>3 DEF Distinct
    <2>5. CASE i \in 1..Len(q) /\ j \notin 1..Len(q)
      <3>1. PICK k \in 1..Len(m) : j = Len(q) + k
        BY <1>4, <2>5
      <3>2. t[j].id \notin IdsOf(q) /\ t[i].id \in IdsOf(q)
        BY <2>1, <2>2, <2>5, <3>1
      <3> QED BY <1>7, <3>2
    <2>6. CASE i \notin 1..Len(q) /\ j \in 1..Len(q)
      <3>1. PICK k \in 1..Len(m) : i = Len(q) + k
        BY <1>4, <2>6
      <3>2. t[i].id \notin IdsOf(q) /\ t[j].id \in IdsOf(q)
        BY <2>1, <2>2, <2>6, <3>1
      <3> QED BY <1>7, <3>2
    <2> QED BY <2>3, <2>4, <2>5, <2>6
  <1>8. Distinct(t)
    BY <1>7 DEF Distinct
  <1>9. \A id : id \in IdsOf(q) \/ id \in IdsOf(batch) => id \in IdsOf(t)
    BY <1>6, Zenon
  <1>10. IsAll(t, q, batch)
    BY <1>4, <1>5, <1>8, <1>9, Zenon DEF IsAll
  <1>11. m = Missing(q, batch) /\ t = q \o m /\ Len(t) = Len(q) + Len(m)
    BY <1>1, <1>3, <1>4
  <1> QED BY <1>10, <1>11, Zenon

(* r holds rows of q and of a batch, none twice.                           *)
Wrote(r, q, batch) ==
    /\ Distinct(r)
    /\ \A i \in 1..Len(r) : \/ \E j \in 1..Len(q) : r[i] = q[j]
                            \/ \E j \in 1..Len(batch) : r[i] = batch[j]

(* r is q with rows of a batch behind it.                                  *)
Longer(r, q, batch) ==
    /\ \A i \in 1..Len(q) : i \in 1..Len(r) /\ r[i] = q[i]
    /\ \A i \in 1..Len(r) : i \in 1..Len(q) \/ \E j \in 1..Len(batch) : r[i] = batch[j]

(* Every id of q is one of r.                                              *)
Holds(r, q) == \A id \in IdsOf(q) : id \in IdsOf(r)

(* A store that grows holds what it held.                                  *)
LEMMA LongerHolds ==
    ASSUME NEW r, NEW q, NEW batch, Longer(r, q, batch)
    PROVE  Holds(r, q)
  <1> SUFFICES ASSUME NEW id \in IdsOf(q) PROVE id \in IdsOf(r)
    BY DEF Holds
  <1>1. PICK i \in 1..Len(q) : q[i].id = id
    BY IdsAre
  <1>2. i \in 1..Len(r) /\ r[i].id = id
    BY <1>1 DEF Longer
  <1> QED BY <1>2, IdsAre

(* A store that refuses at its cap never passes it, and what it has stays  *)
(* where it is; a batch that fits is there after the write.                *)
LEMMA LandedRows ==
    ASSUME NEW q \in Seq(Row), NEW batch \in Seq(Row), Distinct(q), Distinct(batch),
           NEW max \in Nat, Len(q) <= max
    PROVE  \E r \in Seq(Row) :
             /\ r = Landed(q, batch, max) /\ Len(r) <= max
             /\ Wrote(r, q, batch) /\ Longer(r, q, batch) /\ Holds(r, q)
             /\ Fits(q, batch, max) => Holds(r, batch)
  <1>1. PICK m, t \in Seq(Row) :
          /\ m = Missing(q, batch) /\ t = q \o m
          /\ Len(t) = Len(q) + Len(m) /\ IsAll(t, q, batch)
    BY AllRows, Zenon
  <1>2. /\ Distinct(t) /\ Len(t) = Len(q) + Len(m) /\ Len(q) \in Nat /\ Len(m) \in Nat
        /\ \A i \in 1..Len(q) : i \in 1..Len(t) /\ t[i] = q[i]
        /\ \A i \in 1..Len(t) : i \in 1..Len(q) \/ \E j \in 1..Len(batch) : t[i] = batch[j]
        /\ Holds(t, batch)
    <2>1. Len(q) \in Nat /\ Len(m) \in Nat
      OBVIOUS
    <2> QED BY <1>1, <2>1, Zenon DEF IsAll, Holds
  <1> DEFINE room == IF Len(q) >= max THEN 0 ELSE max - Len(q)
             k == IF Len(m) <= room THEN Len(m) ELSE room
  <1>3. /\ k \in Nat /\ k <= Len(m) /\ Len(q) + k <= max
        /\ Len(q) + Len(m) <= max => k = Len(m)
    BY <1>2
  <1>4. Landed(q, batch, max) = q \o SubSeq(m, 1, k)
    BY <1>1 DEF Landed
  <1>5. Fits(q, batch, max) => k = Len(m)
    BY <1>1, <1>3 DEF Fits
  <1> HIDE DEF k
  <1>6a. PICK p \in Seq(Row) : p = SubSeq(m, 1, k) /\ IsPrefix(p, m, k)
    BY <1>3, Prefix, Zenon
  <1>6. Len(p) = k /\ \A i \in 1..k : i \in 1..Len(m) /\ p[i] = m[i]
    BY <1>6a, Zenon DEF IsPrefix
  <1>7. PICK r \in Seq(Row) : r = q \o p /\ IsJoin(r, q, p)
    BY Joined, Zenon
  <1>8. PICK u \in Seq(Row) : u = q \o m /\ IsJoin(u, q, m)
    BY Joined, Zenon
  <1>9. u = t
    BY <1>1, <1>8, Zenon
  <1>10. /\ Len(r) = Len(q) + k
         /\ \A i \in 1..Len(q) : i \in 1..Len(r) /\ r[i] = q[i]
         /\ \A i \in 1..k : Len(q) + i \in 1..Len(r) /\ r[Len(q) + i] = p[i]
         /\ \A i \in 1..Len(r) : i \in 1..Len(q) \/ \E j \in 1..k : i = Len(q) + j
    BY <1>6, <1>7, Zenon DEF IsJoin
  <1>11. \A i \in 1..Len(m) : t[Len(q) + i] = m[i]
    BY <1>8, <1>9, Zenon DEF IsJoin
  <1>12. ASSUME NEW i \in 1..Len(r) PROVE i \in 1..Len(t) /\ r[i] = t[i]
    <2>1. CASE i \in 1..Len(q)
      BY <1>2, <1>10, <2>1
    <2>2. CASE i \notin 1..Len(q)
      <3>1. PICK j \in 1..k : i = Len(q) + j
        BY <1>10, <2>2
      <3>2. j \in 1..Len(m) /\ p[j] = m[j]
        BY <1>6
      <3>3. r[i] = m[j] /\ t[i] = m[j]
        BY <1>10, <1>11, <3>1, <3>2
      <3>4. i \in 1..Len(t)
        BY <1>2, <3>1, <3>2
      <3> QED BY <3>3, <3>4
    <2> QED BY <2>1, <2>2
  <1>13. Distinct(r)
    BY <1>2, <1>12 DEF Distinct
  <1>14. Longer(r, q, batch)
    BY <1>2, <1>10, <1>12 DEF Longer
  <1>15. Wrote(r, q, batch)
    BY <1>10, <1>13, <1>14 DEF Wrote, Longer
  <1>16. Holds(r, q)
    BY <1>14, LongerHolds
  <1>17. ASSUME Fits(q, batch, max) PROVE Holds(r, batch)
    <2>1. Len(r) = Len(t)
      BY <1>2, <1>5, <1>10, <1>17
    <2>2. ASSUME NEW id \in IdsOf(t) PROVE id \in IdsOf(r)
      <3>1. PICK i \in 1..Len(t) : t[i].id = id
        BY IdsAre
      <3>2. i \in 1..Len(r) /\ r[i].id = id
        BY <1>12, <2>1, <3>1
      <3> QED BY <3>2, IdsAre
    <2> QED BY <1>2, <2>2 DEF Holds
  <1>18. Len(r) <= max
    BY <1>3, <1>10
  <1>19. r = Landed(q, batch, max)
    BY <1>4, <1>6a, <1>7, Zenon
  <1> QED BY <1>13, <1>14, <1>15, <1>16, <1>17, <1>18, <1>19, Zenon

(* A ring never passes its cap either, and what falls out of it of the     *)
(* store and the batch is no more than it counts.                          *)
LEMMA RingRows ==
    ASSUME NEW q \in Seq(Row), NEW batch \in Seq(Row), Distinct(q), Distinct(batch),
           NEW max \in Nat
    PROVE  /\ EvictedBy(q, batch, max) \in Nat
           /\ \E r \in Seq(Row) :
                /\ r = Ring(q, batch, max) /\ Len(r) <= max /\ Wrote(r, q, batch)
                /\ \E gone \in Seq(Row) :
                     /\ Len(gone) = EvictedBy(q, batch, max)
                     /\ \A id : id \in IdsOf(q) \/ id \in IdsOf(batch)
                                  => id \in IdsOf(r) \/ id \in IdsOf(gone)
  <1>1. PICK m, t \in Seq(Row) :
          /\ m = Missing(q, batch) /\ t = q \o m
          /\ Len(t) = Len(q) + Len(m) /\ IsAll(t, q, batch)
    BY AllRows, Zenon
  <1>2. /\ Distinct(t) /\ Len(t) = Len(q) + Len(m) /\ Len(t) \in Nat
        /\ \A i \in 1..Len(q) : t[i] = q[i]
        /\ \A i \in 1..Len(t) : i \in 1..Len(q) \/ \E j \in 1..Len(batch) : t[i] = batch[j]
        /\ \A id : id \in IdsOf(q) \/ id \in IdsOf(batch) => id \in IdsOf(t)
    <2>1. Len(t) \in Nat
      OBVIOUS
    <2> QED BY <1>1, <2>1, Zenon DEF IsAll
  <1> DEFINE k == IF Len(t) <= max THEN 0 ELSE Len(t) - max
  <1>3. k \in Nat /\ k <= Len(t) /\ Len(t) - k <= max
    BY <1>2
  <1>5. Ring(q, batch, max) = SubSeq(t, k + 1, Len(t))
    <2>1. Ring(q, batch, max) =
            IF Len(t) <= max THEN t ELSE SubSeq(t, Len(t) - max + 1, Len(t))
      BY <1>1 DEF Ring
    <2>2. CASE Len(t) <= max
      <3>1. k = 0
        BY <2>2
      <3>2. SubSeq(t, 1, Len(t)) = t
        OBVIOUS
      <3> QED BY <2>1, <2>2, <3>1, <3>2
    <2>3. CASE ~(Len(t) <= max)
      BY <2>1, <2>3
    <2> QED BY <2>2, <2>3
  <1> HIDE DEF k
  <1>6. PICK r \in Seq(Row) : r = SubSeq(t, k + 1, Len(t)) /\ IsSuffix(r, t, k)
    BY <1>3, SuffixOf, Zenon
  <1>7. /\ Len(r) = Len(t) - k /\ \A i \in 1..Len(r) : k + i \in 1..Len(t) /\ r[i] = t[k + i]
        /\ \A j \in 1..Len(t) : j > k => \E i \in 1..Len(r) : j = k + i
    BY <1>6, Zenon DEF IsSuffix
  <1>8. PICK gone \in Seq(Row) : gone = SubSeq(t, 1, k) /\ IsPrefix(gone, t, k)
    BY <1>3, Prefix, Zenon
  <1>9. Len(gone) = k /\ \A i \in 1..k : gone[i] = t[i]
    BY <1>8, Zenon DEF IsPrefix
  <1>10. r = Ring(q, batch, max)
    BY <1>5, <1>6
  <1>11. EvictedBy(q, batch, max) = k
    <2>1. EvictedBy(q, batch, max) = Len(q) + Len(m) - Len(r)
      BY <1>1, <1>10 DEF EvictedBy
    <2> QED BY <1>2, <1>3, <1>7, <2>1
  <1>12. Len(r) <= max
    BY <1>3, <1>7
  <1>13. Distinct(r)
    <2> SUFFICES ASSUME NEW i \in 1..Len(r), NEW j \in 1..Len(r), r[i].id = r[j].id PROVE i = j
      BY DEF Distinct
    <2>1. k + i = k + j
      BY <1>2, <1>7 DEF Distinct
    <2> QED BY <1>3, <2>1
  <1>14. ASSUME NEW i \in 1..Len(r)
         PROVE  \/ \E j \in 1..Len(q) : r[i] = q[j]
                \/ \E j \in 1..Len(batch) : r[i] = batch[j]
    <2>1. PICK h \in 1..Len(t) : h = k + i
      BY <1>7
    <2>2. r[i] = t[h]
      BY <1>7, <2>1
    <2>3. h \in 1..Len(q) \/ \E j \in 1..Len(batch) : t[h] = batch[j]
      BY <1>2
    <2> QED BY <1>2, <2>2, <2>3
  <1>15. Wrote(r, q, batch)
    BY <1>13, <1>14 DEF Wrote
  <1>16. ASSUME NEW id, id \in IdsOf(q) \/ id \in IdsOf(batch)
         PROVE  id \in IdsOf(r) \/ id \in IdsOf(gone)
    <2>1. PICK i \in 1..Len(t) : t[i].id = id
      BY <1>2, <1>16, IdsAre
    <2>2. CASE i <= k
      <3>1. i \in 1..Len(gone) /\ gone[i].id = id
        BY <1>3, <1>9, <2>1, <2>2
      <3> QED BY <3>1, IdsAre
    <2>3. CASE ~(i <= k)
      <3>1. PICK j \in 1..Len(r) : i = k + j
        BY <1>2, <1>3, <1>7, <2>3
      <3>2. r[j].id = id
        BY <1>7, <2>1, <3>1
      <3> QED BY <3>2, IdsAre
    <2> QED BY <2>2, <2>3
  <1>17. \A id : id \in IdsOf(q) \/ id \in IdsOf(batch) => id \in IdsOf(r) \/ id \in IdsOf(gone)
    BY <1>16
  <1>18. EvictedBy(q, batch, max) \in Nat /\ Len(gone) = EvictedBy(q, batch, max)
    BY <1>3, <1>9, <1>11
  <1> QED BY <1>10, <1>12, <1>15, <1>17, <1>18, Zenon

(* What the stores and the writer assume of their constants.               *)
LEMMA MemoryConstants ==
    /\ Unchained \notin Sessions /\ Loop # Closer /\ {Loop, Closer} \cap Flushers = {}
    /\ Ids \subseteq Nat \ {0}
    /\ {MaxPrimary, MaxFallback, BufferMax} \subseteq Nat \ {0}
  BY IdsAssumption, MemoryAssumption

(* The types of the variables, the calls and the flushes as functions.     *)
MemCalls == [pc : {"idle", "primary", "degraded", "fallback"},
             sess : Sessions \cup {Unchained}, prev : Ids \cup {None}]
(* ... and of a run of _flush_once.                                        *)
MemFlushes == [pc : {"idle", "primary", "fallback", "requeue"}, batch : Seq(Row)]

(* The types of the variables.                                             *)
MemTyped ==
    /\ onFull \in {"evict", "raise"} /\ closing \in {"open", "closed", "done"}
    /\ primary \in Seq(Row) /\ fallback \in Seq(Row) /\ buffer \in Seq(Row)
    /\ evicted \in Nat /\ nextEvent \in Nat
    /\ logging \in [Loggers -> MemCalls] /\ flush \in [FlushRuns -> MemFlushes]
    /\ logged \in SUBSET Ids /\ accepted \in SUBSET Ids
    /\ cut \in SUBSET Ids /\ torn \in SUBSET Ids

(* A store holds no more than it may, no id twice, and only drawn ids; so  *)
(* does the buffer, whose rows and those of the batches are unchained.     *)
Stock(q, max) == Len(q) <= max /\ Distinct(q) /\ Below(q, nextEvent)
(* ... of the buffer and of a batch,                                       *)
Pending(q) == Distinct(q) /\ Below(q, nextEvent) /\ Loose(q)

(* The two stores ...                                                      *)
MemStocked == Stock(primary, MaxPrimary) /\ Stock(fallback, MaxFallback)

(* ... the buffer and the batches.                                         *)
MemPending ==
    /\ Len(buffer) <= BufferMax /\ Pending(buffer)
    /\ \A f \in FlushRuns : Pending(flush[f].batch)

(* An event is in the buffer or in one batch, never in two of them; a      *)
(* worker that does not flush holds none.                                  *)
Apart(a, b) == \A i \in 1..Len(a), j \in 1..Len(b) : a[i].id # b[j].id

(* That holds for the buffer and every two batches.                        *)
MemApart ==
    /\ \A f \in FlushRuns : Apart(flush[f].batch, buffer)
    /\ \A f, g \in FlushRuns : f # g => Apart(flush[f].batch, flush[g].batch)
    /\ \A f \in FlushRuns : flush[f].pc = "idle" => flush[f].batch = <<>>

(* A call that holds the lock of its session in the primary holds it       *)
(* alone, and the predecessor it read is the last row of the session.      *)
MemLinking ==
    \A c \in Loggers :
        /\ logging[c].pc # "idle" => logging[c].sess \in Sessions
        /\ logging[c].pc = "primary" =>
             /\ logging[c].prev = LastIn(primary, logging[c].sess)
             /\ \A d \in Loggers :
                  logging[d].pc = "primary" /\ logging[d].sess = logging[c].sess => d = c

(* The losses are counted, and only drawn ids are promised.                *)
MemCounted ==
    /\ LossesCounted
    /\ \A id \in logged : id < nextEvent
    /\ \A id \in accepted : id < nextEvent

(* The inductive invariant of the stores and the writer.                   *)
MemInv == MemTyped /\ MemStocked /\ MemPending /\ MemApart /\ MemLinking /\ MemCounted

(* The rows of a session, without their session.                           *)
OfSess(rows, s) == {i \in 1..Len(rows) : rows[i].sess = s}
LogRow == [id : Ids, prev : Ids \cup {None}]
Shown(own) == [i \in 1..Len(own) |-> [id |-> own[i].id, prev |-> own[i].prev]]

(* A bucket is the selection of the rows of its session, shown.            *)
LEMMA BucketIs ==
    ASSUME NEW rows \in Seq(Row), NEW s
    PROVE  /\ Bucket(rows, s) = Shown(RowsAt(rows, OfSess(rows, s)))
           /\ OfSess(rows, s) \in Positions(Len(rows)) /\ Len(rows) \in Nat
           /\ RowsAt(rows, OfSess(rows, s)) \in Seq(Row)
  <1>1. Bucket(rows, s) = Shown(RowsAt(rows, OfSess(rows, s)))
    BY DEF Bucket, Shown, OfSess
  <1>2. OfSess(rows, s) \in Positions(Len(rows)) /\ Len(rows) \in Nat
    BY DEF OfSess, Positions
  <1>3. RowsAt(rows, OfSess(rows, s)) \in Seq(Row)
    BY <1>2, RowsAtRows, Zenon
  <1> QED BY <1>1, <1>2, <1>3

(* Shown rows.                                                             *)
LEMMA ShownRows ==
    ASSUME NEW own \in Seq(Row)
    PROVE  /\ Shown(own) \in Seq(LogRow) /\ Len(Shown(own)) = Len(own)
           /\ \A i \in 1..Len(own) :
                Shown(own)[i] = [id |-> own[i].id, prev |-> own[i].prev]
  <1>1. ASSUME NEW i \in 1..Len(own)
        PROVE  [id |-> own[i].id, prev |-> own[i].prev] \in LogRow
    <2>1. own[i] \in Row
      OBVIOUS
    <2> QED BY <2>1 DEF Row, LogRow
  <1>2. Len(own) \in Nat
    OBVIOUS
  <1>3. Shown(own) \in [1..Len(own) -> LogRow]
    BY <1>1 DEF Shown
  <1>4. Shown(own) \in Seq(LogRow) /\ Len(Shown(own)) = Len(own)
    BY <1>2, <1>3
  <1> QED BY <1>4 DEF Shown

(* A bucket grows by the shown row.                                        *)
LEMMA ShownAppend ==
    ASSUME NEW own \in Seq(Row), NEW x \in Row
    PROVE  Shown(Append(own, x)) = Append(Shown(own), [id |-> x.id, prev |-> x.prev])
  <1> DEFINE y == [id |-> x.id, prev |-> x.prev]
  <1>0. y \in LogRow
    BY DEF Row, LogRow
  <1>1. /\ Append(own, x) \in Seq(Row) /\ Len(own) \in Nat
        /\ Len(Append(own, x)) = Len(own) + 1 /\ Append(own, x)[Len(own) + 1] = x
        /\ \A i \in 1..Len(own) : Append(own, x)[i] = own[i]
    OBVIOUS
  <1>2. PICK z \in Seq(Row) :
          /\ z = Append(own, x) /\ Len(z) = Len(own) + 1 /\ z[Len(own) + 1] = x
          /\ \A i \in 1..Len(own) : z[i] = own[i]
    BY <1>1, Zenon
  <1>3. Len(z) = Len(own) + 1 /\ z[Len(own) + 1] = x /\ \A i \in 1..Len(own) : z[i] = own[i]
    BY <1>2
  <1>4. /\ Shown(own) \in Seq(LogRow) /\ Len(Shown(own)) = Len(own)
        /\ \A i \in 1..Len(own) : Shown(own)[i] = [id |-> own[i].id, prev |-> own[i].prev]
    BY ShownRows, Zenon
  <1>5. /\ Shown(z) \in Seq(LogRow) /\ Len(Shown(z)) = Len(z)
        /\ \A i \in 1..Len(z) : Shown(z)[i] = [id |-> z[i].id, prev |-> z[i].prev]
    BY ShownRows, Zenon
  <1> HIDE DEF y
  <1>6. PICK w \in Seq(LogRow) : w = Shown(own)
    BY <1>4, Zenon
  <1>7. PICK v \in Seq(LogRow) : v = Shown(z)
    BY <1>5, Zenon
  <1>8. /\ Append(w, y) \in Seq(LogRow) /\ Len(Append(w, y)) = Len(w) + 1
        /\ Append(w, y)[Len(w) + 1] = y /\ \A i \in 1..Len(w) : Append(w, y)[i] = w[i]
    BY <1>0
  <1>9. Len(w) = Len(own) /\ Len(v) = Len(own) + 1
    BY <1>3, <1>4, <1>5, <1>6, <1>7
  <1>10. \A i \in 1..Len(own) : v[i] = w[i]
    <2>1. \A i \in 1..Len(own) : i \in 1..Len(z)
      BY <1>1, <1>3
    <2> QED BY <1>3, <1>4, <1>5, <1>6, <1>7, <2>1
  <1>11. v[Len(own) + 1] = y
    <2>1. Len(own) + 1 \in 1..Len(z)
      BY <1>1, <1>3
    <2> QED BY <1>3, <1>5, <1>7, <2>1 DEF y
  <1>12. \A i \in 1..Len(v) : v[i] = Append(w, y)[i]
    BY <1>1, <1>8, <1>9, <1>10, <1>11
  <1>13. v = Append(w, y)
    BY <1>8, <1>9, <1>12
  <1> QED BY <1>2, <1>6, <1>7, <1>13, Zenon DEF y

(* A row appended to a store is appended to the bucket of its session, and *)
(* leaves the others alone.                                                *)
LEMMA BucketAppend ==
    ASSUME NEW rows \in Seq(Row), NEW x \in Row, NEW s
    PROVE  Bucket(Append(rows, x), s) =
             IF x.sess = s THEN Append(Bucket(rows, s), [id |-> x.id, prev |-> x.prev])
                           ELSE Bucket(rows, s)
  <1>1. /\ Append(rows, x) \in Seq(Row) /\ Len(rows) \in Nat
        /\ Len(Append(rows, x)) = Len(rows) + 1 /\ Append(rows, x)[Len(rows) + 1] = x
        /\ \A i \in 1..Len(rows) : Append(rows, x)[i] = rows[i]
    OBVIOUS
  <1>2. PICK z \in Seq(Row) :
          /\ z = Append(rows, x) /\ Len(z) = Len(rows) + 1 /\ z[Len(rows) + 1] = x
          /\ \A i \in 1..Len(rows) : z[i] = rows[i]
    BY <1>1, Zenon
  <1>3. Len(z) = Len(rows) + 1 /\ z[Len(rows) + 1] = x /\ \A i \in 1..Len(rows) : z[i] = rows[i]
    BY <1>2
  <1>4. PICK n \in Nat : n = Len(rows)
    BY <1>1
  <1>5. PICK P \in Positions(n) : P = OfSess(rows, s)
    BY <1>4, BucketIs, Zenon
  <1>6. PICK Q \in Positions(Len(z)) : Q = OfSess(z, s)
    BY BucketIs, Zenon
  <1>7. \A i : i \in P <=> i \in 1..n /\ rows[i].sess = s
    BY <1>4, <1>5 DEF OfSess
  <1>8. \A i : i \in Q <=> i \in 1..n + 1 /\ z[i].sess = s
    BY <1>3, <1>4, <1>6 DEF OfSess
  <1>9. \A i : i \in 1..n + 1 <=> i \in 1..n \/ i = n + 1
    BY <1>4
  <1>10. z[n + 1] = x /\ \A i \in 1..n : z[i] = rows[i]
    BY <1>3, <1>4
  <1>11. /\ Bucket(rows, s) = Shown(RowsAt(rows, P)) /\ RowsAt(rows, P) \in Seq(Row)
    BY <1>5, BucketIs, Zenon
  <1>12. Bucket(z, s) = Shown(RowsAt(z, Q))
    BY <1>6, BucketIs, Zenon
  <1>13. CASE x.sess = s
    <2>1. Q = P \cup {n + 1}
      BY <1>7, <1>8, <1>9, <1>10, <1>13
    <2>3. RowsAt(z, Q) = Append(RowsAt(rows, P), x)
      <3>1. P \in Positions(Len(rows)) /\ Q = P \cup {Len(rows) + 1}
        BY <1>4, <2>1
      <3>2. RowsAt(Append(rows, x), P \cup {Len(rows) + 1}) = Append(RowsAt(rows, P), x)
        BY <3>1, RowsAtGrows, Zenon
      <3> QED BY <1>2, <3>1, <3>2, Zenon
    <2>4. Shown(RowsAt(z, Q)) = Append(Shown(RowsAt(rows, P)), [id |-> x.id, prev |-> x.prev])
      BY <1>11, <2>3, ShownAppend, Zenon
    <2>5. Bucket(z, s) = Append(Bucket(rows, s), [id |-> x.id, prev |-> x.prev])
      BY <1>11, <1>12, <2>4, Zenon
    <2> QED BY <1>2, <1>13, <2>5, Zenon
  <1>14. CASE x.sess # s
    <2>1. Q = P
      BY <1>7, <1>8, <1>9, <1>10, <1>14
    <2>2. \A i \in P : z[i] = rows[i]
      BY <1>7, <1>10
    <2>3. RowsAt(z, P) = RowsAt(rows, P)
      BY <2>2, RowsAtSame, Zenon
    <2> QED BY <1>2, <1>11, <1>12, <1>14, <2>1, <2>3, Zenon
  <1> QED BY <1>13, <1>14

(* Rows of no session of the log leave every bucket alone.                 *)
LEMMA BucketLonger ==
    ASSUME NEW q \in Seq(Row), NEW r \in Seq(Row), NEW batch, Longer(r, q, batch),
           Loose(batch), NEW s, s # Unchained
    PROVE  Bucket(r, s) = Bucket(q, s)
  <1>1. PICK P \in Positions(Len(q)) : P = OfSess(q, s)
    BY BucketIs, Zenon
  <1>2. PICK Q \in Positions(Len(r)) : Q = OfSess(r, s)
    BY BucketIs, Zenon
  <1>3. \A i : i \in P <=> i \in 1..Len(q) /\ q[i].sess = s
    BY <1>1 DEF OfSess
  <1>4. \A i : i \in Q <=> i \in 1..Len(r) /\ r[i].sess = s
    BY <1>2 DEF OfSess
  <1>5. \A i \in P : i \in Q /\ r[i] = q[i]
    BY <1>3, <1>4 DEF Longer
  <1>6. \A i \in Q : i \in P
    BY <1>3, <1>4 DEF Longer, Loose
  <1>7. Q = P
    BY <1>5, <1>6
  <1>8. Len(q) \in Nat
    OBVIOUS
  <1>9. RowsAt(r, P) = RowsAt(q, P)
    BY <1>5, <1>8, RowsAtSame, Zenon
  <1>10. Bucket(q, s) = Shown(RowsAt(q, P)) /\ Bucket(r, s) = Shown(RowsAt(r, Q))
    BY <1>1, <1>2, BucketIs, Zenon
  <1> QED BY <1>7, <1>9, <1>10, Zenon

(* The last hmac of a bucket is the id of a row, or none.                  *)
LEMMA LastInType ==
    ASSUME NEW rows \in Seq(Row), NEW s
    PROVE  /\ Bucket(rows, s) \in Seq(LogRow)
           /\ LastIn(rows, s) \in Ids \cup {None}
  <1>1. Bucket(rows, s) \in Seq(LogRow)
    BY BucketIs, ShownRows, Zenon
  <1>2. PICK b \in Seq(LogRow) : b = Bucket(rows, s)
    BY <1>1
  <1>3. b # <<>> => b[Len(b)] \in LogRow
    OBVIOUS
  <1>4. b # <<>> => b[Len(b)].id \in Ids
    BY <1>3 DEF LogRow
  <1>5. LastIn(rows, s) = IF b = <<>> THEN None ELSE b[Len(b)].id
    BY <1>2 DEF LastIn
  <1> QED BY <1>1, <1>4, <1>5

(* The constants, one by one.                                              *)
LEMMA ConstantsAre ==
    /\ MaxPrimary \in Nat /\ MaxFallback \in Nat /\ BufferMax \in Nat
    /\ \A s \in Sessions : s # Unchained
    /\ \A id \in Ids : id \in Nat /\ id # 0
    /\ Loop \in FlushRuns
  <1>1. Loop \in FlushRuns
    BY DEF FlushRuns
  <1> QED BY <1>1, MemoryConstants

(* A batch of one.                                                         *)
LEMMA OneRow ==
    ASSUME NEW x \in Row
    PROVE  /\ <<x>> \in Seq(Row) /\ Distinct(<<x>>)
           /\ \A i \in 1..Len(<<x>>) : <<x>>[i] = x
           /\ x.id \in IdsOf(<<x>>)
  <1>1. <<x>> \in Seq(Row) /\ Len(<<x>>) = 1 /\ <<x>>[1] = x
    OBVIOUS
  <1>2. PICK q \in Seq(Row) : q = <<x>> /\ Len(q) = 1 /\ q[1] = x
    BY <1>1
  <1>3. Len(q) = 1 /\ q[1] = x
    BY <1>2
  <1>4. \A i : i \in 1..Len(q) <=> i = 1
    BY <1>3
  <1>5. Distinct(q)
    BY <1>4 DEF Distinct
  <1>6. x.id \in IdsOf(q)
    BY <1>3, <1>4, IdsAre
  <1>7. \A i \in 1..Len(q) : q[i] = x
    BY <1>3, <1>4
  <1> QED BY <1>2, <1>5, <1>6, <1>7, Zenon

(* The fallback takes a batch: it keeps its cap, and what falls out of it  *)
(* is no more than evicted_total grows by.                                 *)
LEMMA FallbackTaken ==
    ASSUME fallback \in Seq(Row), evicted \in Nat,
           Stock(fallback, MaxFallback),
           NEW batch \in Seq(Row), Distinct(batch), FallbackTakes(batch)
    PROVE  /\ fallback' \in Seq(Row) /\ Len(fallback') <= MaxFallback
           /\ Wrote(fallback', fallback, batch)
           /\ evicted' \in Nat
           /\ \E gone \in Seq(Row) :
                /\ evicted' = evicted + Len(gone)
                /\ \A id : id \in IdsOf(fallback) \/ id \in IdsOf(batch)
                             => id \in IdsOf(fallback') \/ id \in IdsOf(gone)
  <1>0. MaxFallback \in Nat /\ Distinct(fallback) /\ Len(fallback) <= MaxFallback
    BY ConstantsAre DEF Stock
  <1>1. CASE /\ onFull = "evict"
             /\ fallback' = Ring(fallback, batch, MaxFallback)
             /\ evicted' = evicted + EvictedBy(fallback, batch, MaxFallback)
    <2>1. /\ EvictedBy(fallback, batch, MaxFallback) \in Nat
          /\ \E r \in Seq(Row) :
               /\ r = Ring(fallback, batch, MaxFallback) /\ Len(r) <= MaxFallback
               /\ Wrote(r, fallback, batch)
               /\ \E gone \in Seq(Row) :
                    /\ Len(gone) = EvictedBy(fallback, batch, MaxFallback)
                    /\ \A id : id \in IdsOf(fallback) \/ id \in IdsOf(batch)
                                 => id \in IdsOf(r) \/ id \in IdsOf(gone)
      BY <1>0, RingRows
    <2>2. /\ Ring(fallback, batch, MaxFallback) = fallback'
          /\ evicted' = evicted + EvictedBy(fallback, batch, MaxFallback)
      BY <1>1
    <2>3. /\ fallback' \in Seq(Row) /\ Len(fallback') <= MaxFallback
          /\ Wrote(fallback', fallback, batch)
          /\ \E gone \in Seq(Row) :
               /\ Len(gone) = EvictedBy(fallback, batch, MaxFallback)
               /\ \A id : id \in IdsOf(fallback) \/ id \in IdsOf(batch)
                            => id \in IdsOf(fallback') \/ id \in IdsOf(gone)
      BY <2>1, <2>2, Zenon
    <2>4. evicted' \in Nat
      BY <2>1, <2>2
    <2> QED BY <2>2, <2>3, <2>4, Zenon
  <1>2. CASE /\ onFull = "raise" /\ Fits(fallback, batch, MaxFallback)
             /\ fallback' = Landed(fallback, batch, MaxFallback)
             /\ UNCHANGED evicted
    <2>1. \E r \in Seq(Row) :
             /\ r = Landed(fallback, batch, MaxFallback) /\ Len(r) <= MaxFallback
             /\ Wrote(r, fallback, batch) /\ Longer(r, fallback, batch) /\ Holds(r, fallback)
             /\ Fits(fallback, batch, MaxFallback) => Holds(r, batch)
      BY <1>0, LandedRows
    <2>2. Landed(fallback, batch, MaxFallback) = fallback' /\ evicted' = evicted
      BY <1>2
    <2>3. /\ fallback' \in Seq(Row) /\ Len(fallback') <= MaxFallback
          /\ Wrote(fallback', fallback, batch)
          /\ Holds(fallback', fallback) /\ Holds(fallback', batch)
      BY <1>2, <2>1, <2>2, Zenon
    <2>8. <<>> \in Seq(Row)
      OBVIOUS
    <2>4. PICK gone \in Seq(Row) : gone = <<>>
      BY <2>8, Zenon
    <2>5. evicted' = evicted + Len(gone)
      BY <2>2, <2>4
    <2>6. \A id : id \in IdsOf(fallback) \/ id \in IdsOf(batch)
                    => id \in IdsOf(fallback') \/ id \in IdsOf(gone)
      BY <2>3 DEF Holds
    <2>7. evicted' \in Nat
      BY <2>2
    <2> QED BY <2>3, <2>5, <2>6, <2>7, Zenon
  <1> QED BY <1>1, <1>2 DEF FallbackTakes

(* ... or refuses it at its cap, and keeps all it has.                     *)
LEMMA FallbackRefused ==
    ASSUME fallback \in Seq(Row), evicted \in Nat,
           Stock(fallback, MaxFallback),
           NEW batch \in Seq(Row), Distinct(batch), FallbackRefuses(batch)
    PROVE  /\ fallback' \in Seq(Row) /\ Len(fallback') <= MaxFallback
           /\ Wrote(fallback', fallback, batch)
           /\ evicted' = evicted /\ Holds(fallback', fallback)
  <1>0. MaxFallback \in Nat /\ Distinct(fallback) /\ Len(fallback) <= MaxFallback
    BY ConstantsAre DEF Stock
  <1>1. \E r \in Seq(Row) :
           /\ r = Landed(fallback, batch, MaxFallback) /\ Len(r) <= MaxFallback
           /\ Wrote(r, fallback, batch) /\ Longer(r, fallback, batch) /\ Holds(r, fallback)
           /\ Fits(fallback, batch, MaxFallback) => Holds(r, batch)
    BY <1>0, LandedRows
  <1>2. Landed(fallback, batch, MaxFallback) = fallback' /\ evicted' = evicted
    BY DEF FallbackRefuses
  <1> QED BY <1>1, <1>2, Zenon

(* The fields of a call and of a flush.                                    *)
LEMMA MemFields ==
    ASSUME MemTyped
    PROVE  /\ \A c \in Loggers : /\ logging[c] \in MemCalls
                                 /\ logging[c].prev \in Ids \cup {None}
                                 /\ logging[c].sess \in Sessions \cup {Unchained}
           /\ \A f \in FlushRuns : flush[f] \in MemFlushes /\ flush[f].batch \in Seq(Row)
  BY DEF MemTyped, MemCalls, MemFlushes

(* The rows the code builds.                                               *)
LEMMA BuiltRows ==
    ASSUME MemTyped, nextEvent \in Ids
    PROVE  /\ FreshRow \in Row /\ FreshRow.id = nextEvent /\ FreshRow.sess = Unchained
           /\ \A c \in Loggers :
                /\ BuiltRow(c) \in Row /\ BuiltRow(c).id = nextEvent
                /\ BuiltRow(c).sess = logging[c].sess /\ BuiltRow(c).prev = logging[c].prev
  <1>1. FreshRow \in Row /\ FreshRow.id = nextEvent /\ FreshRow.sess = Unchained
    BY DEF FreshRow, Row
  <1>2. ASSUME NEW c \in Loggers
        PROVE  /\ BuiltRow(c) \in Row /\ BuiltRow(c).id = nextEvent
               /\ BuiltRow(c).sess = logging[c].sess /\ BuiltRow(c).prev = logging[c].prev
    BY MemFields DEF BuiltRow, Row
  <1> QED BY <1>1, <1>2

-----------------------------------------------------------------------------
(* The steps, one group of variables after the other.                      *)

(* What a step may do to a call: begin it, in a session that no other call *)
(* holds; send it on to the fallback; or end it.                           *)
CallBegins(c) ==
    \E s \in Sessions :
        /\ logging[c].pc = "idle"
        /\ \A o \in Loggers : logging[o].pc = "primary" => logging[o].sess # s
        /\ logging' = [logging EXCEPT ![c] = [pc |-> "primary", sess |-> s,
                                        prev |-> LastIn(primary, s)]]
        /\ primary' = primary
(* ... goes on to the fallback,                                            *)
CallMoves(c) ==
    /\ logging[c].pc # "idle" /\ primary' = primary
    /\ \E at \in {"degraded", "fallback"}, p \in Ids \cup {None} :
         logging' = [logging EXCEPT ![c] = [pc |-> at, sess |-> logging[c].sess, prev |-> p]]
(* ... or ends.                                                            *)
CallEnds(c) == logging' = [logging EXCEPT ![c] = NotLogging]

(* A call's steps, seen so.                                                *)
LEMMA CallShapes ==
    ASSUME MemTyped, NEW c \in Loggers
    PROVE  /\ \A s \in Sessions : BeginPrimary(c, s) => CallBegins(c)
           /\ RefusePrimary(c) => CallMoves(c)
           /\ BeginFallback(c) => CallMoves(c)
           /\ Cancel(c) => CallEnds(c) /\ primary' = primary
           /\ LandPrimary(c) => CallEnds(c)
           /\ LandFallback(c) => CallEnds(c) /\ primary' = primary
           /\ RefuseFallback(c) => CallEnds(c) /\ primary' = primary
  <1>0. logging[c] \in MemCalls /\ logging[c].prev \in Ids \cup {None}
    BY MemFields
  <1>1. ASSUME NEW s \in Sessions, BeginPrimary(c, s) PROVE CallBegins(c)
    <2>1. /\ logging[c].pc = "idle"
          /\ \A o \in Loggers : logging[o].pc = "primary" => logging[o].sess # s
          /\ logging' = [logging EXCEPT ![c] = [pc |-> "primary", sess |-> s,
                                          prev |-> LastIn(primary, s)]]
          /\ primary' = primary
      BY <1>1 DEF BeginPrimary, Begin, Holding, stores
    <2> QED BY <2>1 DEF CallBegins
  <1>2. ASSUME RefusePrimary(c) PROVE CallMoves(c)
    <2>1. /\ logging[c].pc = "primary" /\ primary' = primary
          /\ logging' = [logging EXCEPT ![c].pc = "degraded"]
      BY <1>2 DEF RefusePrimary, Holding, stores
    <2>2. PICK r \in MemCalls : r = logging[c]
      BY <1>0
    <2>3. [r EXCEPT !.pc = "degraded"] = [pc |-> "degraded", sess |-> r.sess, prev |-> r.prev]
      BY DEF MemCalls
    <2>4. logging' = [logging EXCEPT ![c] = [r EXCEPT !.pc = "degraded"]]
      BY <2>1, <2>2
    <2>5. logging' = [logging EXCEPT ![c] = [pc |-> "degraded", sess |-> logging[c].sess,
                                        prev |-> logging[c].prev]]
      BY <2>2, <2>3, <2>4
    <2>6. \E at \in {"degraded", "fallback"}, p \in Ids \cup {None} :
             logging' = [logging EXCEPT ![c] = [pc |-> at, sess |-> logging[c].sess, prev |-> p]]
      BY <1>0, <2>5
    <2> QED BY <2>1, <2>6 DEF CallMoves
  <1>3. ASSUME BeginFallback(c) PROVE CallMoves(c)
    <2>1. /\ logging[c].pc = "degraded" /\ primary' = primary
          /\ logging' = [logging EXCEPT ![c] = [pc |-> "fallback", sess |-> logging[c].sess,
                                          prev |-> LastIn(fallback, logging[c].sess)]]
      BY <1>3 DEF BeginFallback, Begin, Holding, stores
    <2>2. LastIn(fallback, logging[c].sess) \in Ids \cup {None}
      BY LastInType DEF MemTyped
    <2>3. \E at \in {"degraded", "fallback"}, p \in Ids \cup {None} :
             logging' = [logging EXCEPT ![c] = [pc |-> at, sess |-> logging[c].sess, prev |-> p]]
      BY <2>1, <2>2
    <2> QED BY <2>1, <2>3 DEF CallMoves
  <1>4. Cancel(c) => CallEnds(c) /\ primary' = primary
    BY DEF Cancel, CallEnds, stores
  <1>5. LandPrimary(c) => CallEnds(c)
    BY DEF LandPrimary, CallEnds
  <1>6. LandFallback(c) => CallEnds(c) /\ primary' = primary
    BY DEF LandFallback, CallEnds
  <1>7. RefuseFallback(c) => CallEnds(c) /\ primary' = primary
    BY DEF RefuseFallback, CallEnds
  <1> QED BY <1>1, <1>2, <1>3, <1>4, <1>5, <1>6, <1>7

(* Every one of them keeps the types of the calls.                         *)
LEMMA CallTyped ==
    ASSUME MemTyped, NEW c \in Loggers, CallBegins(c) \/ CallMoves(c) \/ CallEnds(c)
    PROVE  logging' \in [Loggers -> MemCalls]
  <1>0. logging \in [Loggers -> MemCalls] /\ logging[c].sess \in Sessions \cup {Unchained}
    BY MemFields DEF MemTyped
  <1>1. CASE CallBegins(c)
    <2>1. PICK s \in Sessions :
            logging' = [logging EXCEPT ![c] = [pc |-> "primary", sess |-> s,
                                          prev |-> LastIn(primary, s)]]
      BY <1>1 DEF CallBegins
    <2>2. LastIn(primary, s) \in Ids \cup {None}
      BY LastInType DEF MemTyped
    <2>3. [pc |-> "primary", sess |-> s, prev |-> LastIn(primary, s)] \in MemCalls
      BY <2>2 DEF MemCalls
    <2> QED BY <1>0, <2>1, <2>3
  <1>2. CASE CallMoves(c)
    <2>1. PICK at \in {"degraded", "fallback"}, p \in Ids \cup {None} :
            logging' = [logging EXCEPT ![c] = [pc |-> at, sess |-> logging[c].sess, prev |-> p]]
      BY <1>2 DEF CallMoves
    <2>2. [pc |-> at, sess |-> logging[c].sess, prev |-> p] \in MemCalls
      BY <1>0, <2>1 DEF MemCalls
    <2> QED BY <1>0, <2>1, <2>2
  <1>3. CASE CallEnds(c)
    <2>1. NotLogging \in MemCalls
      BY DEF NotLogging, MemCalls
    <2> QED BY <1>0, <1>3, <2>1 DEF CallEnds
  <1> QED BY <1>1, <1>2, <1>3

(* What a step may do to the buffer and the flushes.                       *)
FlushMoves(f) ==
    /\ flush[f].pc # "idle"
    /\ \E at \in {"fallback", "requeue"} : flush' = [flush EXCEPT ![f].pc = at]

(* A flush that moves on keeps its batch.                                  *)
LEMMA FlushKeeps ==
    ASSUME MemTyped, NEW f \in FlushRuns, FlushMoves(f)
    PROVE  /\ flush' \in [FlushRuns -> MemFlushes]
           /\ \A g \in FlushRuns : flush'[g].batch = flush[g].batch
           /\ \A g \in FlushRuns : flush'[g].pc = "idle" => flush[g].pc = "idle"
  <1>0. flush \in [FlushRuns -> MemFlushes] /\ flush[f] \in MemFlushes
    BY MemFields DEF MemTyped
  <1>1. PICK at \in {"fallback", "requeue"} : flush' = [flush EXCEPT ![f].pc = at]
    BY DEF FlushMoves
  <1>2. PICK r \in MemFlushes : r = flush[f]
    BY <1>0
  <1>3. /\ [r EXCEPT !.pc = at] \in MemFlushes /\ [r EXCEPT !.pc = at].batch = r.batch
        /\ [r EXCEPT !.pc = at].pc = at
    BY DEF MemFlushes
  <1>4. flush' = [flush EXCEPT ![f] = [r EXCEPT !.pc = at]]
    BY <1>1, <1>2
  <1>5. flush' \in [FlushRuns -> MemFlushes]
    BY <1>0, <1>3, <1>4
  <1>6. flush'[f] = [r EXCEPT !.pc = at] /\ \A g \in FlushRuns : g # f => flush'[g] = flush[g]
    BY <1>0, <1>4
  <1>7. at # "idle"
    BY <1>1
  <1> QED BY <1>2, <1>3, <1>5, <1>6, <1>7

(* A flush that ends drops its batch, and one that starts has the buffer.  *)
LEMMA FlushSets ==
    ASSUME MemTyped, NEW f \in FlushRuns, NEW at \in {"idle", "primary"}, NEW b \in Seq(Row),
           flush' = [flush EXCEPT ![f] = [pc |-> at, batch |-> b]]
    PROVE  /\ flush' \in [FlushRuns -> MemFlushes]
           /\ flush'[f].batch = b /\ flush'[f].pc = at
           /\ \A g \in FlushRuns : g # f => flush'[g] = flush[g]
  <1>1. [pc |-> at, batch |-> b] \in MemFlushes
    BY DEF MemFlushes
  <1>2. flush \in [FlushRuns -> MemFlushes]
    BY DEF MemTyped
  <1> QED BY <1>1, <1>2

(* Drawn ids stay below the next one.                                      *)
LEMMA BelowGrows ==
    ASSUME NEW q \in Seq(Row), NEW n \in Nat, NEW m \in Nat, n <= m, Below(q, n)
    PROVE  Below(q, m)
  <1> SUFFICES ASSUME NEW i \in 1..Len(q) PROVE q[i].id < m
    BY DEF Below
  <1>1. q[i] \in Row
    OBVIOUS
  <1>2. q[i].id \in Nat
    BY <1>1, ConstantsAre DEF Row
  <1>3. q[i].id < n
    BY DEF Below
  <1> QED BY <1>2, <1>3

(* What a write leaves is below what both its parts are below.             *)
LEMMA WroteBelow ==
    ASSUME NEW r, NEW q, NEW batch, NEW n, Wrote(r, q, batch), Below(q, n), Below(batch, n)
    PROVE  Below(r, n)
  BY DEF Wrote, Below

(* A fresh row behind drawn ones.                                          *)
LEMMA AppendFresh ==
    ASSUME NEW q \in Seq(Row), NEW x \in Row, Distinct(q), Below(q, x.id)
    PROVE  \E t \in Seq(Row) :
             /\ t = Append(q, x) /\ Len(t) = Len(q) + 1 /\ Distinct(t) /\ Below(t, x.id + 1)
             /\ \A i \in 1..Len(t) : t[i] = x \/ \E j \in 1..Len(q) : t[i] = q[j]
             /\ x.id \in IdsOf(t) /\ Holds(t, q)
             /\ Loose(q) /\ x.sess = Unchained => Loose(t)
  <1>1. /\ Append(q, x) \in Seq(Row) /\ Len(q) \in Nat
        /\ Len(Append(q, x)) = Len(q) + 1 /\ Append(q, x)[Len(q) + 1] = x
        /\ \A i \in 1..Len(q) : Append(q, x)[i] = q[i]
    OBVIOUS
  <1>2. PICK t \in Seq(Row) :
          /\ t = Append(q, x) /\ Len(t) = Len(q) + 1 /\ t[Len(q) + 1] = x
          /\ \A i \in 1..Len(q) : t[i] = q[i]
    BY <1>1, Zenon
  <1>3. PICK n \in Nat : n = Len(q)
    BY <1>1
  <1>4. Len(t) = n + 1 /\ t[n + 1] = x /\ \A i \in 1..n : t[i] = q[i]
    BY <1>2, <1>3
  <1>5. \A i : i \in 1..n + 1 <=> i \in 1..n \/ i = n + 1
    BY <1>3
  <1>6. x.id \in Nat /\ \A i \in 1..Len(q) : q[i].id \in Nat
    <2>1. \A i \in 1..Len(q) : q[i] \in Row
      OBVIOUS
    <2> QED BY <2>1, ConstantsAre DEF Row
  <1>7. \A i \in 1..n : q[i].id < x.id
    BY <1>3 DEF Below
  <1>8. Distinct(t)
    <2> SUFFICES ASSUME NEW i \in 1..n + 1, NEW j \in 1..n + 1, t[i].id = t[j].id PROVE i = j
      BY <1>4 DEF Distinct
    <2>1. CASE i \in 1..n /\ j \in 1..n
      BY <1>3, <1>4, <2>1 DEF Distinct
    <2>2. CASE i = n + 1 /\ j = n + 1
      BY <2>2
    <2>3. CASE i \in 1..n /\ j = n + 1
      BY <1>3, <1>4, <1>6, <1>7, <2>3
    <2>4. CASE i = n + 1 /\ j \in 1..n
      BY <1>3, <1>4, <1>6, <1>7, <2>4
    <2> QED BY <1>5, <2>1, <2>2, <2>3, <2>4
  <1>9. Below(t, x.id + 1)
    <2> SUFFICES ASSUME NEW i \in 1..n + 1 PROVE t[i].id < x.id + 1
      BY <1>4 DEF Below
    <2>1. CASE i \in 1..n
      <3>1. q[i].id \in Nat /\ q[i].id < x.id /\ t[i] = q[i]
        BY <1>3, <1>4, <1>6, <1>7, <2>1
      <3> QED BY <1>6, <3>1
    <2>2. CASE i = n + 1
      BY <1>4, <1>6, <2>2
    <2> QED BY <1>5, <2>1, <2>2
  <1>10. \A i \in 1..Len(t) : t[i] = x \/ \E j \in 1..Len(q) : t[i] = q[j]
    BY <1>3, <1>4, <1>5
  <1>11. n + 1 \in 1..Len(t) /\ \A i \in 1..n : i \in 1..Len(t)
    BY <1>4, <1>5
  <1>12. x.id \in IdsOf(t)
    BY <1>4, <1>11, IdsAre
  <1>13. Holds(t, q)
    <2> SUFFICES ASSUME NEW id \in IdsOf(q) PROVE id \in IdsOf(t)
      BY DEF Holds
    <2>1. PICK i \in 1..n : q[i].id = id
      BY <1>3, IdsAre
    <2>2. i \in 1..Len(t) /\ t[i].id = id
      BY <1>4, <1>11, <2>1
    <2> QED BY <2>2, IdsAre
  <1>14. Loose(q) /\ x.sess = Unchained => Loose(t)
    BY <1>10 DEF Loose
  <1>15. t = Append(q, x) /\ Len(t) = Len(q) + 1
    BY <1>2
  <1> QED BY <1>8, <1>9, <1>10, <1>12, <1>13, <1>14, <1>15, Zenon

(* What a step does to the stores.                                         *)
MemStores == /\ primary' \in Seq(Row) /\ fallback' \in Seq(Row) /\ evicted' \in Nat
             /\ nextEvent' \in Nat /\ nextEvent <= nextEvent' /\ MemStocked'

(* Nothing, while ids may be drawn.                                        *)
LEMMA StoresStill ==
    ASSUME MemTyped, MemStocked, UNCHANGED stores,
           nextEvent' = nextEvent \/ nextEvent' = nextEvent + 1
    PROVE  MemStores
  <1>1. /\ primary' = primary /\ fallback' = fallback /\ evicted' = evicted
        /\ nextEvent \in Nat /\ primary \in Seq(Row) /\ fallback \in Seq(Row) /\ evicted \in Nat
    BY DEF stores, MemTyped
  <1>2. nextEvent' \in Nat /\ nextEvent <= nextEvent'
    BY <1>1
  <1>3. Below(primary, nextEvent') /\ Below(fallback, nextEvent')
    BY <1>1, <1>2, BelowGrows DEF MemStocked, Stock
  <1> QED BY <1>1, <1>2, <1>3 DEF MemStores, MemStocked, Stock

(* A write to the fallback.                                                *)
LEMMA FallbackWritten ==
    ASSUME MemTyped, MemStocked, NEW batch \in Seq(Row), Distinct(batch),
           FallbackTakes(batch) \/ FallbackRefuses(batch), primary' = primary,
           nextEvent' \in Nat, nextEvent <= nextEvent', Below(batch, nextEvent')
    PROVE  MemStores
  <1>1. /\ nextEvent \in Nat /\ primary \in Seq(Row) /\ fallback \in Seq(Row) /\ evicted \in Nat
        /\ Stock(fallback, MaxFallback)
    BY DEF MemTyped, MemStocked
  <1>2. /\ fallback' \in Seq(Row) /\ Len(fallback') <= MaxFallback
        /\ Wrote(fallback', fallback, batch) /\ evicted' \in Nat
    <2>1. CASE FallbackTakes(batch)
      BY <1>1, <2>1, FallbackTaken, Zenon
    <2>2. CASE FallbackRefuses(batch)
      BY <1>1, <2>2, FallbackRefused, Zenon
    <2> QED BY <2>1, <2>2
  <1>3. Below(primary, nextEvent') /\ Below(fallback, nextEvent')
    BY <1>1, BelowGrows DEF MemStocked, Stock
  <1>4. Below(fallback', nextEvent')
    BY <1>2, <1>3, WroteBelow, Zenon
  <1>5. Distinct(fallback')
    BY <1>2 DEF Wrote
  <1>6. Stock(primary, MaxPrimary)'
    BY <1>3 DEF MemStocked, Stock
  <1>7. Stock(fallback, MaxFallback)'
    BY <1>2, <1>4, <1>5 DEF Stock
  <1> QED BY <1>1, <1>2, <1>6, <1>7 DEF MemStores, MemStocked

(* A write of one fresh row to the fallback.                               *)
LEMMA SpillWritten ==
    ASSUME MemTyped, MemStocked, NEW x \in Row, x.id = nextEvent,
           FallbackTakes(<<x>>) \/ FallbackRefuses(<<x>>), primary' = primary,
           nextEvent' = nextEvent + 1
    PROVE  MemStores
  <1>1. PICK b \in Seq(Row) : b = <<x>> /\ Distinct(b) /\ \A i \in 1..Len(b) : b[i] = x
    BY OneRow
  <1>2. nextEvent \in Nat
    BY DEF MemTyped
  <1>3. nextEvent' \in Nat /\ nextEvent <= nextEvent' /\ nextEvent < nextEvent'
    BY <1>2
  <1>4. Below(b, nextEvent')
    BY <1>1, <1>3 DEF Below
  <1>5. FallbackTakes(b) \/ FallbackRefuses(b)
    BY <1>1, Zenon
  <1>6. Distinct(b)
    BY <1>1
  <1> QED BY <1>3, <1>4, <1>5, <1>6, FallbackWritten

(* A store that refuses a single row is as it was.                         *)
LEMMA RefusedOne ==
    ASSUME NEW q \in Seq(Row), NEW x \in Row, NEW max \in Nat, Len(q) <= max,
           ~Fits(q, <<x>>, max)
    PROVE  Landed(q, <<x>>, max) = q
  <1> DEFINE P == {i \in 1..Len(<<x>>) : <<x>>[i].id \notin IdsOf(q)}
  <1>0. <<x>> \in Seq(Row) /\ Len(<<x>>) = 1 /\ Len(q) \in Nat
    OBVIOUS
  <1>1. P \in Positions(Len(<<x>>))
    BY DEF Positions
  <1>2. Missing(q, <<x>>) = RowsAt(<<x>>, P)
    BY DEF Missing
  <1> HIDE DEF P
  <1>3. /\ RowsAt(<<x>>, P) \in Seq(Row) /\ Len(RowsAt(<<x>>, P)) = Cardinality(P)
        /\ Cardinality(P) \in Nat /\ Cardinality(P) <= Len(<<x>>)
    BY <1>0, <1>1, RowsAtRows, Zenon
  <1>4. PICK m \in Seq(Row) : m = Missing(q, <<x>>)
    BY <1>2, <1>3
  <1>5. Len(m) \in Nat /\ Len(m) <= 1
    BY <1>0, <1>2, <1>3, <1>4
  <1>6. Len(q) >= max
    <2>1. ~(Len(q) + Len(m) <= max)
      BY <1>4 DEF Fits
    <2> QED BY <1>0, <1>5, <2>1
  <1> DEFINE room == IF Len(q) >= max THEN 0 ELSE max - Len(q)
             k == IF Len(m) <= room THEN Len(m) ELSE room
  <1>7. k = 0
    BY <1>5, <1>6
  <1>8. Landed(q, <<x>>, max) = q \o SubSeq(m, 1, k)
    BY <1>4 DEF Landed
  <1>9. Landed(q, <<x>>, max) = q \o SubSeq(m, 1, 0)
    BY <1>7, <1>8
  <1>10. SubSeq(m, 1, 0) = <<>> /\ q \o <<>> = q
    OBVIOUS
  <1> QED BY <1>9, <1>10

(* So log() that both stores refuse leaves them as they were.              *)
LEMMA RefusedStill ==
    ASSUME MemTyped, MemStocked, NEW c \in Loggers, RefuseFallback(c)
    PROVE  UNCHANGED stores /\ nextEvent' = nextEvent
  <1>1. /\ nextEvent \in Ids /\ primary' = primary /\ nextEvent' = nextEvent
        /\ ~Fits(fallback, <<BuiltRow(c)>>, MaxFallback) /\ evicted' = evicted
        /\ fallback' = Landed(fallback, <<BuiltRow(c)>>, MaxFallback)
    BY DEF RefuseFallback, FallbackRefuses
  <1>2. PICK x \in Row : x = BuiltRow(c)
    BY <1>1, BuiltRows
  <1>3. MaxFallback \in Nat /\ Len(fallback) <= MaxFallback /\ fallback \in Seq(Row)
    BY ConstantsAre DEF MemTyped, MemStocked, Stock
  <1>4. Landed(fallback, <<x>>, MaxFallback) = fallback
    BY <1>1, <1>2, <1>3, RefusedOne
  <1> QED BY <1>1, <1>2, <1>4 DEF stores

(* Every step keeps the stores within their caps and without repetition.   *)
LEMMA StoresStep ==
    ASSUME MemInv, [MemNext]_memVars
    PROVE  MemStores
  <1>0. /\ MemTyped /\ MemStocked /\ MemPending
        /\ nextEvent \in Nat /\ primary \in Seq(Row) /\ fallback \in Seq(Row) /\ evicted \in Nat
        /\ \A f \in FlushRuns : flush[f].batch \in Seq(Row)
    BY MemFields DEF MemInv, MemTyped
  <1>1. ASSUME NEW c \in Loggers, LogStep(c) PROVE MemStores
    <2>1. CASE (\E s \in Sessions : BeginPrimary(c, s)) \/ RefusePrimary(c) \/ BeginFallback(c)
               \/ Cancel(c)
      <3>1. UNCHANGED stores /\ nextEvent' = nextEvent
        BY <2>1 DEF BeginPrimary, BeginFallback, Begin, RefusePrimary, Cancel
      <3> QED BY <1>0, <3>1, StoresStill
    <2>2. CASE LandPrimary(c)
      <3>1. /\ nextEvent \in Ids /\ Len(primary) < MaxPrimary
            /\ primary' = Append(primary, BuiltRow(c)) /\ nextEvent' = nextEvent + 1
            /\ fallback' = fallback /\ evicted' = evicted
        BY <2>2 DEF LandPrimary
      <3>2. PICK x \in Row : x = BuiltRow(c) /\ x.id = nextEvent
        BY <1>0, <3>1, BuiltRows
      <3>3. Distinct(primary) /\ Below(primary, x.id)
        BY <1>0, <3>2 DEF MemStocked, Stock
      <3>4. PICK t \in Seq(Row) :
              t = Append(primary, x) /\ Len(t) = Len(primary) + 1 /\ Distinct(t) /\ Below(t, x.id + 1)
        BY <1>0, <3>3, AppendFresh, Zenon
      <3>5. primary' = t
        BY <3>1, <3>2, <3>4
      <3>6. Len(primary) \in Nat /\ MaxPrimary \in Nat
        BY <1>0, ConstantsAre
      <3>7. Len(t) <= MaxPrimary
        BY <3>1, <3>4, <3>6
      <3>8. Below(fallback, nextEvent') /\ nextEvent' \in Nat /\ nextEvent <= nextEvent'
        BY <1>0, <3>1, BelowGrows DEF MemStocked, Stock
      <3>9. Stock(primary, MaxPrimary)'
        BY <3>1, <3>2, <3>4, <3>5, <3>7 DEF Stock
      <3>10. Stock(fallback, MaxFallback)'
        BY <1>0, <3>1, <3>8 DEF MemStocked, Stock
      <3> QED BY <1>0, <3>1, <3>5, <3>8, <3>9, <3>10 DEF MemStores, MemStocked
    <2>3. CASE LandFallback(c)
      <3>1. /\ nextEvent \in Ids /\ primary' = primary
            /\ FallbackTakes(<<BuiltRow(c)>>) /\ nextEvent' = nextEvent + 1
        BY <2>3 DEF LandFallback
      <3>2. BuiltRow(c) \in Row /\ BuiltRow(c).id = nextEvent
        BY <1>0, <3>1, BuiltRows
      <3> QED BY <1>0, <3>1, <3>2, SpillWritten
    <2>4. CASE RefuseFallback(c)
      BY <1>0, <2>4, RefusedStill, StoresStill
    <2> QED BY <1>1, <2>1, <2>2, <2>3, <2>4 DEF LogStep
  <1>2. ASSUME NEW f \in FlushRuns, FlushStep(f) PROVE MemStores
    <2>0. PICK b \in Seq(Row) : b = flush[f].batch
      BY <1>0
    <2>1. Distinct(b) /\ Below(b, nextEvent)
      BY <1>0, <2>0 DEF MemPending, Pending
    <2>2. CASE TakeBatch(f) \/ FlushTimesOut(f) \/ Requeue(f)
      <3>1. UNCHANGED stores /\ nextEvent' = nextEvent
        BY <2>2 DEF TakeBatch, FlushTimesOut, Requeue
      <3> QED BY <1>0, <3>1, StoresStill
    <2>3. CASE FlushPrimary(f)
      <3>1. /\ primary' = Landed(primary, b, MaxPrimary) /\ nextEvent' = nextEvent
            /\ fallback' = fallback /\ evicted' = evicted
        BY <2>0, <2>3 DEF FlushPrimary
      <3>2. Distinct(primary) /\ Len(primary) <= MaxPrimary /\ MaxPrimary \in Nat
        BY <1>0, ConstantsAre DEF MemStocked, Stock
      <3>3. PICK r \in Seq(Row) :
              /\ r = Landed(primary, b, MaxPrimary) /\ Len(r) <= MaxPrimary
              /\ Wrote(r, primary, b) /\ Longer(r, primary, b) /\ Holds(r, primary)
              /\ Fits(primary, b, MaxPrimary) => Holds(r, b)
        BY <1>0, <2>1, <3>2, LandedRows
      <3>4. primary' = r /\ Distinct(r)
        BY <3>1, <3>3 DEF Wrote
      <3>5. Below(primary, nextEvent)
        BY <1>0 DEF MemStocked, Stock
      <3>6. Below(r, nextEvent)
        BY <2>1, <3>3, <3>5, WroteBelow, Zenon
      <3>7. Stock(primary, MaxPrimary)'
        BY <3>1, <3>3, <3>4, <3>6 DEF Stock
      <3>8. Stock(fallback, MaxFallback)'
        BY <1>0, <3>1 DEF MemStocked, Stock
      <3> QED BY <1>0, <3>1, <3>4, <3>7, <3>8 DEF MemStores, MemStocked
    <2>4. CASE FlushFallback(f)
      <3>1. /\ primary' = primary /\ nextEvent' = nextEvent
            /\ FallbackTakes(b) \/ FallbackRefuses(b)
        BY <2>0, <2>4 DEF FlushFallback
      <3>2. nextEvent' \in Nat /\ nextEvent <= nextEvent' /\ Below(b, nextEvent')
        BY <1>0, <2>1, <3>1
      <3> QED BY <1>0, <2>1, <3>1, <3>2, FallbackWritten
    <2> QED BY <1>2, <2>2, <2>3, <2>4 DEF FlushStep
  <1>3. CASE EnqueueSpills
    <2>1. /\ nextEvent \in Ids /\ primary' = primary /\ nextEvent' = nextEvent + 1
          /\ FallbackTakes(<<FreshRow>>) \/ FallbackRefuses(<<FreshRow>>)
      BY <1>3 DEF EnqueueSpills
    <2>2. FreshRow \in Row /\ FreshRow.id = nextEvent
      BY <1>0, <2>1, BuiltRows
    <2> QED BY <1>0, <2>1, <2>2, SpillWritten
  <1>4. CASE Enqueue \/ Close \/ LoopEnds \/ LoopCancelled \/ UNCHANGED memVars
    <2>1. UNCHANGED stores /\ (nextEvent' = nextEvent \/ nextEvent' = nextEvent + 1)
      BY <1>4 DEF Enqueue, Close, LoopEnds, LoopCancelled, memVars
    <2> QED BY <1>0, <2>1, StoresStill
  <1> QED BY <1>1, <1>2, <1>3, <1>4 DEF MemNext

(* What a step does to the buffer and the batches.                         *)
MemWriter == /\ buffer' \in Seq(Row) /\ flush' \in [FlushRuns -> MemFlushes]
             /\ MemPending' /\ MemApart'

(* No rows at all.                                                         *)
LEMMA NoRows ==
    /\ <<>> \in Seq(Row) /\ 1..Len(<<>>) = {}
    /\ Distinct(<<>>) /\ Loose(<<>>)
    /\ \A n : Below(<<>>, n)
    /\ \A q : Apart(<<>>, q) /\ Apart(q, <<>>)
    /\ \A id : id \notin IdsOf(<<>>)
  <1>1. <<>> \in Seq(Row) /\ 1..Len(<<>>) = {}
    OBVIOUS
  <1> QED BY <1>1, IdsAre DEF Distinct, Loose, Below, Apart

(* Batches that stay, or that move on, with the buffer as it was.          *)
LEMMA WriterStill ==
    ASSUME MemTyped, MemPending, MemApart, buffer' = buffer,
           nextEvent' \in Nat, nextEvent <= nextEvent',
           flush' \in [FlushRuns -> MemFlushes],
           \A g \in FlushRuns : flush'[g].batch = flush[g].batch,
           \A g \in FlushRuns : flush'[g].pc = "idle" => flush[g].pc = "idle"
    PROVE  MemWriter
  <1>1. buffer \in Seq(Row) /\ nextEvent \in Nat /\ \A g \in FlushRuns : flush[g].batch \in Seq(Row)
    BY MemFields DEF MemTyped
  <1>2. Below(buffer, nextEvent')
    BY <1>1, BelowGrows DEF MemPending, Pending
  <1>3. \A g \in FlushRuns : Below(flush[g].batch, nextEvent')
    BY <1>1, BelowGrows DEF MemPending, Pending
  <1>4. MemPending'
    BY <1>2, <1>3 DEF MemPending, Pending
  <1>5. MemApart'
    BY DEF MemApart
  <1> QED BY <1>1, <1>4, <1>5 DEF MemWriter

(* A batch that is done with.                                              *)
LEMMA WriterEnds ==
    ASSUME MemTyped, MemPending, MemApart, buffer' = buffer,
           nextEvent' = nextEvent, NEW f \in FlushRuns, EndFlush(f)
    PROVE  MemWriter
  <1>1. /\ flush' \in [FlushRuns -> MemFlushes] /\ flush'[f].batch = <<>>
        /\ \A g \in FlushRuns : g # f => flush'[g] = flush[g]
    BY FlushSets, NoRows DEF EndFlush
  <1>2. ASSUME NEW g \in FlushRuns PROVE Pending(flush[g].batch)' /\ Apart(flush'[g].batch, buffer)
    <2>1. CASE g = f
      BY <1>1, <2>1, NoRows DEF Pending
    <2>2. CASE g # f
      BY <1>1, <2>2 DEF MemPending, MemApart, Pending
    <2> QED BY <2>1, <2>2
  <1>3. ASSUME NEW g \in FlushRuns, NEW h \in FlushRuns, g # h
        PROVE  Apart(flush'[g].batch, flush'[h].batch)
    <2>1. CASE g = f \/ h = f
      BY <1>1, <2>1, NoRows
    <2>2. CASE g # f /\ h # f
      BY <1>1, <1>3, <2>2 DEF MemApart
    <2> QED BY <2>1, <2>2
  <1>4. ASSUME NEW g \in FlushRuns, flush'[g].pc = "idle" PROVE flush'[g].batch = <<>>
    BY <1>1, <1>4 DEF MemApart
  <1>5. buffer \in Seq(Row)
    BY DEF MemTyped
  <1>6. Pending(buffer)' /\ Len(buffer') <= BufferMax
    BY DEF MemPending, Pending
  <1>7. MemPending'
    BY <1>2, <1>6 DEF MemPending
  <1>8. MemApart'
    BY <1>2, <1>3, <1>4 DEF MemApart
  <1> QED BY <1>1, <1>5, <1>7, <1>8 DEF MemWriter

(* enqueue() adds a fresh row to the buffer.                               *)
LEMMA WriterEnqueues ==
    ASSUME MemTyped, MemPending, MemApart, Enqueue
    PROVE  MemWriter
  <1>1. /\ nextEvent \in Ids /\ Len(buffer) < BufferMax /\ nextEvent' = nextEvent + 1
        /\ buffer' = Append(buffer, FreshRow) /\ flush' = flush
    BY DEF Enqueue
  <1>2. /\ buffer \in Seq(Row) /\ nextEvent \in Nat /\ flush \in [FlushRuns -> MemFlushes]
        /\ \A g \in FlushRuns : flush[g].batch \in Seq(Row)
        /\ BufferMax \in Nat /\ Len(buffer) \in Nat
    BY MemFields, ConstantsAre DEF MemTyped
  <1>3. PICK x \in Row : x = FreshRow /\ x.id = nextEvent /\ x.sess = Unchained
    BY <1>1, BuiltRows
  <1>4. Distinct(buffer) /\ Below(buffer, x.id) /\ Loose(buffer)
    BY <1>3 DEF MemPending, Pending
  <1>5. PICK t \in Seq(Row) :
          /\ t = Append(buffer, x) /\ Len(t) = Len(buffer) + 1 /\ Distinct(t) /\ Below(t, x.id + 1)
          /\ \A i \in 1..Len(t) : t[i] = x \/ \E j \in 1..Len(buffer) : t[i] = buffer[j]
          /\ x.id \in IdsOf(t) /\ Holds(t, buffer)
          /\ Loose(buffer) /\ x.sess = Unchained => Loose(t)
    BY <1>2, <1>4, AppendFresh
  <1>6. buffer' = t
    BY <1>1, <1>3, <1>5
  <1>7. /\ Len(t) <= BufferMax /\ Distinct(t) /\ Below(t, nextEvent') /\ Loose(t)
    BY <1>1, <1>2, <1>3, <1>4, <1>5
  <1>8. ASSUME NEW g \in FlushRuns PROVE Below(flush[g].batch, nextEvent')
    <2>1. Below(flush[g].batch, nextEvent) /\ nextEvent' \in Nat /\ nextEvent <= nextEvent'
      BY <1>1, <1>2 DEF MemPending, Pending
    <2> QED BY <1>2, <2>1, BelowGrows
  <1>9. MemPending'
    BY <1>1, <1>6, <1>7, <1>8 DEF MemPending, Pending
  <1>10. ASSUME NEW g \in FlushRuns PROVE Apart(flush[g].batch, t)
    <2> SUFFICES ASSUME NEW i \in 1..Len(flush[g].batch), NEW j \in 1..Len(t)
                 PROVE  flush[g].batch[i].id # t[j].id
      BY DEF Apart
    <2>1. flush[g].batch[i].id < nextEvent
      BY DEF MemPending, Pending, Below
    <2>2. CASE t[j] = x
      BY <1>2, <1>3, <2>1, <2>2
    <2>3. CASE \E k \in 1..Len(buffer) : t[j] = buffer[k]
      BY <2>3 DEF MemApart, Apart
    <2> QED BY <1>5, <2>2, <2>3
  <1>11. MemApart'
    BY <1>1, <1>6, <1>10 DEF MemApart
  <1> QED BY <1>1, <1>2, <1>6, <1>9, <1>11 DEF MemWriter

(* _flush_once takes the whole buffer.                                     *)
LEMMA WriterTakes ==
    ASSUME MemTyped, MemPending, MemApart, NEW f \in FlushRuns, TakeBatch(f)
    PROVE  MemWriter
  <1>1. /\ flush' = [flush EXCEPT ![f] = [pc |-> "primary", batch |-> buffer]]
        /\ buffer' = <<>> /\ nextEvent' = nextEvent
    BY DEF TakeBatch
  <1>2. buffer \in Seq(Row) /\ BufferMax \in Nat
    BY ConstantsAre DEF MemTyped
  <1>3. PICK at \in {"idle", "primary"} : at = "primary"
    OBVIOUS
  <1>4. /\ flush' \in [FlushRuns -> MemFlushes] /\ flush'[f].batch = buffer /\ flush'[f].pc = "primary"
        /\ \A g \in FlushRuns : g # f => flush'[g] = flush[g]
    BY <1>1, <1>2, <1>3, FlushSets
  <1>5. ASSUME NEW g \in FlushRuns PROVE Pending(flush[g].batch)'
    <2>1. CASE g = f
      BY <1>1, <1>4, <2>1 DEF MemPending, Pending
    <2>2. CASE g # f
      BY <1>1, <1>4, <2>2 DEF MemPending, Pending
    <2> QED BY <2>1, <2>2
  <1>6. ASSUME NEW g \in FlushRuns, NEW h \in FlushRuns, g # h
        PROVE  Apart(flush'[g].batch, flush'[h].batch)
    <2>1. CASE g = f
      BY <1>4, <1>6, <2>1 DEF MemApart, Apart
    <2>2. CASE h = f
      BY <1>4, <1>6, <2>2 DEF MemApart
    <2>3. CASE g # f /\ h # f
      BY <1>4, <1>6, <2>3 DEF MemApart
    <2> QED BY <2>1, <2>2, <2>3
  <1>7. ASSUME NEW g \in FlushRuns, flush'[g].pc = "idle" PROVE flush'[g].batch = <<>>
    BY <1>4, <1>7 DEF MemApart
  <1>8. Len(<<>>) <= BufferMax
    BY <1>2
  <1>9. MemPending'
    BY <1>1, <1>5, <1>8, NoRows DEF MemPending, Pending
  <1>10. MemApart'
    BY <1>1, <1>6, <1>7, NoRows DEF MemApart
  <1>11. buffer' \in Seq(Row)
    BY <1>1, NoRows
  <1> QED BY <1>4, <1>9, <1>10, <1>11 DEF MemWriter

(* The rows a requeue puts back, and the ones it cuts off.                 *)
LEMMA RequeueRows ==
    ASSUME MemTyped, MemPending, NEW f \in FlushRuns, Requeue(f)
    PROVE  \E k \in Nat, p, r, t \in Seq(Row) :
             /\ k <= Len(flush[f].batch) /\ Len(buffer) + k <= BufferMax
             /\ p = SubSeq(flush[f].batch, 1, k) /\ IsPrefix(p, flush[f].batch, k)
             /\ r = SubSeq(flush[f].batch, k + 1, Len(flush[f].batch))
             /\ IsSuffix(r, flush[f].batch, k)
             /\ t = buffer \o p /\ IsJoin(t, buffer, p)
             /\ buffer' = t /\ cut' = cut \cup IdsOf(r)
  <1>1. PICK b \in Seq(Row) : b = flush[f].batch
    BY MemFields
  <1> DEFINE space == BufferMax - Len(buffer)
             k == IF Len(b) <= space THEN Len(b) ELSE space
  <1>2. /\ buffer' = buffer \o SubSeq(b, 1, k)
        /\ cut' = cut \cup IdsOf(SubSeq(b, k + 1, Len(b)))
    BY <1>1 DEF Requeue
  <1>3. /\ buffer \in Seq(Row) /\ BufferMax \in Nat /\ Len(buffer) \in Nat
        /\ Len(buffer) <= BufferMax /\ Len(b) \in Nat
    BY ConstantsAre DEF MemTyped, MemPending
  <1>4. k \in Nat /\ k <= Len(b) /\ Len(buffer) + k <= BufferMax
    BY <1>3
  <1> HIDE DEF k
  <1>5. PICK p \in Seq(Row) : p = SubSeq(b, 1, k) /\ IsPrefix(p, b, k)
    BY <1>4, Prefix, Zenon
  <1>6. PICK r \in Seq(Row) : r = SubSeq(b, k + 1, Len(b)) /\ IsSuffix(r, b, k)
    BY <1>4, SuffixOf, Zenon
  <1>7. PICK t \in Seq(Row) : t = buffer \o p /\ IsJoin(t, buffer, p)
    BY <1>3, Joined, Zenon
  <1>8. buffer' = t /\ cut' = cut \cup IdsOf(r)
    BY <1>2, <1>5, <1>6, <1>7, Zenon
  <1> QED BY <1>1, <1>4, <1>5, <1>6, <1>7, <1>8, Zenon

(* A requeue joins disjoint rows, within buffer_max.                       *)
LEMMA WriterRequeues ==
    ASSUME MemTyped, MemPending, MemApart, NEW f \in FlushRuns, Requeue(f)
    PROVE  MemWriter
  <1>1. EndFlush(f) /\ nextEvent' = nextEvent
    BY DEF Requeue
  <1>2. /\ flush' \in [FlushRuns -> MemFlushes] /\ flush'[f].batch = <<>>
        /\ \A g \in FlushRuns : g # f => flush'[g] = flush[g]
    BY <1>1, FlushSets, NoRows DEF EndFlush
  <1>3. PICK b \in Seq(Row) : b = flush[f].batch
    BY MemFields
  <1>4. PICK k \in Nat, p \in Seq(Row), t \in Seq(Row) :
          /\ k <= Len(b) /\ Len(buffer) + k <= BufferMax
          /\ IsPrefix(p, b, k) /\ IsJoin(t, buffer, p) /\ buffer' = t
    BY <1>3, RequeueRows, Zenon
  <1>5. /\ Len(t) = Len(buffer) + k
        /\ \A i \in 1..Len(buffer) : t[i] = buffer[i]
        /\ \A i \in 1..k : t[Len(buffer) + i] = p[i] /\ i \in 1..Len(b) /\ p[i] = b[i]
        /\ \A i \in 1..Len(t) : i \in 1..Len(buffer) \/ \E j \in 1..k : i = Len(buffer) + j
    BY <1>4, Zenon DEF IsPrefix, IsJoin
  <1>6. ASSUME NEW i \in 1..Len(t)
        PROVE  \/ i \in 1..Len(buffer) /\ t[i] = buffer[i]
               \/ \E j \in 1..Len(b) : i = Len(buffer) + j /\ t[i] = b[j]
    BY <1>5
  <1>7. Pending(b) /\ Pending(buffer) /\ Apart(b, buffer)
    BY <1>3 DEF MemPending, MemApart
  <1>8. Distinct(t)
    <2> SUFFICES ASSUME NEW i \in 1..Len(t), NEW j \in 1..Len(t), t[i].id = t[j].id PROVE i = j
      BY DEF Distinct
    <2>1. CASE i \in 1..Len(buffer) /\ t[i] = buffer[i]
      <3>1. CASE j \in 1..Len(buffer) /\ t[j] = buffer[j]
        BY <1>7, <2>1, <3>1 DEF Pending, Distinct
      <3>2. CASE \E h \in 1..Len(b) : j = Len(buffer) + h /\ t[j] = b[h]
        BY <1>7, <2>1, <3>2 DEF Apart
      <3> QED BY <1>6, <3>1, <3>2
    <2>2. CASE \E g \in 1..Len(b) : i = Len(buffer) + g /\ t[i] = b[g]
      <3>1. PICK g \in 1..Len(b) : i = Len(buffer) + g /\ t[i] = b[g]
        BY <2>2
      <3>2. CASE j \in 1..Len(buffer) /\ t[j] = buffer[j]
        BY <1>7, <3>1, <3>2 DEF Apart
      <3>3. CASE \E h \in 1..Len(b) : j = Len(buffer) + h /\ t[j] = b[h]
        <4>1. PICK h \in 1..Len(b) : j = Len(buffer) + h /\ t[j] = b[h]
          BY <3>3
        <4>2. g = h
          BY <1>7, <3>1, <4>1 DEF Pending, Distinct
        <4> QED BY <3>1, <4>1, <4>2
      <3> QED BY <1>6, <3>2, <3>3
    <2> QED BY <1>6, <2>1, <2>2
  <1>9. Below(t, nextEvent) /\ Loose(t)
    BY <1>6, <1>7 DEF Pending, Below, Loose
  <1>10. Pending(buffer)' /\ Len(buffer') <= BufferMax
    BY <1>1, <1>4, <1>5, <1>8, <1>9 DEF Pending
  <1>11. ASSUME NEW g \in FlushRuns PROVE Pending(flush[g].batch)' /\ Apart(flush'[g].batch, t)
    <2>1. CASE g = f
      BY <1>2, <2>1, NoRows DEF Pending
    <2>2. CASE g # f
      <3>1. Apart(flush[g].batch, buffer) /\ Apart(flush[g].batch, b)
        BY <1>3, <2>2 DEF MemApart
      <3>2. Apart(flush[g].batch, t)
        BY <1>6, <3>1 DEF Apart
      <3>3. Pending(flush[g].batch)'
        BY <1>1, <1>2, <2>2 DEF MemPending, Pending
      <3> QED BY <1>2, <2>2, <3>2, <3>3
    <2> QED BY <2>1, <2>2
  <1>12. ASSUME NEW g \in FlushRuns, NEW h \in FlushRuns, g # h
         PROVE  Apart(flush'[g].batch, flush'[h].batch)
    <2>1. CASE g = f \/ h = f
      BY <1>2, <2>1, NoRows
    <2>2. CASE g # f /\ h # f
      BY <1>2, <1>12, <2>2 DEF MemApart
    <2> QED BY <2>1, <2>2
  <1>13. ASSUME NEW g \in FlushRuns, flush'[g].pc = "idle" PROVE flush'[g].batch = <<>>
    BY <1>2, <1>13 DEF MemApart
  <1>14. MemPending'
    BY <1>10, <1>11 DEF MemPending
  <1>15. MemApart'
    BY <1>4, <1>11, <1>12, <1>13 DEF MemApart
  <1> QED BY <1>2, <1>4, <1>14, <1>15 DEF MemWriter

(* Every step keeps the buffer and the batches apart and within bounds.    *)
LEMMA WriterStep ==
    ASSUME MemInv, [MemNext]_memVars
    PROVE  MemWriter
  <1>0. /\ MemTyped /\ MemPending /\ MemApart
        /\ nextEvent \in Nat /\ flush \in [FlushRuns -> MemFlushes]
        /\ nextEvent' \in Nat /\ nextEvent <= nextEvent'
    BY StoresStep DEF MemInv, MemTyped, MemStores
  <1>1. ASSUME UNCHANGED writer PROVE MemWriter
    <2>1. buffer' = buffer /\ flush' = flush
      BY <1>1 DEF writer
    <2> QED BY <1>0, <2>1, WriterStill
  <1>2. ASSUME buffer' = buffer, flush' = flush PROVE MemWriter
    BY <1>0, <1>2, WriterStill
  <1>3. ASSUME NEW f \in FlushRuns, FlushMoves(f), buffer' = buffer PROVE MemWriter
    BY <1>0, <1>3, FlushKeeps, WriterStill
  <1>4. ASSUME NEW f \in FlushRuns, EndFlush(f), buffer' = buffer, nextEvent' = nextEvent
        PROVE  MemWriter
    BY <1>0, <1>4, WriterEnds
  <1>5. ASSUME NEW c \in Loggers, LogStep(c) PROVE MemWriter
    <2>1. UNCHANGED writer
      BY <1>5 DEF LogStep, BeginPrimary, BeginFallback, Begin, RefusePrimary,
                  Cancel,
                  LandPrimary, LandFallback, RefuseFallback
    <2> QED BY <1>1, <2>1
  <1>6. ASSUME NEW f \in FlushRuns, FlushStep(f) PROVE MemWriter
    <2>1. CASE TakeBatch(f)
      BY <1>0, <2>1, WriterTakes
    <2>2. CASE FlushPrimary(f)
      <3>1. /\ flush[f].pc = "primary" /\ buffer' = buffer /\ nextEvent' = nextEvent
            /\ EndFlush(f) \/ flush' = [flush EXCEPT ![f].pc = "fallback"]
        BY <2>2 DEF FlushPrimary
      <3>2. flush' = [flush EXCEPT ![f].pc = "fallback"] => FlushMoves(f)
        BY <3>1 DEF FlushMoves
      <3> QED BY <1>3, <1>4, <3>1, <3>2
    <2>3. CASE FlushTimesOut(f)
      <3>1. /\ flush[f].pc = "primary" /\ buffer' = buffer
            /\ flush' = [flush EXCEPT ![f].pc = "fallback"]
        BY <2>3 DEF FlushTimesOut
      <3>2. FlushMoves(f)
        BY <3>1 DEF FlushMoves
      <3> QED BY <1>3, <3>1, <3>2
    <2>4. CASE FlushFallback(f)
      <3>1. /\ flush[f].pc = "fallback" /\ buffer' = buffer /\ nextEvent' = nextEvent
            /\ EndFlush(f) \/ flush' = [flush EXCEPT ![f].pc = "requeue"]
        BY <2>4 DEF FlushFallback
      <3>2. flush' = [flush EXCEPT ![f].pc = "requeue"] => FlushMoves(f)
        BY <3>1 DEF FlushMoves
      <3> QED BY <1>3, <1>4, <3>1, <3>2
    <2>5. CASE Requeue(f)
      BY <1>0, <2>5, WriterRequeues
    <2> QED BY <1>6, <2>1, <2>2, <2>3, <2>4, <2>5 DEF FlushStep
  <1>7. CASE Enqueue
    BY <1>0, <1>7, WriterEnqueues
  <1>8. CASE EnqueueSpills
    BY <1>1, <1>8 DEF EnqueueSpills
  <1>9. CASE Close \/ LoopEnds
    BY <1>2, <1>9 DEF Close, LoopEnds
  <1>10. CASE LoopCancelled
    <2>1. EndFlush(Loop) /\ buffer' = buffer /\ nextEvent' = nextEvent
      BY <1>10 DEF LoopCancelled
    <2> QED BY <1>4, <2>1, ConstantsAre
  <1>11. CASE UNCHANGED memVars
    BY <1>1, <1>11 DEF memVars
  <1> QED BY <1>5, <1>6, <1>7, <1>8, <1>9, <1>10, <1>11 DEF MemNext

(* What a step does to the calls.                                          *)
MemLinked == logging' \in [Loggers -> MemCalls] /\ MemLinking'

(* A call that begins, moves on or ends while the primary is as it was.    *)
LEMMA LinkMoves ==
    ASSUME MemTyped, MemLinking, NEW c \in Loggers, primary' = primary,
           CallBegins(c) \/ CallMoves(c) \/ CallEnds(c)
    PROVE  MemLinked
  <1>0. logging' \in [Loggers -> MemCalls] /\ logging \in [Loggers -> MemCalls]
    BY CallTyped DEF MemTyped
  <1>1. CASE CallBegins(c)
    <2>1. PICK s \in Sessions :
            /\ logging[c].pc = "idle"
            /\ \A o \in Loggers : logging[o].pc = "primary" => logging[o].sess # s
            /\ logging' = [logging EXCEPT ![c] = [pc |-> "primary", sess |-> s,
                                            prev |-> LastIn(primary, s)]]
      BY <1>1 DEF CallBegins
    <2>2. /\ logging'[c].pc = "primary" /\ logging'[c].sess = s /\ logging'[c].prev = LastIn(primary, s)
          /\ \A d \in Loggers : d # c => logging'[d] = logging[d]
      BY <1>0, <2>1
    <2> QED BY <1>0, <2>1, <2>2 DEF MemLinked, MemLinking
  <1>2. CASE CallMoves(c)
    <2>1. PICK at \in {"degraded", "fallback"}, p \in Ids \cup {None} :
            logging' = [logging EXCEPT ![c] = [pc |-> at, sess |-> logging[c].sess, prev |-> p]]
      BY <1>2 DEF CallMoves
    <2>2. /\ logging'[c].pc # "primary" /\ logging'[c].sess = logging[c].sess /\ logging[c].pc # "idle"
          /\ \A d \in Loggers : d # c => logging'[d] = logging[d]
      BY <1>0, <1>2, <2>1 DEF CallMoves
    <2> QED BY <1>0, <2>2 DEF MemLinked, MemLinking
  <1>3. CASE CallEnds(c)
    <2>1. logging'[c].pc = "idle" /\ \A d \in Loggers : d # c => logging'[d] = logging[d]
      BY <1>0, <1>3 DEF CallEnds, NotLogging
    <2> QED BY <1>0, <2>1 DEF MemLinked, MemLinking
  <1> QED BY <1>1, <1>2, <1>3

(* The primary takes a chained row: its bucket grows by a row that names   *)
(* the last one, and the other sessions are left alone.                    *)
LEMMA PrimaryLands ==
    ASSUME MemTyped, MemLinking, NEW c \in Loggers, LandPrimary(c)
    PROVE  /\ nextEvent \in Ids /\ logging[c].sess \in Sessions /\ logging[c].pc = "primary"
           /\ Bucket(primary', logging[c].sess) =
                Append(Bucket(primary, logging[c].sess),
                       [id |-> nextEvent, prev |-> LastIn(primary, logging[c].sess)])
           /\ \A s \in Sessions : s # logging[c].sess => Bucket(primary', s) = Bucket(primary, s)
  <1>1. /\ nextEvent \in Ids /\ logging[c].pc = "primary" /\ primary' = Append(primary, BuiltRow(c))
    BY DEF LandPrimary, Holding
  <1>2. PICK x \in Row :
          x = BuiltRow(c) /\ x.id = nextEvent /\ x.sess = logging[c].sess /\ x.prev = logging[c].prev
    BY <1>1, BuiltRows
  <1>3. logging[c].sess \in Sessions /\ logging[c].prev = LastIn(primary, logging[c].sess)
    BY <1>1 DEF MemLinking
  <1>4. primary \in Seq(Row) /\ primary' = Append(primary, x)
    BY <1>1, <1>2 DEF MemTyped
  <1>5. \A s : Bucket(Append(primary, x), s) =
             IF x.sess = s THEN Append(Bucket(primary, s), [id |-> x.id, prev |-> x.prev])
                           ELSE Bucket(primary, s)
    BY <1>4, BucketAppend
  <1>8. Bucket(primary', x.sess) = Append(Bucket(primary, x.sess), [id |-> x.id, prev |-> x.prev])
    BY <1>4, <1>5
  <1>9. Bucket(primary', logging[c].sess) =
          Append(Bucket(primary, logging[c].sess), [id |-> nextEvent, prev |-> LastIn(primary, logging[c].sess)])
    BY <1>2, <1>3, <1>8
  <1>10. \A s \in Sessions : s # logging[c].sess => Bucket(primary', s) = Bucket(primary, s)
    <2> SUFFICES ASSUME NEW s \in Sessions, s # logging[c].sess
                 PROVE  Bucket(primary', s) = Bucket(primary, s)
      OBVIOUS
    <2>1. x.sess # s
      BY <1>2
    <2>2. Bucket(Append(primary, x), s) = Bucket(primary, s)
      BY <1>5, <2>1
    <2> QED BY <1>4, <2>2, Zenon
  <1> QED BY <1>1, <1>3, <1>9, <1>10

(* A flush lands unchained rows only: no bucket changes.                   *)
LEMMA PrimaryFlushes ==
    ASSUME MemTyped, MemStocked, MemPending, NEW f \in FlushRuns, FlushPrimary(f)
    PROVE  \A s \in Sessions : Bucket(primary', s) = Bucket(primary, s)
  <1>1. PICK b \in Seq(Row) : b = flush[f].batch
    BY MemFields
  <1>2. primary' = Landed(primary, b, MaxPrimary)
    BY <1>1 DEF FlushPrimary
  <1>3. /\ Distinct(primary) /\ Len(primary) <= MaxPrimary /\ MaxPrimary \in Nat
        /\ primary \in Seq(Row) /\ Distinct(b) /\ Loose(b)
    BY <1>1, ConstantsAre DEF MemTyped, MemStocked, Stock, MemPending, Pending
  <1>4. PICK r \in Seq(Row) : r = Landed(primary, b, MaxPrimary) /\ Longer(r, primary, b)
    BY <1>3, LandedRows
  <1>5. primary' = r /\ Longer(r, primary, b)
    BY <1>2, <1>4
  <1>6. ASSUME NEW s \in Sessions PROVE Bucket(r, s) = Bucket(primary, s)
    <2>1. s # Unchained
      BY ConstantsAre
    <2> QED BY <1>3, <1>5, <2>1, BucketLonger
  <1> QED BY <1>5, <1>6

(* Apart from them no step touches a bucket: a step of the log appends one *)
(* linked row, or leaves all of them alone.                                *)
LEMMA BucketStep ==
    ASSUME MemInv, [MemNext]_memVars
    PROVE  \/ \E c \in Loggers : LandPrimary(c)
           \/ \A s \in Sessions : Bucket(primary', s) = Bucket(primary, s)
  <1>0. MemTyped /\ MemStocked /\ MemPending
    BY DEF MemInv
  <1>1. ASSUME primary' = primary PROVE \A s \in Sessions : Bucket(primary', s) = Bucket(primary, s)
    BY <1>1
  <1>2. ASSUME NEW c \in Loggers, LogStep(c) PROVE LandPrimary(c) \/ primary' = primary
    BY <1>2 DEF LogStep, BeginPrimary, BeginFallback, Begin, RefusePrimary,
                Cancel,
                LandFallback, RefuseFallback, stores
  <1>3. ASSUME NEW f \in FlushRuns, FlushStep(f) PROVE FlushPrimary(f) \/ primary' = primary
    BY <1>3 DEF FlushStep, TakeBatch, FlushTimesOut, FlushFallback, Requeue, stores
  <1>4. CASE Enqueue \/ EnqueueSpills \/ Close \/ LoopEnds \/ LoopCancelled \/ UNCHANGED memVars
    <2>1. primary' = primary
      BY <1>4 DEF Enqueue, EnqueueSpills, Close, LoopEnds, LoopCancelled, memVars,
                  stores
    <2> QED BY <1>1, <2>1
  <1>5. ASSUME NEW f \in FlushRuns, FlushPrimary(f)
        PROVE  \A s \in Sessions : Bucket(primary', s) = Bucket(primary, s)
    BY <1>0, <1>5, PrimaryFlushes
  <1> QED BY <1>1, <1>2, <1>3, <1>4, <1>5 DEF MemNext

(* The last row of a session is read off its bucket.                       *)
LEMMA LastIsLast ==
    ASSUME NEW q, NEW r, NEW s, Bucket(q, s) = Bucket(r, s)
    PROVE  LastIn(q, s) = LastIn(r, s)
  BY DEF LastIn

(* Every step keeps the calls linked to the rows they will follow.         *)
LEMMA LinkStep ==
    ASSUME MemInv, [MemNext]_memVars
    PROVE  MemLinked
  <1>0. MemTyped /\ MemLinking /\ logging \in [Loggers -> MemCalls]
    BY DEF MemInv, MemTyped
  <1>1. ASSUME NEW c \in Loggers, LandPrimary(c) PROVE MemLinked
    <2>1. /\ logging[c].sess \in Sessions /\ logging[c].pc = "primary"
          /\ \A s \in Sessions : s # logging[c].sess => Bucket(primary', s) = Bucket(primary, s)
      BY <1>0, <1>1, PrimaryLands
    <2>2. CallEnds(c)
      BY <1>1 DEF LandPrimary, CallEnds
    <2>3. logging'[c].pc = "idle" /\ \A d \in Loggers : d # c => logging'[d] = logging[d]
      BY <1>0, <2>2 DEF CallEnds, NotLogging
    <2>4. \A s \in Sessions : s # logging[c].sess => LastIn(primary', s) = LastIn(primary, s)
      BY <2>1, LastIsLast
    <2>5. \A d \in Loggers : d # c /\ logging[d].pc = "primary" => logging[d].sess # logging[c].sess
      BY <1>0, <2>1 DEF MemLinking
    <2>6. MemLinking'
      BY <1>0, <2>3, <2>4, <2>5 DEF MemLinking
    <2>7. logging' \in [Loggers -> MemCalls]
      BY <1>0, <2>2, CallTyped
    <2> QED BY <2>6, <2>7 DEF MemLinked
  <1>2. ASSUME NEW c \in Loggers, LogStep(c) PROVE MemLinked
    <2>1. ASSUME NEW s \in Sessions, BeginPrimary(c, s) PROVE MemLinked
      <3>1. CallBegins(c)
        BY <1>0, <2>1, CallShapes
      <3> QED BY <1>0, <3>1, LinkMoves DEF CallBegins
    <2>2. CASE RefusePrimary(c) \/ BeginFallback(c)
      <3>1. CallMoves(c)
        BY <1>0, <2>2, CallShapes
      <3> QED BY <1>0, <3>1, LinkMoves DEF CallMoves
    <2>3. CASE Cancel(c) \/ LandFallback(c) \/ RefuseFallback(c)
      <3>1. CallEnds(c) /\ primary' = primary
        BY <1>0, <2>3, CallShapes
      <3> QED BY <1>0, <3>1, LinkMoves
    <2> QED BY <1>1, <1>2, <2>1, <2>2, <2>3 DEF LogStep
  <1>3. ASSUME logging' = logging, \A c \in Loggers : ~LandPrimary(c) PROVE MemLinked
    <2>1. \A s \in Sessions : Bucket(primary', s) = Bucket(primary, s)
      BY <1>3, BucketStep
    <2>2. \A s \in Sessions : LastIn(primary', s) = LastIn(primary, s)
      BY <2>1, LastIsLast
    <2>3. MemLinking'
      BY <1>0, <1>3, <2>2 DEF MemLinking
    <2> QED BY <1>0, <1>3, <2>3 DEF MemLinked
  <1>4. ASSUME logging' = logging, NEW c \in Loggers, LandPrimary(c) PROVE MemLinked
    BY <1>1, <1>4
  <1>5. ASSUME logging' = logging PROVE MemLinked
    BY <1>3, <1>4, <1>5
  <1>6. ASSUME NEW f \in FlushRuns, FlushStep(f) PROVE logging' = logging
    BY <1>6 DEF FlushStep, TakeBatch, FlushPrimary, FlushTimesOut, FlushFallback,
                Requeue
  <1>7. CASE Enqueue \/ EnqueueSpills \/ Close \/ LoopEnds \/ LoopCancelled \/ UNCHANGED memVars
    <2>1. logging' = logging
      BY <1>7 DEF Enqueue, EnqueueSpills, Close, LoopEnds, LoopCancelled, memVars
    <2> QED BY <1>5, <2>1
  <1> QED BY <1>2, <1>5, <1>6, <1>7 DEF MemNext

(* What is kept of the events, or known to be lost.                        *)
Accounted(id) ==
    \/ id \in IdsOf(primary) \/ id \in IdsOf(fallback) \/ id \in IdsOf(buffer)
    \/ \E f \in FlushRuns : id \in IdsOf(flush[f].batch)
    \/ id \in cut \/ id \in torn
Lost == (logged \cup accepted) \ (Kept \cup cut \cup torn)

(* The events that are not, now and after a step.                          *)
LEMMA LostIs ==
    \A id : id \in Lost <=> (id \in logged \/ id \in accepted) /\ ~Accounted(id)
  BY DEF Lost, Accounted, Kept, InHand

(* ... and after a step.                                                   *)
LEMMA LostIsNext ==
    \A id : id \in Lost' <=> (id \in logged' \/ id \in accepted') /\ ~Accounted(id)'
  BY DEF Lost, Accounted, Kept, InHand

(* What a step does to the events promised.                                *)
MemHistory ==
    /\ logged' \in SUBSET Ids /\ accepted' \in SUBSET Ids
    /\ cut' \in SUBSET Ids /\ torn' \in SUBSET Ids
    /\ MemCounted'

(* A step loses no more than it counts: what was accounted for still is,   *)
(* or fell out of the ring, and so with what it promises.                  *)
LEMMA CountedBy ==
    ASSUME MemTyped, MemCounted, nextEvent' \in Nat, nextEvent <= nextEvent',
           NEW gone \in Seq(Row), evicted' = evicted + Len(gone),
           cut' \in SUBSET Ids, torn' \in SUBSET Ids,
           logged' \in SUBSET Ids, accepted' \in SUBSET Ids,
           \A id : Accounted(id) => Accounted(id)' \/ id \in IdsOf(gone),
           \A id \in logged' : id \in logged \/ (id < nextEvent' /\ (Accounted(id)' \/ id \in IdsOf(gone))),
           \A id \in accepted' : id \in accepted \/ (id < nextEvent' /\ (Accounted(id)' \/ id \in IdsOf(gone)))
    PROVE  MemHistory
  <1>0. /\ nextEvent \in Nat /\ evicted \in Nat /\ logged \in SUBSET Nat /\ accepted \in SUBSET Nat
        /\ \A id \in logged : id < nextEvent
        /\ \A id \in accepted : id < nextEvent
    BY ConstantsAre DEF MemTyped, MemCounted
  <1>1. ASSUME NEW id, id \in logged \/ id \in accepted PROVE id \in Nat /\ id <= nextEvent /\ id < nextEvent'
    <2>1. PICK n \in Nat : n = id /\ n < nextEvent
      BY <1>0, <1>1
    <2>2. n <= nextEvent /\ n < nextEvent'
      BY <1>0, <2>1
    <2> QED BY <2>1, <2>2
  <1>2. Lost \in SUBSET Nat /\ \A id \in Lost : id <= nextEvent
    BY <1>1, LostIs
  <1>3. IsFiniteSet(Lost)
    BY <1>0, <1>2, FS_BoundedSetOfNaturals
  <1>4. Cardinality(Lost) \in Nat /\ Cardinality(Lost) <= evicted
    BY <1>3, FS_CardinalityType DEF MemCounted, LossesCounted, Lost
  <1>5. /\ IsFiniteSet(IdsOf(gone)) /\ Cardinality(IdsOf(gone)) \in Nat
        /\ Cardinality(IdsOf(gone)) <= Len(gone) /\ Len(gone) \in Nat
    BY IdsCount
  <1>6. Lost' \in SUBSET (Lost \cup IdsOf(gone))
    <2> SUFFICES ASSUME NEW id \in Lost' PROVE id \in Lost \/ id \in IdsOf(gone)
      OBVIOUS
    <2>1. (id \in logged' \/ id \in accepted') /\ ~Accounted(id)'
      BY LostIsNext
    <2> QED BY <2>1, LostIs
  <1>7. /\ IsFiniteSet(Lost \cup IdsOf(gone))
        /\ Cardinality(Lost \cup IdsOf(gone)) \in Nat
        /\ Cardinality(Lost \cup IdsOf(gone)) <= Cardinality(Lost) + Cardinality(IdsOf(gone))
    <2>1. /\ IsFiniteSet(Lost \cup IdsOf(gone))
          /\ Cardinality(Lost \cup IdsOf(gone)) =
               Cardinality(Lost) + Cardinality(IdsOf(gone)) - Cardinality(Lost \cap IdsOf(gone))
      BY <1>3, <1>5, FS_Union
    <2>2. IsFiniteSet(Lost \cap IdsOf(gone)) /\ Cardinality(Lost \cap IdsOf(gone)) \in Nat
      <3>1. Lost \cap IdsOf(gone) \in SUBSET Lost
        OBVIOUS
      <3>2. IsFiniteSet(Lost \cap IdsOf(gone))
        BY <1>3, <3>1, FS_Subset
      <3> QED BY <3>2, FS_CardinalityType
    <2>3. Cardinality(Lost \cup IdsOf(gone)) \in Nat
      BY <2>1, FS_CardinalityType
    <2> QED BY <1>4, <1>5, <2>1, <2>2, <2>3
  <1>8. Cardinality(Lost') <= Cardinality(Lost \cup IdsOf(gone)) /\ Cardinality(Lost') \in Nat
    <2>1. IsFiniteSet(Lost') /\ Cardinality(Lost') <= Cardinality(Lost \cup IdsOf(gone))
      BY <1>6, <1>7, FS_Subset
    <2> QED BY <2>1, FS_CardinalityType
  <1>9. Cardinality(Lost') <= evicted'
    BY <1>0, <1>4, <1>5, <1>7, <1>8
  <1>10. LossesCounted'
    BY <1>9 DEF LossesCounted, Lost
  <1>11. /\ \A id \in logged' : id < nextEvent'
         /\ \A id \in accepted' : id < nextEvent'
    BY <1>1
  <1>12. MemCounted'
    BY <1>10, <1>11 DEF MemCounted
  <1> QED BY <1>12 DEF MemHistory

(* A step that evicts nothing.                                             *)
LEMMA CountedStill ==
    ASSUME MemTyped, MemCounted, nextEvent' \in Nat, nextEvent <= nextEvent',
           evicted' = evicted, cut' \in SUBSET Ids, torn' \in SUBSET Ids,
           logged' \in SUBSET Ids, accepted' \in SUBSET Ids,
           \A id : Accounted(id) => Accounted(id)',
           \A id \in logged' : id \in logged \/ (id < nextEvent' /\ Accounted(id)'),
           \A id \in accepted' : id \in accepted \/ (id < nextEvent' /\ Accounted(id)')
    PROVE  MemHistory
  <1>1. PICK gone \in Seq(Row) : gone = <<>>
    BY NoRows, Zenon
  <1>2. Len(gone) = 0 /\ evicted \in Nat
    BY <1>1 DEF MemTyped
  <1>3. evicted' = evicted + Len(gone)
    BY <1>2
  <1> QED BY <1>3, CountedBy

(* A fallback write keeps account of the events of its batch.              *)
LEMMA CountedTaken ==
    ASSUME MemTyped, MemStocked, MemCounted,
           nextEvent' \in Nat, nextEvent <= nextEvent',
           NEW batch \in Seq(Row), Distinct(batch), FallbackTakes(batch),
           primary' = primary, buffer' = buffer, cut' = cut, torn' = torn,
           \A f \in FlushRuns : \A id \in IdsOf(flush[f].batch) :
               id \in IdsOf(flush'[f].batch) \/ id \in IdsOf(batch),
           logged' \in SUBSET Ids, accepted' \in SUBSET Ids,
           \A id \in logged' : id \in logged \/ (id < nextEvent' /\ id \in IdsOf(batch)),
           \A id \in accepted' : id \in accepted \/ (id < nextEvent' /\ id \in IdsOf(batch))
    PROVE  MemHistory
  <1>1. fallback \in Seq(Row) /\ evicted \in Nat /\ Stock(fallback, MaxFallback)
    BY DEF MemTyped, MemStocked
  <1>2. PICK gone \in Seq(Row) :
          /\ evicted' = evicted + Len(gone)
          /\ \A id : id \in IdsOf(fallback) \/ id \in IdsOf(batch)
                       => id \in IdsOf(fallback') \/ id \in IdsOf(gone)
    BY <1>1, FallbackTaken, Zenon
  <1>3. ASSUME NEW id, id \in IdsOf(batch) PROVE Accounted(id)' \/ id \in IdsOf(gone)
    BY <1>2, <1>3 DEF Accounted
  <1>4. ASSUME NEW id, Accounted(id) PROVE Accounted(id)' \/ id \in IdsOf(gone)
    <2>1. CASE id \in IdsOf(fallback)
      BY <1>2, <2>1 DEF Accounted
    <2>2. ASSUME NEW f \in FlushRuns, id \in IdsOf(flush[f].batch)
          PROVE  Accounted(id)' \/ id \in IdsOf(gone)
      <3>1. id \in IdsOf(flush'[f].batch) \/ id \in IdsOf(batch)
        BY <2>2
      <3> QED BY <1>3, <3>1 DEF Accounted
    <2>3. CASE id \in IdsOf(primary) \/ id \in IdsOf(buffer) \/ id \in cut \/ id \in torn
      BY <2>3 DEF Accounted
    <2> QED BY <1>4, <2>1, <2>2, <2>3 DEF Accounted
  <1>5. cut' \in SUBSET Ids /\ torn' \in SUBSET Ids
    BY DEF MemTyped
  <1> QED BY <1>2, <1>3, <1>4, <1>5, CountedBy

(* The ids of rows are ids.                                                *)
LEMMA IdsType ==
    ASSUME NEW q \in Seq(Row)
    PROVE  IdsOf(q) \in SUBSET Ids
  <1>1. \A i \in 1..Len(q) : q[i] \in Row
    OBVIOUS
  <1>2. \A i \in 1..Len(q) : q[i].id \in Ids
    BY <1>1 DEF Row
  <1> QED BY <1>2, IdsAre

(* A requeue puts a row back or counts it as cut.                          *)
LEMMA CountedRequeue ==
    ASSUME MemTyped, MemPending, MemCounted, nextEvent' \in Nat, nextEvent <= nextEvent',
           NEW f \in FlushRuns, Requeue(f)
    PROVE  MemHistory
  <1>1. /\ EndFlush(f) /\ UNCHANGED stores /\ logged' = logged /\ accepted' = accepted
        /\ torn' = torn
    BY DEF Requeue
  <1>2. primary' = primary /\ fallback' = fallback /\ evicted' = evicted
    BY <1>1 DEF stores
  <1>3. PICK b \in Seq(Row) : b = flush[f].batch
    BY MemFields
  <1>4. PICK k \in Nat, p \in Seq(Row), r \in Seq(Row), t \in Seq(Row) :
          /\ k <= Len(b) /\ IsPrefix(p, b, k) /\ IsSuffix(r, b, k) /\ IsJoin(t, buffer, p)
          /\ buffer' = t /\ cut' = cut \cup IdsOf(r)
    BY <1>3, RequeueRows, Zenon
  <1>5. /\ \A i \in 1..Len(buffer) : i \in 1..Len(t) /\ t[i] = buffer[i]
        /\ \A i \in 1..k : Len(buffer) + i \in 1..Len(t) /\ t[Len(buffer) + i] = b[i]
        /\ \A j \in 1..Len(b) : j > k => \E i \in 1..Len(r) : r[i] = b[j]
    <2>1. /\ \A i \in 1..Len(buffer) : i \in 1..Len(t) /\ t[i] = buffer[i]
          /\ \A i \in 1..Len(p) : Len(buffer) + i \in 1..Len(t) /\ t[Len(buffer) + i] = p[i]
          /\ Len(p) = k /\ \A i \in 1..k : p[i] = b[i]
      BY <1>4, Zenon DEF IsPrefix, IsJoin
    <2>2. ASSUME NEW j \in 1..Len(b), j > k PROVE \E i \in 1..Len(r) : r[i] = b[j]
      <3>1. PICK i \in 1..Len(r) : j = k + i
        BY <1>4, <2>2 DEF IsSuffix
      <3>2. r[i] = b[k + i]
        BY <1>4 DEF IsSuffix
      <3> QED BY <3>1, <3>2
    <2> QED BY <2>1, <2>2
  <1>6. ASSUME NEW id \in IdsOf(buffer) PROVE id \in IdsOf(t)
    BY <1>5, IdsAre
  <1>7. ASSUME NEW id \in IdsOf(b) PROVE id \in IdsOf(t) \/ id \in IdsOf(r)
    <2>1. PICK j \in 1..Len(b) : b[j].id = id
      BY IdsAre
    <2>2. CASE j > k
      BY <1>5, <2>1, <2>2, IdsAre
    <2>3. CASE ~(j > k)
      <3>1. j \in 1..k
        BY <2>3
      <3>2. Len(buffer) + j \in 1..Len(t) /\ t[Len(buffer) + j].id = id
        BY <1>5, <2>1, <3>1
      <3> QED BY <3>2, IdsAre
    <2> QED BY <2>2, <2>3
  <1>8. \A g \in FlushRuns : g # f => flush'[g] = flush[g]
    BY <1>1, FlushSets, NoRows DEF EndFlush
  <1>9. ASSUME NEW id, Accounted(id) PROVE Accounted(id)'
    <2>1. CASE id \in IdsOf(buffer)
      BY <1>4, <1>6, <2>1 DEF Accounted
    <2>2. ASSUME NEW g \in FlushRuns, id \in IdsOf(flush[g].batch) PROVE Accounted(id)'
      <3>1. CASE g = f
        <4>1. id \in IdsOf(buffer') \/ id \in cut'
          BY <1>3, <1>4, <1>7, <2>2, <3>1
        <4> QED BY <4>1 DEF Accounted
      <3>2. CASE g # f
        BY <1>8, <2>2, <3>2 DEF Accounted
      <3> QED BY <3>1, <3>2
    <2>3. CASE id \in IdsOf(primary) \/ id \in IdsOf(fallback) \/ id \in cut \/ id \in torn
      BY <1>1, <1>2, <1>4, <2>3 DEF Accounted
    <2> QED BY <1>9, <2>1, <2>2, <2>3 DEF Accounted
  <1>10. cut' \in SUBSET Ids /\ torn' \in SUBSET Ids
    BY <1>1, <1>4, IdsType DEF MemTyped
  <1>11. logged' \in SUBSET Ids /\ accepted' \in SUBSET Ids
    BY <1>1 DEF MemTyped
  <1> QED BY <1>1, <1>2, <1>9, <1>10, <1>11, CountedStill

(* Every step keeps account of what was promised.                          *)
LEMMA CountStep ==
    ASSUME MemInv, [MemNext]_memVars
    PROVE  MemHistory
  <1>0. /\ MemTyped /\ MemStocked /\ MemPending /\ MemApart /\ MemCounted
        /\ nextEvent \in Nat /\ nextEvent' \in Nat /\ nextEvent <= nextEvent'
        /\ logged \in SUBSET Ids /\ accepted \in SUBSET Ids
        /\ cut \in SUBSET Ids /\ torn \in SUBSET Ids
        /\ flush \in [FlushRuns -> MemFlushes] /\ primary \in Seq(Row) /\ buffer \in Seq(Row)
        /\ fallback \in Seq(Row) /\ evicted \in Nat
        /\ \A f \in FlushRuns : flush[f].batch \in Seq(Row)
    BY StoresStep, MemFields DEF MemInv, MemTyped, MemStores
  <1>1. ASSUME UNCHANGED stores, UNCHANGED history, buffer' = buffer,
               \A f \in FlushRuns : flush'[f].batch = flush[f].batch
        PROVE  MemHistory
    <2>1. /\ primary' = primary /\ fallback' = fallback /\ evicted' = evicted
          /\ logged' = logged /\ accepted' = accepted /\ cut' = cut /\ torn' = torn
      BY <1>1 DEF stores, history
    <2>2. \A id : Accounted(id) => Accounted(id)'
      BY <1>1, <2>1 DEF Accounted
    <2> QED BY <1>0, <2>1, <2>2, CountedStill
  <1>3. PICK n \in Nat : n = nextEvent
    BY <1>0
  <1>2. ASSUME NEW c \in Loggers, LogStep(c) PROVE MemHistory
    <2>1. CASE (\E s \in Sessions : BeginPrimary(c, s)) \/ RefusePrimary(c) \/ BeginFallback(c)
               \/ Cancel(c)
      <3>1. UNCHANGED stores /\ UNCHANGED history /\ buffer' = buffer /\ flush' = flush
        BY <2>1 DEF BeginPrimary, BeginFallback, Begin, RefusePrimary, Cancel,
                    writer
      <3> QED BY <1>1, <3>1
    <2>2. CASE LandPrimary(c)
      <3>1. /\ nextEvent \in Ids /\ primary' = Append(primary, BuiltRow(c)) /\ nextEvent' = nextEvent + 1
            /\ fallback' = fallback /\ evicted' = evicted /\ buffer' = buffer /\ flush' = flush
            /\ cut' = cut /\ torn' = torn /\ accepted' = accepted
            /\ logged' = logged \cup {nextEvent}
        BY <2>2 DEF LandPrimary, writer
      <3>2. PICK x \in Row : x = BuiltRow(c) /\ x.id = nextEvent
        BY <1>0, <3>1, BuiltRows
      <3>3. Distinct(primary) /\ Below(primary, x.id)
        BY <1>0, <3>2 DEF MemStocked, Stock
      <3>4. PICK t \in Seq(Row) : t = Append(primary, x) /\ x.id \in IdsOf(t) /\ Holds(t, primary)
        BY <1>0, <3>3, AppendFresh
      <3>5. primary' = t /\ nextEvent \in IdsOf(t) /\ \A id \in IdsOf(primary) : id \in IdsOf(t)
        BY <3>1, <3>2, <3>4 DEF Holds
      <3>6. \A id : Accounted(id) => Accounted(id)'
        BY <3>1, <3>5 DEF Accounted
      <3>7. Accounted(n)' /\ n < nextEvent'
        BY <1>0, <1>3, <3>1, <3>5 DEF Accounted
      <3>8. \A id \in logged' : id \in logged \/ (id < nextEvent' /\ Accounted(id)')
        BY <1>3, <3>1, <3>7
      <3>9. logged' \in SUBSET Ids
        BY <1>0, <3>1
      <3> QED BY <1>0, <3>1, <3>6, <3>8, <3>9, CountedStill
    <2>3. CASE LandFallback(c)
      <3>1. /\ nextEvent \in Ids /\ FallbackTakes(<<BuiltRow(c)>>) /\ nextEvent' = nextEvent + 1
            /\ primary' = primary /\ buffer' = buffer /\ flush' = flush
            /\ cut' = cut /\ torn' = torn /\ accepted' = accepted
            /\ logged' = logged \cup {nextEvent}
        BY <2>3 DEF LandFallback, writer
      <3>2. BuiltRow(c) \in Row /\ BuiltRow(c).id = nextEvent
        BY <1>0, <3>1, BuiltRows
      <3>3. PICK b \in Seq(Row) : b = <<BuiltRow(c)>> /\ Distinct(b) /\ nextEvent \in IdsOf(b)
        BY <3>2, OneRow
      <3>4. logged' \in SUBSET Ids /\ nextEvent < nextEvent'
        BY <1>0, <3>1
      <3>5. \A id \in logged' : id \in logged \/ (id < nextEvent' /\ id \in IdsOf(b))
        BY <3>1, <3>3, <3>4
      <3>6. FallbackTakes(b) /\ Distinct(b)
        BY <3>1, <3>3, Zenon
      <3> QED BY <1>0, <3>1, <3>4, <3>5, <3>6, CountedTaken
    <2>4. CASE RefuseFallback(c)
      <3>1. UNCHANGED stores
        BY <1>0, <2>4, RefusedStill
      <3>2. UNCHANGED history /\ buffer' = buffer /\ flush' = flush
        BY <2>4 DEF RefuseFallback, writer
      <3> QED BY <1>1, <3>1, <3>2
    <2> QED BY <1>2, <2>1, <2>2, <2>3, <2>4 DEF LogStep
  <1>4. ASSUME NEW f \in FlushRuns, FlushStep(f) PROVE MemHistory
    <2>0. PICK b \in Seq(Row) : b = flush[f].batch /\ Distinct(b)
      BY <1>0 DEF MemPending, Pending
    <2>00. b = flush[f].batch /\ Distinct(b)
      BY <2>0
    <2>1. CASE TakeBatch(f)
      <3>1. /\ flush[f].pc = "idle" /\ buffer' = <<>>
            /\ flush' = [flush EXCEPT ![f] = [pc |-> "primary", batch |-> buffer]]
            /\ UNCHANGED stores /\ UNCHANGED history
        BY <2>1 DEF TakeBatch
      <3>2. flush'[f].batch = buffer /\ \A g \in FlushRuns : g # f => flush'[g] = flush[g]
        BY <1>0, <3>1
      <3>3. flush[f].batch = <<>>
        BY <1>0, <3>1 DEF MemApart
      <3>4. /\ primary' = primary /\ fallback' = fallback /\ evicted' = evicted
            /\ logged' = logged /\ accepted' = accepted /\ cut' = cut /\ torn' = torn
        BY <3>1 DEF stores, history
      <3>5. ASSUME NEW id, Accounted(id) PROVE Accounted(id)'
        <4>1. CASE id \in IdsOf(buffer)
          BY <3>2, <4>1 DEF Accounted
        <4>2. ASSUME NEW g \in FlushRuns, id \in IdsOf(flush[g].batch) PROVE Accounted(id)'
          <5>1. g # f
            BY <3>3, <4>2, NoRows
          <5> QED BY <3>2, <4>2, <5>1 DEF Accounted
        <4>3. CASE id \in IdsOf(primary) \/ id \in IdsOf(fallback) \/ id \in cut \/ id \in torn
          BY <3>4, <4>3 DEF Accounted
        <4> QED BY <3>5, <4>1, <4>2, <4>3 DEF Accounted
      <3> QED BY <1>0, <3>4, <3>5, CountedStill
    <2>2. CASE FlushPrimary(f)
      <3>1. /\ primary' = Landed(primary, b, MaxPrimary) /\ fallback' = fallback
            /\ evicted' = evicted /\ buffer' = buffer /\ UNCHANGED history
            /\ flush[f].pc = "primary"
            /\ IF Fits(primary, b, MaxPrimary)
                 THEN EndFlush(f) ELSE flush' = [flush EXCEPT ![f].pc = "fallback"]
        BY <2>00, <2>2 DEF FlushPrimary
      <3>2. Distinct(primary) /\ Len(primary) <= MaxPrimary /\ MaxPrimary \in Nat
        BY <1>0, ConstantsAre DEF MemStocked, Stock
      <3>3. PICK r \in Seq(Row) :
              /\ r = Landed(primary, b, MaxPrimary) /\ Holds(r, primary)
              /\ Fits(primary, b, MaxPrimary) => Holds(r, b)
        BY <1>0, <2>00, <3>2, LandedRows
      <3>4. /\ \A id \in IdsOf(primary) : id \in IdsOf(primary')
            /\ Fits(primary, b, MaxPrimary) => \A id \in IdsOf(b) : id \in IdsOf(primary')
        BY <3>1, <3>3, Zenon DEF Holds
      <3>5. /\ logged' = logged /\ accepted' = accepted /\ cut' = cut /\ torn' = torn
        BY <3>1 DEF history
      <3>6. ASSUME NEW g \in FlushRuns, NEW id \in IdsOf(flush[g].batch) PROVE Accounted(id)'
        <4>1. CASE Fits(primary, b, MaxPrimary)
          <5>1. \A h \in FlushRuns : h # f => flush'[h] = flush[h]
            BY <1>0, <3>1, <4>1, FlushSets, NoRows DEF EndFlush
          <5>2. CASE g = f
            BY <2>00, <3>4, <4>1, <5>2 DEF Accounted
          <5>3. CASE g # f
            BY <5>1, <5>3 DEF Accounted
          <5> QED BY <5>2, <5>3
        <4>2. CASE ~Fits(primary, b, MaxPrimary)
          <5>1. FlushMoves(f)
            BY <3>1, <4>2 DEF FlushMoves
          <5>2. flush'[g].batch = flush[g].batch
            BY <1>0, <5>1, FlushKeeps
          <5> QED BY <5>2 DEF Accounted
        <4> QED BY <4>1, <4>2
      <3>7. ASSUME NEW id, Accounted(id) PROVE Accounted(id)'
        <4>1. CASE id \in IdsOf(primary)
          BY <3>4, <4>1 DEF Accounted
        <4>2. CASE id \in IdsOf(fallback) \/ id \in IdsOf(buffer) \/ id \in cut \/ id \in torn
          BY <3>1, <3>5, <4>2 DEF Accounted
        <4> QED BY <3>6, <3>7, <4>1, <4>2 DEF Accounted
      <3> QED BY <1>0, <3>1, <3>5, <3>7, CountedStill
    <2>3. CASE FlushTimesOut(f)
      <3>1. /\ flush[f].pc = "primary" /\ buffer' = buffer
            /\ flush' = [flush EXCEPT ![f].pc = "fallback"]
            /\ UNCHANGED stores /\ UNCHANGED history
        BY <2>3 DEF FlushTimesOut
      <3>2. FlushMoves(f)
        BY <3>1 DEF FlushMoves
      <3>3. \A g \in FlushRuns : flush'[g].batch = flush[g].batch
        BY <1>0, <3>2, FlushKeeps
      <3> QED BY <1>1, <3>1, <3>3
    <2>4. ASSUME FlushFallback(f), FallbackTakes(b), EndFlush(f) PROVE MemHistory
      <3>1. /\ primary' = primary /\ buffer' = buffer /\ logged' = logged
            /\ accepted' = accepted /\ cut' = cut /\ torn' = torn
        BY <2>4 DEF FlushFallback, history
      <3>2. \A g \in FlushRuns : g # f => flush'[g] = flush[g]
        BY <1>0, <2>4, FlushSets, NoRows DEF EndFlush
      <3>3. \A g \in FlushRuns : \A id \in IdsOf(flush[g].batch) :
               id \in IdsOf(flush'[g].batch) \/ id \in IdsOf(b)
        BY <2>00, <3>2
      <3> QED BY <1>0, <2>00, <2>4, <3>1, <3>3, CountedTaken
    <2>5. ASSUME FlushFallback(f), FallbackRefuses(b),
                 flush' = [flush EXCEPT ![f].pc = "requeue"] PROVE MemHistory
      <3>1. /\ primary' = primary /\ buffer' = buffer /\ logged' = logged
            /\ accepted' = accepted /\ cut' = cut /\ torn' = torn /\ flush[f].pc = "fallback"
        BY <2>5 DEF FlushFallback, history
      <3>2. Stock(fallback, MaxFallback)
        BY <1>0 DEF MemStocked
      <3>3. evicted' = evicted /\ Holds(fallback', fallback)
        BY <1>0, <2>00, <2>5, <3>2, FallbackRefused, Zenon
      <3>4. FlushMoves(f)
        BY <2>5, <3>1 DEF FlushMoves
      <3>5. \A g \in FlushRuns : flush'[g].batch = flush[g].batch
        BY <1>0, <3>4, FlushKeeps
      <3>6. \A id : Accounted(id) => Accounted(id)'
        BY <3>1, <3>3, <3>5 DEF Accounted, Holds
      <3> QED BY <1>0, <3>1, <3>3, <3>6, CountedStill
    <2>6. CASE FlushFallback(f)
      <3>1. \/ FallbackTakes(b) /\ EndFlush(f)
            \/ FallbackRefuses(b) /\ flush' = [flush EXCEPT ![f].pc = "requeue"]
        BY <2>00, <2>6 DEF FlushFallback
      <3> QED BY <2>4, <2>5, <2>6, <3>1
    <2>7. CASE Requeue(f)
      BY <1>0, <2>7, CountedRequeue
    <2> QED BY <1>4, <2>1, <2>2, <2>3, <2>6, <2>7 DEF FlushStep
  <1>5. CASE Enqueue
    <2>1. /\ nextEvent \in Ids /\ buffer' = Append(buffer, FreshRow) /\ nextEvent' = nextEvent + 1
          /\ accepted' = accepted \cup {nextEvent} /\ UNCHANGED stores
          /\ flush' = flush /\ logged' = logged /\ cut' = cut /\ torn' = torn
      BY <1>5 DEF Enqueue
    <2>2. primary' = primary /\ fallback' = fallback /\ evicted' = evicted
      BY <2>1 DEF stores
    <2>3. PICK x \in Row : x = FreshRow /\ x.id = nextEvent
      BY <1>0, <2>1, BuiltRows
    <2>4. Distinct(buffer) /\ Below(buffer, x.id)
      BY <1>0, <2>3 DEF MemPending, Pending
    <2>5. PICK t \in Seq(Row) : t = Append(buffer, x) /\ x.id \in IdsOf(t) /\ Holds(t, buffer)
      BY <1>0, <2>4, AppendFresh
    <2>6. buffer' = t /\ nextEvent \in IdsOf(t) /\ \A id \in IdsOf(buffer) : id \in IdsOf(t)
      BY <2>1, <2>3, <2>5 DEF Holds
    <2>7. \A id : Accounted(id) => Accounted(id)'
      BY <2>1, <2>2, <2>6 DEF Accounted
    <2>8. Accounted(n)' /\ n < nextEvent'
      BY <1>0, <1>3, <2>1, <2>6 DEF Accounted
    <2>9. \A id \in accepted' : id \in accepted \/ (id < nextEvent' /\ Accounted(id)')
      BY <1>3, <2>1, <2>8
    <2>10. accepted' \in SUBSET Ids
      BY <1>0, <2>1
    <2> QED BY <1>0, <2>1, <2>2, <2>7, <2>9, <2>10, CountedStill
  <1>6. CASE EnqueueSpills
    <2>1. /\ nextEvent \in Ids /\ nextEvent' = nextEvent + 1 /\ primary' = primary
          /\ buffer' = buffer /\ flush' = flush /\ logged' = logged
          /\ cut' = cut /\ torn' = torn
      BY <1>6 DEF EnqueueSpills, writer
    <2>2. FreshRow \in Row /\ FreshRow.id = nextEvent
      BY <1>0, <2>1, BuiltRows
    <2>3. PICK b \in Seq(Row) : b = <<FreshRow>> /\ Distinct(b) /\ nextEvent \in IdsOf(b)
      BY <2>2, OneRow
    <2>4. Distinct(b) /\ nextEvent \in IdsOf(b) /\ nextEvent < nextEvent'
      BY <1>0, <2>1, <2>3
    <2>5. \/ FallbackTakes(b) /\ accepted' = accepted \cup {nextEvent}
          \/ FallbackRefuses(b) /\ accepted' = accepted
      BY <1>6, <2>3, Zenon DEF EnqueueSpills
    <2>6. CASE FallbackTakes(b) /\ accepted' = accepted \cup {nextEvent}
      <3>1. accepted' \in SUBSET Ids
        BY <1>0, <2>1, <2>6
      <3>2. \A id \in accepted' : id \in accepted \/ (id < nextEvent' /\ id \in IdsOf(b))
        BY <2>4, <2>6
      <3> QED BY <1>0, <2>1, <2>4, <2>6, <3>1, <3>2, CountedTaken
    <2>7. CASE FallbackRefuses(b) /\ accepted' = accepted
      <3>1. Stock(fallback, MaxFallback)
        BY <1>0 DEF MemStocked
      <3>2. evicted' = evicted /\ Holds(fallback', fallback)
        BY <1>0, <2>4, <2>7, <3>1, FallbackRefused, Zenon
      <3>3. \A id : Accounted(id) => Accounted(id)'
        BY <2>1, <3>2 DEF Accounted, Holds
      <3> QED BY <1>0, <2>1, <2>7, <3>2, <3>3, CountedStill
    <2> QED BY <2>5, <2>6, <2>7
  <1>7. CASE Close \/ LoopEnds
    <2>1. UNCHANGED stores /\ UNCHANGED history /\ buffer' = buffer /\ flush' = flush
      BY <1>7 DEF Close, LoopEnds
    <2> QED BY <1>1, <2>1
  <1>8. CASE LoopCancelled
    <2>1. /\ torn' = torn \cup IdsOf(flush[Loop].batch) /\ EndFlush(Loop) /\ UNCHANGED stores
          /\ buffer' = buffer /\ logged' = logged /\ accepted' = accepted /\ cut' = cut
      BY <1>8 DEF LoopCancelled
    <2>2. primary' = primary /\ fallback' = fallback /\ evicted' = evicted
      BY <2>1 DEF stores
    <2>3. Loop \in FlushRuns
      BY ConstantsAre
    <2>4. \A g \in FlushRuns : g # Loop => flush'[g] = flush[g]
      BY <1>0, <2>1, <2>3, FlushSets, NoRows DEF EndFlush
    <2>5. torn' \in SUBSET Ids
      BY <1>0, <2>1, <2>3, IdsType
    <2>6. ASSUME NEW id, Accounted(id) PROVE Accounted(id)'
      <3>1. ASSUME NEW g \in FlushRuns, id \in IdsOf(flush[g].batch) PROVE Accounted(id)'
        BY <2>1, <2>4, <3>1 DEF Accounted
      <3>2. CASE id \in IdsOf(primary) \/ id \in IdsOf(fallback) \/ id \in IdsOf(buffer)
                 \/ id \in cut \/ id \in torn
        BY <2>1, <2>2, <3>2 DEF Accounted
      <3> QED BY <2>6, <3>1, <3>2 DEF Accounted
    <2> QED BY <1>0, <2>1, <2>2, <2>5, <2>6, CountedStill
  <1>9. CASE UNCHANGED memVars
    <2>1. UNCHANGED stores /\ UNCHANGED history /\ buffer' = buffer /\ flush' = flush
      BY <1>9 DEF memVars, writer
    <2> QED BY <1>1, <2>1
  <1> QED BY <1>2, <1>4, <1>5, <1>6, <1>7, <1>8, <1>9 DEF MemNext

(* An empty store has empty buckets.                                       *)
LEMMA BucketEmpty ==
    ASSUME NEW rows \in Seq(Row), Len(rows) = 0, NEW s
    PROVE  Bucket(rows, s) = <<>>
  <1>1. OfSess(rows, s) = {}
    BY DEF OfSess
  <1>2. Cardinality(OfSess(rows, s)) = 0
    BY <1>1, FS_EmptySet
  <1>3. PICK own \in Seq(Row) : own = RowsAt(rows, OfSess(rows, s)) /\ Bucket(rows, s) = Shown(own)
    BY BucketIs, Zenon
  <1>4. Len(own) = 0
    <2>1. Len(RowsAt(rows, OfSess(rows, s))) = Cardinality(OfSess(rows, s))
      BY BucketIs, RowsAtRows, Zenon
    <2> QED BY <1>2, <1>3, <2>1
  <1>5. PICK b \in Seq(LogRow) : b = Shown(own) /\ Len(b) = Len(own)
    BY ShownRows, Zenon
  <1>6. b = <<>>
    BY <1>4, <1>5
  <1> QED BY <1>3, <1>5, <1>6

(* At the start there is nothing at all.                                   *)
LEMMA MemInvInit ==
    ASSUME MemInit
    PROVE  MemInv
  <1>1. /\ primary = <<>> /\ fallback = <<>> /\ buffer = <<>> /\ evicted = 0 /\ nextEvent = 1
        /\ onFull \in {"evict", "raise"} /\ closing = "open"
        /\ logging = [c \in Loggers |-> NotLogging]
        /\ flush = [f \in FlushRuns |-> [pc |-> "idle", batch |-> <<>>]]
        /\ logged = {} /\ accepted = {} /\ cut = {} /\ torn = {}
    BY DEF MemInit
  <1>2. /\ <<>> \in Seq(Row) /\ Len(<<>>) = 0
    OBVIOUS
  <1>3. /\ \A f \in FlushRuns : flush[f].batch = <<>> /\ flush[f].pc = "idle"
        /\ \A c \in Loggers : logging[c].pc = "idle"
    BY <1>1 DEF NotLogging
  <1>4. MemTyped
    <2>1. NotLogging \in MemCalls
      BY DEF NotLogging, MemCalls
    <2>2. [pc |-> "idle", batch |-> <<>>] \in MemFlushes
      BY <1>2 DEF MemFlushes
    <2>3. logging \in [Loggers -> MemCalls] /\ flush \in [FlushRuns -> MemFlushes]
      BY <1>1, <2>1, <2>2
    <2> QED BY <1>1, <1>2, <2>3 DEF MemTyped
  <1>5. /\ \A max \in Nat : Stock(<<>>, max)
        /\ Pending(<<>>) /\ Apart(<<>>, <<>>)
    BY <1>2 DEF Stock, Pending, Distinct, Below, Loose, Apart
  <1>6. MemStocked
    BY <1>1, <1>5, ConstantsAre DEF MemStocked
  <1>7. MemPending
    BY <1>1, <1>2, <1>3, <1>5, ConstantsAre DEF MemPending
  <1>8. MemApart
    BY <1>1, <1>3, <1>5 DEF MemApart
  <1>9. MemLinking
    BY <1>3 DEF MemLinking
  <1>10. MemCounted
    <2>1. (logged \cup accepted) \ (Kept \cup cut \cup torn) = {}
      BY <1>1
    <2>2. Cardinality({}) = 0
      BY FS_EmptySet
    <2>3. LossesCounted
      BY <1>1, <2>1, <2>2 DEF LossesCounted
    <2> QED BY <1>1, <2>3 DEF MemCounted
  <1> QED BY <1>4, <1>6, <1>7, <1>8, <1>9, <1>10 DEF MemInv

(* Every step keeps the invariant.                                         *)
LEMMA MemInvStep ==
    ASSUME MemInv, [MemNext]_memVars
    PROVE  MemInv'
  <1>1. MemStores /\ MemWriter /\ MemLinked /\ MemHistory
    BY StoresStep, WriterStep, LinkStep, CountStep
  <1>2. onFull' = onFull
    <2>1. ASSUME NEW c \in Loggers, LogStep(c) PROVE onFull' = onFull
      BY <2>1 DEF LogStep, BeginPrimary, BeginFallback, Begin, LandPrimary,
                  RefusePrimary,
                  LandFallback, RefuseFallback, Cancel
    <2>2. ASSUME NEW f \in FlushRuns, FlushStep(f) PROVE onFull' = onFull
      BY <2>2 DEF FlushStep, TakeBatch, FlushPrimary, FlushTimesOut, FlushFallback,
                  Requeue
    <2> QED BY <2>1, <2>2 DEF MemNext, Enqueue, EnqueueSpills, Close, LoopEnds,
                              LoopCancelled, memVars
  <1>3. closing' = closing \/ closing' \in {"closed", "done"}
    <2>1. ASSUME NEW c \in Loggers, LogStep(c) PROVE closing' = closing
      BY <2>1 DEF LogStep, BeginPrimary, BeginFallback, Begin, LandPrimary,
                  RefusePrimary,
                  LandFallback, RefuseFallback, Cancel, writer
    <2>2. ASSUME NEW f \in FlushRuns, FlushStep(f) PROVE closing' = closing
      BY <2>2 DEF FlushStep, TakeBatch, FlushPrimary, FlushTimesOut, FlushFallback,
                  Requeue
    <2> QED BY <2>1, <2>2 DEF MemNext, Enqueue, EnqueueSpills, Close, LoopEnds,
                              LoopCancelled, memVars, writer
  <1>4. onFull' \in {"evict", "raise"} /\ closing' \in {"open", "closed", "done"}
    BY <1>2, <1>3 DEF MemInv, MemTyped
  <1>5. MemTyped'
    BY <1>1, <1>4 DEF MemTyped, MemStores, MemWriter, MemLinked, MemHistory
  <1> QED BY <1>1, <1>5 DEF MemInv, MemStores, MemWriter, MemLinked, MemHistory

(* So it always holds.                                                     *)
LEMMA MemInvariant == MemSpec => []MemInv
  BY MemInvInit, MemInvStep, PTL DEF MemSpec

(* Memory stays bounded: for any caps, any buffer and any number of calls  *)
(* and flushes of _flush_once that interleave, the stores and the buffer   *)
(* keep within their limits and no store holds an event twice              *)
(* (max_events and buffer_max of store.py).                                *)
THEOREM MemoryBounded == MemSpec => []Bounded
  <1>1. ASSUME MemInv PROVE Bounded
    <2>1. /\ primary \in Seq(Row) /\ fallback \in Seq(Row)
          /\ logging \in [Loggers -> MemCalls] /\ flush \in [FlushRuns -> MemFlushes]
      BY <1>1 DEF MemInv, MemTyped
    <2>2. /\ \A c \in Loggers : logging[c] \in MemCalls
          /\ \A f \in FlushRuns : flush[f] \in MemFlushes
      BY <2>1
    <2>3. /\ \A c \in Loggers :
               /\ logging[c].pc \in {"idle", "primary", "degraded", "fallback"}
               /\ logging[c].prev \in Ids \cup {None}
          /\ \A f \in FlushRuns :
               /\ flush[f].pc \in {"idle", "primary", "fallback", "requeue"}
               /\ flush[f].batch \in Seq(Row)
      BY <2>2 DEF MemCalls, MemFlushes
    <2>4. MemTypeOK
      BY <1>1, <2>3 DEF MemTypeOK, MemInv, MemTyped
    <2>5. /\ Len(primary) <= MaxPrimary /\ Len(fallback) <= MaxFallback
          /\ Len(buffer) <= BufferMax /\ Distinct(primary) /\ Distinct(fallback)
      BY <1>1 DEF MemInv, MemStocked, MemPending, Stock
    <2>6. /\ Cardinality(IdsOf(primary)) = Len(primary)
          /\ Cardinality(IdsOf(fallback)) = Len(fallback)
      BY <2>1, <2>5, IdsCount
    <2> QED BY <2>4, <2>5, <2>6 DEF Bounded
  <1> QED BY <1>1, MemInvariant, PTL

(* No event is lost unseen: what log() returned or enqueue() took is kept  *)
(* somewhere, or is among what the ring counts in evicted_total, what a    *)
(* requeue had no room for and what a cancelled flush held, whatever the   *)
(* caps and however the flushes overlap.                                   *)
THEOREM MemoryLossesCounted == MemSpec => []LossesCounted
  <1>1. MemInv => LossesCounted
    BY DEF MemInv, MemCounted
  <1> QED BY <1>1, MemInvariant, PTL

(* The chained sessions of the primary are the atomic linked append of     *)
(* ChainLog, for any number of concurrent log() calls, also when one of    *)
(* them is cancelled or refused at the cap (insert_with_chain_lock of      *)
(* InMemoryAuditStore).                                                    *)
THEOREM MemoryImplementsChainLog == MemSpec => ImplementsChainLog
  <1> DEFINE Now == [s \in Sessions |-> Bucket(primary, s)]
             Then == [s \in Sessions |-> Bucket(primary', s)]
  <1>1. ASSUME MemInit PROVE Atomic!LogInit
    <2>1. primary = <<>>
      BY <1>1 DEF MemInit
    <2>2. \A s \in Sessions : Bucket(primary, s) = <<>>
      <3> SUFFICES ASSUME NEW s \in Sessions PROVE Bucket(primary, s) = <<>>
        OBVIOUS
      <3>1. primary \in Seq(Row) /\ Len(primary) = 0
        BY <2>1
      <3> QED BY <3>1, BucketEmpty
    <2> QED BY <2>2 DEF Atomic!LogInit
  <1>2. ASSUME MemInv, [MemNext]_memVars PROVE [Atomic!LogNext]_Now
    <2>1. ASSUME NEW c \in Loggers, LandPrimary(c) PROVE Atomic!LogNext
      <3>1. MemTyped /\ MemLinking
        BY <1>2 DEF MemInv
      <3>2. PICK s \in Sessions, id \in Ids :
              /\ Bucket(primary', s) =
                   Append(Bucket(primary, s), [id |-> id, prev |-> LastIn(primary, s)])
              /\ \A r \in Sessions : r # s => Bucket(primary', r) = Bucket(primary, r)
        BY <2>1, <3>1, PrimaryLands
      <3>3. LastIn(primary, s) = Atomic!LastHmac(Now[s])
        BY DEF LastIn, Atomic!LastHmac, None, Atomic!None
      <3>4. Then = [Now EXCEPT ![s] = Append(@, [id |-> id, prev |-> Atomic!LastHmac(@)])]
        BY <3>2, <3>3
      <3>5. Atomic!AppendLinked(s, id)
        BY <3>4 DEF Atomic!AppendLinked
      <3> QED BY <3>5 DEF Atomic!LogNext
    <2>2. ASSUME \A s \in Sessions : Bucket(primary', s) = Bucket(primary, s) PROVE Then = Now
      BY <2>2
    <2> QED BY <1>2, <2>1, <2>2, BucketStep
  <1>3. QED BY <1>1, <1>2, MemInvariant, PTL DEF ImplementsChainLog, Atomic!LogSpec, MemSpec

-----------------------------------------------------------------------------
(***************************************************************************)
(* The insert, insert_with_chain_lock, with the specification ChainSpec.   *)
(*                                                                         *)
(* The chain stays linear for every number of workers, every set of        *)
(* sessions and every assignment of advisory lock keys. The property is    *)
(* not inductive alone: it needs that a worker past the lock owns it, that *)
(* a built record names the snapshot it was built from, and that the       *)
(* record of a worker about to insert names the current head.              *)
(***************************************************************************)

(* What the insert assumes of its constants.                               *)
LEMMA ChainConstants ==
    /\ Ids \subseteq Nat \ {0}
    /\ LockKey \in [Sessions -> LockKeys]
    /\ Free \notin Workers
  BY IdsAssumption, LockKeyAssumption, FreeAssumption

(* A worker between the lock and the commit holds its session's key.       *)
LockOwned ==
    \A w \in Workers : pc[w] \in {"locked", "ready"} => holder[KeyOf(w)] = w

(* Before the re-read, the record is the one built from the snapshot.      *)
BuiltFromSnapshot ==
    \A w \in Workers : pc[w] \in {"built", "locked"} => record[w].prev = optPrev[w]

(* A worker inside a call has a record with a drawn event id.              *)
RecordDrawn == \A w \in Workers : pc[w] # "idle" => record[w].id \in Ids

(* The inductive invariant of the insert.                                  *)
ChainInv ==
    /\ ChainTypeOK
    /\ RecordDrawn
    /\ LockOwned
    /\ BuiltFromSnapshot
    /\ ReadyIsCurrent
    /\ ChainLinear

(* The last hmac of a well-typed chain is a drawn id or None.              *)
LEMMA HeadType ==
    ASSUME NEW c \in Seq(Record)
    PROVE  LastHmac(c) \in Ids \cup {None}
  <1>1. CASE c = <<>>
    BY <1>1 DEF LastHmac
  <1>2. CASE c # <<>>
    <2>1. Len(c) \in 1..Len(c)
      BY <1>2
    <2>2. c[Len(c)] \in Record
      BY <2>1
    <2> QED BY <1>2, <2>2 DEF LastHmac, Record
  <1> QED BY <1>1, <1>2

(* Appending a record that names the last row keeps a chain linear.        *)
LEMMA AppendKeepsLinked ==
    ASSUME NEW c \in Seq(Record), NEW r \in Record, Linked(c),
           r.prev = LastHmac(c)
    PROVE  Linked(Append(c, r))
  <1> SUFFICES ASSUME NEW i \in 1..Len(Append(c, r))
               PROVE  Append(c, r)[i].prev =
                        IF i = 1 THEN None ELSE Append(c, r)[i-1].id
    BY DEF Linked
  <1>1. Len(Append(c, r)) = Len(c) + 1
    OBVIOUS
  <1>2. CASE i \in 1..Len(c)
    <2>1. Append(c, r)[i] = c[i] /\ (i # 1 => Append(c, r)[i-1] = c[i-1])
      BY <1>2
    <2> QED BY <1>2, <2>1 DEF Linked
  <1>3. CASE i = Len(c) + 1
    <2>1. Append(c, r)[i] = r
      BY <1>3
    <2>2. CASE c = <<>>
      BY <1>3, <2>1, <2>2 DEF LastHmac
    <2>3. CASE c # <<>>
      <3>1. Len(c) # 0 /\ Len(c) \in Nat
        BY <2>3
      <3>2. i # 1 /\ i - 1 = Len(c) /\ Append(c, r)[i-1] = c[Len(c)]
        BY <1>3, <3>1
      <3> QED BY <2>1, <2>3, <3>2 DEF LastHmac
    <2> QED BY <2>2, <2>3
  <1> QED BY <1>1, <1>2, <1>3

(* Initially every chain is empty and no call is under way.                *)
LEMMA ChainInvInit == ChainInit => ChainInv
  <1> SUFFICES ASSUME ChainInit PROVE ChainInv
    OBVIOUS
  <1>1. ChainTypeOK
    BY ChainConstants DEF ChainInit, LogInit, ChainTypeOK, PCs, None
  <1>2. ChainLinear
    BY DEF ChainInit, LogInit, ChainLinear, Linked
  <1> QED
    BY <1>1, <1>2 DEF ChainInv, ChainInit, RecordDrawn, LockOwned, BuiltFromSnapshot,
                      ReadyIsCurrent

(* Every step of every worker preserves the inductive invariant.           *)
LEMMA ChainInvStep == ChainInv /\ [ChainNext]_chainVars => ChainInv'
  <1> SUFFICES ASSUME ChainInv, [ChainNext]_chainVars PROVE ChainInv'
    OBVIOUS
  <1> USE ChainConstants
  <1>1. ASSUME NEW w \in Workers, NEW s \in Sessions, OptimisticBuild(w, s)
        PROVE  ChainInv'
    <2>1. LastHmac(chain[s]) \in Ids \cup {None}
      BY HeadType DEF ChainInv, ChainTypeOK
    <2>2. ChainTypeOK'
      BY <1>1, <2>1 DEF ChainInv, ChainTypeOK, OptimisticBuild, Build, PCs, None
    <2>3. RecordDrawn' /\ BuiltFromSnapshot'
      BY <1>1 DEF ChainInv, ChainTypeOK, RecordDrawn, BuiltFromSnapshot,
                  OptimisticBuild, Build
    <2>4. LockOwned'
      BY <1>1 DEF ChainInv, ChainTypeOK, LockOwned, OptimisticBuild, KeyOf
    <2>5. ReadyIsCurrent'
      BY <1>1 DEF ChainInv, ChainTypeOK, ReadyIsCurrent, OptimisticBuild, Build
    <2>6. ChainLinear'
      BY <1>1 DEF ChainInv, ChainLinear, OptimisticBuild
    <2> QED BY <2>2, <2>3, <2>4, <2>5, <2>6 DEF ChainInv
  <1>2. ASSUME NEW w \in Workers, AcquireLock(w) PROVE ChainInv'
    <2>1. ChainTypeOK'
      BY <1>2 DEF ChainInv, ChainTypeOK, AcquireLock, KeyOf, PCs
    <2>2. RecordDrawn' /\ BuiltFromSnapshot'
      BY <1>2 DEF ChainInv, ChainTypeOK, RecordDrawn, BuiltFromSnapshot, AcquireLock
    <2>3. LockOwned'
      BY <1>2 DEF ChainInv, ChainTypeOK, LockOwned, AcquireLock, KeyOf
    <2>4. ReadyIsCurrent' /\ ChainLinear'
      BY <1>2 DEF ChainInv, ChainTypeOK, ReadyIsCurrent, ChainLinear, AcquireLock
    <2> QED BY <2>1, <2>2, <2>3, <2>4 DEF ChainInv
  <1>3. ASSUME NEW w \in Workers, Reverify(w) PROVE ChainInv'
    <2>1. LastHmac(chain[sess[w]]) \in Ids \cup {None}
      BY HeadType DEF ChainInv, ChainTypeOK
    <2>2. ChainTypeOK'
      <3>1. CASE LastHmac(chain[sess[w]]) # optPrev[w]
        <4>1. /\ nextRecord \in Ids /\ nextRecord' = nextRecord + 1
              /\ record' = [record EXCEPT ![w] =
                              [id |-> nextRecord, prev |-> LastHmac(chain[sess[w]])]]
          BY <1>3, <3>1 DEF Reverify, Build
        <4>2. record' \in [Workers -> [id : Ids \cup {None}, prev : Ids \cup {None}]]
          BY <2>1, <4>1 DEF ChainInv, ChainTypeOK
        <4>3. nextRecord' \in Nat \ {None}
          BY <4>1 DEF None
        <4> QED BY <1>3, <4>2, <4>3 DEF ChainInv, ChainTypeOK, Reverify, PCs
      <3>2. CASE LastHmac(chain[sess[w]]) = optPrev[w]
        BY <1>3, <3>2 DEF ChainInv, ChainTypeOK, Reverify, PCs
      <3> QED BY <3>1, <3>2
    <2>3. RecordDrawn' /\ BuiltFromSnapshot'
      BY <1>3 DEF ChainInv, ChainTypeOK, RecordDrawn, BuiltFromSnapshot, Reverify, Build
    <2>4. LockOwned'
      BY <1>3 DEF ChainInv, ChainTypeOK, LockOwned, Reverify, KeyOf
    <2>5. ReadyIsCurrent'
      BY <1>3 DEF ChainInv, ChainTypeOK, ReadyIsCurrent, BuiltFromSnapshot, Reverify, Build
    <2>6. ChainLinear'
      BY <1>3 DEF ChainInv, ChainLinear, Reverify
    <2> QED BY <2>2, <2>3, <2>4, <2>5, <2>6 DEF ChainInv
  <1>4. ASSUME NEW w \in Workers, Insert(w), acked' \subseteq acked \cup {record[w].id}
        PROVE  ChainInv'
    <2>1. record[w] \in Record /\ record[w].prev = LastHmac(chain[sess[w]])
      BY <1>4 DEF ChainInv, ChainTypeOK, RecordDrawn, ReadyIsCurrent, Insert, Record
    <2>2. ChainTypeOK'
      <3>1. chain' \in [Sessions -> Seq(Record)]
        <4>1. Append(chain[sess[w]], record[w]) \in Seq(Record)
          BY <2>1 DEF ChainInv, ChainTypeOK
        <4> QED BY <1>4, <4>1 DEF ChainInv, ChainTypeOK, Insert
      <3>2. acked' \subseteq Ids
        BY <1>4, <2>1 DEF ChainInv, ChainTypeOK, Record
      <3> QED BY <1>4, <3>1, <3>2 DEF ChainInv, ChainTypeOK, Insert, KeyOf, PCs
    <2>3. RecordDrawn' /\ BuiltFromSnapshot'
      BY <1>4 DEF ChainInv, ChainTypeOK, RecordDrawn, BuiltFromSnapshot, Insert
    <2>4. \A v \in Workers \ {w} : pc[v] \in {"locked", "ready"} =>
             KeyOf(v) # KeyOf(w) /\ sess[v] # sess[w]
      BY <1>4 DEF ChainInv, LockOwned, Insert, KeyOf
    <2>5. LockOwned'
      BY <1>4, <2>4 DEF ChainInv, ChainTypeOK, LockOwned, Insert, KeyOf
    <2>6. ReadyIsCurrent'
      BY <1>4, <2>4 DEF ChainInv, ChainTypeOK, ReadyIsCurrent, Insert
    <2>7. ChainLinear'
      <3> SUFFICES ASSUME NEW t \in Sessions PROVE Linked(chain'[t])
        BY DEF ChainLinear
      <3>1. CASE t = sess[w]
        <4>1. chain'[t] = Append(chain[t], record[w])
          BY <1>4, <3>1 DEF ChainInv, ChainTypeOK, Insert
        <4> QED BY <2>1, <3>1, <4>1, AppendKeepsLinked DEF ChainInv, ChainTypeOK, ChainLinear
      <3>2. CASE t # sess[w]
        BY <1>4, <3>2 DEF ChainInv, ChainTypeOK, ChainLinear, Insert
      <3> QED BY <3>1, <3>2
    <2> QED BY <2>2, <2>3, <2>5, <2>6, <2>7 DEF ChainInv
  <1>5. ASSUME NEW w \in Workers, Fail(w) PROVE ChainInv'
    <2>1. ChainTypeOK'
      BY <1>5 DEF ChainInv, ChainTypeOK, Fail, KeyOf, PCs
    <2>2. RecordDrawn' /\ BuiltFromSnapshot'
      BY <1>5 DEF ChainInv, ChainTypeOK, RecordDrawn, BuiltFromSnapshot, Fail
    <2>3. LockOwned'
      BY <1>5 DEF ChainInv, ChainTypeOK, LockOwned, Fail, KeyOf
    <2>4. ReadyIsCurrent' /\ ChainLinear'
      BY <1>5 DEF ChainInv, ChainTypeOK, ReadyIsCurrent, ChainLinear, Fail
    <2> QED BY <2>1, <2>2, <2>3, <2>4 DEF ChainInv
  <1>6. CASE UNCHANGED chainVars
    BY <1>6 DEF chainVars, ChainInv, ChainTypeOK, RecordDrawn, LockOwned, BuiltFromSnapshot,
                ReadyIsCurrent, ChainLinear, KeyOf
  <1> QED
    BY <1>1, <1>2, <1>3, <1>4, <1>5, <1>6
    DEF ChainNext, WorkerStep, Commit, CommitLostAck

(* The inductive invariant holds throughout.                               *)
LEMMA ChainHolds == ChainSpec => []ChainInv
  BY ChainInvInit, ChainInvStep, PTL DEF ChainSpec

(* Every session chain written through insert_with_chain_lock is linear,   *)
(* for any number of concurrent workers and any lock-key collisions.       *)
THEOREM SpecChainLinear == ChainSpec => []ChainLinear
  <1>1. ChainInv => ChainLinear
    BY DEF ChainInv
  <1> QED BY ChainHolds, <1>1, PTL

(* The model's variables keep their types in every reachable state of      *)
(* insert_with_chain_lock.                                                 *)
THEOREM SpecTypeOK == ChainSpec => []ChainTypeOK
  <1>1. ChainInv => ChainTypeOK
    BY DEF ChainInv
  <1> QED BY ChainHolds, <1>1, PTL

(* The optimistic two-phase insert implements the atomic linked append:    *)
(* its only effect on a chain is to append one record that names the head. *)
THEOREM SpecAtomicAppend == ChainSpec => AtomicAppend
  <1>1. ChainInit => LogInit
    BY DEF ChainInit
  <1>2. ChainInv /\ [ChainNext]_chainVars => [LogNext]_chain
    <2> SUFFICES ASSUME ChainInv, [ChainNext]_chainVars PROVE [LogNext]_chain
      OBVIOUS
    <2>1. ASSUME NEW w \in Workers, Insert(w) PROVE LogNext
      <3>1. /\ record[w].id \in Ids
            /\ record[w] = [id |-> record[w].id, prev |-> LastHmac(chain[sess[w]])]
        BY <2>1 DEF ChainInv, ChainTypeOK, RecordDrawn, ReadyIsCurrent, Insert
      <3>2. AppendLinked(sess[w], record[w].id)
        BY <2>1, <3>1 DEF ChainInv, ChainTypeOK, AppendLinked, Insert
      <3> QED BY <3>1, <3>2 DEF LogNext, ChainInv, ChainTypeOK
    <2>2. CASE UNCHANGED chainVars
      BY <2>2 DEF chainVars
    <2>3. ASSUME NEW w \in Workers, WorkerStep(w) PROVE [LogNext]_chain
      BY <2>1, <2>3 DEF WorkerStep, OptimisticBuild, AcquireLock, Reverify,
                        Commit, CommitLostAck, Fail
    <2> QED BY <2>2, <2>3 DEF ChainNext
  <1> QED BY ChainHolds, <1>1, <1>2, PTL DEF ChainSpec, AtomicAppend, LogSpec

(* A record that insert_with_chain_lock returned stays a row of a chain:   *)
(* the commit that acknowledges it appends it, also when it was rebuilt    *)
(* under the lock with another event_id, and no step takes a row away.     *)
THEOREM SpecAckedStored == ChainSpec => []AckedStored
  <1> DEFINE Stored(id) ==
        \E s \in Sessions : \E i \in 1..Len(chain[s]) : chain[s][i].id = id
  <1>1. ChainInit => AckedStored
    BY DEF ChainInit, AckedStored
  <1>2. ChainInv /\ AckedStored /\ [ChainNext]_chainVars => AckedStored'
    <2> SUFFICES ASSUME ChainInv, AckedStored, [ChainNext]_chainVars PROVE AckedStored'
      OBVIOUS
    <2>1. ASSUME NEW w \in Workers, Insert(w), acked' \subseteq acked \cup {record[w].id}
          PROVE  AckedStored'
      <3> DEFINE t == sess[w]
      <3>1. /\ t \in Sessions /\ chain[t] \in Seq(Record) /\ record[w] \in Record
            /\ \A s \in Sessions : chain[s] \in Seq(Record)
        BY <2>1 DEF ChainInv, ChainTypeOK, RecordDrawn, Insert, Record
      <3>2. /\ chain'[t] = Append(chain[t], record[w])
            /\ \A s \in Sessions \ {t} : chain'[s] = chain[s]
        BY <2>1, <3>1 DEF Insert, ChainInv, ChainTypeOK
      <3>3. /\ Len(chain'[t]) = Len(chain[t]) + 1
            /\ chain'[t][Len(chain[t]) + 1] = record[w]
            /\ \A i \in 1..Len(chain[t]) : chain'[t][i] = chain[t][i]
        BY <3>1, <3>2
      <3>4. Len(chain[t]) \in Nat
        BY <3>1
      <3>5. Stored(record[w].id)'
        <4>1. Len(chain[t]) + 1 \in 1..Len(chain'[t])
          BY <3>3, <3>4
        <4> QED BY <2>1, <3>1, <3>3, <4>1 DEF Insert
      <3>6. ASSUME NEW id, Stored(id) PROVE Stored(id)'
        <4>1. PICK s \in Sessions : \E i \in 1..Len(chain[s]) : chain[s][i].id = id
          BY <3>6
        <4>2. PICK i \in 1..Len(chain[s]) : chain[s][i].id = id
          BY <4>1
        <4>3. i \in 1..Len(chain'[s]) /\ chain'[s][i] = chain[s][i]
          <5>1. CASE s = t
            BY <3>3, <3>4, <4>2, <5>1
          <5>2. CASE s # t
            BY <3>2, <5>2
          <5> QED BY <5>1, <5>2
        <4> QED BY <4>1, <4>2, <4>3
      <3> SUFFICES ASSUME NEW id \in acked' PROVE Stored(id)'
        BY DEF AckedStored
      <3>7. CASE id \in acked
        <4>1. Stored(id)
          BY <3>7 DEF AckedStored
        <4> QED BY <3>6, <4>1
      <3>8. CASE id = record[w].id
        <4>1. record' = record
          BY <2>1 DEF Insert
        <4> QED BY <3>5, <3>8, <4>1
      <3> QED BY <2>1, <3>7, <3>8
    <2>2. CASE UNCHANGED <<chain, acked>>
      BY <2>2 DEF AckedStored
    <2> QED
      BY <2>1, <2>2 DEF ChainNext, WorkerStep, OptimisticBuild, AcquireLock, Reverify,
                        Commit, CommitLostAck, Fail, chainVars
  <1> QED BY <1>1, <1>2, ChainHolds, PTL DEF ChainSpec

=============================================================================
