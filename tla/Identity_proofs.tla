--------------------------- MODULE Identity_proofs ---------------------------
(***************************************************************************)
(* Revocations hold and strict ones are announced, for every set of        *)
(* processes and keys and every length of the chain.  The argument rests   *)
(* on the order of the steps of revoke_with_chain_event: the event is in   *)
(* the chain before the head is read, so the boundary a record gets lies   *)
(* at or above its own event and below every number still to be drawn.     *)
(***************************************************************************)
EXTENDS Identity, WellFoundedInduction, TLAPS

(* The calls and transactions of a process, and what keysDb, rv and the    *)
(* mirrors may hold: TypeOK by groups of variables, made inductive.        *)
Txs == [at : {"none", "inserted", "selected"}, fp : Keys \cup {NoKey}, seq : Seqs,
        new : BOOLEAN, hit : BOOLEAN]
Calls == [at : {"none", "read", "store"}, fp : Keys \cup {NoKey}, strict : BOOLEAN,
          link : Links, event : Seqs, seq : Seqs]
Promises == [fp : Keys, from : 1..(MaxSeq + 1)]

(* The key registry: the table, and the mirror of every process.           *)
KeyTyped ==
    /\ file \in Keys \cup {Absent, Empty}
    /\ used \subseteq Keys
    /\ pc \in [Procs -> {"down", "create", "write", "load", "built", "up"}]
    /\ key \in [Procs -> Keys \cup {NoKey}]

(* A row carries a number the sequence has given out.                      *)
RowTyped ==
    /\ rows \subseteq Row /\ flight \in [Procs -> Row]
    /\ nextSeq \in 1..(MaxSeq + 1)
    /\ \A r \in rows : r.seq < nextSeq
    /\ \A p \in Procs : flight[p].seq < nextSeq

(* The registrations under way.                                            *)
RegTyped ==
    /\ keysDb \subseteq KeyRow
    /\ mirror \in [Procs -> SUBSET KeyRow]
    /\ tx \in [Procs -> Txs]
    /\ \A p \in Procs : tx[p].at # "none" => tx[p].fp \in Keys

(* The revocations, their table, and the calls under way.                  *)
RevTyped ==
    /\ revDb \subseteq Revocation
    /\ revMirror \in [Procs -> SUBSET Revocation]
    /\ rv \in [Procs -> Calls]
    /\ \A p \in Procs : rv[p].at # "none" => rv[p].fp \in Keys
    /\ spooled \subseteq Keys
    /\ promised \in [Procs \cup {Everybody} -> SUBSET Promises]

(* All of them.                                                            *)
Typed == KeyTyped /\ RowTyped /\ RegTyped /\ RevTyped

(* The announcement of a revocation or of a call: in the file or chain.    *)
InFile(c) == c.link = "file" /\ c.fp \in spooled
InChain(c) == c.link = "chain" /\ \E r \in rows : r.seq = c.event /\ r.revokes = c.fp

(* A call that has logged its event finds it in the chain, below the head  *)
(* it reads after that; a strict one does not go on without.               *)
CallSound(c) ==
    /\ c.seq < nextSeq
    /\ c.at # "none" /\ c.link = "chain" => InChain(c)
    /\ c.at # "none" /\ c.strict => InFile(c) \/ InChain(c)
    /\ c.at = "store" /\ c.link = "chain" /\ c.seq # 0 => c.event <= c.seq

(* A record in force has the boundary and the announcement of its call.    *)
RecordSound(v) ==
    /\ v.link = "chain" /\ v.seq # 0 => v.event <= v.seq
    /\ LinkColumn /\ v.strict => InFile(v) \/ InChain(v)

(* The promise of a revocation is kept by a record whose boundary lies     *)
(* below every row inserted since.                                         *)
KeptBy(recs, v) == \E r \in recs : r.fp = v.fp /\ r.seq < v.from

(* Calls, records and promises agree with what was announced.              *)
Sound ==
    /\ \A p \in Procs : CallSound(rv[p])
    /\ \A v \in revDb : RecordSound(v)
    /\ \A p \in Procs : \A v \in revMirror[p] : RecordSound(v)
    /\ \A v \in promised[Everybody] : KeptBy(revDb, v)
    /\ \A p \in Procs : \A v \in promised[p] : KeptBy(revMirror[p], v)

-----------------------------------------------------------------------------
(* A non-empty set of naturals has a least element.                         *)
LEMMA MinExists ==
    ASSUME NEW T \in SUBSET Nat, T # {}
    PROVE  \E x \in T : \A y \in T : x <= y
  <1> DEFINE R == OpToRel(<, Nat)
  <1>1. IsWellFoundedOn(R, Nat)
    BY NatLessThanWellFounded
  <1> HIDE DEF R
  <1>2. PICK x \in T : \A y \in T : ~ (<<y, x>> \in R)
    BY <1>1, WFMin
  <1>3. \A y \in T : y < x => <<y, x>> \in R
    BY DEF R, OpToRel
  <1>4. \A y \in T : ~ (y < x)
    BY <1>2, <1>3, Zenon
  <1> QED BY <1>4

(* A non-empty, bounded set of naturals has a greatest one, which Max is.   *)
LEMMA MaxIs ==
    ASSUME NEW T \in SUBSET Nat, NEW n \in Nat, T # {}, \A y \in T : y <= n
    PROVE  Max(T) \in T /\ \A y \in T : y <= Max(T)
  <1> DEFINE U == {m \in Nat : \A y \in T : y <= m}
  <1>1. PICK m \in U : \A u \in U : m <= u
    <2>1. U \in SUBSET Nat /\ n \in U
      OBVIOUS
    <2> QED BY <2>1, MinExists
  <1>2. m \in T
    <2> SUFFICES ASSUME m \notin T PROVE FALSE
      OBVIOUS
    <2>1. m # 0
      <3>1. PICK y \in T : TRUE
        OBVIOUS
      <3>2. y <= m /\ y \in Nat /\ y # m
        OBVIOUS
      <3> QED BY <3>2
    <2>2. m - 1 \in U
      BY <2>1
    <2> QED BY <1>1, <2>2
  <1>3. \E x \in T : \A y \in T : x >= y
    BY <1>2
  <1> QED BY <1>3 DEF Max

(* The head of the chain is a number given out, and none is higher.        *)
LEMMA HeadFacts ==
    ASSUME RowTyped
    PROVE  /\ Head \in Seqs /\ Head < nextSeq
           /\ \A r \in rows : r.seq <= Head
  <1> DEFINE T == {r.seq : r \in rows} \cup {0}
  <1>1. T \in SUBSET Nat /\ T # {} /\ \A y \in T : y <= MaxSeq /\ y < nextSeq
    BY IdentityAssumption DEF RowTyped, Row, Seqs
  <1>2. Max(T) \in T /\ \A y \in T : y <= Max(T)
    BY <1>1, MaxIs, IdentityAssumption
  <1>3. Head = Max(T)
    BY DEF Head
  <1> HIDE DEF T
  <1>4. Head \in Nat /\ Head <= MaxSeq /\ Head < nextSeq
    BY <1>1, <1>2, <1>3
  <1>5. \A r \in rows : r.seq \in T
    BY DEF T
  <1> QED BY <1>2, <1>3, <1>4, <1>5, IdentityAssumption DEF Seqs

-----------------------------------------------------------------------------
(* What the assumption says of each constant.                              *)
LEMMA Constants ==
    /\ NoKey \notin Keys /\ Absent \notin Keys /\ Empty \notin Keys
    /\ Everybody \notin Procs /\ MaxSeq \in Nat
    /\ 0 \in Seqs /\ Seqs \subseteq Nat
    /\ NoRow \in Row /\ NoRow.seq = 0
    /\ NoTx \in Txs /\ NoTx.at = "none"
    /\ NoCall \in Calls /\ NoCall.at = "none" /\ NoCall.seq = 0
  BY IdentityAssumption DEF Seqs, NoRow, Row, NoTx, Txs, NoCall, Calls, Links

(* The groups imply TypeOK.                                                *)
LEMMA TypedIsTypeOK == Typed => TypeOK
  <1> SUFFICES ASSUME Typed PROVE TypeOK
    OBVIOUS
  <1>1. \A p \in Procs :
          /\ mirror[p] \subseteq KeyRow
          /\ revMirror[p] \subseteq Revocation
          /\ tx[p].at \in {"none", "inserted", "selected"}
          /\ rv[p].at \in {"none", "read", "store"}
    BY DEF Typed, RegTyped, RevTyped, Txs, Calls
  <1>2. /\ file \in Keys \cup {Absent, Empty} /\ used \subseteq Keys
        /\ pc \in [Procs -> {"down", "create", "write", "load", "built", "up"}]
        /\ key \in [Procs -> Keys \cup {NoKey}]
    BY DEF Typed, KeyTyped
  <1>3. rows \subseteq Row /\ nextSeq \in 1..(MaxSeq + 1) /\ flight \in [Procs -> Row]
    BY DEF Typed, RowTyped
  <1>4. /\ keysDb \subseteq KeyRow /\ revDb \subseteq Revocation /\ spooled \subseteq Keys
        /\ promised \in [Procs \cup {Everybody} -> SUBSET [fp : Keys, from : 1..(MaxSeq + 1)]]
    BY DEF Typed, RegTyped, RevTyped, Promises
  <1> QED BY <1>1, <1>2, <1>3, <1>4, Zenon DEF TypeOK

(* A row that takes the next number of the sequence.                       *)
LEMMA NewRow ==
    ASSUME RowTyped, nextSeq <= MaxSeq, NEW f \in Keys \cup {NoKey}, NEW k \in Keys \cup {NoKey}
    PROVE  /\ [seq |-> nextSeq, fp |-> f, revokes |-> k] \in Row
           /\ nextSeq \in Seqs /\ nextSeq \in Nat /\ nextSeq + 1 \in 1..(MaxSeq + 1)
  BY Constants DEF RowTyped, Row, Seqs

(* Registering a key leaves a table of keys.                               *)
LEMMA RegisteredType ==
    ASSUME NEW m \in SUBSET KeyRow, NEW k \in Keys, NEW s \in Seqs
    PROVE  Registered(m, k, s) \in SUBSET KeyRow
  BY DEF Registered, KeyRow

(* The row of a revocation, and what the table holds after its INSERT.     *)
LEMMA InsertedFacts ==
    ASSUME RevTyped, NEW c \in Calls, c.fp \in Keys
    PROVE  /\ RevocationOf(c) \in Revocation
           /\ RevInserted(c) \subseteq Revocation /\ revDb \subseteq RevInserted(c)
           /\ \E r \in RevInserted(c) : r.fp = c.fp /\ r.seq = c.seq
           /\ \A r \in RevInserted(c) :
                 r \in revDb \/ r = RevocationOf(c) \/ (~LinkColumn /\ r.link = "none")
  <1> DEFINE bare == [RevocationOf(c) EXCEPT !.link = "none", !.event = 0]
  <1>1. /\ RevocationOf(c) \in Revocation
        /\ RevocationOf(c).fp = c.fp /\ RevocationOf(c).seq = c.seq
    BY DEF RevocationOf, Calls, Revocation
  <1>2. /\ bare \in Revocation /\ bare.fp = c.fp /\ bare.seq = c.seq /\ bare.link = "none"
    BY <1>1, Constants DEF RevocationOf, Revocation, Calls, Links
  <1>3. RevInserted(c) = IF \E r \in revDb : r.fp = c.fp /\ r.seq = c.seq THEN revDb
                         ELSE revDb \cup {IF LinkColumn THEN RevocationOf(c) ELSE bare}
    BY DEF RevInserted
  <1> HIDE DEF bare
  <1> QED BY <1>1, <1>2, <1>3 DEF RevTyped

-----------------------------------------------------------------------------
(* The types hold in every reachable state.                                *)
LEMMA TypedInvariant == Spec => []Typed
  <1> USE Constants
  <1>1. Init => Typed
    <2> SUFFICES ASSUME Init PROVE Typed
      OBVIOUS
    <2>1. KeyTyped
      BY DEF Init, KeyTyped
    <2>2. RowTyped
      BY DEF Init, RowTyped
    <2>3. RegTyped
      BY DEF Init, RegTyped
    <2>4. RevTyped
      BY DEF Init, RevTyped
    <2> QED BY <2>1, <2>2, <2>3, <2>4 DEF Typed
  <1>2. Typed /\ [Next]_vars => Typed'
    <2> SUFFICES ASSUME Typed, [Next]_vars PROVE Typed'
      OBVIOUS
    <2> USE DEF Typed
    <2>k. UNCHANGED keyVars => KeyTyped'
      BY DEF keyVars, KeyTyped
    <2>r. UNCHANGED rowVars => RowTyped'
      BY DEF rowVars, RowTyped
    <2>g. UNCHANGED regVars => RegTyped'
      BY DEF regVars, RegTyped
    <2>v. UNCHANGED revVars => RevTyped'
      BY DEF revVars, RevTyped
    <2>1. ASSUME NEW p \in Procs, Boot(p) PROVE Typed'
      <3>1. KeyTyped'
        BY <2>1 DEF Boot, KeyTyped
      <3> QED BY <2>1, <3>1, <2>r, <2>g, <2>v DEF Boot
    <2>2. ASSUME NEW p \in Procs, CreateFile(p) PROVE Typed'
      <3>1. KeyTyped'
        BY <2>2 DEF CreateFile, KeyTyped
      <3> QED BY <2>2, <3>1, <2>r, <2>g, <2>v DEF CreateFile
    <2>3. ASSUME NEW p \in Procs, NEW k \in Keys, WriteFile(p, k) PROVE Typed'
      <3>1. KeyTyped'
        BY <2>3 DEF WriteFile, KeyTyped
      <3> QED BY <2>3, <3>1, <2>r, <2>g, <2>v DEF WriteFile
    <2>4. ASSUME NEW p \in Procs, LoadKey(p) PROVE Typed'
      <3>1. KeyTyped'
        BY <2>4 DEF LoadKey, KeyTyped
      <3> QED BY <2>4, <3>1, <2>r, <2>g, <2>v DEF LoadKey
    <2>5. ASSUME NEW p \in Procs, Start(p) PROVE Typed'
      <3>1. KeyTyped'
        BY <2>5 DEF Start, KeyTyped
      <3>2. RegTyped'
        <4>1. key[p] # NoKey => Registered(mirror[p], key[p], Head) \in SUBSET KeyRow
          BY RegisteredType, HeadFacts DEF KeyTyped, RegTyped
        <4> QED BY <2>5, <4>1 DEF Start, RegTyped
      <3> QED BY <2>5, <3>1, <3>2, <2>r, <2>v DEF Start
    <2>6. ASSUME NEW p \in Procs, NEW fp \in Keys \cup {NoKey}, InsertRow(p, fp) PROVE Typed'
      <3>1. RowTyped'
        <4> DEFINE r == [seq |-> nextSeq, fp |-> fp, revokes |-> NoKey]
        <4>1. r \in Row /\ r.seq = nextSeq /\ nextSeq \in Nat /\ nextSeq + 1 \in 1..(MaxSeq + 1)
          BY <2>6, NewRow DEF InsertRow
        <4> HIDE DEF r
        <4>2. flight' = [flight EXCEPT ![p] = r] /\ nextSeq' = nextSeq + 1 /\ rows' = rows
          BY <2>6 DEF InsertRow, r
        <4>3. \A x \in rows : x.seq \in Nat
          BY DEF RowTyped, Row, Seqs
        <4>4. \A q \in Procs : flight[q].seq \in Nat
          BY DEF RowTyped, Row, Seqs
        <4> QED BY <4>1, <4>2, <4>3, <4>4 DEF RowTyped
      <3> QED BY <2>6, <3>1, <2>k, <2>g, <2>v DEF InsertRow
    <2>7. ASSUME NEW p \in Procs, CommitRow(p) \/ RollbackRow(p) PROVE Typed'
      <3>1. RowTyped'
        BY <2>7 DEF CommitRow, RollbackRow, RowTyped
      <3> QED BY <2>7, <3>1, <2>k, <2>g, <2>v DEF CommitRow, RollbackRow
    <2>8. ASSUME NEW p \in Procs, RegisterInsert(p, key[p], Head) PROVE Typed'
      <3>1. RegTyped'
        <4> DEFINE t == [at |-> "inserted", fp |-> key[p], seq |-> Head,
                         new |-> ~KnownIn(keysDb, key[p]), hit |-> FALSE]
        <4>1. t \in Txs /\ t.fp \in Keys
          BY <2>8, HeadFacts DEF RegisterInsert, KeyTyped, Txs
        <4> HIDE DEF t
        <4>2. tx' = [tx EXCEPT ![p] = t] /\ UNCHANGED <<keysDb, mirror>>
          BY <2>8 DEF RegisterInsert, t
        <4> QED BY <4>1, <4>2 DEF RegTyped
      <3> QED BY <2>8, <3>1, <2>k, <2>r, <2>v DEF RegisterInsert
    <2>9. ASSUME NEW p \in Procs, RegisterSelect(p) PROVE Typed'
      <3>1. RegTyped'
        <4> DEFINE h == \E r \in keysDb : r.seq = tx[p].seq /\ r.fp # tx[p].fp
                   t == [tx[p] EXCEPT !.at = "selected", !.hit = h]
        <4>1. t \in Txs /\ t.fp \in Keys
          BY <2>9 DEF RegisterSelect, RegTyped, Txs
        <4>2. tx' = [tx EXCEPT ![p] = t]
          BY <2>9 DEF RegisterSelect, RegTyped, Txs
        <4> HIDE DEF t
        <4> QED BY <2>9, <4>1, <4>2 DEF RegisterSelect, RegTyped
      <3> QED BY <2>9, <3>1, <2>k, <2>r, <2>v DEF RegisterSelect
    <2>10. ASSUME NEW p \in Procs, RegisterCommit(p) PROVE Typed'
      <3>1. RegTyped'
        <4>1. tx[p].fp \in Keys /\ tx[p].seq \in Seqs /\ mirror[p] \in SUBSET KeyRow
          BY <2>10 DEF RegisterCommit, RegTyped, Txs
        <4>2. /\ Registered(mirror[p], tx[p].fp, tx[p].seq) \in SUBSET KeyRow
              /\ [fp |-> tx[p].fp, seq |-> tx[p].seq] \in KeyRow
          BY <4>1, RegisteredType DEF KeyRow
        <4>3. keysDb' \subseteq KeyRow
          BY <2>10, <4>2 DEF RegisterCommit, RegTyped
        <4>4. mirror' \in [Procs -> SUBSET KeyRow]
          BY <2>10, <4>2 DEF RegisterCommit, RegTyped
        <4>5. tx' = [tx EXCEPT ![p] = NoTx]
          BY <2>10 DEF RegisterCommit
        <4> QED BY <4>3, <4>4, <4>5 DEF RegTyped
      <3> QED BY <2>10, <3>1, <2>k, <2>r, <2>v DEF RegisterCommit
    <2>11. ASSUME NEW p \in Procs, RegisterFails(p) PROVE Typed'
      <3>1. RegTyped'
        BY <2>11 DEF RegisterFails, RegTyped
      <3> QED BY <2>11, <3>1, <2>k, <2>r, <2>v DEF RegisterFails
    <2>12. ASSUME NEW p \in Procs, NEW k \in Keys, LookupKey(p, k) PROVE Typed'
      <3>1. RegTyped'
        BY <2>12 DEF LookupKey, RegTyped
      <3> QED BY <2>12, <3>1, <2>k, <2>r, <2>v DEF LookupKey
    <2>c. ASSUME NEW p \in Procs, NEW k \in Keys, NEW strict \in BOOLEAN, NEW link \in Links,
                 NEW event \in Seqs, Called(p, k, strict, link, event),
                 UNCHANGED <<revDb, revMirror, promised>>, spooled' \subseteq Keys
          PROVE  RevTyped'
      <3> DEFINE c == [at |-> "read", fp |-> k, strict |-> strict, link |-> link,
                       event |-> event, seq |-> 0]
      <3>1. c \in Calls /\ c.fp \in Keys
        BY <2>c DEF Calls
      <3> HIDE DEF c
      <3>2. rv' = [rv EXCEPT ![p] = c]
        BY <2>c DEF Called, c
      <3> QED BY <2>c, <3>1, <3>2 DEF RevTyped
    <2>13. ASSUME NEW p \in Procs, NEW k \in Keys, NEW strict \in BOOLEAN,
                  RevokeLogs(p, k, strict)
           PROVE  Typed'
      <3>1. RowTyped'
        <4> DEFINE r == [seq |-> nextSeq, fp |-> key[p], revokes |-> k]
        <4>1. r \in Row /\ r.seq = nextSeq /\ nextSeq \in Nat /\ nextSeq + 1 \in 1..(MaxSeq + 1)
          BY <2>13, NewRow DEF RevokeLogs, KeyTyped
        <4> HIDE DEF r
        <4>2. rows' = rows \cup {r} /\ nextSeq' = nextSeq + 1 /\ flight' = flight
          BY <2>13 DEF RevokeLogs, r
        <4>3. \A x \in rows : x.seq \in Nat
          BY DEF RowTyped, Row, Seqs
        <4>4. \A q \in Procs : flight[q].seq \in Nat
          BY DEF RowTyped, Row, Seqs
        <4> QED BY <4>1, <4>2, <4>3, <4>4 DEF RowTyped
      <3>2. nextSeq \in Seqs
        BY <2>13 DEF RevokeLogs, RowTyped, Seqs
      <3>3. RevTyped'
        BY <2>13, <2>c, <3>2 DEF RevokeLogs, RevTyped, Links
      <3> QED BY <2>13, <3>1, <3>3, <2>k, <2>g DEF RevokeLogs
    <2>14. ASSUME NEW p \in Procs, NEW k \in Keys, NEW strict \in BOOLEAN,
                  RevokeLogsDegraded(p, k, strict) \/ RevokeLogFails(p, k, strict)
           PROVE  Typed'
      <3>1. RevTyped'
        <4>1. CASE RevokeLogsDegraded(p, k, strict)
          BY <4>1, <2>c DEF RevokeLogsDegraded, RevTyped, Links
        <4>2. CASE RevokeLogFails(p, k, strict) /\ strict
          BY <4>2 DEF RevokeLogFails, RevTyped
        <4>3. CASE RevokeLogFails(p, k, strict) /\ ~strict
          BY <4>3, <2>c DEF RevokeLogFails, RevTyped, Links
        <4> QED BY <2>14, <4>1, <4>2, <4>3
      <3> QED BY <2>14, <3>1, <2>k, <2>r, <2>g DEF RevokeLogsDegraded, RevokeLogFails
    <2>15. ASSUME NEW p \in Procs, NEW head \in Seqs, RevokeReadsHead(p, head) PROVE Typed'
      <3>1. RevTyped'
        <4> DEFINE c == [rv[p] EXCEPT !.at = "store", !.seq = head]
        <4>1. c \in Calls /\ c.fp \in Keys
          BY <2>15 DEF RevokeReadsHead, RevTyped, Calls
        <4>2. rv' = [rv EXCEPT ![p] = c]
          BY <2>15 DEF RevokeReadsHead, RevTyped, Calls
        <4> HIDE DEF c
        <4> QED BY <2>15, <4>1, <4>2 DEF RevokeReadsHead, RevTyped
      <3> QED BY <2>15, <3>1, <2>k, <2>r, <2>g DEF RevokeReadsHead
    <2>16. ASSUME NEW p \in Procs, RevokeStores(p) \/ RevokeMirrors(p) PROVE Typed'
      <3>1. RevTyped'
        <4>1. rv[p] \in Calls /\ rv[p].fp \in Keys
          BY <2>16 DEF RevokeStores, RevokeMirrors, RevTyped
        <4>2. RevocationOf(rv[p]) \in Revocation /\ RevInserted(rv[p]) \subseteq Revocation
          BY <4>1, InsertedFacts
        <4>3. revDb' \subseteq Revocation
          BY <2>16, <4>2 DEF RevokeStores, RevokeMirrors, RevTyped
        <4>4. revMirror' \in [Procs -> SUBSET Revocation]
          BY <2>16, <4>2 DEF RevokeStores, RevokeMirrors, RevTyped
        <4>5. rv' = [rv EXCEPT ![p] = NoCall] /\ spooled' = spooled
          BY <2>16 DEF RevokeStores, RevokeMirrors
        <4>6. [fp |-> rv[p].fp, from |-> nextSeq] \in Promises
          BY <4>1 DEF Promises, RowTyped
        <4>7. \E who : Promise(who, rv[p].fp)
          BY <2>16 DEF RevokeStores, RevokeMirrors
        <4>8. promised' \in [Procs \cup {Everybody} -> SUBSET Promises]
          BY <4>6, <4>7 DEF Promise, RevTyped
        <4> QED BY <4>3, <4>4, <4>5, <4>8 DEF RevTyped
      <3> QED BY <2>16, <3>1, <2>k, <2>r, <2>g DEF RevokeStores, RevokeMirrors
    <2>17. ASSUME NEW p \in Procs, Crash(p) PROVE Typed'
      <3>1. KeyTyped' /\ RowTyped' /\ RegTyped'
        BY <2>17 DEF Crash, KeyTyped, RowTyped, RegTyped
      <3>2. rv[p].at = "store" => RevInserted(rv[p]) \subseteq Revocation
        BY InsertedFacts DEF RevTyped
      <3>3. revDb' = revDb \/ (rv[p].at = "store" /\ revDb' = RevInserted(rv[p]))
        BY <2>17 DEF Crash
      <3>4. RevTyped'
        BY <2>17, <3>2, <3>3 DEF Crash, RevTyped
      <3> QED BY <3>1, <3>4
    <2>18. CASE UNCHANGED vars
      BY <2>18, <2>k, <2>r, <2>g, <2>v DEF vars
    <2>19. \A k \in used, strict \in Modes : k \in Keys /\ strict \in BOOLEAN
      BY IdentityAssumption DEF KeyTyped
    <2> QED
      BY <2>1, <2>2, <2>3, <2>4, <2>5, <2>6, <2>7, <2>8, <2>9, <2>10, <2>11, <2>12, <2>13,
         <2>14, <2>15, <2>16, <2>17, <2>18, <2>19
      DEF Next
  <1> QED BY <1>1, <1>2, PTL DEF Spec

-----------------------------------------------------------------------------
(* Announcements are never withdrawn.                                      *)
LEMMA SoundGrows ==
    ASSUME rows \subseteq rows', spooled \subseteq spooled',
           nextSeq \in Nat, nextSeq' \in Nat, nextSeq <= nextSeq'
    PROVE  /\ \A c \in Calls : CallSound(c) => CallSound(c)'
           /\ \A v : RecordSound(v) => RecordSound(v)'
  <1>1. \A c : (InFile(c) => InFile(c)') /\ (InChain(c) => InChain(c)')
    BY DEF InFile, InChain
  <1>2. \A c \in Calls : c.seq \in Nat
    BY Constants DEF Calls
  <1> QED BY <1>1, <1>2 DEF CallSound, RecordSound

(* The INSERT of a sound call leaves sound records.                        *)
LEMMA StoredSound ==
    ASSUME RevTyped, NEW c \in Calls, c.at = "store", c.fp \in Keys, CallSound(c),
           \A v \in revDb : RecordSound(v)
    PROVE  /\ RecordSound(RevocationOf(c))
           /\ \A v \in RevInserted(c) : RecordSound(v)
  <1>1. RecordSound(RevocationOf(c))
    BY DEF RecordSound, CallSound, RevocationOf, InFile, InChain
  <1>2. \A v : ~LinkColumn /\ v.link = "none" => RecordSound(v)
    BY DEF RecordSound
  <1> QED BY <1>1, <1>2, InsertedFacts

(* Calls, records and promises are sound in every reachable state.         *)
LEMMA SoundInvariant == Spec => []Sound
  <1> USE Constants
  <1>1. Init => Sound
    BY DEF Init, Sound, CallSound, RevTyped
  <1>2. Typed /\ Typed' /\ Sound /\ [Next]_vars => Sound'
    <2> SUFFICES ASSUME Typed, Typed', Sound, [Next]_vars PROVE Sound'
      OBVIOUS
    <2>t. /\ RowTyped /\ RevTyped /\ nextSeq \in Nat /\ nextSeq' \in Nat
          /\ rv \in [Procs -> Calls] /\ rv' \in [Procs -> Calls]
          /\ revMirror \in [Procs -> SUBSET Revocation]
          /\ promised \in [Procs \cup {Everybody} -> SUBSET Promises]
      BY DEF Typed, RowTyped, RevTyped
    <2>s. rows \subseteq rows' /\ spooled \subseteq spooled' /\ nextSeq <= nextSeq' =>
            /\ \A c \in Calls : CallSound(c) => CallSound(c)'
            /\ \A v : RecordSound(v) => RecordSound(v)'
      BY <2>t, SoundGrows
    <2>1. ASSUME UNCHANGED revVars, rows \subseteq rows', nextSeq <= nextSeq' PROVE Sound'
      <3>1. UNCHANGED <<revDb, revMirror, rv, spooled, promised>>
        BY <2>1 DEF revVars
      <3>2. /\ \A c \in Calls : CallSound(c) => CallSound(c)'
            /\ \A v : RecordSound(v) => RecordSound(v)'
        BY <2>1, <2>s, <3>1
      <3> QED BY <2>t, <3>1, <3>2 DEF Sound, KeptBy
    <2>2. ASSUME NEW p \in Procs, NEW c \in Calls, rv' = [rv EXCEPT ![p] = c], CallSound(c)',
                 UNCHANGED <<revDb, revMirror, promised>>, rows \subseteq rows',
                 spooled \subseteq spooled', nextSeq <= nextSeq'
          PROVE  Sound'
      <3>1. /\ \A d \in Calls : CallSound(d) => CallSound(d)'
            /\ \A v : RecordSound(v) => RecordSound(v)'
        BY <2>2, <2>s
      <3>2. \A q \in Procs : CallSound(rv[q])'
        BY <2>2, <2>t, <3>1 DEF Sound
      <3> QED BY <2>2, <2>t, <3>1, <3>2 DEF Sound, KeptBy
    <2>3. ASSUME NEW p \in Procs, NEW k \in Keys, NEW strict \in BOOLEAN,
                 RevokeLogs(p, k, strict)
          PROVE  Sound'
      <3>r. PICK r : r = [seq |-> nextSeq, fp |-> key[p], revokes |-> k]
        OBVIOUS
      <3>c. PICK c : c = [at |-> "read", fp |-> k, strict |-> strict, link |-> "chain",
                          event |-> nextSeq, seq |-> 0]
        OBVIOUS
      <3>1. /\ r.seq = nextSeq /\ r.revokes = k
            /\ c.at = "read" /\ c.fp = k /\ c.link = "chain" /\ c.event = nextSeq /\ c.seq = 0
        BY <3>r, <3>c
      <3>2. /\ rows' = rows \cup {r} /\ nextSeq' = nextSeq + 1 /\ rv' = [rv EXCEPT ![p] = c]
            /\ UNCHANGED <<revDb, revMirror, promised, spooled>>
        BY <2>3, <3>r, <3>c DEF RevokeLogs, Called
      <3>3. c \in Calls
        BY <2>t, <3>2
      <3>4. InChain(c)'
        BY <3>1, <3>2 DEF InChain
      <3>5. CallSound(c)'
        BY <3>1, <3>2, <3>4, <2>t DEF CallSound
      <3>6. nextSeq <= nextSeq'
        BY <3>2, <2>t
      <3> QED BY <2>2, <3>2, <3>3, <3>5, <3>6
    <2>4. ASSUME NEW p \in Procs, NEW k \in Keys, NEW strict \in BOOLEAN,
                 RevokeLogsDegraded(p, k, strict)
          PROVE  Sound'
      <3> DEFINE c == [at |-> "read", fp |-> k, strict |-> strict, link |-> "file",
                       event |-> 0, seq |-> 0]
      <3>1. c.at = "read" /\ c.fp = k /\ c.link = "file" /\ c.seq = 0
        OBVIOUS
      <3> HIDE DEF c
      <3>2. /\ rv' = [rv EXCEPT ![p] = c] /\ spooled' = spooled \cup {k}
            /\ UNCHANGED <<revDb, revMirror, promised, rows, nextSeq>>
        BY <2>4 DEF RevokeLogsDegraded, Called, c, rowVars
      <3>3. c \in Calls
        BY <2>t, <3>2
      <3>4. CallSound(c)'
        BY <3>1, <3>2, <2>t DEF CallSound, InFile, RowTyped
      <3>5. nextSeq <= nextSeq'
        BY <3>2, <2>t
      <3> QED BY <2>2, <3>2, <3>3, <3>4, <3>5
    <2>5. ASSUME NEW p \in Procs, NEW k \in Keys, NEW strict \in BOOLEAN,
                 RevokeLogFails(p, k, strict)
          PROVE  Sound'
      <3>a. UNCHANGED <<revDb, revMirror, promised, spooled, rows, nextSeq>>
        BY <2>5 DEF RevokeLogFails, rowVars
      <3>b. nextSeq <= nextSeq'
        BY <3>a, <2>t
      <3>1. CASE strict
        <4>1. UNCHANGED revVars
          BY <2>5, <3>1 DEF RevokeLogFails, revVars
        <4> QED BY <4>1, <3>a, <3>b, <2>1
      <3>2. CASE ~strict
        <4> DEFINE c == [at |-> "read", fp |-> k, strict |-> strict, link |-> "none",
                         event |-> 0, seq |-> 0]
        <4>1. c.at = "read" /\ ~c.strict /\ c.link = "none" /\ c.seq = 0
          BY <3>2
        <4> HIDE DEF c
        <4>2. rv' = [rv EXCEPT ![p] = c]
          BY <2>5, <3>2 DEF RevokeLogFails, Called, c
        <4>3. c \in Calls
          BY <2>t, <4>2
        <4>4. CallSound(c)'
          BY <4>1, <3>a, <2>t DEF CallSound, RowTyped
        <4> QED BY <2>2, <3>a, <3>b, <4>2, <4>3, <4>4
      <3> QED BY <3>1, <3>2
    <2>6. ASSUME NEW p \in Procs, NEW head \in Seqs, RevokeReadsHead(p, head) PROVE Sound'
      <3>b. PICK b : b = rv[p]
        OBVIOUS
      <3>c. PICK c : c = [b EXCEPT !.at = "store", !.seq = head]
        OBVIOUS
      <3>1. /\ b \in Calls /\ b.at = "read" /\ CallSound(b)
        BY <2>6, <2>t, <3>b DEF RevokeReadsHead, Sound
      <3>2. /\ c.at = "store" /\ c.fp = b.fp /\ c.strict = b.strict /\ c.link = b.link
            /\ c.event = b.event /\ c.seq = head
        BY <3>1, <3>c DEF Calls
      <3>3. rv' = [rv EXCEPT ![p] = c]
        BY <2>6, <2>t, <3>b, <3>c DEF RevokeReadsHead, Calls
      <3>4. UNCHANGED <<revDb, revMirror, promised, spooled, rows, nextSeq>>
        BY <2>6 DEF RevokeReadsHead, rowVars
      <3>5. head \in Nat /\ head < nextSeq /\ (head # 0 => \A r \in rows : r.seq <= head)
        BY <2>6, <2>t, HeadFacts DEF RevokeReadsHead, RowTyped
      <3>6. c.link = "chain" => \E r \in rows : r.seq = c.event /\ r.revokes = c.fp
        BY <3>1, <3>2 DEF CallSound, InChain
      <3>7. c.link = "chain" /\ c.seq # 0 => c.event <= c.seq
        BY <3>2, <3>5, <3>6
      <3>8. c.strict => InFile(c) \/ InChain(c)
        BY <3>1, <3>2 DEF CallSound, InFile, InChain
      <3>9. CallSound(c)
        BY <3>2, <3>5, <3>6, <3>7, <3>8 DEF CallSound, InChain
      <3>10. CallSound(c)'
        BY <3>4, <3>9 DEF CallSound, InFile, InChain
      <3>11. c \in Calls /\ nextSeq <= nextSeq'
        BY <2>t, <3>3, <3>4
      <3> QED BY <2>2, <3>3, <3>4, <3>10, <3>11
    <2>c. ASSUME NEW p \in Procs, rv[p].at = "store"
          PROVE  /\ rv[p] \in Calls /\ rv[p].fp \in Keys /\ CallSound(rv[p])
                 /\ RecordSound(RevocationOf(rv[p]))
                 /\ \A v \in RevInserted(rv[p]) : RecordSound(v)
                 /\ revDb \subseteq RevInserted(rv[p])
                 /\ \E r \in RevInserted(rv[p]) : r.fp = rv[p].fp /\ r.seq = rv[p].seq
      <3>1. rv[p] \in Calls /\ rv[p].fp \in Keys /\ CallSound(rv[p])
        BY <2>c, <2>t DEF RevTyped, Sound
      <3>2. \A v \in revDb : RecordSound(v)
        BY DEF Sound
      <3> QED BY <2>c, <2>t, <3>1, <3>2, StoredSound, InsertedFacts
    <2>d. CallSound(NoCall)
      BY <2>t DEF CallSound, RowTyped
    <2>7. ASSUME NEW p \in Procs, RevokeStores(p) \/ RevokeMirrors(p) PROVE Sound'
      <3> DEFINE c == rv[p]
                 x == RevocationOf(c)
      <3>0. c.at = "store" /\ x.fp = c.fp /\ x.seq = c.seq
        BY <2>7 DEF RevokeStores, RevokeMirrors, RevocationOf
      <3>1. /\ c \in Calls /\ c.fp \in Keys /\ CallSound(c) /\ RecordSound(x)
            /\ \A v \in RevInserted(c) : RecordSound(v)
            /\ revDb \subseteq RevInserted(c)
            /\ \E r \in RevInserted(c) : r.fp = c.fp /\ r.seq = c.seq
        BY <3>0, <2>c
      <3>2. /\ rv' = [rv EXCEPT ![p] = NoCall] /\ UNCHANGED <<spooled, rows, nextSeq>>
            /\ revMirror' = [revMirror EXCEPT ![p] = @ \cup {x}]
            /\ revDb' = revDb \/ revDb' = RevInserted(c)
        BY <2>7 DEF RevokeStores, RevokeMirrors, rowVars
      <3>3. c.seq < nextSeq
        BY <3>1 DEF CallSound
      <3> HIDE DEF x, c
      <3>s. nextSeq <= nextSeq'
        BY <3>2, <2>t
      <3>4. \A q \in Procs : CallSound(rv[q])'
        BY <3>2, <3>s, <2>s, <2>t, <2>d DEF Sound
      <3>5. \A v \in revDb' : RecordSound(v)'
        BY <3>1, <3>2, <3>s, <2>s DEF Sound
      <3>6. \A q \in Procs : \A v \in revMirror'[q] : RecordSound(v)'
        BY <3>1, <3>2, <3>s, <2>s, <2>t DEF Sound
      <3> DEFINE v == [fp |-> c.fp, from |-> nextSeq]
      <3>7. /\ \A q \in Procs : promised'[q] = promised[q] \/ (q = p /\ promised'[q] = promised[q] \cup {v})
            /\ \/ promised'[Everybody] = promised[Everybody]
               \/ /\ promised'[Everybody] = promised[Everybody] \cup {v}
                  /\ revDb' = RevInserted(c)
        BY <2>7 DEF RevokeStores, RevokeMirrors, Promise, c
      <3>8. v.fp = c.fp /\ v.from = nextSeq
        OBVIOUS
      <3> HIDE DEF v
      <3>9. \A q \in Procs : \A w \in promised'[q] : KeptBy(revMirror'[q], w)
        <4>1. KeptBy(revMirror'[p], v)
          BY <3>0, <3>2, <3>3, <3>8, <2>t DEF KeptBy, c
        <4>2. \A q \in Procs : revMirror[q] \subseteq revMirror'[q]
          BY <3>2, <2>t
        <4> QED BY <3>7, <4>1, <4>2 DEF KeptBy, Sound
      <3>10. \A w \in promised'[Everybody] : KeptBy(revDb', w)
        <4>1. revDb' = RevInserted(c) => KeptBy(revDb', v)
          BY <3>1, <3>3, <3>8 DEF KeptBy
        <4>2. revDb \subseteq revDb'
          BY <3>1, <3>2
        <4> QED BY <3>7, <4>1, <4>2 DEF KeptBy, Sound
      <3> QED BY <3>4, <3>5, <3>6, <3>9, <3>10 DEF Sound, KeptBy
    <2>8. ASSUME NEW p \in Procs, Crash(p) PROVE Sound'
      <3>1. /\ rv' = [rv EXCEPT ![p] = NoCall] /\ UNCHANGED <<spooled, rows, nextSeq>>
            /\ revMirror' = [revMirror EXCEPT ![p] = {}]
            /\ promised' = [promised EXCEPT ![p] = {}]
            /\ revDb' = revDb \/ (rv[p].at = "store" /\ revDb' = RevInserted(rv[p]))
        BY <2>8 DEF Crash
      <3>s. nextSeq <= nextSeq'
        BY <3>1, <2>t
      <3>2. \A q \in Procs : CallSound(rv[q])'
        BY <3>1, <3>s, <2>s, <2>t, <2>d DEF Sound
      <3>3. \A v \in revDb' : RecordSound(v)'
        BY <3>1, <3>s, <2>s, <2>c DEF Sound
      <3>4. \A q \in Procs : \A v \in revMirror'[q] : RecordSound(v)'
        BY <3>1, <3>s, <2>s, <2>t DEF Sound
      <3>5. revDb \subseteq revDb'
        BY <3>1, <2>c
      <3>6. promised'[Everybody] = promised[Everybody]
        BY <3>1, <2>t
      <3>7. \A w \in promised'[Everybody] : KeptBy(revDb', w)
        BY <3>5, <3>6 DEF Sound, KeptBy
      <3>8. \A q \in Procs : \A w \in promised'[q] : KeptBy(revMirror'[q], w)
        BY <3>1, <2>t DEF Sound, KeptBy
      <3> QED BY <3>2, <3>3, <3>4, <3>7, <3>8 DEF Sound, KeptBy
    <2>9. ASSUME NEW p \in Procs, Boot(p) \/ CreateFile(p) \/ LoadKey(p) \/ Start(p)
                 \/ (\E k \in Keys : WriteFile(p, k) \/ LookupKey(p, k)) \/ RollbackRow(p)
                 \/ RegisterInsert(p, key[p], Head) \/ RegisterSelect(p) \/ RegisterCommit(p)
                 \/ RegisterFails(p)
          PROVE  Sound'
      <3>1. UNCHANGED revVars /\ UNCHANGED <<rows, nextSeq>>
        BY <2>9 DEF Boot, CreateFile, LoadKey, Start, WriteFile, LookupKey, RollbackRow,
                    RegisterInsert, RegisterSelect, RegisterCommit, RegisterFails, rowVars
      <3> QED BY <2>1, <2>t, <3>1
    <2>10. ASSUME NEW p \in Procs, (\E fp \in Keys \cup {NoKey} : InsertRow(p, fp)) \/ CommitRow(p)
           PROVE  Sound'
      <3>1. UNCHANGED revVars /\ rows \subseteq rows' /\ nextSeq' \in {nextSeq, nextSeq + 1}
        BY <2>10 DEF InsertRow, CommitRow
      <3> QED BY <2>1, <2>t, <3>1
    <2>11. CASE UNCHANGED vars
      <3>1. UNCHANGED revVars /\ UNCHANGED <<rows, nextSeq>>
        BY <2>11 DEF vars, rowVars
      <3> QED BY <2>1, <2>t, <3>1
    <2>12. \A k \in used, strict \in Modes : k \in Keys /\ strict \in BOOLEAN
      BY IdentityAssumption DEF Typed, KeyTyped
    <2> QED
      BY <2>3, <2>4, <2>5, <2>6, <2>7, <2>8, <2>9, <2>10, <2>11, <2>12 DEF Next
  <1> QED BY <1>1, <1>2, TypedInvariant, PTL DEF Spec

(* A revocation reported done rejects what the key signs from then on, and *)
(* repudiates nothing below its own event, for every number of processes   *)
(* and keys and under every crash.                                         *)
THEOREM RevocationsHold == Spec => []RevocationHolds
  <1>1. Typed /\ Sound => RevocationHolds
    <2> SUFFICES ASSUME Typed, Sound PROVE RevocationHolds
      OBVIOUS
    <2>0. TypeOK
      BY TypedIsTypeOK
    <2> SUFFICES ASSUME NEW r \in rows, NEW p \in Procs
        PROVE  /\ (\E v \in promised[p] : v.fp = r.fp /\ v.from <= r.seq)
                     => Verdict(p, r) = "revoked_key"
               /\ (\E v \in promised[Everybody] : v.fp = r.fp /\ v.from <= r.seq)
                     => RevokedAtSeq(p, r.fp, r.seq)
               /\ RevokedAtSeq(p, r.fp, r.seq)
                     => \E v \in revDb \cup revMirror[p] :
                           /\ v.fp = r.fp
                           /\ v.seq = 0 \/ v.link # "chain" \/ v.event <= r.seq
      BY <2>0 DEF RevocationHolds
    <2>1. /\ r.seq \in Nat /\ promised[p] \subseteq Promises /\ promised[Everybody] \subseteq Promises
          /\ \A x \in revDb \cup revMirror[p] : x.seq \in Nat /\ x.event \in Nat /\ RecordSound(x)
      <3>1. r.seq \in Nat
        BY Constants DEF Typed, RowTyped, Row
      <3>2. \A x \in Revocation : x.seq \in Nat /\ x.event \in Nat
        BY Constants DEF Revocation
      <3> QED BY <3>1, <3>2 DEF Typed, RevTyped, Sound
    <2>2. \A v \in Promises : v.fp # NoKey /\ v.from \in Nat
      BY Constants DEF Promises
    <2>3. \A recs : \A v \in Promises : recs \subseteq revDb \cup revMirror[p] /\ KeptBy(recs, v)
             /\ v.fp = r.fp /\ v.from <= r.seq => RevokedIn(recs, r.fp, r.seq)
      BY <2>1, <2>2 DEF KeptBy, RevokedIn
    <2>4. (\E v \in promised[p] : v.fp = r.fp /\ v.from <= r.seq) => Verdict(p, r) = "revoked_key"
      <3> SUFFICES ASSUME NEW v \in promised[p], v.fp = r.fp, v.from <= r.seq
                   PROVE  Verdict(p, r) = "revoked_key"
        OBVIOUS
      <3>1. v \in Promises /\ KeptBy(revMirror[p], v)
        BY <2>1 DEF Sound
      <3>2. RevokedIn(revMirror[p], r.fp, r.seq) /\ r.fp # NoKey
        BY <2>2, <2>3, <3>1
      <3> QED BY <3>2 DEF Verdict
    <2>5. (\E v \in promised[Everybody] : v.fp = r.fp /\ v.from <= r.seq)
             => RevokedAtSeq(p, r.fp, r.seq)
      <3> SUFFICES ASSUME NEW v \in promised[Everybody], v.fp = r.fp, v.from <= r.seq
                   PROVE  RevokedAtSeq(p, r.fp, r.seq)
        OBVIOUS
      <3>1. v \in Promises /\ KeptBy(revDb, v)
        BY <2>1 DEF Sound
      <3>2. RevokedIn(revDb, r.fp, r.seq)
        BY <2>3, <3>1
      <3> QED BY <3>2 DEF RevokedAtSeq
    <2>6. RevokedAtSeq(p, r.fp, r.seq)
             => \E v \in revDb \cup revMirror[p] :
                   /\ v.fp = r.fp
                   /\ v.seq = 0 \/ v.link # "chain" \/ v.event <= r.seq
      BY <2>1 DEF RevokedAtSeq, RevokedIn, RecordSound
    <2> QED BY <2>4, <2>5, <2>6
  <1> QED BY <1>1, TypedInvariant, SoundInvariant, PTL

(* Every strict revocation in force is announced, in the chain or in the   *)
(* file that is drained into it.                                           *)
THEOREM StrictIsAnnounced == Spec => []StrictLinked
  <1>1. Sound => StrictLinked
    BY DEF Sound, StrictLinked, RecordSound, InFile, InChain
  <1> QED BY <1>1, SoundInvariant, PTL
=============================================================================
