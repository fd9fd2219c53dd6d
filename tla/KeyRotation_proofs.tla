------------------------- MODULE KeyRotation_proofs -------------------------
(***************************************************************************)
(* What verification says of the audit table, across rotations of its key. *)
(*                                                                         *)
(* A coordinated rotation (the writers are stopped before it) is proved    *)
(* right for every number of keys, sessions, rotators and rows: a report   *)
(* that says the chain is verified ran over intact rows, a MAC alarm means *)
(* that a row was changed or deleted, and every row lies in the window of  *)
(* its key. A row takes part through its chain_seq: the next one, and the  *)
(* one a marker has reserved, lie ahead of every row, window and deletion  *)
(* (Reserved); during a rotation nobody else writes (Fenced); what is      *)
(* damaged shows in the row itself or in its successor of the session      *)
(* (Shows); the windows of the keys are disjoint and fit the rows          *)
(* (Windows); and what a report has read by each of its steps still fits   *)
(* the rows up to its end (Reporting), because rows are only added past    *)
(* it.                                                                     *)
(***************************************************************************)
EXTENDS KeyRotation, WellFoundedInduction, TLAPS

(* The record of a rotation under way ...                                  *)
Rotations == [pc : {"idle", "read", "marked"}, out : Keys \cup {NoKey}, in : Keys \cup {NoKey},
              prev : Seqs \cup {None}, seq : Seqs \cup {None}]
(* ... and of a report under way.                                          *)
Reports == [pc : {"idle", "head", "markers", "versions"}, from : Seqs \cup {None},
            to : Seqs \cup {None}, rotated : BOOLEAN, versions : SUBSET Version,
            failed : BOOLEAN]

(* TypeOK by groups of variables, made inductive: the tables,              *)
TypedTable ==
    /\ DOMAIN rows \in SUBSET Seqs
    /\ \A q \in DOMAIN rows : rows[q] \in Row
    /\ nextSeq \in 1..MaxSeq + 1
    /\ versions \in SUBSET Version
(* ... what the processes, the rotations and the report hold,              *)
TypedActors ==
    /\ fleet \in SUBSET Keys
    /\ rot \in [Rotators -> Rotations]
    /\ secret \in Keys
    /\ rep \in Reports
(* ... and the record of the damage done.                                  *)
TypedDamage ==
    /\ changed \in SUBSET Seqs
    /\ deleted \in SUBSET [seq : Seqs, sess : Sessions, top : Seqs]
(* All of them.                                                            *)
Typed == TypedTable /\ TypedActors /\ TypedDamage

(* A rotation between its reads and its commit.                            *)
Rotating(r) == rot[r].pc \in {"read", "marked"}

(* The discipline of a coordinated rotation: one at a time, nobody logs    *)
(* meanwhile, and processes sign with the current key.                     *)
Fenced ==
    /\ \A r, o \in Rotators : Rotating(r) /\ Rotating(o) => r = o
    /\ \A r \in Rotators : Rotating(r) =>
         fleet = {} /\ {rot[r].out, rot[r].in} \subseteq Keys /\ Current(rot[r].out)
    /\ \A k \in fleet : Current(k)

(* n lies ahead of every row there is or was, of the window of a report    *)
(* and not below the start of any key window.                              *)
Ahead(n) ==
    /\ \A q \in DOMAIN rows : q < n
    /\ \A q \in changed : q < n
    /\ \A d \in deleted : d.seq < n /\ d.top < n
    /\ rep.to < n
    /\ \A v \in versions : v.from <= n

(* The next chain_seq is ahead, and so is the one of a marker under way.   *)
Reserved ==
    /\ Ahead(nextSeq)
    /\ \A r \in Rotators :
         /\ rot[r].pc = "marked" => rot[r].seq \in Seqs /\ rot[r].seq < nextSeq /\ Ahead(rot[r].seq)
         /\ Rotating(r) => \A q \in DOMAIN rows : q <= rot[r].prev

(* What happened to rows shows: a change in the row itself, a deletion in  *)
(* the later rows of the session, none of which names an earlier row.      *)
Shows ==
    /\ \A q \in DOMAIN rows : rows[q].intact <=> q \notin changed
    /\ \A p, q \in DOMAIN rows :
         rows[p].sess = rows[q].sess /\ p < q => p <= rows[q].prev
    /\ \A d \in deleted :
         /\ d.seq \notin DOMAIN rows
         /\ \A q \in DOMAIN rows :
              rows[q].sess = d.sess /\ d.seq < q /\ q <= d.top => d.seq <= rows[q].prev

(* The windows of two keys do not meet ...                                 *)
Covers(v, q) == v.from <= q /\ (v.to = None \/ q < v.to)
(* One window ends before another starts;                                  *)
Before(v, w) == v.to # None /\ v.to <= w.from
(* so it is of every two windows of a table.                               *)
Disjoint(vs) == \A v, w \in vs : v = w \/ Before(v, w) \/ Before(w, v)

(* ... and a row lies in the window of the key that signed it, a marker    *)
(* right before the window of the key it announces.                        *)
Fits(vs, q, row) ==
    /\ \E v \in vs : v.key = row.key /\ Covers(v, q)
    /\ row.next # NoKey => \E v \in vs : v.key = row.next /\ Covers(v, q + 1)

(* The windows of the key table are those of the rows.                     *)
Windows == Disjoint(versions) /\ \A q \in DOMAIN rows : Fits(versions, q, rows[q])

(* The key table as it was set up.                                         *)
FirstVersions == {[key |-> FirstKey, from |-> 1, to |-> None]}

(* The key table is the initial one unless a marker says otherwise, and    *)
(* the reporting process runs with a key of the table.                     *)
Marked ==
    /\ versions = FirstVersions \/ deleted # {} \/ \E q \in DOMAIN rows : rows[q].next # NoKey
    /\ \E v \in versions : v.key = secret

(* What a report whose reads succeeded has read is right for the rows of   *)
(* its window, however the tables have changed since.                      *)
Reporting ==
    /\ rep.pc = "versions" /\ ~rep.failed =>
         /\ Disjoint(rep.versions)
         /\ \A q \in DOMAIN rows : q <= rep.to => Fits(rep.versions, q, rows[q])
    /\ rep.pc = "markers" /\ ~rep.failed /\ ~rep.rotated /\ deleted = {} =>
         /\ secret = FirstKey
         /\ \A q \in DOMAIN rows : q <= rep.to => rows[q].key = FirstKey

(* The inductive invariant of a coordinated table.                         *)
Inv == Typed /\ Fenced /\ Reserved /\ Shows /\ Windows /\ Marked /\ Reporting
-----------------------------------------------------------------------------
(* A non-empty set of naturals has a least element.                        *)
LEMMA MinExists ==
    ASSUME NEW T \in SUBSET Nat, T # {}
    PROVE  \E x \in T : \A y \in T : x <= y
  <1> DEFINE R == OpToRel(<, Nat)
  <1>1. IsWellFoundedOn(R, Nat)
    BY NatLessThanWellFounded
  <1> HIDE DEF R
  <1>2. PICK x \in T : \A y \in T : ~ (<<y, x>> \in R)
    BY <1>1, WFMin
  <1>3. \A y \in T : y < x => <<y, x>> \in R
    BY DEF R, OpToRel
  <1>4. \A y \in T : ~ (y < x)
    BY <1>2, <1>3, Zenon
  <1> QED BY <1>4

(* A non-empty, bounded set of naturals has a greatest one, which Max is.   *)
LEMMA MaxIs ==
    ASSUME NEW T \in SUBSET Nat, NEW n \in Nat, T # {}, \A y \in T : y <= n
    PROVE  Max(T) \in T /\ \A y \in T : y <= Max(T)
  <1> DEFINE U == {m \in Nat : \A y \in T : y <= m}
  <1>1. PICK m \in U : \A u \in U : m <= u
    <2>1. U \in SUBSET Nat /\ n \in U
      OBVIOUS
    <2> QED BY <2>1, MinExists
  <1>2. m \in T
    <2> SUFFICES ASSUME m \notin T PROVE FALSE
      OBVIOUS
    <2>1. m # 0
      <3>1. PICK y \in T : TRUE
        OBVIOUS
      <3>2. y <= m /\ y \in Nat /\ y # m
        OBVIOUS
      <3> QED BY <3>2
    <2>2. m - 1 \in U
      BY <2>1
    <2> QED BY <1>1, <2>2
  <1>3. \E x \in T : \A y \in T : x >= y
    BY <1>2
  <1> QED BY <1>3 DEF Max

(* LastOf of numbers of rows: one of them, none of which is higher.        *)
LEMMA LastOfIs ==
    ASSUME NEW T \in SUBSET Seqs
    PROVE  /\ LastOf(T) \in Seqs \cup {None} /\ \A y \in T : y <= LastOf(T)
           /\ T # {} => LastOf(T) \in T
  <1>1. CASE T = {}
    BY <1>1 DEF LastOf
  <1>2. CASE T # {}
    <2>1. MaxSeq \in Nat /\ T \in SUBSET Nat /\ \A y \in T : y <= MaxSeq
      BY RotationAssumption DEF Seqs
    <2>2. Max(T) \in T /\ \A y \in T : y <= Max(T)
      BY <1>2, <2>1, MaxIs
    <2> QED BY <1>2, <2>2 DEF LastOf
  <1> QED BY <1>1, <1>2

(* Where the windows do not meet, the active key is the one whose window   *)
(* covers the row.                                                         *)
LEMMA ActiveIs ==
    ASSUME NEW vs \in SUBSET Version, NEW q \in Nat, Disjoint(vs), NEW v \in vs, Covers(v, q)
    PROVE  Active(q, vs) = v.key
  <1> DEFINE open == {w \in vs : w.from <= q /\ (w.to = None \/ w.to > q)}
  <1>1. \A w \in vs : w.from \in Nat /\ w.to \in Nat
    BY RotationAssumption DEF Version, None
  <1>2. v \in open
    BY <1>1 DEF Covers
  <1>3. \A w \in open : w = v
    <2> SUFFICES ASSUME NEW w \in open, w # v PROVE FALSE
      OBVIOUS
    <2>1. Before(v, w) \/ Before(w, v)
      BY DEF Disjoint
    <2> QED BY <1>1, <1>2, <2>1 DEF Before
  <1>4. open = {v}
    BY <1>2, <1>3
  <1> HIDE DEF open
  <1>5. (CHOOSE x \in {v} : \A w \in {v} : w.from <= x.from) = v
    BY <1>1
  <1>6. Active(q, vs) = (CHOOSE x \in open : \A w \in open : w.from <= x.from).key
    BY <1>4 DEF Active, open
  <1> QED BY <1>4, <1>5, <1>6

(* The parts of Typed give the type invariant.                             *)
LEMMA TypedIsTypeOK == Typed => TypeOK
  <1> SUFFICES ASSUME Typed PROVE TypeOK
    OBVIOUS
  <1>1. \A r \in Rotators : rot[r] \in Rotations
    BY DEF Typed, TypedActors
  <1>2. \A r \in Rotators :
         /\ rot[r].pc \in {"idle", "read", "marked"}
         /\ {rot[r].out, rot[r].in} \subseteq Keys \cup {NoKey}
         /\ {rot[r].prev, rot[r].seq} \subseteq Seqs \cup {None}
    BY <1>1 DEF Rotations
  <1>3. /\ rep.pc \in {"idle", "head", "markers", "versions"}
        /\ {rep.from, rep.to} \subseteq Seqs \cup {None}
        /\ {rep.rotated, rep.failed} \subseteq BOOLEAN
        /\ rep.versions \subseteq Version
    BY DEF Typed, TypedActors, Reports
  <1> QED BY <1>2, <1>3 DEF TypeOK, Typed, TypedTable, TypedActors, TypedDamage

(* Initially one key is registered and the table is empty.                 *)
LEMMA InitInv == Init => Inv
  <1> SUFFICES ASSUME Init PROVE Inv
    OBVIOUS
  <1>0. MaxSeq \in Nat /\ FirstKey \in Keys
    BY RotationAssumption
  <1>1. DOMAIN rows = {}
    BY DEF Init
  <1>2. TypedTable
    <2>1. [key |-> FirstKey, from |-> 1, to |-> None] \in Version
      BY <1>0 DEF Version
    <2> QED BY <1>0, <1>1, <2>1 DEF Init, TypedTable
  <1>3. TypedActors /\ TypedDamage
    <2>1. NotRotating \in Rotations
      BY DEF NotRotating, Rotations
    <2>2. NotReporting \in Reports
      BY DEF NotReporting, Reports
    <2> QED BY <1>0, <2>1, <2>2 DEF Init, TypedActors, TypedDamage
  <1>4. \A r \in Rotators : rot[r].pc = "idle"
    BY DEF Init, NotRotating
  <1>5. Fenced
    BY <1>4 DEF Fenced, Rotating, Init, Current
  <1>6. Reserved
    BY <1>1, <1>4 DEF Reserved, Rotating, Ahead, Init, NotReporting, None
  <1>7. Shows
    BY <1>1 DEF Init, Shows
  <1>8. Windows /\ Marked
    BY <1>1 DEF Init, Windows, Disjoint, Marked, FirstVersions
  <1>9. Reporting
    BY DEF Init, NotReporting, Reporting
  <1> QED BY <1>2, <1>3, <1>5, <1>6, <1>7, <1>8, <1>9 DEF Inv, Typed

-----------------------------------------------------------------------------
(* A row put at a number that lies ahead leaves the others as they are.    *)
LEMMA PutFacts ==
    ASSUME TypedTable, NEW q \in Seqs, NEW row \in Row, Put(q, row), Ahead(q)
    PROVE  /\ DOMAIN rows' = DOMAIN rows \cup {q} /\ rows'[q] = row
           /\ \A p \in DOMAIN rows : p \in Nat /\ p < q /\ rows'[p] = rows[p]
           /\ DOMAIN rows' \in SUBSET Seqs /\ \A p \in DOMAIN rows' : rows'[p] \in Row
           /\ q \in Nat /\ q # 0
  <1>1. DOMAIN rows' = DOMAIN rows \cup {q}
    BY DEF Put
  <1>2. rows'[q] = row /\ \A p \in DOMAIN rows : p # q => rows'[p] = rows[p]
    BY DEF Put
  <1>3. \A p \in DOMAIN rows : p \in Nat /\ p < q
    BY DEF TypedTable, Seqs, Ahead
  <1>4. q \in Nat /\ q # 0
    BY DEF Seqs
  <1>5. \A p \in DOMAIN rows : p # q
    BY <1>3, <1>4
  <1> QED BY <1>1, <1>2, <1>3, <1>4, <1>5 DEF TypedTable

(* Such a row, with a predecessor above its session's rows, hides no       *)
(* earlier change or deletion.                                             *)
LEMMA PutShows ==
    ASSUME Typed, Shows, NEW q \in Seqs, NEW row \in Row, Put(q, row), Ahead(q), row.intact,
           \A p \in DOMAIN rows : rows[p].sess = row.sess => p <= row.prev,
           UNCHANGED damage
    PROVE  Shows'
  <1>1. /\ DOMAIN rows' = DOMAIN rows \cup {q} /\ rows'[q] = row
        /\ \A p \in DOMAIN rows : p \in Nat /\ p < q /\ rows'[p] = rows[p]
        /\ q \in Nat
    BY PutFacts DEF Typed
  <1>2. changed' = changed /\ deleted' = deleted
    BY DEF damage
  <1>3. /\ \A p \in changed : p < q /\ p \in Nat
        /\ \A d \in deleted : d.seq < q /\ d.top < q /\ d.seq \in Nat /\ d.top \in Nat
    BY DEF Ahead, Typed, TypedDamage, Seqs
  <1>4. \A p \in DOMAIN rows' : rows'[p].intact <=> p \notin changed'
    BY <1>1, <1>2, <1>3 DEF Shows
  <1>5. ASSUME NEW p \in DOMAIN rows', NEW s \in DOMAIN rows',
               rows'[p].sess = rows'[s].sess, p < s
        PROVE  p <= rows'[s].prev
    <2>1. CASE s = q
      <3>1. p \in DOMAIN rows
        BY <1>1, <1>5, <2>1
      <3> QED BY <1>1, <1>5, <2>1, <3>1
    <2>2. CASE s # q
      <3>1. s \in DOMAIN rows /\ p # q
        BY <1>1, <1>5, <2>2
      <3>2. p \in DOMAIN rows
        BY <1>1, <3>1
      <3> QED BY <1>1, <1>5, <3>1, <3>2 DEF Shows
    <2> QED BY <2>1, <2>2
  <1>6. ASSUME NEW d \in deleted'
        PROVE  /\ d.seq \notin DOMAIN rows'
               /\ \A p \in DOMAIN rows' :
                    rows'[p].sess = d.sess /\ d.seq < p /\ p <= d.top => d.seq <= rows'[p].prev
    <2>1. d \in deleted /\ d.seq # q /\ ~ (q <= d.top)
      BY <1>1, <1>2, <1>3
    <2> QED BY <1>1, <2>1 DEF Shows
  <1> QED BY <1>4, <1>5, <1>6 DEF Shows

(* ... and lies outside the window of a report under way.                  *)
LEMMA PutReporting ==
    ASSUME Typed, Reporting, NEW q \in Seqs, NEW row \in Row, Put(q, row), Ahead(q),
           UNCHANGED <<rep, secret, deleted>>
    PROVE  Reporting'
  <1>1. /\ DOMAIN rows' = DOMAIN rows \cup {q}
        /\ \A p \in DOMAIN rows : rows'[p] = rows[p]
        /\ q \in Nat
    BY PutFacts DEF Typed
  <1>2. rep.to \in Nat /\ rep.to < q
    BY DEF Ahead, Typed, TypedActors, Reports, Seqs, None
  <1>3. \A p \in DOMAIN rows' : p <= rep.to => p \in DOMAIN rows /\ rows'[p] = rows[p]
    BY <1>1, <1>2
  <1>4. rep' = rep /\ secret' = secret /\ deleted' = deleted
    OBVIOUS
  <1>5. rep.pc = "versions" /\ ~rep.failed =>
         /\ Disjoint(rep.versions)
         /\ \A p \in DOMAIN rows' : p <= rep.to => Fits(rep.versions, p, rows'[p])
    BY <1>3 DEF Reporting
  <1>6. rep.pc = "markers" /\ ~rep.failed /\ ~rep.rotated /\ deleted = {} =>
         /\ secret = FirstKey
         /\ \A p \in DOMAIN rows' : p <= rep.to => rows'[p].key = FirstKey
    BY <1>3 DEF Reporting
  <1> QED BY <1>4, <1>5, <1>6 DEF Reporting

(* A row a process logs lies in the window of the current key.             *)
LEMMA LogStep ==
    ASSUME Inv, Coordinated, NEW s \in Sessions, NEW k \in Keys, Log(s, k)
    PROVE  Inv'
  <1> DEFINE q == nextSeq
             row == [sess |-> s, key |-> k, next |-> NoKey,
                     prev |-> LastOf(OfSession(rows, s)), intact |-> TRUE]
  <1>0. /\ OfSession(rows, s) \in SUBSET Seqs
        /\ \A p \in DOMAIN rows : rows[p].sess = s => p \in OfSession(rows, s)
    BY DEF OfSession, Inv, Typed, TypedTable
  <1>1. q \in Seqs /\ row \in Row /\ Put(q, row) /\ nextSeq' = q + 1
    <2>1. LastOf(OfSession(rows, s)) \in Seqs \cup {None}
      BY <1>0, LastOfIs
    <2>2. row \in Row
      BY <2>1 DEF Row
    <2> QED BY <2>2 DEF Log
  <1>2. /\ versions' = versions /\ fleet' = fleet /\ rot' = rot /\ secret' = secret
        /\ rep' = rep /\ changed' = changed /\ deleted' = deleted
    BY DEF Log, damage
  <1>3. Ahead(q) /\ k \in fleet /\ Typed
    BY DEF Inv, Reserved, Log
  <1> USE DEF Inv
  <1>4. /\ row.sess = s /\ row.key = k /\ row.next = NoKey /\ row.intact
        /\ \A p \in DOMAIN rows : rows[p].sess = row.sess => p <= row.prev
    BY <1>0, LastOfIs
  <1> HIDE DEF row
  <1>5. /\ DOMAIN rows' = DOMAIN rows \cup {q} /\ rows'[q] = row
        /\ \A p \in DOMAIN rows : p \in Nat /\ p < q /\ rows'[p] = rows[p]
        /\ DOMAIN rows' \in SUBSET Seqs /\ \A p \in DOMAIN rows' : rows'[p] \in Row
        /\ q \in Nat /\ q # 0
    BY <1>1, <1>3, PutFacts DEF Typed
  <1>6. Typed'
    <2>1. q + 1 \in 1..MaxSeq + 1
      BY <1>1, RotationAssumption DEF Seqs
    <2>2. TypedTable'
      BY <1>1, <1>2, <1>5, <2>1 DEF TypedTable, Typed
    <2> QED BY <1>2, <2>2 DEF Typed, TypedActors, TypedDamage
  <1>7. \A r \in Rotators : rot[r].pc = "idle"
    BY <1>3 DEF Fenced, Rotating, Typed, TypedActors, Rotations
  <1>8. Fenced'
    BY <1>2 DEF Fenced, Rotating, Current
  <1>9. Reserved'
    <2>1. Ahead(nextSeq)'
      <3>1. /\ \A p \in changed : p < q /\ p \in Nat
            /\ \A d \in deleted : d.seq < q /\ d.top < q /\ d.seq \in Nat /\ d.top \in Nat
            /\ \A v \in versions : v.from <= q /\ v.from \in Nat
            /\ rep.to < q /\ rep.to \in Nat
        BY <1>3, RotationAssumption
        DEF Ahead, Typed, TypedDamage, TypedTable, TypedActors, Reports, Version, Seqs, None
      <3> QED BY <1>1, <1>2, <1>5, <3>1 DEF Ahead
    <2> QED BY <1>2, <1>7, <2>1 DEF Reserved, Rotating
  <1>10. Shows'
    BY <1>1, <1>2, <1>3, <1>4, PutShows DEF damage
  <1>11. Windows'
    <2>1. PICK v \in versions : v.key = k /\ v.to = None
      BY <1>3 DEF Fenced, Current
    <2>2. Covers(v, q)
      BY <1>3, <2>1 DEF Covers, Ahead
    <2>3. Fits(versions, q, row)
      BY <1>4, <2>1, <2>2 DEF Fits
    <2> QED BY <1>2, <1>5, <2>3 DEF Windows
  <1>12. Marked'
    BY <1>2, <1>5 DEF Marked
  <1>13. Reporting'
    BY <1>1, <1>2, <1>3, PutReporting
  <1> QED BY <1>6, <1>8, <1>9, <1>10, <1>11, <1>12, <1>13

(* Starting and stopping processes touches only the fleet.                 *)
LEMMA FleetStep ==
    ASSUME Inv, Coordinated, Stop \/ \E k \in Keys : Deploy(k)
    PROVE  Inv'
  <1>1. /\ rows' = rows /\ nextSeq' = nextSeq /\ versions' = versions /\ rot' = rot
        /\ secret' = secret /\ rep' = rep /\ changed' = changed /\ deleted' = deleted
    BY DEF Stop, Deploy, table, damage
  <1>2. Typed' /\ Fenced'
    <2>1. CASE Stop
      BY <1>1, <2>1 DEF Inv, Typed, TypedTable, TypedActors, TypedDamage, Stop, Fenced,
                        Rotating, Current
    <2>2. ASSUME NEW k \in Keys, Deploy(k) PROVE Typed' /\ Fenced'
      <3>1. /\ Current(k) /\ \A r \in Rotators : rot[r].pc = "idle"
            /\ fleet' = fleet \cup {k}
        BY <2>2 DEF Deploy
      <3>2. Typed'
        BY <1>1, <3>1 DEF Inv, Typed, TypedTable, TypedActors, TypedDamage
      <3> QED BY <1>1, <3>1, <3>2 DEF Inv, Fenced, Rotating, Current
    <2> QED BY <2>1, <2>2
  <1>3. Reserved' /\ Shows'
    BY <1>1 DEF Inv, Reserved, Ahead, Rotating, Shows
  <1>4. Windows' /\ Marked' /\ Reporting'
    BY <1>1 DEF Inv, Windows, Marked, Reporting
  <1> QED BY <1>2, <1>3, <1>4 DEF Inv

(* A change shows in the row, a deletion in the rows behind it.            *)
LEMMA DamageStep ==
    ASSUME Inv, NEW q \in Seqs, Damage(q)
    PROVE  Inv'
  <1>1. /\ nextSeq' = nextSeq /\ versions' = versions /\ rot' = rot /\ fleet' = fleet
        /\ secret' = secret /\ rep' = rep /\ q \in DOMAIN rows
    BY DEF Damage
  <1>2. /\ Typed /\ Shows /\ Reserved /\ Windows /\ Marked /\ Reporting /\ Fenced
        /\ \A p \in DOMAIN rows : rows[p] \in Row /\ p \in Nat /\ p < nextSeq
        /\ nextSeq \in Nat
    BY DEF Inv, Typed, TypedTable, Reserved, Ahead, Seqs
  <1>3. CASE /\ rows' = [rows EXCEPT ![q].intact = FALSE]
             /\ changed' = changed \cup {q} /\ deleted' = deleted
    <2>1. /\ DOMAIN rows' = DOMAIN rows
          /\ \A p \in DOMAIN rows : p # q => rows'[p] = rows[p]
          /\ rows'[q] = [rows[q] EXCEPT !.intact = FALSE]
      BY <1>1, <1>3
    <2>2. /\ rows'[q] \in Row /\ rows'[q].sess = rows[q].sess /\ rows'[q].key = rows[q].key
          /\ rows'[q].next = rows[q].next /\ rows'[q].prev = rows[q].prev
          /\ ~rows'[q].intact
      BY <1>1, <1>2, <2>1 DEF Row
    <2>3. \A p \in DOMAIN rows :
            /\ rows'[p].sess = rows[p].sess /\ rows'[p].key = rows[p].key
            /\ rows'[p].next = rows[p].next /\ rows'[p].prev = rows[p].prev
            /\ rows'[p] \in Row
      BY <1>2, <2>1, <2>2
    <2>4. Typed'
      BY <1>1, <1>2, <1>3, <2>1, <2>3 DEF Typed, TypedTable, TypedActors, TypedDamage
    <2>5. Fenced'
      BY <1>1, <1>2 DEF Fenced, Rotating, Current
    <2>6. Reserved'
      BY <1>1, <1>2, <1>3, <2>1 DEF Reserved, Rotating, Ahead
    <2>7. Shows'
      <3>1. \A p \in DOMAIN rows : rows'[p].intact <=> p \notin changed'
        BY <1>2, <1>3, <2>1, <2>2 DEF Shows
      <3> QED BY <1>2, <1>3, <2>1, <2>3, <3>1 DEF Shows
    <2>8. Windows'
      BY <1>1, <1>2, <2>1, <2>3 DEF Windows, Fits
    <2>9. Marked'
      BY <1>1, <1>2, <1>3, <2>1, <2>3 DEF Marked
    <2>10. Reporting'
      BY <1>1, <1>2, <1>3, <2>1, <2>3 DEF Reporting, Fits
    <2> QED BY <2>4, <2>5, <2>6, <2>7, <2>8, <2>9, <2>10 DEF Inv
  <1>4. CASE /\ rows' = [p \in DOMAIN rows \ {q} |-> rows[p]]
             /\ deleted' = deleted \cup {[seq |-> q, sess |-> rows[q].sess,
                                         top |-> Max(OfSession(rows, rows[q].sess))]}
             /\ changed' = changed
    <2> DEFINE T == OfSession(rows, rows[q].sess)
               d == [seq |-> q, sess |-> rows[q].sess, top |-> Max(T)]
    <2>1. /\ DOMAIN rows' = DOMAIN rows \ {q}
          /\ \A p \in DOMAIN rows' : rows'[p] = rows[p]
      BY <1>4
    <2>2. /\ T \in SUBSET DOMAIN rows /\ q \in T
      BY <1>1 DEF OfSession
    <2>3. Max(T) \in T
      <3>1. MaxSeq \in Nat /\ T \in SUBSET Nat /\ \A y \in T : y <= MaxSeq
        BY <1>2, <2>2, RotationAssumption DEF Typed, TypedTable, Seqs
      <3> QED BY <2>2, <3>1, MaxIs
    <2>4. d \in [seq : Seqs, sess : Sessions, top : Seqs]
      BY <1>1, <1>2, <2>2, <2>3 DEF Row, Typed, TypedTable
    <2>5. d.seq = q /\ d.top \in DOMAIN rows /\ d.sess = rows[q].sess
      BY <2>2, <2>3
    <2> HIDE DEF d, T
    <2>6. deleted' = deleted \cup {d}
      BY <1>4 DEF d, T
    <2>7. Typed'
      BY <1>1, <1>2, <1>4, <2>1, <2>4, <2>6 DEF Typed, TypedTable, TypedActors, TypedDamage
    <2>8. Fenced'
      BY <1>1, <1>2 DEF Fenced, Rotating, Current
    <2>9. Reserved'
      BY <1>1, <1>2, <1>4, <2>1, <2>5, <2>6 DEF Reserved, Rotating, Ahead
    <2>10. Shows'
      <3>1. \A p \in DOMAIN rows' : rows'[p].intact <=> p \notin changed'
        BY <1>2, <1>4, <2>1 DEF Shows
      <3>2. \A e \in deleted' :
             /\ e.seq \notin DOMAIN rows'
             /\ \A p \in DOMAIN rows' :
                  rows'[p].sess = e.sess /\ e.seq < p /\ p <= e.top => e.seq <= rows'[p].prev
        <4>1. \A p \in DOMAIN rows : rows[p].sess = d.sess /\ d.seq < p => d.seq <= rows[p].prev
          BY <1>1, <1>2, <2>5 DEF Shows
        <4> QED BY <1>2, <2>1, <2>5, <2>6, <4>1 DEF Shows
      <3>3. \A p, t \in DOMAIN rows' :
             rows'[p].sess = rows'[t].sess /\ p < t => p <= rows'[t].prev
        BY <1>2, <2>1 DEF Shows
      <3> QED BY <3>1, <3>2, <3>3 DEF Shows
    <2>11. Windows'
      BY <1>1, <1>2, <2>1 DEF Windows
    <2>12. Marked'
      BY <1>1, <1>2, <2>6 DEF Marked
    <2>13. Reporting'
      BY <1>1, <1>2, <2>1, <2>6 DEF Reporting
    <2> QED BY <2>7, <2>8, <2>9, <2>10, <2>11, <2>12, <2>13 DEF Inv
  <1> QED BY <1>3, <1>4 DEF Damage

(* A rotation that begins finds the table at rest.                         *)
LEMMA BeginStep ==
    ASSUME Inv, Coordinated, NEW r \in Rotators, NEW out \in Keys, NEW in \in Keys,
           RotateBegin(r, out, in)
    PROVE  Inv'
  <1> DEFINE t == [pc |-> "read", out |-> out, in |-> in, prev |-> LastOf(DOMAIN rows),
                   seq |-> None]
  <1>1. /\ rows' = rows /\ nextSeq' = nextSeq /\ versions' = versions /\ fleet' = fleet
        /\ secret' = secret /\ rep' = rep /\ changed' = changed /\ deleted' = deleted
    BY DEF RotateBegin, table, damage
  <1>2. /\ fleet = {} /\ Current(out) /\ \A o \in Rotators : rot[o].pc = "idle"
        /\ rot' = [rot EXCEPT ![r] = t]
    BY DEF RotateBegin
  <1>3. /\ LastOf(DOMAIN rows) \in Seqs \cup {None}
        /\ \A q \in DOMAIN rows : q <= LastOf(DOMAIN rows)
    BY LastOfIs DEF Inv, Typed, TypedTable
  <1>4. /\ t \in Rotations /\ t.pc = "read" /\ t.out = out /\ t.in = in
        /\ \A q \in DOMAIN rows : q <= t.prev
    BY <1>3 DEF Rotations
  <1> HIDE DEF t
  <1>5. /\ rot' \in [Rotators -> Rotations] /\ rot'[r] = t
        /\ \A o \in Rotators : o # r => rot'[o].pc = "idle"
    BY <1>2, <1>4 DEF Inv, Typed, TypedActors
  <1>6. Typed'
    BY <1>1, <1>5 DEF Inv, Typed, TypedTable, TypedActors, TypedDamage
  <1>7. Fenced'
    BY <1>1, <1>2, <1>4, <1>5 DEF Fenced, Rotating, Current
  <1>8. Reserved'
    BY <1>1, <1>4, <1>5 DEF Inv, Reserved, Ahead, Rotating
  <1>9. Shows' /\ Windows' /\ Marked' /\ Reporting'
    BY <1>1 DEF Inv, Shows, Windows, Marked, Reporting
  <1> QED BY <1>6, <1>7, <1>8, <1>9 DEF Inv

(* The number of the marker lies ahead of everything.                      *)
LEMMA MarkerStep ==
    ASSUME Inv, NEW r \in Rotators, RotateMarker(r)
    PROVE  Inv'
  <1>1. /\ rows' = rows /\ versions' = versions /\ fleet' = fleet
        /\ secret' = secret /\ rep' = rep /\ changed' = changed /\ deleted' = deleted
        /\ nextSeq' = nextSeq + 1 /\ nextSeq \in Seqs /\ rot[r].pc = "read"
    BY DEF RotateMarker, damage
  <1>2. rot[r] \in Rotations /\ rot \in [Rotators -> Rotations]
    BY DEF Inv, Typed, TypedActors
  <1>3. /\ rot'[r].pc = "marked" /\ rot'[r].seq = nextSeq /\ rot'[r].out = rot[r].out
        /\ rot'[r].in = rot[r].in /\ rot'[r].prev = rot[r].prev
        /\ \A o \in Rotators : o # r => rot'[o] = rot[o]
    BY <1>2 DEF RotateMarker, Rotations
  <1>4. rot' \in [Rotators -> Rotations]
    BY <1>1, <1>2 DEF RotateMarker, Rotations
  <1>5. \A o \in Rotators : o # r => rot[o].pc = "idle"
    BY <1>1, <1>2 DEF Inv, Fenced, Rotating, Rotations
  <1>6. Typed'
    <2>1. nextSeq + 1 \in 1..MaxSeq + 1
      BY <1>1, RotationAssumption DEF Seqs
    <2> QED BY <1>1, <1>4, <2>1 DEF Inv, Typed, TypedTable, TypedActors, TypedDamage
  <1>7. Fenced'
    BY <1>1, <1>3, <1>5 DEF Inv, Fenced, Rotating, Current
  <1>8. Reserved'
    <2>1. Ahead(nextSeq)
      BY DEF Inv, Reserved
    <2>2. /\ nextSeq \in Nat
          /\ \A p \in DOMAIN rows : p \in Nat
          /\ \A p \in changed : p \in Nat
          /\ \A d \in deleted : d.seq \in Nat /\ d.top \in Nat
          /\ \A v \in versions : v.from \in Nat
          /\ rep.to \in Nat
      BY RotationAssumption
      DEF Inv, Typed, TypedDamage, TypedTable, TypedActors, Reports, Version, Seqs, None
    <2>3. Ahead(nextSeq)'
      BY <1>1, <2>1, <2>2 DEF Ahead
    <2>4. Ahead(rot[r].seq)'
      BY <1>1, <1>3, <2>1 DEF Ahead
    <2>5. nextSeq < nextSeq'
      BY <1>1, <2>2
    <2> QED BY <1>1, <1>3, <1>5, <2>3, <2>4, <2>5 DEF Inv, Reserved, Rotating
  <1>9. Shows' /\ Windows' /\ Marked' /\ Reporting'
    BY <1>1 DEF Inv, Shows, Windows, Marked, Reporting
  <1> QED BY <1>6, <1>7, <1>8, <1>9 DEF Inv

(* A rollback leaves nothing but a number nobody uses.                     *)
LEMMA AbortStep ==
    ASSUME Inv, NEW r \in Rotators, RotateAbort(r)
    PROVE  Inv'
  <1>1. /\ rows' = rows /\ nextSeq' = nextSeq /\ versions' = versions /\ fleet' = fleet
        /\ secret' = secret /\ rep' = rep /\ changed' = changed /\ deleted' = deleted
        /\ rot' = [rot EXCEPT ![r] = NotRotating]
    BY DEF RotateAbort, table, damage
  <1>2. NotRotating \in Rotations /\ NotRotating.pc = "idle"
    BY DEF NotRotating, Rotations
  <1>3. /\ rot' \in [Rotators -> Rotations] /\ rot'[r].pc = "idle"
        /\ \A o \in Rotators : o # r => rot'[o] = rot[o]
    BY <1>1, <1>2 DEF Inv, Typed, TypedActors
  <1>4. Typed'
    BY <1>1, <1>3 DEF Inv, Typed, TypedTable, TypedActors, TypedDamage
  <1>5. Fenced'
    BY <1>1, <1>3 DEF Inv, Fenced, Rotating, Current
  <1>6. Reserved'
    BY <1>1, <1>3 DEF Inv, Reserved, Ahead, Rotating
  <1>7. Shows' /\ Windows' /\ Marked' /\ Reporting'
    BY <1>1 DEF Inv, Shows, Windows, Marked, Reporting
  <1> QED BY <1>4, <1>5, <1>6, <1>7 DEF Inv

(* The hand-over cuts the window of the outgoing key behind the marker and *)
(* opens the next one there: windows stay apart, and what lies at or below *)
(* the marker stays covered.                                               *)
LEMMA HandOverFits ==
    ASSUME NEW vs \in SUBSET Version, Disjoint(vs), NEW out \in Keys, NEW in \in Keys,
           NEW seq \in Seqs, \E v \in vs : v.key = out /\ v.to = None,
           \A v \in vs : v.from <= seq
    PROVE  /\ HandOver(vs, out, in, seq) \in SUBSET Version
           /\ Disjoint(HandOver(vs, out, in, seq))
           /\ \A w \in HandOver(vs, out, in, seq) : w.from <= seq + 1
           /\ \A v \in vs : \E w \in HandOver(vs, out, in, seq) :
                w.key = v.key /\ \A q \in 0..seq : Covers(v, q) => Covers(w, q)
           /\ \E w \in HandOver(vs, out, in, seq) : w.key = out /\ Covers(w, seq)
           /\ \E w \in HandOver(vs, out, in, seq) : w.key = in /\ Covers(w, seq + 1) /\ w.to = None
  <1> DEFINE Cut(v) == [v EXCEPT !.to = IF v.key = out /\ v.to = None THEN seq + 1 ELSE @]
             new == [key |-> in, from |-> seq + 1, to |-> None]
             H == HandOver(vs, out, in, seq)
  <1>1. seq \in Nat /\ seq # 0 /\ MaxSeq \in Nat /\ seq + 1 \in 1..MaxSeq + 1
    BY RotationAssumption DEF Seqs
  <1>2. new \in Version /\ new.key = in /\ new.from = seq + 1 /\ new.to = None
    BY <1>1 DEF Version
  <1>3. \A v \in vs : v.from \in Nat /\ v.to \in Nat /\ v \in Version
    BY <1>1 DEF Version, None
  <1>4. PICK cur \in vs : cur.key = out /\ cur.to = None
    OBVIOUS
  <1>5. \A v \in vs : v # cur => v.to # None /\ v.to <= cur.from
    <2> SUFFICES ASSUME NEW v \in vs, v # cur PROVE v.to # None /\ v.to <= cur.from
      OBVIOUS
    <2>1. Before(v, cur) \/ Before(cur, v)
      BY DEF Disjoint
    <2> QED BY <1>4, <2>1 DEF Before
  <1>6. \A v \in vs :
          /\ Cut(v) \in Version /\ Cut(v).key = v.key /\ Cut(v).from = v.from
          /\ v # cur => Cut(v) = v
          /\ v = cur => Cut(v).to = seq + 1
    <2> SUFFICES ASSUME NEW v \in vs
                 PROVE  /\ Cut(v) \in Version /\ Cut(v).key = v.key /\ Cut(v).from = v.from
                        /\ v # cur => Cut(v) = v
                        /\ v = cur => Cut(v).to = seq + 1
      OBVIOUS
    <2>1. CASE v = cur
      <3>1. Cut(v) = [v EXCEPT !.to = seq + 1]
        BY <1>4, <2>1
      <3> QED BY <1>1, <1>3, <2>1, <3>1 DEF Version
    <2>2. CASE v # cur
      <3>1. Cut(v) = [v EXCEPT !.to = @]
        BY <1>5, <2>2
      <3>2. Cut(v) = v
        BY <1>3, <3>1 DEF Version
      <3> QED BY <1>3, <2>2, <3>2
    <2> QED BY <2>1, <2>2
  <1>7. H = {Cut(v) : v \in vs} \cup {new}
    BY DEF HandOver
  <1> HIDE DEF Cut, new, H
  <1>8. \A w \in H : w = new \/ \E v \in vs : w = Cut(v)
    BY <1>7
  <1>9. new \in H /\ \A v \in vs : Cut(v) \in H
    BY <1>7
  <1>10. H \in SUBSET Version
    BY <1>2, <1>6, <1>8
  <1>11. \A w \in H : w.from <= seq + 1
    BY <1>1, <1>2, <1>3, <1>6, <1>8
  <1>12. Disjoint(H)
    <2>1. \A v \in vs : Before(Cut(v), new)
      <3> SUFFICES ASSUME NEW v \in vs PROVE Before(Cut(v), new)
        OBVIOUS
      <3>1. CASE v = cur
        BY <1>1, <1>2, <1>6, <3>1 DEF Before, None
      <3>2. CASE v # cur
        <4>1. v.to <= cur.from /\ cur.from <= seq /\ v.to # None
          BY <1>5, <3>2
        <4> QED BY <1>1, <1>2, <1>3, <1>6, <3>2, <4>1 DEF Before
      <3> QED BY <3>1, <3>2
    <2>2. \A v, w \in vs : Cut(v) = Cut(w) \/ Before(Cut(v), Cut(w)) \/ Before(Cut(w), Cut(v))
      <3> SUFFICES ASSUME NEW v \in vs, NEW w \in vs, v # w
                   PROVE  Before(Cut(v), Cut(w)) \/ Before(Cut(w), Cut(v))
        OBVIOUS
      <3>1. CASE v = cur
        BY <1>5, <1>6, <3>1 DEF Before
      <3>2. CASE w = cur
        BY <1>5, <1>6, <3>2 DEF Before
      <3>3. CASE v # cur /\ w # cur
        <4>1. Before(v, w) \/ Before(w, v)
          BY DEF Disjoint
        <4> QED BY <1>6, <3>3, <4>1
      <3> QED BY <3>1, <3>2, <3>3
    <2> QED BY <1>8, <2>1, <2>2 DEF Disjoint
  <1>13. \A v \in vs : \E w \in H : w.key = v.key /\ \A q \in 0..seq : Covers(v, q) => Covers(w, q)
    <2> SUFFICES ASSUME NEW v \in vs
                 PROVE  /\ Cut(v).key = v.key
                        /\ \A q \in 0..seq : Covers(v, q) => Covers(Cut(v), q)
      BY <1>9
    <2>1. CASE v = cur
      BY <1>1, <1>6, <2>1 DEF Covers
    <2>2. CASE v # cur
      BY <1>6, <2>2
    <2> QED BY <2>1, <2>2
  <1>14. \E w \in H : w.key = out /\ Covers(w, seq)
    BY <1>1, <1>4, <1>6, <1>9 DEF Covers
  <1>15. \E w \in H : w.key = in /\ Covers(w, seq + 1) /\ w.to = None
    BY <1>1, <1>2, <1>9 DEF Covers
  <1> QED BY <1>10, <1>11, <1>12, <1>13, <1>14, <1>15 DEF H

(* The commit of a rotation: the marker is the last row of the old key.    *)
LEMMA CommitStep ==
    ASSUME Inv, NEW r \in Rotators, RotateCommit(r)
    PROVE  Inv'
  <1>1. PICK t \in Rotations : t = rot[r]
    BY DEF Inv, Typed, TypedActors
  <1> DEFINE q == t.seq
             row == [sess |-> SystemSession, key |-> t.out, next |-> t.in,
                     prev |-> t.prev, intact |-> TRUE]
             H == HandOver(versions, t.out, t.in, t.seq)
  <1>2. /\ t.pc = "marked" /\ Put(q, row) /\ versions' = H
        /\ rot' = [rot EXCEPT ![r] = NotRotating]
        /\ nextSeq' = nextSeq /\ fleet' = fleet /\ secret' = secret /\ rep' = rep
        /\ changed' = changed /\ deleted' = deleted
    BY <1>1 DEF RotateCommit, damage
  <1>3. /\ Typed /\ Shows /\ Reserved /\ Windows /\ Marked /\ Reporting /\ Fenced
    BY DEF Inv
  <1>4. /\ q \in Seqs /\ q < nextSeq /\ Ahead(q) /\ fleet = {}
        /\ t.out \in Keys /\ t.in \in Keys /\ Current(t.out)
        /\ \A p \in DOMAIN rows : p <= t.prev
        /\ \A o \in Rotators : o # r => ~Rotating(o)
    BY <1>1, <1>2, <1>3 DEF Reserved, Fenced, Rotating
  <1>5. row \in Row
    BY <1>4, RotationAssumption DEF Row, Rotations
  <1>6. /\ row.sess = SystemSession /\ row.key = t.out /\ row.next = t.in
        /\ row.prev = t.prev /\ row.intact
    OBVIOUS
  <1>7. t.in # NoKey
    BY <1>4, RotationAssumption
  <1> HIDE DEF row
  <1>8. /\ DOMAIN rows' = DOMAIN rows \cup {q} /\ rows'[q] = row
        /\ \A p \in DOMAIN rows : p \in Nat /\ p < q /\ rows'[p] = rows[p]
        /\ DOMAIN rows' \in SUBSET Seqs /\ \A p \in DOMAIN rows' : rows'[p] \in Row
        /\ q \in Nat /\ q # 0
    BY <1>2, <1>3, <1>4, <1>5, PutFacts DEF Typed
  <1>9. /\ H \in SUBSET Version /\ Disjoint(H)
        /\ \A w \in H : w.from <= q + 1
        /\ \A v \in versions : \E w \in H :
             w.key = v.key /\ \A p \in 0..q : Covers(v, p) => Covers(w, p)
        /\ \E w \in H : w.key = t.out /\ Covers(w, q)
        /\ \E w \in H : w.key = t.in /\ Covers(w, q + 1) /\ w.to = None
    <2>1. versions \in SUBSET Version /\ Disjoint(versions)
      BY <1>3 DEF Typed, TypedTable, Windows
    <2>2. \E v \in versions : v.key = t.out /\ v.to = None
      BY <1>4 DEF Current
    <2>3. \A v \in versions : v.from <= q
      BY <1>4 DEF Ahead
    <2> QED BY <1>4, <2>1, <2>2, <2>3, HandOverFits
  <1> HIDE DEF H
  <1>10. NotRotating \in Rotations /\ NotRotating.pc = "idle"
    BY DEF NotRotating, Rotations
  <1>11. /\ rot' \in [Rotators -> Rotations] /\ rot'[r].pc = "idle"
         /\ \A o \in Rotators : o # r => rot'[o] = rot[o]
    BY <1>2, <1>3, <1>10 DEF Typed, TypedActors
  <1>12. \A o \in Rotators : rot'[o].pc = "idle"
    BY <1>3, <1>4, <1>11 DEF Rotating, Typed, TypedActors, Rotations
  <1>13. Typed'
    <2>1. TypedTable'
      BY <1>2, <1>3, <1>8, <1>9 DEF Typed, TypedTable
    <2> QED BY <1>2, <1>3, <1>11, <2>1 DEF Typed, TypedActors, TypedDamage
  <1>14. Fenced'
    BY <1>2, <1>4, <1>12 DEF Fenced, Rotating
  <1>15. Reserved'
    <2>1. Ahead(nextSeq) /\ nextSeq \in Nat
      BY <1>3 DEF Reserved, Typed, TypedTable
    <2>2. \A w \in H : w.from \in Nat
      BY <1>9, RotationAssumption DEF Version
    <2>3. \A w \in H : w.from <= nextSeq
      BY <1>4, <1>8, <1>9, <2>1, <2>2
    <2>4. Ahead(nextSeq)'
      BY <1>2, <1>4, <1>8, <2>1, <2>3 DEF Ahead
    <2> QED BY <1>12, <2>4 DEF Reserved, Rotating
  <1>16. Shows'
    BY <1>2, <1>3, <1>4, <1>5, <1>6, PutShows DEF damage
  <1>17. Windows'
    <2>1. Fits(H, q, row)
      BY <1>6, <1>9 DEF Fits
    <2>2. \A p \in DOMAIN rows : Fits(H, p, rows[p])
      <3> SUFFICES ASSUME NEW p \in DOMAIN rows PROVE Fits(H, p, rows[p])
        OBVIOUS
      <3>1. p \in 0..q /\ p + 1 \in 0..q
        BY <1>8
      <3>2. Fits(versions, p, rows[p])
        BY <1>3 DEF Windows
      <3> QED BY <1>9, <3>1, <3>2 DEF Fits
    <2> QED BY <1>2, <1>8, <1>9, <2>1, <2>2 DEF Windows
  <1>18. Marked'
    <2>1. \E w \in H : w.key = secret
      BY <1>3, <1>9 DEF Marked
    <2> QED BY <1>2, <1>6, <1>7, <1>8, <2>1 DEF Marked
  <1>19. Reporting'
    BY <1>2, <1>3, <1>4, <1>5, PutReporting
  <1> QED BY <1>13, <1>14, <1>15, <1>16, <1>17, <1>18, <1>19 DEF Inv

(* What a step of the reporting process has to show: it leaves the tables  *)
(* alone, so only its own window and its own conclusions count.            *)
LEMMA ReaderStep ==
    ASSUME Inv, UNCHANGED <<table, fleet, rot, damage>>,
           rep' \in Reports, rep'.to \in {rep.to, None, LastOf(DOMAIN rows)},
           secret' \in Keys, \E v \in versions : v.key = secret', Reporting'
    PROVE  Inv'
  <1>1. /\ rows' = rows /\ nextSeq' = nextSeq /\ versions' = versions /\ fleet' = fleet
        /\ rot' = rot /\ changed' = changed /\ deleted' = deleted
    BY DEF table, damage
  <1>2. Typed' /\ Fenced'
    BY <1>1 DEF Inv, Typed, TypedTable, TypedActors, TypedDamage, Fenced, Rotating, Current
  <1>3. ASSUME NEW n \in Nat, n # 0, Ahead(n) PROVE rep'.to < n
    <2>1. LastOf(DOMAIN rows) = None \/ LastOf(DOMAIN rows) \in DOMAIN rows
      <3>1. DOMAIN rows \in SUBSET Seqs
        BY DEF Inv, Typed, TypedTable
      <3> QED BY <3>1, LastOfIs DEF LastOf
    <2> QED BY <1>3, <2>1 DEF Ahead, None
  <1>4. Reserved'
    <2>1. nextSeq \in Nat /\ nextSeq # 0 /\ Ahead(nextSeq)
      BY DEF Inv, Typed, TypedTable, Reserved
    <2>2. Ahead(nextSeq)'
      BY <1>1, <1>3, <2>1 DEF Ahead
    <2>3. ASSUME NEW r \in Rotators, rot[r].pc = "marked"
          PROVE  rot'[r].seq \in Seqs /\ rot'[r].seq < nextSeq' /\ Ahead(rot[r].seq)'
      <3>1. rot[r].seq \in Seqs /\ rot[r].seq < nextSeq /\ Ahead(rot[r].seq)
        BY <2>3 DEF Inv, Reserved
      <3>2. rot[r].seq \in Nat /\ rot[r].seq # 0
        BY <3>1 DEF Seqs
      <3> QED BY <1>1, <1>3, <3>1, <3>2 DEF Ahead
    <2> QED BY <1>1, <2>2, <2>3 DEF Inv, Reserved, Rotating
  <1>5. Shows' /\ Windows' /\ Marked'
    BY <1>1 DEF Inv, Shows, Windows, Marked
  <1> QED BY <1>2, <1>4, <1>5 DEF Inv

(* A restart or the end of a report forgets what was read.                 *)
LEMMA ForgetStep ==
    ASSUME Inv, ReportEnds \/ \E k \in Keys : RestartReporter(k)
    PROVE  Inv'
  <1>1. UNCHANGED <<table, fleet, rot, damage>> /\ rep' = NotReporting
    BY DEF ReportEnds, RestartReporter
  <1>2. NotReporting \in Reports /\ NotReporting.to = None /\ NotReporting.pc = "idle"
    BY DEF NotReporting, Reports
  <1>3. secret' \in Keys /\ \E v \in versions : v.key = secret'
    BY DEF ReportEnds, RestartReporter, Current, Inv, Marked, Typed, TypedActors
  <1>4. Reporting'
    BY <1>1, <1>2 DEF Reporting
  <1> QED BY <1>1, <1>2, <1>3, <1>4, ReaderStep

(* The reads of a report: the head bounds its window by a row that exists, *)
(* and what it reads afterwards is at least as new.                        *)
LEMMA ReadStep ==
    ASSUME Inv, NEW fails \in BOOLEAN,
           ReadHead(fails) \/ ReadMarkers(fails) \/ ReadVersions(fails)
    PROVE  Inv'
  <1>1. UNCHANGED <<table, fleet, rot, secret, damage>>
    BY DEF ReadHead, ReadMarkers, ReadVersions
  <1>2. /\ rows' = rows /\ versions' = versions /\ secret' = secret /\ deleted' = deleted
    BY <1>1 DEF table, damage
  <1>3. rep \in Reports /\ versions \in SUBSET Version /\ MaxSeq \in Nat /\ Window \in Nat \ {0}
    BY RotationAssumption DEF Inv, Typed, TypedTable, TypedActors
  <1>4. secret' \in Keys /\ \E v \in versions : v.key = secret'
    BY <1>2 DEF Inv, Typed, TypedActors, Marked
  <1>5. CASE ReadHead(fails)
    <2> DEFINE head == IF fails THEN None ELSE LastOf(DOMAIN rows)
    <2>1. /\ head \in Seqs \cup {None} /\ head \in {None, LastOf(DOMAIN rows)}
      <3>1. DOMAIN rows \in SUBSET Seqs
        BY DEF Inv, Typed, TypedTable
      <3> QED BY <3>1, LastOfIs
    <2>2. (IF head >= Window THEN head + 1 - Window ELSE None) \in Seqs \cup {None}
      BY <1>3, <2>1 DEF Seqs, None
    <2>3. CASE rep' = [rep EXCEPT !.pc = "head", !.to = head, !.failed = fails,
                             !.from = IF head >= Window THEN head + 1 - Window ELSE None]
      <3> HIDE DEF head
      <3>1. rep' \in Reports
        BY <1>3, <2>1, <2>2, <2>3 DEF Reports
      <3>2. rep'.pc = "head" /\ rep'.to = head
        BY <1>3, <2>3 DEF Reports
      <3>3. Reporting'
        BY <3>2 DEF Reporting
      <3> QED BY <1>1, <1>4, <2>1, <3>1, <3>2, <3>3, ReaderStep
    <2>4. ASSUME NEW f \in Seqs, rep' = [rep EXCEPT !.pc = "head", !.from = f]
          PROVE  Inv'
      <3>1. rep' \in Reports
        BY <1>3, <2>4 DEF Reports
      <3>2. rep'.pc = "head" /\ rep'.to = rep.to
        BY <1>3, <2>4 DEF Reports
      <3>3. Reporting'
        BY <3>2 DEF Reporting
      <3> QED BY <1>1, <1>4, <3>1, <3>2, <3>3, ReaderStep
    <2> QED BY <1>5, <2>3, <2>4 DEF ReadHead
  <1>6. CASE ReadMarkers(fails)
    <2> DEFINE found == ~fails /\ \E q \in DOMAIN rows : rows[q].next # NoKey
    <2>1. rep' = [rep EXCEPT !.pc = "markers", !.failed = @ \/ fails, !.rotated = found]
      BY <1>6 DEF ReadMarkers
    <2>2. found \in BOOLEAN /\ (rep.failed \/ fails) \in BOOLEAN
      BY <1>3 DEF Reports
    <2>3. found <=> ~fails /\ \E q \in DOMAIN rows : rows[q].next # NoKey
      OBVIOUS
    <2> HIDE DEF found
    <2>4. rep' \in Reports
      BY <1>3, <2>1, <2>2 DEF Reports
    <2>5. /\ rep'.pc = "markers" /\ rep'.to = rep.to /\ rep'.rotated = found
          /\ rep'.failed = (rep.failed \/ fails)
      BY <1>3, <2>1 DEF Reports
    <2>6. ASSUME ~rep'.failed, ~rep'.rotated, deleted = {}
          PROVE  secret = FirstKey /\ \A q \in DOMAIN rows : rows[q].key = FirstKey
      <3>1. versions = FirstVersions
        BY <2>3, <2>5, <2>6 DEF Inv, Marked
      <3>2. \A v \in versions : v.key = FirstKey
        BY <3>1 DEF FirstVersions
      <3> QED BY <3>2 DEF Inv, Marked, Windows, Fits
    <2>7. Reporting'
      BY <1>2, <2>5, <2>6 DEF Reporting
    <2> QED BY <1>1, <1>4, <2>4, <2>5, <2>7, ReaderStep
  <1>7. CASE ReadVersions(fails)
    <2>1. rep' = [rep EXCEPT !.pc = "versions", !.failed = @ \/ fails,
                             !.versions = IF fails THEN {} ELSE versions]
      BY <1>7 DEF ReadVersions
    <2>2. (rep.failed \/ fails) \in BOOLEAN
      BY <1>3 DEF Reports
    <2>3. rep' \in Reports
      BY <1>3, <2>1, <2>2 DEF Reports
    <2>4. /\ rep'.pc = "versions" /\ rep'.to = rep.to /\ rep'.failed = (rep.failed \/ fails)
          /\ ~fails => rep'.versions = versions
      BY <1>3, <2>1 DEF Reports
    <2>5. Reporting'
      BY <1>2, <2>4 DEF Inv, Reporting, Windows
    <2> QED BY <1>1, <1>4, <2>3, <2>4, <2>5, ReaderStep
  <1> QED BY <1>5, <1>6, <1>7

(* Every step of a coordinated system keeps the invariant.                 *)
LEMMA NextInv == Coordinated /\ Inv /\ [Next]_vars => Inv'
  <1> SUFFICES ASSUME Coordinated, Inv, [Next]_vars PROVE Inv'
    OBVIOUS
  <1>1. CASE UNCHANGED vars
    <2>1. /\ rows' = rows /\ nextSeq' = nextSeq /\ versions' = versions /\ fleet' = fleet
          /\ rot' = rot /\ secret' = secret /\ rep' = rep
          /\ changed' = changed /\ deleted' = deleted
      BY <1>1 DEF vars, table, damage
    <2>2. Typed' /\ Fenced'
      BY <2>1 DEF Inv, Typed, TypedTable, TypedActors, TypedDamage, Fenced, Rotating, Current
    <2>3. Reserved' /\ Shows'
      BY <2>1 DEF Inv, Reserved, Ahead, Rotating, Shows
    <2>4. Windows' /\ Marked' /\ Reporting'
      BY <2>1 DEF Inv, Windows, Marked, Reporting
    <2> QED BY <2>2, <2>3, <2>4 DEF Inv
  <1> QED
    BY <1>1, LogStep, FleetStep, DamageStep, BeginStep, MarkerStep, CommitStep, AbortStep,
       ForgetStep, ReadStep DEF Next

(* The invariant holds throughout, for coordinated rotations.              *)
LEMMA SpecInv == ASSUME Coordinated PROVE Spec => []Inv
  <1>1. Inv /\ [Next]_vars => Inv'
    BY NextInv
  <1> QED BY InitInv, <1>1, PTL DEF Spec

-----------------------------------------------------------------------------
(* Rows that are all intact and linked hide neither a change nor a         *)
(* deletion: the least row above a deleted one names it or a later row.    *)
LEMMA LinkedIsIntact ==
    ASSUME Typed, Shows, NEW D \in SUBSET DOMAIN rows, NEW genesis \in BOOLEAN, NEW tab,
           tab = [q \in D |-> rows[q]],
           \A q \in D : tab[q].intact, LinkedRows(tab, genesis)
    PROVE  ~Damaged(tab, genesis)
  <1>1. DOMAIN tab = D /\ \A q \in D : tab[q] = rows[q] /\ q \in DOMAIN rows /\ q \in Nat
    BY DEF Typed, TypedTable, Seqs
  <1>2. changed \cap DOMAIN tab = {}
    BY <1>1 DEF Shows
  <1>3. ASSUME NEW d \in deleted, NEW x \in OfSession(tab, d.sess), d.seq < x, x <= d.top,
               genesis \/ \E q \in OfSession(tab, d.sess) : q < d.seq
        PROVE  FALSE
    <2> DEFINE S == OfSession(tab, d.sess)
               U == {q \in S : d.seq < q}
    <2>1. \A q \in S : q \in D /\ tab[q].sess = d.sess
      BY <1>1 DEF OfSession
    <2>2. d.seq \in Nat /\ d.top \in Nat /\ d.seq # 0 /\ d.sess \in Sessions /\ d.seq \notin DOMAIN rows
      BY DEF Typed, TypedDamage, Seqs, Shows
    <2>3. U \in SUBSET Nat /\ x \in U
      BY <1>1, <1>3, <2>1
    <2>4. PICK u \in U : \A y \in U : u <= y
      BY <2>3, MinExists
    <2>5. u \in S /\ d.seq < u /\ u <= x /\ u \in Nat /\ x \in Nat
      BY <2>3, <2>4
    <2>6. u <= d.top
      BY <1>3, <2>2, <2>5
    <2>7. d.seq <= tab[u].prev
      <3>1. u \in DOMAIN rows /\ tab[u] = rows[u] /\ rows[u].sess = d.sess
        BY <1>1, <2>1, <2>5
      <3> QED BY <2>5, <2>6, <3>1 DEF Shows
    <2> DEFINE before == {p \in S : p < u}
    <2>8. \A p \in before : p < d.seq /\ p \in Nat
      <3> SUFFICES ASSUME NEW p \in before PROVE p < d.seq /\ p \in Nat
        OBVIOUS
      <3>1. p \in Nat /\ p \in DOMAIN rows /\ p < u /\ p \in S
        BY <1>1, <2>1
      <3>2. p # d.seq
        BY <2>2, <3>1
      <3>3. ~ (d.seq < p)
        <4> SUFFICES ASSUME d.seq < p PROVE FALSE
          OBVIOUS
        <4>1. p \in U
          BY <3>1
        <4> QED BY <2>4, <2>5, <3>1, <4>1
      <3> QED BY <2>2, <3>1, <3>2, <3>3
    <2>9. IF before = {} THEN genesis => tab[u].prev = None ELSE tab[u].prev = Max(before)
      BY <2>2, <2>5 DEF LinkedRows
    <2>10. CASE before = {}
      <3>1. genesis
        <4> SUFFICES ASSUME ~genesis PROVE FALSE
          OBVIOUS
        <4>1. PICK q \in S : q < d.seq
          BY <1>3
        <4>2. q \in Nat
          BY <1>1, <2>1
        <4>3. q \in before
          BY <2>2, <2>5, <4>1, <4>2
        <4> QED BY <2>10, <4>3
      <3> QED BY <2>2, <2>7, <2>9, <2>10, <3>1 DEF None
    <2>11. CASE before # {}
      <3>1. before \in SUBSET Nat /\ \A y \in before : y <= d.seq
        BY <2>2, <2>8
      <3>2. Max(before) \in before
        BY <2>2, <2>11, <3>1, MaxIs
      <3> QED BY <2>2, <2>7, <2>8, <2>9, <2>11, <3>2
    <2> QED BY <2>10, <2>11
  <1> QED BY <1>2, <1>3 DEF Damaged

(* When the verdict is "verified", and when it speaks of a hash.           *)
LEMMA JudgeFacts ==
    ASSUME NEW tab, NEW macs, NEW genesis
    PROVE  /\ Judge(tab, macs, genesis)[1] = "verified" =>
                "failed" \notin macs /\ "unverified" \notin macs /\ LinkedRows(tab, genesis)
           /\ Judge(tab, macs, genesis)[2] = "mac" => "failed" \in macs
  BY DEF Judge

(* The status of a row is one of three, and "ok" only for an intact one.   *)
LEMMA StatusFacts ==
    ASSUME NEW q, NEW tab, NEW vs, NEW avail
    PROVE  /\ RowStatus(q, tab, vs, avail) \in {"ok", "failed", "unverified"}
           /\ RowStatus(q, tab, vs, avail) = "ok" => tab[q].intact
  BY DEF RowStatus, VerifyEvent, VerifyMarker

(* A "verified" report or session overlooks neither a changed row nor one  *)
(* deleted from the middle or the head of a session: for every number of   *)
(* rows, sessions, keys and rotations, whatever reads failed and whatever  *)
(* happened between them, while rotations are coordinated.                 *)
THEOREM RotationVerifiedMeansIntact ==
    ASSUME Coordinated PROVE Spec => []VerifiedMeansIntact
  <1>1. Inv => VerifiedMeansIntact
    <2> SUFFICES ASSUME Inv PROVE VerifiedMeansIntact
      OBVIOUS
    <2>1. Typed /\ Shows
      BY DEF Inv
    <2> DEFINE D == {p \in DOMAIN rows : InWindow(p)}
    <2>2. Loaded = [q \in D |-> rows[q]] /\ D \in SUBSET DOMAIN rows /\ DOMAIN Loaded = D
      BY DEF Loaded
    <2>3. Genesis \in BOOLEAN
      BY DEF Genesis
    <2>4. ASSUME NEW avail \in SUBSET Keys, RotatedVerdict(avail)[1] = "verified"
          PROVE  ~Damaged(Loaded, Genesis)
      <3> DEFINE macs == {RowStatus(q, Loaded, rep.versions, avail) : q \in DOMAIN Loaded}
      <3>1. RotatedVerdict(avail) = Judge(Loaded, macs, Genesis)
        BY DEF RotatedVerdict
      <3>2. "failed" \notin macs /\ "unverified" \notin macs /\ LinkedRows(Loaded, Genesis)
        <4> HIDE DEF macs
        <4> QED BY <2>4, <3>1, JudgeFacts
      <3>3. \A q \in D : Loaded[q].intact
        <4> SUFFICES ASSUME NEW q \in D PROVE Loaded[q].intact
          OBVIOUS
        <4>1. RowStatus(q, Loaded, rep.versions, avail) \in macs
          BY <2>2
        <4>2. RowStatus(q, Loaded, rep.versions, avail) = "ok"
          BY <3>2, <4>1, StatusFacts
        <4> QED BY <4>2, StatusFacts
      <3> HIDE DEF D
      <3> QED BY <2>1, <2>2, <2>3, <3>2, <3>3, LinkedIsIntact
    <2>5. ASSUME NEW T \in SUBSET DOMAIN rows, NEW genesis \in BOOLEAN, NEW tab,
                 tab = [q \in T |-> rows[q]],
                 Judge(tab, UnderSecret(tab), genesis)[1] = "verified"
          PROVE  ~Damaged(tab, genesis)
      <3>1. "failed" \notin UnderSecret(tab) /\ LinkedRows(tab, genesis)
        BY <2>5, JudgeFacts
      <3>2. DOMAIN tab = T
        BY <2>5
      <3>3. \A q \in T : tab[q].intact
        BY <3>1, <3>2 DEF UnderSecret, VerifyEvent
      <3> QED BY <2>1, <2>5, <3>1, <3>3, LinkedIsIntact
    <2>6. SingleKeyVerdict[1] = "verified" => ~Damaged(Loaded, Genesis)
      <3> HIDE DEF D
      <3> QED BY <2>2, <2>3, <2>5 DEF SingleKeyVerdict
    <2>7. ASSUME NEW s \in Sessions, SessionVerdict(s)[1] = "verified"
          PROVE  ~Damaged([q \in OfSession(rows, s) |-> rows[q]], TRUE)
      <3>1. OfSession(rows, s) \in SUBSET DOMAIN rows
        BY DEF OfSession
      <3> QED BY <2>5, <2>7, <3>1 DEF SessionVerdict
    <2> QED BY <2>4, <2>6, <2>7 DEF VerifiedMeansIntact
  <1> QED BY SpecInv, <1>1, PTL

(* A report whose reads succeeded and whose window ends at a row finds a   *)
(* hash that does not match only when a row was changed or a marker        *)
(* removed, for every number of rows, keys and coordinated rotations and   *)
(* whatever rotation falls between its reads.                              *)
THEOREM RotationMacAlarmMeansDamage ==
    ASSUME Coordinated PROVE Spec => []MacAlarmMeansDamage
  <1>1. Inv => MacAlarmMeansDamage
    <2> SUFFICES ASSUME Inv, ~rep.failed, rep.to # None, deleted = {},
                        changed \cap DOMAIN Loaded = {},
                        \/ rep.pc = "versions"
                           /\ \E avail \in SUBSET Keys : RotatedVerdict(avail)[2] = "mac"
                        \/ rep.pc = "markers" /\ ~rep.rotated /\ SingleKeyVerdict[2] = "mac"
                 PROVE  FALSE
      BY DEF MacAlarmMeansDamage, FalseHashAlarm
    <2>1. /\ \A q \in DOMAIN Loaded : /\ q \in DOMAIN rows /\ Loaded[q] = rows[q]
                                      /\ q <= rep.to /\ q \in Nat
      BY DEF Loaded, InWindow, Inv, Typed, TypedTable, Seqs
    <2>2. \A q \in DOMAIN Loaded : Loaded[q].intact
      BY <2>1 DEF Inv, Shows
    <2>3. ASSUME rep.pc = "versions", NEW avail \in SUBSET Keys,
                 RotatedVerdict(avail)[2] = "mac"
          PROVE  FALSE
      <3> DEFINE macs == {RowStatus(q, Loaded, rep.versions, avail) : q \in DOMAIN Loaded}
      <3>1. "failed" \in macs
        <4>1. RotatedVerdict(avail) = Judge(Loaded, macs, Genesis)
          BY DEF RotatedVerdict
        <4> HIDE DEF macs
        <4> QED BY <2>3, <4>1, JudgeFacts
      <3>2. PICK q \in DOMAIN Loaded : RowStatus(q, Loaded, rep.versions, avail) = "failed"
        BY <3>1
      <3>3. /\ rep.versions \in SUBSET Version /\ Disjoint(rep.versions)
            /\ Fits(rep.versions, q, Loaded[q])
        BY <2>1, <2>3 DEF Inv, Reporting, Typed, TypedActors, Reports
      <3>4. Active(q, rep.versions) = Loaded[q].key
        BY <2>1, <3>3, ActiveIs DEF Fits
      <3>5. Loaded[q].next # NoKey => Active(q + 1, rep.versions) = Loaded[q].next
        <4>1. q + 1 \in Nat
          BY <2>1
        <4> QED BY <3>3, <4>1, ActiveIs DEF Fits
      <3> QED BY <2>2, <3>2, <3>4, <3>5 DEF RowStatus, VerifyEvent, VerifyMarker
    <2>4. ASSUME rep.pc = "markers", ~rep.rotated, SingleKeyVerdict[2] = "mac"
          PROVE  FALSE
      <3>1. "failed" \in UnderSecret(Loaded)
        BY <2>4, JudgeFacts DEF SingleKeyVerdict
      <3>2. PICK q \in DOMAIN Loaded : ~VerifyEvent(Loaded[q], secret)
        BY <3>1 DEF UnderSecret
      <3>3. secret = FirstKey /\ rows[q].key = FirstKey
        BY <2>1, <2>4 DEF Inv, Reporting
      <3> QED BY <2>1, <2>2, <3>2, <3>3 DEF VerifyEvent
    <2> QED BY <2>3, <2>4
  <1> QED BY SpecInv, <1>1, PTL

(* The key table fits the rows after any number of coordinated rotations:  *)
(* the key active at a row's chain_seq is the one its hmac was made with,  *)
(* and behind a marker the one the marker announces.                       *)
THEOREM RotationWindowsFit ==
    ASSUME Coordinated PROVE Spec => []WindowsFit
  <1>1. Inv => WindowsFit
    <2> SUFFICES ASSUME Inv PROVE WindowsFit
      OBVIOUS
    <2>1. TypeOK
      BY TypedIsTypeOK DEF Inv
    <2>2. ASSUME NEW q \in DOMAIN rows
          PROVE  /\ Active(q, versions) = rows[q].key
                 /\ rows[q].next # NoKey => Active(q + 1, versions) = rows[q].next
      <3>1. /\ versions \in SUBSET Version /\ Disjoint(versions) /\ q \in Nat /\ q + 1 \in Nat
            /\ Fits(versions, q, rows[q])
        BY DEF Inv, Windows, Typed, TypedTable, Seqs
      <3> QED BY <3>1, ActiveIs DEF Fits
    <2> QED BY <2>1, <2>2 DEF WindowsFit
  <1> QED BY SpecInv, <1>1, PTL

=============================================================================
