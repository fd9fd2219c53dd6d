------------------------ MODULE PolicyRegistry_proofs ------------------------
(***************************************************************************)
(* The shared policy registry, for every number of processes, agents,      *)
(* kinds of policy and registrations: the incremental reload misses no     *)
(* row, starting a process loses no policy that was in force, and the      *)
(* coverage registry stays consistent with the policies.                   *)
(*                                                                         *)
(* The reload compares MAX(updated_at) with what the last one saw, so the  *)
(* argument is about stamps: a process's dict differs from the table only  *)
(* by rows with a newer stamp (Fresh), by rows committed late under an     *)
(* older one, and by its own registrations on their way.                   *)
(***************************************************************************)
EXTENDS PolicyRegistry, FiniteSetTheorems, WellFoundedInduction, TLAPS

(* The types of the variables, TypeOK with what it leaves open, by parts.  *)
Item == [key : Key, val : Values \ {None}]
Upsert == [proc : Procs, key : Key, val : Values \ {None}, at : Nat, by : {"task", "start"}]
Polls == [pc : {"idle", "read", "apply"}, kind : Nat \ {0}, max : Nat, snap : [Key -> Values]]
Flushes == [kind : Nat \ {0}, taken : BOOLEAN, queue : Seq(Item)]

(* The table and the upserts under way: no stamp lies in the future.       *)
TableTyped ==
    /\ db \in [Key -> [val : Values, at : Nat]] /\ clock \in Nat /\ registered \in Values
    /\ \A k \in Key : db[k].at <= clock
    /\ upserts \subseteq Upsert /\ \A u \in upserts : u.at <= clock
(* The dicts of the processes.                                             *)
DictTyped == mem \in [Procs -> [Key -> Values]]
(* The registrations deferred until a process starts.                      *)
StartTyped ==
    /\ deferred \in [Procs -> [KindSet -> Seq(Item)]] /\ flush \in [Procs -> Flushes]
    /\ phase \in [Procs -> {"new", "flush", "load", "up", "closed"}]
(* The reloads: what they have seen lies in the past.                      *)
PollTyped ==
    /\ poll \in [Procs -> Polls] /\ last \in [Procs -> Nat]
    /\ \A p \in Procs : poll[p].max <= clock /\ last[p] <= clock
(* The history variables.                                                  *)
HistoryTyped ==
    /\ own \in [Procs -> SUBSET Key] /\ late \in [Procs -> SUBSET Key]
    /\ flushed \in [Procs -> SUBSET Key]
(* All of them.                                                            *)
Typed == TableTyped /\ DictTyped /\ StartTyped /\ PollTyped /\ HistoryTyped

(* A reload up to mark that takes v for k has missed nothing: v is what    *)
(* the table has, or the table's row is newer than mark, or was late.      *)
Fresh(p, k, v, mark) == v = db[k].val \/ db[k].at > mark \/ k \in late[p]

(* A dict differs from the table only by what the next reload will notice. *)
DictSeen == \A p \in Procs, k \in Key : Fresh(p, k, mem[p][k], last[p]) \/ k \in own[p]

(* In a poll, the kinds already applied are fresh up to the mark that the  *)
(* poll will leave, and so are the rows read and not yet applied.          *)
PollSeenOf(p) == poll[p].pc # "idle" =>
    /\ last[p] <= poll[p].max /\ poll[p].kind \in DOMAIN Kinds
    /\ \A k \in Key : (\E j \in DOMAIN Kinds : j < poll[p].kind /\ k[1] = Kinds[j])
          => Fresh(p, k, mem[p][k], poll[p].max) \/ k \in own[p]
    /\ \A k \in Key : poll[p].pc = "apply" /\ k[1] = Kinds[poll[p].kind]
          => Fresh(p, k, poll[p].snap[k], poll[p].max)
PollSeen == \A p \in Procs : PollSeenOf(p)

(* A process that has not loaded the table yet.                            *)
Starting(p) == phase[p] \in {"new", "flush"}
(* An upsert of a process's start.                                         *)
StartUpsert(p, u) == u \in upserts /\ u.proc = p /\ u.by = "start"

(* start() polls only after the flush, and flushes one upsert at a time,   *)
(* of a list it has taken.                                                 *)
StartOrder(p) ==
    /\ Starting(p) => poll[p].pc = "idle"
    /\ \A u \in upserts : StartUpsert(p, u) => phase[p] = "flush" /\ flush[p].taken
    /\ \A u, v \in upserts : StartUpsert(p, u) /\ StartUpsert(p, v) => u = v
    /\ flush[p].taken => flush[p].kind \in DOMAIN Kinds

(* Until its first load a process has in force what it is to store.        *)
InForce(p) == Starting(p) =>
    /\ \A kind \in KindSet : \A i \in 1..Len(deferred[p][kind]) :
          mem[p][deferred[p][kind][i].key] # None
    /\ \A i \in 1..Len(flush[p].queue) : mem[p][flush[p].queue[i].key] # None
    /\ \A u \in upserts : StartUpsert(p, u) => mem[p][u.key] # None

(* What start() stored is in the table and in force, and in what a poll    *)
(* has read of its kind.                                                   *)
FlushedKept(p) == \A k \in flushed[p] :
    /\ db[k].val # None /\ mem[p][k] # None
    /\ poll[p].pc = "apply" /\ k[1] = Kinds[poll[p].kind] => poll[p].snap[k] # None

(* What a start has taken, stored and still to store.                      *)
StartSound(p) == StartOrder(p) /\ InForce(p) /\ FlushedKept(p)

(* Every mirrored wrapper registration is of a known agent.                *)
RowsKnown == \A r \in rows : HasPolicy(r[2])

-----------------------------------------------------------------------------
(* A non-empty set of naturals has a least element.                         *)
LEMMA MinExists ==
    ASSUME NEW T \in SUBSET Nat, T # {}
    PROVE  \E x \in T : \A y \in T : x <= y
  <1> DEFINE R == OpToRel(<, Nat)
  <1>1. IsWellFoundedOn(R, Nat)
    BY NatLessThanWellFounded
  <1> HIDE DEF R
  <1>2. PICK x \in T : \A y \in T : ~ (<<y, x>> \in R)
    BY <1>1, WFMin
  <1>3. \A y \in T : y < x => <<y, x>> \in R
    BY DEF R, OpToRel
  <1>4. \A y \in T : ~ (y < x)
    BY <1>2, <1>3, Zenon
  <1> QED BY <1>4

(* A non-empty, bounded set of naturals has a greatest one, which Max is.   *)
LEMMA MaxIs ==
    ASSUME NEW T \in SUBSET Nat, NEW n \in Nat, T # {}, \A y \in T : y <= n
    PROVE  Max(T) \in T /\ \A y \in T : y <= Max(T)
  <1> DEFINE U == {m \in Nat : \A y \in T : y <= m}
  <1>1. PICK m \in U : \A u \in U : m <= u
    <2>1. U \in SUBSET Nat /\ n \in U
      OBVIOUS
    <2> QED BY <2>1, MinExists
  <1>2. m \in T
    <2> SUFFICES ASSUME m \notin T PROVE FALSE
      OBVIOUS
    <2>1. m # 0
      <3>1. PICK y \in T : TRUE
        OBVIOUS
      <3>2. y <= m /\ y \in Nat /\ y # m
        OBVIOUS
      <3> QED BY <3>2
    <2>2. m - 1 \in U
      BY <2>1
    <2> QED BY <1>1, <2>2
  <1>3. \E x \in T : \A y \in T : x >= y
    BY <1>2
  <1> QED BY <1>3 DEF Max

(* The greater of two numbers.                                             *)
LEMMA MaxPair ==
    ASSUME NEW a \in Nat, NEW b \in Nat
    PROVE  Max({a, b}) \in Nat /\ a <= Max({a, b}) /\ b <= Max({a, b})
  <1> DEFINE T == {a, b}
  <1>1. T \in SUBSET Nat /\ T # {} /\ \A y \in T : y <= a + b
    OBVIOUS
  <1>2. a \in T /\ b \in T /\ a + b \in Nat
    OBVIOUS
  <1> HIDE DEF T
  <1>3. Max(T) \in T /\ \A y \in T : y <= Max(T)
    BY <1>1, <1>2, MaxIs
  <1>4. Max(T) \in Nat /\ a <= Max(T) /\ b <= Max(T)
    BY <1>1, <1>2, <1>3
  <1> QED BY <1>4 DEF T

(* MAX(updated_at) is the stamp of some row, and no row is newer.          *)
LEMMA MaxUpdatedFacts ==
    ASSUME TableTyped, Key # {}
    PROVE  /\ MaxUpdated \in Nat /\ MaxUpdated <= clock
           /\ \A k \in Key : db[k].at <= MaxUpdated
  <1> DEFINE T == {db[k].at : k \in Key}
  <1>1. T \in SUBSET Nat /\ T # {} /\ clock \in Nat /\ \A y \in T : y <= clock
    BY DEF TableTyped
  <1>2. \A k \in Key : db[k].at \in T
    OBVIOUS
  <1>3. MaxUpdated = Max(T)
    BY DEF MaxUpdated
  <1> HIDE DEF T
  <1>4. Max(T) \in T /\ \A y \in T : y <= Max(T)
    BY <1>1, MaxIs
  <1> QED BY <1>1, <1>2, <1>3, <1>4

(* The kinds are distinct, and every key belongs to one.                   *)
LEMMA KindFacts ==
    /\ Len(Kinds) \in Nat \ {0} /\ DOMAIN Kinds = 1..Len(Kinds)
    /\ \A k \in Key : k[1] \in KindSet /\ \E j \in DOMAIN Kinds : k[1] = Kinds[j]
    /\ \A i, j \in DOMAIN Kinds : Kinds[i] = Kinds[j] => i = j
    /\ \A i \in DOMAIN Kinds, k \in Key : k \in KeysOf(Kinds[i]) <=> k[1] = Kinds[i]
  <1>1. Len(Kinds) \in Nat \ {0} /\ DOMAIN Kinds = 1..Len(Kinds)
    BY RegistryAssumption
  <1>2. \A k \in Key : k[1] \in KindSet /\ \E j \in DOMAIN Kinds : k[1] = Kinds[j]
    BY DEF Key, KindSet
  <1>3. \A i, j \in DOMAIN Kinds : Kinds[i] = Kinds[j] => i = j
    BY RegistryAssumption
  <1>4. \A i \in DOMAIN Kinds, k \in Key : k \in KeysOf(Kinds[i]) <=> k[1] = Kinds[i]
    BY DEF Key, KeysOf
  <1> QED BY <1>1, <1>2, <1>3, <1>4

(* Values are numbered in the order of their registration.                 *)
LEMMA ValueFacts ==
    /\ MaxRegistrations \in Nat /\ 0 \in Values /\ Values \subseteq Nat /\ None = 0
    /\ \A n \in Values : n < MaxRegistrations => n + 1 \in Values \ {None}
  BY RegistryAssumption DEF Values, None

(* A poll and a flush that are not under way.                              *)
LEMMA IdleFacts ==
    /\ Idle \in Polls /\ Idle.pc = "idle" /\ Idle.kind = 1 /\ Idle.max = 0
    /\ NoFlush \in Flushes /\ ~NoFlush.taken /\ NoFlush.queue = <<>>
  <1>1. [k \in Key |-> None] \in [Key -> Values]
    BY ValueFacts
  <1>2. Idle \in Polls /\ Idle.pc = "idle" /\ Idle.kind = 1 /\ Idle.max = 0
    BY <1>1 DEF Idle, Polls
  <1>3. NoFlush \in Flushes /\ ~NoFlush.taken /\ NoFlush.queue = <<>>
    BY DEF NoFlush, Flushes
  <1> QED BY <1>2, <1>3

(* The groups imply TypeOK.                                                *)
LEMMA TypedIsTypeOK == Typed => TypeOK
  <1> SUFFICES ASSUME Typed PROVE TypeOK
    OBVIOUS
  <1>1. db \in [Key -> [val : Values, at : 0..clock]]
    <2>1. \A k \in Key : db[k] \in [val : Values, at : 0..clock]
      BY DEF Typed, TableTyped
    <2> QED BY <2>1 DEF Typed, TableTyped
  <1>2. clock \in Nat /\ registered \in Values /\ mem \in [Procs -> [Key -> Values]]
        /\ phase \in [Procs -> {"new", "flush", "load", "up", "closed"}]
    BY DEF Typed, TableTyped, DictTyped, StartTyped
  <1>3. \A u \in upserts : u.proc \in Procs /\ u.key \in Key /\ u.val \in Values
                           /\ u.at \in 0..clock /\ u.by \in {"task", "start"}
    BY DEF Typed, TableTyped, Upsert
  <1>4. last \in [Procs -> 0..clock]
    BY <1>2 DEF Typed, PollTyped
  <1>5. \A p \in Procs : poll[p].max \in 0..clock /\ poll[p].pc \in {"idle", "read", "apply"}
    BY <1>2 DEF Typed, PollTyped, Polls
  <1> QED BY <1>1, <1>2, <1>3, <1>4, <1>5, Zenon DEF TypeOK

-----------------------------------------------------------------------------
(* The types hold in every reachable state.                                *)
LEMMA TypedInvariant == Spec => []Typed
  <1> USE ValueFacts, IdleFacts
  <1>1. Init => Typed
    <2> SUFFICES ASSUME Init PROVE Typed
      OBVIOUS
    <2>1. TableTyped
      BY DEF Init, TableTyped
    <2>2. DictTyped /\ StartTyped
      BY DEF Init, DictTyped, StartTyped
    <2>3. PollTyped /\ HistoryTyped
      BY DEF Init, PollTyped, HistoryTyped
    <2> QED BY <2>1, <2>2, <2>3 DEF Typed
  <1>2. Typed /\ [Next]_vars => Typed'
    <2> SUFFICES ASSUME Typed, [Next]_vars PROVE Typed'
      OBVIOUS
    <2> USE DEF Typed
    <2>a. UNCHANGED <<db, clock, registered, upserts>> => TableTyped'
      BY DEF TableTyped
    <2>b. UNCHANGED mem => DictTyped'
      BY DEF DictTyped
    <2>c. UNCHANGED <<deferred, flush, phase>> => StartTyped'
      BY DEF StartTyped
    <2>d. UNCHANGED <<poll, last, clock>> => PollTyped'
      BY DEF PollTyped
    <2>e. UNCHANGED history => HistoryTyped'
      BY DEF history, HistoryTyped
    <2>1. ASSUME NEW p \in Procs, NEW k \in Key, NEW loop \in BOOLEAN, Register(p, k, loop)
          PROVE  Typed'
      <3>1. registered' \in Values \ {None} /\ registered' = registered + 1
        BY <2>1 DEF Register, TableTyped
      <3>2. DictTyped'
        BY <2>1, <3>1 DEF Register, DictTyped
      <3>3. HistoryTyped'
        BY <2>1 DEF Register, HistoryTyped
      <3>4. TableTyped'
        <4> DEFINE u == [proc |-> p, key |-> k, val |-> registered', at |-> 0, by |-> "task"]
        <4>1. u \in Upsert /\ u.at = 0
          BY <3>1 DEF Upsert
        <4>2. upserts' \subseteq upserts \cup {u}
          BY <2>1 DEF Register
        <4> HIDE DEF u
        <4> QED BY <2>1, <3>1, <4>1, <4>2 DEF Register, TableTyped
      <3>5. StartTyped'
        <4> DEFINE x == [key |-> k, val |-> registered']
                   q == deferred[p][k[1]]
        <4>1. x \in Item /\ k[1] \in KindSet /\ q \in Seq(Item)
          <5>1. x \in Item
            BY <3>1 DEF Item
          <5>2. k[1] \in KindSet
            BY KindFacts
          <5> QED BY <5>1, <5>2 DEF StartTyped
        <4>2. Append(q, x) \in Seq(Item)
          BY <4>1
        <4>3. deferred' = deferred \/ deferred' = [deferred EXCEPT ![p][k[1]] = Append(q, x)]
          BY <2>1 DEF Register
        <4> HIDE DEF x, q
        <4>4. flush' = flush /\ phase' = phase
          BY <2>1 DEF Register
        <4>5. [deferred[p] EXCEPT ![k[1]] = Append(q, x)] \in [KindSet -> Seq(Item)]
          BY <4>1, <4>2 DEF StartTyped
        <4>6. deferred' = deferred
              \/ deferred' = [deferred EXCEPT ![p] = [deferred[p] EXCEPT ![k[1]] = Append(q, x)]]
          BY <4>3
        <4> QED BY <4>4, <4>5, <4>6 DEF StartTyped
      <3> QED BY <2>1, <2>d, <3>2, <3>3, <3>4, <3>5 DEF Register
    <2>2. ASSUME NEW u \in upserts, BeginUpsert(u) PROVE Typed'
      <3>1. [u EXCEPT !.at = clock'] \in Upsert /\ [u EXCEPT !.at = clock'].at = clock'
        BY <2>2 DEF BeginUpsert, TableTyped, Upsert
      <3>2. TableTyped'
        <4>1. db' = db /\ registered' = registered /\ clock' = clock + 1 /\ clock \in Nat
          BY <2>2 DEF BeginUpsert, TableTyped
        <4>2. \A k \in Key : db[k].at <= clock'
          BY <4>1 DEF TableTyped
        <4>3. upserts' \subseteq Upsert
          BY <2>2, <3>1 DEF BeginUpsert, TableTyped
        <4>4. \A v \in upserts : v.at <= clock'
          BY <4>1 DEF TableTyped, Upsert
        <4>5. \A v \in upserts' : v.at <= clock'
          <5>1. \A v \in upserts' : v \in upserts \/ v = [u EXCEPT !.at = clock']
            BY <2>2 DEF BeginUpsert
          <5>2. clock' <= clock'
            BY <4>1
          <5> QED BY <3>1, <4>4, <5>1, <5>2
        <4> QED BY <4>1, <4>2, <4>3, <4>5 DEF TableTyped
      <3>3. PollTyped'
        BY <2>2 DEF BeginUpsert, memory, PollTyped, TableTyped, Polls
      <3> QED BY <2>2, <2>b, <2>c, <2>e, <3>2, <3>3 DEF BeginUpsert, memory
    <2>3. ASSUME NEW u \in upserts, CommitUpsert(u) PROVE Typed'
      <3>1. u \in Upsert /\ u.at <= clock /\ u.key \in Key /\ u.val \in Values /\ u.at \in Nat
            /\ u.proc \in Procs
        BY DEF TableTyped, Upsert
      <3>2. TableTyped'
        BY <2>3, <3>1 DEF CommitUpsert, TableTyped
      <3>3. HistoryTyped'
        BY <2>3, <3>1 DEF CommitUpsert, HistoryTyped
      <3> QED BY <2>3, <2>b, <2>c, <2>d, <3>2, <3>3 DEF CommitUpsert, memory
    <2>4. ASSUME NEW u \in upserts, FailUpsert(u) PROVE Typed'
      <3>1. TableTyped'
        BY <2>4 DEF FailUpsert, TableTyped
      <3> QED BY <2>4, <2>b, <2>c, <2>d, <2>e, <3>1 DEF FailUpsert, memory
    <2>5. ASSUME NEW p \in Procs, NEW ok \in BOOLEAN, StartCoverage(p, ok) PROVE Typed'
      <3>1. StartTyped'
        BY <2>5 DEF StartCoverage, StartTyped
      <3> QED BY <2>5, <2>a, <2>b, <2>d, <2>e, <3>1 DEF StartCoverage
    <2>6. ASSUME NEW p \in Procs, FlushTake(p) PROVE Typed'
      <3> DEFINE kind == Kinds[flush[p].kind]
      <3>1. kind \in KindSet /\ deferred[p][kind] \in Seq(Item) /\ <<>> \in Seq(Item)
        <4>1. kind \in KindSet
          BY <2>6 DEF FlushTake, KindSet
        <4>2. <<>> \in Seq(Item)
          OBVIOUS
        <4> QED BY <4>1, <4>2 DEF StartTyped
      <3>2. [flush[p] EXCEPT !.taken = TRUE, !.queue = deferred[p][kind]] \in Flushes
        BY <3>1 DEF StartTyped, Flushes
      <3>3. flush' = [flush EXCEPT ![p] = [flush[p] EXCEPT !.taken = TRUE, !.queue = deferred[p][kind]]]
        BY <2>6 DEF FlushTake, StartTyped, Flushes
      <3>4. StartTyped'
        BY <2>6, <3>1, <3>2, <3>3 DEF FlushTake, StartTyped
      <3> QED BY <2>6, <2>a, <2>b, <2>d, <2>e, <3>4 DEF FlushTake
    <2>7. ASSUME NEW p \in Procs, FlushNext(p) PROVE Typed'
      <3> DEFINE q == flush[p].queue
                 u == [proc |-> p, key |-> Head(q).key, val |-> Head(q).val, at |-> 0, by |-> "start"]
      <3>1. q \in Seq(Item) /\ q # <<>>
        BY <2>7 DEF FlushNext, StartTyped, Flushes
      <3>2. Head(q) \in Item /\ Tail(q) \in Seq(Item)
        BY <3>1
      <3>3. u \in Upsert /\ u.at = 0
        BY <3>2 DEF Item, Upsert
      <3>4. upserts' = upserts \cup {u} /\ flush' = [flush EXCEPT ![p] = [flush[p] EXCEPT !.queue = Tail(q)]]
        BY <2>7 DEF FlushNext, StartTyped
      <3>5. [flush[p] EXCEPT !.queue = Tail(q)] \in Flushes
        BY <3>2 DEF StartTyped, Flushes
      <3> HIDE DEF u, q
      <3>6. TableTyped'
        BY <2>7, <3>3, <3>4 DEF FlushNext, TableTyped
      <3>7. StartTyped'
        BY <2>7, <3>4, <3>5 DEF FlushNext, StartTyped
      <3> QED BY <2>7, <2>b, <2>d, <2>e, <3>6, <3>7 DEF FlushNext
    <2>8. ASSUME NEW p \in Procs, FlushKindDone(p) PROVE Typed'
      <3>1. [flush[p] EXCEPT !.kind = @ + 1, !.taken = FALSE] \in Flushes
        <4>1. flush[p] \in Flushes
          BY DEF StartTyped
        <4>2. flush[p].kind + 1 \in Nat \ {0}
          BY <4>1 DEF Flushes
        <4> QED BY <4>1, <4>2 DEF Flushes
      <3>2. flush' = [flush EXCEPT ![p] = [flush[p] EXCEPT !.kind = @ + 1, !.taken = FALSE]]
        BY <2>8 DEF FlushKindDone, StartTyped, Flushes
      <3>3. StartTyped'
        BY <2>8, <3>1, <3>2 DEF FlushKindDone, StartTyped
      <3> QED BY <2>8, <2>a, <2>b, <2>d, <2>e, <3>3 DEF FlushKindDone
    <2>9. ASSUME NEW p \in Procs, ToLoad(p) \/ PollSkips(p) PROVE Typed'
      <3>1. StartTyped'
        BY <2>9 DEF ToLoad, PollSkips, StartTyped
      <3> QED BY <2>9, <2>a, <2>b, <2>d, <2>e, <3>1 DEF ToLoad, PollSkips
    <2>10. ASSUME NEW p \in Procs, PollBegins(p) PROVE Typed'
      <3>1. MaxUpdated \in Nat /\ MaxUpdated <= clock
        BY <2>10, MaxUpdatedFacts DEF PollBegins, Newer, Stored
      <3> DEFINE x == [Idle EXCEPT !.pc = "read", !.max = MaxUpdated]
      <3>2. x \in Polls /\ x.max = MaxUpdated
        BY <3>1 DEF Polls
      <3>3. poll' = [poll EXCEPT ![p] = x]
        BY <2>10 DEF PollBegins
      <3> HIDE DEF x
      <3>4. PollTyped'
        BY <2>10, <3>1, <3>2, <3>3 DEF PollBegins, PollTyped
      <3>5. StartTyped'
        BY <2>10 DEF PollBegins, StartTyped
      <3> QED BY <2>10, <2>a, <2>b, <2>e, <3>4, <3>5 DEF PollBegins
    <2>11. ASSUME NEW p \in Procs, NEW i \in DOMAIN Kinds, PollRead(p, i) PROVE Typed'
      <3> DEFINE sn == [k \in Key |-> IF k[1] = Kinds[i] THEN db[k].val ELSE None]
                 x == [poll[p] EXCEPT !.pc = "apply", !.snap = sn]
      <3>1. sn \in [Key -> Values]
        BY DEF TableTyped
      <3> HIDE DEF sn
      <3>2. x \in Polls /\ x.max = poll[p].max
        BY <3>1 DEF PollTyped, Polls
      <3>3. poll' = [poll EXCEPT ![p] = x]
        BY <2>11 DEF PollRead, PollTyped, Polls, sn
      <3> HIDE DEF x
      <3>4. PollTyped'
        BY <2>11, <3>2, <3>3 DEF PollRead, PollTyped
      <3> QED BY <2>11, <2>a, <2>b, <2>c, <2>e, <3>4 DEF PollRead
    <2>12. ASSUME NEW p \in Procs, NEW i \in DOMAIN Kinds, PollApply(p, i) PROVE Typed'
      <3>1. DictTyped'
        BY <2>12 DEF PollApply, DictTyped, PollTyped, Polls
      <3>2. HistoryTyped'
        BY <2>12 DEF PollApply, HistoryTyped
      <3>3. PollTyped'
        <4> DEFINE x == [Idle EXCEPT !.pc = "read", !.kind = i + 1, !.max = poll[p].max]
        <4>1. poll[p].max \in Nat /\ poll[p].max <= clock /\ i + 1 \in Nat \ {0}
          BY KindFacts DEF PollTyped, Polls
        <4>2. x \in Polls /\ x.max = poll[p].max
          BY <4>1 DEF Polls
        <4>3. poll' = [poll EXCEPT ![p] = x] \/ poll' = [poll EXCEPT ![p] = Idle]
          BY <2>12 DEF PollApply
        <4>4. last' = last \/ last' = [last EXCEPT ![p] = poll[p].max]
          BY <2>12 DEF PollApply
        <4>5. clock' = clock /\ clock \in Nat
          BY <2>12 DEF PollApply, TableTyped
        <4> HIDE DEF x
        <4>6. poll' \in [Procs -> Polls] /\ \A q \in Procs : poll'[q].max <= clock
          BY <4>1, <4>2, <4>3, <4>5 DEF PollTyped
        <4>7. last' \in [Procs -> Nat] /\ \A q \in Procs : last'[q] <= clock
          BY <4>1, <4>4 DEF PollTyped
        <4> QED BY <4>5, <4>6, <4>7 DEF PollTyped
      <3> QED BY <2>12, <2>a, <2>c, <3>1, <3>2, <3>3 DEF PollApply
    <2>13. ASSUME NEW p \in Procs, PollFails(p) \/ Close(p) PROVE Typed'
      <3>1. PollTyped'
        <4>1. poll' = [poll EXCEPT ![p] = Idle] /\ UNCHANGED <<last, clock>> /\ clock \in Nat
          BY <2>13 DEF PollFails, Close, TableTyped
        <4> QED BY <4>1 DEF PollTyped
      <3>2. StartTyped'
        BY <2>13 DEF PollFails, Close, StartTyped
      <3> QED BY <2>13, <2>a, <2>b, <2>e, <3>1, <3>2 DEF PollFails, Close
    <2>14. CASE UNCHANGED vars
      BY <2>14, <2>a, <2>b, <2>c, <2>d, <2>e DEF vars, memory
    <2> QED
      BY <2>1, <2>2, <2>3, <2>4, <2>5, <2>6, <2>7, <2>8, <2>9, <2>10, <2>11, <2>12, <2>13, <2>14
      DEF Next, Start, Reload
  <1> QED BY <1>1, <1>2, PTL DEF Spec

-----------------------------------------------------------------------------
(* What the reload sees.                                                   *)
LEMMA SeenStep ==
    ASSUME Typed, Typed', DictSeen, PollSeen, [Next]_vars
    PROVE  DictSeen' /\ PollSeen'
  <1>t. /\ poll \in [Procs -> Polls] /\ last \in [Procs -> Nat] /\ mem \in [Procs -> [Key -> Values]]
        /\ own \in [Procs -> SUBSET Key] /\ late \in [Procs -> SUBSET Key]
        /\ db \in [Key -> [val : Values, at : Nat]] /\ clock \in Nat
    BY DEF Typed, TableTyped, DictTyped, PollTyped, HistoryTyped
  <1>p. \A q \in Procs : PollSeenOf(q)
    BY DEF PollSeen
  <1>d. \A q \in Procs, j \in Key : Fresh(q, j, mem[q][j], last[q]) \/ j \in own[q]
    BY DEF DictSeen
  <1>q. /\ \A q \in Procs, j \in Key : Fresh(q, j, mem[q][j], last[q])' \/ j \in own'[q]
        /\ \A q \in Procs : PollSeenOf(q)'
        => DictSeen' /\ PollSeen'
    BY DEF DictSeen, PollSeen
  <1>1. ASSUME UNCHANGED <<db, mem, last, poll, own, late>> PROVE DictSeen' /\ PollSeen'
    BY <1>1, <1>p, <1>d, <1>q DEF Fresh, PollSeenOf
  <1>2. ASSUME NEW p \in Procs, NEW k \in Key, NEW loop \in BOOLEAN, Register(p, k, loop)
        PROVE  DictSeen' /\ PollSeen'
    <2>1. /\ UNCHANGED <<db, last, poll, late>>
          /\ \A q \in Procs, j \in Key : mem'[q][j] = mem[q][j] \/ j \in own'[q]
          /\ \A q \in Procs : own[q] \subseteq own'[q]
      BY <1>2, <1>t DEF Register
    <2> QED BY <2>1, <1>p, <1>d, <1>q DEF Fresh, PollSeenOf
  <1>3. ASSUME NEW u \in upserts, CommitUpsert(u) PROVE DictSeen' /\ PollSeen'
    <2>1. u.key \in Key /\ u.at \in Nat
      BY DEF Typed, TableTyped, Upsert
    <2>2. UNCHANGED <<mem, last, poll, own>>
      BY <1>3 DEF CommitUpsert, memory
    <2>3. /\ \A j \in Key : j # u.key => db'[j] = db[j]
          /\ db'[u.key].at = u.at
      BY <1>3, <2>1, <1>t DEF CommitUpsert
    <2>4. \A q \in Procs : /\ \A j \in Key : j # u.key => (j \in late'[q] <=> j \in late[q])
                           /\ u.at <= Horizon(q) => u.key \in late'[q]
      BY <1>3, <1>t DEF CommitUpsert
    <2>5. \A q \in Procs : poll[q].max \in Nat /\ last[q] \in Nat /\ Horizon(q) \in Nat
             /\ last[q] <= Horizon(q) /\ poll[q].max <= Horizon(q)
      BY <1>t, MaxPair DEF Horizon, Polls
    <2>6. \A q \in Procs : u.key \in late'[q] \/ (u.at > last[q] /\ u.at > poll[q].max)
      BY <2>1, <2>4, <2>5
    <2>7. \A q \in Procs, j \in Key : \A v, m : m \in {last[q], poll[q].max} =>
             (Fresh(q, j, v, m) => Fresh(q, j, v, m)')
      BY <2>2, <2>3, <2>4, <2>6 DEF Fresh
    <2>8. \A q \in Procs : PollSeenOf(q)'
      <3> TAKE q \in Procs
      <3>1. \A j \in Key : \A v : Fresh(q, j, v, poll[q].max) => Fresh(q, j, v, poll[q].max)'
        BY <2>2, <2>7 DEF Fresh
      <3> QED BY <2>2, <3>1, <1>p DEF PollSeenOf, Fresh
    <2>9. \A q \in Procs, j \in Key : Fresh(q, j, mem[q][j], last[q])' \/ j \in own'[q]
      BY <2>2, <2>7, <1>d DEF Fresh
    <2> QED BY <2>8, <2>9, <1>q
  <1>4. ASSUME NEW p \in Procs, UNCHANGED <<db, mem, last, own, late>>,
               \A q \in Procs : q # p => poll'[q] = poll[q], PollSeenOf(p)'
        PROVE  DictSeen' /\ PollSeen'
    <2>1. \A q \in Procs : q # p => PollSeenOf(q)'
      BY <1>4, <1>p DEF PollSeenOf, Fresh
    <2> QED BY <1>4, <2>1, <1>d, <1>q DEF Fresh
  <1>5. ASSUME NEW p \in Procs, PollBegins(p) PROVE DictSeen' /\ PollSeen'
    <2>1. /\ UNCHANGED <<db, mem, last, own, late>>
          /\ \A q \in Procs : q # p => poll'[q] = poll[q]
          /\ poll'[p] = [Idle EXCEPT !.pc = "read", !.max = MaxUpdated] /\ MaxUpdated > last[p]
      BY <1>5, <1>t DEF PollBegins, history, Newer
    <2>2. poll'[p].pc = "read" /\ poll'[p].kind = 1 /\ poll'[p].max = MaxUpdated
      BY <2>1, IdleFacts DEF Polls
    <2>3. MaxUpdated \in Nat /\ last[p] <= MaxUpdated
      BY <1>5, <1>t, <2>1, MaxUpdatedFacts DEF PollBegins, Newer, Stored, Typed
    <2>4. 1 \in DOMAIN Kinds /\ \A j \in DOMAIN Kinds : ~(j < 1)
      BY KindFacts
    <2>5. PollSeenOf(p)'
      BY <2>1, <2>2, <2>3, <2>4 DEF PollSeenOf
    <2> QED BY <1>4, <2>1, <2>5
  <1>6. ASSUME NEW p \in Procs, NEW i \in DOMAIN Kinds, PollRead(p, i) PROVE DictSeen' /\ PollSeen'
    <2>1. /\ UNCHANGED <<db, mem, last, own, late>>
          /\ \A q \in Procs : q # p => poll'[q] = poll[q]
      BY <1>6, <1>t DEF PollRead, history
    <2>2. /\ poll[p].pc = "read" /\ poll[p].kind = i
          /\ poll'[p].kind = i /\ poll'[p].max = poll[p].max
          /\ \A k \in Key : k[1] = Kinds[i] => poll'[p].snap[k] = db[k].val
      BY <1>6, <1>t DEF PollRead, Polls
    <2>3. PollSeenOf(p)'
      BY <2>1, <2>2, <1>p DEF PollSeenOf, Fresh
    <2> QED BY <1>4, <2>1, <2>3
  <1>7. ASSUME NEW p \in Procs, NEW i \in DOMAIN Kinds, PollApply(p, i) PROVE DictSeen' /\ PollSeen'
    <2>1. /\ UNCHANGED db
          /\ \A q \in Procs : q # p => /\ poll'[q] = poll[q] /\ last'[q] = last[q]
                                       /\ mem'[q] = mem[q] /\ own'[q] = own[q] /\ late'[q] = late[q]
      BY <1>7, <1>t DEF PollApply
    <2>2. \A q \in Procs : q # p => PollSeenOf(q)' /\ \A j \in Key : Fresh(q, j, mem[q][j], last[q])' \/ j \in own'[q]
      BY <2>1, <1>p, <1>d DEF PollSeenOf, Fresh
    <2>3. /\ poll[p].pc = "apply" /\ poll[p].kind = i /\ poll[p].max \in Nat /\ last[p] \in Nat
          /\ last[p] <= poll[p].max
      BY <1>7, <1>t, <1>p DEF PollApply, PollSeenOf, Polls
    <2>4. /\ \A k \in Key : k[1] = Kinds[i] => mem'[p][k] = poll[p].snap[k]
          /\ \A k \in Key : k[1] # Kinds[i] =>
                mem'[p][k] = mem[p][k] /\ (k \in own[p] => k \in own'[p])
          /\ \A k \in late[p] : k \in late'[p] \/ (k[1] = Kinds[i] /\ db[k].val = poll[p].snap[k])
      BY <1>7, <1>t, KindFacts DEF PollApply
    <2>5. \A k \in Key : k[1] = Kinds[i] => Fresh(p, k, poll[p].snap[k], poll[p].max)
      BY <2>3, <1>p DEF PollSeenOf
    <2>6. \A k \in Key : k[1] = Kinds[i] =>
             \/ mem'[p][k] = db'[k].val \/ db'[k].at > poll[p].max \/ k \in late'[p]
      BY <2>1, <2>4, <2>5 DEF Fresh
    <2>7. \A k \in Key : \A j \in DOMAIN Kinds : j <= i /\ k[1] = Kinds[j] =>
             \/ mem'[p][k] = db'[k].val \/ db'[k].at > poll[p].max \/ k \in late'[p] \cup own'[p]
      <3> SUFFICES ASSUME NEW k \in Key, NEW j \in DOMAIN Kinds, j <= i, k[1] = Kinds[j]
                   PROVE  \/ mem'[p][k] = db'[k].val \/ db'[k].at > poll[p].max
                          \/ k \in late'[p] \cup own'[p]
        OBVIOUS
      <3>1. CASE k[1] = Kinds[i]
        BY <3>1, <2>6
      <3>2. CASE k[1] # Kinds[i]
        <4>1. j < i
          BY <3>2, KindFacts
        <4>2. Fresh(p, k, mem[p][k], poll[p].max) \/ k \in own[p]
          BY <4>1, <2>3, <1>p DEF PollSeenOf
        <4> QED BY <3>2, <4>2, <2>1, <2>4 DEF Fresh
      <3> QED BY <3>1, <3>2
    <2>8. \A k \in Key : \/ mem'[p][k] = db'[k].val \/ db'[k].at > last[p]
                         \/ k \in late'[p] \cup own'[p]
      <3> SUFFICES ASSUME NEW k \in Key
                   PROVE  \/ mem'[p][k] = db'[k].val \/ db'[k].at > last[p]
                          \/ k \in late'[p] \cup own'[p]
        OBVIOUS
      <3>0. db'[k] = db[k] /\ db[k].at \in Nat
        BY <2>1, <1>t
      <3>1. CASE k[1] = Kinds[i]
        BY <3>0, <3>1, <2>3, <2>6
      <3>2. CASE k[1] # Kinds[i]
        BY <3>0, <3>2, <2>4, <1>d DEF Fresh
      <3> QED BY <3>1, <3>2
    <2>9. CASE i + 1 \in DOMAIN Kinds
      <3>1. /\ poll'[p].pc = "read" /\ poll'[p].kind = i + 1 /\ poll'[p].max = poll[p].max
            /\ last'[p] = last[p]
        <4>1. poll'[p] = [Idle EXCEPT !.pc = "read", !.kind = i + 1, !.max = poll[p].max]
              /\ last' = last
          BY <1>7, <2>9, <1>t DEF PollApply
        <4> QED BY <4>1, IdleFacts DEF Polls
      <3>2. \A j \in DOMAIN Kinds : j < i + 1 => j <= i
        BY KindFacts
      <3>3. PollSeenOf(p)'
        BY <2>3, <2>7, <2>9, <3>1, <3>2 DEF PollSeenOf, Fresh
      <3>4. \A j \in Key : Fresh(p, j, mem[p][j], last[p])' \/ j \in own'[p]
        BY <2>8, <3>1 DEF Fresh
      <3> QED BY <2>2, <3>3, <3>4, <1>q
    <2>10. CASE i + 1 \notin DOMAIN Kinds
      <3>1. poll'[p].pc = "idle" /\ last'[p] = poll[p].max
        BY <1>7, <2>10, <1>t, IdleFacts DEF PollApply
      <3>2. \A j \in DOMAIN Kinds : j <= i
        BY <2>10, KindFacts
      <3>3. \A k \in Key : \/ mem'[p][k] = db'[k].val \/ db'[k].at > poll[p].max
                           \/ k \in late'[p] \cup own'[p]
        BY <2>7, <3>2, KindFacts
      <3>4. \A j \in Key : Fresh(p, j, mem[p][j], last[p])' \/ j \in own'[p]
        BY <3>1, <3>3 DEF Fresh
      <3>5. PollSeenOf(p)'
        BY <3>1 DEF PollSeenOf
      <3> QED BY <2>2, <3>4, <3>5, <1>q
    <2> QED BY <2>9, <2>10
  <1>8. ASSUME NEW p \in Procs, PollFails(p) \/ Close(p) PROVE DictSeen' /\ PollSeen'
    <2>1. /\ UNCHANGED <<db, mem, last, own, late>> /\ poll' = [poll EXCEPT ![p] = Idle]
      BY <1>8 DEF PollFails, Close, history
    <2>2. poll'[p].pc = "idle" /\ \A q \in Procs : q # p => poll'[q] = poll[q]
      BY <2>1, <1>t, IdleFacts
    <2>3. PollSeenOf(p)'
      BY <2>2 DEF PollSeenOf
    <2> QED BY <1>4, <2>1, <2>2, <2>3
  <1>9. ASSUME \/ \E u \in upserts : BeginUpsert(u) \/ FailUpsert(u)
               \/ \E p \in Procs : Start(p) \/ PollSkips(p)
               \/ UNCHANGED vars
        PROVE  DictSeen' /\ PollSeen'
    <2>1. UNCHANGED <<db, mem, last, poll, own, late>>
      BY <1>9 DEF BeginUpsert, FailUpsert, Start, StartCoverage, FlushTake, FlushNext,
                  FlushKindDone, ToLoad, PollSkips, memory, history, vars
    <2> QED BY <1>1, <2>1
  <1> QED BY <1>2, <1>3, <1>5, <1>6, <1>7, <1>8, <1>9 DEF Next, Reload

(* Where a dict differs from the table the next poll reloads, for every    *)
(* number of processes, agents and kinds and every order of commits.       *)
THEOREM ReloadMissesNothing == Spec => []ReloadNotices
  <1>1. Init => DictSeen /\ PollSeen
    BY IdleFacts DEF Init, DictSeen, PollSeen, PollSeenOf, Fresh
  <1>2. Typed /\ Typed' /\ DictSeen /\ PollSeen /\ [Next]_vars => DictSeen' /\ PollSeen'
    BY SeenStep
  <1>3. Typed /\ DictSeen => ReloadNotices
    <2> SUFFICES ASSUME Typed, DictSeen, NEW p \in Procs, NEW k \in Key, mem[p][k] # db[k].val,
                        k \notin late[p] \cup own[p]
                 PROVE  MaxUpdated > last[p]
      BY DEF ReloadNotices
    <2>1. db[k].at > last[p]
      BY DEF DictSeen, Fresh
    <2>2. db[k].at \in Nat /\ last[p] \in Nat /\ MaxUpdated \in Nat /\ db[k].at <= MaxUpdated
      BY MaxUpdatedFacts DEF Typed, TableTyped, PollTyped
    <2> QED BY <2>1, <2>2
  <1> QED BY <1>1, <1>2, <1>3, TypedInvariant, PTL DEF Spec

-----------------------------------------------------------------------------
(* start() and what it stores.                                             *)

(* The table keeps a policy for every key that has one.                    *)
TableGrows == \A k \in Key : db[k].val # None => db'[k].val # None

(* A process whose own state a step leaves alone.                          *)
LEMMA Untouched ==
    ASSUME NEW q \in Procs, StartSound(q), flushed[q] \subseteq Key, TableGrows,
           phase'[q] = phase[q], poll'[q] = poll[q], flush'[q] = flush[q],
           deferred'[q] = deferred[q], mem'[q] = mem[q], flushed'[q] = flushed[q],
           \A u : StartUpsert(q, u)' => StartUpsert(q, u)
    PROVE  StartSound(q)'
  <1>1. \A u : StartUpsert(q, u) => u \in upserts
    BY DEF StartUpsert
  <1>2. StartOrder(q)'
    BY <1>1 DEF StartSound, StartOrder, Starting
  <1>3. InForce(q)'
    BY <1>1 DEF StartSound, InForce, Starting
  <1>4. FlushedKept(q)'
    BY DEF StartSound, FlushedKept, TableGrows
  <1> QED BY <1>2, <1>3, <1>4 DEF StartSound

(* Every step keeps what the starts have stored.                           *)
LEMMA StartStep ==
    ASSUME Typed, Typed', \A q \in Procs : StartSound(q), RowsKnown, [Next]_vars
    PROVE  (\A q \in Procs : StartSound(q)') /\ RowsKnown'
  <1> USE ValueFacts
  <1>t. /\ poll \in [Procs -> Polls] /\ mem \in [Procs -> [Key -> Values]]
        /\ phase \in [Procs -> {"new", "flush", "load", "up", "closed"}]
        /\ flush \in [Procs -> Flushes] /\ deferred \in [Procs -> [KindSet -> Seq(Item)]]
        /\ flushed \in [Procs -> SUBSET Key]
        /\ db \in [Key -> [val : Values, at : Nat]]
        /\ \A u \in upserts : u.proc \in Procs /\ u.key \in Key /\ u.val # None
    BY DEF Typed, TableTyped, DictTyped, StartTyped, PollTyped, HistoryTyped, Upsert
  <1>k. \A q \in Procs : StartOrder(q) /\ InForce(q) /\ FlushedKept(q)
    BY DEF StartSound
  <1>r. TableGrows /\ rows' = rows => RowsKnown'
    BY DEF TableGrows, RowsKnown, HasPolicy, Stored
  <1>g. UNCHANGED db => TableGrows
    BY DEF TableGrows
  <1>u. UNCHANGED upserts => \A q, u : StartUpsert(q, u)' <=> StartUpsert(q, u)
    BY DEF StartUpsert
  <1>1. ASSUME NEW p \in Procs, NEW k \in Key, NEW loop \in BOOLEAN, Register(p, k, loop)
        PROVE  (\A q \in Procs : StartSound(q)') /\ RowsKnown'
    <2>1. UNCHANGED <<db, phase, flush, poll, rows, flushed>>
      BY <1>1 DEF Register
    <2>2. registered' # None
      BY <1>1 DEF Register, Typed, TableTyped
    <2>3. mem'[p][k] # None /\ \A j \in Key : mem[p][j] # None => mem'[p][j] # None
      BY <1>1, <2>2, <1>t DEF Register
    <2>4. \A q, u : StartUpsert(q, u)' <=> StartUpsert(q, u)
      BY <1>1 DEF Register, StartUpsert
    <2>5. \A q \in Procs : q # p => mem'[q] = mem[q] /\ deferred'[q] = deferred[q]
      BY <1>1, <1>t DEF Register
    <2>6. \A q \in Procs : q # p => StartSound(q)'
      BY <2>1, <2>4, <2>5, <1>t, <1>g, Untouched
    <2>7. StartOrder(p)'
      BY <2>1, <2>4, <1>k DEF StartOrder, StartUpsert, Starting
    <2>8. FlushedKept(p)'
      BY <2>1, <2>3, <1>k, <1>t DEF FlushedKept
    <2>9. \A kind \in KindSet : \A i \in 1..Len(deferred'[p][kind]) :
             \/ deferred'[p][kind][i].key = k
             \/ i \in 1..Len(deferred[p][kind]) /\ deferred'[p][kind][i] = deferred[p][kind][i]
      <3> SUFFICES ASSUME NEW kind \in KindSet, NEW i \in 1..Len(deferred'[p][kind])
                   PROVE  \/ deferred'[p][kind][i].key = k
                          \/ i \in 1..Len(deferred[p][kind]) /\ deferred'[p][kind][i] = deferred[p][kind][i]
        OBVIOUS
      <3>1. PICK x : x = [key |-> k, val |-> registered']
        OBVIOUS
      <3>2. x \in Item /\ x.key = k
        BY <3>1, <1>1 DEF Item, Typed, TableTyped, Register
      <3>3. deferred[p][kind] \in Seq(Item)
        BY <1>t
      <3>4. deferred'[p][kind] = deferred[p][kind] \/ deferred'[p][kind] = Append(deferred[p][kind], x)
        BY <1>1, <3>1, <1>t, KindFacts DEF Register
      <3>5. CASE deferred'[p][kind] = Append(deferred[p][kind], x)
        <4>1. i = Len(deferred[p][kind]) + 1 \/ i \in 1..Len(deferred[p][kind])
          BY <3>2, <3>3, <3>5
        <4> QED BY <3>2, <3>3, <3>5, <4>1
      <3> QED BY <3>4, <3>5
    <2>10. \A kind \in KindSet : \A i \in 1..Len(deferred[p][kind]) : deferred[p][kind][i].key \in Key
      <3> TAKE kind \in KindSet
      <3>1. deferred[p][kind] \in Seq(Item)
        BY <1>t
      <3>2. \A i \in 1..Len(deferred[p][kind]) : deferred[p][kind][i] \in Item
        BY <3>1
      <3> QED BY <3>2 DEF Item
    <2>11. \A i \in 1..Len(flush[p].queue) : flush[p].queue[i].key \in Key
      <3>1. flush[p] \in Flushes
        BY <1>t
      <3>2. flush[p].queue \in Seq(Item)
        BY <3>1 DEF Flushes
      <3>3. \A i \in 1..Len(flush[p].queue) : flush[p].queue[i] \in Item
        BY <3>2
      <3> QED BY <3>3 DEF Item
    <2>12. InForce(p)'
      <3>1. Starting(p)' <=> Starting(p)
        BY <2>1 DEF Starting
      <3>2. Starting(p) => \A kind \in KindSet : \A i \in 1..Len(deferred'[p][kind]) :
               mem'[p][deferred'[p][kind][i].key] # None
        BY <2>3, <2>9, <2>10, <1>k DEF InForce
      <3>3. Starting(p) => \A i \in 1..Len(flush'[p].queue) : mem'[p][flush'[p].queue[i].key] # None
        BY <2>1, <2>3, <2>11, <1>k DEF InForce
      <3>4. Starting(p) => \A u : StartUpsert(p, u)' => mem'[p][u.key] # None
        BY <2>3, <2>4, <1>k, <1>t DEF InForce, StartUpsert
      <3> QED BY <3>1, <3>2, <3>3, <3>4 DEF InForce
    <2>13. StartSound(p)'
      BY <2>7, <2>8, <2>12 DEF StartSound
    <2> QED BY <2>1, <2>6, <2>13, <1>g, <1>r
  <1>2. ASSUME NEW u \in upserts, BeginUpsert(u)
        PROVE  (\A q \in Procs : StartSound(q)') /\ RowsKnown'
    <2>1. UNCHANGED <<db, mem, deferred, phase, flush, poll, flushed, rows>>
      BY <1>2 DEF BeginUpsert, memory, history
    <2>2. PICK w : w = [u EXCEPT !.at = clock']
      OBVIOUS
    <2>3. w.proc = u.proc /\ w.key = u.key /\ w.by = u.by
      BY <2>2 DEF Typed, TableTyped, Upsert
    <2>4. upserts' = (upserts \ {u}) \cup {w}
      BY <1>2, <2>2 DEF BeginUpsert
    <2>5. \A q, v : StartUpsert(q, v)' =>
             \/ StartUpsert(q, v) /\ v # u
             \/ v = w /\ StartUpsert(q, u)
      BY <2>3, <2>4 DEF StartUpsert
    <2> SUFFICES ASSUME NEW q \in Procs PROVE StartSound(q)'
      BY <2>1, <1>g, <1>r
    <2>6. StartOrder(q)'
      <3>1. \A x \in upserts' : StartUpsert(q, x)' => phase'[q] = "flush" /\ flush'[q].taken
        BY <2>1, <2>5, <1>k DEF StartOrder, StartUpsert
      <3>2. \A x, y \in upserts' : StartUpsert(q, x)' /\ StartUpsert(q, y)' => x = y
        BY <2>5, <1>k DEF StartOrder, StartUpsert
      <3> QED BY <2>1, <3>1, <3>2, <1>k DEF StartOrder, Starting
    <2>7. InForce(q)'
      <3>1. Starting(q) => \A x \in upserts' : StartUpsert(q, x)' => mem'[q][x.key] # None
        BY <2>1, <2>3, <2>5, <1>k DEF InForce, StartUpsert
      <3> QED BY <2>1, <3>1, <1>k DEF InForce, Starting
    <2>8. FlushedKept(q)'
      BY <2>1, <1>k DEF FlushedKept
    <2> QED BY <2>6, <2>7, <2>8 DEF StartSound
  <1>3. ASSUME NEW u \in upserts, CommitUpsert(u)
        PROVE  (\A q \in Procs : StartSound(q)') /\ RowsKnown'
    <2>1. UNCHANGED <<mem, deferred, phase, flush, poll, rows>>
      BY <1>3 DEF CommitUpsert, memory
    <2>2. u.key \in Key /\ u.val # None /\ u.proc \in Procs
      BY <1>t
    <2>3. TableGrows /\ db'[u.key].val # None
      BY <1>3, <2>2, <1>t DEF CommitUpsert, TableGrows
    <2>4. \A q, v : StartUpsert(q, v)' => StartUpsert(q, v)
      BY <1>3 DEF CommitUpsert, StartUpsert
    <2>5. \A q \in Procs : \/ flushed'[q] = flushed[q]
                           \/ StartUpsert(q, u) /\ flushed'[q] = flushed[q] \cup {u.key}
      BY <1>3, <1>t DEF CommitUpsert, StartUpsert
    <2>6. ASSUME NEW q \in Procs, flushed'[q] = flushed[q] PROVE StartSound(q)'
      BY <2>6, <2>1, <2>3, <2>4, <1>t, Untouched
    <2>7. ASSUME NEW q \in Procs, StartUpsert(q, u), flushed'[q] = flushed[q] \cup {u.key}
          PROVE  StartSound(q)'
      <3>1. phase[q] = "flush" /\ poll[q].pc = "idle" /\ mem[q][u.key] # None
        BY <2>7, <1>k DEF StartOrder, InForce, Starting
      <3>2. FlushedKept(q)'
        BY <2>1, <2>3, <2>7, <3>1, <1>k, <1>t DEF FlushedKept, TableGrows
      <3>3. StartOrder(q)'
        BY <2>1, <2>4, <1>k DEF StartOrder, StartUpsert, Starting
      <3>4. InForce(q)'
        BY <2>1, <2>4, <1>k DEF InForce, StartUpsert, Starting
      <3> QED BY <3>2, <3>3, <3>4 DEF StartSound
    <2> QED BY <2>1, <2>3, <2>5, <2>6, <2>7, <1>r
  <1>4. ASSUME NEW u \in upserts, FailUpsert(u)
        PROVE  (\A q \in Procs : StartSound(q)') /\ RowsKnown'
    <2>1. UNCHANGED <<db, mem, deferred, phase, flush, poll, flushed, rows>>
      BY <1>4 DEF FailUpsert, memory, history
    <2>2. \A q, v : StartUpsert(q, v)' => StartUpsert(q, v)
      BY <1>4 DEF FailUpsert, StartUpsert
    <2> QED BY <2>1, <2>2, <1>t, <1>g, <1>r, Untouched
  <1>s. ASSUME NEW p \in Procs, UNCHANGED db, RowsKnown',
               \A q \in Procs : q # p =>
                   /\ phase'[q] = phase[q] /\ poll'[q] = poll[q] /\ flush'[q] = flush[q]
                   /\ deferred'[q] = deferred[q] /\ mem'[q] = mem[q],
               UNCHANGED flushed, \A q, u : q # p /\ StartUpsert(q, u)' => StartUpsert(q, u),
               StartOrder(p)', InForce(p)', FlushedKept(p)'
        PROVE  (\A q \in Procs : StartSound(q)') /\ RowsKnown'
    <2>1. \A q \in Procs : q # p => StartSound(q)'
      BY <1>s, <1>t, <1>g, Untouched
    <2> QED BY <1>s, <2>1 DEF StartSound
  <1>5. ASSUME NEW p \in Procs, NEW ok \in BOOLEAN, StartCoverage(p, ok)
        PROVE  (\A q \in Procs : StartSound(q)') /\ RowsKnown'
    <2>1. /\ UNCHANGED <<db, upserts, mem, deferred, flush, poll, flushed>>
          /\ phase[p] = "new" /\ phase'[p] = "flush" /\ \A q \in Procs : q # p => phase'[q] = phase[q]
      BY <1>5, <1>t DEF StartCoverage, history
    <2>2. RowsKnown'
      BY <1>5, <2>1 DEF StartCoverage, RowsKnown, Accepted, HasPolicy, Stored
    <2>3. StartOrder(p)'
      BY <2>1, <1>u, <1>k DEF StartOrder, Starting
    <2>4. InForce(p)' /\ FlushedKept(p)'
      BY <2>1, <1>u, <1>k DEF InForce, FlushedKept, Starting
    <2> QED BY <2>1, <2>2, <2>3, <2>4, <1>s, <1>u
  <1>6. ASSUME NEW p \in Procs, FlushTake(p)
        PROVE  (\A q \in Procs : StartSound(q)') /\ RowsKnown'
    <2>1. /\ UNCHANGED <<db, upserts, mem, phase, poll, flushed, rows>>
          /\ \A q \in Procs : q # p => flush'[q] = flush[q] /\ deferred'[q] = deferred[q]
          /\ phase[p] = "flush" /\ flush[p].kind \in DOMAIN Kinds /\ ~flush[p].taken
      BY <1>6, <1>t DEF FlushTake, history
    <2>2. Kinds[flush[p].kind] \in KindSet
      BY <2>1 DEF KindSet
    <2>3. flush'[p].taken /\ flush'[p].kind = flush[p].kind
          /\ flush'[p].queue = deferred[p][Kinds[flush[p].kind]]
      BY <1>6, <1>t DEF FlushTake, Flushes
    <2>4. \A kind \in KindSet : deferred'[p][kind] = deferred[p][kind] \/ deferred'[p][kind] = <<>>
      BY <1>6, <2>2, <1>t DEF FlushTake
    <2>5. StartOrder(p)'
      BY <2>1, <2>3, <1>u, <1>k DEF StartOrder, Starting
    <2>6. InForce(p)'
      <3>1. \A kind \in KindSet : \A i \in 1..Len(deferred'[p][kind]) :
               mem'[p][deferred'[p][kind][i].key] # None
        <4>1. 1..Len(<<>>) = {}
          OBVIOUS
        <4> QED BY <2>1, <2>4, <4>1, <1>k DEF InForce, Starting
      <3>2. \A i \in 1..Len(flush'[p].queue) : mem'[p][flush'[p].queue[i].key] # None
        BY <2>1, <2>2, <2>3, <1>k DEF InForce, Starting
      <3>3. \A u \in upserts' : StartUpsert(p, u)' => mem'[p][u.key] # None
        BY <2>1, <1>u, <1>k DEF InForce, Starting
      <3> QED BY <3>1, <3>2, <3>3 DEF InForce
    <2>7. FlushedKept(p)'
      BY <2>1, <1>k DEF FlushedKept
    <2> QED BY <2>1, <2>5, <2>6, <2>7, <1>s, <1>u, <1>r, <1>g
  <1>7. ASSUME NEW p \in Procs, FlushNext(p)
        PROVE  (\A q \in Procs : StartSound(q)') /\ RowsKnown'
    <2>1. /\ UNCHANGED <<db, mem, deferred, phase, poll, flushed, rows>>
          /\ \A q \in Procs : q # p => flush'[q] = flush[q]
          /\ phase[p] = "flush" /\ flush[p].taken /\ flush[p].queue # <<>> /\ ~Awaiting(p)
      BY <1>7, <1>t DEF FlushNext, history
    <2>2. flush[p].queue \in Seq(Item)
      BY <1>t DEF Flushes
    <2>3. PICK w : w = [proc |-> p, key |-> Head(flush[p].queue).key,
                        val |-> Head(flush[p].queue).val, at |-> 0, by |-> "start"]
      OBVIOUS
    <2>4. upserts' = upserts \cup {w} /\ w.proc = p /\ w.key = Head(flush[p].queue).key
      BY <1>7, <2>3 DEF FlushNext
    <2>5. /\ flush'[p].queue = Tail(flush[p].queue) /\ flush'[p].taken
          /\ flush'[p].kind = flush[p].kind
      BY <1>7, <2>1, <1>t DEF FlushNext, Flushes
    <2>6. \A u : ~StartUpsert(p, u)
      BY <2>1 DEF Awaiting, StartUpsert
    <2>7. \A q, u : StartUpsert(q, u)' => StartUpsert(q, u) \/ (q = p /\ u = w)
      BY <2>4 DEF StartUpsert
    <2>8. StartOrder(p)'
      BY <2>1, <2>5, <2>6, <2>7, <1>k DEF StartOrder, Starting
    <2>9. /\ Head(flush[p].queue) = flush[p].queue[1] /\ 1 \in 1..Len(flush[p].queue)
          /\ \A i \in 1..Len(flush'[p].queue) :
                i + 1 \in 1..Len(flush[p].queue) /\ flush'[p].queue[i] = flush[p].queue[i + 1]
      BY <2>1, <2>2, <2>5
    <2>10. InForce(p)'
      <3>1. \A i \in 1..Len(flush[p].queue) : mem[p][flush[p].queue[i].key] # None
        BY <2>1, <1>k DEF InForce, Starting
      <3>2. \A i \in 1..Len(flush'[p].queue) : mem'[p][flush'[p].queue[i].key] # None
        BY <2>1, <2>9, <3>1
      <3>3. \A u : StartUpsert(p, u)' => mem'[p][u.key] # None
        BY <2>1, <2>4, <2>6, <2>7, <2>9, <3>1
      <3> QED BY <2>1, <3>2, <3>3, <1>k DEF InForce, Starting
    <2>11. FlushedKept(p)'
      BY <2>1, <1>k DEF FlushedKept
    <2> QED BY <2>1, <2>7, <2>8, <2>10, <2>11, <1>s, <1>r, <1>g
  <1>8. ASSUME NEW p \in Procs, FlushKindDone(p)
        PROVE  (\A q \in Procs : StartSound(q)') /\ RowsKnown'
    <2>1. /\ UNCHANGED <<db, upserts, mem, deferred, phase, poll, flushed, rows>>
          /\ \A q \in Procs : q # p => flush'[q] = flush[q]
          /\ ~Awaiting(p)
      BY <1>8, <1>t DEF FlushKindDone, history
    <2>2. ~flush'[p].taken /\ flush'[p].queue = flush[p].queue
      BY <1>8, <1>t DEF FlushKindDone, Flushes
    <2>3. \A u : ~StartUpsert(p, u)
      BY <2>1 DEF Awaiting, StartUpsert
    <2>4. StartOrder(p)'
      BY <2>1, <2>2, <2>3, <1>u, <1>k DEF StartOrder, Starting
    <2>5. InForce(p)' /\ FlushedKept(p)'
      BY <2>1, <2>2, <1>u, <1>k DEF InForce, FlushedKept, Starting
    <2> QED BY <2>1, <2>4, <2>5, <1>s, <1>u, <1>r, <1>g
  <1>9. ASSUME NEW p \in Procs, ToLoad(p) \/ PollSkips(p) \/ PollBegins(p) \/ Close(p)
        PROVE  (\A q \in Procs : StartSound(q)') /\ RowsKnown'
    <2>1. /\ UNCHANGED <<db, upserts, mem, deferred, flush, flushed, rows>>
          /\ \A q \in Procs : q # p => phase'[q] = phase[q] /\ poll'[q] = poll[q]
          /\ phase'[p] \in {"load", "up", "closed"}
      BY <1>9, <1>t DEF ToLoad, PollSkips, PollBegins, Close, history
    <2>2. \A u : ~StartUpsert(p, u)
      <3>1. ToLoad(p) => ~flush[p].taken
        BY <1>k DEF ToLoad, StartOrder
      <3>2. ~ToLoad(p) => phase[p] # "flush"
        BY <1>9 DEF PollSkips, PollBegins, Close, MayPoll
      <3> QED BY <3>1, <3>2, <1>k DEF StartOrder, StartUpsert
    <2>3. StartOrder(p)' /\ InForce(p)'
      BY <2>1, <2>2, <1>u, <1>k DEF StartOrder, InForce, Starting
    <2>4. poll'[p] = poll[p] \/ poll'[p].pc # "apply"
      <3>1. PollBegins(p) => poll'[p] = [Idle EXCEPT !.pc = "read", !.max = MaxUpdated]
        BY <1>t DEF PollBegins
      <3>2. PollBegins(p) => poll'[p].pc = "read"
        BY <3>1, IdleFacts DEF Polls
      <3>3. Close(p) => poll'[p].pc = "idle"
        BY <1>t, IdleFacts DEF Close
      <3> QED BY <1>9, <3>2, <3>3 DEF ToLoad, PollSkips
    <2>5. FlushedKept(p)'
      BY <2>1, <2>4, <1>k DEF FlushedKept
    <2> QED BY <2>1, <2>3, <2>5, <1>s, <1>u, <1>r, <1>g
  <1>10. ASSUME NEW p \in Procs, NEW i \in DOMAIN Kinds, PollRead(p, i)
         PROVE  (\A q \in Procs : StartSound(q)') /\ RowsKnown'
    <2>1. /\ UNCHANGED <<db, upserts, mem, deferred, flush, phase, flushed, rows>>
          /\ \A q \in Procs : q # p => poll'[q] = poll[q]
      BY <1>10, <1>t DEF PollRead, history
    <2>2. /\ poll[p].pc = "read" /\ poll'[p].kind = i
          /\ \A k \in Key : k[1] = Kinds[i] => poll'[p].snap[k] = db[k].val
      BY <1>10, <1>t DEF PollRead, Polls
    <2>3. ~Starting(p)
      BY <2>2, <1>k DEF StartOrder
    <2>4. StartOrder(p)' /\ InForce(p)'
      BY <2>1, <2>3, <1>u, <1>k DEF StartOrder, InForce, Starting
    <2>5. FlushedKept(p)'
      BY <2>1, <2>2, <1>k, <1>t DEF FlushedKept
    <2> QED BY <2>1, <2>4, <2>5, <1>s, <1>u, <1>r, <1>g
  <1>11. ASSUME NEW p \in Procs, NEW i \in DOMAIN Kinds, PollApply(p, i)
         PROVE  (\A q \in Procs : StartSound(q)') /\ RowsKnown'
    <2>1. /\ UNCHANGED <<db, upserts, deferred, flush, phase, flushed, rows>>
          /\ \A q \in Procs : q # p => poll'[q] = poll[q] /\ mem'[q] = mem[q]
      BY <1>11, <1>t DEF PollApply
    <2>2. /\ poll[p].pc = "apply" /\ poll[p].kind = i
          /\ \A k \in Key : k[1] = Kinds[i] => mem'[p][k] = poll[p].snap[k]
          /\ \A k \in Key : k[1] # Kinds[i] => mem'[p][k] = mem[p][k]
      BY <1>11, <1>t DEF PollApply
    <2>3. ~Starting(p)
      BY <2>2, <1>k DEF StartOrder
    <2>4. StartOrder(p)' /\ InForce(p)'
      BY <2>1, <2>3, <1>u, <1>k DEF StartOrder, InForce, Starting
    <2>5. poll'[p].pc # "apply"
      <3>1. \/ poll'[p] = [Idle EXCEPT !.pc = "read", !.kind = i + 1, !.max = poll[p].max]
            \/ poll'[p] = Idle
        BY <1>11, <1>t DEF PollApply
      <3> QED BY <3>1, IdleFacts DEF Polls
    <2>6. FlushedKept(p)'
      <3>1. FlushedKept(p) /\ flushed[p] \subseteq Key
        BY <1>k, <1>t
      <3>2. ASSUME NEW k \in flushed[p] PROVE db[k].val # None /\ mem'[p][k] # None
        <4>1. CASE k[1] = Kinds[i]
          BY <4>1, <3>1, <2>2 DEF FlushedKept
        <4>2. CASE k[1] # Kinds[i]
          BY <4>2, <3>1, <2>2 DEF FlushedKept
        <4> QED BY <4>1, <4>2
      <3> QED BY <2>1, <2>5, <3>2 DEF FlushedKept
    <2> QED BY <2>1, <2>4, <2>6, <1>s, <1>u, <1>r, <1>g
  <1>12. ASSUME NEW p \in Procs, PollFails(p)
         PROVE  (\A q \in Procs : StartSound(q)') /\ RowsKnown'
    <2>1. /\ UNCHANGED <<db, upserts, mem, deferred, flush, phase, flushed, rows>>
          /\ poll'[p].pc = "idle" /\ \A q \in Procs : q # p => poll'[q] = poll[q]
      BY <1>12, <1>t, IdleFacts DEF PollFails, history
    <2>2. StartOrder(p)' /\ InForce(p)' /\ FlushedKept(p)'
      BY <2>1, <1>u, <1>k DEF StartOrder, InForce, FlushedKept, Starting
    <2> QED BY <2>1, <2>2, <1>s, <1>u, <1>r, <1>g
  <1>13. CASE UNCHANGED vars
    <2>1. UNCHANGED <<db, upserts, mem, deferred, flush, phase, poll, flushed, rows>>
      BY <1>13 DEF vars, memory, history
    <2> QED BY <2>1, <1>t, <1>u, <1>g, <1>r, Untouched
  <1> QED BY <1>1, <1>2, <1>3, <1>4, <1>5, <1>6, <1>7, <1>8, <1>9, <1>10, <1>11, <1>12, <1>13
          DEF Next, Start, Reload

(* That holds in every reachable state.                                    *)
LEMMA StartInvariant == Spec => []((\A q \in Procs : StartSound(q)) /\ RowsKnown)
  <1> DEFINE I == (\A q \in Procs : StartSound(q)) /\ RowsKnown
  <1>1. Init => I
    <2> SUFFICES ASSUME Init, NEW q \in Procs PROVE StartSound(q)
      BY DEF Init, RowsKnown
    <2>1. StartOrder(q)
      BY IdleFacts DEF Init, StartOrder, Starting
    <2>2. FlushedKept(q)
      BY DEF Init, FlushedKept
    <2>3. InForce(q)
      <3>1. \A kind \in KindSet : deferred[q][kind] = <<>>
        BY DEF Init
      <3>2. flush[q].queue = <<>> /\ upserts = {} /\ 1..Len(<<>>) = {}
        BY IdleFacts DEF Init
      <3> QED BY <3>1, <3>2 DEF InForce
    <2> QED BY <2>1, <2>2, <2>3 DEF StartSound
  <1>2. Typed /\ Typed' /\ I /\ [Next]_vars => I'
    BY StartStep
  <1> QED BY <1>1, <1>2, TypedInvariant, PTL DEF Spec

(* The first load never takes away a policy whose deferred upsert start()  *)
(* stored, for every number of processes, kinds and registrations.         *)
THEOREM StartNeverLoses == Spec => []StartKeepsPolicies
  <1>1. (\A q \in Procs : StartSound(q)) => StartKeepsPolicies
    BY DEF StartSound, FlushedKept, StartKeepsPolicies
  <1> QED BY <1>1, StartInvariant, PTL

(* A set without two different elements.                                   *)
LEMMA AtMostOne ==
    ASSUME NEW S, \A x, y \in S : x = y
    PROVE  Cardinality(S) <= 1
  <1>1. CASE S = {}
    BY <1>1, FS_EmptySet
  <1>2. CASE S # {}
    <2>1. PICK x \in S : TRUE
      BY <1>2
    <2>2. S = {x}
      BY <2>1
    <2>3. Cardinality({x}) = 1
      BY FS_Singleton
    <2> QED BY <2>2, <2>3
  <1> QED BY <1>1, <1>2

(* start() has one upsert under way at most, and the coverage report       *)
(* counts no wrapper of an agent without a policy.                         *)
THEOREM RegistryStaysConsistent == Spec => []RegistryConsistent
  <1>1. Typed /\ (\A q \in Procs : StartSound(q)) /\ RowsKnown => RegistryConsistent
    <2> SUFFICES ASSUME Typed, \A q \in Procs : StartSound(q), RowsKnown PROVE RegistryConsistent
      OBVIOUS
    <2>1. ASSUME NEW p \in Procs
          PROVE  Cardinality({u \in upserts : u.proc = p /\ u.by = "start"}) <= 1
      <3> DEFINE S == {u \in upserts : u.proc = p /\ u.by = "start"}
      <3>1. \A u, v \in S : u = v
        BY DEF StartSound, StartOrder, StartUpsert
      <3> HIDE DEF S
      <3>2. Cardinality(S) <= 1
        BY <3>1, AtMostOne
      <3> QED BY <3>2 DEF S
    <2> QED BY <2>1, TypedIsTypeOK DEF RegistryConsistent, RowsKnown
  <1> QED BY <1>1, TypedInvariant, StartInvariant, PTL
=============================================================================
