---------------------------- MODULE Cost_proofs -----------------------------
(***************************************************************************)
(* The soft ceilings of the budget gate and its alert, for any number of   *)
(* callers, any caps and any prices.                                       *)
(*                                                                         *)
(* Tokens are projected, so at the instant a call is admitted its own use  *)
(* still fits under the cap and only the other callers, each with one call *)
(* admitted and not yet tracked, can push the counter past it. USD is not  *)
(* projected, so the admitted call itself counts as well. The invariants   *)
(* bound the counter by the cap plus one per-call cost for every caller    *)
(* that owes nothing any more; the daily ceiling is the same argument for  *)
(* a counter that is begun anew every day.                                 *)
(*                                                                         *)
(* The alert is decided by each call from the spend it read before and     *)
(* after its own update. Overlapping calls may both see the threshold      *)
(* crossed, but the call whose update reaches it has read the spend from   *)
(* below (AlertBooks), so one of them always fires.                        *)
(*                                                                         *)
(* That nothing is undercounted compares sums over all callers. A sum is   *)
(* the size of a heap with one piece per token of each caller, so that a   *)
(* step of one caller moves one column of it. What the provider reported,  *)
(* and what open streams were charged in advance, is in the counter or is  *)
(* carried by a call on its way to the store (Balanced).                   *)
(***************************************************************************)
EXTENDS Cost, FiniteSetTheorems, TLAPS

(* The number of callers.                                                  *)
N == Cardinality(Callers)

(* Calls admitted whose tokens are not recorded yet, and how many.         *)
Owing == {c \in Callers :
            \/ call[c].pc = "admitted"
            \/ call[c].pc \in {"track", "store"} /\ call[c].tok > 0}
Due(c) == IF call[c].pc = "admitted" THEN call[c].proj ELSE call[c].tok

(* A counter t fits under its cap plus a call for each caller that owes    *)
(* nothing: counting all but one, or all with one debtor's due included.   *)
Room(t, cap) ==
    \/ t + PerCall * Cardinality(Owing) <= cap + PerCall * (N - 1)
    \/ \E l \in Owing : t + Due(l) + PerCall * Cardinality(Owing) <= cap + PerCall * N

(* The same of a value u of the counter and of the debtors after a step.   *)
RoomAfter(u, cap) ==
    \/ u + PerCall * Cardinality(Owing') <= cap + PerCall * (N - 1)
    \/ \E l \in Owing' : u + Due(l)' + PerCall * Cardinality(Owing') <= cap + PerCall * N

(* The room of the session's tokens.                                       *)
TokenRoom == Room(sTok, SessionTokens)

(* Days to come are untouched, past days are settled, today has room, and  *)
(* what a debtor owes fits under a whole day's cap, so that a call that    *)
(* crosses midnight finds room on the day it is counted on.                *)
DayRoom ==
    /\ \A d \in Days : d > today => dTok[d] = 0
    /\ \A d \in Days : d < today => dTok[d] <= DailyTokens + PerCall * (N - 1)
    /\ Room(dTok[today], DailyTokens)
    /\ \A c \in Owing : Due(c) <= DailyTokens

(* Calls admitted whose USD is not recorded yet.                           *)
OwingUsd == {c \in Callers :
               \/ call[c].pc \in {"admitted", "streaming"}
               \/ call[c].pc \in {"track", "store"} /\ (call[c].usd > 0 \/ call[c].upfront)}

(* Every caller owes at most one more call, the admitted one included.     *)
UsdRoom ==
    sUsd + (Price * PerCall) * Cardinality(OwingUsd) <= SessionUsd + (Price * PerCall) * N

(* What a call carries while it tracks.                                    *)
Carried ==
    \A c \in Callers :
        /\ call[c].pc \in {"track", "store"} =>
              /\ call[c].tok <= PerCall
              /\ call[c].usd <= Price * PerCall
              /\ call[c].upfront => call[c].usd = 0
        /\ call[c].pc = "track" => call[c].pre = -1
        /\ call[c].pc = "store" /\ call[c].pre >= 0 => call[c].usd > 0
        /\ call[c].pc \in {"post", "fire"} => ~call[c].upfront

-----------------------------------------------------------------------------
(* Multiplication by a natural is monotone and distributes over a step.    *)
LEMMA Times ==
    ASSUME NEW k \in Nat, NEW m \in Int, NEW n \in Int
    PROVE  /\ k * m \in Int
           /\ m <= n => k * m <= k * n
           /\ k * (m + 1) = k * m + k
           /\ k * (m - 1) = k * m - k
           /\ m \in Nat => k * m \in Nat
  OBVIOUS

(* Sets of callers are finite and no larger than N.                        *)
LEMMA CallerSets ==
    ASSUME NEW S \in SUBSET Callers
    PROVE  /\ IsFiniteSet(S) /\ Cardinality(S) \in Nat /\ Cardinality(S) <= N
           /\ N \in Nat /\ N >= 1
           /\ \A c \in Callers \ S : Cardinality(S \cup {c}) = Cardinality(S) + 1
           /\ \A c \in S : Cardinality(S \ {c}) = Cardinality(S) - 1
           /\ \A T \in SUBSET S : Cardinality(T) <= Cardinality(S)
  <1>1. IsFiniteSet(Callers) /\ Callers # {}
    BY CallersAssumption
  <1>2. IsFiniteSet(S) /\ Cardinality(S) <= N
    BY <1>1, FS_Subset DEF N
  <1>3. Cardinality(S) \in Nat /\ N \in Nat
    BY <1>1, <1>2, FS_CardinalityType DEF N
  <1>4. N >= 1
    BY <1>1, <1>3, FS_EmptySet DEF N
  <1>5. \A c \in Callers \ S : Cardinality(S \cup {c}) = Cardinality(S) + 1
    BY <1>2, FS_AddElement
  <1>6. \A c \in S : Cardinality(S \ {c}) = Cardinality(S) - 1
    BY <1>2, FS_RemoveElement
  <1>7. \A T \in SUBSET S : Cardinality(T) <= Cardinality(S)
    BY <1>2, FS_Subset
  <1> QED BY <1>2, <1>3, <1>4, <1>5, <1>6, <1>7

(* Removing an element that is known to be missing from a subset.          *)
LEMMA SmallerSet ==
    ASSUME NEW S \in SUBSET Callers, NEW T \in SUBSET S, NEW c \in S \ T
    PROVE  Cardinality(T) <= Cardinality(S) - 1
  <1>1. T \in SUBSET (S \ {c})
    OBVIOUS
  <1>2. S \ {c} \in SUBSET Callers
    OBVIOUS
  <1>3. Cardinality(T) <= Cardinality(S \ {c})
    BY <1>1, <1>2, CallerSets
  <1> QED BY <1>3, CallerSets

-----------------------------------------------------------------------------
Inv == TypeOK /\ Carried

(* Types hold initially, and no call tracks anything yet.                  *)
LEMMA InvInit == Init => Inv
  <1> SUFFICES ASSUME Init PROVE Inv
    OBVIOUS
  <1>1. call \in [Callers -> Calls]
    <2>1. {[pc |-> "idle", proj |-> p, tok |-> 0, usd |-> 0, pre |-> -1,
            upfront |-> FALSE] : p \in Projections} \subseteq Calls
      <3> SUFFICES ASSUME NEW p \in Projections
                   PROVE  [pc |-> "idle", proj |-> p, tok |-> 0, usd |-> 0, pre |-> -1,
                           upfront |-> FALSE] \in Calls
        BY Zenon
      <3> QED BY DEF Calls
    <2> QED BY <2>1, Zenon DEF Init
  <1>2. 0 \in Days
    BY UsageAssumption DEF Days
  <1>3. TypeOK
    BY <1>1, <1>2 DEF Init, TypeOK
  <1>4. \A c \in Callers : call[c].pc = "idle"
    BY DEF Init
  <1> QED BY <1>3, <1>4 DEF Inv, Carried

(* The amounts a record may carry, given where its call is.                *)
Fits(r) ==
    /\ r.pc \in {"track", "store"} =>
          /\ r.tok <= PerCall
          /\ r.usd <= Price * PerCall
          /\ r.upfront => r.usd = 0
    /\ r.pc = "track" => r.pre = -1
    /\ r.pc = "store" /\ r.pre >= 0 => r.usd > 0
    /\ r.pc \in {"post", "fire"} => ~r.upfront

(* A step of one call keeps the invariant if its own new record fits.      *)
LEMMA OneCallMoves ==
    ASSUME Inv, NEW c \in Callers, NEW r \in Calls, call' = [call EXCEPT ![c] = r], Fits(r),
           sTok' \in Nat, sUsd' \in Nat, spent' \in Nat,
           dTok' \in [Days -> Nat], dUsd' \in [Days -> Nat], today' = today,
           fired' \subseteq Days
    PROVE  Inv'
  <1>1. TypeOK'
    BY DEF Inv, TypeOK
  <1>2. \A d \in Callers : call'[d] = IF d = c THEN r ELSE call[d]
    BY DEF Inv, TypeOK
  <1>3. Carried'
    BY <1>2 DEF Inv, Carried, Fits
  <1> QED BY <1>1, <1>3 DEF Inv

(* What reconcile makes the call track: the positive part of the token     *)
(* difference and the whole USD, or nothing.                               *)
LEMMA ReconcileForm ==
    ASSUME Inv, NEW c \in Callers, NEW n \in 0..PerCall, Reconcile(c, n)
    PROVE  \E r \in Calls :
             /\ call' = [call EXCEPT ![c] = r]
             /\ Fits(r)
             /\ r.pc = "idle" \/ (r.pc = "track" /\ ~r.upfront)
             /\ r.pc = "track" => r.tok = AtLeast0(n - call[c].proj)
  <1> DEFINE k   == call[c]
             tok == AtLeast0(n - k.proj)
             r1  == [k EXCEPT !.pc = "idle"]
             r2  == [k EXCEPT !.pc = "track", !.tok = tok, !.usd = Price * n,
                              !.pre = -1, !.upfront = FALSE]
  <1>1. k \in Calls /\ k.proj \in Nat
    BY UsageAssumption DEF Inv, TypeOK, Calls
  <1>2. tok \in Nat /\ tok <= PerCall
    BY <1>1, PerCallAssumption DEF AtLeast0
  <1>3. Price * n \in Nat /\ Price * n <= Price * PerCall
    BY UsageAssumption, PerCallAssumption, Times
  <1>4. r1 \in Calls /\ r1.pc = "idle"
    BY <1>1 DEF Calls
  <1>5. /\ r2 \in Calls /\ r2.pc = "track" /\ r2.tok = tok /\ r2.usd = Price * n
        /\ r2.upfront = FALSE /\ r2.pre = -1
    BY <1>1, <1>2, <1>3 DEF Calls
  <1>6. CASE tok = 0 /\ Price * n = 0
    <2>1. call' = [call EXCEPT ![c] = r1]
      BY <1>6 DEF Reconcile, Finish
    <2> QED BY <2>1, <1>4 DEF Fits
  <1>7. CASE ~(tok = 0 /\ Price * n = 0)
    <2>1. call' = [call EXCEPT ![c] = r2]
      BY <1>7 DEF Reconcile, StartTrack
    <2> QED BY <2>1, <1>2, <1>3, <1>5 DEF Fits
  <1> QED BY <1>6, <1>7

(* The three kinds of step a call takes, seen from its record: it is       *)
(* admitted, it records what it carries, or it moves on without taking on  *)
(* tokens beyond its projection or USD it did not owe.                     *)
Admitted(c, r) ==
    /\ call[c].pc \in {"idle", "denied"}
    /\ r.pc = "admitted"
    /\ ~Breach(r.proj) \/ (StoreCanFail /\ FailOpen)
    /\ UNCHANGED <<sTok, sUsd, dTok>>

Recorded(c, r) ==
    /\ call[c].pc = "store"
    /\ r.pc \in {"post", "idle", "streaming"}
    /\ r.pc = "streaming" => call[c].upfront
    /\ sTok' = sTok + call[c].tok
    /\ sUsd' = sUsd + call[c].usd
    /\ dTok' = [dTok EXCEPT ![today] = @ + call[c].tok]

Moved(c, r) ==
    /\ UNCHANGED <<sTok, sUsd, dTok>>
    /\ r.pc # "admitted"
    /\ r.pc \in {"track", "store"} /\ r.tok > 0 =>
          \/ call[c].pc = "admitted" /\ (HonoursProjection => r.tok <= call[c].proj)
          \/ call[c].pc = "track" /\ r.tok = call[c].tok
          \/ ~HonoursProjection
    /\ r.pc = "streaming" \/ (r.pc \in {"track", "store"} /\ (r.usd > 0 \/ r.upfront))
          => c \in OwingUsd

Shape(c, r) ==
    /\ call' = [call EXCEPT ![c] = r]
    /\ Fits(r)
    /\ Admitted(c, r) \/ Recorded(c, r) \/ Moved(c, r)

(* Every step of a call has one of the three shapes and keeps the          *)
(* invariant.                                                              *)
LEMMA StepShape ==
    ASSUME Inv, NEW c \in Callers, CallStep(c)
    PROVE  Inv' /\ today' = today /\ \E r \in Calls : Shape(c, r)
  <1> DEFINE k == call[c]
  <1>0. /\ TypeOK /\ Carried /\ k \in Calls /\ k.proj \in Nat /\ k.proj \in Projections
        /\ k.proj <= PerCall /\ k.tok \in Nat /\ k.usd \in Nat /\ k.upfront \in BOOLEAN
        /\ k.pre \in Nat \cup {-1}
    BY UsageAssumption, PerCallAssumption DEF Inv, TypeOK, Calls
  <1>t. /\ sTok \in Nat /\ sUsd \in Nat /\ spent \in Nat /\ dTok \in [Days -> Nat]
        /\ dUsd \in [Days -> Nat] /\ today \in Days /\ fired \subseteq Days
    BY <1>0 DEF TypeOK
  <1>s. SUFFICES \E r \in Calls :
                   /\ Shape(c, r)
                   /\ sTok' \in Nat /\ sUsd' \in Nat /\ spent' \in Nat
                   /\ dTok' \in [Days -> Nat] /\ dUsd' \in [Days -> Nat]
                   /\ today' = today /\ fired' \subseteq Days
    BY OneCallMoves DEF Shape
  <1>1. ASSUME NEW p \in Projections, Admit(c, p)
        PROVE  \E r \in Calls : Shape(c, r) /\ UNCHANGED <<counters, spent, today, fired>>
    <2> DEFINE r == [pc |-> "admitted", proj |-> p, tok |-> 0, usd |-> 0, pre |-> -1,
                     upfront |-> FALSE]
    <2>1. r \in Calls
      BY DEF Calls
    <2>2. Shape(c, r)
      BY <1>1 DEF Admit, Shape, Fits, Admitted, counters
    <2> QED BY <1>1, <2>1, <2>2 DEF Admit
  <1>2. ASSUME NEW p \in Projections, Deny(c, p)
        PROVE  \E r \in Calls : Shape(c, r) /\ UNCHANGED <<counters, spent, today, fired>>
    <2> DEFINE r == [k EXCEPT !.pc = "denied", !.proj = p]
    <2>1. r \in Calls /\ r.pc = "denied"
      BY <1>0 DEF Calls
    <2>2. call' = [call EXCEPT ![c] = r] /\ UNCHANGED <<counters, spent, today, fired>>
      BY <1>2 DEF Deny
    <2> QED BY <2>1, <2>2 DEF Shape, Fits, Moved, counters
  <1>3. ASSUME CallFails(c) \/ StreamUnreported(c)
        PROVE  \E r \in Calls : Shape(c, r) /\ UNCHANGED <<counters, spent, today, fired>>
    <2> DEFINE r == [k EXCEPT !.pc = "idle"]
    <2>1. r \in Calls /\ r.pc = "idle"
      BY <1>0 DEF Calls
    <2>2. call' = [call EXCEPT ![c] = r] /\ UNCHANGED <<counters, spent, today, fired>>
      BY <1>3 DEF CallFails, StreamUnreported, Finish
    <2> QED BY <2>1, <2>2 DEF Shape, Fits, Moved, counters
  <1>4. ASSUME NEW a \in Actual[k.proj], Respond(c, a)
        PROVE  \E r \in Calls : Shape(c, r) /\ spent' \in Nat /\ UNCHANGED <<counters, today, fired>>
    <2> DEFINE r1 == [k EXCEPT !.pc = "idle"]
               r2 == [k EXCEPT !.pc = "track", !.tok = a, !.usd = Price * a,
                               !.pre = -1, !.upfront = FALSE]
    <2>1. a \in Nat /\ a <= PerCall /\ (HonoursProjection => a <= k.proj)
      BY <1>0, UsageAssumption, PerCallAssumption DEF HonoursProjection
    <2>2. Price * a \in Nat /\ Price * a <= Price * PerCall
      BY <2>1, UsageAssumption, PerCallAssumption, Times
    <2>3. spent' \in Nat /\ UNCHANGED <<counters, today, fired>> /\ k.pc = "admitted"
      BY <1>4, <1>t, <2>1 DEF Respond, Spend
    <2>4. r1 \in Calls /\ r1.pc = "idle"
      BY <1>0 DEF Calls
    <2>5. /\ r2 \in Calls /\ r2.pc = "track" /\ r2.tok = a /\ r2.usd = Price * a /\ ~r2.upfront
          /\ r2.pre = -1
      BY <1>0, <2>1, <2>2 DEF Calls
    <2>6. CASE a > 0
      <3>1. call' = [call EXCEPT ![c] = r2]
        BY <1>4, <2>6 DEF Respond, StartTrack
      <3>2. Fits(r2)
        BY <2>1, <2>2, <2>5 DEF Fits
      <3>3. Moved(c, r2)
        BY <2>1, <2>3, <2>5 DEF Moved, counters, OwingUsd
      <3> QED BY <2>3, <2>5, <3>1, <3>2, <3>3 DEF Shape
    <2>7. CASE ~(a > 0)
      <3>1. call' = [call EXCEPT ![c] = r1]
        BY <1>4, <2>7 DEF Respond, Finish
      <3> QED BY <2>3, <2>4, <3>1 DEF Shape, Fits, Moved, counters
    <2> QED BY <2>6, <2>7
  <1>5. ASSUME StartStream(c)
        PROVE  \E r \in Calls : Shape(c, r) /\ UNCHANGED <<counters, spent, today, fired>>
    <2> DEFINE r1 == [k EXCEPT !.pc = "streaming"]
               r2 == [k EXCEPT !.pc = "track", !.tok = k.proj, !.usd = 0,
                               !.pre = -1, !.upfront = TRUE]
    <2>1. UNCHANGED <<counters, spent, today, fired>> /\ k.pc = "admitted"
      BY <1>5 DEF StartStream
    <2>2. r1 \in Calls /\ r1.pc = "streaming"
      BY <1>0 DEF Calls
    <2>3. /\ r2 \in Calls /\ r2.pc = "track" /\ r2.tok = k.proj /\ r2.usd = 0 /\ r2.upfront
          /\ r2.pre = -1
      BY <1>0 DEF Calls
    <2>4. 0 <= Price * PerCall
      BY UsageAssumption, PerCallAssumption, Times
    <2>5. CASE k.proj > 0
      <3>1. call' = [call EXCEPT ![c] = r2]
        BY <1>5, <2>5 DEF StartStream, StartTrack
      <3>2. Fits(r2)
        BY <1>0, <2>3, <2>4 DEF Fits
      <3>3. Moved(c, r2)
        BY <1>0, <2>1, <2>3 DEF Moved, counters, OwingUsd
      <3> QED BY <2>1, <2>3, <3>1, <3>2, <3>3 DEF Shape
    <2>6. CASE ~(k.proj > 0)
      <3>1. call' = [call EXCEPT ![c] = r1]
        BY <1>5, <2>6 DEF StartStream
      <3> QED BY <2>1, <2>2, <3>1 DEF Shape, Fits, Moved, counters, OwingUsd
    <2> QED BY <2>5, <2>6
  <1>6. ASSUME NEW n \in 0..PerCall, k.pc = "streaming", Reconcile(c, n),
               HonoursProjection => n <= k.proj, UNCHANGED counters
        PROVE  \E r \in Calls : Shape(c, r)
    <2>1. PICK r \in Calls :
             /\ call' = [call EXCEPT ![c] = r]
             /\ Fits(r)
             /\ r.pc = "idle" \/ (r.pc = "track" /\ ~r.upfront)
             /\ r.pc = "track" => r.tok = AtLeast0(n - k.proj)
      BY <1>6, ReconcileForm
    <2>2. HonoursProjection => AtLeast0(n - k.proj) = 0
      BY <1>0, <1>6, PerCallAssumption DEF AtLeast0
    <2>3. Moved(c, r)
      BY <1>6, <2>1, <2>2 DEF Moved, counters, OwingUsd
    <2> QED BY <2>1, <2>3 DEF Shape
  <1>7. ASSUME NEW a \in Actual[k.proj], StreamEnds(c, a)
        PROVE  \E r \in Calls : Shape(c, r) /\ spent' \in Nat /\ UNCHANGED <<counters, today, fired>>
    <2>1. a \in 0..PerCall /\ (HonoursProjection => a <= k.proj)
      BY <1>0, UsageAssumption, PerCallAssumption DEF HonoursProjection
    <2> QED BY <1>6, <1>7, <1>t, <2>1 DEF StreamEnds, Spend
  <1>8. ASSUME NEW j \in 1..MaxChunks, StreamTorn(c, j)
        PROVE  \E r \in Calls : Shape(c, r) /\ spent' \in Nat /\ UNCHANGED <<counters, today, fired>>
    <2> DEFINE n == IF j * ChunkEstimate > k.proj THEN j * ChunkEstimate ELSE k.proj
    <2>1. j * ChunkEstimate \in Nat /\ j * ChunkEstimate <= MaxChunks * ChunkEstimate
      <3>1. ChunkEstimate \in Nat /\ MaxChunks \in Nat /\ j \in Nat /\ j <= MaxChunks
        BY UsageAssumption
      <3>2. ChunkEstimate * j \in Nat /\ ChunkEstimate * j <= ChunkEstimate * MaxChunks
        BY <3>1, Times
      <3>3. ChunkEstimate * j = j * ChunkEstimate /\ ChunkEstimate * MaxChunks = MaxChunks * ChunkEstimate
        BY <3>1
      <3> QED BY <3>2, <3>3
    <2>2. MaxChunks * ChunkEstimate \in Nat
      BY UsageAssumption, Times
    <2>3. n \in 0..PerCall
      BY <1>0, <2>1, <2>2, PerCallAssumption
    <2>4. HonoursProjection => n <= k.proj
      BY <1>0, <2>1, <2>2 DEF HonoursProjection
    <2>5. spent' \in Nat
      BY <1>8, <1>t, <2>1 DEF StreamTorn, Spend
    <2> QED BY <1>6, <1>8, <2>3, <2>4, <2>5 DEF StreamTorn
  <1>9. ASSUME PreRead(c)
        PROVE  \E r \in Calls : Shape(c, r) /\ UNCHANGED <<counters, spent, today, fired>>
    <2> DEFINE pre == IF k.usd > 0 THEN dUsd[today] ELSE -1
               r1  == [k EXCEPT !.pc = "store", !.pre = pre]
               r2  == [k EXCEPT !.pc = "store"]
    <2>1. UNCHANGED <<counters, spent, today, fired>> /\ k.pc = "track"
      BY <1>9 DEF PreRead
    <2>2. Fits(k) /\ k.pre = -1
      BY <1>0, <2>1 DEF Carried, Fits
    <2>3. dUsd[today] \in Nat
      BY <1>t
    <2>4. /\ r1 \in Calls /\ r1.pc = "store" /\ r1.tok = k.tok /\ r1.usd = k.usd
          /\ r1.upfront = k.upfront /\ r1.pre = pre
      BY <1>0, <2>3 DEF Calls
    <2>5. /\ r2 \in Calls /\ r2.pc = "store" /\ r2.tok = k.tok /\ r2.usd = k.usd
          /\ r2.upfront = k.upfront /\ r2.pre = k.pre
      BY <1>0 DEF Calls
    <2>6. \A r \in {r1, r2} : Fits(r)
      <3>1. Fits(r1)
        BY <2>1, <2>2, <2>4 DEF Fits
      <3>2. Fits(r2)
        BY <2>1, <2>2, <2>5 DEF Fits
      <3> QED BY <3>1, <3>2
    <2>7. Moved(c, r1)
      BY <2>1, <2>4 DEF Moved, counters, OwingUsd
    <2>8. Moved(c, r2)
      BY <2>1, <2>5 DEF Moved, counters, OwingUsd
    <2>9. \/ call' = [call EXCEPT ![c] = r1]
          \/ call' = [call EXCEPT ![c] = r2]
      BY <1>9 DEF PreRead
    <2> QED BY <2>1, <2>4, <2>5, <2>6, <2>7, <2>8, <2>9 DEF Shape
  <1>10. ASSUME Track(c)
         PROVE  \E r \in Calls : Shape(c, r) /\ sTok' \in Nat /\ sUsd' \in Nat
                                 /\ dTok' \in [Days -> Nat] /\ dUsd' \in [Days -> Nat]
                                 /\ UNCHANGED <<spent, today, fired>>
    <2> DEFINE next == IF k.pre >= 0 THEN "post" ELSE AfterTrack(c)
               r    == [k EXCEPT !.pc = next]
    <2>1. /\ UNCHANGED <<spent, today, fired>> /\ k.pc = "store"
          /\ sTok' = sTok + k.tok /\ sUsd' = sUsd + k.usd
          /\ dTok' = [dTok EXCEPT ![today] = @ + k.tok]
          /\ dUsd' = [dUsd EXCEPT ![today] = @ + k.usd]
          /\ call' = [call EXCEPT ![c] = r]
      BY <1>10 DEF Track
    <2>2. /\ k.usd <= Price * PerCall /\ (k.upfront => k.usd = 0)
          /\ k.pre >= 0 => k.usd > 0
      BY <1>0, <2>1 DEF Carried
    <2>3. /\ next \in {"post", "idle", "streaming"}
          /\ next = "post" => ~k.upfront
          /\ next = "streaming" => k.upfront
      BY <1>0, <2>2 DEF AfterTrack
    <2>4. /\ r \in Calls /\ r.pc = next /\ r.upfront = k.upfront
      BY <1>0, <2>3 DEF Calls
    <2>5. Shape(c, r)
      BY <2>1, <2>3, <2>4 DEF Shape, Fits, Recorded
    <2>6. sTok' \in Nat /\ sUsd' \in Nat /\ dTok' \in [Days -> Nat] /\ dUsd' \in [Days -> Nat]
      BY <1>0, <1>t, <2>1
    <2> QED BY <2>1, <2>4, <2>5, <2>6
  <1>11. ASSUME TrackFails(c) \/ PostRead(c) \/ FireAlert(c)
         PROVE  \E r \in Calls : Shape(c, r) /\ fired' \subseteq Days
                                 /\ UNCHANGED <<counters, spent, today>>
    <2> DEFINE r1 == [k EXCEPT !.pc = "fire"]
               r2 == [k EXCEPT !.pc = AfterTrack(c)]
    <2>1. UNCHANGED <<counters, spent, today>> /\ fired' \subseteq Days
      BY <1>11, <1>t DEF TrackFails, PostRead, FireAlert
    <2>2. \/ k.pc = "post" /\ call' = [call EXCEPT ![c] = r1]
          \/ k.pc \in {"store", "post", "fire"} /\ call' = [call EXCEPT ![c] = r2]
      BY <1>11 DEF TrackFails, PostRead, FireAlert
    <2>3. k.pc \in {"post", "fire"} => ~k.upfront
      BY <1>0 DEF Carried
    <2>4. /\ AfterTrack(c) \in {"idle", "streaming"}
          /\ AfterTrack(c) = "streaming" => k.upfront
      BY <1>0 DEF AfterTrack
    <2>5. r1 \in Calls /\ r1.pc = "fire" /\ r1.upfront = k.upfront
      BY <1>0 DEF Calls
    <2>6. r2 \in Calls /\ r2.pc = AfterTrack(c)
      BY <1>0, <2>4 DEF Calls
    <2>7. CASE k.pc = "post" /\ call' = [call EXCEPT ![c] = r1]
      BY <2>1, <2>3, <2>5, <2>7 DEF Shape, Fits, Moved, counters
    <2>8. CASE k.pc \in {"store", "post", "fire"} /\ call' = [call EXCEPT ![c] = r2]
      <3>1. Moved(c, r2)
        BY <2>1, <2>3, <2>4, <2>6, <2>8 DEF Moved, counters, OwingUsd
      <3> QED BY <2>1, <2>4, <2>6, <2>8, <3>1 DEF Shape, Fits
    <2> QED BY <2>2, <2>7, <2>8
  <1>12. \/ \E p \in Projections : Admit(c, p) \/ Deny(c, p)
         \/ CallFails(c) \/ StreamUnreported(c)
         \/ StartStream(c)
         \/ \E a \in Actual[k.proj] : Respond(c, a) \/ StreamEnds(c, a)
         \/ \E j \in 1..MaxChunks : StreamTorn(c, j)
         \/ PreRead(c) \/ Track(c) \/ TrackFails(c) \/ PostRead(c) \/ FireAlert(c)
    BY DEF CallStep, TrackStep
  <1>13. ASSUME \E r \in Calls : Shape(c, r) /\ fired' \subseteq Days /\ spent' \in Nat
                                 /\ UNCHANGED <<counters, today>>
         PROVE  \E r \in Calls :
                   /\ Shape(c, r)
                   /\ sTok' \in Nat /\ sUsd' \in Nat /\ spent' \in Nat
                   /\ dTok' \in [Days -> Nat] /\ dUsd' \in [Days -> Nat]
                   /\ today' = today /\ fired' \subseteq Days
    BY <1>13, <1>t DEF counters
  <1>14. CASE Track(c)
    BY <1>10, <1>14, <1>t
  <1>15. CASE ~Track(c)
    <2>1. \E r \in Calls : Shape(c, r) /\ fired' \subseteq Days /\ spent' \in Nat
                           /\ UNCHANGED <<counters, today>>
      BY <1>1, <1>2, <1>3, <1>4, <1>5, <1>7, <1>8, <1>9, <1>11, <1>12, <1>15, <1>t
    <2> QED BY <1>13, <2>1
  <1> QED BY <1>14, <1>15

-----------------------------------------------------------------------------
(* The invariant of types and of what calls carry is inductive.            *)
LEMMA InvStep == Inv /\ [Next]_vars => Inv'
  <1> SUFFICES ASSUME Inv, [Next]_vars PROVE Inv'
    OBVIOUS
  <1>1. ASSUME NEW c \in Callers, CallStep(c) PROVE Inv'
    BY <1>1, StepShape
  <1>2. CASE Midnight
    <2>1. today' \in Days
      BY <1>2, UsageAssumption DEF Inv, TypeOK, Midnight, Days
    <2>2. TypeOK'
      BY <1>2, <2>1 DEF Inv, TypeOK, Midnight, counters
    <2> QED BY <1>2, <2>2 DEF Inv, Carried, Midnight
  <1>3. CASE UNCHANGED vars
    BY <1>3 DEF vars, Inv, TypeOK, Carried
  <1> QED BY <1>1, <1>2, <1>3 DEF Next

(* Every variable keeps its type, whatever the callers, caps and prices.   *)
THEOREM CostTypeOK == Spec => []TypeOK
  <1>1. Inv => TypeOK
    BY DEF Inv
  <1> QED BY InvInit, InvStep, <1>1, PTL DEF Spec

-----------------------------------------------------------------------------
(* A counter's room after a call is admitted: the newcomer's due fits      *)
(* under the cap, and at most N callers owe.                               *)
LEMMA RoomAdmit ==
    ASSUME Inv, NEW c \in Callers, NEW r \in Calls, Shape(c, r), Admitted(c, r),
           NEW t \in Nat, NEW cap \in Nat, t + r.proj <= cap
    PROVE  RoomAfter(t, cap)
  <1>1. /\ call' = [call EXCEPT ![c] = r] /\ r.pc = "admitted" /\ r.proj \in Nat
    BY UsageAssumption DEF Shape, Admitted, Inv, TypeOK, Calls
  <1>2. call'[c] = r
    BY <1>1 DEF Inv, TypeOK
  <1>3. c \in Owing' /\ Due(c)' = r.proj
    BY <1>1, <1>2 DEF Owing, Due
  <1>4. Cardinality(Owing') \in Nat /\ Cardinality(Owing') <= N /\ N \in Nat
    <2>1. Owing' \in SUBSET Callers
      BY DEF Owing
    <2> QED BY <2>1, CallerSets
  <1>5. /\ PerCall * Cardinality(Owing') <= PerCall * N
        /\ PerCall * Cardinality(Owing') \in Int /\ PerCall * N \in Int
    BY <1>4, PerCallAssumption, Times
  <1>6. t + Due(c)' + PerCall * Cardinality(Owing') <= cap + PerCall * N
    BY <1>1, <1>3, <1>5
  <1> QED BY <1>3, <1>6 DEF RoomAfter

(* A call that records what it carries leaves the debtors, and the others  *)
(* owe what they owed.                                                     *)
LEMMA RecordSettles ==
    ASSUME Inv, NEW c \in Callers, NEW r \in Calls, Shape(c, r), Recorded(c, r)
    PROVE  /\ Owing' = Owing \ {c}
           /\ \A d \in Owing' : Due(d)' = Due(d)
           /\ call[c].tok \in Nat /\ call[c].tok <= PerCall
           /\ IF call[c].tok > 0 THEN c \in Owing /\ Due(c) = call[c].tok ELSE c \notin Owing
  <1>1. /\ call' = [call EXCEPT ![c] = r] /\ r.pc \in {"post", "idle", "streaming"}
        /\ call[c].pc = "store" /\ call[c].tok \in Nat /\ call[c].tok <= PerCall
    BY DEF Shape, Recorded, Inv, TypeOK, Calls, Carried
  <1>2. \A d \in Callers : call'[d] = IF d = c THEN r ELSE call[d]
    BY <1>1 DEF Inv, TypeOK
  <1> QED BY <1>1, <1>2 DEF Owing, Due

(* Recording a due trades it for the call's place among the debtors.       *)
LEMMA RoomRecord ==
    ASSUME Inv, NEW c \in Callers, NEW r \in Calls, Shape(c, r), Recorded(c, r),
           NEW t \in Nat, NEW cap \in Nat, Room(t, cap)
    PROVE  RoomAfter(t + call[c].tok, cap)
  <1> DEFINE C == Cardinality(Owing)
             D == Cardinality(Owing')
             u == t + call[c].tok
  <1>1. /\ Owing' = Owing \ {c}
        /\ \A d \in Owing' : Due(d)' = Due(d)
        /\ call[c].tok \in Nat /\ call[c].tok <= PerCall
        /\ IF call[c].tok > 0 THEN c \in Owing /\ Due(c) = call[c].tok ELSE c \notin Owing
    BY RecordSettles
  <1>2. Owing \in SUBSET Callers /\ Owing' \in SUBSET Callers
    BY DEF Owing
  <1>3. C \in Nat /\ D \in Nat /\ N \in Nat /\ (c \in Owing => D = C - 1)
    BY <1>1, <1>2, CallerSets
  <1>4. \A d \in Owing : Due(d) \in Nat
    BY UsageAssumption DEF Owing, Due, Inv, TypeOK, Calls
  <1> HIDE DEF C, D
  <1>5. CASE ~(call[c].tok > 0)
    <2>1. Owing' = Owing /\ t + call[c].tok = t
      BY <1>1, <1>5
    <2> QED BY <1>1, <2>1 DEF Room, RoomAfter
  <1>6. CASE call[c].tok > 0
    <2>1. D = C - 1 /\ PerCall * D = PerCall * C - PerCall
      BY <1>1, <1>3, <1>6, PerCallAssumption, Times
    <2>2. /\ PerCall * (N - 1) = PerCall * N - PerCall
          /\ PerCall * N \in Int /\ PerCall * C \in Int
      BY <1>3, PerCallAssumption, Times
    <2>3. SUFFICES
             \/ u + PerCall * D <= cap + PerCall * (N - 1)
             \/ \E l \in Owing' : u + Due(l)' + PerCall * D <= cap + PerCall * N
      BY DEF RoomAfter, D
    <2>4. CASE t + PerCall * C <= cap + PerCall * (N - 1)
      BY <1>1, <2>1, <2>2, <2>4, PerCallAssumption
    <2>5. ASSUME NEW l \in Owing, t + Due(l) + PerCall * C <= cap + PerCall * N
          PROVE  \/ u + PerCall * D <= cap + PerCall * (N - 1)
                 \/ \E m \in Owing' : u + Due(m)' + PerCall * D <= cap + PerCall * N
      <3>1. CASE l = c
        BY <1>1, <1>6, <2>1, <2>2, <2>5, <3>1, PerCallAssumption
      <3>2. CASE l # c
        <4>1. l \in Owing' /\ Due(l)' = Due(l) /\ Due(l) \in Nat
          BY <1>1, <1>4, <3>2
        <4>2. u + Due(l)' + PerCall * D <= cap + PerCall * N
          BY <1>1, <2>1, <2>2, <2>5, <4>1, PerCallAssumption
        <4> QED BY <4>1, <4>2
      <3> QED BY <3>1, <3>2
    <2> QED BY <2>4, <2>5 DEF Room, C
  <1> QED BY <1>5, <1>6

(* Any other step only shrinks the debtors and their dues.                 *)
LEMMA MoveShrinks ==
    ASSUME HonoursProjection, Inv, NEW c \in Callers, NEW r \in Calls, Shape(c, r), Moved(c, r)
    PROVE  /\ Owing' \subseteq Owing
           /\ \A d \in Owing : Due(d) \in Nat
           /\ \A d \in Owing' : Due(d)' \in Nat /\ Due(d)' <= Due(d)
  <1>1. /\ call' = [call EXCEPT ![c] = r] /\ r.pc # "admitted" /\ r.tok \in Nat
        /\ r.pc \in {"track", "store"} /\ r.tok > 0 =>
              \/ call[c].pc = "admitted" /\ r.tok <= call[c].proj
              \/ call[c].pc = "track" /\ r.tok = call[c].tok
    BY DEF Shape, Moved, Inv, TypeOK, Calls
  <1>2. \A d \in Callers : call'[d] = IF d = c THEN r ELSE call[d]
    BY <1>1 DEF Inv, TypeOK
  <1>3. Owing' \subseteq Owing
    BY <1>1, <1>2 DEF Owing
  <1>4. \A d \in Owing : Due(d) \in Nat
    BY UsageAssumption DEF Owing, Due, Inv, TypeOK, Calls
  <1>5. \A d \in Owing' : Due(d)' \in Nat /\ Due(d)' <= Due(d)
    <2> SUFFICES ASSUME NEW d \in Owing' PROVE Due(d)' \in Nat /\ Due(d)' <= Due(d)
      OBVIOUS
    <2>1. d \in Owing /\ d \in Callers /\ Due(d) \in Nat
      BY <1>3, <1>4 DEF Owing
    <2>2. CASE d # c
      BY <1>2, <2>1, <2>2 DEF Due
    <2>3. CASE d = c
      <3>1. call'[c] = r
        BY <1>2
      <3>2. r.pc \in {"track", "store"} /\ r.tok > 0
        BY <1>1, <2>3, <3>1 DEF Owing
      <3>3. Due(c)' = r.tok
        BY <3>1, <3>2 DEF Due
      <3>4. r.tok <= Due(c)
        BY <1>1, <3>2 DEF Due
      <3> QED BY <1>1, <2>3, <3>3, <3>4
    <2> QED BY <2>2, <2>3
  <1> QED BY <1>3, <1>4, <1>5

(* A debtor that leaves without recording frees a whole call.              *)
LEMMA RoomMove ==
    ASSUME HonoursProjection, Inv, NEW c \in Callers, NEW r \in Calls, Shape(c, r), Moved(c, r),
           NEW t \in Nat, NEW cap \in Nat, Room(t, cap)
    PROVE  RoomAfter(t, cap)
  <1> DEFINE C == Cardinality(Owing)
             D == Cardinality(Owing')
  <1>1. /\ Owing' \subseteq Owing
        /\ \A d \in Owing : Due(d) \in Nat
        /\ \A d \in Owing' : Due(d)' \in Nat /\ Due(d)' <= Due(d)
    BY MoveShrinks
  <1>2. Owing \in SUBSET Callers
    BY DEF Owing
  <1>3. C \in Nat /\ D \in Nat /\ N \in Nat /\ D <= C
    BY <1>1, <1>2, CallerSets
  <1>4. \A d \in Owing \ Owing' : D <= C - 1
    BY <1>1, <1>2, SmallerSet
  <1> HIDE DEF C, D
  <1>5. /\ PerCall * D <= PerCall * C
        /\ PerCall * (N - 1) = PerCall * N - PerCall
        /\ PerCall * D \in Int /\ PerCall * N \in Int /\ PerCall * C \in Int
    BY <1>3, PerCallAssumption, Times
  <1>6. SUFFICES
             \/ t + PerCall * D <= cap + PerCall * (N - 1)
             \/ \E l \in Owing' : t + Due(l)' + PerCall * D <= cap + PerCall * N
    BY DEF RoomAfter, D
  <1>7. CASE t + PerCall * C <= cap + PerCall * (N - 1)
    BY <1>5, <1>7, PerCallAssumption
  <1>8. ASSUME NEW l \in Owing, t + Due(l) + PerCall * C <= cap + PerCall * N
        PROVE  \/ t + PerCall * D <= cap + PerCall * (N - 1)
               \/ \E m \in Owing' : t + Due(m)' + PerCall * D <= cap + PerCall * N
    <2>1. CASE l \in Owing'
      <3>1. Due(l) \in Nat /\ Due(l)' \in Nat /\ Due(l)' <= Due(l)
        BY <1>1, <2>1
      <3>2. t + Due(l)' + PerCall * D <= cap + PerCall * N
        BY <1>5, <1>8, <3>1
      <3> QED BY <2>1, <3>2
    <2>2. CASE l \notin Owing'
      <3>1. D <= C - 1 /\ Due(l) \in Nat
        BY <1>1, <1>4, <2>2
      <3>2. PerCall * D <= PerCall * C - PerCall
        <4>1. PerCall * D <= PerCall * (C - 1)
          BY <1>3, <3>1, PerCallAssumption, Times
        <4>2. PerCall * (C - 1) = PerCall * C - PerCall
          BY <1>3, PerCallAssumption, Times
        <4> QED BY <4>1, <4>2
      <3>3. t + PerCall * D <= cap + PerCall * (N - 1)
        BY <1>5, <1>8, <3>1, <3>2, PerCallAssumption
      <3> QED BY <3>3
    <2> QED BY <2>1, <2>2
  <1> QED BY <1>7, <1>8 DEF Room, C

(* With room, a counter is within N - 1 calls of its cap.                  *)
LEMMA RoomBounds ==
    ASSUME Inv, NEW t \in Nat, NEW cap \in Nat, Room(t, cap)
    PROVE  t <= cap + PerCall * (N - 1)
  <1>1. Owing \in SUBSET Callers
    BY DEF Owing
  <1>2. Cardinality(Owing) \in Nat /\ N \in Nat
    BY <1>1, CallerSets
  <1>3. /\ PerCall * Cardinality(Owing) \in Nat /\ PerCall * N \in Nat
        /\ PerCall * (N - 1) = PerCall * N - PerCall
    BY <1>2, PerCallAssumption, Times
  <1>4. CASE t + PerCall * Cardinality(Owing) <= cap + PerCall * (N - 1)
    BY <1>3, <1>4, PerCallAssumption
  <1>5. ASSUME NEW l \in Owing,
               t + Due(l) + PerCall * Cardinality(Owing) <= cap + PerCall * N
        PROVE  t <= cap + PerCall * (N - 1)
    <2>1. Due(l) \in Nat
      BY UsageAssumption DEF Owing, Due, Inv, TypeOK, Calls
    <2>2. Cardinality(Owing) >= 1
      <3>1. Cardinality(Owing \ {l}) = Cardinality(Owing) - 1 /\ Owing \ {l} \in SUBSET Callers
        BY <1>1, CallerSets
      <3>2. Cardinality(Owing \ {l}) \in Nat
        BY <3>1, CallerSets
      <3> QED BY <1>2, <3>1, <3>2
    <2>3. PerCall * 1 <= PerCall * Cardinality(Owing) /\ PerCall * 1 = PerCall
      BY <1>2, <2>2, PerCallAssumption, Times
    <2> QED BY <1>3, <1>5, <2>1, <2>3, PerCallAssumption
  <1> QED BY <1>4, <1>5 DEF Room

(* When nobody owes, an empty counter has room.                            *)
LEMMA RoomWhenSettled ==
    ASSUME Owing = {}, NEW cap \in Nat
    PROVE  Room(0, cap)
  <1>1. Cardinality(Owing) = 0 /\ N \in Nat /\ N - 1 \in Nat
    BY FS_EmptySet, CallerSets
  <1>2. PerCall * (N - 1) \in Nat /\ PerCall * 0 = 0
    BY <1>1, PerCallAssumption, Times
  <1> QED BY <1>1, <1>2 DEF Room

(* Midnight and stuttering touch nothing the rooms are about.              *)
LEMMA RoomsKept ==
    ASSUME Inv, UNCHANGED <<sTok, sUsd, call>>
    PROVE  (TokenRoom => TokenRoom') /\ (UsdRoom => UsdRoom')
  <1>1. Owing' = Owing /\ OwingUsd' = OwingUsd /\ \A d \in Callers : Due(d)' = Due(d)
    BY DEF Owing, OwingUsd, Due
  <1>2. TokenRoom => TokenRoom'
    BY <1>1 DEF TokenRoom, Room, N, Owing
  <1>3. UsdRoom => UsdRoom'
    BY <1>1 DEF UsdRoom, N
  <1> QED BY <1>2, <1>3

(* The documented soft ceiling for tokens: when calls honour their         *)
(* projection and an unreadable store denies (or reads never fail), N      *)
(* concurrent callers push the session counter past its cap by at most     *)
(* N - 1 calls, for every N, cap and per-call size.                        *)
THEOREM CostTokenCeiling ==
    ASSUME HonoursProjection, ~(StoreCanFail /\ FailOpen)
    PROVE  Spec => []TokenCeiling
  <1>1. Init => TokenRoom
    <2> SUFFICES ASSUME Init PROVE TokenRoom
      OBVIOUS
    <2>1. Owing = {} /\ sTok = 0
      BY DEF Init, Owing
    <2> QED BY <2>1, RoomWhenSettled, PolicyAssumption DEF TokenRoom
  <1>2. Inv /\ TokenRoom /\ [Next]_vars => TokenRoom'
    <2> SUFFICES ASSUME Inv, TokenRoom, [Next]_vars PROVE TokenRoom'
      OBVIOUS
    <2>1. ASSUME NEW c \in Callers, CallStep(c) PROVE TokenRoom'
      <3>0. SUFFICES RoomAfter(sTok', SessionTokens)
        BY DEF RoomAfter, TokenRoom, Room, N
      <3>1. PICK r \in Calls : Shape(c, r)
        BY <2>1, StepShape
      <3>t. sTok \in Nat /\ SessionTokens \in Nat /\ r.proj \in Nat /\ Room(sTok, SessionTokens)
        BY UsageAssumption, PolicyAssumption DEF Inv, TypeOK, Calls, TokenRoom
      <3>2. CASE Admitted(c, r)
        <4>1. sTok + r.proj <= SessionTokens /\ sTok' = sTok
          BY <3>2, <3>t DEF Admitted, Breach
        <4> QED BY <3>1, <3>2, <3>t, <4>1, RoomAdmit
      <3>3. CASE Recorded(c, r)
        <4>1. sTok' = sTok + call[c].tok
          BY <3>3 DEF Recorded
        <4> QED BY <3>1, <3>3, <3>t, <4>1, RoomRecord
      <3>4. CASE Moved(c, r)
        <4>1. sTok' = sTok
          BY <3>4 DEF Moved
        <4> QED BY <3>1, <3>4, <3>t, <4>1, RoomMove
      <3> QED BY <3>1, <3>2, <3>3, <3>4 DEF Shape
    <2>2. CASE Midnight \/ UNCHANGED vars
      BY <2>2, RoomsKept DEF Midnight, vars, counters
    <2> QED BY <2>1, <2>2 DEF Next
  <1>3. Inv /\ TokenRoom => TokenCeiling
    BY RoomBounds, PolicyAssumption DEF TokenRoom, TokenCeiling, N, Inv, TypeOK
  <1> QED BY InvInit, InvStep, <1>1, <1>2, <1>3, PTL DEF Spec

(* The same ceiling for each UTC day, although a call admitted before      *)
(* midnight is counted on the day after: what it owes fits under the cap   *)
(* of an untouched day, and only the other callers come on top of it.      *)
THEOREM CostDailyCeiling ==
    ASSUME HonoursProjection, ~(StoreCanFail /\ FailOpen)
    PROVE  Spec => []DailyCeiling
  <1> DEFINE Bound == DailyTokens + PerCall * (N - 1)
  <1>0. N \in Nat /\ PerCall * (N - 1) \in Nat /\ DailyTokens \in Nat /\ Bound \in Nat
    <2>1. N \in Nat /\ N - 1 \in Nat
      BY CallerSets
    <2> QED BY <2>1, PerCallAssumption, PolicyAssumption, Times
  <1>1. Init => DayRoom
    <2> SUFFICES ASSUME Init PROVE DayRoom
      OBVIOUS
    <2>1. Owing = {} /\ today = 0 /\ \A d \in Days : dTok[d] = 0
      BY DEF Init, Owing
    <2>2. 0 \in Days /\ \A d \in Days : ~(d < 0)
      BY UsageAssumption DEF Days
    <2> QED BY <2>1, <2>2, RoomWhenSettled, PolicyAssumption DEF DayRoom
  <1>2. ASSUME Inv, DayRoom, NEW c \in Callers, CallStep(c) PROVE DayRoom'
    <2>1. PICK r \in Calls : Shape(c, r)
      BY <1>2, StepShape
    <2>2. /\ today' = today /\ today \in Days /\ dTok \in [Days -> Nat]
          /\ dTok[today] \in Nat /\ r.proj \in Nat /\ Room(dTok[today], DailyTokens)
      BY <1>2, StepShape, UsageAssumption DEF Inv, TypeOK, Calls, DayRoom
    <2>3. SUFFICES /\ \A d \in Days \ {today} : dTok'[d] = dTok[d]
                   /\ RoomAfter(dTok'[today], DailyTokens)
                   /\ \A d \in Owing' : Due(d)' <= DailyTokens
      <3>1. /\ \A d \in Days : d > today => dTok'[d] = 0
            /\ \A d \in Days : d < today => dTok'[d] <= DailyTokens + PerCall * (N - 1)
        <4>1. \A d \in Days : d > today \/ d < today => d # today
          BY <2>2 DEF Days
        <4> QED BY <1>2, <2>3, <4>1 DEF DayRoom
      <3>2. Room(dTok[today], DailyTokens)'
        BY <2>2, <2>3 DEF Room, RoomAfter, N
      <3> QED BY <2>2, <2>3, <3>1, <3>2 DEF DayRoom, N
    <2>4. CASE Admitted(c, r)
      <3>1. dTok[today] + r.proj <= DailyTokens /\ dTok' = dTok
        BY <1>0, <2>2, <2>4 DEF Admitted, Breach
      <3>2. RoomAfter(dTok'[today], DailyTokens)
        BY <1>0, <1>2, <2>1, <2>2, <2>4, <3>1, RoomAdmit
      <3>3. ASSUME NEW d \in Owing' PROVE Due(d)' <= DailyTokens
        <4>1. /\ call'[c] = r /\ r.pc = "admitted"
              /\ \A e \in Callers \ {c} : call'[e] = call[e]
          BY <1>2, <2>1, <2>4 DEF Shape, Admitted, Inv, TypeOK
        <4>2. CASE d = c
          BY <1>0, <2>2, <3>1, <4>1, <4>2 DEF Due
        <4>3. CASE d # c
          BY <1>2, <3>3, <4>1, <4>3 DEF Owing, Due, DayRoom
        <4> QED BY <4>2, <4>3
      <3> QED BY <3>1, <3>2, <3>3
    <2>5. CASE Recorded(c, r)
      <3>1. dTok' = [dTok EXCEPT ![today] = @ + call[c].tok]
        BY <2>5 DEF Recorded
      <3>2. RoomAfter(dTok'[today], DailyTokens)
        <4>1. dTok'[today] = dTok[today] + call[c].tok
          BY <2>2, <3>1
        <4> QED BY <1>0, <1>2, <2>1, <2>2, <2>5, <4>1, RoomRecord
      <3>3. \A d \in Owing' : Due(d)' <= DailyTokens
        BY <1>2, <2>1, <2>5, RecordSettles DEF DayRoom
      <3> QED BY <2>2, <3>1, <3>2, <3>3
    <2>6. CASE Moved(c, r)
      <3>1. dTok' = dTok
        BY <2>6 DEF Moved
      <3>2. RoomAfter(dTok'[today], DailyTokens)
        BY <1>0, <1>2, <2>1, <2>2, <2>6, <3>1, RoomMove
      <3>3. \A d \in Owing' : Due(d)' <= DailyTokens
        <4>1. /\ Owing' \subseteq Owing
              /\ \A d \in Owing : Due(d) \in Nat
              /\ \A d \in Owing' : Due(d)' \in Nat /\ Due(d)' <= Due(d)
          BY <1>2, <2>1, <2>6, MoveShrinks
        <4> QED BY <1>0, <1>2, <4>1 DEF DayRoom
      <3> QED BY <3>1, <3>2, <3>3
    <2> QED BY <2>1, <2>4, <2>5, <2>6 DEF Shape
  <1>3. ASSUME Inv, DayRoom, Midnight PROVE DayRoom'
    <2>1. /\ today \in Days /\ today' = today + 1 /\ today' \in Days
          /\ dTok' = dTok /\ call' = call /\ dTok \in [Days -> Nat]
          /\ today \in Nat /\ \A d \in Days : d \in Nat
      BY <1>3, UsageAssumption DEF Midnight, counters, Inv, TypeOK, Days
    <2>2. Owing' = Owing /\ \A d \in Callers : Due(d)' = Due(d)
      BY <2>1 DEF Owing, Due
    <2>3. dTok[today] <= Bound
      BY <1>0, <1>3, <2>1, RoomBounds DEF DayRoom
    <2>4. dTok[today'] = 0
      BY <1>3, <2>1 DEF DayRoom
    <2>5. RoomAfter(0, DailyTokens)
      <3>1. CASE Owing = {}
        BY <1>0, <2>2, <3>1, RoomWhenSettled DEF Room, RoomAfter
      <3>2. ASSUME NEW l \in Owing PROVE RoomAfter(0, DailyTokens)
        <4>1. Owing \in SUBSET Callers
          BY DEF Owing
        <4>2. Cardinality(Owing) \in Nat /\ Cardinality(Owing) <= N
          BY <4>1, CallerSets
        <4>3. /\ PerCall * Cardinality(Owing) <= PerCall * N
              /\ PerCall * Cardinality(Owing) \in Int /\ PerCall * N \in Int
          BY <1>0, <4>2, PerCallAssumption, Times
        <4>4. Due(l) \in Nat /\ Due(l) <= DailyTokens /\ l \in Callers
          BY <1>3, <3>2, UsageAssumption DEF Owing, Due, Inv, TypeOK, Calls, DayRoom
        <4>5. 0 + Due(l) + PerCall * Cardinality(Owing) <= DailyTokens + PerCall * N
          BY <1>0, <4>3, <4>4
        <4> QED BY <2>2, <3>2, <4>4, <4>5 DEF RoomAfter
      <3> QED BY <3>1, <3>2
    <2>6. \A d \in Days : d > today' => dTok'[d] = 0
      BY <1>3, <2>1 DEF DayRoom
    <2>7. \A d \in Days : d < today' => dTok'[d] <= Bound
      <3> SUFFICES ASSUME NEW d \in Days, d < today' PROVE dTok[d] <= Bound
        BY <2>1
      <3>1. d = today \/ d < today
        BY <2>1
      <3> QED BY <1>3, <2>3, <3>1 DEF DayRoom
    <2>8. Room(dTok[today], DailyTokens)'
      BY <2>1, <2>4, <2>5 DEF Room, RoomAfter, N
    <2>9. \A d \in Owing' : Due(d)' <= DailyTokens
      BY <1>3, <2>2 DEF DayRoom, Owing
    <2> QED BY <2>6, <2>7, <2>8, <2>9 DEF DayRoom, N
  <1>4. ASSUME Inv, DayRoom, UNCHANGED vars PROVE DayRoom'
    <2>1. /\ Owing' = Owing /\ today' = today /\ dTok' = dTok
          /\ \A d \in Callers : Due(d)' = Due(d)
      BY <1>4 DEF Owing, Due, vars
    <2>2. Room(dTok[today], DailyTokens)'
      BY <1>4, <2>1 DEF Room, N, Owing, DayRoom
    <2> QED BY <1>4, <2>1, <2>2 DEF DayRoom, N, Owing
  <1>5. Inv /\ DayRoom /\ [Next]_vars => DayRoom'
    BY <1>2, <1>3, <1>4 DEF Next
  <1>6. Inv /\ DayRoom => DailyCeiling
    <2> SUFFICES ASSUME Inv, DayRoom, NEW d \in Days PROVE dTok[d] <= Bound
      BY DEF DailyCeiling, N
    <2>1. dTok \in [Days -> Nat] /\ today \in Days /\ dTok[d] \in Nat /\ dTok[today] \in Nat
      BY DEF Inv, TypeOK
    <2>2. d < today \/ d = today \/ d > today
      BY <2>1 DEF Days
    <2>3. CASE d < today
      BY <2>3 DEF DayRoom
    <2>4. CASE d = today
      BY <1>0, <2>1, <2>4, RoomBounds DEF DayRoom
    <2>5. CASE d > today
      BY <1>0, <2>5 DEF DayRoom
    <2> QED BY <2>2, <2>3, <2>4, <2>5
  <1> QED BY InvInit, InvStep, <1>1, <1>5, <1>6, PTL DEF Spec

-----------------------------------------------------------------------------
(* The ceiling for USD, which the gate reads but does not project: the     *)
(* session counter passes its cap by at most one call of every caller.  It *)
(* needs no assumption on what calls use, only that no call is admitted    *)
(* without its counters having been read.                                  *)
THEOREM CostUsdCeiling ==
    ASSUME ~(StoreCanFail /\ FailOpen)
    PROVE  Spec => []UsdCeiling
  <1> DEFINE W == Price * PerCall
  <1>0. W \in Nat
    BY UsageAssumption, PerCallAssumption, Times
  <1>1. Init => UsdRoom
    <2> SUFFICES ASSUME Init PROVE UsdRoom
      OBVIOUS
    <2>1. OwingUsd = {}
      BY DEF Init, OwingUsd
    <2>2. Cardinality(OwingUsd) = 0 /\ N \in Nat
      BY <2>1, FS_EmptySet, CallerSets
    <2> HIDE DEF W
    <2>3. W * N \in Nat /\ W * 0 = 0
      BY <1>0, <2>2, Times
    <2>4. sUsd + W * Cardinality(OwingUsd) <= SessionUsd + W * N
      BY <2>2, <2>3, PolicyAssumption DEF Init
    <2> QED BY <2>4 DEF UsdRoom, W
  <1>2. ASSUME Inv, UsdRoom, NEW c \in Callers, CallStep(c) PROVE UsdRoom'
    <2> DEFINE C == Cardinality(OwingUsd)
               D == Cardinality(OwingUsd')
    <2>1. PICK r \in Calls : Shape(c, r)
      BY <1>2, StepShape
    <2>2. /\ call' = [call EXCEPT ![c] = r] /\ sUsd \in Nat /\ call[c].usd \in Nat
          /\ \A d \in Callers : call'[d] = IF d = c THEN r ELSE call[d]
      BY <1>2, <2>1 DEF Shape, Inv, TypeOK, Calls
    <2>3. OwingUsd \in SUBSET Callers /\ OwingUsd' \in SUBSET Callers
      BY DEF OwingUsd
    <2>4. C \in Nat /\ D \in Nat /\ N \in Nat /\ D <= N
      BY <2>3, CallerSets
    <2>5. sUsd + W * C <= SessionUsd + W * N
      BY <1>2 DEF UsdRoom
    <2>6. CASE Admitted(c, r)
      <3>1. sUsd' = sUsd /\ sUsd <= SessionUsd
        BY <2>2, <2>6, PolicyAssumption DEF Admitted, Breach
      <3> HIDE DEF W, C, D
      <3>2. W * D <= W * N /\ W * D \in Int /\ W * N \in Int
        BY <1>0, <2>4, Times
      <3>3. sUsd' + W * D <= SessionUsd + W * N
        BY <2>2, <3>1, <3>2, PolicyAssumption
      <3> QED BY <3>3 DEF UsdRoom, W, D, N
    <2>7. CASE Recorded(c, r)
      <3>1. /\ call[c].pc = "store" /\ sUsd' = sUsd + call[c].usd
            /\ r.pc \in {"post", "idle", "streaming"}
            /\ r.pc = "streaming" => call[c].upfront
        BY <2>7 DEF Recorded
      <3>2. call[c].usd <= W /\ (call[c].upfront => call[c].usd = 0)
        BY <1>2, <3>1 DEF Inv, Carried
      <3>3. OwingUsd' \subseteq OwingUsd
        BY <2>2, <3>1 DEF OwingUsd
      <3>4. D <= C
        BY <2>3, <3>3, CallerSets
      <3>5. CASE call[c].usd > 0
        <4>1. c \in OwingUsd /\ c \notin OwingUsd'
          BY <2>2, <3>1, <3>2, <3>5 DEF OwingUsd
        <4>2. D <= C - 1
          BY <2>3, <3>3, <4>1, SmallerSet
        <4> HIDE DEF W, C, D
        <4>3. W * D <= W * (C - 1) /\ W * (C - 1) = W * C - W
              /\ W * D \in Int /\ W * C \in Int /\ W * N \in Int
          BY <1>0, <2>4, <4>2, Times
        <4>4. sUsd' + W * D <= SessionUsd + W * N
          BY <1>0, <2>2, <2>5, <3>1, <3>2, <4>3, PolicyAssumption
        <4> QED BY <4>4 DEF UsdRoom, W, D, N
      <3>6. CASE call[c].usd = 0
        <4> HIDE DEF W, C, D
        <4>1. W * D <= W * C /\ W * D \in Int /\ W * C \in Int /\ W * N \in Int
          BY <1>0, <2>4, <3>4, Times
        <4>2. sUsd' + W * D <= SessionUsd + W * N
          BY <2>2, <2>5, <3>1, <3>6, <4>1, PolicyAssumption
        <4> QED BY <4>2 DEF UsdRoom, W, D, N
      <3> QED BY <2>2, <3>5, <3>6
    <2>8. CASE Moved(c, r)
      <3>1. OwingUsd' \subseteq OwingUsd /\ sUsd' = sUsd
        BY <2>2, <2>8 DEF Moved, OwingUsd
      <3>2. D <= C
        BY <2>3, <3>1, CallerSets
      <3> HIDE DEF W, C, D
      <3>3. W * D <= W * C /\ W * D \in Int /\ W * C \in Int /\ W * N \in Int
        BY <1>0, <2>4, <3>2, Times
      <3>4. sUsd' + W * D <= SessionUsd + W * N
        BY <2>2, <2>5, <3>1, <3>3, PolicyAssumption
      <3> QED BY <3>4 DEF UsdRoom, W, D, N
    <2> QED BY <2>1, <2>6, <2>7, <2>8 DEF Shape
  <1>3. Inv /\ UsdRoom /\ [Next]_vars => UsdRoom'
    <2> SUFFICES ASSUME Inv, UsdRoom, [Next]_vars PROVE UsdRoom'
      OBVIOUS
    <2>1. CASE Midnight \/ UNCHANGED vars
      BY <2>1, RoomsKept DEF Midnight, vars, counters
    <2> QED BY <1>2, <2>1 DEF Next
  <1>4. Inv /\ UsdRoom => UsdCeiling
    <2> SUFFICES ASSUME Inv, UsdRoom PROVE UsdCeiling
      OBVIOUS
    <2>1. OwingUsd \in SUBSET Callers /\ sUsd \in Nat
      BY DEF OwingUsd, Inv, TypeOK
    <2>2. Cardinality(OwingUsd) \in Nat /\ N \in Nat
      BY <2>1, CallerSets
    <2>3. sUsd + W * Cardinality(OwingUsd) <= SessionUsd + W * N
      BY DEF UsdRoom
    <2> HIDE DEF W
    <2>4. W * Cardinality(OwingUsd) \in Nat /\ W * N \in Nat
      BY <1>0, <2>2, Times
    <2>5. sUsd <= SessionUsd + W * N
      BY <2>1, <2>3, <2>4, PolicyAssumption
    <2> QED BY <2>5 DEF UsdCeiling, W, N
  <1> QED BY InvInit, InvStep, <1>1, <1>3, <1>4, PTL DEF Spec

-----------------------------------------------------------------------------
(* Where the alert of the day stands: only a reached threshold is fired; a *)
(* tracking call read no more than the day's spend has become since; and   *)
(* once the threshold is reached the alert was sent or some call is on its *)
(* way to send it, having read the spend from below.                       *)
AlertBooks ==
    /\ \A d \in fired : dUsd[d] >= AlertAt
    /\ \A c \in Callers :
          /\ call[c].pc = "fire" => dUsd[today] >= AlertAt
          /\ call[c].pc = "store" /\ call[c].usd > 0 =>
                call[c].pre >= 0 /\ call[c].pre <= dUsd[today]
    /\ dUsd[today] >= AlertAt =>
          \/ today \in fired
          \/ \E c \in Callers :
                \/ call[c].pc = "fire"
                \/ call[c].pc = "post" /\ call[c].pre < AlertAt

(* The steps of a call before and between its updates of the counters: it  *)
(* is in no phase of the alert before or after.                            *)
LEMMA AlertAside ==
    ASSUME Inv, NEW c \in Callers,
           \/ \E p \in Projections : Admit(c, p) \/ Deny(c, p)
           \/ CallFails(c) \/ StartStream(c) \/ StreamUnreported(c)
           \/ \E a \in Actual[call[c].proj] : Respond(c, a) \/ StreamEnds(c, a)
           \/ \E k \in 1..MaxChunks : StreamTorn(c, k)
    PROVE  /\ UNCHANGED <<counters, today, fired>>
           /\ \A d \in Callers \ {c} : call'[d] = call[d]
           /\ {call[c].pc, call'[c].pc} \cap {"store", "post", "fire"} = {}
  <1>0. call \in [Callers -> Calls]
    BY DEF Inv, TypeOK
  <1>1. ASSUME NEW n, Reconcile(c, n)
        PROVE  /\ \A d \in Callers \ {c} : call'[d] = call[d]
               /\ call'[c].pc \in {"idle", "track"}
    BY <1>0, <1>1 DEF Reconcile, Finish, StartTrack, Calls
  <1>2. CASE \E p \in Projections : Admit(c, p) \/ Deny(c, p)
    BY <1>0, <1>2 DEF Admit, Deny, Calls
  <1>3. CASE CallFails(c) \/ StreamUnreported(c) \/ StartStream(c)
    BY <1>0, <1>3 DEF CallFails, StreamUnreported, StartStream, Finish, StartTrack, Calls
  <1>4. CASE \E a \in Actual[call[c].proj] : Respond(c, a)
    <2>1. PICK a \in Actual[call[c].proj] : Respond(c, a)
      BY <1>4
    <2>2. call[c].pc = "admitted" /\ UNCHANGED <<counters, today, fired>>
      BY <2>1 DEF Respond
    <2>3. StartTrack(c, a, Price * a, FALSE) \/ Finish(c)
      BY <2>1 DEF Respond
    <2>4. /\ \A d \in Callers \ {c} : call'[d] = call[d]
          /\ call'[c].pc \in {"idle", "track"}
      BY <1>0, <2>3 DEF Finish, StartTrack, Calls
    <2> QED BY <2>2, <2>4
  <1>5. CASE \/ \E a \in Actual[call[c].proj] : StreamEnds(c, a)
             \/ \E k \in 1..MaxChunks : StreamTorn(c, k)
    BY <1>1, <1>5 DEF StreamEnds, StreamTorn
  <1> QED BY <1>2, <1>3, <1>4, <1>5

(* The alert of a day whose spend only grows, when the store answers and   *)
(* no midnight falls between the reads: between calls a day at or past its *)
(* threshold has had its alert and a day below it has not, for every       *)
(* number of overlapping calls that each see only their own two reads.     *)
THEOREM CostAlertExact ==
    ASSUME StoreCanFail = FALSE, MaxDay = 0
    PROVE  Spec => []AlertExact
  <1>0. Days = {0} /\ AlertAt \in Nat /\ AlertAt > 0
    BY PolicyAssumption DEF Days
  <1>1. Init => AlertBooks
    <2> SUFFICES ASSUME Init PROVE AlertBooks
      OBVIOUS
    <2>1. /\ fired = {} /\ today = 0 /\ dUsd[0] = 0
          /\ \A c \in Callers : call[c].pc = "idle"
      BY <1>0 DEF Init
    <2> QED BY <1>0, <2>1 DEF AlertBooks
  <1>2. ASSUME Inv, AlertBooks, NEW c \in Callers, CallStep(c) PROVE AlertBooks'
    <2> DEFINE k == call[c]
    <2>0. /\ call \in [Callers -> Calls] /\ today = 0 /\ today \in Days
          /\ dUsd \in [Days -> Nat] /\ dUsd[today] \in Nat /\ fired \subseteq {today}
          /\ k \in Calls /\ k.usd \in Nat /\ k.pre \in Nat \cup {-1}
      BY <1>0, <1>2 DEF Inv, TypeOK, Calls
    <2>1. ASSUME /\ UNCHANGED <<counters, today, fired>>
                 /\ \A d \in Callers \ {c} : call'[d] = call[d]
                 /\ {k.pc, call'[c].pc} \cap {"store", "post", "fire"} = {}
          PROVE  AlertBooks'
      <3>1. UNCHANGED <<dUsd, today, fired>>
        BY <2>1 DEF counters
      <3>2. \A d \in Callers : call'[d].pc \in {"store", "post", "fire"} => call'[d] = call[d]
        BY <2>1
      <3>3. \A d \in Callers : call[d].pc \in {"store", "post", "fire"} => call'[d] = call[d]
        BY <2>1
      <3> QED BY <1>2, <3>1, <3>2, <3>3 DEF AlertBooks
    <2>2. CASE PreRead(c)
      <3>1. /\ call' = [call EXCEPT ![c].pc = "store",
                                     ![c].pre = IF k.usd > 0 THEN dUsd[today] ELSE -1]
            /\ UNCHANGED <<dUsd, today, fired>> /\ k.pc = "track"
        BY <2>2 DEF PreRead, counters
      <3>2. /\ \A d \in Callers \ {c} : call'[d] = call[d]
            /\ call'[c].pc = "store" /\ call'[c].usd = k.usd
            /\ call'[c].pre = IF k.usd > 0 THEN dUsd[today] ELSE -1
        BY <2>0, <3>1 DEF Calls
      <3>3. \A d \in Callers : call[d].pc \in {"post", "fire"} => d # c
        BY <3>1
      <3> QED BY <1>2, <2>0, <3>1, <3>2, <3>3 DEF AlertBooks
    <2>3. CASE Track(c)
      <3>1. /\ k.pc = "store" /\ dUsd' = [dUsd EXCEPT ![today] = @ + k.usd]
            /\ UNCHANGED <<today, fired>>
            /\ call' = [call EXCEPT ![c].pc = IF k.pre >= 0 THEN "post" ELSE AfterTrack(c)]
        BY <2>3 DEF Track
      <3>2. dUsd'[today] = dUsd[today] + k.usd
        BY <2>0, <3>1
      <3>3. /\ \A d \in Callers \ {c} : call'[d] = call[d]
            /\ call'[c].pc = IF k.pre >= 0 THEN "post" ELSE AfterTrack(c)
            /\ call'[c].pre = k.pre
        BY <2>0, <3>1 DEF Calls
      <3>4. AfterTrack(c) \in {"streaming", "idle"}
        BY DEF AfterTrack
      <3>5. \A d \in fired' : dUsd'[d] >= AlertAt
        BY <1>0, <1>2, <2>0, <3>1, <3>2 DEF AlertBooks
      <3>6. \A d \in Callers :
               /\ call'[d].pc = "fire" => dUsd'[today] >= AlertAt
               /\ call'[d].pc = "store" /\ call'[d].usd > 0 =>
                     call'[d].pre >= 0 /\ call'[d].pre <= dUsd'[today]
        <4> SUFFICES ASSUME NEW d \in Callers, d # c
                     PROVE  /\ call[d].pc = "fire" => dUsd'[today] >= AlertAt
                            /\ call[d].pc = "store" /\ call[d].usd > 0 =>
                                  call[d].pre >= 0 /\ call[d].pre <= dUsd'[today]
          BY <3>3, <3>4
        <4>1. call[d].pre \in Nat \cup {-1}
          BY <2>0 DEF Calls
        <4> QED BY <1>0, <1>2, <2>0, <3>2, <4>1 DEF AlertBooks
      <3>7. dUsd'[today] >= AlertAt =>
               \/ today \in fired
               \/ \E d \in Callers : \/ call'[d].pc = "fire"
                                     \/ call'[d].pc = "post" /\ call'[d].pre < AlertAt
        <4>1. CASE dUsd[today] >= AlertAt
          <5>1. \A d \in Callers : call[d].pc \in {"post", "fire"} => call'[d] = call[d]
            BY <3>1, <3>3
          <5> QED BY <1>2, <4>1, <5>1 DEF AlertBooks
        <4>2. CASE dUsd[today] < AlertAt /\ dUsd'[today] >= AlertAt
          <5>1. k.usd > 0
            BY <1>0, <2>0, <3>2, <4>2
          <5>2. k.pre >= 0 /\ k.pre <= dUsd[today]
            BY <1>2, <3>1, <5>1 DEF AlertBooks
          <5>3. k.pre < AlertAt
            BY <1>0, <2>0, <4>2, <5>2
          <5> QED BY <3>3, <5>2, <5>3
        <4> QED BY <1>0, <2>0, <4>1, <4>2
      <3> QED BY <3>1, <3>5, <3>6, <3>7 DEF AlertBooks
    <2>4. CASE PostRead(c)
      <3>1. /\ k.pc = "post" /\ UNCHANGED <<dUsd, today, fired>>
            /\ \/ /\ k.pre < AlertAt /\ AlertAt <= dUsd[today]
                  /\ call' = [call EXCEPT ![c].pc = "fire"]
               \/ /\ ~(k.pre < AlertAt /\ AlertAt <= dUsd[today])
                  /\ call' = [call EXCEPT ![c].pc = AfterTrack(c)]
        BY <2>4 DEF PostRead, counters
      <3>2. AfterTrack(c) \in {"streaming", "idle"}
        BY DEF AfterTrack
      <3>3. \A d \in Callers \ {c} : call'[d] = call[d]
        BY <2>0, <3>1
      <3>4. \/ call'[c].pc = "fire" /\ AlertAt <= dUsd[today]
            \/ /\ call'[c].pc \in {"streaming", "idle"}
               /\ ~(k.pre < AlertAt /\ AlertAt <= dUsd[today])
        BY <2>0, <3>1, <3>2 DEF Calls
      <3>5. \A d \in Callers : call[d].pc = "fire" => d # c
        BY <3>1
      <3>6. \A d \in Callers :
               /\ call'[d].pc = "fire" => dUsd[today] >= AlertAt
               /\ call'[d].pc = "store" => call'[d] = call[d]
        BY <1>0, <1>2, <2>0, <3>3, <3>4 DEF AlertBooks
      <3>7. dUsd[today] >= AlertAt =>
               \/ today \in fired
               \/ \E d \in Callers : \/ call'[d].pc = "fire"
                                     \/ call'[d].pc = "post" /\ call'[d].pre < AlertAt
        BY <1>0, <1>2, <2>0, <3>3, <3>4, <3>5 DEF AlertBooks
      <3> QED BY <1>2, <3>1, <3>6, <3>7 DEF AlertBooks
    <2>5. CASE FireAlert(c)
      <3>1. /\ k.pc = "fire" /\ fired' = fired \cup {today} /\ UNCHANGED <<dUsd, today>>
            /\ call' = [call EXCEPT ![c].pc = AfterTrack(c)]
        BY <2>5 DEF FireAlert, counters
      <3>2. AfterTrack(c) \in {"streaming", "idle"}
        BY DEF AfterTrack
      <3>3. /\ \A d \in Callers \ {c} : call'[d] = call[d]
            /\ call'[c].pc \in {"streaming", "idle"}
        BY <2>0, <3>1, <3>2 DEF Calls
      <3> QED BY <1>2, <3>1, <3>3 DEF AlertBooks
    <2>6. ~TrackFails(c)
      BY DEF TrackFails
    <2> QED BY <1>2, <2>1, <2>2, <2>3, <2>4, <2>5, <2>6, AlertAside DEF CallStep, TrackStep
  <1>3. Inv /\ AlertBooks /\ [Next]_vars => AlertBooks'
    <2> SUFFICES ASSUME Inv, AlertBooks, [Next]_vars PROVE AlertBooks'
      OBVIOUS
    <2>1. ~Midnight
      BY <1>0 DEF Midnight, Inv, TypeOK
    <2>2. CASE UNCHANGED vars
      BY <2>2 DEF vars, AlertBooks
    <2> QED BY <1>2, <2>1, <2>2 DEF Next
  <1>4. Inv /\ AlertBooks => AlertExact
    <2> SUFFICES ASSUME Inv, AlertBooks PROVE AlertExact
      OBVIOUS
    <2>1. today \in Days
      BY DEF Inv, TypeOK
    <2> QED BY <1>0, <2>1 DEF AlertBooks, AlertExact, Quiet
  <1> QED BY InvInit, InvStep, <1>1, <1>3, <1>4, PTL DEF Spec

-----------------------------------------------------------------------------
(* What a record still has to add to the session counter for tokens the    *)
(* provider has reported, and what a stream has been charged in advance.   *)
Debt(r) == IF r.pc \in {"track", "store"} /\ ~r.upfront THEN r.tok ELSE 0
Credit(r) == IF r.pc = "streaming" THEN r.proj ELSE 0

(* The sum of an amount per caller, as the size of a heap with so many     *)
(* pieces for each.                                                        *)
Heap(f) == {p \in Callers \X (1..PerCall) : p[2] <= f[p[1]]}
Total(f) == Cardinality(Heap(f))
Amounts == [Callers -> 0..PerCall]

(* The debts and the credits of the callers.                               *)
Debts == [c \in Callers |-> Debt(call[c])]
Credits == [c \in Callers |-> Credit(call[c])]

(* What was reported, and what streams were charged in advance, has been   *)
(* recorded or is about to be; a stream is charged its projection.         *)
Balanced ==
    /\ spent + Total(Credits) <= sTok + Total(Debts)
    /\ \A c \in Callers :
         call[c].pc \in {"track", "store"} /\ call[c].upfront => call[c].tok = call[c].proj

(* An amount changed for one caller changes the total by the difference;   *)
(* a total of nothing is nothing.                                          *)
LEMMA TotalMoves ==
    ASSUME NEW f \in Amounts, NEW g \in Amounts, NEW c \in Callers,
           \A d \in Callers : d # c => g[d] = f[d]
    PROVE  /\ Total(f) \in Nat /\ Total(g) \in Nat
           /\ Total(g) - g[c] = Total(f) - f[c]
  <1> DEFINE Pairs == Callers \X (1..PerCall)
             Rest == {p \in Pairs : p[1] # c /\ p[2] <= f[p[1]]}
             Own(n) == {c} \X (1..n)
  <1>0. PerCall \in Nat /\ IsFiniteSet(Callers)
    BY PerCallAssumption, CallersAssumption
  <1>1. IsFiniteSet(Pairs)
    <2>1. IsFiniteSet(1..PerCall)
      BY <1>0, FS_Interval
    <2> QED BY <1>0, <2>1, FS_Product
  <1>2. IsFiniteSet(Rest) /\ Cardinality(Rest) \in Nat
    <2>1. Rest \in SUBSET Pairs
      OBVIOUS
    <2> QED BY <1>1, <2>1, FS_Subset, FS_CardinalityType
  <1>3. ASSUME NEW n \in 0..PerCall PROVE IsFiniteSet(Own(n)) /\ Cardinality(Own(n)) = n
    <2>1. IsFiniteSet(1..n) /\ Cardinality(1..n) = n
      BY <1>0, FS_Interval
    <2>2. IsFiniteSet({c}) /\ Cardinality({c}) = 1
      BY FS_Singleton
    <2>3. Cardinality(Own(n)) = 1 * n /\ IsFiniteSet(Own(n))
      BY <2>1, <2>2, FS_Product
    <2> QED BY <1>0, <2>3
  <1>4. ASSUME NEW h \in Amounts, \A d \in Callers : d # c => h[d] = f[d]
        PROVE  Total(h) = Cardinality(Rest) + h[c]
    <2>1. h[c] \in 0..PerCall
      BY DEF Amounts
    <2>2. Heap(h) = Rest \cup Own(h[c])
      <3>1. ASSUME NEW p \in Heap(h) PROVE p \in Rest \cup Own(h[c])
        <4>1. PICK d \in Callers, i \in 1..PerCall : p = <<d, i>> /\ i <= h[d]
          BY DEF Heap
        <4>2. CASE d = c
          BY <1>0, <2>1, <4>1, <4>2
        <4>3. CASE d # c
          BY <1>4, <4>1, <4>3
        <4> QED BY <4>2, <4>3
      <3>2. ASSUME NEW p \in Rest PROVE p \in Heap(h)
        BY <1>4 DEF Heap
      <3>3. ASSUME NEW p \in Own(h[c]) PROVE p \in Heap(h)
        <4>1. PICK i \in 1..h[c] : p = <<c, i>>
          OBVIOUS
        <4>2. i \in 1..PerCall /\ i <= h[c]
          BY <1>0, <2>1
        <4> QED BY <4>1, <4>2 DEF Heap
      <3> QED BY <3>1, <3>2, <3>3
    <2>3. Rest \cap Own(h[c]) = {}
      OBVIOUS
    <2>4. IsFiniteSet(Own(h[c])) /\ Cardinality(Own(h[c])) = h[c]
      BY <1>3, <2>1
    <2> HIDE DEF Rest, Own
    <2>5. Cardinality(Rest \cup Own(h[c])) = Cardinality(Rest) + h[c] - Cardinality({})
      BY <1>2, <2>3, <2>4, FS_Union
    <2>6. Cardinality({}) = 0
      BY FS_EmptySet
    <2> QED BY <1>0, <1>2, <2>1, <2>2, <2>5, <2>6 DEF Total
  <1> HIDE DEF Rest
  <1>5. Total(f) = Cardinality(Rest) + f[c] /\ Total(g) = Cardinality(Rest) + g[c]
    BY <1>4
  <1>6. f[c] \in Nat /\ g[c] \in Nat
    BY <1>0 DEF Amounts
  <1> QED BY <1>2, <1>5, <1>6

(* What one call owes, and what it was charged in advance, is at most the  *)
(* most a call can use.                                                    *)
LEMMA AmountBounds ==
    ASSUME NEW r \in Calls, r.pc \in {"track", "store"} => r.tok <= PerCall
    PROVE  Debt(r) \in 0..PerCall /\ Credit(r) \in 0..PerCall
  <1>1. r.proj \in Projections /\ r.tok \in Nat /\ PerCall \in Nat
    BY PerCallAssumption DEF Calls
  <1>2. r.proj \in Nat /\ r.proj <= PerCall
    BY <1>1, UsageAssumption, PerCallAssumption
  <1> QED BY <1>1, <1>2 DEF Debt, Credit

(* The amounts of a state are amounts.                                     *)
LEMMA AmountsNow ==
    ASSUME Inv
    PROVE  Debts \in Amounts /\ Credits \in Amounts
  <1> SUFFICES ASSUME NEW c \in Callers
               PROVE  Debt(call[c]) \in 0..PerCall /\ Credit(call[c]) \in 0..PerCall
    BY DEF Debts, Credits, Amounts
  <1>1. call[c] \in Calls
    BY DEF Inv, TypeOK
  <1>2. call[c].pc \in {"track", "store"} => call[c].tok <= PerCall
    BY DEF Inv, Carried
  <1> QED BY <1>1, <1>2, AmountBounds

(* A call never takes on less than the provider reports of it.             *)
LEMMA CallBalances ==
    ASSUME Inv, Balanced, ~StoreCanFail, NEW c \in Callers, CallStep(c)
    PROVE  /\ spent' - spent + Credit(call'[c]) - Credit(call[c])
                <= sTok' - sTok + Debt(call'[c]) - Debt(call[c])
           /\ call'[c].pc \in {"track", "store"} /\ call'[c].upfront
                => call'[c].tok = call'[c].proj
  <1> DEFINE k == call[c]
             r == call'[c]
             Goal == /\ spent' - spent + Credit(r) - Credit(k) <= sTok' - sTok + Debt(r) - Debt(k)
                     /\ r.pc \in {"track", "store"} /\ r.upfront => r.tok = r.proj
  <1>0. /\ k \in Calls /\ k.proj \in Nat /\ k.tok \in Nat /\ k.upfront \in BOOLEAN
        /\ k.proj \in Projections /\ PerCall \in Nat
        /\ sTok \in Nat /\ spent \in Nat /\ call \in [Callers -> Calls]
        /\ k.pc \in {"track", "store"} /\ k.upfront => k.tok = k.proj
    BY UsageAssumption, PerCallAssumption DEF Inv, TypeOK, Calls, Balanced
  <1>1. ASSUME NEW p \in Projections, Admit(c, p) \/ Deny(c, p)
        PROVE  Goal
    <2>1. spent' = spent /\ sTok' = sTok /\ k.pc \in {"idle", "denied"}
      BY <1>1 DEF Admit, Deny, counters
    <2>2. r.pc \in {"admitted", "denied"}
      BY <1>0, <1>1 DEF Admit, Deny, Calls
    <2> QED BY <1>0, <2>1, <2>2 DEF Debt, Credit
  <1>2. ASSUME CallFails(c) \/ StreamUnreported(c) PROVE Goal
    <2>1. spent' = spent /\ sTok' = sTok /\ k.pc \in {"admitted", "streaming"}
      BY <1>2 DEF CallFails, StreamUnreported, counters
    <2>2. r.pc = "idle"
      BY <1>0, <1>2 DEF CallFails, StreamUnreported, Finish, Calls
    <2> QED BY <1>0, <2>1, <2>2 DEF Debt, Credit
  <1>3. ASSUME NEW a \in Actual[k.proj], Respond(c, a) PROVE Goal
    <2>1. a \in Nat
      BY <1>0, UsageAssumption
    <2>2. spent' = spent + a /\ sTok' = sTok /\ k.pc = "admitted"
      BY <1>3 DEF Respond, Spend, counters
    <2>3. CASE a > 0
      <3>1. call' = [call EXCEPT ![c].pc = "track", ![c].tok = a, ![c].usd = Price * a,
                                 ![c].pre = -1, ![c].upfront = FALSE]
        BY <1>3, <2>3 DEF Respond, StartTrack
      <3>2. r.pc = "track" /\ r.tok = a /\ ~r.upfront
        BY <1>0, <3>1 DEF Calls
      <3> QED BY <1>0, <2>1, <2>2, <3>2 DEF Debt, Credit
    <2>4. CASE ~(a > 0)
      <3>1. r.pc = "idle" /\ a = 0
        BY <1>0, <1>3, <2>1, <2>4 DEF Respond, Finish, Calls
      <3> QED BY <1>0, <2>2, <3>1 DEF Debt, Credit
    <2> QED BY <2>3, <2>4
  <1>4. ASSUME StartStream(c) PROVE Goal
    <2>1. spent' = spent /\ sTok' = sTok /\ k.pc = "admitted"
      BY <1>4 DEF StartStream, counters
    <2>2. CASE k.proj > 0
      <3>1. call' = [call EXCEPT ![c].pc = "track", ![c].tok = k.proj, ![c].usd = 0,
                                 ![c].pre = -1, ![c].upfront = TRUE]
        BY <1>4, <2>2 DEF StartStream, StartTrack
      <3>2. r.pc = "track" /\ r.tok = k.proj /\ r.upfront /\ r.proj = k.proj
        BY <1>0, <3>1 DEF Calls
      <3> QED BY <1>0, <2>1, <3>2 DEF Debt, Credit
    <2>3. CASE ~(k.proj > 0)
      <3>1. r.pc = "streaming" /\ r.proj = k.proj /\ k.proj = 0
        BY <1>0, <1>4, <2>3 DEF StartStream, Calls
      <3> QED BY <1>0, <2>1, <3>1 DEF Debt, Credit
    <2> QED BY <2>2, <2>3
  <1>5. ASSUME NEW n \in Nat, NEW used \in Nat, used <= n, Reconcile(c, n),
               spent' = spent + used, sTok' = sTok, k.pc = "streaming"
        PROVE  Goal
    <2> DEFINE tok == AtLeast0(n - k.proj)
    <2>1. tok \in Nat /\ n <= k.proj + tok
      BY <1>0 DEF AtLeast0
    <2>2. CASE tok = 0 /\ Price * n = 0
      <3>1. call' = [call EXCEPT ![c].pc = "idle"]
        BY <1>5, <2>2 DEF Reconcile, Finish
      <3>2. r.pc = "idle"
        BY <1>0, <3>1 DEF Calls
      <3> QED BY <1>0, <1>5, <2>1, <2>2, <3>2 DEF Debt, Credit
    <2>3. CASE ~(tok = 0 /\ Price * n = 0)
      <3>1. call' = [call EXCEPT ![c].pc = "track", ![c].tok = tok, ![c].usd = Price * n,
                                 ![c].pre = -1, ![c].upfront = FALSE]
        BY <1>5, <2>3 DEF Reconcile, StartTrack
      <3> HIDE DEF tok
      <3>2. r.pc = "track" /\ r.tok = tok /\ ~r.upfront
        BY <1>0, <3>1 DEF Calls
      <3> QED BY <1>0, <1>5, <2>1, <3>2 DEF Debt, Credit
    <2> QED BY <2>2, <2>3
  <1>6. ASSUME NEW a \in Actual[k.proj], StreamEnds(c, a) PROVE Goal
    <2>1. a \in Nat
      BY <1>0, UsageAssumption
    <2> QED BY <1>5, <1>6, <2>1 DEF StreamEnds, Spend, counters
  <1>7. ASSUME NEW j \in 1..MaxChunks, StreamTorn(c, j) PROVE Goal
    <2> DEFINE est == j * ChunkEstimate
               n == IF est > k.proj THEN est ELSE k.proj
    <2>1. est \in Nat
      <3>1. ChunkEstimate \in Nat /\ j \in Nat
        BY UsageAssumption
      <3> QED BY <3>1
    <2>2. PICK used \in 1..est : Spend(used)
      BY <1>7 DEF StreamTorn
    <2>3. Reconcile(c, n) /\ sTok' = sTok /\ k.pc = "streaming"
      BY <1>7 DEF StreamTorn, counters
    <2> HIDE DEF est
    <2>4. n \in Nat /\ used \in Nat /\ used <= n
      BY <1>0, <2>1, <2>2
    <2> HIDE DEF n
    <2> QED BY <1>5, <2>2, <2>3, <2>4 DEF Spend
  <1>8. ASSUME PreRead(c) PROVE Goal
    <2>1. spent' = spent /\ sTok' = sTok /\ k.pc = "track"
      BY <1>8 DEF PreRead, counters
    <2>2. call' = [call EXCEPT ![c].pc = "store",
                               ![c].pre = IF call[c].usd > 0 THEN dUsd[today] ELSE -1]
      BY <1>8 DEF PreRead
    <2>3. r.pc = "store" /\ r.tok = k.tok /\ r.upfront = k.upfront /\ r.proj = k.proj
      BY <1>0, <2>2 DEF Calls
    <2> QED BY <1>0, <2>1, <2>3 DEF Debt, Credit
  <1>9. ASSUME Track(c) PROVE Goal
    <2>1. /\ spent' = spent /\ sTok' = sTok + k.tok /\ k.pc = "store"
          /\ call' = [call EXCEPT ![c].pc = IF k.pre >= 0 THEN "post" ELSE AfterTrack(c)]
      BY <1>9 DEF Track
    <2>2. /\ r.pc \in {"post", "streaming", "idle"} /\ r.proj = k.proj
          /\ r.pc = "streaming" => k.upfront
      BY <1>0, <2>1 DEF Calls, AfterTrack
    <2> QED BY <1>0, <2>1, <2>2 DEF Debt, Credit
  <1>10. ASSUME PostRead(c) \/ FireAlert(c) PROVE Goal
    <2>1. /\ spent' = spent /\ sTok' = sTok /\ k.pc \in {"post", "fire"}
      BY <1>10 DEF PostRead, FireAlert, counters
    <2>2. ~k.upfront
      BY <2>1 DEF Inv, Carried
    <2>3. r.pc \in {"fire", "idle"}
      BY <1>0, <1>10, <2>2 DEF PostRead, FireAlert, AfterTrack, Calls
    <2> QED BY <1>0, <2>1, <2>3 DEF Debt, Credit
  <1>11. ~TrackFails(c)
    BY DEF TrackFails
  <1> HIDE DEF Goal
  <1>12. Goal
    BY <1>1, <1>2, <1>3, <1>4, <1>6, <1>7, <1>8, <1>9, <1>10, <1>11 DEF CallStep, TrackStep
  <1> QED BY <1>12 DEF Goal

(* Between calls the session counter holds at least what the provider has  *)
(* reported, for any number of callers with any mix of whole, streamed and *)
(* torn-down answers, while the cost store does not refuse a write.        *)
THEOREM CostNoUndercount ==
    ASSUME ~StoreCanFail PROVE Spec => []NoUndercount
  <1>1. Init /\ Inv => Balanced
    <2> SUFFICES ASSUME Init, Inv PROVE Balanced
      OBVIOUS
    <2>1. \A c \in Callers : call[c].pc = "idle"
      BY DEF Init
    <2>2. \A c \in Callers : Debt(call[c]) = 0 /\ Credit(call[c]) = 0
      BY <2>1 DEF Debt, Credit
    <2>3. Credits = Debts
      BY <2>2 DEF Credits, Debts
    <2>4. Total(Debts) \in Nat
      BY AmountsNow, TotalMoves, CallersAssumption
    <2>5. spent + Total(Credits) <= sTok + Total(Debts)
      BY <2>3, <2>4 DEF Init
    <2> QED BY <2>1, <2>5 DEF Balanced
  <1>2. Inv /\ Balanced /\ [Next]_vars => Balanced'
    <2> SUFFICES ASSUME Inv, Balanced, [Next]_vars PROVE Balanced'
      OBVIOUS
    <2>1. ASSUME NEW c \in Callers, CallStep(c) PROVE Balanced'
      <3>1. Inv' /\ \E r \in Calls : call' = [call EXCEPT ![c] = r]
        BY <2>1, StepShape DEF Shape
      <3>2. \A d \in Callers : d # c => call'[d] = call[d]
        BY <3>1 DEF Inv, TypeOK
      <3>3. Debts \in Amounts /\ Credits \in Amounts /\ Debts' \in Amounts /\ Credits' \in Amounts
        <4>1. ASSUME NEW d \in Callers
              PROVE  Debt(call'[d]) \in 0..PerCall /\ Credit(call'[d]) \in 0..PerCall
          <5>1. call'[d] \in Calls
            BY <3>1 DEF Inv, TypeOK
          <5>2. call'[d].pc \in {"track", "store"} => call'[d].tok <= PerCall
            BY <3>1 DEF Inv, Carried
          <5> QED BY <5>1, <5>2, AmountBounds
        <4>2. Debts' \in Amounts /\ Credits' \in Amounts
          BY <4>1 DEF Debts, Credits, Amounts
        <4> QED BY <4>2, AmountsNow
      <3>4. /\ Debts[c] = Debt(call[c]) /\ Debts'[c] = Debt(call'[c])
            /\ Credits[c] = Credit(call[c]) /\ Credits'[c] = Credit(call'[c])
            /\ \A d \in Callers : d # c => Debts'[d] = Debts[d] /\ Credits'[d] = Credits[d]
        BY <3>2 DEF Debts, Credits
      <3>5. /\ Total(Debts) \in Nat /\ Total(Debts') \in Nat
            /\ Total(Debts') - Debts'[c] = Total(Debts) - Debts[c]
        BY <3>3, <3>4, TotalMoves
      <3>6. /\ Total(Credits) \in Nat /\ Total(Credits') \in Nat
            /\ Total(Credits') - Credits'[c] = Total(Credits) - Credits[c]
        BY <3>3, <3>4, TotalMoves
      <3>7. /\ Debts[c] \in Nat /\ Debts'[c] \in Nat /\ Credits[c] \in Nat /\ Credits'[c] \in Nat
            /\ spent \in Nat /\ spent' \in Nat /\ sTok \in Nat /\ sTok' \in Nat
        <4>1. PerCall \in Nat
          BY PerCallAssumption
        <4>2. ASSUME NEW f \in Amounts PROVE f[c] \in Nat
          BY <4>1 DEF Amounts
        <4>3. spent \in Nat /\ sTok \in Nat
          BY DEF Inv, TypeOK
        <4>4. spent' \in Nat /\ sTok' \in Nat
          BY <3>1 DEF Inv, TypeOK
        <4> QED BY <3>3, <4>2, <4>3, <4>4
      <3>8. /\ spent' - spent + Credits'[c] - Credits[c] <= sTok' - sTok + Debts'[c] - Debts[c]
            /\ call'[c].pc \in {"track", "store"} /\ call'[c].upfront
                 => call'[c].tok = call'[c].proj
        BY <2>1, <3>4, CallBalances
      <3>9. spent + Total(Credits) <= sTok + Total(Debts)
        BY DEF Balanced
      <3>10. spent' + Total(Credits') <= sTok' + Total(Debts')
        BY <3>5, <3>6, <3>7, <3>8, <3>9
      <3>11. Total(Credits)' = Total(Credits') /\ Total(Debts)' = Total(Debts')
        BY DEF Total, Heap
      <3> QED BY <3>2, <3>8, <3>10, <3>11 DEF Balanced
    <2>2. CASE Midnight \/ UNCHANGED vars
      <3>1. call' = call /\ spent' = spent /\ sTok' = sTok
        BY <2>2 DEF Midnight, vars, counters
      <3>2. Debts' = Debts /\ Credits' = Credits
        BY <3>1 DEF Debts, Credits
      <3> QED BY <3>1, <3>2 DEF Balanced, Total, Heap
    <2> QED BY <2>1, <2>2 DEF Next
  <1>3. Inv /\ Balanced => NoUndercount
    <2> SUFFICES ASSUME Inv, Balanced, Quiet PROVE sTok >= spent
      BY DEF NoUndercount
    <2>1. \A c \in Callers : Debt(call[c]) = 0
      BY DEF Quiet, Debt
    <2>2. Heap(Debts) = {}
      <3>1. \A c \in Callers : Debts[c] = 0
        BY <2>1 DEF Debts
      <3> QED BY <3>1 DEF Heap
    <2>3. Total(Debts) = 0
      BY <2>2, FS_EmptySet DEF Total
    <2>4. Total(Credits) \in Nat
      BY AmountsNow, TotalMoves, CallersAssumption
    <2>5. spent \in Nat /\ sTok \in Nat
      BY DEF Inv, TypeOK
    <2> QED BY <2>3, <2>4, <2>5 DEF Balanced
  <1> QED BY InvInit, InvStep, <1>1, <1>2, <1>3, PTL DEF Spec

=============================================================================
