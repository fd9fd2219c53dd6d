----------------------- MODULE PlatformForward_proofs -----------------------
(***************************************************************************)
(* The bridge of the platform client keeps its books, forwards in order    *)
(* and loses no event to a sequence conflict: for every number of events,  *)
(* every queue size, every number of retries and every history the         *)
(* workflow had before.                                                    *)
(*                                                                         *)
(* Events are numbered in the order they are made, so the queue, the event *)
(* in hand and what was posted are ascending sequences (Ledger,            *)
(* PostedInOrder). That a conflict answer means the platform has the       *)
(* event, or that somebody else took its number, rests on HealHolds: after *)
(* the one self-heal the worker's number is the platform's own.            *)
(***************************************************************************)
EXTENDS PlatformForward, FiniteSetTheorems, TLAPS

(* What the worker may have in hand.                                       *)
Works == [event : Events \cup {None}, seq : Nat, attempt : 0..MaxRetries + 1, healed : BOOLEAN]

(* TypeOK by groups of variables: the client, its counters, the platform.  *)
TypeBridge ==
    /\ made \in 0..MaxEvents
    /\ queue \in Seq(Events) /\ Len(queue) <= QueueSize
    /\ unfinished \in Nat
    /\ work \in Works
    /\ nextSeq \in Nat \ {0}
    /\ latched \in BOOLEAN
    /\ closing \in {"open", "joining", "gates", "overdue", "closed", "overran"}

TypeCounters == outcome \in [Events -> Outcomes] /\ counted \in [Events -> Nat]

TypePlatform ==
    /\ stored \in Seq(Events) /\ expected \in Nat \ {0} /\ other \in Nat
    /\ late \subseteq Events \X Nat

(* The groups together are TypeOK.                                         *)
LEMMA TypeParts == TypeOK <=> TypeBridge /\ TypeCounters /\ TypePlatform
  BY Zenon DEF TypeOK, TypeBridge, TypeCounters, TypePlatform, Works

(* An empty hand is the idle worker.                                       *)
Hand == work.event = None => work = Idle

(* queue.join() waits for the queue and the event in hand.                 *)
Books == unfinished = Len(queue) + (IF work.event = None THEN 0 ELSE 1)

(* What the assumption says of each constant.                              *)
LEMMA Bounds ==
    /\ MaxEvents \in Nat /\ MaxRetries \in Nat /\ Prior \in Nat /\ MaxOther \in Nat
    /\ QueueSize \in Nat \ {0}
  BY BridgeAssumption

(* What taking the oldest element of a queue leaves.                       *)
LEMMA TailFacts ==
    ASSUME NEW S, NEW q \in Seq(S), q # <<>>
    PROVE  /\ Head(q) = q[1] /\ Head(q) \in S /\ Tail(q) \in Seq(S)
           /\ Len(q) \in Nat \ {0} /\ Len(Tail(q)) = Len(q) - 1
           /\ \A i \in 1..Len(q) - 1 : Tail(q)[i] = q[i + 1]
  OBVIOUS

(* What appending an element to a sequence gives.                          *)
LEMMA AppendFacts ==
    ASSUME NEW S, NEW q \in Seq(S), NEW e \in S
    PROVE  /\ Append(q, e) \in Seq(S) /\ Len(q) \in Nat
           /\ Len(Append(q, e)) = Len(q) + 1
           /\ Append(q, e)[Len(q) + 1] = e
           /\ \A i \in 1..Len(q) : Append(q, e)[i] = q[i]
  OBVIOUS

(* Counting an outcome adds one for each event it is for.                  *)
LEMMA CountFacts ==
    ASSUME TypeCounters, NEW E, NEW o \in Outcomes, Count(E, o)
    PROVE  /\ TypeCounters'
           /\ \A e \in Events : counted'[e] = IF e \in E THEN counted[e] + 1 ELSE counted[e]
  BY DEF TypeCounters, Count

(* The idle worker is a worker with nothing in hand.                       *)
LEMMA IdleType == Idle \in Works /\ Idle.event = None
  BY Bounds DEF Idle, Works

(* While the bound is not reached there is an event to make.               *)
LEMMA NextEvent == made \in 0..MaxEvents /\ made < MaxEvents => made + 1 \in Events
  BY Bounds DEF Events

(* A retry is an attempt more at the same event under the same number.     *)
LEMMA NextAttempt ==
    ASSUME NEW w \in Works, w.attempt <= MaxRetries
    PROVE  LET r == [w EXCEPT !.attempt = @ + 1]
           IN  r \in Works /\ r.event = w.event /\ r.seq = w.seq /\ r.healed = w.healed
  <1>1. w.attempt + 1 \in 0..MaxRetries + 1
    BY Bounds DEF Works
  <1> QED BY <1>1 DEF Works

(* A retry after a self-heal is one under the number the platform named.   *)
LEMMA HealedAttempt ==
    ASSUME NEW w \in Works, w.attempt <= MaxRetries, NEW s \in Nat
    PROVE  LET r == [w EXCEPT !.seq = s, !.healed = TRUE, !.attempt = @ + 1]
           IN  r \in Works /\ r.event = w.event /\ r.seq = s /\ r.healed
  <1>1. w.attempt + 1 \in 0..MaxRetries + 1
    BY Bounds DEF Works
  <1> QED BY <1>1 DEF Works

(* What the platform does with a post keeps its types.                     *)
LEMMA HandleType ==
    ASSUME TypePlatform, NEW e \in Events, NEW s, Handle(e, s), UNCHANGED late
    PROVE  TypePlatform'
  <1>1. CASE Storable(e, s)
    <2>1. Append(stored, e) \in Seq(Events) /\ expected + 1 \in Nat \ {0}
      BY AppendFacts DEF TypePlatform
    <2> QED BY <1>1, <2>1 DEF Handle, TypePlatform
  <1>2. CASE ~Storable(e, s)
    BY <1>2 DEF Handle, platform, TypePlatform
  <1> QED BY <1>1, <1>2

(* The types, with what an empty hand is and what join() waits for.        *)
Typed == TypeBridge /\ TypeCounters /\ TypePlatform /\ Hand /\ Books

(* The types hold in every reachable state.                                *)
LEMMA TypedInvariant == Spec => []Typed
  <1> USE Bounds, IdleType
  <1>1. Init => Typed
    <2> SUFFICES ASSUME Init PROVE Typed
      OBVIOUS
    <2>1. TypePlatform
      BY DEF Init, TypePlatform
    <2>2. TypeCounters
      BY DEF Init, TypeCounters, Outcomes
    <2>3. TypeBridge
      <3>1. queue \in Seq(Events) /\ Len(queue) = 0
        BY DEF Init
      <3>2. made \in 0..MaxEvents /\ unfinished \in Nat /\ nextSeq \in Nat \ {0}
        BY DEF Init
      <3>3. work \in Works /\ latched \in BOOLEAN /\ closing = "open"
        BY DEF Init
      <3> QED BY <3>1, <3>2, <3>3 DEF TypeBridge
    <2>4. Hand /\ Books
      BY DEF Init, Hand, Books
    <2> QED BY <2>1, <2>2, <2>3, <2>4 DEF Typed
  <1>2. Typed /\ [Next]_vars => Typed'
    <2> SUFFICES ASSUME Typed, [Next]_vars PROVE Typed'
      OBVIOUS
    <2> USE DEF Typed
    <2>a. UNCHANGED <<platform, late>> => TypePlatform'
      BY DEF platform, TypePlatform
    <2>b. UNCHANGED <<outcome, counted>> => TypeCounters'
      BY DEF TypeCounters
    <2>c. work # Idle => work.event \in Events /\ work.event # None
      BY DEF Hand, TypeBridge, Works
    <2>1. CASE ForwardRefused
      <3>1. TypeCounters'
        BY <2>1, CountFacts DEF ForwardRefused, Outcomes
      <3> QED BY <2>1, <2>a, <3>1 DEF ForwardRefused, TypeBridge, Hand, Books
    <2>2. CASE ForwardPut
      <3>1. queue' \in Seq(Events) /\ Len(queue') = Len(queue) + 1 /\ Len(queue) \in Nat
        BY <2>2, NextEvent, AppendFacts DEF ForwardPut, TypeBridge
      <3> QED BY <2>2, <2>a, <2>b, <3>1 DEF ForwardPut, TypeBridge, Hand, Books
    <2>3. CASE ForwardDropsOldest
      <3>1. queue # <<>>
        BY <2>3 DEF ForwardDropsOldest, TypeBridge
      <3>2. queue' \in Seq(Events) /\ Len(queue') = Len(queue)
        BY <2>3, <3>1, NextEvent, TailFacts, AppendFacts DEF ForwardDropsOldest, TypeBridge
      <3>3. TypeCounters'
        BY <2>3, CountFacts DEF ForwardDropsOldest, Outcomes
      <3> QED BY <2>3, <2>a, <3>2, <3>3 DEF ForwardDropsOldest, TypeBridge, Hand, Books
    <2>4. CASE Take
      <3>1. /\ queue' \in Seq(Events) /\ Len(queue') = Len(queue) - 1
            /\ Len(queue) \in Nat \ {0} /\ Head(queue) \in Events
        BY <2>4, TailFacts DEF Take, TypeBridge
      <3>2. work' \in Works /\ work'.event \in Events
        BY <2>4, <3>1 DEF Take, TypeBridge, Works
      <3>3. None \notin Events
        BY DEF Events, None
      <3> QED BY <2>4, <2>a, <2>b, <3>1, <3>2, <3>3 DEF Take, TypeBridge, Hand, Books
    <2>5. CASE Discard
      <3>1. /\ queue' \in Seq(Events) /\ Len(queue') = Len(queue) - 1
            /\ Len(queue) \in Nat \ {0}
        BY <2>5, TailFacts DEF Discard, TypeBridge
      <3>2. TypeCounters'
        BY <2>5, CountFacts DEF Discard, Outcomes
      <3> QED BY <2>5, <2>a, <3>1, <3>2 DEF Discard, TypeBridge, Hand, Books
    <2>6. ASSUME NEW o \in Outcomes, Done(o), work # Idle, UNCHANGED nextSeq,
                 latched' \in BOOLEAN, TypePlatform'
          PROVE  Typed'
      <3>1. TypeCounters'
        BY <2>6, CountFacts DEF Done
      <3> QED BY <2>6, <2>c, <3>1 DEF Done, TypeBridge, Hand, Books
    <2>7. CASE Accepted
      <3>1. TypePlatform'
        BY <2>7, <2>c, HandleType DEF Accepted, Posting
      <3> QED BY <2>7, <2>6, <3>1 DEF Accepted, Posting, Outcomes, TypeBridge
    <2>8. CASE Conflict
      BY <2>8, <2>6, <2>a DEF Conflict, Posting, Outcomes, TypeBridge
    <2>9. CASE GiveUp
      BY <2>9, <2>6, <2>a DEF GiveUp, Outcomes, TypeBridge
    <2>10. CASE Rejected
      BY <2>10, <2>6, <2>a DEF Rejected, Posting, Outcomes, TypeBridge
    <2>11. ASSUME work # Idle, work' \in Works, work'.event = work.event,
                  nextSeq' \in Nat \ {0}, UNCHANGED <<bridge, outcome, counted>>, TypePlatform'
           PROVE  Typed'
      BY <2>11, <2>b, <2>c DEF bridge, TypeBridge, Hand, Books
    <2>12. CASE Heal
      <3>1. work' \in Works /\ work'.event = work.event
        BY <2>12, HealedAttempt DEF Heal, Posting, TypeBridge, TypePlatform
      <3>2. nextSeq' \in Nat \ {0}
        BY <2>12 DEF Heal, TypeBridge, TypePlatform
      <3> QED BY <2>12, <2>11, <2>a, <3>1, <3>2 DEF Heal, Posting
    <2>13. ASSUME Posting, Retry, TypePlatform' PROVE Typed'
      <3>1. work' \in Works /\ work'.event = work.event
        BY <2>13, NextAttempt DEF Retry, Posting, TypeBridge
      <3> QED BY <2>13, <2>11, <3>1 DEF Retry, Posting, TypeBridge
    <2>14. CASE Busy
      BY <2>14, <2>13, <2>a DEF Busy
    <2>15. CASE NoAnswer
      <3>1. CASE UNCHANGED late /\ Handle(work.event, work.seq)
        BY <2>15, <2>13, <2>c, <3>1, HandleType DEF NoAnswer, Posting
      <3>2. CASE UNCHANGED <<platform, late>>
        BY <2>15, <2>13, <2>a, <3>2 DEF NoAnswer
      <3>3. CASE late' = late \cup {<<work.event, work.seq>>} /\ UNCHANGED platform
        <4>1. work.event \in Events /\ work.seq \in Nat
          BY <2>15, <2>c DEF NoAnswer, Posting, TypeBridge, Works
        <4>2. TypePlatform'
          BY <3>3, <4>1 DEF TypePlatform, platform
        <4> QED BY <2>15, <2>13, <4>2 DEF NoAnswer
      <3> QED BY <2>15, <3>1, <3>2, <3>3 DEF NoAnswer
    <2>16. CASE CloseStart
      BY <2>16, <2>a, <2>b DEF CloseStart, TypeBridge, Hand, Books
    <2>17. ASSUME NEW E, CancelWorker(E) PROVE Typed'
      <3>1. TypeCounters'
        BY <2>17, CountFacts DEF CancelWorker, Outcomes
      <3>2. closing' \in {"overran", "closed"}
        BY <2>17 DEF CancelWorker
      <3> QED BY <2>17, <2>a, <2>c, <3>1, <3>2 DEF CancelWorker, TypeBridge, Hand, Books
    <2>18. CASE Joined
      BY <2>18, <2>17, <2>a, <2>b DEF Joined, TypeBridge, Hand, Books
    <2>19. CASE JoinTimesOut
      <3>1. CASE CancelWorker(Queued)
        BY <2>17, <3>1
      <3>2. CASE closing' = "overdue" /\ Count(Queued, "dropped_queue_full")
                 /\ UNCHANGED <<made, queue, unfinished, latched, work, nextSeq, platform, late>>
        <4>1. TypeCounters'
          BY <3>2, CountFacts DEF Outcomes
        <4> QED BY <3>2, <4>1, <2>a DEF TypeBridge, Hand, Books
      <3> QED BY <2>19, <3>1, <3>2 DEF JoinTimesOut
    <2>20. CASE GatesDone
      BY <2>20, <2>17 DEF GatesDone
    <2>21. CASE GateRejected
      BY <2>21, <2>a, <2>b DEF GateRejected, TypeBridge, Hand, Books
    <2>22. CASE OtherWrites
      <3>1. TypePlatform'
        BY <2>22 DEF OtherWrites, TypePlatform
      <3> QED BY <2>22, <2>b, <3>1 DEF OtherWrites, bridge, TypeBridge, Hand, Books
    <2>23. CASE Arrive
      <3>1. PICK r \in late : Arrive!(r)
        BY <2>23 DEF Arrive
      <3>2. r[1] \in Events /\ late' \subseteq late
        BY <3>1 DEF TypePlatform
      <3>3. stored' \in Seq(Events) /\ expected' \in Nat \ {0} /\ other' \in Nat
        <4>1. CASE Storable(r[1], r[2])
          <5>1. Append(stored, r[1]) \in Seq(Events) /\ expected + 1 \in Nat \ {0}
                /\ other + 1 \in Nat
            BY <3>2, AppendFacts DEF TypePlatform
          <5> QED BY <3>1, <4>1, <5>1
        <4>2. CASE ~Storable(r[1], r[2])
          BY <3>1, <4>2 DEF TypePlatform, platform
        <4> QED BY <4>1, <4>2
      <3>4. TypePlatform'
        BY <3>2, <3>3 DEF TypePlatform
      <3> QED BY <3>1, <2>b, <3>4 DEF bridge, TypeBridge, Hand, Books
    <2>24. CASE UNCHANGED vars
      BY <2>24, <2>a, <2>b DEF vars, bridge, TypeBridge, Hand, Books
    <2> QED
      BY <2>1, <2>2, <2>3, <2>4, <2>5, <2>7, <2>8, <2>9, <2>10, <2>12, <2>14, <2>15, <2>16,
         <2>18, <2>19, <2>20, <2>21, <2>22, <2>23, <2>24
      DEF Next, Forward, Worker, Close
  <1> QED BY <1>1, <1>2, PTL DEF Spec

-----------------------------------------------------------------------------
(* The events of q lie above lo and not above hi, in ascending order.      *)
Sorted(q, lo, hi) ==
    /\ \A i \in 1..Len(q) : lo < q[i] /\ q[i] <= hi
    /\ \A i, j \in 1..Len(q) : i < j => q[i] < q[j]

(* Events leave forward() in order: what is queued is newer than the event *)
(* in hand, the newest last.                                               *)
Ascending == work.event <= made /\ Sorted(queue, work.event, made)

(* close() waits for a gate forward only with a drained queue, and leaves  *)
(* no event in the hands of a cancelled worker.                            *)
Quiet ==
    /\ closing = "gates" => queue = <<>> /\ work = Idle
    /\ ~Running => work = Idle

(* What is still to come is not counted yet; once close() has overrun its  *)
(* deadline, all that is queued is.                                        *)
Uncounted ==
    /\ \A e \in Events : made < e => counted[e] = 0
    /\ closing \in {"open", "joining"} =>
          /\ work # Idle => counted[work.event] = 0
          /\ \A i \in 1..Len(queue) : counted[queue[i]] = 0
    /\ closing = "overdue" => \A i \in 1..Len(queue) : counted[queue[i]] > 0

(* The second and third conjunct of Accounted.                             *)
CountsOnce == \A e \in Events : counted[e] <= 1 \/ closing \in {"overdue", "overran"}
Kept == \A e \in 1..made :
    \/ counted[e] > 0 \/ work.event = e
    \/ Running /\ \E i \in 1..Len(queue) : queue[i] = e

(* Where every event made is, and that it is counted at most once.         *)
Ledger == Ascending /\ Quiet /\ Uncounted /\ CountsOnce /\ Kept

(* No request of an event still queued, or of one newer than the event in  *)
(* hand, has been made: x was posted no later than now.                    *)
Past(x) ==
    /\ x <= made /\ (work # Idle => x <= work.event)
    /\ \A i \in 1..Len(queue) : x < queue[i]

(* What the platform has or may still get was posted before now.           *)
PostedInOrder ==
    /\ \A i \in 1..Len(stored) : Past(stored[i])
    /\ \A r \in late : Past(r[1])

(* A healed event has the platform's number, or was stored by a request    *)
(* whose answer was lost, unless a number went behind the worker's back.   *)
HealHolds == work.healed => work.seq = expected \/ InStored(work.event) \/ other > 0

(* What the types say, in the terms the arithmetic of the proofs uses.     *)
Plain ==
    /\ made \in Nat /\ work.event \in Nat /\ (work = Idle <=> work.event = 0)
    /\ work # Idle => work.event \in Events
    /\ Len(queue) \in Nat /\ \A i \in 1..Len(queue) : queue[i] \in Events /\ queue[i] \in Nat
    /\ \A e \in Events : e \in Nat /\ 1 <= e /\ counted[e] \in Nat
    /\ \A e \in 1..made : e \in Events

(* The types imply their plain form ...                                    *)
LEMMA PlainNow == Typed => Plain
  <1> SUFFICES ASSUME Typed PROVE Plain
    OBVIOUS
  <1> USE Bounds
  <1>1. made \in Nat /\ \A e \in 1..made : e \in Events
    BY DEF Typed, TypeBridge, Events
  <1>2. work.event \in Nat /\ (work = Idle <=> work.event = 0) /\ (work # Idle => work.event \in Events)
    BY IdleType DEF Typed, TypeBridge, Works, Hand, Events, None
  <1>3. Len(queue) \in Nat /\ \A i \in 1..Len(queue) : queue[i] \in Events /\ queue[i] \in Nat
    BY DEF Typed, TypeBridge, Events
  <1>4. \A e \in Events : e \in Nat /\ 1 <= e /\ counted[e] \in Nat
    BY DEF Typed, TypeCounters, Events
  <1> QED BY <1>1, <1>2, <1>3, <1>4 DEF Plain

(* ... in the next state too.                                              *)
LEMMA PlainNext == Typed' => Plain'
  <1> SUFFICES ASSUME Typed' PROVE Plain'
    OBVIOUS
  <1> USE Bounds
  <1>1. made' \in Nat /\ \A e \in 1..made' : e \in Events
    BY DEF Typed, TypeBridge, Events
  <1>2. work'.event \in Nat /\ (work' = Idle <=> work'.event = 0) /\ (work' # Idle => work'.event \in Events)
    BY IdleType DEF Typed, TypeBridge, Works, Hand, Events, None
  <1>3. Len(queue') \in Nat /\ \A i \in 1..Len(queue') : queue'[i] \in Events /\ queue'[i] \in Nat
    BY DEF Typed, TypeBridge, Events
  <1>4. \A e \in Events : e \in Nat /\ 1 <= e /\ counted'[e] \in Nat
    BY DEF Typed, TypeCounters, Events
  <1> QED BY <1>1, <1>2, <1>3, <1>4 DEF Plain

-----------------------------------------------------------------------------
(* The steps of Next, as the books of the bridge see them.                 *)

(* The events stay where they are.                                         *)
Advance ==
    /\ UNCHANGED <<made, queue, outcome, counted, unfinished>>
    /\ work'.event = work.event /\ (work = Idle => work' = Idle)
    /\ \/ UNCHANGED closing
       \/ closing = "open" /\ closing' = "joining"
       \/ closing = "joining" /\ unfinished = 0 /\ closing' = "gates"

(* The worker is done with the event in hand.                              *)
Settle(o) == Running /\ work # Idle /\ Done(o)

(* close() runs into its deadline with a gate forward under way.           *)
Overrun ==
    /\ closing = "joining" /\ closing' = "overdue"
    /\ Count(Queued, "dropped_queue_full")
    /\ UNCHANGED <<made, queue, unfinished, work>>

(* close() ends.                                                           *)
Stop(E) ==
    /\ \/ closing = "joining" /\ unfinished = 0 /\ E = {}
       \/ closing = "joining" /\ E = Queued
       \/ closing \in {"gates", "overdue"} /\ E = {}
    /\ CancelWorker(E)

(* What a step does to the events, as far as the ledger can tell.          *)
Shapes ==
    \/ Advance \/ \E o \in Outcomes : Settle(o)
    \/ ForwardRefused \/ ForwardPut \/ ForwardDropsOldest \/ Take \/ Discard
    \/ Overrun \/ \E E : Stop(E)

(* Every step has one of these shapes.                                     *)
LEMMA NextHasShape == Typed /\ [Next]_vars => Shapes
  <1> SUFFICES ASSUME Typed, [Next]_vars PROVE Shapes
    OBVIOUS
  <1>1. CASE Accepted \/ Conflict \/ GiveUp \/ Rejected
    <2>1. \E o \in Outcomes : Settle(o)
      BY <1>1 DEF Accepted, Conflict, GiveUp, Rejected, Posting, Settle, Outcomes
    <2> QED BY <2>1 DEF Shapes
  <1>2. CASE Heal \/ Busy \/ NoAnswer
    <2>1. work \in Works /\ work # Idle
      BY <1>2 DEF Typed, TypeBridge, Heal, Busy, NoAnswer, Posting
    <2>2. work'.event = work.event
      BY <1>2, <2>1 DEF Heal, Busy, NoAnswer, Retry, Works
    <2> QED BY <1>2, <2>1, <2>2 DEF Shapes, Advance, Heal, Busy, NoAnswer, Retry, bridge
  <1>3. CASE CloseStart \/ GateRejected \/ OtherWrites \/ Arrive \/ UNCHANGED vars
    BY <1>3 DEF Shapes, Advance, CloseStart, GateRejected, OtherWrites, Arrive, vars, bridge
  <1>4. CASE Joined
    <2>1. CASE CancelWorker({})
      <3>1. Stop({})
        BY <1>4, <2>1 DEF Joined, Stop
      <3> QED BY <3>1 DEF Shapes
    <2>2. CASE ~CancelWorker({})
      BY <1>4, <2>2 DEF Joined, Shapes, Advance
    <2> QED BY <2>1, <2>2
  <1>5. CASE JoinTimesOut
    <2>1. CASE CancelWorker(Queued)
      <3>1. Stop(Queued)
        BY <1>5, <2>1 DEF JoinTimesOut, Stop
      <3> QED BY <3>1 DEF Shapes
    <2>2. CASE ~CancelWorker(Queued)
      BY <1>5, <2>2 DEF JoinTimesOut, Shapes, Overrun
    <2> QED BY <2>1, <2>2
  <1>6. CASE GatesDone
    <2>1. Stop({})
      BY <1>6 DEF GatesDone, Stop
    <2> QED BY <2>1 DEF Shapes
  <1> QED BY <1>1, <1>2, <1>3, <1>4, <1>5, <1>6 DEF Next, Forward, Worker, Close, Shapes

(* A sequence of events is one of numbers.                                 *)
LEMMA SeqOfNat == ASSUME NEW q \in Seq(Events) PROVE q \in Seq(Nat)
  <1>1. Len(q) \in Nat /\ q \in [1..Len(q) -> Events]
    OBVIOUS
  <1>2. q \in [1..Len(q) -> Nat]
    BY <1>1, Bounds DEF Events
  <1> QED BY <1>1, <1>2

(* Taking the oldest event leaves events newer than it.                    *)
LEMMA SortedTail ==
    ASSUME NEW q \in Seq(Nat), q # <<>>, NEW lo \in Nat, NEW hi \in Nat, Sorted(q, lo, hi)
    PROVE  lo < q[1] /\ q[1] <= hi /\ Sorted(Tail(q), q[1], hi)
  <1>1. Len(q) \in Nat \ {0} /\ Len(Tail(q)) = Len(q) - 1 /\ 1 \in 1..Len(q)
    OBVIOUS
  <1>2. \A i \in 1..Len(Tail(q)) : i + 1 \in 1..Len(q) /\ Tail(q)[i] = q[i + 1] /\ q[i + 1] \in Nat
    OBVIOUS
  <1>3. lo < q[1] /\ q[1] <= hi
    BY <1>1 DEF Sorted
  <1>4. ASSUME NEW i \in 1..Len(Tail(q)) PROVE q[1] < Tail(q)[i] /\ Tail(q)[i] <= hi
    <2>1. i + 1 \in 1..Len(q) /\ Tail(q)[i] = q[i + 1] /\ 1 < i + 1
      BY <1>1, <1>2
    <2> QED BY <2>1, <1>1 DEF Sorted
  <1>5. ASSUME NEW i \in 1..Len(Tail(q)), NEW j \in 1..Len(Tail(q)), i < j
        PROVE  Tail(q)[i] < Tail(q)[j]
    <2>1. /\ i + 1 \in 1..Len(q) /\ Tail(q)[i] = q[i + 1]
          /\ j + 1 \in 1..Len(q) /\ Tail(q)[j] = q[j + 1] /\ i + 1 < j + 1
      BY <1>1, <1>2, <1>5
    <2> QED BY <2>1 DEF Sorted
  <1> QED BY <1>3, <1>4, <1>5 DEF Sorted

(* A new event may follow them.                                            *)
LEMMA SortedAppend ==
    ASSUME NEW q \in Seq(Nat), NEW lo \in Nat, NEW hi \in Nat, lo <= hi, Sorted(q, lo, hi)
    PROVE  Sorted(Append(q, hi + 1), lo, hi + 1)
  <1>1. Len(q) \in Nat /\ \A i \in 1..Len(q) : q[i] \in Nat
    OBVIOUS
  <1>2. \A i \in 1..Len(Append(q, hi + 1)) :
            \/ i \in 1..Len(q) /\ Append(q, hi + 1)[i] = q[i]
            \/ i = Len(q) + 1 /\ Append(q, hi + 1)[i] = hi + 1
    OBVIOUS
  <1> QED BY <1>1, <1>2 DEF Sorted

(* The bounds may be loosened.                                             *)
LEMMA SortedLoose ==
    ASSUME NEW q \in Seq(Nat), NEW lo \in Nat, NEW hi \in Nat, NEW lo2 \in Nat, NEW hi2 \in Nat,
           Sorted(q, lo, hi), lo2 <= lo, hi <= hi2
    PROVE  Sorted(q, lo2, hi2)
  <1>1. \A i \in 1..Len(q) : q[i] \in Nat
    OBVIOUS
  <1> QED BY <1>1 DEF Sorted

(* Every step keeps the ledger.                                            *)
LEMMA LedgerStep ==
    ASSUME Typed, Typed', Plain, Plain', Ledger, Shapes
    PROVE  Ledger'
  <1> USE DEF Ledger
  <1>q. queue \in Seq(Events) /\ made \in 0..MaxEvents /\ TypeCounters
        /\ closing \in {"open", "joining", "gates", "overdue", "closed", "overran"}
        /\ unfinished = Len(queue) + (IF work.event = 0 THEN 0 ELSE 1)
    BY DEF Typed, TypeBridge, Books, None
  <1>n. queue \in Seq(Nat) /\ Sorted(queue, work.event, made) /\ work.event <= made
    BY <1>q, SeqOfNat DEF Ascending
  <1>m. queue' \in Seq(Nat)
    BY SeqOfNat DEF Typed, TypeBridge
  <1>o. "dropped_queue_full" \in Outcomes
    BY DEF Outcomes
  <1>1. CASE Advance
    <2>1. UNCHANGED <<made, queue, counted>> /\ work'.event = work.event
          /\ (work = Idle <=> work' = Idle)
      BY <1>1 DEF Advance, Plain
    <2>2. Ascending'
      BY <2>1 DEF Ascending
    <2>3. Quiet'
      <3>1. closing = "joining" /\ unfinished = 0 => queue = <<>> /\ work = Idle
        BY <1>q DEF Plain
      <3> QED BY <1>1, <2>1, <3>1 DEF Advance, Quiet, Running
    <2>4. Uncounted'
      <3>1. closing = "gates" \/ closing' = "gates" => Len(queue) = 0
        BY <1>1, <1>q DEF Advance, Quiet, Plain
      <3> QED BY <1>1, <2>1, <3>1 DEF Advance, Uncounted
    <2>5. CountsOnce' /\ Kept'
      BY <1>1, <2>1 DEF Advance, CountsOnce, Kept, Running
    <2> QED BY <2>2, <2>3, <2>4, <2>5
  <1>2. ASSUME NEW o \in Outcomes, Settle(o) PROVE Ledger'
    <2>1. /\ work # Idle /\ work' = Idle /\ UNCHANGED <<made, queue, closing>>
          /\ Count({work.event}, o) /\ Running
      BY <1>2 DEF Settle, Done
    <2>2. \A e \in Events : counted'[e] = IF e = work.event THEN counted[e] + 1 ELSE counted[e]
      BY <2>1, <1>q, CountFacts
    <2>3. Ascending'
      BY <2>1, <1>n, SortedLoose DEF Ascending, Plain
    <2>4. Quiet'
      BY <2>1 DEF Quiet, Running
    <2>5. Uncounted'
      <3>1. \A e \in Events : made' < e => counted'[e] = 0
        BY <2>1, <2>2 DEF Uncounted, Ascending, Sorted, Plain
      <3>2. closing' \in {"open", "joining"} =>
               /\ work' # Idle => counted'[work'.event] = 0
               /\ \A i \in 1..Len(queue') : counted'[queue'[i]] = 0
        BY <2>1, <2>2 DEF Uncounted, Ascending, Sorted, Plain
      <3>3. closing' = "overdue" => \A i \in 1..Len(queue') : counted'[queue'[i]] > 0
        BY <2>1, <2>2 DEF Uncounted, Ascending, Sorted, Plain
      <3> QED BY <3>1, <3>2, <3>3 DEF Uncounted
    <2>6. CountsOnce'
      BY <2>1, <2>2, <1>q DEF CountsOnce, Uncounted, Quiet, Running, Plain
    <2>7. Kept'
      BY <2>1, <2>2 DEF Kept, Running, Plain
    <2> QED BY <2>3, <2>4, <2>5, <2>6, <2>7
  <1>3. CASE ForwardRefused
    <2>1. made' = made + 1 /\ UNCHANGED <<queue, work, closing>>
      BY <1>3 DEF ForwardRefused
    <2>2. \A e \in Events : counted'[e] = IF e = made + 1 THEN counted[e] + 1 ELSE counted[e]
      BY <1>3, <1>q, <1>o, CountFacts DEF ForwardRefused
    <2>3. Ascending' /\ Quiet'
      BY <2>1, <1>n, SortedLoose DEF Ascending, Quiet, Running, Plain
    <2>4. Uncounted'
      <3>1. \A e \in Events : made' < e => counted'[e] = 0
        BY <2>1, <2>2 DEF Uncounted, Ascending, Sorted, Plain
      <3>2. closing' \in {"open", "joining"} =>
               /\ work' # Idle => counted'[work'.event] = 0
               /\ \A i \in 1..Len(queue') : counted'[queue'[i]] = 0
        BY <2>1, <2>2 DEF Uncounted, Ascending, Sorted, Plain
      <3>3. closing' = "overdue" => \A i \in 1..Len(queue') : counted'[queue'[i]] > 0
        BY <2>1, <2>2 DEF Uncounted, Ascending, Sorted, Plain
      <3> QED BY <3>1, <3>2, <3>3 DEF Uncounted
    <2>5. CountsOnce'
      BY <2>1, <2>2 DEF CountsOnce, Uncounted, Plain
    <2>6. Kept'
      BY <2>1, <2>2 DEF Kept, Running, Plain
    <2> QED BY <2>3, <2>4, <2>5, <2>6
  <1>4. CASE ForwardPut
    <2>1. made' = made + 1 /\ UNCHANGED <<counted, work, closing>> /\ closing = "open"
      BY <1>4 DEF ForwardPut
    <2>2. /\ Len(queue') = Len(queue) + 1 /\ queue'[Len(queue) + 1] = made + 1
          /\ \A i \in 1..Len(queue) : queue'[i] = queue[i]
      BY <1>4, <1>q, NextEvent, AppendFacts DEF ForwardPut
    <2>a. \A i \in 1..Len(queue') : \/ i \in 1..Len(queue) /\ queue'[i] = queue[i]
                                    \/ i = Len(queue) + 1 /\ queue'[i] = made + 1
      BY <2>2 DEF Plain
    <2>3. Ascending'
      BY <1>4, <2>1, <1>n, SortedAppend DEF ForwardPut, Ascending, Plain
    <2>4. Quiet' /\ CountsOnce'
      BY <2>1 DEF Quiet, Running, CountsOnce
    <2>5. Uncounted'
      <3>1. \A e \in Events : made' < e => counted'[e] = 0
        BY <2>1, <2>a DEF Uncounted, Ascending, Plain
      <3>2. closing' \in {"open", "joining"} =>
               /\ work' # Idle => counted'[work'.event] = 0
               /\ \A i \in 1..Len(queue') : counted'[queue'[i]] = 0
        BY <2>1, <2>a DEF Uncounted, Ascending, Plain
      <3>3. closing' = "overdue" => \A i \in 1..Len(queue') : counted'[queue'[i]] > 0
        BY <2>1, <2>a DEF Uncounted, Ascending, Plain
      <3> QED BY <3>1, <3>2, <3>3 DEF Uncounted
    <2>6. Kept'
      <3> SUFFICES ASSUME NEW e \in 1..made', counted'[e] = 0, work'.event # e
                   PROVE  \E i \in 1..Len(queue') : queue'[i] = e
        BY <2>1 DEF Kept, Running, Plain
      <3>1. CASE e = made + 1
        BY <3>1, <2>2 DEF Plain
      <3>2. CASE e # made + 1
        <4>1. e \in 1..made
          BY <3>2, <2>1 DEF Plain
        <4>2. PICK i \in 1..Len(queue) : queue[i] = e
          BY <4>1, <2>1 DEF Kept, Plain
        <4> QED BY <4>2, <2>2 DEF Plain
      <3> QED BY <3>1, <3>2
    <2> QED BY <2>3, <2>4, <2>5, <2>6
  <1>5. CASE ForwardDropsOldest
    <2>1. made' = made + 1 /\ UNCHANGED <<work, closing>> /\ closing = "open" /\ Len(queue) > 0
      BY <1>5, Bounds DEF ForwardDropsOldest
    <2>2. /\ Len(queue') = Len(queue) /\ queue'[Len(queue)] = made + 1
          /\ \A i \in 1..Len(queue) - 1 : queue'[i] = queue[i + 1]
          /\ Head(queue) = queue[1]
      <3>1. queue # <<>>
        BY <2>1
      <3>2. /\ Tail(queue) \in Seq(Events) /\ Len(Tail(queue)) = Len(queue) - 1
            /\ \A i \in 1..Len(queue) - 1 : Tail(queue)[i] = queue[i + 1]
            /\ Head(queue) = queue[1]
        BY <3>1, <1>q, TailFacts
      <3>3. /\ Len(queue') = Len(Tail(queue)) + 1 /\ queue'[Len(Tail(queue)) + 1] = made + 1
            /\ \A i \in 1..Len(Tail(queue)) : queue'[i] = Tail(queue)[i]
        BY <3>2, <1>5, <1>q, NextEvent, AppendFacts DEF ForwardDropsOldest
      <3> QED BY <3>2, <3>3 DEF Plain
    <2>a. \A i \in 1..Len(queue') : \/ i + 1 \in 1..Len(queue) /\ queue'[i] = queue[i + 1]
                                    \/ i = Len(queue) /\ queue'[i] = made + 1
      BY <2>2 DEF Plain
    <2>b. /\ work.event < queue[1] /\ queue[1] <= made /\ Sorted(Tail(queue), queue[1], made)
          /\ Tail(queue) \in Seq(Nat) /\ queue[1] \in Events /\ queue[1] \in Nat
      BY <2>1, <1>n, SortedTail DEF Plain
    <2>c. Sorted(queue', queue[1], made + 1)
      BY <1>5, <2>b, SortedAppend DEF ForwardDropsOldest, Plain
    <2>3. \A e \in Events : counted'[e] = IF e = queue[1] THEN counted[e] + 1 ELSE counted[e]
      BY <1>5, <2>2, <1>q, <1>o, CountFacts DEF ForwardDropsOldest
    <2>4. Ascending'
      BY <2>1, <2>b, <2>c, SortedLoose, <1>m, <1>n DEF Ascending, Plain
    <2>5. Quiet'
      BY <2>1 DEF Quiet, Running
    <2>d. \A i \in 1..Len(queue') : queue'[i] # queue[1] /\ queue'[i] \in Events
      BY <2>b, <2>c DEF Sorted, Plain
    <2>e. \A i \in 1..Len(queue') : counted'[queue'[i]] = counted[queue'[i]]
      BY <2>d, <2>3
    <2>6. Uncounted'
      <3>1. \A e \in Events : made + 1 < e => counted'[e] = counted[e] /\ made < e
        BY <2>b, <2>3 DEF Plain
      <3>2. made + 1 \in Events /\ counted[made + 1] = 0
        BY <1>5, <1>q, NextEvent DEF ForwardDropsOldest, Uncounted, Plain
      <3>3. \A i \in 1..Len(queue') : counted'[queue'[i]] = 0
        BY <2>1, <2>a, <2>e, <3>2 DEF Uncounted
      <3>4. work # Idle => counted'[work.event] = 0
        BY <2>1, <2>b, <2>3 DEF Uncounted, Plain
      <3> QED BY <2>1, <3>1, <3>3, <3>4 DEF Uncounted
    <2>7. CountsOnce'
      BY <2>1, <2>3 DEF CountsOnce, Uncounted, Plain
    <2>8. Kept'
      <3> SUFFICES ASSUME NEW e \in 1..made', counted'[e] = 0, work'.event # e
                   PROVE  \E i \in 1..Len(queue') : queue'[i] = e
        BY <2>1 DEF Kept, Running, Plain
      <3>1. CASE e = made + 1
        BY <3>1, <2>1, <2>2 DEF Plain
      <3>2. CASE e # made + 1
        <4>1. e \in 1..made
          BY <3>2, <2>1 DEF Plain
        <4>2. PICK i \in 1..Len(queue) : queue[i] = e
          BY <4>1, <2>1, <2>3 DEF Kept, Plain
        <4>3. i # 1
          BY <4>1, <4>2, <2>3 DEF Plain
        <4>4. i - 1 \in 1..Len(queue) - 1 /\ queue'[i - 1] = e
          BY <4>2, <4>3, <2>2 DEF Plain
        <4> QED BY <4>4, <2>2 DEF Plain
      <3> QED BY <3>1, <3>2
    <2> QED BY <2>4, <2>5, <2>6, <2>7, <2>8
  <1>6. CASE Take
    <2>1. UNCHANGED <<made, closing, counted>> /\ work = Idle /\ Running /\ queue # <<>>
      BY <1>6 DEF Take
    <2>2. /\ Len(queue') = Len(queue) - 1 /\ Len(queue) > 0
          /\ \A i \in 1..Len(queue) - 1 : queue'[i] = queue[i + 1]
          /\ work'.event = queue[1]
      BY <1>6, <2>1, <1>q, TailFacts DEF Take
    <2>a. \A i \in 1..Len(queue') : i + 1 \in 1..Len(queue) /\ queue'[i] = queue[i + 1]
      BY <2>2 DEF Plain
    <2>b. /\ work.event < queue[1] /\ queue[1] <= made /\ Sorted(Tail(queue), queue[1], made)
          /\ Tail(queue) \in Seq(Nat) /\ queue[1] \in Events /\ queue[1] \in Nat
      BY <2>1, <1>n, SortedTail DEF Plain
    <2>c. Sorted(queue', queue[1], made)
      BY <1>6, <2>b DEF Take
    <2>3. Ascending'
      BY <2>1, <2>2, <2>b, <2>c DEF Ascending
    <2>4. Quiet'
      BY <2>1 DEF Quiet, Running
    <2>5. Uncounted'
      <3>1. closing \in {"open", "joining"} =>
               counted[queue[1]] = 0 /\ \A i \in 1..Len(queue') : counted[queue'[i]] = 0
        <4>1. 1 \in 1..Len(queue)
          BY <2>2 DEF Plain
        <4>2. closing \in {"open", "joining"} => counted[queue[1]] = 0
          BY <4>1 DEF Uncounted
        <4>3. closing \in {"open", "joining"} => \A i \in 1..Len(queue') : counted[queue'[i]] = 0
          BY <2>a DEF Uncounted
        <4> QED BY <4>2, <4>3
      <3>2. closing = "overdue" => \A i \in 1..Len(queue') : counted[queue'[i]] > 0
        BY <2>a DEF Uncounted
      <3> QED BY <2>1, <2>2, <3>1, <3>2 DEF Uncounted
    <2>6. CountsOnce'
      BY <2>1 DEF CountsOnce
    <2>7. Kept'
      <3> SUFFICES ASSUME NEW e \in 1..made', counted'[e] = 0, work'.event # e
                   PROVE  \E i \in 1..Len(queue') : queue'[i] = e
        BY <2>1 DEF Kept, Running, Plain
      <3>1. PICK i \in 1..Len(queue) : queue[i] = e
        BY <2>1 DEF Kept, Plain
      <3>a. i # 1
        BY <3>1, <2>2
      <3>2. i - 1 \in 1..Len(queue) - 1 /\ queue'[i - 1] = e
        BY <3>1, <3>a, <2>2 DEF Plain
      <3> QED BY <3>2, <2>2 DEF Plain
    <2> QED BY <2>3, <2>4, <2>5, <2>6, <2>7
  <1>7. CASE Discard
    <2>1. UNCHANGED <<made, closing, work>> /\ work = Idle /\ Running /\ queue # <<>>
      BY <1>7 DEF Discard
    <2>2. /\ Len(queue') = Len(queue) - 1 /\ Len(queue) > 0
          /\ \A i \in 1..Len(queue) - 1 : queue'[i] = queue[i + 1]
          /\ Head(queue) = queue[1]
      BY <1>7, <2>1, <1>q, TailFacts DEF Discard
    <2>a. \A i \in 1..Len(queue') : i + 1 \in 1..Len(queue) /\ queue'[i] = queue[i + 1]
      BY <2>2 DEF Plain
    <2>b. /\ work.event < queue[1] /\ queue[1] <= made /\ Sorted(Tail(queue), queue[1], made)
          /\ Tail(queue) \in Seq(Nat) /\ queue[1] \in Events /\ queue[1] \in Nat
      BY <2>1, <1>n, SortedTail DEF Plain
    <2>c. Sorted(queue', queue[1], made)
      BY <1>7, <2>b DEF Discard
    <2>3. \A e \in Events : counted'[e] = IF e = queue[1] THEN counted[e] + 1 ELSE counted[e]
      <3>1. Count({queue[1]}, "dropped_queue_full")
        BY <1>7, <2>2 DEF Discard
      <3> QED BY <3>1, <1>q, <1>o, CountFacts
    <2>4. Ascending'
      BY <2>1, <2>b, <2>c, SortedLoose, <1>m, <1>n DEF Ascending, Plain
    <2>5. Quiet'
      BY <2>1 DEF Quiet, Running
    <2>d. \A i \in 1..Len(queue') : queue'[i] # queue[1] /\ queue'[i] \in Events
      BY <2>b, <2>c DEF Sorted, Plain
    <2>e. \A i \in 1..Len(queue') : counted'[queue'[i]] = counted[queue'[i]]
      BY <2>d, <2>3
    <2>6. Uncounted'
      <3>1. \A e \in Events : made < e => counted'[e] = counted[e]
        BY <2>b, <2>3 DEF Plain
      <3>2. closing \in {"open", "joining"} => \A i \in 1..Len(queue') : counted'[queue'[i]] = 0
        BY <2>a, <2>e DEF Uncounted
      <3>3. closing = "overdue" => \A i \in 1..Len(queue') : counted'[queue'[i]] > 0
        BY <2>a, <2>e DEF Uncounted
      <3> QED BY <2>1, <3>1, <3>2, <3>3 DEF Uncounted
    <2>7. CountsOnce'
      <3>1. closing \in {"open", "joining"} => counted[queue[1]] = 0
        BY <2>2 DEF Uncounted, Plain
      <3>2. closing # "gates"
        BY <2>1 DEF Quiet
      <3> QED BY <2>1, <2>3, <3>1, <3>2, <1>q DEF CountsOnce, Running, Plain
    <2>8. Kept'
      <3> SUFFICES ASSUME NEW e \in 1..made', counted'[e] = 0, work'.event # e
                   PROVE  \E i \in 1..Len(queue') : queue'[i] = e
        BY <2>1 DEF Kept, Running, Plain
      <3>1. e \in Events /\ counted[e] = 0 /\ e # queue[1]
        BY <2>1, <2>3 DEF Plain
      <3>2. PICK i \in 1..Len(queue) : queue[i] = e
        BY <2>1, <3>1 DEF Kept, Plain
      <3>3. i - 1 \in 1..Len(queue) - 1 /\ queue'[i - 1] = e
        BY <3>1, <3>2, <2>2 DEF Plain
      <3> QED BY <3>3, <2>2 DEF Plain
    <2> QED BY <2>4, <2>5, <2>6, <2>7, <2>8
  <1>8. CASE Overrun
    <2>1. UNCHANGED <<made, queue, work>> /\ closing = "joining" /\ closing' = "overdue"
      BY <1>8 DEF Overrun
    <2>2. \A e \in Events : counted'[e] = IF e \in Queued THEN counted[e] + 1 ELSE counted[e]
      BY <1>8, <1>q, <1>o, CountFacts DEF Overrun
    <2>3. \A i \in 1..Len(queue) : queue[i] \in Queued
      BY <1>q DEF Queued
    <2>4. \A e \in Queued : \E i \in 1..Len(queue) : queue[i] = e
      BY <1>q DEF Queued
    <2>5. Ascending' /\ Quiet' /\ CountsOnce'
      BY <2>1 DEF Ascending, Quiet, Running, CountsOnce
    <2>6. Uncounted'
      BY <2>1, <2>2, <2>3, <2>4 DEF Uncounted, Ascending, Sorted, Plain
    <2>7. Kept'
      BY <2>1, <2>2 DEF Kept, Running, Plain
    <2> QED BY <2>5, <2>6, <2>7
  <1>9. ASSUME NEW E, Stop(E) PROVE Ledger'
    <2>1. UNCHANGED <<made, queue>> /\ work' = Idle /\ closing' \in {"closed", "overran"}
          /\ (closing' = "closed" => closing # "overdue")
          /\ closing \in {"joining", "gates", "overdue"}
      BY <1>9 DEF Stop, CancelWorker
    <2>2. \A e \in Events : counted'[e] = IF e \in E \cup ({work.event} \ {0}) THEN counted[e] + 1
                                          ELSE counted[e]
      BY <1>9, <1>q, <1>o, CountFacts DEF Stop, CancelWorker, None
    <2>3. \A i \in 1..Len(queue) : queue[i] \in Queued
      BY <1>q DEF Queued
    <2>4. \A e \in Queued : \E i \in 1..Len(queue) : queue[i] = e
      BY <1>q DEF Queued
    <2>5. E = {} \/ (closing = "joining" /\ E = Queued)
      BY <1>9 DEF Stop
    <2>6. \/ Len(queue) = 0 \/ E = Queued \/ closing = "overdue"
      BY <1>9, <1>q DEF Stop, Quiet, Plain
    <2>7. Ascending'
      BY <2>1, IdleType, <1>n, SortedLoose DEF Ascending, Plain, None
    <2>8. Quiet'
      BY <2>1 DEF Quiet
    <2>9. Uncounted'
      BY <2>1, <2>2, <2>4, <2>5 DEF Uncounted, Ascending, Sorted, Plain
    <2>10. CountsOnce'
      BY <2>1, <2>2, <2>4, <2>5 DEF CountsOnce, Uncounted, Quiet, Plain
    <2>11. Kept'
      BY <2>1, <2>2, <2>3, <2>6 DEF Kept, Uncounted, Running, Plain
    <2> QED BY <2>7, <2>8, <2>9, <2>10, <2>11
  <1> QED BY <1>1, <1>2, <1>3, <1>4, <1>5, <1>6, <1>7, <1>8, <1>9 DEF Shapes

(* The ledger holds in every reachable state.                              *)
LEMMA LedgerInvariant == Spec => [](Typed /\ Ledger)
  <1>1. Init /\ Typed => Ledger
    BY Bounds, IdleType
    DEF Init, Ledger, Ascending, Sorted, Quiet, Uncounted, CountsOnce, Kept, Running, Events, None
  <1>2. Typed /\ Typed' /\ Ledger /\ [Next]_vars => Ledger'
    BY PlainNow, PlainNext, NextHasShape, LedgerStep
  <1> QED BY <1>1, <1>2, TypedInvariant, PTL DEF Spec

(* The hand holds one event or none.                                       *)
LEMMA HandSize ==
    ASSUME NEW e
    PROVE  Cardinality({e} \ {None}) = IF e = None THEN 0 ELSE 1
  <1>1. CASE e = None
    <2>1. {e} \ {None} = {}
      BY <1>1
    <2> QED BY <1>1, <2>1, FS_EmptySet
  <1>2. CASE e # None
    <2>1. {e} \ {None} = {e}
      BY <1>2
    <2> QED BY <1>2, <2>1, FS_Singleton
  <1> QED BY <1>1, <1>2

(* The books of the bridge balance, for every queue size, retry limit and  *)
(* number of events, under every answer of the platform and at every       *)
(* moment of close(): no event is counted twice (but for the overrun of    *)
(* close()), none disappears, and join() waits for exactly what is left.   *)
THEOREM BooksBalance == Spec => []Accounted
  <1>1. Typed /\ Ledger => Accounted
    <2> SUFFICES ASSUME Typed, Ledger PROVE Accounted
      OBVIOUS
    <2>1. TypeOK
      BY TypeParts DEF Typed
    <2>2. \A e \in Events : counted[e] <= 1 \/ closing \in {"overdue", "overran"}
      BY DEF Ledger, CountsOnce
    <2>3. DOMAIN queue = 1..Len(queue)
      BY DEF Typed, TypeBridge
    <2>4. \A e \in 1..made :
             \/ counted[e] > 0 \/ work.event = e
             \/ Running /\ \E i \in DOMAIN queue : queue[i] = e
      BY <2>3 DEF Ledger, Kept
    <2>5. unfinished = Len(queue) + Cardinality({work.event} \ {None})
      BY HandSize DEF Typed, Books
    <2> QED BY <2>1, <2>2, <2>4, <2>5, Zenon DEF Accounted
  <1> QED BY <1>1, LedgerInvariant, PTL

-----------------------------------------------------------------------------
(* What Next does to the outcomes and to the platform's events.            *)

(* Only an accepted post, a conflict or a drop settles an outcome.         *)
LEMMA OutcomeStep ==
    ASSUME [Next]_vars
    PROVE  \/ UNCHANGED outcome \/ Accepted \/ Conflict
           \/ \E E, o : o \in {"dropped_queue_full", "dropped_4xx", "dropped_5xx"} /\ Count(E, o)
  <1>1. CASE ForwardRefused \/ ForwardDropsOldest \/ Discard
    BY <1>1 DEF ForwardRefused, ForwardDropsOldest, Discard
  <1>2. CASE GiveUp \/ Rejected
    BY <1>2 DEF GiveUp, Rejected, Done
  <1>3. CASE Joined \/ JoinTimesOut \/ GatesDone
    BY <1>3 DEF Joined, JoinTimesOut, GatesDone, CancelWorker
  <1>4. CASE ForwardPut \/ Take \/ CloseStart \/ GateRejected
    BY <1>4 DEF ForwardPut, Take, CloseStart, GateRejected
  <1>5. CASE Heal \/ Busy \/ NoAnswer \/ OtherWrites \/ Arrive \/ UNCHANGED vars
    BY <1>5 DEF Heal, Busy, NoAnswer, Retry, OtherWrites, Arrive, vars
  <1> QED BY <1>1, <1>2, <1>3, <1>4, <1>5 DEF Next, Forward, Worker, Close

(* The platform's events and the requests on their way: none new, the one  *)
(* in hand, or one that was on its way.                                    *)
LEMMA PlatformStep ==
    ASSUME Typed, [Next]_vars
    PROVE  /\ \/ UNCHANGED stored
              \/ work # Idle /\ stored' = Append(stored, work.event)
              \/ \E r \in late : stored' = Append(stored, r[1])
           /\ \A r \in late' : r \in late \/ (work # Idle /\ r[1] = work.event)
  <1>1. CASE ForwardRefused \/ ForwardPut \/ ForwardDropsOldest \/ Take \/ Discard \/ CloseStart
             \/ GateRejected
    BY <1>1 DEF ForwardRefused, ForwardPut, ForwardDropsOldest, Take, Discard, CloseStart,
                GateRejected, platform
  <1>2. CASE Accepted \/ Conflict \/ GiveUp \/ Rejected
    BY <1>2 DEF Accepted, Conflict, GiveUp, Rejected, Posting, Handle, platform
  <1>3. CASE Joined \/ JoinTimesOut \/ GatesDone
    BY <1>3 DEF Joined, JoinTimesOut, GatesDone, CancelWorker, platform
  <1>4. CASE Heal \/ Busy \/ OtherWrites \/ UNCHANGED vars
    BY <1>4 DEF Heal, Busy, OtherWrites, vars, platform
  <1>5. CASE NoAnswer
    <2>1. CASE Handle(work.event, work.seq) /\ UNCHANGED late
      BY <1>5, <2>1 DEF NoAnswer, Posting, Handle, platform
    <2>2. CASE UNCHANGED platform /\ late' \subseteq late \cup {<<work.event, work.seq>>}
      BY <1>5, <2>2 DEF NoAnswer, Posting, platform
    <2> QED BY <1>5, <2>1, <2>2 DEF NoAnswer
  <1>6. CASE Arrive
    BY <1>6 DEF Arrive, platform
  <1> QED BY <1>1, <1>2, <1>3, <1>4, <1>5, <1>6 DEF Next, Forward, Worker, Close

(* The platform loses nothing and reorders nothing.                        *)
LEMMA StoredGrows ==
    ASSUME Typed, [Next]_vars
    PROVE  /\ Len(stored) \in Nat /\ Len(stored') \in Nat /\ Len(stored) <= Len(stored')
           /\ \A i \in 1..Len(stored) : stored'[i] = stored[i]
  <1>1. stored \in Seq(Events)
    BY DEF Typed, TypePlatform
  <1>2. CASE UNCHANGED stored
    BY <1>1, <1>2
  <1>3. CASE \E e \in Events : stored' = Append(stored, e)
    BY <1>1, <1>3, AppendFacts
  <1>4. work # Idle => work.event \in Events
    BY PlainNow DEF Plain
  <1>5. \A r \in late : r[1] \in Events
    BY DEF Typed, TypePlatform
  <1> QED BY <1>2, <1>3, <1>4, <1>5, PlatformStep

-----------------------------------------------------------------------------
(* What was posted stays in the past.                                      *)
LEMMA PastStays ==
    ASSUME Typed, Typed', Plain, Plain', Ledger, Shapes, NEW x \in Nat, Past(x)
    PROVE  Past(x)'
  <1>q. queue \in Seq(Events) /\ made \in 0..MaxEvents
    BY DEF Typed, TypeBridge
  <1>1. CASE Advance
    BY <1>1 DEF Advance, Past, Plain
  <1>2. CASE \E o \in Outcomes : Settle(o)
    BY <1>2 DEF Settle, Done, Past
  <1>3. CASE ForwardRefused
    BY <1>3 DEF ForwardRefused, Past, Plain
  <1>4. CASE ForwardPut
    <2>1. \A i \in 1..Len(queue') : \/ i \in 1..Len(queue) /\ queue'[i] = queue[i]
                                    \/ queue'[i] = made + 1
      BY <1>4, <1>q, NextEvent, AppendFacts DEF ForwardPut
    <2> QED BY <1>4, <2>1 DEF ForwardPut, Past, Plain
  <1>5. CASE ForwardDropsOldest
    <2>1. queue # <<>>
      BY <1>5, Bounds DEF ForwardDropsOldest
    <2>2. /\ Tail(queue) \in Seq(Events) /\ Len(Tail(queue)) = Len(queue) - 1
          /\ \A i \in 1..Len(queue) - 1 : Tail(queue)[i] = queue[i + 1]
      BY <2>1, <1>q, TailFacts
    <2>3. \A i \in 1..Len(queue') : \/ i + 1 \in 1..Len(queue) /\ queue'[i] = queue[i + 1]
                                    \/ queue'[i] = made + 1
      BY <1>5, <2>2, <1>q, NextEvent, AppendFacts DEF ForwardDropsOldest, Plain
    <2> QED BY <1>5, <2>3 DEF ForwardDropsOldest, Past, Plain
  <1>6. CASE Take \/ Discard
    <2>1. queue # <<>> /\ queue' = Tail(queue) /\ UNCHANGED made
      BY <1>6 DEF Take, Discard
    <2>2. \A i \in 1..Len(queue') : i + 1 \in 1..Len(queue) /\ queue'[i] = queue[i + 1]
      BY <2>1, <1>q, TailFacts DEF Plain
    <2>3. 1 \in 1..Len(queue) /\ (work'.event = queue[1] \/ UNCHANGED work)
      BY <1>6, <2>1, <1>q, TailFacts DEF Take, Discard
    <2>4. work' # Idle => x <= work'.event
      BY <2>3 DEF Past, Plain
    <2> QED BY <2>1, <2>2, <2>4 DEF Past
  <1>7. CASE Overrun
    BY <1>7 DEF Overrun, Past
  <1>8. CASE \E E : Stop(E)
    BY <1>8 DEF Stop, CancelWorker, Past
  <1> QED BY <1>1, <1>2, <1>3, <1>4, <1>5, <1>6, <1>7, <1>8 DEF Shapes

(* Every step keeps what was posted in order.                              *)
LEMMA PostedStep ==
    ASSUME Typed, Typed', Ledger, PostedInOrder, [Next]_vars
    PROVE  PostedInOrder'
  <1>1. Plain /\ Plain' /\ Shapes
    BY PlainNow, PlainNext, NextHasShape
  <1>2. \A x \in Nat : Past(x) => Past(x)'
    BY <1>1, PastStays
  <1>3. work # Idle => Past(work.event)
    BY <1>1 DEF Ledger, Ascending, Sorted, Past, Plain
  <1>4. /\ \A i \in 1..Len(stored) : stored[i] \in Nat /\ Past(stored[i])
        /\ \A r \in late : r[1] \in Nat /\ Past(r[1])
    BY Bounds DEF Typed, TypePlatform, PostedInOrder, Events
  <1>5. \A i \in 1..Len(stored') : stored'[i] \in Nat /\ Past(stored'[i])
    <2>1. stored \in Seq(Events) /\ work.event \in Nat /\ (work # Idle => work.event \in Events)
          /\ \A r \in late : r[1] \in Events
      BY <1>1 DEF Plain, Typed, TypePlatform
    <2>2. CASE UNCHANGED stored
      BY <2>2, <1>4
    <2>3. ASSUME NEW e \in Events, e \in Nat, Past(e), stored' = Append(stored, e)
          PROVE  \A i \in 1..Len(stored') : stored'[i] \in Nat /\ Past(stored'[i])
      <3>1. /\ Len(stored') = Len(stored) + 1 /\ stored'[Len(stored) + 1] = e /\ Len(stored) \in Nat
            /\ \A i \in 1..Len(stored) : stored'[i] = stored[i]
        BY <2>1, <2>3, AppendFacts
      <3> TAKE i \in 1..Len(stored')
      <3>2. CASE i = Len(stored) + 1
        BY <3>1, <3>2, <2>3
      <3>3. CASE i \in 1..Len(stored)
        BY <3>1, <3>3, <1>4
      <3> QED BY <3>1, <3>2, <3>3
    <2> QED BY <2>1, <2>2, <2>3, <1>3, <1>4, PlatformStep
  <1>6. \A r \in late' : r[1] \in Nat /\ Past(r[1])
    BY <1>1, <1>3, <1>4, PlatformStep DEF Plain
  <1> QED BY <1>2, <1>5, <1>6 DEF PostedInOrder

(* Every step keeps the events reported as sent in order.                  *)
LEMMA SentStep ==
    ASSUME Typed, Typed', PostedInOrder, SentInOrder, [Next]_vars
    PROVE  SentInOrder'
  <1> SUFFICES ASSUME NEW e \in Events, outcome'[e] = "sent"
               PROVE  \E j \in DOMAIN stored' : stored'[j] = e /\ \A i \in 1..j : stored'[i] <= e
    BY DEF SentInOrder
  <1>1. stored \in Seq(Events) /\ stored' \in Seq(Events)
    BY DEF Typed, TypePlatform
  <1>2. DOMAIN stored = 1..Len(stored) /\ DOMAIN stored' = 1..Len(stored')
    BY <1>1
  <1>3. CASE outcome[e] = "sent"
    <2>1. PICK j \in 1..Len(stored) : stored[j] = e /\ \A i \in 1..j : stored[i] <= e
      BY <1>2, <1>3 DEF SentInOrder
    <2>2. j \in 1..Len(stored') /\ \A i \in 1..j : i \in 1..Len(stored)
      BY <2>1, StoredGrows
    <2>3. stored'[j] = e /\ \A i \in 1..j : stored'[i] <= e
      BY <2>1, <2>2, StoredGrows
    <2> QED BY <1>2, <2>2, <2>3
  <1>4. CASE outcome[e] # "sent"
    <2>1. Accepted /\ e = work.event
      <3>1. outcome \in [Events -> Outcomes]
        BY DEF Typed, TypeCounters
      <3>2. ~UNCHANGED outcome
        BY <1>4
      <3>3. ASSUME NEW E, NEW o, o # "sent", Count(E, o) PROVE FALSE
        BY <1>4, <3>1, <3>3 DEF Count
      <3>4. ~Conflict
        BY <3>3 DEF Conflict, Done
      <3>5. Accepted
        BY <3>2, <3>3, <3>4, OutcomeStep
      <3>6. Count({work.event}, "sent")
        BY <3>5 DEF Accepted, Done
      <3> QED BY <1>4, <3>1, <3>5, <3>6 DEF Count
    <2>2. work # Idle /\ stored' = Append(stored, e)
      BY <2>1 DEF Accepted, Posting, Handle
    <2>3. \A i \in 1..Len(stored) : stored[i] <= e
      BY <2>1, <2>2 DEF PostedInOrder, Past
    <2>4. /\ Len(stored') = Len(stored) + 1 /\ stored'[Len(stored) + 1] = e /\ Len(stored) \in Nat
          /\ \A i \in 1..Len(stored) : stored'[i] = stored[i]
      BY <1>1, <2>2, AppendFacts
    <2>5. e <= e
      BY Bounds DEF Events
    <2>6. \A i \in 1..Len(stored) + 1 : stored'[i] <= e
      BY <2>3, <2>4, <2>5
    <2> QED BY <1>2, <2>4, <2>6
  <1> QED BY <1>3, <1>4

(* What is counted as sent is with the platform, behind no event that was  *)
(* forwarded after it: whatever was retried, dropped, healed or late.      *)
THEOREM SentStaysInOrder == Spec => []SentInOrder
  <1>1. Init => PostedInOrder /\ SentInOrder
    BY DEF Init, PostedInOrder, SentInOrder
  <1>2. Typed /\ Typed' /\ Ledger /\ PostedInOrder /\ SentInOrder /\ [Next]_vars
          => PostedInOrder' /\ SentInOrder'
    BY PostedStep, SentStep
  <1> QED BY <1>1, <1>2, LedgerInvariant, PTL DEF Spec

-----------------------------------------------------------------------------
(* An event the platform has, it keeps.                                    *)
LEMMA StoredStays ==
    ASSUME Typed, Typed', [Next]_vars, NEW e, InStored(e)
    PROVE  InStored(e)'
  <1>1. DOMAIN stored = 1..Len(stored) /\ DOMAIN stored' = 1..Len(stored')
    BY DEF Typed, TypePlatform
  <1>2. PICK i \in 1..Len(stored) : stored[i] = e
    BY <1>1 DEF InStored
  <1>3. i \in 1..Len(stored') /\ stored'[i] = e
    BY <1>2, StoredGrows
  <1> QED BY <1>1, <1>3 DEF InStored

(* Every step keeps the number of a healed attempt right.                  *)
LEMMA HealStep ==
    ASSUME Typed, Typed', HealHolds, [Next]_vars
    PROVE  HealHolds'
  <1>0. work \in Works /\ other \in Nat /\ expected \in Nat /\ stored \in Seq(Events)
        /\ ~Idle.healed
    BY DEF Typed, TypeBridge, TypePlatform, Idle
  <1>a. UNCHANGED <<work, platform>> => HealHolds'
    BY DEF HealHolds, platform, InStored
  <1>1. CASE ForwardRefused \/ ForwardPut \/ ForwardDropsOldest \/ Discard \/ CloseStart
             \/ GateRejected \/ UNCHANGED vars
    BY <1>1, <1>a DEF ForwardRefused, ForwardPut, ForwardDropsOldest, Discard, CloseStart,
                GateRejected, vars
  <1>2. CASE Take
    BY <1>2 DEF Take, HealHolds
  <1>3. CASE Accepted \/ Conflict \/ GiveUp \/ Rejected
    BY <1>0, <1>3 DEF Accepted, Conflict, GiveUp, Rejected, Done, HealHolds
  <1>4. CASE Joined \/ JoinTimesOut \/ GatesDone
    BY <1>0, <1>4, <1>a DEF Joined, JoinTimesOut, GatesDone, CancelWorker, HealHolds
  <1>5. CASE Heal
    BY <1>0, <1>5, HealedAttempt DEF Heal, Posting, HealHolds, platform
  <1>6. CASE Busy \/ NoAnswer
    <2>1. work'.event = work.event /\ work'.seq = work.seq /\ work'.healed = work.healed
      BY <1>0, <1>6, NextAttempt DEF Busy, NoAnswer, Posting, Retry
    <2>2. CASE UNCHANGED platform
      BY <2>1, <2>2 DEF HealHolds, InStored, platform
    <2>3. CASE stored' = Append(stored, work.event)
      <3>1. work # Idle /\ work.event \in Events
        BY <1>6, PlainNow DEF Plain, Busy, NoAnswer, Posting
      <3>2. Len(stored) + 1 \in DOMAIN stored' /\ stored'[Len(stored) + 1] = work.event
        BY <1>0, <2>3, <3>1
      <3>3. InStored(work.event)'
        BY <2>1, <3>2 DEF InStored
      <3> QED BY <2>1, <3>3 DEF HealHolds
    <2> QED BY <1>6, <2>2, <2>3 DEF Busy, NoAnswer, Handle
  <1>7. CASE OtherWrites \/ Arrive
    <2>1. UNCHANGED <<work, platform>> \/ other' = other + 1
      BY <1>7 DEF OtherWrites, Arrive
    <2> QED BY <1>0, <1>a, <2>1 DEF HealHolds
  <1> QED BY <1>1, <1>2, <1>3, <1>4, <1>5, <1>6, <1>7 DEF Next, Forward, Worker, Close

(* The count of numbers taken behind the worker's back never shrinks.      *)
LEMMA OtherGrows == ASSUME Typed, [Next]_vars, other > 0 PROVE other' > 0
  <1>0. other \in Nat
    BY DEF Typed, TypePlatform
  <1>1. CASE ForwardRefused \/ ForwardPut \/ ForwardDropsOldest \/ Take \/ Discard \/ CloseStart
             \/ GateRejected \/ Heal \/ Busy \/ UNCHANGED vars
    BY <1>1 DEF ForwardRefused, ForwardPut, ForwardDropsOldest, Take, Discard, CloseStart,
                GateRejected, Heal, Busy, platform, vars
  <1>2. CASE Accepted \/ Conflict \/ GiveUp \/ Rejected
    BY <1>2 DEF Accepted, Conflict, GiveUp, Rejected, Handle, platform
  <1>3. CASE Joined \/ JoinTimesOut \/ GatesDone
    BY <1>3 DEF Joined, JoinTimesOut, GatesDone, CancelWorker, platform
  <1>4. CASE NoAnswer
    BY <1>4 DEF NoAnswer, Handle, platform
  <1>5. CASE OtherWrites \/ Arrive
    BY <1>0, <1>5 DEF OtherWrites, Arrive, platform
  <1> QED BY <1>1, <1>2, <1>3, <1>4, <1>5 DEF Next, Forward, Worker, Close

(* Every step keeps events from being lost to a conflict.                  *)
LEMMA LostStep ==
    ASSUME Typed, Typed', HealHolds, NoneLostToSeq, [Next]_vars
    PROVE  NoneLostToSeq'
  <1> SUFFICES ASSUME NEW e \in Events, outcome'[e] = "dropped_seq_conflict"
               PROVE  InStored(e)' \/ other' > 0
    BY DEF NoneLostToSeq
  <1>1. InStored(e) \/ other > 0
    <2>1. CASE outcome[e] = "dropped_seq_conflict"
      BY <2>1 DEF NoneLostToSeq
    <2>2. CASE outcome[e] # "dropped_seq_conflict"
      <3>1. ASSUME NEW E, NEW o, o # "dropped_seq_conflict", Count(E, o) PROVE FALSE
        BY <2>2, <3>1 DEF Count, Typed, TypeCounters
      <3>2. ~Accepted /\ ~UNCHANGED outcome
        BY <2>2, <3>1 DEF Accepted, Done
      <3>3. Conflict
        BY <3>1, <3>2, OutcomeStep
      <3>4. e = work.event
        BY <2>2, <3>3 DEF Conflict, Done, Count, Typed, TypeCounters
      <3> QED BY <3>3, <3>4 DEF Conflict, HealHolds
    <2> QED BY <2>1, <2>2
  <1> QED BY <1>1, StoredStays, OtherGrows

(* The 409 self-heal loses no event to its sequence number unless a number *)
(* was taken behind the worker's back: for every history of the workflow.  *)
THEOREM NoEventLostToSeq == Spec => []NoneLostToSeq
  <1>1. Init => HealHolds /\ NoneLostToSeq
    BY DEF Init, Idle, HealHolds, NoneLostToSeq
  <1>2. Typed /\ Typed' /\ HealHolds /\ NoneLostToSeq /\ [Next]_vars
          => HealHolds' /\ NoneLostToSeq'
    BY HealStep, LostStep
  <1> QED BY <1>1, <1>2, TypedInvariant, PTL DEF Spec
=============================================================================
