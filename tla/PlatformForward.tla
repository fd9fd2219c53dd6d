--------------------------- MODULE PlatformForward ---------------------------
(***************************************************************************)
(* The audit bridge of PlatformClient: forward() puts committed events on  *)
(* a bounded queue that drops its oldest entry when full, one worker posts *)
(* them with a per-workflow sequence number, retries, and corrects its     *)
(* counter from the platform's 409 answer, and close() drains the queue    *)
(* against a deadline.                                                     *)
(*                                                                         *)
(* The platform is external: it stores an event once, under the next       *)
(* sequence number of the workflow, and answers 409 to anything else, with *)
(* the expected number (seq_out_of_order) or without (duplicate).          *)
(***************************************************************************)
EXTENDS Naturals, Sequences, FiniteSets

CONSTANTS
    MaxEvents,        \* bound on the events forwarded
    QueueSize,        \* max_queue_size
    MaxRetries,       \* max_retries
    Prior,            \* events the workflow has from earlier processes
    Faulty,           \* answers may be lost; the platform may answer 429 / 5xx
    Late,             \* a request given up on may still arrive
    Rejecting,        \* the platform may answer 4xx, 401 or 402
    MaxOther,         \* bound on the events of another writer of the workflow
    Closes,           \* close() is called
    GatePending       \* close() may find a gate forward still under way

ASSUME BridgeAssumption ==
    /\ {MaxEvents, MaxRetries, Prior, MaxOther} \subseteq Nat
    /\ QueueSize \in Nat \ {0}
    /\ {Faulty, Late, Rejecting, Closes, GatePending} \subseteq BOOLEAN

VARIABLES
    made,             \* forward() calls so far; event e is the e-th
    queue, unfinished,\* the asyncio.Queue and its count of unfinished tasks
    work,             \* the event in the worker's hands
    nextSeq,          \* _next_seq
    latched,          \* _auth_failed or _tier_not_entitled_latch
    closing,          \* where close() is
    outcome, counted, \* per event: how and how often a counter counted it (history)
    stored,           \* the platform's events of this process, in order
    expected,         \* the platform's next sequence number
    other,            \* numbers taken behind the worker's back: by another writer, or
                      \* by a request given up on (history)
    late              \* requests given up on and still on their way

bridge == <<made, queue, unfinished, latched, closing>>
platform == <<stored, expected, other>>
vars == <<bridge, work, nextSeq, outcome, counted, platform, late>>

Events == 1..MaxEvents
None == 0
Idle == [event |-> None, seq |-> 0, attempt |-> 0, healed |-> FALSE]

Outcomes == {"none", "sent", "dropped_queue_full", "dropped_4xx", "dropped_5xx",
             "dropped_seq_conflict"}

TypeOK ==
    /\ made \in 0..MaxEvents
    /\ queue \in Seq(Events) /\ Len(queue) <= QueueSize
    /\ unfinished \in Nat
    /\ work \in [event : Events \cup {None}, seq : Nat, attempt : 0..MaxRetries + 1,
                 healed : BOOLEAN]
    /\ nextSeq \in Nat \ {0}
    /\ latched \in BOOLEAN
    /\ closing \in {"open", "joining", "gates", "overdue", "closed", "overran"}
    /\ outcome \in [Events -> Outcomes] /\ counted \in [Events -> Nat]
    /\ stored \in Seq(Events) /\ expected \in Nat \ {0} /\ other \in Nat
    /\ late \subseteq Events \X Nat

Init ==
    /\ made = 0 /\ queue = <<>> /\ unfinished = 0
    /\ work = Idle
    /\ nextSeq = 1
    /\ latched = FALSE /\ closing = "open"
    /\ outcome = [e \in Events |-> "none"] /\ counted = [e \in Events |-> 0]
    /\ stored = <<>> /\ expected = Prior + 1 /\ other = 0
    /\ late = {}

(* The events of E are counted under o.                                    *)
Count(E, o) ==
    /\ outcome' = [e \in Events |-> IF e \in E THEN o ELSE outcome[e]]
    /\ counted' = [e \in Events |-> IF e \in E THEN counted[e] + 1 ELSE counted[e]]

-----------------------------------------------------------------------------
(* forward().                                                              *)

(* The bridge is disabled or closed: the event is dropped.                 *)
ForwardRefused ==
    /\ made < MaxEvents /\ (latched \/ closing # "open")
    /\ made' = made + 1
    /\ Count({made + 1}, "dropped_queue_full")
    /\ UNCHANGED <<queue, unfinished, latched, closing, work, nextSeq, platform, late>>

ForwardPut ==
    /\ made < MaxEvents /\ ~latched /\ closing = "open"
    /\ Len(queue) < QueueSize
    /\ made' = made + 1
    /\ queue' = Append(queue, made + 1)
    /\ unfinished' = unfinished + 1
    /\ UNCHANGED <<latched, closing, work, nextSeq, outcome, counted, platform, late>>

(* Queue full: the oldest entry goes (get, task_done) and the new one is   *)
(* put in its place.                                                       *)
ForwardDropsOldest ==
    /\ made < MaxEvents /\ ~latched /\ closing = "open"
    /\ Len(queue) = QueueSize
    /\ made' = made + 1
    /\ queue' = Append(Tail(queue), made + 1)
    /\ UNCHANGED unfinished
    /\ Count({Head(queue)}, "dropped_queue_full")
    /\ UNCHANGED <<latched, closing, work, nextSeq, platform, late>>

-----------------------------------------------------------------------------
(* The worker loop.                                                        *)

Running == closing \notin {"closed", "overran"}

(* The event in hand is finished: counted under o, task_done.              *)
Done(o) ==
    /\ Count({work.event}, o)
    /\ work' = Idle
    /\ unfinished' = unfinished - 1
    /\ UNCHANGED <<made, queue, closing>>

(* Take the next event and its sequence number.                            *)
Take ==
    /\ Running /\ work = Idle /\ queue # <<>> /\ ~latched
    /\ queue' = Tail(queue)
    /\ work' = [event |-> Head(queue), seq |-> nextSeq, attempt |-> 0, healed |-> FALSE]
    /\ nextSeq' = nextSeq + 1
    /\ UNCHANGED <<made, unfinished, latched, closing, outcome, counted, platform, late>>

(* Fault: the worker of a disabled bridge leaves the queue alone.          *)
DiscardNothing == FALSE /\ UNCHANGED vars

(* A disabled bridge empties its queue without posting.                    *)
Discard ==
    /\ Running /\ work = Idle /\ queue # <<>> /\ latched
    /\ queue' = Tail(queue)
    /\ unfinished' = unfinished - 1
    /\ Count({Head(queue)}, "dropped_queue_full")
    /\ UNCHANGED <<made, latched, closing, work, nextSeq, platform, late>>

(* The loop goes round and posts: an event is in hand, retries are left.   *)
Posting == Running /\ work # Idle /\ work.attempt <= MaxRetries

InStored(e) == \E i \in DOMAIN stored : stored[i] = e
Storable(e, s) == ~InStored(e) /\ s = expected

(* External: the platform handles a request.                               *)
Handle(e, s) ==
    IF Storable(e, s)
      THEN stored' = Append(stored, e) /\ expected' = expected + 1 /\ UNCHANGED other
      ELSE UNCHANGED platform

(* 2xx.                                                                    *)
Accepted ==
    /\ Posting /\ Storable(work.event, work.seq)
    /\ Handle(work.event, work.seq)
    /\ Done("sent")
    /\ UNCHANGED <<latched, nextSeq, late>>

(* Fault: the counter is corrected and the event sent with its old number. *)
HealKeepsSeq ==
    /\ Posting /\ work.seq # expected /\ ~work.healed
    /\ nextSeq' = IF nextSeq < expected + 1 THEN expected + 1 ELSE nextSeq
    /\ work' = [work EXCEPT !.healed = TRUE, !.attempt = @ + 1]
    /\ UNCHANGED <<bridge, outcome, counted, platform, late>>

(* 409 seq_out_of_order, the first for this event: jump the counter ahead  *)
(* and go round with the platform's number.                                *)
Heal ==
    /\ Posting /\ work.seq # expected /\ ~work.healed
    /\ nextSeq' = IF nextSeq < expected + 1 THEN expected + 1 ELSE nextSeq
    /\ work' = [work EXCEPT !.seq = expected, !.healed = TRUE, !.attempt = @ + 1]
    /\ UNCHANGED <<bridge, outcome, counted, platform, late>>

(* 409 without a number, or the second for this event.                     *)
Conflict ==
    /\ Posting
    /\ InStored(work.event) \/ (work.seq # expected /\ work.healed)
    /\ Done("dropped_seq_conflict")
    /\ UNCHANGED <<latched, nextSeq, platform, late>>

(* Another attempt after a backoff.                                        *)
Retry ==
    /\ work' = [work EXCEPT !.attempt = @ + 1]
    /\ UNCHANGED <<bridge, nextSeq, outcome, counted>>

(* 429 or 5xx.                                                             *)
Busy == Posting /\ Faulty /\ Retry /\ UNCHANGED <<platform, late>>

(* A connection error or timeout: the request was handled, is lost, or     *)
(* arrives later.                                                          *)
NoAnswer ==
    /\ Posting /\ Faulty /\ Retry
    /\ \/ Handle(work.event, work.seq) /\ UNCHANGED late
       \/ UNCHANGED <<platform, late>>
       \/ Late /\ late' = late \cup {<<work.event, work.seq>>} /\ UNCHANGED platform

(* External: a request that was given up on arrives.                       *)
Arrive == \E r \in late :
    /\ late' = late \ {r}
    /\ IF Storable(r[1], r[2])
         THEN stored' = Append(stored, r[1]) /\ expected' = expected + 1 /\ other' = other + 1
         ELSE UNCHANGED platform
    /\ UNCHANGED <<bridge, work, nextSeq, outcome, counted>>

(* Fault: the event is counted and put back at the end of the queue.       *)
GiveUpRequeues ==
    /\ Running /\ work # Idle
    /\ work.attempt > MaxRetries \/ (Faulty /\ work.attempt > 0)
    /\ Len(queue) < QueueSize
    /\ Count({work.event}, "dropped_5xx")
    /\ queue' = Append(queue, work.event) /\ work' = Idle
    /\ UNCHANGED <<made, unfinished, closing, latched, nextSeq, platform, late>>

(* max_retries exceeded, or the 15 s of retry budget are used up: the slow *)
(* answers that takes are faults.                                          *)
GiveUp ==
    /\ Running /\ work # Idle
    /\ work.attempt > MaxRetries \/ (Faulty /\ work.attempt > 0)
    /\ Done("dropped_5xx")
    /\ UNCHANGED <<latched, nextSeq, platform, late>>

(* 413 and the other 4xx drop the event; 401 and 402 also disable the      *)
(* bridge.                                                                 *)
Rejected ==
    /\ Posting /\ Rejecting
    /\ latched' \in {latched, TRUE}
    /\ Done("dropped_4xx")
    /\ UNCHANGED <<nextSeq, platform, late>>

(* A gate forward or poll that gets 401 or 402 disables the bridge too.    *)
GateRejected ==
    /\ Rejecting /\ ~latched
    /\ latched' = TRUE
    /\ UNCHANGED <<made, queue, unfinished, closing, work, nextSeq, outcome, counted, platform,
                   late>>

(* External: another process writes to the same workflow.                  *)
OtherWrites ==
    /\ other < MaxOther
    /\ other' = other + 1 /\ expected' = expected + 1
    /\ UNCHANGED <<bridge, work, nextSeq, outcome, counted, stored, late>>

-----------------------------------------------------------------------------
(* close().                                                                *)

CloseStart ==
    /\ Closes /\ closing = "open"
    /\ closing' = "joining"
    /\ UNCHANGED <<made, queue, unfinished, latched, work, nextSeq, outcome, counted, platform,
                   late>>

(* The worker is cancelled; the event in its hands is counted as dropped.  *)
CancelWorker(E) ==
    /\ closing' = IF closing = "overdue" THEN "overran" ELSE "closed"
    /\ Count(E \cup ({work.event} \ {None}), "dropped_queue_full")
    /\ work' = Idle
    /\ unfinished' = IF work = Idle THEN unfinished ELSE unfinished - 1
    /\ UNCHANGED <<made, queue, latched, nextSeq, platform, late>>

Queued == {queue[i] : i \in DOMAIN queue}

(* queue.join() returned; a gate forward still under way is waited for.    *)
Joined ==
    /\ closing = "joining" /\ unfinished = 0
    /\ \/ /\ GatePending /\ closing' = "gates"
          /\ UNCHANGED <<made, queue, unfinished, latched, work, nextSeq, outcome, counted,
                         platform, late>>
       \/ CancelWorker({})

(* Fault: the events left in the queue are not counted.                    *)
JoinTimesOutUncounted ==
    closing = "joining" /\ unfinished > 0 /\ Faulty /\ CancelWorker({})

(* The deadline passed first: what the queue holds is counted as dropped.  *)
(* With a gate forward still under way the worker is not cancelled yet.    *)
JoinTimesOut ==
    /\ closing = "joining" /\ unfinished > 0 /\ Faulty
    /\ \/ /\ GatePending /\ closing' = "overdue"
          /\ Count(Queued, "dropped_queue_full")
          /\ UNCHANGED <<made, queue, unfinished, latched, work, nextSeq, platform, late>>
       \/ CancelWorker(Queued)

(* The gate forwards ended or were cancelled.                              *)
GatesDone == closing \in {"gates", "overdue"} /\ CancelWorker({})

-----------------------------------------------------------------------------
Worker == Take \/ Discard \/ Accepted \/ Heal \/ Conflict \/ Busy \/ NoAnswer \/ GiveUp \/ Rejected
Forward == ForwardRefused \/ ForwardPut \/ ForwardDropsOldest
Close == CloseStart \/ Joined \/ JoinTimesOut \/ GatesDone

Next == Forward \/ Worker \/ Close \/ GateRejected \/ OtherWrites \/ Arrive

Spec == Init /\ [][Next]_vars

(* The event loop runs the worker and close(); a POST ends, with an answer *)
(* or a timeout, and so does each wait of close().                         *)
FairSpec == Spec /\ WF_vars(Worker) /\ WF_vars(Joined \/ JoinTimesOut \/ GatesDone)

-----------------------------------------------------------------------------
(* Properties.                                                             *)

(* The books of the bridge balance: an event handed to forward() is in    *)
(* the queue, in the worker's hands, or counted under exactly one counter  *)
(* by forward, the worker and close together, also after close(); and      *)
(* queue.join() waits for exactly what is left, entries dropped from a     *)
(* full queue included.  Counting once has one exception, below.           *)
Accounted ==
    /\ TypeOK
    /\ \A e \in Events : counted[e] <= 1 \/ closing \in {"overdue", "overran"}
    /\ \A e \in 1..made :
          \/ counted[e] > 0 \/ work.event = e
          \/ Running /\ \E i \in DOMAIN queue : queue[i] = e
    /\ unfinished = Len(queue) + Cardinality({work.event} \ {None})

(* An event counted as sent is stored by the platform, behind no event     *)
(* that was forwarded after it.                                            *)
SentInOrder ==
    \A e \in Events : outcome[e] = "sent" =>
        \E j \in DOMAIN stored : stored[j] = e /\ \A i \in 1..j : stored[i] <= e

(* The 409 self-heal at work ("self-heal the counter and retry ONCE",      *)
(* client.py:745): unless a number is taken behind the worker's back, no   *)
(* event is lost to its sequence number, however many events the workflow  *)
(* had before this process started, whichever were rejected or dropped,    *)
(* and whatever answers were lost.                                         *)
NoneLostToSeq == \A e \in Events :
    outcome[e] = "dropped_seq_conflict" => InStored(e) \/ other > 0

(* The worker settles every event, and close() ends, under any answers of  *)
(* the platform.                                                           *)
Settles ==
    /\ \A e \in Events : made >= e ~> counted[e] > 0
    /\ closing = "joining" ~> ~Running

-----------------------------------------------------------------------------
(* What comments of the code say and the code does not keep; the README    *)
(* gives for each the constants under which TLC shows it.                  *)

(* Every event is counted once also when close() runs into its deadline    *)
(* with a gate forward under way: what it counts as dropped, the worker    *)
(* goes on sending.                                                        *)
CountedOnce == \A e \in Events : counted[e] <= 1

(* The platform holds this process's events in the order of forward(),     *)
(* those given up on included.                                             *)
StoredInOrder == \A i, j \in DOMAIN stored : i < j => stored[i] < stored[j]

(* client.py:743, "duplicate event_id - normal on retry; treat as          *)
(* success": an event the platform has is not counted as a conflict drop.  *)
DuplicateIsSuccess == \A e \in Events : outcome[e] = "dropped_seq_conflict" => ~InStored(e)

(* client.py:745, "retry ONCE": with a platform that answers, the event of *)
(* a healed counter is posted again, also when it was the last attempt.    *)
HealRetries == ~Faulty => \A e \in Events : outcome[e] # "dropped_5xx"
=============================================================================
