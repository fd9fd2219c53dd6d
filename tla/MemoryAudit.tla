----------------------------- MODULE MemoryAudit -----------------------------
(***************************************************************************)
(* The SDK without a database: AuditModule.log over an InMemoryAuditStore  *)
(* whose cap refuses events (on_full="raise"), the writer's fallback store *)
(* behind it (a ring, on_full="evict", or one that refuses too), and       *)
(* BatchingWriter moving enqueued, unchained events into the same stores.  *)
(*                                                                         *)
(* A store is the sequence of its rows in insertion order (_order and      *)
(* _events); the bucket of a session is what that sequence holds of it.    *)
(* Everything runs on one event loop: a step is the code between two       *)
(* awaits.  The hmac of a row is its id, as in AuditEvents.                *)
(***************************************************************************)
EXTENDS AuditEvents, Naturals, Sequences, FiniteSets, RowSelection

CONSTANTS
    Unchained,      \* the session of the events handed to enqueue()
    Loggers,        \* concurrent log() calls
    Flushers,       \* callers of flush(), besides the flush loop and close()
    Loop, Closer,   \* the background task; the final drain of close()
    MaxPrimary, MaxFallback,   \* max_events of the two stores
    BufferMax       \* buffer_max

ASSUME MemoryAssumption ==
    /\ Unchained \notin Sessions /\ Loop # Closer /\ {Loop, Closer} \cap Flushers = {}
    /\ {MaxPrimary, MaxFallback, BufferMax} \subseteq Nat \ {0}

VARIABLES
    onFull,         \* on_full of the fallback
    primary, fallback,         \* the rows of the two stores
    evicted,        \* _evicted_total of the fallback
    nextEvent,      \* the next fresh event_id
    logging,        \* each log() call
    buffer,         \* BatchingWriter._buffer
    flush,          \* each run of _flush_once: its batch and where it is
    closing,        \* close(): "open", "closed", "done"
    logged,         \* events whose log() returned a stored record
    accepted,       \* events enqueue() took into the buffer
    cut, torn       \* events a requeue had no room for, a cancelled flush held

stores == <<primary, fallback, evicted>>
writer == <<buffer, flush, closing>>
history == <<logged, accepted, cut, torn>>
memVars == <<onFull, stores, nextEvent, logging, writer, history>>

Row == [id : Ids, sess : Sessions \cup {Unchained}, prev : Ids \cup {None}]
FlushRuns == Flushers \cup {Loop, Closer}
NotLogging == [pc |-> "idle", sess |-> Unchained, prev |-> None]

(* The bucket of a session, as ChainLog's records.                         *)
Bucket(rows, s) ==
    LET own == RowsAt(rows, {i \in 1..Len(rows) : rows[i].sess = s})
    IN [i \in 1..Len(own) |-> [id |-> own[i].id, prev |-> own[i].prev]]

LastIn(rows, s) ==
    LET b == Bucket(rows, s) IN IF b = <<>> THEN None ELSE b[Len(b)].id

MemInit ==
    /\ onFull \in {"evict", "raise"}
    /\ primary = <<>> /\ fallback = <<>> /\ evicted = 0
    /\ nextEvent = 1
    /\ logging = [c \in Loggers |-> NotLogging]
    /\ buffer = <<>>
    /\ flush = [f \in FlushRuns |-> [pc |-> "idle", batch |-> <<>>]]
    /\ closing = "open"
    /\ logged = {} /\ accepted = {} /\ cut = {} /\ torn = {}

-----------------------------------------------------------------------------
(* The stores.                                                             *)

(* write_batch on a store with room for `room` more rows: an event already *)
(* there is skipped, and the first that does not fit raises.               *)
Missing(rows, batch) ==
    RowsAt(batch, {i \in 1..Len(batch) : batch[i].id \notin IdsOf(rows)})
Fits(rows, batch, max) == Len(rows) + Len(Missing(rows, batch)) <= max
Landed(rows, batch, max) ==
    LET new == Missing(rows, batch)
        room == IF Len(rows) >= max THEN 0 ELSE max - Len(rows)
    IN rows \o SubSeq(new, 1, IF Len(new) <= room THEN Len(new) ELSE room)

(* ... and on a ring: the oldest rows make room, whosever they are.        *)
Ring(rows, batch, max) ==
    LET all == rows \o Missing(rows, batch)
    IN IF Len(all) <= max THEN all ELSE SubSeq(all, Len(all) - max + 1, Len(all))

(* Fault: one eviction is counted per write, however many rows it pops.    *)
EvictedOnce(rows, batch, max) ==
    IF Ring(rows, batch, max) = rows \o Missing(rows, batch) THEN 0 ELSE 1

EvictedBy(rows, batch, max) ==
    Len(rows) + Len(Missing(rows, batch)) - Len(Ring(rows, batch, max))

(* The fallback after a write of batch that the store accepts.             *)
FallbackTakes(batch) ==
    \/ /\ onFull = "evict"
       /\ fallback' = Ring(fallback, batch, MaxFallback)
       /\ evicted' = evicted + EvictedBy(fallback, batch, MaxFallback)
    \/ /\ onFull = "raise" /\ Fits(fallback, batch, MaxFallback)
       /\ fallback' = Landed(fallback, batch, MaxFallback)
       /\ UNCHANGED evicted

(* ... and after one that it refuses: what came before the cap stays.      *)
FallbackRefuses(batch) ==
    /\ onFull = "raise" /\ ~Fits(fallback, batch, MaxFallback)
    /\ fallback' = Landed(fallback, batch, MaxFallback)
    /\ UNCHANGED evicted

-----------------------------------------------------------------------------
(* log(): insert_with_chain_lock of the primary, then of the fallback.     *)

Holding(c, pcs) == logging[c].pc \in pcs

(* The session lock, the predecessor, and the builder called with it.      *)
Begin(c, s, from, to, rows) ==
    /\ Holding(c, {from})
    /\ \A o \in Loggers : Holding(o, {to}) => logging[o].sess # s
    /\ logging' = [logging EXCEPT ![c] = [pc |-> to, sess |-> s, prev |-> LastIn(rows, s)]]
    /\ UNCHANGED <<onFull, stores, nextEvent, writer, history>>

(* Fault: the session is not locked while the record is built.             *)
BeginPrimaryUnlocked(c, s) ==
    /\ Holding(c, {"idle"})
    /\ logging' = [logging EXCEPT ![c] = [pc |-> "primary", sess |-> s,
                                    prev |-> LastIn(primary, s)]]
    /\ UNCHANGED <<onFull, stores, nextEvent, writer, history>>

BeginPrimary(c, s) == Begin(c, s, "idle", "primary", primary)

BeginFallback(c) == Begin(c, logging[c].sess, "degraded", "fallback", fallback)

BuiltRow(c) == [id |-> nextEvent, sess |-> logging[c].sess, prev |-> logging[c].prev]

(* The record is built and the cap checked, with no await between the      *)
(* check and the append.                                                   *)
LandPrimary(c) ==
    /\ Holding(c, {"primary"}) /\ nextEvent \in Ids
    /\ Len(primary) < MaxPrimary
    /\ primary' = Append(primary, BuiltRow(c))
    /\ nextEvent' = nextEvent + 1
    /\ logging' = [logging EXCEPT ![c] = NotLogging]
    /\ logged' = logged \cup {nextEvent}
    /\ UNCHANGED <<onFull, fallback, evicted, writer, accepted, cut, torn>>

(* StoreUnavailableError at the cap: log() turns to the fallback.  The     *)
(* refused record is dropped; nobody has seen its event_id, so the model   *)
(* draws the same one again.                                               *)
RefusePrimary(c) ==
    /\ Holding(c, {"primary"})
    /\ Len(primary) >= MaxPrimary
    /\ logging' = [logging EXCEPT ![c].pc = "degraded"]
    /\ UNCHANGED <<onFull, stores, nextEvent, writer, history>>

LandFallback(c) ==
    /\ Holding(c, {"fallback"}) /\ nextEvent \in Ids
    /\ FallbackTakes(<<BuiltRow(c)>>)
    /\ nextEvent' = nextEvent + 1
    /\ logging' = [logging EXCEPT ![c] = NotLogging]
    /\ logged' = logged \cup {nextEvent}
    /\ UNCHANGED <<onFull, primary, writer, accepted, cut, torn>>

(* Both stores refused: log() returns a placeholder and logs the loss.     *)
RefuseFallback(c) ==
    /\ Holding(c, {"fallback"}) /\ nextEvent \in Ids
    /\ FallbackRefuses(<<BuiltRow(c)>>)
    /\ logging' = [logging EXCEPT ![c] = NotLogging]
    /\ UNCHANGED <<onFull, primary, nextEvent, writer, history>>

(* The task of the call is cancelled at an await: the locks are released.  *)
Cancel(c) ==
    /\ ~Holding(c, {"idle"})
    /\ logging' = [logging EXCEPT ![c] = NotLogging]
    /\ UNCHANGED <<onFull, stores, nextEvent, writer, history>>

-----------------------------------------------------------------------------
(* BatchingWriter.                                                         *)

FreshRow == [id |-> nextEvent, sess |-> Unchained, prev |-> None]

Enqueue ==
    /\ closing = "open" /\ nextEvent \in Ids
    /\ Len(buffer) < BufferMax
    /\ buffer' = Append(buffer, FreshRow)
    /\ nextEvent' = nextEvent + 1
    /\ accepted' = accepted \cup {nextEvent}
    /\ UNCHANGED <<onFull, stores, logging, flush, closing, logged, cut, torn>>

(* The buffer is full: straight to the fallback; its refusal is raised to  *)
(* the caller.                                                             *)
EnqueueSpills ==
    /\ closing = "open" /\ nextEvent \in Ids
    /\ Len(buffer) >= BufferMax
    /\ nextEvent' = nextEvent + 1
    /\ \/ FallbackTakes(<<FreshRow>>) /\ accepted' = accepted \cup {nextEvent}
       \/ FallbackRefuses(<<FreshRow>>) /\ UNCHANGED accepted
    /\ UNCHANGED <<onFull, primary, logging, writer, logged, cut, torn>>

(* Who may start a _flush_once: the loop until it ends, close() once the   *)
(* loop has ended, anybody else at any time.                               *)
MayFlush(f) ==
    \/ f \in Flushers
    \/ f = Loop /\ closing # "done"
    \/ f = Closer /\ closing = "done"

(* The batch leaves the buffer under the lock, before it is written.       *)
TakeBatch(f) ==
    /\ flush[f].pc = "idle" /\ MayFlush(f)
    /\ buffer # <<>>
    /\ flush' = [flush EXCEPT ![f] = [pc |-> "primary", batch |-> buffer]]
    /\ buffer' = <<>>
    /\ UNCHANGED <<onFull, stores, nextEvent, logging, closing, history>>

EndFlush(f) == flush' = [flush EXCEPT ![f] = [pc |-> "idle", batch |-> <<>>]]

FlushPrimary(f) ==
    /\ flush[f].pc = "primary"
    /\ primary' = Landed(primary, flush[f].batch, MaxPrimary)
    /\ IF Fits(primary, flush[f].batch, MaxPrimary)
         THEN EndFlush(f) ELSE flush' = [flush EXCEPT ![f].pc = "fallback"]
    /\ UNCHANGED <<onFull, fallback, evicted, nextEvent, logging, buffer, closing, history>>

(* wait_for gives up on the primary before anything was written.           *)
FlushTimesOut(f) ==
    /\ flush[f].pc = "primary"
    /\ flush' = [flush EXCEPT ![f].pc = "fallback"]
    /\ UNCHANGED <<onFull, stores, nextEvent, logging, buffer, closing, history>>

FlushFallback(f) ==
    /\ flush[f].pc = "fallback"
    /\ \/ FallbackTakes(flush[f].batch) /\ EndFlush(f)
       \/ FallbackRefuses(flush[f].batch)
          /\ flush' = [flush EXCEPT ![f].pc = "requeue"]
    /\ UNCHANGED <<onFull, primary, nextEvent, logging, buffer, closing, history>>

(* Fault: the batch goes back whole.                                       *)
RequeueAll(f) ==
    /\ flush[f].pc = "requeue"
    /\ buffer' = buffer \o flush[f].batch
    /\ EndFlush(f)
    /\ UNCHANGED <<onFull, stores, nextEvent, logging, closing, history>>

(* batch[:space], behind what was enqueued since.                          *)
Requeue(f) ==
    LET batch == flush[f].batch
        space == BufferMax - Len(buffer)
        kept  == IF Len(batch) <= space THEN Len(batch) ELSE space
    IN /\ flush[f].pc = "requeue"
       /\ buffer' = buffer \o SubSeq(batch, 1, kept)
       /\ cut' = cut \cup IdsOf(SubSeq(batch, kept + 1, Len(batch)))
       /\ EndFlush(f)
       /\ UNCHANGED <<onFull, stores, nextEvent, logging, closing, logged, accepted, torn>>

(* close(): no more events are taken.                                      *)
Close ==
    /\ closing = "open"
    /\ closing' = "closed"
    /\ UNCHANGED <<onFull, stores, nextEvent, logging, buffer, flush, history>>

(* The loop sees _closed after its flush; or it takes longer than two      *)
(* seconds and is cancelled with its batch in hand.                        *)
LoopEnds ==
    /\ closing = "closed"
    /\ flush[Loop].pc = "idle"
    /\ closing' = "done"
    /\ UNCHANGED <<onFull, stores, nextEvent, logging, buffer, flush, history>>

LoopCancelled ==
    /\ closing = "closed"
    /\ flush[Loop].pc # "idle"
    /\ closing' = "done"
    /\ torn' = torn \cup IdsOf(flush[Loop].batch)
    /\ EndFlush(Loop)
    /\ UNCHANGED <<onFull, stores, nextEvent, logging, buffer, logged, accepted, cut>>

-----------------------------------------------------------------------------
LogStep(c) ==
    \/ \E s \in Sessions : BeginPrimary(c, s)
    \/ LandPrimary(c) \/ RefusePrimary(c)
    \/ BeginFallback(c) \/ LandFallback(c) \/ RefuseFallback(c)
    \/ Cancel(c)

FlushStep(f) ==
    \/ TakeBatch(f) \/ FlushPrimary(f) \/ FlushTimesOut(f)
    \/ FlushFallback(f) \/ Requeue(f)

MemNext ==
    \/ \E c \in Loggers : LogStep(c)
    \/ \E f \in FlushRuns : FlushStep(f)
    \/ Enqueue \/ EnqueueSpills \/ Close \/ LoopEnds \/ LoopCancelled

MemSpec == MemInit /\ [][MemNext]_memVars

-----------------------------------------------------------------------------
InHand == UNION {IdsOf(flush[f].batch) : f \in FlushRuns}
Kept == IdsOf(primary) \cup IdsOf(fallback) \cup IdsOf(buffer) \cup InHand

MemTypeOK ==
    /\ primary \in Seq(Row) /\ fallback \in Seq(Row) /\ buffer \in Seq(Row)
    /\ evicted \in Nat /\ nextEvent \in Nat
    /\ \A c \in Loggers :
         /\ logging[c].pc \in {"idle", "primary", "degraded", "fallback"}
         /\ logging[c].prev \in Ids \cup {None}
    /\ \A f \in FlushRuns :
         /\ flush[f].pc \in {"idle", "primary", "fallback", "requeue"}
         /\ flush[f].batch \in Seq(Row)
    /\ closing \in {"open", "closed", "done"}
    /\ logged \cup accepted \cup cut \cup torn \subseteq Ids

(* Memory stays bounded: however log() calls, spills, overlapping flushes  *)
(* and requeues interleave, neither store passes max_events and the buffer *)
(* never passes buffer_max, and no store holds an event twice.             *)
Bounded ==
    /\ MemTypeOK
    /\ Len(primary) <= MaxPrimary
    /\ Len(fallback) <= MaxFallback
    /\ Len(buffer) <= BufferMax
    /\ Cardinality(IdsOf(primary)) = Len(primary)
    /\ Cardinality(IdsOf(fallback)) = Len(fallback)

(* What log() returned or enqueue() took is in a store, in the buffer or   *)
(* in a batch under way, but for what the ring counts in evicted_total     *)
(* (verify_not_truncated raises), what a requeue had no room for, and what *)
(* a cancelled flush held.                                                 *)
LossesCounted ==
    Cardinality((logged \cup accepted) \ (Kept \cup cut \cup torn)) <= evicted

(* The chained sessions of a store with on_full="raise" implement the      *)
(* atomic linked append of ChainLog: two log() calls of a session cannot   *)
(* both build on the same predecessor, also when one of them is cancelled  *)
(* or refused at the cap.                                                  *)
Atomic == INSTANCE ChainLog WITH
         chain <- [s \in Sessions |-> Bucket(primary, s)]

ImplementsChainLog == Atomic!LogSpec

-----------------------------------------------------------------------------
(* What comments of the code say and the code does not keep; the README    *)
(* gives for each the constants under which TLC shows it.                  *)

(* "Nothing is ever silently dropped" (store.py:324): what enqueue() took  *)
(* is kept.  The code cuts a requeued batch, and loses the batch of a      *)
(* flush that close() cancels.                                             *)
NothingDropped == evicted = 0 => accepted \subseteq Kept

=============================================================================
