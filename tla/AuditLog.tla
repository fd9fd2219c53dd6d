------------------------------ MODULE AuditLog ------------------------------
(***************************************************************************)
(* AuditModule.log in degraded mode: concurrent log() calls of one process *)
(* over a primary store that fails and recovers, and the JSONL fallback    *)
(* store that takes the events meanwhile and is drained afterwards.        *)
(*                                                                         *)
(* The primary's insert_with_chain_lock is one step here: that it behaves  *)
(* as one is what AuditChain shows.  One step of a call is what runs       *)
(* between two awaits.  An asyncio.Lock serves its waiters in order.       *)
(* A call that ends with a stored record has also handed it to the         *)
(* platform client and the subscribers, neither of which can fail it.      *)
(*                                                                         *)
(* A record's mac is kept as the content it was computed over: mac says    *)
(* whether the event named a model, model whether the row still does.      *)
(***************************************************************************)
EXTENDS ChainLog, RowSelection

CONSTANTS
    Callers,        \* concurrent log() calls
    NoCall,         \* nobody holds the fallback's _global_lock
    Models,         \* whether events name a model: a subset of BOOLEAN
    MaxFile,        \* records the fallback file holds before it is rotated
    BatchSize,      \* _DRAIN_BATCH_SIZE
    LostAck,        \* a primary commit may be reported as a failure
    FsCanFail,      \* the local file system may refuse a read or a write
    MaxOutages, MaxCrashes   \* bounds on how often the environment acts

ASSUME BoundsAssumption ==
    /\ {MaxFile, BatchSize} \subseteq Nat \ {0}
    /\ {MaxOutages, MaxCrashes} \subseteq Nat
    /\ Models \subseteq BOOLEAN /\ {LostAck, FsCanFail} \subseteq BOOLEAN
    /\ NoCall \notin Callers /\ Sessions # {}

VARIABLES
    up,             \* the primary is reachable
    file, rotated,  \* the JSONL file and its .jsonl.1
    mem, fsOk,      \* _memory_buffer, _fs_available
    last, hydrated, \* _last_hmac, and the sessions it is valid for (_initialized)
    lock,           \* the holder of _global_lock
    queue,          \* queue[s]: holder and waiters of the session's fallback lock
    degraded,       \* _degraded_starts
    call,           \* each call: where it is, its arguments, its built record
    nextId,         \* the next fresh event_id
    returned,       \* ids of the records log() returned, placeholders excepted
    dropped,        \* ids in a file that the size cap made the store give up
    outages, crashes

fileVars == <<file, rotated, dropped>>
cacheVars == <<last, hydrated>>
envVars  == <<outages, crashes>>
vars == <<chain, up, fileVars, mem, fsOk, cacheVars, lock, queue, degraded, call, nextId,
          returned, envVars>>

LogRecord == [id : Ids, sess : Sessions, prev : Ids \cup {None},
              kind : {"event", "marker"}, model : BOOLEAN, mac : BOOLEAN, fb : BOOLEAN]

NoRecord == [id |-> None]

Phases == {"idle", "marker", "drain", "draining", "record",
           "fbMarker", "fbRecord", "fbMarkerBuilt", "fbRecordBuilt"}

Calls == [pc : Phases, sess : Sessions, model : BOOLEAN,
          built : LogRecord \cup {NoRecord}, pos : Nat]

TypeOK ==
    /\ chain \in [Sessions -> Seq(LogRecord)]
    /\ {up, fsOk} \subseteq BOOLEAN
    /\ {file, rotated, mem} \subseteq Seq(LogRecord)
    /\ last \in [Sessions -> Ids \cup {None}] /\ hydrated \subseteq Sessions
    /\ lock \in Callers \cup {NoCall}
    /\ queue \in [Sessions -> Seq(Callers)]
    /\ degraded \subseteq Sessions
    /\ call \in [Callers -> Calls]
    /\ nextId \in Nat
    /\ returned \subseteq Ids /\ dropped \subseteq Ids
    /\ outages \in 0..MaxOutages /\ crashes \in 0..MaxCrashes

Idle == [c \in Callers |-> [pc |-> "idle", sess |-> CHOOSE s \in Sessions : TRUE,
                            model |-> FALSE, built |-> NoRecord, pos |-> 0]]

Init ==
    /\ LogInit
    /\ up = TRUE
    /\ file = <<>> /\ rotated = <<>> /\ mem = <<>>
    /\ fsOk = TRUE
    /\ last = [s \in Sessions |-> None]
    /\ hydrated = {}
    /\ lock = NoCall
    /\ queue = [s \in Sessions |-> <<>>]
    /\ degraded = {}
    /\ call = Idle
    /\ nextId = 1
    /\ returned = {} /\ dropped = {}
    /\ outages = 0 /\ crashes = 0

Sess(c)     == call[c].sess
Goto(c, pc) == call' = [call EXCEPT ![c].pc = pc]

(* build_record / build_marker, with a fresh event_id.                     *)
Built(c, kind, prev, fb) ==
    LET model == kind = "event" /\ call[c].model IN
    [id |-> nextId, sess |-> Sess(c), prev |-> prev, kind |-> kind,
     model |-> model, mac |-> model, fb |-> fb]

Fresh == nextId \in Ids /\ nextId' = nextId + 1

-----------------------------------------------------------------------------
(* log() on the primary.                                                   *)

(* _log_unsafe up to its first await: emit_marker is read here.            *)
Log(c, s, m) ==
    /\ call[c].pc = "idle"
    /\ nextId \in Ids
    /\ call' = [call EXCEPT ![c] =
                  [pc |-> IF s \in degraded THEN "marker" ELSE "record",
                   sess |-> s, model |-> m, built |-> NoRecord, pos |-> 0]]
    /\ UNCHANGED <<chain, up, fileVars, mem, fsOk, cacheVars, lock, queue, degraded,
                   nextId, returned, envVars>>

InsertPrimary(c, kind) ==
    /\ up
    /\ Fresh
    /\ chain' = [chain EXCEPT ![Sess(c)] =
                   Append(@, Built(c, kind, LastHmac(@), FALSE))]

(* The recovery marker lands; the degraded flag is cleared before the      *)
(* drain is attempted.                                                     *)
EmitMarker(c) ==
    /\ call[c].pc = "marker"
    /\ InsertPrimary(c, "marker")
    /\ degraded' = degraded \ {Sess(c)}
    /\ Goto(c, "drain")
    /\ UNCHANGED <<up, fileVars, mem, fsOk, cacheVars, lock, queue, returned, envVars>>

EmitRecord(c) ==
    /\ call[c].pc = "record"
    /\ InsertPrimary(c, "event")
    /\ returned' = returned \cup {nextId}
    /\ Goto(c, "idle")
    /\ UNCHANGED <<up, fileVars, mem, fsOk, cacheVars, lock, queue, degraded, envVars>>

(* The insert raised, before the commit or after it.  The handler flags    *)
(* the session and queues for the fallback: with the marker first if this  *)
(* call is the one that sets the flag.                                     *)
PrimaryFails(c) ==
    LET s == Sess(c)
        kind == IF call[c].pc = "marker" THEN "marker" ELSE "event"
    IN
    /\ call[c].pc \in {"marker", "record"}
    /\ \/ ~up /\ UNCHANGED <<chain, nextId>>
       \/ LostAck /\ InsertPrimary(c, kind)
    /\ degraded' = degraded \cup {s}
    /\ queue' = [queue EXCEPT ![s] = Append(@, c)]
    /\ Goto(c, IF s \in degraded THEN "fbRecord" ELSE "fbMarker")
    /\ UNCHANGED <<up, fileVars, mem, fsOk, cacheVars, lock, returned, envVars>>

-----------------------------------------------------------------------------
(* JsonlFallbackStore.insert_with_chain_lock.                              *)

OfSession(recs, s) == RowsAt(recs, {i \in 1..Len(recs) : recs[i].sess = s})

(* _scan_last_hmac: the file, then the memory buffer.                      *)
Scan(s) ==
    LET onDisk == OfSession(IF fsOk THEN file ELSE <<>>, s)
        inMem  == OfSession(mem, s)
    IN  IF inMem # <<>> THEN LastHmac(inMem) ELSE LastHmac(onDisk)

(* Fault: the record is built without the session lock.                    *)
FbBuildUnlocked(c) ==
    LET s    == Sess(c)
        prev == IF s \in hydrated THEN last[s] ELSE Scan(s)
        kind == IF call[c].pc = "fbMarker" THEN "marker" ELSE "event"
    IN
    /\ call[c].pc \in {"fbMarker", "fbRecord"}
    /\ s \in hydrated \/ lock = NoCall
    /\ Fresh
    /\ last' = [last EXCEPT ![s] = prev]
    /\ hydrated' = hydrated \cup {s}
    /\ call' = [call EXCEPT ![c].built = Built(c, kind, prev, TRUE),
                            ![c].pc = IF kind = "marker" THEN "fbMarkerBuilt"
                                                         ELSE "fbRecordBuilt"]
    /\ UNCHANGED <<chain, up, fileVars, mem, fsOk, lock, queue, degraded,
                   returned, envVars>>

(* Under the session lock: the predecessor comes from the cache or, the    *)
(* first time, from a scan under the global lock; the record is built.     *)
FbBuild(c) ==
    LET s    == Sess(c)
        prev == IF s \in hydrated THEN last[s] ELSE Scan(s)
        kind == IF call[c].pc = "fbMarker" THEN "marker" ELSE "event"
    IN
    /\ call[c].pc \in {"fbMarker", "fbRecord"}
    /\ Head(queue[s]) = c
    /\ s \in hydrated \/ lock = NoCall
    /\ Fresh
    /\ last' = [last EXCEPT ![s] = prev]
    /\ hydrated' = hydrated \cup {s}
    /\ call' = [call EXCEPT ![c].built = Built(c, kind, prev, TRUE),
                            ![c].pc = IF kind = "marker" THEN "fbMarkerBuilt"
                                                         ELSE "fbRecordBuilt"]
    /\ UNCHANGED <<chain, up, fileVars, mem, fsOk, lock, queue, degraded,
                   returned, envVars>>

(* _serialize leaves the model out.                                        *)
Serialize(r) == [r EXCEPT !.model = FALSE]

(* _append's check of the size: found is the file the write then meets.    *)
(* A full file is renamed over the one rotated before it, or, when that is *)
(* refused, removed; a refused stat counts as size 0.                      *)
SizeCheck(found) ==
    \/ /\ Len(file) < MaxFile \/ FsCanFail
       /\ found = file
       /\ UNCHANGED <<rotated, dropped>>
    \/ /\ Len(file) >= MaxFile
       /\ found = <<>>
       /\ rotated' = file
       /\ dropped' = dropped \cup IdsOf(rotated)
    \/ /\ Len(file) >= MaxFile /\ FsCanFail
       /\ found = <<>>
       /\ dropped' = dropped \cup IdsOf(file)
       /\ UNCHANGED rotated

(* _append: an error of the file system, before the line is written or     *)
(* after (the chmod of a new file), turns the store to its memory buffer   *)
(* for good.                                                               *)
AppendFile(r) ==
    \/ /\ fsOk
       /\ \E found \in {file, <<>>} :
            /\ SizeCheck(found)
            /\ \/ /\ file' = Append(found, Serialize(r))
                  /\ UNCHANGED <<mem, fsOk>>
               \/ /\ FsCanFail
                  /\ file' \in {found, Append(found, Serialize(r))}
                  /\ fsOk' = FALSE
                  /\ mem' = Append(mem, r)
    \/ /\ ~fsOk
       /\ mem' = Append(mem, r)
       /\ UNCHANGED <<fileVars, fsOk>>

(* Release of the session lock; a call that wrote the marker queues again  *)
(* for its own record.                                                     *)
LeaveFallback(c) ==
    LET s == Sess(c)
        marker == call[c].pc \in {"fbMarker", "fbMarkerBuilt"}
    IN
    /\ queue' = [queue EXCEPT ![s] = IF marker THEN Append(Tail(@), c) ELSE Tail(@)]
    /\ Goto(c, IF marker THEN "fbRecord" ELSE "idle")

FbAppend(c) ==
    LET r == call[c].built IN
    /\ call[c].pc \in {"fbMarkerBuilt", "fbRecordBuilt"}
    /\ lock = NoCall
    /\ AppendFile(r)
    /\ last' = [last EXCEPT ![r.sess] = r.id]
    /\ returned' = IF r.kind = "event" THEN returned \cup {r.id} ELSE returned
    /\ LeaveFallback(c)
    /\ UNCHANGED <<chain, up, hydrated, lock, degraded, nextId, envVars>>

(* The scan cannot read the file: a marker is given up, a record becomes   *)
(* the placeholder.                                                        *)
FbRefused(c) ==
    /\ FsCanFail /\ fsOk
    /\ call[c].pc \in {"fbMarker", "fbRecord"}
    /\ Head(queue[Sess(c)]) = c
    /\ Sess(c) \notin hydrated /\ lock = NoCall
    /\ LeaveFallback(c)
    /\ UNCHANGED <<chain, up, fileVars, mem, fsOk, cacheVars, lock, degraded, nextId,
                   returned, envVars>>

-----------------------------------------------------------------------------
(* drain_to(primary), under the global lock.                               *)

DrainBegin(c) ==
    /\ call[c].pc = "drain"
    /\ lock = NoCall
    /\ lock' = c
    /\ call' = [call EXCEPT ![c].pc = "draining", ![c].pos = 0]
    /\ UNCHANGED <<chain, up, fileVars, mem, fsOk, cacheVars, queue, degraded, nextId,
                   returned, envVars>>

UpTo(n, recs) == SubSeq(recs, 1, IF n < Len(recs) THEN n ELSE Len(recs))

RowIds == UNION {IdsOf(chain[s]) : s \in Sessions}

(* What is left to drain: the memory buffer first, then the file.          *)
Undrained(c) ==
    IF mem # <<>> THEN mem
    ELSE IF fsOk THEN SubSeq(file, call[c].pos + 1, Len(file)) ELSE <<>>

Batch(c) == UpTo(BatchSize, Undrained(c))

(* event_id is the primary key of governance_audit_events.                 *)
Insertable(batch) == \A i \in 1..Len(batch) : batch[i].id \notin RowIds

(* write_batch: one transaction, the rows as they are, no advisory lock.   *)
WriteBatch(batch) ==
    chain' = [s \in Sessions |-> chain[s] \o OfSession(batch, s)]

DrainBatch(c) ==
    /\ call[c].pc = "draining"
    /\ Undrained(c) # <<>>
    /\ up /\ Insertable(Batch(c))
    /\ WriteBatch(Batch(c))
    /\ IF mem # <<>>
         THEN /\ mem' = SubSeq(mem, Len(Batch(c)) + 1, Len(mem))
              /\ UNCHANGED call
         ELSE /\ call' = [call EXCEPT ![c].pos = @ + Len(Batch(c))]
              /\ UNCHANGED mem
    /\ UNCHANGED <<up, fileVars, fsOk, cacheVars, lock, queue, degraded, nextId,
                   returned, envVars>>

(* Fault: the file is removed before everything in it is written.          *)
DrainEndEarly(c) ==
    /\ call[c].pc = "draining"
    /\ lock' = NoCall
    /\ Goto(c, "record")
    /\ file' = <<>>
    /\ last' = [s \in Sessions |-> None]
    /\ hydrated' = {}
    /\ UNCHANGED <<chain, up, rotated, dropped, mem, fsOk, queue, degraded, nextId,
                   returned, envVars>>

(* Everything was written: the file is removed and the cache forgotten.    *)
DrainEnd(c) ==
    /\ call[c].pc = "draining"
    /\ Undrained(c) = <<>>
    /\ lock' = NoCall
    /\ Goto(c, "record")
    /\ IF fsOk /\ file # <<>>
         THEN /\ file' = <<>>
              /\ last' = [s \in Sessions |-> None]
              /\ hydrated' = {}
         ELSE UNCHANGED <<file, cacheVars>>
    /\ UNCHANGED <<chain, up, rotated, dropped, mem, fsOk, queue, degraded, nextId,
                   returned, envVars>>

(* write_batch raised, before its commit or after it; or the file could    *)
(* not be read or removed.                                                 *)
DrainRaises(c) ==
    \/ /\ Undrained(c) # <<>>
       /\ ~up \/ ~Insertable(Batch(c))
       /\ UNCHANGED chain
    \/ /\ LostAck
       /\ Undrained(c) # <<>>
       /\ up /\ Insertable(Batch(c))
       /\ WriteBatch(Batch(c))
    \/ /\ FsCanFail /\ fsOk
       /\ mem = <<>> /\ file # <<>>
       /\ UNCHANGED chain

(* Fault: a failed drain keeps the global lock.                            *)
DrainFailsLocked(c) ==
    /\ call[c].pc = "draining"
    /\ DrainRaises(c)
    /\ Goto(c, "record")
    /\ UNCHANGED <<up, fileVars, mem, fsOk, cacheVars, lock, queue, degraded, nextId,
                   returned, envVars>>

(* The drain raised; _maybe_drain_fallback swallows it.                    *)
DrainFails(c) ==
    /\ call[c].pc = "draining"
    /\ DrainRaises(c)
    /\ lock' = NoCall
    /\ Goto(c, "record")
    /\ UNCHANGED <<up, fileVars, mem, fsOk, cacheVars, queue, degraded, nextId,
                   returned, envVars>>

-----------------------------------------------------------------------------
(* The environment.                                                        *)

Outage ==
    /\ up /\ outages < MaxOutages
    /\ up' = FALSE
    /\ outages' = outages + 1
    /\ UNCHANGED <<chain, fileVars, mem, fsOk, cacheVars, lock, queue, degraded, call,
                   nextId, returned, crashes>>

Recover ==
    /\ ~up
    /\ up' = TRUE
    /\ UNCHANGED <<chain, fileVars, mem, fsOk, cacheVars, lock, queue, degraded, call,
                   nextId, returned, envVars>>

(* The process dies and a new one starts on the same file.  What only the  *)
(* memory buffer held dies with it, and the promise about it (returned).   *)
Crash ==
    /\ crashes < MaxCrashes
    /\ crashes' = crashes + 1
    /\ mem' = <<>>
    /\ fsOk' = TRUE
    /\ last' = [s \in Sessions |-> None]
    /\ hydrated' = {}
    /\ lock' = NoCall
    /\ queue' = [s \in Sessions |-> <<>>]
    /\ degraded' = {}
    /\ call' = Idle
    /\ returned' = returned \ {mem[i].id : i \in 1..Len(mem)}
    /\ UNCHANGED <<chain, up, fileVars, nextId, outages>>

-----------------------------------------------------------------------------
CallStep(c) ==
    \/ \E s \in Sessions, m \in Models : Log(c, s, m)
    \/ EmitMarker(c) \/ EmitRecord(c) \/ PrimaryFails(c)
    \/ FbBuild(c) \/ FbAppend(c) \/ FbRefused(c)
    \/ DrainBegin(c) \/ DrainBatch(c) \/ DrainEnd(c) \/ DrainFails(c)

Next == (\E c \in Callers : CallStep(c)) \/ Outage \/ Recover \/ Crash

Spec == Init /\ [][Next]_vars

-----------------------------------------------------------------------------
Elements(recs) == {recs[i] : i \in 1..Len(recs)}
Rows(s)        == Elements(chain[s])
Buffered       == Elements(file) \cup Elements(mem)
Everything     == (UNION {Rows(s) : s \in Sessions}) \cup Buffered \cup Elements(rotated)

(* Nothing but the size cap loses an acknowledged event: a record log()    *)
(* returned is a row of the primary or waits in the fallback, whatever     *)
(* crash, outage, failing drain or file system runs into it, unless it was *)
(* in a file that a rotation replaced or removed.                          *)
ReturnedKept ==
    \A id \in returned : id \in dropped \/ \E r \in Everything : r.id = id

(* What waits in the fallback store is one chain per session: no two       *)
(* records of its file, its rotated file and its memory buffer name the    *)
(* same predecessor, and a predecessor is an earlier record, also across   *)
(* restarts, refused writes and drains that clear the cache.               *)
FallbackLinear ==
    \A r, q \in Buffered \cup Elements(rotated) :
        /\ r.sess = q.sess /\ r.id # q.id /\ r.prev = q.prev => r.prev = None
        /\ r.prev # None => r.prev < r.id

(* The fallback lock never outlives its call, and the session queue holds  *)
(* exactly the calls that are inside the fallback: a drain that fails or a *)
(* refused scan leaves nobody waiting for ever.                            *)
LocksOwned ==
    /\ TypeOK
    /\ lock # NoCall => call[lock].pc = "draining"
    /\ \A s \in Sessions, c \in Callers :
          (call[c].sess = s /\ call[c].pc \in {"fbMarker", "fbRecord", "fbMarkerBuilt",
                                               "fbRecordBuilt"})
             <=> Cardinality({i \in 1..Len(queue[s]) : queue[s][i] = c}) = 1

-----------------------------------------------------------------------------
(* What comments of the code say and the code does not keep; the README    *)
(* gives for each the constants under which TLC shows it.                  *)

(* "No data loss as long as the host's local disk survives".                *)
NothingLost == \A id \in returned : \E r \in Everything : r.id = id

(* "an HMAC-SHA256 over ... its immutable fields PLUS the previous event's *)
(* HMAC in the same session": the rows that verify_chain reads are linked. *)
PrimaryLinked == \A s \in Sessions : Linked(chain[s])

Quiet == \A c \in Callers : call[c].pc = "idle"

(* "The next successful log will retry": between calls, events waiting in  *)
(* the fallback have a degraded session whose next log drains them.        *)
DrainPromised == Quiet /\ Buffered # {} => degraded # {}

(* "emits a chain.degraded_start marker on the next successful primary log *)
(* so auditors can find every gap": between an event that went to the      *)
(* fallback and a later one on the primary there is a marker.              *)
GapMarked ==
    \A f \in Buffered : \A e \in Rows(f.sess) :
        e.kind = "event" /\ ~e.fb /\ f.id < e.id =>
            \E m \in Rows(f.sess) : m.kind = "marker" /\ f.id < m.id /\ m.id < e.id

(* "preserving each row's existing chain fields": every row of the primary *)
(* still carries what its HMAC was computed over (verify_event).           *)
RowsVerify == \A s \in Sessions : \A r \in Rows(s) : r.model = r.mac

(* "On failure mid-drain, leaves the remaining events intact so the        *)
(* operator can retry": what a new drain of a reachable primary would      *)
(* write first is insertable.                                              *)
DrainRetryable ==
    lock = NoCall /\ mem = <<>> => Insertable(UpTo(BatchSize, file))

=============================================================================
