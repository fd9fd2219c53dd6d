--------------------------- MODULE PolicyRegistry ---------------------------
(***************************************************************************)
(* SDK processes sharing governance_policies: register() in the scope,     *)
(* cost and routing modules, the deferred and the background upserts,      *)
(* start(), the hot reload that replaces the modules' dicts, close(), and  *)
(* the wrapper registrations that start() mirrors for the coverage report. *)
(*                                                                         *)
(* A policy is the number of its registration.  A transaction's NOW() is   *)
(* its beginning, and its row is seen when it commits: the two orders may  *)
(* differ.  Rows are never deleted.  The audit event that routing's        *)
(* register() logs besides is AuditLog's business.                         *)
(***************************************************************************)
EXTENDS Naturals, Sequences, FiniteSets, FiniteSetsExt

CONSTANTS
    Procs,          \* SDK processes
    SyncProcs,      \* those that use GovernanceSDKSync
    Agents,
    Wrapped,        \* <<process, agent>>: the agents wrapped before start()
    Kinds,          \* the sequence of policy kinds, in the order of start()
    MaxRegistrations    \* bound on register() calls

ASSUME RegistryAssumption ==
    /\ SyncProcs \subseteq Procs /\ Wrapped \subseteq Procs \X Agents
    /\ Kinds \in Seq(STRING) /\ Kinds # <<>>
    /\ \A i, j \in DOMAIN Kinds : i # j => Kinds[i] # Kinds[j]
    /\ MaxRegistrations \in Nat

VARIABLES
    db,             \* governance_policies: what each key holds, and updated_at
    clock,          \* NOW(): the transactions begun
    registered,     \* register() calls so far
    mem,            \* _policies of the modules of each process
    deferred,       \* _pending_upsert_policies, by process and kind
    upserts,        \* upserts under way, background tasks and start()'s own
    phase,          \* where start() is: "new", "flush", "load", "up", "closed"
    flush,          \* the flush of start(): the kind's index, the list it took
    poll,           \* _poll_policies: where it is, its max_updated, its rows
    last,           \* _last_policy_updated_at; 0 is None
    rows,           \* governance_wrapper_registrations
    own, late, flushed     \* history, for the properties

memory == <<mem, deferred, phase, flush, poll, last>>
history == <<own, late, flushed>>
vars == <<db, clock, registered, memory, upserts, rows, history>>

None == 0
KindSet == {Kinds[i] : i \in DOMAIN Kinds}
Key == KindSet \X Agents
KeysOf(kind) == {kind} \X Agents
Values == 0..MaxRegistrations
Stored == {k \in Key : db[k].val # None}
MaxUpdated == Max({db[k].at : k \in Key})
Idle == [pc |-> "idle", kind |-> 1, max |-> 0, snap |-> [k \in Key |-> None]]
NoFlush == [kind |-> 1, taken |-> FALSE, queue |-> <<>>]

Init ==
    /\ db = [k \in Key |-> [val |-> None, at |-> 0]]
    /\ clock = 0 /\ registered = 0
    /\ mem = [p \in Procs |-> [k \in Key |-> None]]
    /\ deferred = [p \in Procs |-> [kind \in KindSet |-> <<>>]]
    /\ upserts = {}
    /\ phase = [p \in Procs |-> "new"]
    /\ flush = [p \in Procs |-> NoFlush]
    /\ poll = [p \in Procs |-> Idle]
    /\ last = [p \in Procs |-> 0]
    /\ rows = {}
    /\ own = [p \in Procs |-> {}] /\ late = [p \in Procs |-> {}]
    /\ flushed = [p \in Procs |-> {}]

-----------------------------------------------------------------------------
(* register() and the upsert.                                              *)

(* The dict at once; the row by a task where a loop runs in the caller's   *)
(* thread, and otherwise by start(), if it is still to come.  Callers of   *)
(* the facade have no loop, whenever they call.                            *)
Register(p, k, loop) ==
    /\ phase[p] # "closed" /\ registered < MaxRegistrations
    /\ p \in SyncProcs => ~loop
    /\ registered' = registered + 1
    /\ mem' = [mem EXCEPT ![p][k] = registered']
    /\ own' = [own EXCEPT ![p] = @ \cup {k}]
    /\ IF ~loop
       THEN /\ deferred' = [deferred EXCEPT ![p][k[1]] =
                              Append(@, [key |-> k, val |-> registered'])]
            /\ UNCHANGED upserts
       ELSE /\ upserts' = upserts \cup
                   {[proc |-> p, key |-> k, val |-> registered', at |-> 0, by |-> "task"]}
            /\ UNCHANGED deferred
    /\ UNCHANGED <<db, clock, phase, flush, poll, last, rows, late, flushed>>

(* BEGIN: NOW() is taken.                                                  *)
BeginUpsert(u) ==
    /\ u \in upserts /\ u.at = 0
    /\ clock' = clock + 1
    /\ upserts' = (upserts \ {u}) \cup {[u EXCEPT !.at = clock']}
    /\ UNCHANGED <<db, registered, memory, rows, history>>

(* The newest updated_at that q will not look behind again.                *)
Horizon(q) == Max({last[q], poll[q].max})

(* COMMIT.  A row stamped before what q has seen, or is about to record as *)
(* seen, is late for q.                                                    *)
CommitUpsert(u) ==
    /\ u \in upserts /\ u.at # 0
    /\ db' = [db EXCEPT ![u.key] = [val |-> u.val, at |-> u.at]]
    /\ upserts' = upserts \ {u}
    /\ late' = [q \in Procs |-> IF u.at <= Horizon(q)
                                THEN late[q] \cup {u.key} ELSE late[q] \ {u.key}]
    /\ flushed' = [flushed EXCEPT ![u.proc] =
                     IF u.by = "start" THEN @ \cup {u.key} ELSE @]
    /\ UNCHANGED <<clock, registered, memory, rows, own>>

(* The database refuses, or the task dies with its loop; a warning.        *)
FailUpsert(u) ==
    /\ u \in upserts
    /\ upserts' = upserts \ {u}
    /\ UNCHANGED <<db, clock, registered, memory, rows, history>>

-----------------------------------------------------------------------------
(* start(): the wrapper registrations, the deferred upserts kind by kind,  *)
(* the first load.                                                         *)

HasPolicy(a) == \E kind \in KindSet : <<kind, a>> \in Stored

(* Fault: a registration is stored whether or not its agent is known.      *)
AcceptedUnchecked(p) == {r \in Wrapped : r[1] = p}

(* flush_to_postgres: one transaction.  The trigger rejects an agent with  *)
(* no policy, and a rejected row aborts the statements beside it.          *)
Accepted(p) ==
    LET batch == {r \in Wrapped : r[1] = p}
    IN IF \A r \in batch : HasPolicy(r[2]) THEN batch ELSE {}

StartCoverage(p, ok) ==
    /\ phase[p] = "new"
    /\ rows' = IF ok THEN rows \cup Accepted(p) ELSE rows
    /\ phase' = [phase EXCEPT ![p] = "flush"]
    /\ UNCHANGED <<db, clock, registered, upserts, mem, deferred, flush, poll, last,
                   history>>

(* flush_pending_upserts takes the list, leaving an empty one.             *)
FlushTake(p) ==
    /\ phase[p] = "flush" /\ ~flush[p].taken /\ flush[p].kind \in DOMAIN Kinds
    /\ LET kind == Kinds[flush[p].kind] IN
       /\ flush' = [flush EXCEPT ![p].taken = TRUE, ![p].queue = deferred[p][kind]]
       /\ deferred' = [deferred EXCEPT ![p][kind] = <<>>]
    /\ UNCHANGED <<db, clock, registered, upserts, mem, phase, poll, last, rows, history>>

(* Fault: start() leaves its upserts to the loop.                          *)
AwaitingNothing(p) == FALSE

(* One upsert is awaited at a time; one that fails is dropped.             *)
Awaiting(p) == \E u \in upserts : u.proc = p /\ u.by = "start"

FlushNext(p) ==
    /\ phase[p] = "flush" /\ flush[p].taken /\ flush[p].queue # <<>> /\ ~Awaiting(p)
    /\ LET q == Head(flush[p].queue) IN
       upserts' = upserts \cup
         {[proc |-> p, key |-> q.key, val |-> q.val, at |-> 0, by |-> "start"]}
    /\ flush' = [flush EXCEPT ![p].queue = Tail(@)]
    /\ UNCHANGED <<db, clock, registered, mem, deferred, phase, poll, last, rows, history>>

FlushKindDone(p) ==
    /\ phase[p] = "flush" /\ flush[p].taken /\ flush[p].queue = <<>> /\ ~Awaiting(p)
    /\ flush' = [flush EXCEPT ![p].kind = @ + 1, ![p].taken = FALSE]
    /\ UNCHANGED <<db, clock, registered, upserts, mem, deferred, phase, poll, last,
                   rows, history>>

ToLoad(p) ==
    /\ phase[p] = "flush" /\ flush[p].kind \notin DOMAIN Kinds
    /\ phase' = [phase EXCEPT ![p] = "load"]
    /\ UNCHANGED <<db, clock, registered, upserts, mem, deferred, flush, poll, last,
                   rows, history>>

-----------------------------------------------------------------------------
(* _poll_policies, from start() and then from the reload loop.             *)

MayPoll(p) == phase[p] \in {"load", "up"} /\ poll[p].pc = "idle"

(* SELECT MAX(updated_at): nothing stored, nothing newer, or a failure.    *)
PollSkips(p) ==
    /\ MayPoll(p)
    /\ phase' = [phase EXCEPT ![p] = "up"]
    /\ UNCHANGED <<db, clock, registered, upserts, mem, deferred, flush, poll, last,
                   rows, history>>

Newer(p) == Stored # {} /\ MaxUpdated > last[p]

(* Fault: the mark is recorded before the rows are read.                   *)
PollBeginsMarked(p) ==
    /\ MayPoll(p) /\ Newer(p)
    /\ phase' = [phase EXCEPT ![p] = "up"]
    /\ poll' = [poll EXCEPT ![p] = [Idle EXCEPT !.pc = "read", !.max = MaxUpdated]]
    /\ last' = [last EXCEPT ![p] = MaxUpdated]
    /\ UNCHANGED <<db, clock, registered, upserts, mem, deferred, flush, rows, history>>

PollBegins(p) ==
    /\ MayPoll(p) /\ Newer(p)
    /\ phase' = [phase EXCEPT ![p] = "up"]
    /\ poll' = [poll EXCEPT ![p] = [Idle EXCEPT !.pc = "read", !.max = MaxUpdated]]
    /\ UNCHANGED <<db, clock, registered, upserts, mem, deferred, flush, last, rows, history>>

(* get_stored_policies of the next kind ...                                *)
PollRead(p, i) ==
    /\ poll[p].pc = "read" /\ poll[p].kind = i
    /\ poll' = [poll EXCEPT ![p].pc = "apply",
                            ![p].snap = [k \in Key |-> IF k[1] = Kinds[i] THEN db[k].val
                                                       ELSE None]]
    /\ UNCHANGED <<db, clock, registered, upserts, mem, deferred, phase, flush, last,
                   rows, history>>

(* ... and the dict replaced by what it returned.  After the last kind the *)
(* mark moves to the maximum read at first.                                *)
PollApply(p, i) ==
    /\ poll[p].pc = "apply" /\ poll[p].kind = i
    /\ mem' = [mem EXCEPT ![p] = [k \in Key |-> IF k[1] = Kinds[i] THEN poll[p].snap[k]
                                                ELSE @[k]]]
    /\ IF i + 1 \in DOMAIN Kinds
       THEN /\ poll' = [poll EXCEPT ![p] = [Idle EXCEPT !.pc = "read", !.kind = i + 1,
                                                        !.max = poll[p].max]]
            /\ UNCHANGED last
       ELSE /\ poll' = [poll EXCEPT ![p] = Idle]
            /\ last' = [last EXCEPT ![p] = poll[p].max]
    /\ own' = [own EXCEPT ![p] = @ \ KeysOf(Kinds[i])]
    /\ late' = [late EXCEPT ![p] = {k \in @ : k[1] # Kinds[i] \/ db[k].val # poll[p].snap[k]}]
    /\ UNCHANGED <<db, clock, registered, upserts, deferred, phase, flush, rows, flushed>>

(* A read fails, or a row does not validate: the loop warns and sleeps on. *)
PollFails(p) ==
    /\ poll[p].pc # "idle"
    /\ poll' = [poll EXCEPT ![p] = Idle]
    /\ UNCHANGED <<db, clock, registered, upserts, mem, deferred, phase, flush, last,
                   rows, history>>

(* close() cancels the loop; upserts in flight are not awaited.            *)
Close(p) ==
    /\ phase[p] = "up"
    /\ phase' = [phase EXCEPT ![p] = "closed"]
    /\ poll' = [poll EXCEPT ![p] = Idle]
    /\ UNCHANGED <<db, clock, registered, upserts, mem, deferred, flush, last, rows, history>>

-----------------------------------------------------------------------------
Start(p) ==
    \/ \E ok \in BOOLEAN : StartCoverage(p, ok)
    \/ FlushTake(p) \/ FlushNext(p) \/ FlushKindDone(p) \/ ToLoad(p)

Reload(p) ==
    \/ PollSkips(p) \/ PollBegins(p) \/ PollFails(p)
    \/ \E i \in DOMAIN Kinds : PollRead(p, i) \/ PollApply(p, i)

Next ==
    \/ \E u \in upserts : BeginUpsert(u) \/ CommitUpsert(u) \/ FailUpsert(u)
    \/ \E p \in Procs :
         Start(p) \/ Reload(p) \/ Close(p)
         \/ \E k \in Key, loop \in BOOLEAN : Register(p, k, loop)

Spec == Init /\ [][Next]_vars

-----------------------------------------------------------------------------
TypeOK ==
    /\ db \in [Key -> [val : Values, at : 0..clock]]
    /\ clock \in Nat /\ registered \in Values
    /\ mem \in [Procs -> [Key -> Values]]
    /\ \A u \in upserts : u.proc \in Procs /\ u.key \in Key /\ u.val \in Values
                          /\ u.at \in 0..clock /\ u.by \in {"task", "start"}
    /\ phase \in [Procs -> {"new", "flush", "load", "up", "closed"}]
    /\ last \in [Procs -> 0..clock]
    /\ \A p \in Procs : poll[p].max \in 0..clock /\ poll[p].pc \in {"idle", "read", "apply"}

(* The state is well formed; start() flushes one upsert at a time; and     *)
(* every wrapper registration the coverage report counts is of an agent    *)
(* that governance_policies knows, whatever start() found there.           *)
RegistryConsistent ==
    /\ TypeOK
    /\ \A p \in Procs : Cardinality({u \in upserts : u.proc = p /\ u.by = "start"}) <= 1
    /\ \A r \in rows : HasPolicy(r[2])

(* The reload misses nothing it could have seen: where a module's dict     *)
(* differs from the table, the next poll will reload, unless the row was   *)
(* committed under a stamp older than one already seen (late) or the       *)
(* process itself registered something since it last loaded that kind.     *)
ReloadNotices ==
    \A p \in Procs : \A k \in Key :
      (phase[p] = "up" /\ poll[p].pc = "idle" /\ mem[p][k] # db[k].val)
        => \/ MaxUpdated > last[p]
           \/ k \in late[p] \cup own[p]

(* start() flushes before it loads, so the first load never takes away a   *)
(* policy the process came with: one whose deferred upsert was stored is   *)
(* in force from then on, in this or in a newer version.                   *)
StartKeepsPolicies ==
    \A p \in Procs : \A k \in flushed[p] : mem[p][k] # None

-----------------------------------------------------------------------------
(* What comments of the code say and the code does not keep; the README    *)
(* gives for each the constants under which TLC shows it.                  *)

(* The reload without the exception for late commits: a policy committed   *)
(* under an older updated_at than one already seen is missed for good.     *)
NeverMissed ==
    \A p \in Procs : \A k \in Key :
      (phase[p] = "up" /\ poll[p].pc = "idle" /\ mem[p][k] # db[k].val)
        => MaxUpdated > last[p] \/ k \in own[p]

(* A policy in force stays in force, in some version: a poll that replaces *)
(* the dict takes away one whose upsert is still under way.                *)
NeverWiped ==
    [][\A p \in Procs, k \in Key : mem[p][k] # None => mem'[p][k] # None]_vars

=============================================================================
