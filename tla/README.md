# A verification project for codeatelier-governance

TLA+ models of the governance SDK in `src/src/codeatelier_governance`: what its
audit chain and its verification, its approval gates, budgets, halt switch,
policies, agent keys, governed calls and platform bridge promise,
model-checked with TLC on small instances and proved with TLAPS for every value of the
constants. All paths below are relative to
`src/src/codeatelier_governance/` unless they start with `src/`.

## 1. The system

The SDK sits inside an agent's process. An integration (the OpenAI and Anthropic
wrappers, the LangChain handler, the agent wrapper, `contracts.enforce`) runs each LLM
call or tool through a fixed order of checks (halt switch, scope, budget, approval),
performs it, then accounts for it (cost, audit, loop detection). State lives in Postgres
and is shared by all workers of a deployment; each process adds caches, an asyncio event
loop and background tasks. Nothing the SDK does may fail the host application, so most
errors are swallowed: what then happens to the data is where the hard questions are.

### Components

| component | state it keeps | operations | what makes it correct |
|---|---|---|---|
| audit store (`audit/postgres_store.py`) | rows of `governance_audit_events`; advisory locks | `insert_with_chain_lock`, `write_batch`, reads | per session one linear HMAC chain under any race; a returned record is stored |
| audit module (`audit/module.py`) | degraded sessions, subscribers | `log`, recovery marker, drain, `verify_chain` | no returned event is lost; gaps are marked; recovery keeps the chain verifiable |
| JSONL fallback (`audit/jsonl_store.py`) | a file, its rotation, a memory buffer, cached predecessors, locks | append, scan, `drain_to` | one chain per session; every exit frees its locks; drains lose nothing |
| in-memory store and batching writer (`audit/store.py`) | rows in insertion order with a cap; a bounded buffer | `insert_with_chain_lock`, `enqueue`, `flush`, `close` | bounded; losses counted; the same chain as the Postgres store |
| chain keys and verification (`audit/chain.py`, `audit/rotation.py`, `audit/keys.py`, `compliance/report.py`) | key versions with their windows; markers in the chain | `rotate_chain_key`, report, `verify_chain` | "verified" means intact; an alarm means damage; windows fit rows |
| gates (`gates/`) | pending rows; gates known to the platform | `request`, `grant`, `deny`, `wait_for`, platform sync, cleanup | single use; never resolved without an audit row; a wait ends with a verdict somebody gave |
| cost (`cost/`) | session and day counters, alert dedup | `check_or_raise`, `track`, `reconcile`, alerts | bounded overshoot; no undercount; an alert exactly for the days that reach the threshold |
| integrations (`integrations/`) | per-call projections, stream proxies, background tasks | governed call, streams, callbacks | no gate is passed over; every call leaves its events in order; usage is charged once |
| scope, routing, contracts, loop (`scope/`, `routing/`, `contracts/`, `loop/`) | policies by agent; rows of a window | `check`, `suggest`, `enforce`, `record_call` | default deny; the routed model is allowed; concurrent calls do not slip past a limit |
| policies and SDK lifecycle (`sdk.py`, `sync.py`, `coverage/`) | dicts of policies, deferred upserts, the reload's mark; wrapper registrations | `register`, `start`, hot reload, `close` | reloads miss nothing; `start` keeps what the process brought |
| agent identity (`identity/`) | key file, key registry, revocations, with mirrors in memory | bootstrap, register, sign, revoke, verify | a revocation that returned holds; it is announced in the chain |
| presence and halt switch (`presence/`) | presence rows with the halt marker; a TTL cache | heartbeat, idle, close, stale sweep, halt, checks | bounded delay; agents cannot undo a halt; checks return |
| platform client (`platform/client.py`) | bounded queue, sequence counter, latches, gate tasks | `forward`, worker, gate forward/poll/notify, `close` | each event counted once; order kept; `close` ends |
| compliance aggregation, CLI, migrations, export, sanitization | none of their own | reads, formatting, one-shot commands | see section 9 |

### How they interact

`log()` calls the primary store under the chain protocol and falls back to the
JSONL store; a later `log()` of the same session writes a recovery marker and
drains the fallback. A gate resolution runs `log()` inside its own transaction
(`on_commit`), on another engine; a key revocation logs its event first and stores its
row afterwards. Every committed audit record is handed to the platform client, which
forwards it; gates are forwarded, polled and reverse-synced over the same client and
share its latches with the audit bridge. A wrapper asks routing, the halt switch, the
scope and the budget before the call, logs beside it and tracks after it; nothing is
reserved in between, and every policy may be replaced by the hot reload meanwhile.

### What is hard

* **Races between processes**: optimistic reads followed by a lock, row locks held across
  a commit on another engine, check-then-track budgets, `updated_at` stamps that commit
  out of order, several reads that a rotation can fall between.
* **Races between coroutines**: caches refreshed behind a lock, session flags read
  before an await and used after it, a queue shared by `forward`, the worker and `close`,
  a dict replaced while a registration is under way, an audit task beside the call it is
  about.
* **Failures in the middle**: a commit whose acknowledgement is lost, a drain that stops
  after a batch, a crash between two files or between an event and its row, a stream torn
  down or collected before its usage chunk.
* **Time**: a TTL against a clock that starts at boot, midnight between two reads, a
  deadline against a retry loop.

`PROJECT.json` lists the hazards at their lines with the properties that would
catch each one.

## 2. Modules

| module | models | state ↔ code | actions ↔ code |
|---|---|---|---|
| `AuditEvents` | sessions and event ids, named once for the three audit stores | none | none |
| `ChainLog` | what an audit chain promises | `chain`: each session's rows in `chain_seq` order; a record is its id and the id whose hmac is its `prev_hash` | `AppendLinked`, the atomic append: the abstract specification |
| `AuditChain` | `insert_with_chain_lock` by any number of workers | `holder`: advisory locks; `optPrev`, `record`: locals of the call; `LockKey`: `_session_lock_key`, an arbitrary map, so collisions are included | `OptimisticBuild` (snapshot and build), `AcquireLock`, `Reverify` (re-read, rebuild), `Commit` / `CommitLostAck`, `Fail` (rollback) |
| `AuditLog` | `AuditModule.log`, the fallback store, the drain | `file`, `rotated`, `mem`, `fsOk`; `dropped`: what was in a file the size cap gave up (history); `last`/`hydrated`: `_last_hmac`/`_initialized`; `queue`: FIFO of a session's fallback lock; `lock`: `_global_lock`; `degraded`: `_degraded_starts` | one action per stretch between two awaits: `Log`, `EmitMarker`, `EmitRecord`, `PrimaryFails`, `FbBuild`, `FbAppend`, `FbRefused`, `DrainBegin` … `DrainFails`; `Outage`, `Recover`, `Crash` |
| `RowSelection` | the loops and queries that keep some rows of a file or a store, in order | none: `RowsAt`, used by `AuditLog` and `MemoryAudit` | none |
| `Gates` | `GatesModule`, its store, the gate side of the bridge | `row`, `rowLock`: the pending row and its lock; `tx`: each resolver's transaction; `wait`: each `wait_for`; `plat`, `forward`, `notify`: the platform and the two bridge tasks | `Request`, `Resolve`, `Update`, `EmitAudit`, `CommitTx`, `RollbackTx`, `Cleanup`; `PollLocal`, `PollPlatform`, `NoVerdict`, `SyncPlatform`, `ReturnSynced`; `ForwardGate`, `PlatformDecide`, `NotifyArrives` |
| `Cost` | `CostModule`, its store, the wrapper's accounting | the session and day counters; `call`: each governed call; `fired`: `AlertDedup` | `Admit`/`Deny` (`check_or_raise`), `Respond`, `StartStream`, `StreamEnds`, `StreamTorn`, `StreamUnreported` (wrapper), `PreRead`, `Track`, `TrackFails`, `PostRead`, `FireAlert` (`track`) |
| `HaltSwitch` | `PresenceModule` | `status`, `beat`, `halted`: the rows; `cache`, `cacheAt`, `holder`: the TTL cache and its lock | `Heartbeat`, `MarkIdle`, `CloseAgent`, `CheckStale`; `Halt`, `HaltDenied`, `Clear` (external); `Call`, `Ask`, `Lock`, `Fetch`, `Apply`, `FetchFails`, `Cancel` |
| `PlatformForward` | the audit bridge of `PlatformClient` | `queue`, `unfinished`: the `asyncio.Queue`; `work`: the event in the worker's hands; `nextSeq`, `latched`, `closing`; `stored`, `expected`: the platform (external) | `Forward*`, `Take`, `Discard`, `Accepted`, `Heal`, `Conflict`, `Busy`, `NoAnswer`, `GiveUp`, `Rejected`, `GateRejected`; `CloseStart`, `Joined`, `JoinTimesOut`, `GatesDone` |
| `KeyRotation` | `rotate_chain_key`, `verify_chain_with_rotation`, the verification of a report | `rows`, `nextSeq`, `versions`: the two tables; `rot`: each rotation's transaction; `rep`: what a report has read so far; `fleet`, `secret`: the keys processes run with; `changed`, `deleted`: damage (history) | `Log`, `Deploy`, `Stop`, `Damage` (external); `RotateBegin`, `RotateMarker`, `RotateCommit`, `RotateAbort`; `ReadHead`, `ReadMarkers`, `ReadVersions`, `ReportEnds`; the verifiers are operators: `RowStatus`, `LinkedRows`, `RotatedVerdict`, `SingleKeyVerdict`, `SessionVerdict` |
| `MemoryAudit` | `InMemoryAuditStore`, `BatchingWriter`, `log` over them | `primary`, `fallback`: rows in insertion order; `evicted`: `_evicted_total`; `logging`: each `log()` call; `buffer`; `flush`: each run of `_flush_once`; `closing` | `BeginPrimary` … `RefuseFallback`, `Cancel` (`log`); `Enqueue`, `EnqueueSpills`, `TakeBatch`, `FlushPrimary`, `FlushTimesOut`, `FlushFallback`, `Requeue`, `Close`, `LoopEnds`, `LoopCancelled` |
| `PolicyRegistry` | policies of scope, cost and routing, `start`, hot reload, `close`, the coverage flush | `db`: `governance_policies` with `updated_at`; `mem`: the dicts; `deferred`, `upserts`: what is still to be stored; `poll`, `last`: the reload and its mark; `rows`: wrapper registrations | `Register`, `BeginUpsert`, `CommitUpsert`, `FailUpsert`; `StartCoverage`, `FlushTake`, `FlushNext`, `FlushKindDone`, `ToLoad`; `PollSkips`, `PollBegins`, `PollRead`, `PollApply`, `PollFails`; `Close` |
| `GovernedCall` | the composition: one agent's calls through routing, gates, provider, audit, usage, loop detection and contracts | `op`: each operation with its position, its trail of events and its stream; `env`: what the gates look at, kept by the other modules; `loopRows`: rows of the window | `Begin`, `Route`, `GateOpens`, `GateRefuses`; `PreLog`, `Answers`, `LogError`, `Whole`, `PostStep`; `Streamed`, `Announce`, `Iterate`, `StreamStops`, `ContextExit`, `Finalize`, `Reconcile`, `Report`; `PreCall`, `AgtEnds`; `LoopInsert`, `LoopCount`, `LoopDetect`, `ToolCall`, `ToolEnds`; `BodyEnds`, `PostCheck`; `Cancel`; `Change` (external) |
| `Identity` | `FileKeyStore`, `AgentKeyRegistry`, `RevocationStore`, signing and verifying of rows | `file`: the key file; `key`: each signer; `rows`, `flight`: signed rows; `keysDb`, `mirror`, `tx`: the registry; `revDb`, `revMirror`, `rv`: revocations; `spooled`: events only the fallback has | `Boot`, `CreateFile`, `WriteFile`, `LoadKey`, `Start`; `InsertRow`, `CommitRow`, `RollbackRow`; `RegisterInsert`, `RegisterSelect`, `RegisterCommit`, `RegisterFails`, `LookupKey`; `RevokeBegins`, `RevokeLogs`, `RevokeLogsDegraded`, `RevokeLogFails`, `RevokeReadsHead`, `RevokeStores`, `RevokeMirrors`; `Crash` |

`AuditChain` extends `ChainLog` and is shown to implement it (`AtomicAppend`);
`MemoryAudit` implements it too, by `INSTANCE ChainLog` with the buckets of the primary
store for the chains (`ImplementsChainLog`). `AuditLog` extends `ChainLog` and takes the
primary insert as one step, which is what that refinement licenses; so do `KeyRotation`
and `Identity`. In the same way `Gates` takes `audit.log` as one step with two outcomes.
`GovernedCall` composes the gates of `HaltSwitch`, `PolicyRegistry`, `Cost` and `Gates`,
each as one bit of `env` that may change between any two awaits. `MC*` modules hold the
instances, `*_proofs` the theorems. `AuditLog_proofs` holds those of
`AuditLog`, `MemoryAudit` and `AuditChain`, `Gates_proofs` those of `Gates` and `HaltSwitch`;
components that are proved about together share no name but those of `AuditEvents`,
`RowSelection` and `ChainLog`, so the specifications are `Spec`, `MemSpec`, `ChainSpec` and
`SwitchSpec`.

Operators introduced by a comment beginning "Fault:" are not part of a specification. Each
is a plausible bug in the definition that follows it; putting it in that
definition's place makes TLC report the property `PROJECT.json` names.

### Data abstractions

* An HMAC is the identity of its record: two records have the same hmac only if they are
  the same. What a MAC covers is kept in one bit, whether the event named a model,
  because one conversion (`_serialize`) loses that field.
* A token comes down to its expiry; forging one is outside the model.
* Amounts are naturals and the price is a constant per token.
* A row keeps the key its hmac was made with and whether a covered field changed since; a
  signature is the key that made it. A key stands for its fingerprint.
* A policy is the number of its registration; NOW() is the number of its transaction.
* The data of a call comes down to whether it streams and how its consumer leaves it.
  Models are "asked", "middle" and "small"; which rule names a candidate is any.
* The monotonic clock counts whole units; `TTL` is a number of them.
* Subscribers, webhooks, OpenTelemetry and log lines cannot fail a call and change no
  modelled state; they are left out.

## 3. Runs

| run | instance | distinct states | shows |
|---|---|---|---|
| `audit_chain` | 3 workers, 2 sessions on one lock key, 4 ids | 0.36 M | `ChainLinear`, `AckedStored`: chains linear, returned records stored; `AtomicAppend`: refinement of `ChainLog`; `CallsEnd` |
| `audit_log` | 2 callers, 1 session, 5 ids, file of 2, batches of 1, 2 outages, 1 crash, lost acks, failing file system | 5.30 M | `ReturnedKept`: nothing returned is lost but by the size cap; `FallbackLinear`: the fallback is one chain; `LocksOwned`: locks are always given back |
| `memory` | 2 callers, 1 session, 5 ids, caps of 2, a buffer of 2, the loop, one `flush`, `close` | 1.12 M | `Bounded`, `LossesCounted`: at the caps nothing is lost uncounted, but for what a requeue cuts; `ImplementsChainLog` |
| `rotation` | 3 keys, 4 rows, a window of 3, one row damaged, reads that fail | 0.98 M | `VerifiedMeansIntact`, `MacAlarmMeansDamage`, `WindowsFit` |
| `gates` | 1 gate, 1 operator call at a time, 2 waiters, lossy bridge | 0.19 M | `SingleUse`, `ResolvedAudited`: audit row first, `VerdictGiven`, `WaitEnds` |
| `cost` | 3 callers, projections 0 and 2, usage up to 3 | 0.50 M | `UsdCeiling`, `AlertExact`, `NoUndercount` |
| `cost_faults` | 2 callers, failing store, one midnight | 1.16 M | `TokenCeiling`, `DailyCeiling` |
| `halt` | 1 agent, 2 coroutines, TTL 1, clock 1..2, failing queries | 0.28 M | `HaltBounded`: bounded delay; `HaltHolds`; `BlockedStays`: refused agents stay refused; `StaleIsLate`; `CheckReturns` |
| `forward` | 3 events, queue of 2, 1 retry, 1 earlier event, 1 foreign event, late requests, a gate forward | 0.20 M | `Accounted`: counted once, nothing uncounted, exact join; `SentInOrder`; `NoneLostToSeq`: the self-heal; `Settles` |
| `policies` | an asyncio and a facade process, 2 agents, 2 kinds, 2 registrations | 0.87 M | `RegistryConsistent`, `ReloadNotices`, `StartKeepsPolicies` |
| `governed_call` | a create, an agent run, two tools, a tool beside a watched one, two contracts; one change of the world; observations that fail | 1.32 M | `GatesHold`, `CallAudited`, `ChargedOnce`, `LoopNoticed` |
| `identity` | 2 processes, 2 keys, 2 rows, 1 revocation, 1 crash or registration | 2.35 M | `RevocationHolds`, `StrictLinked` |

### Why the bounds are enough

* `audit_chain`: a stale snapshot needs two workers and two builds; a third worker waits
  while the lock changes hands; four ids allow a rebuild next to two other inserts. With
  both sessions on one key a waiter also waits for an unrelated session.
* `audit_log`: one outage puts a marker and a record into the fallback; five ids leave
  room for the recovery marker, a second outage in the middle of its drain and a further
  event. A file of two is rotated by the third append and again by the fifth, or a refused
  rename removes it: what such a step gives up is recorded in `dropped` and excepted
  (section 6). One session is enough for the chain; sessions meet only in the global lock, which two callers contend for.
* `memory`: two rows fill a store, so the third is refused, evicts or spills; five ids let a
  requeued batch meet a buffer that filled up behind it and two log() calls meet at the cap.
* `rotation`: four rows hold a row before, a marker, a row behind it and a second marker, or
  two sessions around one marker; a window of three starts behind the head of the table.
  `Coordinated` is an assumption about operators, who stop the processes for a rotation and
  start them with the new key; nothing in the code enforces it, and section 6 says what
  happens otherwise.
* `gates`: an operator call may be repeated, so grant after deny and the reverse occur;
  with the two waiters three transactions compete for the row. Gates are independent.
* `cost`: three callers give an overshoot of two calls beyond the one at the cap; `MaxSpent`
  exceeds the ceilings, so a run is never cut off below them.
* `halt`: one tick lets a cache expire with an answer under way and a halt or its clearing
  behind or before its stamp; longer clocks and TTLs are the theorems' part. Agents are
  independent but for the cache, which is replaced as a whole.
* `forward`: a queue of two overflows with an event in hand at the third; one retry is
  enough for every combination of heal, retry and give up.
* `policies`: two registrations can meet at one key from two processes, or at two keys of one;
  upserts begin and commit in either order around each read of a poll. The third kind
  (routing) is stored and reloaded like the other two.
* `governed_call`: kinds that share only the environment run alone; tools meet in the loop
  detector and contracts in the session's events, so these run in pairs. One change of the
  world between two gates is what the order of the gates can get wrong.
* `identity`: a row before and a row behind a revocation's boundary, or the event and one row;
  two processes for mirrors that differ and for a file created twice.

Deadlock checking is off in all runs: the bounds end them, and the system may be idle.

### Symmetry

Used in runs without liveness properties only: callers in `audit_log`, `cost` and
`cost_faults`, processes and keys in `identity`. No definition distinguishes one of them
from another.

## 4. Fairness

* `AuditChain`: a worker inside its transaction goes on (a coroutine of a live loop; the
  server rolls a dead one back), weakly fair. Postgres queues the waiters of an advisory
  lock, so a lock released again and again is granted: strong fairness of `AcquireLock`.
* `Gates`: coroutines go on, the clock reaches each deadline, a started transaction ends and
  a spawned bridge task finishes (each POST has a timeout): weak fairness. The row lock
  queue of Postgres is strong fairness of `Update`.
* `HaltSwitch`: a ready coroutine runs; a query ends with an answer or an error;
  `asyncio.Lock` is first come, first served: strong fairness of `Lock`. Nothing is
  assumed of operators, agents or the clock.
* `PlatformForward`: the worker and `close` keep running and a POST ends. Nothing is
  assumed of the platform's answers.

## 5. Proofs

For arbitrary constants (within the named assumptions of each module, and those in the
table):

| theorem | states | rests on |
|---|---|---|
| `AuditLog_proofs!SpecTypeOK`, `SpecChainLinear`, `SpecAtomicAppend`, `SpecAckedStored` | types; every chain linear; refinement of `ChainLog`; a returned record stays a row | the inductive invariant `ChainInv` |
| `KeyRotation_proofs!RotationVerifiedMeansIntact`, `RotationMacAlarmMeansDamage`, `RotationWindowsFit` | "verified" means intact; a hash alarm means damage; the windows fit the rows (all if `Coordinated`) | `Inv`: `Fenced`, `Reserved`, `Shows`, `Windows`, `Marked`, `Reporting` |
| `AuditLog_proofs!LogReturnedKept`, `LogFallbackLinear`, `LogLocksOwned` | a returned event is kept, unless the size cap gave it up; the fallback never forks; types, and locks belong to their calls | `Inv`: `Queued`, `Draining`, `Chained`, `Sorted`, `Passed` |
| `AuditLog_proofs!MemoryBounded`, `MemoryLossesCounted`, `MemoryImplementsChainLog` | types and caps; losses are counted; refinement of `ChainLog` | `MemInv`: `MemStocked`, `MemPending`, `MemApart`, `MemLinking`, `MemCounted` |
| `Gates_proofs!GatesTypeOK`, `GatesSingleUse`, `GatesResolvedAudited`, `GatesVerdictGiven` | types; no verdict changes; resolved implies audited, and a wait returns a verdict somebody gave (both if `~AuditCanFail`) | row lock ownership, audited transactions have their row; `ForwardFirst`, `SyncsVerdict` |
| `Cost_proofs!CostTypeOK`, `CostTokenCeiling`, `CostDailyCeiling`, `CostUsdCeiling`, `CostAlertExact`, `CostNoUndercount` | types; N callers overshoot the token caps by at most N−1 calls and the USD cap by at most N; an alert exactly when the threshold is reached (if `~StoreCanFail` and the day does not end); nothing reported is left uncounted (if `~StoreCanFail`) | a bound on what calls under way may still add; `AlertBooks`; `Balanced` |
| `Gates_proofs!HaltTypeOK`, `HaltDelayBounded`, `HaltBlockedStays`, `HaltEngaged`, `HaltStaleIsLate` | types; delay at most TTL (if `Uptime >= TTL`); refused agents stay refused; a halt holds; unresponsive means silent | `Past`, `Current`, `Owner`, `Growing`, `Holds` |
| `PlatformForward_proofs!BooksBalance`, `SentStaysInOrder`, `NoEventLostToSeq` | every event accounted for once; sent events in order; none lost to a sequence conflict | `Ledger`, `PostedInOrder`, `HealHolds` |
| `Identity_proofs!RevocationsHold`, `StrictIsAnnounced` | a finished revocation rejects what follows and nothing below its event; strict ones are announced | `Sound` |
| `PolicyRegistry_proofs!ReloadMissesNothing`, `StartNeverLoses`, `RegistryStaysConsistent` | reloads notice every difference; the first load loses nothing stored; types, one upsert per start, coverage rows known | `DictSeen`, `PollSeen`, `StartSound`, `RowsKnown` |
| `GovernedCall_proofs!CallGatesHold`, `CallsAreAudited`, `CallsChargedOnce`, `LoopsAreNoticed` | types and gates; whole trails; nothing twice; loops reported | `Inv`: `Sound` for each operation, `OpenSeen`, `RowsCounted`, `LoopWatched` |

TLC checked every inductive invariant on the instance of the component's run before it was
proved.

**Chains.** `ChainLinear` is not inductive: an insert keeps it only if the record
names the current head. `ReadyIsCurrent` says so, and is kept only because a
worker past its re-read holds the key of its session (`LockOwned`), whatever
other sessions share that key; `BuiltFromSnapshot` says that a record that was not
rebuilt names the snapshot; `RecordDrawn` that its id was drawn. Their conjunction
with the types is `ChainInv`. The step simulation maps `Commit` and `CommitLostAck` to
`AppendLinked` and all else to stuttering.

**Key rotation.** A report reads the head, the markers, the key table and the rows one after
the other while the tables change, so the argument is about what stays true of the rows up to
the head it read. `Reserved`: the next `chain_seq`, and the one a marker has drawn, lie
ahead of every row, window and deletion, so nothing is ever added below that head. `Fenced` is
the discipline that `Coordinated` buys: one rotation at a time, nobody logs during it, and who
logs has the current key. `Windows` follows from both: the windows of two keys do
not meet, each row lies in the window of its own key, and a marker right before the window of the
key it announces. `Marked` covers the single-key path: without a marker and without a deletion the
table is the initial one. `Reporting` says the same of what a report has read so far. `Shows` is about
damage: a changed row is not intact, and the rows that followed a deleted one do not name an
earlier row, so a linkage check that passes has missed nothing between two rows it
loaded. Without `Coordinated` the theorems are not claimed (section 6).

**Degraded log.** Everything hangs on the order in which records are built and written.
`Queued`: the calls inside the fallback are exactly the queue of their session's lock, each once,
and only its head has built a record; `Draining`: the global lock belongs to the call
that drains. So a record about to be written is the youngest of its session (`Chained`), and its
predecessor, cached or scanned, is not older than anything that waits; the scan finds the youngest
because file, rotation and buffer are in the order of the ids within a session (`Sorted`). Two
records naming one predecessor would then each be older than the other. `Passed`: what a
drain has passed in the file is in the primary, so its removal loses nothing; a batch that fails
leaves the file, and a call that dies leaves no lock. A crash takes what only the memory
buffer held, and the promise about it, with it.

**In-memory stores.** `MemStocked` and `MemPending`: no store, buffer or batch holds an id twice or
more than it may, and all ids are drawn; `MemApart`: an id taken by `enqueue` is in the
buffer or in one batch. So a flush lands each row once, and the ring gives up as many ids as
it drops rows, which is what it counts (`MemCounted`). `MemLinking`: a call between its read and its
append holds the session's lock alone, and what it read is still the last row. The
refinement maps `LandPrimary` to `AppendLinked` and all else to stuttering, since a flush lands
unchained rows only. The primary refuses at its cap (`on_full="raise"`); a ring is modelled for
the fallback.

**Gates.** `GatesSingleUse` needs that an updated transaction holds its row's lock
and that the row is still pending; `GatesResolvedAudited` that a transaction past
its hook has its audit row. A verdict that `wait_for` returns was read from the row, and
is then audited, or from the platform. For the latter the platform must not take it back:
`ForwardFirst` says that a gate whose POST is unanswered is unknown there, so no answer
can set a decided gate to pending again; `SyncsVerdict` that the write-back
carries what the platform holds.

**Budgets.** The ceilings follow from one idea: at the last admission the cap was
respected, and every call under way adds at most `PerCall`. The proof carries a
bound over the set of callers that have been admitted and not yet counted (`Room`), and
uses the cardinality facts of `FiniteSetTheorems`. The token ceilings assume
`HonoursProjection` (usage within the projection) and that the module does not
fail open on an unreadable store; `CostUsdCeiling` only the latter. For the daily ceiling a
call admitted before midnight may be counted after it: the bound then holds with that
call as the one debtor on an untouched day. The alert is decided by each call from
two reads of its own; `AlertBooks` says that once the threshold is reached, the alert was
sent or a call that read the spend from below is on its way to send it. A failed
read, or midnight between the two reads, breaks that; the theorem excludes both, as
the run does. `CostNoUndercount` compares sums over all callers, which would need induction
over the set of callers; instead a sum is the size of a heap, a set of pairs with one per
token of each caller (`Heap`), so a step of one caller moves one column and the cardinality facts
do the rest. `Balanced` says that what was reported, plus what open streams were charged in advance
(`Credits`), is at most the counter plus what calls carry to the store (`Debts`).

**Halt switch.** `Current`: what the cache, or an answer on its way to it, says of a
marker that changed before its stamp is right, unless the last refresh failed. It
is kept because the stamp is read before the query. The delay then follows from `Past`
(a call returns from a cache stamped less than TTL before the call was made) and
from `Uptime >= TTL`, which excludes the never-filled cache. `BlockedStays` needs that
refreshes exclude each other (`Owner`) and that an answer under way
contains what the cache has (`Growing`). `StaleIsLate` is inductive with the types.

**Bridge.** Events are numbers in the order they are made, so positions become inequalities.
`Ascending`: the queue is sorted, above the event in hand and not above the newest.
`Uncounted`: an event in the queue or in hand has no outcome, which is what makes counting
it once possible; the exception, `close()` discarding a queue at its deadline with gate
forwards under way, is named in `Accounted` itself. The proof first shows that
every step has one of nine shapes, as far as the events can tell (`Shapes`),
then that each shape keeps the books. The order of what was sent needs `PostedInOrder`: whatever the
platform has or may still get late was posted before the event in hand. `HealHolds` is
the key to the 409 self-heal: after it the worker's number is the one the platform
expects, unless the event is there already or somebody took a number behind the worker's back.

**Identity.** The order of the steps in `revoke_with_chain_event` carries the proof: the
event is in the chain before the head is read, so the boundary of a record lies at or above
its own event and below every number still to be drawn. `Sound` says this for calls under
way (with what they have read so far), for records, and for the promise a returned call made, in
the table and in every mirror. Crashes drop calls, never announcements.

**Policies.** The reload compares `MAX(updated_at)` with its mark, so the argument is about stamps:
`Fresh(p, k, v, mark)` says that a value equals the table's, or the row is newer than the
mark, or it was committed late. `DictSeen` says it of the dicts with the process's mark;
`PollSeen` of the rows a reload has read and not applied, with the mark it will leave. For `start`,
`StartOrder` says that the upserts of a flush follow the list it took, `InForce` that until the
first load the dict has what is to be stored, and `FlushedKept` that what was stored stays.

**Governed calls.** An operation changes only its own record, so `Sound(r, s)` speaks of one
record and of what was open since it began, and the proof has one case per action and
four parts per case. `Control` ties the other fields to the position (which kinds get there, when
the task of `llm.call` is pending, when a stream may be reconciled). `GateSound`: what the gates
passed so far have shown open; `OpenSeen` makes an open gate a member of the history.
`Once`: the events recorded are distinct and among those due by this position (`May`), and the
event of a step is never among those due before it. `Exact`: the trail is one of the few that
lead here. `RowsCounted` bounds the rows by the operations past the insert;
`LoopWatched` holds because a row is inserted before all rows are counted.

**Model details the proofs rest on.** `Suggested` takes the least allowed index;
`PolicyRegistry!TypeOK` leaves the clock unbounded, since every transaction takes a stamp and
how many there are is a matter of the run's bounds; `IdentityAssumption` says that `MaxSeq`, a
bound, is a natural number. `AuditLog` and `MemoryAudit` select rows by their positions
(`RowSelection!RowsAt`), since the provers know nothing of `SelectSeq`; `RowSelection` is the same
selection, and the lemmas at the head of `AuditLog_proofs` say what it returns. The verdict on a
row in `KeyRotation` is a chain of conditions in the order of the code, and
`BoundsAssumption` of `AuditLog` includes that there is a session, which `Idle` chooses.

**Only model-checked.** The liveness properties (`CallsEnd`, `WaitEnds`, `CheckReturns`,
`Settles`): fairness is out of the prover's reach. Every other property of a run is stated by a
theorem. The hypotheses of a theorem, given in the table, are those under which the runs
check the property; section 6 says what happens without `Coordinated`, `~AuditCanFail`,
`HonoursProjection`, a single day or `Uptime >= TTL`. A store that fails open or refuses to record a
usage breaks a budget by design (`cost/module.py` logs it and goes on).

## 6. Where comments and code disagree

The properties below are stated at the end of their modules, or are properties of the
runs under other constants. TLC finds each violated when the configuration named is changed
as stated and only this property is checked.

| property | configuration | the code | the comment |
|---|---|---|---|
| `PrimaryLinked` | `AuditLog` | `drain_to` writes the fallback rows behind the recovery marker with their fallback predecessors: the session's rows are not linked (`audit/jsonl_store.py:218`) | "Each stored event carries an HMAC-SHA256 over … PLUS the previous event's HMAC in the same session" (`audit/chain.py:3`) |
| `RowsVerify` | `AuditLog` | `_serialize` leaves out the model, which the HMAC covers (`audit/jsonl_store.py:336`) | "preserving each row's existing chain fields" (`audit/jsonl_store.py:101`) |
| `DrainRetryable` | `AuditLog` | a drain that fails after a batch leaves that batch in the file; each retry meets the primary key (`audit/jsonl_store.py:224`) | "leaves the remaining events intact so the operator can retry" (`audit/jsonl_store.py:165`) |
| `DrainPromised` | `AuditLog` | the flag that triggers a drain is cleared before the drain; a record may also reach the file after the drain of another call (`audit/module.py:502`) | "the next successful log will retry" (`audit/module.py:340`) |
| `GapMarked` | `AuditLog` | the degraded flags do not survive a restart (`audit/module.py:520`) | "so auditors can find every gap" (`audit/module.py:291`) |
| `NothingLost` | `AuditLog` | the second rotation replaces the first `.jsonl.1`, and a refused rename removes the file (`audit/jsonl_store.py:262`) | "No data loss as long as the host's local disk survives" (`audit/jsonl_store.py:14`) |
| `NothingDropped` | `MemoryAudit` | a requeued batch is cut to the room left in the buffer, and a flush that `close` cancels loses its batch (`audit/store.py:459`) | "Nothing is ever silently dropped" (`audit/store.py:322`) |
| `GapAlarmMeansDeletion` | `KeyRotation` | the marker's `prev_hash` is the last row of the whole table, not of its session, and the linkage check is per session: an intact rotated table is "failed" (`audit/rotation.py:107`) | "``"failed"`` — chain checked and found a broken or missing link" (`compliance/report.py:490`) |
| `AlarmMeansDamage` | `KeyRotation`; or `ReadCanFail = FALSE`, `OpenWindow = TRUE` | a failed look for markers sends a rotated chain to the single-key path; an open window also reads rows behind the versions it loaded (`compliance/report.py:559`) | "Never raises — errors are logged and mapped to "unverified"" (`compliance/report.py:493`) |
| `WindowsFit` | `KeyRotation`, `Coordinated = FALSE` | nothing keeps processes with the old key from logging behind the marker (`audit/rotation.py:107`) | "Rotate the `GOVERNANCE_AUDIT_SECRET` without breaking historical verification" (`src/README.md:145`) |
| `LocalDenyWins` | `Gates` | `wait_for` returns the platform's verdict whatever the sync finds (`gates/module.py:575`) | "local ``denied`` (regardless of platform) -> raise" (`gates/module.py:476`) |
| `ResolvedAudited` | `Gates`, `AuditCanFail = TRUE` | `log` swallows a total storage failure, so the hook succeeds (`gates/postgres_store.py:177`) | "either both land, or neither does" (`gates/postgres_store.py:126`) |
| `ApprovalAudited` | `Gates` | `wait_for` returns True also when its sync found nothing to resolve or failed (`gates/module.py:576`) | "the audit row lands atomically with the state flip" (`gates/module.py:613`) |
| `NoStaleCard` | `Gates`, `BridgeLossy = FALSE` | a gate resolved before the platform acknowledged it is never reverse-synced (`gates/module.py:444`) | "doesn't leave a stale pending card" (`gates/module.py:434`) |
| `UsdCeilingDocumented` | `CostFaults` with one caller, no store failures, `SessionUsd = 2`, other caps and `MaxSpent` 9 | USD is not projected: one caller overshoots (`cost/module.py:661`) | "by up to (N-1) x per-call cost" (`cost/postgres_store.py:230`) |
| `TokenCeiling` | `Cost` with one caller | the projection is `max_tokens`, the usage includes the prompt (`cost/module.py:657`) | "eliminating the one-call-behind gap" (`cost/module.py:555`) |
| `AlertExact` | `CostFaults`, `StoreCanFail = FALSE` | the reads before and after an update may see two days (`cost/module.py:417`) | "fires exactly once" (`cost/module.py:393`) |
| `HaltBounded` | `HaltSwitch`, `Uptime = 0` | the cache time starts at 0.0 on a clock that counts from boot, so a never-filled cache is fresh for five seconds (`presence/module.py:603`) | "a worst-case 5-second delay" (`presence/module.py:25`) |
| `ForceFresh` | `HaltSwitch`, `DbCanFail = FALSE`, `TTL = 2`, `Uptime = 2`, `MaxTime = 3` | a forced refresh that waits takes the older answer of the one under way (`presence/module.py:609`) | "Force an immediate refresh … bypassing TTL" (`presence/module.py:695`) |
| `DuplicateIsSuccess` | `PlatformForward` | a duplicate 409 is counted as a conflict drop (`platform/client.py:776`) | "duplicate event_id — normal on retry; treat as success" (`platform/client.py:743`) |
| `HealRetries` | `PlatformForward`, `MaxRetries = 0`, `Faulty = FALSE` | the retry of the self-heal is given up before it is posted (`platform/client.py:699`) | "self-heal the counter and retry ONCE" (`platform/client.py:745`) |
| `CountedOnce` | `PlatformForward` | `close` counts the queue, then waits for gate forwards with the worker still sending (`platform/client.py:499`) | "still in the queue after the deadline are counted as drops" (`platform/client.py:475`) |
| `StoredInOrder` | `PlatformForward` | a request given up on may arrive behind later events (`platform/client.py:714`) | (nothing is promised of events given up on) |
| `NeverMissed` | `PolicyRegistry` | `updated_at` is stamped at BEGIN: a row that commits behind a later stamp already seen is never reloaded (`sdk.py:966`) | "Policies changed — reload and atomically replace" (`sdk.py:972`) |
| `NeverWiped` | `PolicyRegistry` | a reload takes away a policy whose upsert is still under way, deferred or failed (`sdk.py:985`) | the same |
| `BoundaryIsEvent` | `Identity`, `MaxSeq = 3` | the boundary is the head read after the event, which other rows have moved (`identity/revocation.py:248`) | "The chain event we just emitted IS the first row the revocation governs" (`identity/revocation.py:229`; a TODO at 235 names the race) |
| `EventMeansRevoked` | `Identity` | the event is in the chain before the row is stored: a crash in between announces a revocation that is not in force (`identity/revocation.py:259`) | — |
| `CollisionSurfaced` | `Identity`, `MaxRare = 2` | two transactions look for each other before either commits (`identity/registry.py:236`) | "guarantees at least one process in a concurrent pair surfaces the overlap loudly" (`identity/registry.py:197`) |
| `OneKey` | `Identity` | two processes that find no key file both create it, the first one's key survives only in memory (`identity/keystore.py:151`) | — |
| `OwnKeyKnown` | `Identity` | a registration refused or without a head is taken for an earlier one (`sdk.py:811`) | "Already registered under the same key — idempotent" (`sdk.py:812`) |

Seen while modelling and not stated as properties:

* A memory buffer drained while older events are still in the file changes their order, and a
  crash after it forks the fallback chain against rows already drained, which is why
  `FallbackLinear` speaks of what waits in the fallback.
* The self-heal never moves the counter back (`platform/client.py:759`): once ahead, it costs
  every event a 409.
* `rotate_chain_key`'s docstring says the outgoing key is retired at the marker
  (`audit/rotation.py:64`, step 7), the code at the row behind it, which `WindowsFit` needs. The
  SELECT of `governance verify` (`cli/commands.py:240`) leaves out `model`, which the hash
  covers.
* `start` flushes the wrapper registrations before the policies (`sdk.py:1076`), so a new
  agent's are rejected, and one rejected row aborts the others of the transaction
  (`coverage/registry.py:192` says "one bad row must not block the rest of the flush"). Registrations through the
  facade after `start` are deferred and never stored.
* `async for chunk in await client.messages.create(stream=True)` names no proxy: it is
  collected once iteration has begun, its finalizer sets `reconciled`, and the usage of
  the stream is never reconciled (`integrations/anthropic_wrap.py:523`); `CallAudited`
  allows this end. A call cancelled while it waits for its audit task leaves its usage
  untracked (`integrations/anthropic_wrap.py:926`).
* Under `enforce=True` the LangChain handler lets a tool run whose scope violation could not be
  logged (`integrations/langchain_handler.py:208`): `GatesHold` excepts it. `LoopDetected` is
  swallowed there too.
* A contract's `audit_logged` condition is met by any older event that names the tool, the
  event of an earlier violation included; an approval is not used up by the call.
* A revocation whose head read fails stores boundary 0 and repudiates every row of its key, and
  one that revokes the process's own key repudiates its own event
  (`identity/revocation.py:248`). `is_revoked_at`, which the synchronous verifier
  uses, does not see revocations of other processes.

## 7. Assumptions about what is not in the repository

The platform stores an event once, under the next sequence number of its workflow, and
answers 409 otherwise (read off how `platform/client.py` handles the answers). A
gate decided once on the platform keeps its verdict. Postgres gives atomic
statements, row locks and transaction-scoped advisory locks, and rolls back
transactions of lost connections. Clearing a halt is an operator's own UPDATE.

## 8. Plan

Done: the modules of section 2, with proofs for all eleven that model the system
(`ChainLog` is the specification two of them implement).

Next proofs: action properties of the components that have an inductive invariant (a counted
outcome of the bridge is final, a reload's mark never falls, a trail only grows); `AlertExact`
for the days that are over, across midnight.

Next modules: the threads of the synchronous facade (a caller blocked in `result()` when
`close` stops the loop, a `close` that times out); two processes on one JSONL file; the
sliding window of the loop detector with its clock.

## 9. Not modelled, and why

* `compliance/` beyond the chain verification, `cost/csv_export.py`,
  `audit/otel_exporter.py`, `coverage/compute.py`: read-only aggregation and formatting.
* `audit/sanitization.py`, `audit/corrections.py`, `cost/pricing.py`: sequential
  transformations of data without shared state.
* `cli/` beyond `rotate-chain-key` and `verify`, `recipes/`, the other migrations:
  scaffolding, one-shot commands and schema.
* `platform/config.py`, `security/`: validation at construction.
* Within modelled components: the bytes of the JSONL file (a line cut by a crash), two
  processes on one JSONL file, the HMAC verification of tokens, the session time limit's
  clock (a denial may come at any time), the webhook POST of an alert, a halt whose commit
  acknowledgement is lost, custom contract checks, the movement of the loop detector's
  window, the LLM and chain callbacks of LangChain, the key cache of `audit/keys.py`, the
  drain of a spooled revocation event, more than one agent id per identity, and the threads
  of the synchronous facade.
