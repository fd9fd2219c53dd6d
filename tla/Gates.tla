------------------------------- MODULE Gates --------------------------------
(***************************************************************************)
(* Human-in-the-loop approval gates: GatesModule over its store, the       *)
(* wait_for polling loop, and the platform bridge as the gates module sees *)
(* it.                                                                     *)
(*                                                                         *)
(* A resolution is a transaction on the pending row: the single-use UPDATE *)
(* (WHERE resolved_at IS NULL) takes the row lock, the on_commit hook then *)
(* writes the audit row on another engine, and only then the transaction   *)
(* commits.  Operators run it for grant/deny; a waiter runs it to write a  *)
(* platform verdict back.  The in-memory store's asyncio lock gives the    *)
(* same atomic unit.                                                       *)
(*                                                                         *)
(* A token is as good as its request: forging one is outside the model, so *)
(* parse_token comes down to the expiry check.                             *)
(***************************************************************************)
EXTENDS Naturals, FiniteSets

CONSTANTS
    Requests,       \* request ids
    Operators,      \* concurrent grant / deny calls
    Waiters,        \* concurrent wait_for calls
    NoOne,          \* no transaction holds the row lock
    PlatformWired,  \* a PlatformClient was given to the module
    AuditCanFail,   \* audit.log may end with a placeholder: no row anywhere
    BridgeLossy     \* requests to the platform may be dropped

Resolvers == Operators \cup Waiters
Verdicts  == {"granted", "denied"}

ASSUME RolesAssumption == Operators \cap Waiters = {} /\ NoOne \notin Resolvers
ASSUME FlagsAssumption == {PlatformWired, AuditCanFail, BridgeLossy} \subseteq BOOLEAN

VARIABLES
    opened,         \* requests whose token exists (request() got past make_token)
    row,            \* the committed governance_gates_pending row
    rowLock,        \* the transaction holding each row's lock
    expired,        \* requests whose expires_at has passed
    tx,             \* each resolver's transaction
    audit,          \* approval.granted / approval.denied rows: <<request, verdict>>
    wait,           \* each wait_for call
    late,           \* wait_for calls whose deadline has passed
    plat,           \* the platform's own view of each gate
    forward,        \* the forward_gate_request task of each gate
    notify          \* reverse-sync tasks under way: <<request, verdict>>

vars == <<opened, row, rowLock, expired, tx, audit, wait, late, plat, forward, notify>>

localVars    == <<opened, row, rowLock, expired, tx, audit>>
waitVars     == <<wait, late>>
platformVars == <<plat, forward, notify>>

Txs   == [phase : {"idle", "begun", "updated", "audited"},
          req : Requests, verdict : Verdicts]
Waits == [pc : {"idle", "local", "platform", "sync", "syncing", "timeout"} \cup Verdicts,
          req : Requests, verdict : Verdicts]

TypeOK ==
    /\ opened \subseteq Requests
    /\ row \in [Requests -> {"absent", "pending", "purged"} \cup Verdicts]
    /\ rowLock \in [Requests -> Resolvers \cup {NoOne}]
    /\ expired \subseteq Requests
    /\ tx \in [Resolvers -> Txs]
    /\ audit \subseteq Requests \X Verdicts
    /\ wait \in [Waiters -> Waits]
    /\ late \subseteq Waiters
    /\ plat \in [Requests -> {"unknown", "pending"} \cup Verdicts]
    /\ forward \in [Requests -> {"none", "inflight", "acked", "dropped"}]
    /\ notify \subseteq Requests \X Verdicts

Init ==
    /\ opened = {}
    /\ row = [r \in Requests |-> "absent"]
    /\ rowLock = [r \in Requests |-> NoOne]
    /\ expired = {}
    /\ tx \in [Resolvers -> {[phase |-> "idle", req |-> r, verdict |-> "denied"] : r \in Requests}]
    /\ audit = {}
    /\ wait \in [Waiters -> {[pc |-> "idle", req |-> r, verdict |-> "denied"] : r \in Requests}]
    /\ late = {}
    /\ plat = [r \in Requests |-> "unknown"]
    /\ forward = [r \in Requests |-> "none"]
    /\ notify = {}

-----------------------------------------------------------------------------
(* The agent: request().                                                   *)

(* The token is minted; the pending row is inserted, or the insert fails   *)
(* and the request is returned anyway; the platform forward is spawned.    *)
Request(r) ==
    /\ r \notin opened
    /\ opened' = opened \cup {r}
    /\ \/ row' = [row EXCEPT ![r] = "pending"]
       \/ UNCHANGED row
    /\ forward' = IF PlatformWired THEN [forward EXCEPT ![r] = "inflight"] ELSE forward
    /\ UNCHANGED <<rowLock, expired, tx, audit, waitVars, plat, notify>>

(* The clock passes expires_at.                                            *)
Expire(r) ==
    /\ r \in opened \ expired
    /\ expired' = expired \cup {r}
    /\ UNCHANGED <<opened, row, rowLock, tx, audit, waitVars, platformVars>>

-----------------------------------------------------------------------------
(* store.resolve(request_id, verdict, on_commit), run by a resolver x.     *)

Begin(x, r, v) == tx' = [tx EXCEPT ![x] = [phase |-> "begun", req |-> r, verdict |-> v]]

(* grant(token) / deny(token): parse_token refuses an expired token; the   *)
(* get_pending cross-check only compares hashes.                           *)
Resolve(o, r, v) ==
    /\ tx[o].phase = "idle"
    /\ r \in opened \ expired
    /\ Begin(o, r, v)
    /\ UNCHANGED <<opened, row, rowLock, expired, audit, waitVars, platformVars>>

(* Fault: the UPDATE without its WHERE resolved_at IS NULL.                *)
UpdateAnyRow(x) ==
    LET r == tx[x].req IN
    /\ tx[x].phase = "begun"
    /\ rowLock[r] = NoOne
    /\ IF row[r] \in {"pending"} \cup Verdicts
         THEN /\ tx' = [tx EXCEPT ![x].phase = "updated"]
              /\ rowLock' = [rowLock EXCEPT ![r] = x]
         ELSE /\ tx' = [tx EXCEPT ![x].phase = "idle"]
              /\ UNCHANGED rowLock
    /\ UNCHANGED <<opened, row, expired, audit, waitVars, platformVars>>

(* UPDATE ... WHERE resolved_at IS NULL.  It waits for the row lock, then  *)
(* matches the row or finds nothing to update (ApprovalTokenError).        *)
Update(x) ==
    LET r == tx[x].req IN
    /\ tx[x].phase = "begun"
    /\ rowLock[r] = NoOne
    /\ IF row[r] = "pending"
         THEN /\ tx' = [tx EXCEPT ![x].phase = "updated"]
              /\ rowLock' = [rowLock EXCEPT ![r] = x]
         ELSE /\ tx' = [tx EXCEPT ![x].phase = "idle"]
              /\ UNCHANGED rowLock
    /\ UNCHANGED <<opened, row, expired, audit, waitVars, platformVars>>

(* on_commit: audit.log commits its own row, or swallows a total storage   *)
(* failure and returns a placeholder.  Either way the hook does not raise. *)
EmitAudit(x) ==
    /\ tx[x].phase = "updated"
    /\ tx' = [tx EXCEPT ![x].phase = "audited"]
    /\ \/ audit' = audit \cup {<<tx[x].req, tx[x].verdict>>}
       \/ AuditCanFail /\ UNCHANGED audit
    /\ UNCHANGED <<opened, row, rowLock, expired, waitVars, platformVars>>

EndTx(x) ==
    /\ tx' = [tx EXCEPT ![x].phase = "idle"]
    /\ rowLock' = [rowLock EXCEPT ![tx[x].req] = NoOne]

(* Fault: the commit does not wait for the on_commit hook.                 *)
CommitTxBeforeAudit(x) ==
    LET r == tx[x].req IN
    /\ tx[x].phase \in {"updated", "audited"}
    /\ row' = [row EXCEPT ![r] = tx[x].verdict]
    /\ EndTx(x)
    /\ UNCHANGED <<opened, expired, audit, waitVars, platformVars>>

(* COMMIT.  An operator's call then tells the platform about it, if the    *)
(* platform has acknowledged the gate; a lost acknowledgement of the       *)
(* commit makes the call raise, and nothing is told.                       *)
CommitTx(x) ==
    LET r == tx[x].req IN
    /\ tx[x].phase = "audited"
    /\ row' = [row EXCEPT ![r] = tx[x].verdict]
    /\ EndTx(x)
    /\ \/ notify' = IF x \in Operators /\ forward[r] = "acked"
                      THEN notify \cup {<<r, tx[x].verdict>>} ELSE notify
       \/ BridgeLossy /\ UNCHANGED notify
    /\ UNCHANGED <<opened, expired, audit, waitVars, plat, forward>>

(* Fault: the connection is abandoned with its row lock.                   *)
RollbackTxKeepsLock(x) ==
    /\ tx[x].phase \in {"updated", "audited"}
    /\ tx' = [tx EXCEPT ![x].phase = "idle"]
    /\ UNCHANGED <<opened, row, rowLock, expired, audit, waitVars, platformVars>>

(* The connection or the process is lost before the commit: the UPDATE is  *)
(* rolled back, the audit row of an already-run hook stays.                *)
RollbackTx(x) ==
    /\ tx[x].phase \in {"updated", "audited"}
    /\ EndTx(x)
    /\ UNCHANGED <<opened, row, expired, audit, waitVars, platformVars>>

(* cleanup_resolved: old resolved rows are deleted, pending ones never.    *)
Cleanup(r) ==
    /\ row[r] \in Verdicts
    /\ row' = [row EXCEPT ![r] = "purged"]
    /\ UNCHANGED <<opened, rowLock, expired, tx, audit, waitVars, platformVars>>

-----------------------------------------------------------------------------
(* wait_for(request_id, timeout).                                          *)

Goto(w, pc) == wait' = [wait EXCEPT ![w].pc = pc]

StartWait(w, r) ==
    /\ wait[w].pc = "idle"
    /\ r \in opened
    /\ wait' = [wait EXCEPT ![w] = [pc |-> "local", req |-> r, verdict |-> "denied"]]
    /\ UNCHANGED <<localVars, late, platformVars>>

DeadlinePasses(w) ==
    /\ wait[w].pc \notin {"idle", "timeout"} \cup Verdicts
    /\ w \notin late
    /\ late' = late \cup {w}
    /\ UNCHANGED <<localVars, wait, platformVars>>

(* get_resolution: a verdict ends the call; a pending or missing row, like *)
(* a failed read, goes on to the platform.                                 *)
PollLocal(w) ==
    /\ wait[w].pc = "local"
    /\ \/ row[wait[w].req] \in Verdicts /\ Goto(w, row[wait[w].req])
       \/ Goto(w, "platform")
    /\ UNCHANGED <<localVars, late, platformVars>>

(* Fault: the deadline is reported as a denial.                            *)
NoVerdictDenies(w) ==
    /\ wait[w].pc = "platform"
    /\ Goto(w, IF w \in late THEN "denied" ELSE "local")
    /\ UNCHANGED <<localVars, late, platformVars>>

(* No verdict this tick (not wired, not due, pending, failed): give up at  *)
(* the deadline, or sleep and start over.                                  *)
NoVerdict(w) ==
    /\ wait[w].pc = "platform"
    /\ Goto(w, IF w \in late THEN "timeout" ELSE "local")
    /\ UNCHANGED <<localVars, late, platformVars>>

(* poll_gate_resolution returned a terminal verdict.                       *)
PollPlatform(w) ==
    /\ wait[w].pc = "platform"
    /\ plat[wait[w].req] \in Verdicts
    /\ wait' = [wait EXCEPT ![w].pc = "sync", ![w].verdict = plat[wait[w].req]]
    /\ UNCHANGED <<localVars, late, platformVars>>

(* _sync_platform_resolution: nothing to do when the row is not pending or *)
(* cannot be read; otherwise resolve it with the platform's verdict.       *)
SyncPlatform(w) ==
    /\ wait[w].pc = "sync"
    /\ \/ /\ row[wait[w].req] = "pending"
          /\ Begin(w, wait[w].req, wait[w].verdict)
          /\ Goto(w, "syncing")
       \/ /\ Goto(w, wait[w].verdict)
          /\ UNCHANGED tx
    /\ UNCHANGED <<opened, row, rowLock, expired, audit, late, platformVars>>

(* The sync committed, lost the race or failed: the caller gets the        *)
(* platform's verdict in every case.                                       *)
ReturnSynced(w) ==
    /\ wait[w].pc = "syncing"
    /\ tx[w].phase = "idle"
    /\ Goto(w, wait[w].verdict)
    /\ UNCHANGED <<localVars, late, platformVars>>

-----------------------------------------------------------------------------
(* The platform, seen through PlatformClient.                              *)

(* The POST of the gate arrives (2xx or 409), or is given up after its     *)
(* retries; a lost response leaves a gate the client does not count as     *)
(* forwarded.                                                              *)
ForwardGate(r) ==
    /\ forward[r] = "inflight"
    /\ \/ /\ plat' = [plat EXCEPT ![r] = "pending"]
          /\ forward' = [forward EXCEPT ![r] = "acked"]
       \/ /\ BridgeLossy
          /\ plat' \in {plat, [plat EXCEPT ![r] = "pending"]}
          /\ forward' = [forward EXCEPT ![r] = "dropped"]
    /\ UNCHANGED <<localVars, waitVars, notify>>

(* A reviewer decides in the platform's inbox.                             *)
PlatformDecide(r, v) ==
    /\ plat[r] = "pending"
    /\ plat' = [plat EXCEPT ![r] = v]
    /\ UNCHANGED <<localVars, waitVars, forward, notify>>

(* notify_local_resolution's POST arrives; a second verdict is a no-op.    *)
NotifyArrives(r, v) ==
    /\ <<r, v>> \in notify
    /\ notify' = notify \ {<<r, v>>}
    /\ \/ plat' = IF plat[r] = "pending" THEN [plat EXCEPT ![r] = v] ELSE plat
       \/ BridgeLossy /\ UNCHANGED plat
    /\ UNCHANGED <<localVars, waitVars, forward>>

-----------------------------------------------------------------------------
TxStep(x)   == Update(x) \/ EmitAudit(x) \/ CommitTx(x) \/ RollbackTx(x)
WaitStep(w) == PollLocal(w) \/ NoVerdict(w) \/ PollPlatform(w)
                 \/ SyncPlatform(w) \/ ReturnSynced(w)

Next ==
    \/ \E r \in Requests : Request(r) \/ Expire(r) \/ Cleanup(r) \/ ForwardGate(r)
    \/ \E o \in Operators, r \in Requests, v \in Verdicts : Resolve(o, r, v)
    \/ \E x \in Resolvers : TxStep(x)
    \/ \E w \in Waiters, r \in Requests : StartWait(w, r)
    \/ \E w \in Waiters : DeadlinePasses(w) \/ WaitStep(w)
    \/ \E r \in Requests, v \in Verdicts : PlatformDecide(r, v) \/ NotifyArrives(r, v)

Spec == Init /\ [][Next]_vars

(* Coroutines of a live event loop keep running, the clock reaches every   *)
(* deadline, transactions end, and a spawned bridge task finishes.         *)
Fairness ==
    /\ \A x \in Resolvers : WF_vars(EmitAudit(x) \/ CommitTx(x) \/ RollbackTx(x))
    /\ \A x \in Resolvers : SF_vars(Update(x))
    /\ \A w \in Waiters : WF_vars(WaitStep(w)) /\ WF_vars(DeadlinePasses(w))
    /\ \A r \in Requests : WF_vars(ForwardGate(r))
    /\ \A r \in Requests, v \in Verdicts : WF_vars(NotifyArrives(r, v))

FairSpec == Spec /\ Fairness

-----------------------------------------------------------------------------
(* A resolved gate keeps its verdict: whatever grants, denials, retries    *)
(* and platform syncs race, no step turns granted into denied, back into   *)
(* pending, or the other way round (tokens are single-use).                *)
SingleUse ==
    [][\A r \in Requests : row[r] \in Verdicts => row'[r] \in {row[r], "purged"}]_vars

(* "Either both land, or neither does": a gate that is resolved in the     *)
(* store has an audit row with the same verdict, written before it.        *)
ResolvedAudited == \A r \in Requests : row[r] \in Verdicts => <<r, row[r]>> \in audit

(* wait_for never returns a verdict that nobody gave: the verdict is in    *)
(* the audit trail or is the platform's.                                   *)
VerdictGiven ==
    \A w \in Waiters : wait[w].pc \in Verdicts =>
        \/ <<wait[w].req, wait[w].pc>> \in audit
        \/ plat[wait[w].req] = wait[w].pc

(* wait_for ends, by a verdict or by its timeout, even while the row it    *)
(* wants to sync is locked by somebody else's resolution.                  *)
WaitEnds ==
    \A w \in Waiters : wait[w].pc = "local" ~> wait[w].pc \in Verdicts \cup {"timeout"}

-----------------------------------------------------------------------------
(* What comments of the code say and the code does not keep; the README    *)
(* gives for each the constants under which TLC shows it.                  *)

(* "local denied (regardless of platform) -> raise ApprovalDenied": the    *)
(* step that returns granted never finds the gate denied in the store.     *)
LocalDenyWins ==
    [][\A w \in Waiters : wait[w].pc # "granted" /\ wait'[w].pc = "granted"
          => row[wait[w].req] # "denied"]_vars

(* An action that ran on an approval (wait_for returned True) left an      *)
(* approval.granted row in the customer's audit trail.                     *)
ApprovalAudited ==
    \A w \in Waiters : wait[w].pc = "granted" => <<wait[w].req, "granted">> \in audit

(* The reverse sync leaves no stale card: once a gate is resolved locally  *)
(* and known to the platform, the platform does not show it as pending     *)
(* for ever.                                                               *)
NoStaleCard ==
    \A r \in Requests :
        row[r] \in Verdicts /\ forward[r] = "acked" ~> plat[r] # "pending"

=============================================================================
