----------------------------- MODULE KeyRotation -----------------------------
(***************************************************************************)
(* The audit table with a rotating HMAC key: rotate_chain_key writes a     *)
(* marker signed by both keys and moves the key windows in one             *)
(* transaction; the compliance report verifies a window of the table       *)
(* across rotations; `governance verify` and AuditModule.verify_chain      *)
(* verify one session under one key.                                       *)
(*                                                                         *)
(* An hmac is the chain_seq of the row it was computed for: every row has  *)
(* a fresh event_id, so no two rows share one.  A row keeps the key that   *)
(* made its hmac, and whether a covered field was changed since.  A key    *)
(* stands for its fingerprint too.  Writing a row is one step, the atomic  *)
(* append that AuditChain implements.                                      *)
(***************************************************************************)
EXTENDS Naturals, FiniteSets, FiniteSetsExt

CONSTANTS
    Keys,            \* key material (and its salted fingerprint)
    FirstKey,        \* the key registered when the table was set up
    NoKey,           \* hmac_next IS NULL
    Sessions,
    SystemSession,   \* session of the markers, 00000000-...-0001
    Rotators,        \* concurrent runs of rotate-chain-key
    MaxSeq,          \* bound on the BIGSERIAL chain_seq
    Window,          \* _CHAIN_VERIFY_WINDOW
    MaxDamage,       \* bound on rows changed or deleted behind the SDK's back
    Coordinated,     \* writers are stopped before a rotation, restarted after it
    OpenWindow,      \* run_chain_verification_windowed is called with from_seq only
    ReadCanFail      \* queries of the report may fail

ASSUME RotationAssumption ==
    /\ FirstKey \in Keys /\ NoKey \notin Keys
    /\ SystemSession \in Sessions
    /\ MaxSeq \in Nat /\ Window \in Nat \ {0} /\ MaxDamage \in Nat
    /\ {Coordinated, OpenWindow, ReadCanFail} \subseteq BOOLEAN

VARIABLES
    rows,            \* the committed rows of governance_audit_events by chain_seq
    nextSeq,         \* the next value of the chain_seq sequence
    versions,        \* the committed rows of governance_audit_chain_keys
    fleet,           \* the keys running processes sign with
    rot,             \* each rotation's transaction
    secret,          \* the reporting process's GOVERNANCE_AUDIT_SECRET
    rep,             \* the report under way
    changed, deleted \* rows changed, rows deleted (history)

table == <<rows, nextSeq, versions>>
damage == <<changed, deleted>>
vars == <<table, fleet, rot, secret, rep, damage>>

Seqs == 1..MaxSeq
None == 0
Row == [sess : Sessions, key : Keys, next : Keys \cup {NoKey},
        prev : Seqs \cup {None}, intact : BOOLEAN]
Version == [key : Keys, from : 1..MaxSeq + 1, to : (1..MaxSeq + 1) \cup {None}]

NotRotating == [pc |-> "idle", out |-> NoKey, in |-> NoKey, prev |-> None, seq |-> None]
NotReporting == [pc |-> "idle", from |-> None, to |-> None, rotated |-> FALSE,
                 versions |-> {}, failed |-> FALSE]

TypeOK ==
    /\ DOMAIN rows \subseteq Seqs
    /\ \A q \in DOMAIN rows : rows[q] \in Row
    /\ nextSeq \in 1..MaxSeq + 1
    /\ versions \subseteq Version
    /\ fleet \subseteq Keys
    /\ \A r \in Rotators :
         /\ rot[r].pc \in {"idle", "read", "marked"}
         /\ {rot[r].out, rot[r].in} \subseteq Keys \cup {NoKey}
         /\ {rot[r].prev, rot[r].seq} \subseteq Seqs \cup {None}
    /\ secret \in Keys
    /\ rep.pc \in {"idle", "head", "markers", "versions"}
    /\ {rep.from, rep.to} \subseteq Seqs \cup {None}
    /\ {rep.rotated, rep.failed} \subseteq BOOLEAN
    /\ rep.versions \subseteq Version
    /\ changed \subseteq Seqs
    /\ deleted \subseteq [seq : Seqs, sess : Sessions, top : Seqs]

Init ==
    /\ rows = <<>>
    /\ nextSeq = 1
    /\ versions = {[key |-> FirstKey, from |-> 1, to |-> None]}
    /\ fleet = {FirstKey}
    /\ rot = [r \in Rotators |-> NotRotating]
    /\ secret = FirstKey
    /\ rep = NotReporting
    /\ changed = {} /\ deleted = {}

-----------------------------------------------------------------------------
(* Writers and deployments.                                                *)

OfSession(tab, s) == {q \in DOMAIN tab : tab[q].sess = s}

LastOf(S) == IF S = {} THEN None ELSE Max(S)

Put(q, row) == rows' = [p \in DOMAIN rows \cup {q} |-> IF p = q THEN row ELSE rows[p]]

(* audit.log of a process that signs with k: an atomic linked append.      *)
Log(s, k) ==
    /\ k \in fleet /\ nextSeq \in Seqs
    /\ Put(nextSeq, [sess |-> s, key |-> k, next |-> NoKey,
                     prev |-> LastOf(OfSession(rows, s)), intact |-> TRUE])
    /\ nextSeq' = nextSeq + 1
    /\ UNCHANGED <<versions, fleet, rot, secret, rep, damage>>

Current(k) == \E v \in versions : v.key = k /\ v.to = None

(* Processes start with a key, or stop.  Operators that coordinate a       *)
(* rotation start processes with the current key, between rotations.       *)
Deploy(k) ==
    /\ \E v \in versions : v.key = k
    /\ Coordinated => Current(k) /\ \A r \in Rotators : rot[r].pc = "idle"
    /\ fleet' = fleet \cup {k}
    /\ UNCHANGED <<table, rot, secret, rep, damage>>

Stop ==
    /\ fleet # {}
    /\ fleet' = {}
    /\ UNCHANGED <<table, rot, secret, rep, damage>>

(* A row is changed in place, or deleted, behind the SDK's back.           *)
Damage(q) ==
    /\ Cardinality(changed) + Cardinality(deleted) < MaxDamage
    /\ q \in DOMAIN rows
    /\ \/ /\ rows' = [rows EXCEPT ![q].intact = FALSE]
          /\ changed' = changed \cup {q}
          /\ UNCHANGED deleted
       \/ /\ rows' = [p \in DOMAIN rows \ {q} |-> rows[p]]
          /\ deleted' = deleted \cup {[seq |-> q, sess |-> rows[q].sess,
                                      top |-> Max(OfSession(rows, rows[q].sess))]}
          /\ UNCHANGED changed
    /\ UNCHANGED <<nextSeq, versions, fleet, rot, secret, rep>>

-----------------------------------------------------------------------------
(* rotate_chain_key: one transaction under READ COMMITTED.                 *)

(* The version of the outgoing key is looked up and the last row of the    *)
(* table, of any session, is read.  Neither read takes a lock.             *)
RotateBegin(r, out, in) ==
    /\ rot[r].pc = "idle" /\ in # out
    /\ Coordinated => fleet = {} /\ \A o \in Rotators : rot[o].pc = "idle"
    /\ Current(out)
    /\ rot' = [rot EXCEPT ![r] = [pc |-> "read", out |-> out, in |-> in,
                                  prev |-> LastOf(DOMAIN rows), seq |-> None]]
    /\ UNCHANGED <<table, fleet, secret, rep, damage>>

(* INSERT of the marker: its chain_seq is assigned, nobody sees it yet.    *)
RotateMarker(r) ==
    /\ rot[r].pc = "read" /\ nextSeq \in Seqs
    /\ rot' = [rot EXCEPT ![r].pc = "marked", ![r].seq = nextSeq]
    /\ nextSeq' = nextSeq + 1
    /\ UNCHANGED <<rows, versions, fleet, secret, rep, damage>>

(* Fault: the outgoing key is retired at the marker, not behind it.        *)
HandOverAtMarker(vs, out, in, seq) ==
    {[v EXCEPT !.to = IF v.key = out /\ v.to = None THEN seq ELSE @] : v \in vs}
      \cup {[key |-> in, from |-> seq + 1, to |-> None]}

(* The key windows after the marker: the outgoing key covers the marker,   *)
(* the incoming one the rows behind it.                                    *)
HandOver(vs, out, in, seq) ==
    {[v EXCEPT !.to = IF v.key = out /\ v.to = None THEN seq + 1 ELSE @] : v \in vs}
      \cup {[key |-> in, from |-> seq + 1, to |-> None]}

(* The new version, the retirement and COMMIT.  A fingerprint is UNIQUE;   *)
(* "AND retired_at_chain_seq IS NULL" is evaluated after any wait for the  *)
(* row lock, so a version retired meanwhile is left as it is.              *)
RotateCommit(r) ==
    LET t == rot[r] IN
    /\ t.pc = "marked"
    /\ \A v \in versions : v.key # t.in
    /\ Put(t.seq, [sess |-> SystemSession, key |-> t.out, next |-> t.in,
                   prev |-> t.prev, intact |-> TRUE])
    /\ versions' = HandOver(versions, t.out, t.in, t.seq)
    /\ rot' = [rot EXCEPT ![r] = NotRotating]
    /\ UNCHANGED <<nextSeq, fleet, secret, rep, damage>>

(* Any error rolls back; only the chain_seq of the marker is gone.         *)
RotateAbort(r) ==
    /\ rot[r].pc # "idle"
    /\ rot' = [rot EXCEPT ![r] = NotRotating]
    /\ UNCHANGED <<table, fleet, secret, rep, damage>>

-----------------------------------------------------------------------------
(* The reporting process restarts with a current key.                      *)
RestartReporter(k) ==
    /\ Current(k)
    /\ secret' = k
    /\ rep' = NotReporting
    /\ UNCHANGED <<table, fleet, rot, damage>>

-----------------------------------------------------------------------------
(* Verification of rows.  avail stands for the keys resolve_key finds: the *)
(* fingerprints with a URI whose environment variable or file holds the    *)
(* key.  A verification may meet any set of them, whatever the operator    *)
(* has provisioned and the cache has kept from earlier answers.            *)

(* find_active_key_at_seq: the latest version whose window contains q.     *)
Active(q, vs) ==
    LET open == {v \in vs : v.from <= q /\ (v.to = None \/ v.to > q)} IN
    IF open = {} THEN NoKey
    ELSE (CHOOSE v \in open : \A w \in open : w.from <= v.from).key

(* verify_event: the hmac, recomputed under a key, compared.               *)
VerifyEvent(row, k) == row.intact /\ row.key = k

VerifyMarker(row, out, in) == VerifyEvent(row, out) /\ row.intact /\ row.next = in

(* Fault: a row whose key cannot be resolved counts as failed.             *)
RowStatusStrict(q, tab, vs, avail) ==
    LET out == Active(q, vs) IN
    IF out # NoKey /\ out \in avail /\ VerifyEvent(tab[q], out) THEN "ok" ELSE "failed"

(* One row of verify_chain_with_rotation.                                  *)
RowStatus(q, tab, vs, avail) ==
    LET out == Active(q, vs)
        in  == Active(q + 1, vs)
        Verdict(ok) == IF ok THEN "ok" ELSE "failed" IN
    IF out = NoKey \/ out \notin avail THEN "unverified"
    ELSE IF tab[q].next = NoKey THEN Verdict(VerifyEvent(tab[q], out))
    ELSE IF in \in {NoKey, out} \/ in \notin avail THEN "unverified"
    ELSE Verdict(VerifyMarker(tab[q], out, in))

(* Fault: only the sessions' first rows are checked.                       *)
LinkedGenesisOnly(tab, genesis) ==
    \A s \in Sessions : LET S == OfSession(tab, s) IN
      genesis /\ S # {} => tab[Min(S)].prev = None

(* _check_per_session_linkage, pass 0 and pass 2 of verify_chain_records:  *)
(* each row names the row before it in its session, the first one none.    *)
LinkedRows(tab, genesis) ==
    \A s \in Sessions : LET S == OfSession(tab, s) IN
      \A q \in S :
        LET before == {p \in S : p < q} IN
        IF before = {} THEN genesis => tab[q].prev = None
        ELSE tab[q].prev = Max(before)

(* The verdict over loaded rows, and why: "mac" a hash, "gap" the links.   *)
Judge(tab, macs, genesis) ==
    IF DOMAIN tab = {} THEN <<"unverified", "empty">>
    ELSE IF "failed" \in macs THEN <<"failed", "mac">>
    ELSE IF "unverified" \in macs THEN <<"unverified", "keys">>
    ELSE IF LinkedRows(tab, genesis) THEN <<"verified", "all">>
    ELSE <<"failed", "gap">>

-----------------------------------------------------------------------------
(* _run_chain_verification on Postgres: each read is a connection of its   *)
(* own.  A failing read does not end it.                                   *)

(* The default window is the last rows below MAX(chain_seq); without an    *)
(* answer (no rows, or an error) the window is the whole table.  The       *)
(* console may also pass from_seq alone.                                   *)
ReadHead(fails) ==
    /\ rep.pc = "idle" /\ (fails => ReadCanFail)
    /\ LET head == IF fails THEN None ELSE LastOf(DOMAIN rows) IN
       \/ rep' = [rep EXCEPT !.pc = "head", !.to = head, !.failed = fails,
                             !.from = IF head >= Window THEN head + 1 - Window ELSE None]
       \/ /\ OpenWindow /\ ~fails
          /\ \E f \in Seqs : rep' = [rep EXCEPT !.pc = "head", !.from = f]
    /\ UNCHANGED <<table, fleet, rot, secret, damage>>

(* _has_rotation_markers; an error counts as "no marker".                  *)
ReadMarkers(fails) ==
    /\ rep.pc = "head" /\ (fails => ReadCanFail)
    /\ rep' = [rep EXCEPT !.pc = "markers", !.failed = @ \/ fails,
                          !.rotated = ~fails /\ \E q \in DOMAIN rows : rows[q].next # NoKey]
    /\ UNCHANGED <<table, fleet, rot, secret, damage>>

(* _load_key_versions; an error is an empty table.                         *)
ReadVersions(fails) ==
    /\ rep.pc = "markers" /\ rep.rotated /\ (fails => ReadCanFail)
    /\ rep' = [rep EXCEPT !.pc = "versions", !.failed = @ \/ fails,
                          !.versions = IF fails THEN {} ELSE versions]
    /\ UNCHANGED <<table, fleet, rot, secret, damage>>

InWindow(q) == q >= rep.from /\ (rep.to = None \/ q <= rep.to)

Loaded == [q \in {p \in DOMAIN rows : InWindow(p)} |-> rows[q]]

Genesis == rep.from = None

(* What the report says of the rows it loads now, rotation-aware: the      *)
(* hash of each row under the key of its place, then the links.            *)
RotatedVerdict(avail) ==
    Judge(Loaded, {RowStatus(q, Loaded, rep.versions, avail) : q \in DOMAIN Loaded}, Genesis)

UnderSecret(tab) ==
    {IF VerifyEvent(tab[q], secret) THEN "ok" ELSE "failed" : q \in DOMAIN tab}

(* What the single-key path says: every row under this process's secret.   *)
SingleKeyVerdict == Judge(Loaded, UnderSecret(Loaded), Genesis)

(* verify_chain, trace_session_chain, `governance verify`: the rows of one *)
(* session in one query, all under one secret, links and genesis checked.  *)
SessionVerdict(s) ==
    LET tab == [q \in OfSession(rows, s) |-> rows[q]] IN Judge(tab, UnderSecret(tab), TRUE)

(* _load_chain_rows and the verdict; loading may fail, which makes the     *)
(* report "unverified".                                                    *)
ReportEnds ==
    /\ rep.pc = "versions" \/ (rep.pc = "markers" /\ (~rep.rotated \/ ReadCanFail))
    /\ rep' = NotReporting
    /\ UNCHANGED <<table, fleet, rot, secret, damage>>

-----------------------------------------------------------------------------
Next ==
    \/ \E s \in Sessions, k \in Keys : Log(s, k)
    \/ \E k \in Keys : Deploy(k) \/ RestartReporter(k)
    \/ Stop
    \/ \E q \in Seqs : Damage(q)
    \/ \E r \in Rotators :
         \/ \E out, in \in Keys : RotateBegin(r, out, in)
         \/ RotateMarker(r) \/ RotateCommit(r) \/ RotateAbort(r)
    \/ \E fails \in BOOLEAN :
         ReadHead(fails) \/ ReadMarkers(fails) \/ ReadVersions(fails)
    \/ ReportEnds

Spec == Init /\ [][Next]_vars

-----------------------------------------------------------------------------
(* Properties.                                                             *)

(* A row was changed, or was deleted with a later row of its session still *)
(* loaded (and an earlier one, unless the window starts at the head).      *)
Damaged(tab, genesis) ==
    \/ changed \cap DOMAIN tab # {}
    \/ \E d \in deleted : LET S == OfSession(tab, d.sess) IN
         /\ \E q \in S : d.seq < q /\ q <= d.top
         /\ genesis \/ \E q \in S : q < d.seq

(* A verification that says "verified" has not overlooked a changed row or *)
(* a row deleted from the middle or the head of a session, whatever keys   *)
(* resolve, whatever reads fail and whatever happens between them.         *)
VerifiedMeansIntact ==
    /\ rep.pc = "versions" /\ (\E avail \in SUBSET Keys : RotatedVerdict(avail)[1] = "verified")
         => ~Damaged(Loaded, Genesis)
    /\ rep.pc = "markers" /\ ~rep.rotated /\ SingleKeyVerdict[1] = "verified" => ~Damaged(Loaded, Genesis)
    /\ \A s \in Sessions : SessionVerdict(s)[1] = "verified" =>
         ~Damaged([q \in OfSession(rows, s) |-> rows[q]], TRUE)

(* The report finds a hash that does not match, and no row it loaded was   *)
(* changed.                                                                *)
FalseHashAlarm ==
    /\ \/ rep.pc = "versions" /\ \E avail \in SUBSET Keys : RotatedVerdict(avail)[2] = "mac"
       \/ rep.pc = "markers" /\ ~rep.rotated /\ SingleKeyVerdict[2] = "mac"
    /\ changed \cap DOMAIN Loaded = {}

(* A report whose reads all succeed reports a hash that does not match     *)
(* only when a row was changed or a marker removed: neither a rotation     *)
(* under way, one between two reads, nor an unprovisioned key raises it.   *)
(* Holds for coordinated rotations and for windows that end at a row.      *)
MacAlarmMeansDamage == FalseHashAlarm => rep.failed \/ rep.to = None \/ deleted # {}

(* The key windows fit the rows: the key active at a row's chain_seq is    *)
(* the one its hmac was made with, and the key behind a marker is the one  *)
(* the marker announces.  Holds for coordinated rotations.                 *)
WindowsFit ==
    /\ TypeOK
    /\ \A q \in DOMAIN rows :
      /\ Active(q, versions) = rows[q].key
      /\ rows[q].next # NoKey => Active(q + 1, versions) = rows[q].next

-----------------------------------------------------------------------------
(* What comments of the code say and the code does not keep; the README    *)
(* gives for each the constants under which TLC shows it.                  *)

(* The same without the provisos: a failing read is mapped to "unverified" *)
(* and a rotation between the reads of versions and rows does no harm.     *)
(* The code does not keep it when ReadCanFail or OpenWindow holds.         *)
AlarmMeansDamage == FalseHashAlarm => deleted # {}

(* A report speaks of a gap only when a row was deleted.  The marker takes *)
(* the last row of the whole table for its predecessor, not the last row   *)
(* of its session, so an intact rotated table is reported as broken.       *)
GapAlarmMeansDeletion ==
    rep.pc = "versions" /\ RotatedVerdict(Keys)[2] = "gap" => deleted # {}

=============================================================================
