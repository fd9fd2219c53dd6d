------------------------------ MODULE Identity ------------------------------
(***************************************************************************)
(* Agent keys: bootstrapping the Ed25519 key file, signing audit rows,     *)
(* registering public keys and revoking them, by several processes over    *)
(* one database and one key file.                                          *)
(*                                                                         *)
(* A signature is represented by the key that made it; a key stands for    *)
(* its pair, its PEM and its fingerprint.  Rows take chain_seq from a      *)
(* sequence when they are inserted and become visible when they commit, so *)
(* the head another process reads may be below a row in flight.            *)
(***************************************************************************)
EXTENDS Naturals, FiniteSetsExt

CONSTANTS
    Procs,
    Keys,               \* the key pairs that can be generated
    NoKey, Absent, Empty,
    Everybody,          \* the database, where all processes read
    AllowBootstrap,     \* AgentIdentityConfig.allow_bootstrap
    Modes,              \* the strict_chain values callers use
    LinkColumn,         \* the schema has the chain_event_id column
    MaxSeq,             \* bound: rows inserted
    MaxRevocations,     \* bound
    MaxRare             \* bound: registrations and crashes

ASSUME IdentityAssumption ==
    /\ {NoKey, Absent, Empty} \cap Keys = {}
    /\ Everybody \notin Procs
    /\ Modes \subseteq BOOLEAN
    /\ MaxSeq \in Nat

VARIABLES
    file,           \* the key file: Absent, Empty after O_TRUNC, or a key
    used,           \* the keys generated so far
    pc,             \* where each process is in building its identity
    key,            \* the signer's key, NoKey when signing is off
    rows,           \* governance_audit_events: committed rows
    nextSeq,        \* the chain_seq sequence
    flight,         \* the row a process has inserted and not committed
    keysDb,         \* governance_agent_keys
    mirror,         \* AgentKeyRegistry._by_fingerprint of each process
    tx,             \* the register_key transaction of each process
    revDb,          \* governance_agent_key_revocations
    revMirror,      \* RevocationStore._records of each process
    rv,             \* the revoke_with_chain_event call of each process
    spooled,        \* revocation events only the fallback file has
    revoked,        \* revocations so far
    rare,           \* registrations and crashes so far
    promised        \* history: revocations reported done, and from which seq

rowVars == <<rows, nextSeq, flight>>
keyVars == <<file, used, pc, key>>
regVars == <<keysDb, mirror, tx>>
revVars == <<revDb, revMirror, rv, spooled, promised>>
vars == <<keyVars, rowVars, regVars, revVars, revoked, rare>>

Seqs == 0..MaxSeq
NoRow == [seq |-> 0, fp |-> NoKey, revokes |-> NoKey]
NoTx == [at |-> "none", fp |-> NoKey, seq |-> 0, new |-> FALSE, hit |-> FALSE]
NoCall == [at |-> "none", fp |-> NoKey, strict |-> FALSE,
           link |-> "none", event |-> 0, seq |-> 0]

Row == [seq : Seqs, fp : Keys \cup {NoKey}, revokes : Keys \cup {NoKey}]
KeyRow == [fp : Keys, seq : Seqs]
Links == {"none", "file", "chain"}
Revocation == [fp : Keys, seq : Seqs, strict : BOOLEAN, link : Links, event : Seqs]

TypeOK ==
    /\ file \in Keys \cup {Absent, Empty}
    /\ used \subseteq Keys
    /\ pc \in [Procs -> {"down", "create", "write", "load", "built", "up"}]
    /\ key \in [Procs -> Keys \cup {NoKey}]
    /\ rows \subseteq Row
    /\ nextSeq \in 1..(MaxSeq + 1)
    /\ flight \in [Procs -> Row]
    /\ keysDb \subseteq KeyRow
    /\ \A p \in Procs :
        /\ mirror[p] \subseteq KeyRow
        /\ revMirror[p] \subseteq Revocation
        /\ tx[p].at \in {"none", "inserted", "selected"}
        /\ rv[p].at \in {"none", "read", "store"}
    /\ revDb \subseteq Revocation
    /\ spooled \subseteq Keys
    /\ promised \in [Procs \cup {Everybody} -> SUBSET [fp : Keys, from : 1..(MaxSeq + 1)]]

(* A provisioned key file, or none.                                        *)
Init ==
    /\ file \in Keys \cup {Absent}
    /\ used = {file} \ {Absent}
    /\ pc = [p \in Procs |-> "down"]
    /\ key = [p \in Procs |-> NoKey]
    /\ rows = {}
    /\ nextSeq = 1
    /\ flight = [p \in Procs |-> NoRow]
    /\ keysDb = {}
    /\ mirror = [p \in Procs |-> {}]
    /\ tx = [p \in Procs |-> NoTx]
    /\ revDb = {}
    /\ revMirror = [p \in Procs |-> {}]
    /\ rv = [p \in Procs |-> NoCall]
    /\ spooled = {}
    /\ revoked = 0
    /\ rare = 0
    /\ promised = [p \in Procs \cup {Everybody} |-> {}]

Rare == rare < MaxRare /\ rare' = rare + 1 /\ UNCHANGED revoked

(***************************************************************************)
(* GovernanceSDK._build_identity over FileKeyStore, and start.             *)
(***************************************************************************)

(* bootstrap_if_allowed: an existing file is left alone; without one, and  *)
(* without permission to make one, the SDK goes on unsigned.               *)
Boot(p) ==
    /\ pc[p] = "down"
    /\ pc' = [pc EXCEPT ![p] =
                IF file # Absent THEN "load"
                ELSE IF AllowBootstrap THEN "create" ELSE "built"]
    /\ UNCHANGED <<file, used, key, rowVars, regVars, revVars, revoked, rare>>

(* os.open with O_CREAT and O_TRUNC.                                       *)
CreateFile(p) ==
    /\ pc[p] = "create"
    /\ file' = Empty
    /\ pc' = [pc EXCEPT ![p] = "write"]
    /\ UNCHANGED <<used, key, rowVars, regVars, revVars, revoked, rare>>

WriteFile(p, k) ==
    /\ pc[p] = "write"
    /\ k \notin used
    /\ file' = k
    /\ used' = used \cup {k}
    /\ pc' = [pc EXCEPT ![p] = "load"]
    /\ UNCHANGED <<key, rowVars, regVars, revVars, revoked, rare>>

(* load_private_key: a truncated file is not a PEM, and the SDK's __init__ *)
(* catches the KeyStoreError and goes on unsigned.                         *)
LoadKey(p) ==
    /\ pc[p] = "load"
    /\ key' = [key EXCEPT ![p] = IF file \in Keys THEN file ELSE NoKey]
    /\ pc' = [pc EXCEPT ![p] = "built"]
    /\ UNCHANGED <<file, used, rowVars, regVars, revVars, revoked, rare>>

(* get_current_chain_seq: MAX(chain_seq) over the committed rows.          *)
Head == Max({r.seq : r \in rows} \cup {0})

(* AgentKeyRegistry.register: ValueError on the same fingerprint with      *)
(* another activation, and on an activation not above every earlier one.   *)
RegisterRefused(m, k, s) ==
    IF \E r \in m : r.fp = k THEN [fp |-> k, seq |-> s] \notin m
                             ELSE \E r \in m : r.seq >= s

Registered(m, k, s) ==
    IF RegisterRefused(m, k, s) THEN m ELSE m \cup {[fp |-> k, seq |-> s]}

(* start, _register_identity_key: the mirror only; a failed head lookup    *)
(* leaves the key unregistered, and the ValueError is swallowed.           *)
Start(p) ==
    /\ pc[p] = "built"
    /\ pc' = [pc EXCEPT ![p] = "up"]
    /\ \/ UNCHANGED mirror
       \/ /\ key[p] # NoKey
          /\ mirror' = [mirror EXCEPT ![p] = Registered(@, key[p], Head)]
    /\ UNCHANGED <<file, used, key, rowVars, keysDb, tx, revVars, revoked, rare>>

(***************************************************************************)
(* Audit rows                                                              *)
(***************************************************************************)

(* sign_audit_row, then the INSERT: signing degrades to an unsigned row.   *)
InsertRow(p, fp) ==
    /\ pc[p] = "up"
    /\ flight[p] = NoRow
    /\ fp \in {key[p], NoKey}
    /\ nextSeq <= MaxSeq
    /\ flight' = [flight EXCEPT ![p] = [seq |-> nextSeq, fp |-> fp, revokes |-> NoKey]]
    /\ nextSeq' = nextSeq + 1
    /\ UNCHANGED <<keyVars, rows, regVars, revVars, revoked, rare>>

CommitRow(p) ==
    /\ flight[p] # NoRow
    /\ rows' = rows \cup {flight[p]}
    /\ flight' = [flight EXCEPT ![p] = NoRow]
    /\ UNCHANGED <<keyVars, nextSeq, regVars, revVars, revoked, rare>>

(* A rolled back INSERT leaves a gap in chain_seq.                         *)
RollbackRow(p) ==
    /\ flight[p] # NoRow
    /\ flight' = [flight EXCEPT ![p] = NoRow]
    /\ UNCHANGED <<keyVars, rows, nextSeq, regVars, revVars, revoked, rare>>

(***************************************************************************)
(* AgentKeyRegistry.register_key and lookup_key_by_fingerprint             *)
(***************************************************************************)

KnownIn(t, k) == \E r \in t : r.fp = k

(* INSERT ... ON CONFLICT (key_fingerprint) DO NOTHING waits for another   *)
(* transaction that inserted the same fingerprint.                         *)
RegisterInsert(p, k, s) ==
    /\ pc[p] = "up" /\ key[p] # NoKey
    /\ tx[p] = NoTx
    /\ Rare
    /\ \A q \in Procs : tx[q].fp # k
    /\ tx' = [tx EXCEPT ![p] = [at |-> "inserted", fp |-> k, seq |-> s,
                                new |-> ~KnownIn(keysDb, k), hit |-> FALSE]]
    /\ UNCHANGED <<keyVars, rowVars, keysDb, mirror, revVars>>

(* The overlap check sees committed rows and its own (READ COMMITTED).     *)
RegisterSelect(p) ==
    /\ tx[p].at = "inserted"
    /\ tx' = [tx EXCEPT ![p].at = "selected",
                        ![p].hit = \E r \in keysDb : r.seq = tx[p].seq /\ r.fp # tx[p].fp]
    /\ UNCHANGED <<keyVars, rowVars, keysDb, mirror, revVars, revoked, rare>>

(* A collision raises once the transaction has committed: the row stays.   *)
RegisterCommit(p) ==
    LET t == tx[p] IN
    /\ t.at = "selected"
    /\ keysDb' = IF t.new THEN keysDb \cup {[fp |-> t.fp, seq |-> t.seq]} ELSE keysDb
    /\ mirror' = IF t.hit THEN mirror
                 ELSE [mirror EXCEPT ![p] = Registered(@, t.fp, t.seq)]
    /\ tx' = [tx EXCEPT ![p] = NoTx]
    /\ UNCHANGED <<keyVars, rowVars, revVars, revoked, rare>>

RegisterFails(p) ==
    /\ tx[p] # NoTx
    /\ tx' = [tx EXCEPT ![p] = NoTx]
    /\ UNCHANGED <<keyVars, rowVars, keysDb, mirror, revVars, revoked, rare>>

(* A miss in the mirror reads the table and caches, unchecked.             *)
LookupKey(p, k) ==
    /\ pc[p] = "up" /\ key[p] # NoKey
    /\ ~KnownIn(mirror[p], k)
    /\ \E r \in keysDb : r.fp = k /\ mirror' = [mirror EXCEPT ![p] = @ \cup {r}]
    /\ UNCHANGED <<keyVars, rowVars, keysDb, tx, revVars, revoked, rare>>

(***************************************************************************)
(* RevocationStore.revoke_with_chain_event                                 *)
(***************************************************************************)

RevokeBegins(p) ==
    /\ pc[p] = "up" /\ key[p] # NoKey
    /\ rv[p] = NoCall
    /\ revoked < MaxRevocations
    /\ revoked' = revoked + 1
    /\ UNCHANGED rare

Called(p, k, strict, link, event) ==
    rv' = [rv EXCEPT ![p] = [at |-> "read", fp |-> k, strict |-> strict, link |-> link,
                             event |-> event, seq |-> 0]]

(* Fault: the boundary is read before the event is logged.                 *)
RevokeLogsHeadFirst(p, k, strict) ==
    /\ RevokeBegins(p)
    /\ nextSeq <= MaxSeq
    /\ rows' = rows \cup {[seq |-> nextSeq, fp |-> key[p], revokes |-> k]}
    /\ nextSeq' = nextSeq + 1
    /\ rv' = [rv EXCEPT ![p] = [at |-> "store", fp |-> k, strict |-> strict,
                                link |-> "chain", event |-> nextSeq, seq |-> Head]]
    /\ UNCHANGED <<keyVars, flight, regVars, revDb, revMirror, spooled, promised>>

(* audit_module.log commits the audit.agent_key_revocation row.            *)
RevokeLogs(p, k, strict) ==
    /\ RevokeBegins(p)
    /\ nextSeq <= MaxSeq
    /\ rows' = rows \cup {[seq |-> nextSeq, fp |-> key[p], revokes |-> k]}
    /\ nextSeq' = nextSeq + 1
    /\ Called(p, k, strict, "chain", nextSeq)
    /\ UNCHANGED <<keyVars, flight, regVars, revDb, revMirror, spooled, promised>>

(* audit_module.log degrades: the fallback file has the event.             *)
RevokeLogsDegraded(p, k, strict) ==
    /\ RevokeBegins(p)
    /\ spooled' = spooled \cup {k}
    /\ Called(p, k, strict, "file", 0)
    /\ UNCHANGED <<keyVars, rowVars, regVars, revDb, revMirror, promised>>

(* Fault: strict_chain is not consulted when the log fails.                *)
RevokeLogFailsLax(p, k, strict) ==
    /\ RevokeBegins(p)
    /\ Called(p, k, strict, "none", 0)
    /\ UNCHANGED <<keyVars, rowVars, regVars, revDb, revMirror, spooled, promised>>

(* audit_module.log raises: strict raises and writes nothing, lax goes on  *)
(* without a chain_event_id.                                               *)
RevokeLogFails(p, k, strict) ==
    /\ RevokeBegins(p)
    /\ IF strict THEN UNCHANGED rv ELSE Called(p, k, strict, "none", 0)
    /\ UNCHANGED <<keyVars, rowVars, regVars, revDb, revMirror, spooled, promised>>

(* The boundary is the head as it is now; 0 when it cannot be read.        *)
RevokeReadsHead(p, head) ==
    /\ rv[p].at = "read"
    /\ head \in {Head, 0}
    /\ rv' = [rv EXCEPT ![p].at = "store", ![p].seq = head]
    /\ UNCHANGED <<keyVars, rowVars, regVars, revDb, revMirror, spooled, promised, revoked, rare>>

RevocationOf(c) ==
    [fp |-> c.fp, seq |-> c.seq, strict |-> c.strict, link |-> c.link, event |-> c.event]

(* revoke_async's INSERT ... ON CONFLICT (fp, seq) DO NOTHING; a schema    *)
(* without the column takes the row without its link.                      *)
RevInserted(c) ==
    IF \E r \in revDb : r.fp = c.fp /\ r.seq = c.seq THEN revDb
    ELSE revDb \cup {IF LinkColumn THEN RevocationOf(c)
                     ELSE [RevocationOf(c) EXCEPT !.link = "none", !.event = 0]}

Promise(who, k) ==
    promised' = [q \in Procs \cup {Everybody} |->
                    IF q \in who THEN promised[q] \cup {[fp |-> k, from |-> nextSeq]}
                                 ELSE promised[q]]

(* The row and the mirror.                                                 *)
RevokeStores(p) ==
    /\ rv[p].at = "store"
    /\ revDb' = RevInserted(rv[p])
    /\ revMirror' = [revMirror EXCEPT ![p] = @ \cup {RevocationOf(rv[p])}]
    /\ Promise({p, Everybody}, rv[p].fp)
    /\ rv' = [rv EXCEPT ![p] = NoCall]
    /\ UNCHANGED <<keyVars, rowVars, regVars, spooled, revoked, rare>>

(* The INSERT raises, its row in the table or not: the mirror alone.       *)
RevokeMirrors(p) ==
    /\ rv[p].at = "store"
    /\ revDb' \in {revDb, RevInserted(rv[p])}
    /\ revMirror' = [revMirror EXCEPT ![p] = @ \cup {RevocationOf(rv[p])}]
    /\ Promise({p}, rv[p].fp)
    /\ rv' = [rv EXCEPT ![p] = NoCall]
    /\ UNCHANGED <<keyVars, rowVars, regVars, spooled, revoked, rare>>

(* The process dies, between any two steps; the INSERT of a revocation may *)
(* have committed.                                                         *)
Crash(p) ==
    /\ pc[p] # "down"
    /\ Rare
    /\ pc' = [pc EXCEPT ![p] = "down"]
    /\ key' = [key EXCEPT ![p] = NoKey]
    /\ flight' = [flight EXCEPT ![p] = NoRow]
    /\ mirror' = [mirror EXCEPT ![p] = {}]
    /\ tx' = [tx EXCEPT ![p] = NoTx]
    /\ revDb' \in {revDb} \cup {RevInserted(c) : c \in {c \in {rv[p]} : c.at = "store"}}
    /\ revMirror' = [revMirror EXCEPT ![p] = {}]
    /\ rv' = [rv EXCEPT ![p] = NoCall]
    /\ promised' = [promised EXCEPT ![p] = {}]
    /\ UNCHANGED <<file, used, rows, nextSeq, keysDb, spooled>>

Next ==
    \E p \in Procs :
        \/ Boot(p) \/ CreateFile(p) \/ LoadKey(p) \/ Start(p)
        \/ \E k \in Keys : WriteFile(p, k)
        \/ \E fp \in Keys \cup {NoKey} : InsertRow(p, fp)
        \/ CommitRow(p) \/ RollbackRow(p)
        \/ RegisterInsert(p, key[p], Head)
        \/ RegisterSelect(p) \/ RegisterCommit(p) \/ RegisterFails(p)
        \/ \E k \in Keys : LookupKey(p, k)
        \/ \E k \in used, strict \in Modes :
              RevokeLogs(p, k, strict) \/ RevokeLogsDegraded(p, k, strict)
                                       \/ RevokeLogFails(p, k, strict)
        \/ \E head \in Seqs : RevokeReadsHead(p, head)
        \/ RevokeStores(p) \/ RevokeMirrors(p)
        \/ Crash(p)

Spec == Init /\ [][Next]_vars

(***************************************************************************)
(* Verification                                                            *)
(***************************************************************************)

(* is_revoked_at over a set of records, the boundary row included.         *)
RevokedIn(recs, k, s) == \E r \in recs : r.fp = k /\ r.seq <= s

(* is_revoked_at_seq of process p: the mirror, then the table.             *)
RevokedAtSeq(p, k, s) == RevokedIn(revMirror[p], k, s) \/ RevokedIn(revDb, k, s)

(* verify_audit_row_signature, which consults the mirrors of p only.       *)
Verdict(p, r) ==
    IF r.fp = NoKey THEN "unsigned"
    ELSE IF RevokedIn(revMirror[p], r.fp, r.seq) THEN "revoked_key"
    ELSE IF KnownIn(mirror[p], r.fp) THEN "signed" ELSE "unknown_key"

(***************************************************************************)
(* Properties                                                              *)
(***************************************************************************)

(* A revocation that was reported done rejects every row the key signs     *)
(* from then on: for verify_audit_row_signature in the process that        *)
(* revoked, until it restarts, and for is_revoked_at_seq in every process  *)
(* when the table took the row.  And a row below the revocation's own      *)
(* chain event is never repudiated, unless the head could not be read      *)
(* (boundary 0) or the event is not in the chain.                          *)
RevocationHolds ==
    /\ TypeOK
    /\ \A r \in rows, p \in Procs :
        /\ (\E v \in promised[p] : v.fp = r.fp /\ v.from <= r.seq)
              => Verdict(p, r) = "revoked_key"
        /\ (\E v \in promised[Everybody] : v.fp = r.fp /\ v.from <= r.seq)
              => RevokedAtSeq(p, r.fp, r.seq)
        /\ RevokedAtSeq(p, r.fp, r.seq)
              => \E v \in revDb \cup revMirror[p] :
                    /\ v.fp = r.fp
                    /\ v.seq = 0 \/ v.link # "chain" \/ v.event <= r.seq

(* With strict_chain, a revocation in force, in any process or in the      *)
(* table, has its announcement in the audit chain or in the fallback file  *)
(* that is drained into it, whatever fails or crashes in between.          *)
StrictLinked ==
    LinkColumn =>
    \A v \in revDb \cup UNION {revMirror[p] : p \in Procs} :
        v.strict =>
            \/ v.link = "file" /\ v.fp \in spooled
            \/ v.link = "chain" /\ \E r \in rows : r.seq = v.event /\ r.revokes = v.fp

-----------------------------------------------------------------------------
(* What comments of the code say and the code does not keep; the README    *)
(* gives for each the constants under which TLC shows it.                  *)

(* A revocation whose event is in the chain is in force: a crash between   *)
(* the event and the row leaves the announcement alone.                    *)
EventMeansRevoked ==
    \A r \in rows : r.revokes # NoKey /\ (\A p \in Procs : rv[p] = NoCall)
        => \E p \in Procs : RevokedAtSeq(p, r.revokes, MaxSeq)

(* "The chain event we just emitted IS the first row the revocation        *)
(* governs": rows that follow it are rejected (a TODO names the race).     *)
BoundaryIsEvent ==
    \A r \in rows, v \in revDb :
        v.link = "chain" /\ r.fp = v.fp /\ r.seq > v.event
            => \E p \in Procs : RevokedAtSeq(p, r.fp, r.seq)

(* "guarantees at least one process in a concurrent pair surfaces the      *)
(* overlap": of two register_key calls that commit different keys at one   *)
(* activation, at least one sees the other.                                *)
CollisionSurfaced ==
    \A p, q \in Procs :
        /\ tx[p].at = "selected" /\ tx[q].at = "selected"
        /\ tx[p].seq = tx[q].seq /\ tx[p].fp # tx[q].fp
        => tx[p].hit \/ tx[q].hit

(* Processes that share a key file sign with its key.                      *)
OneKey == \A p \in Procs : key[p] # NoKey => key[p] = file

(* A started process can verify the rows it signs.                         *)
OwnKeyKnown == \A p \in Procs : pc[p] = "up" /\ key[p] # NoKey => KnownIn(mirror[p], key[p])

=============================================================================
