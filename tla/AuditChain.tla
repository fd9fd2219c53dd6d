----------------------------- MODULE AuditChain -----------------------------
(***************************************************************************)
(* PostgresAuditStore.insert_with_chain_lock, run by any number of worker  *)
(* processes against one database.                                         *)
(*                                                                         *)
(* A call reads the session's last hmac without a lock and builds the      *)
(* record from it; opens a transaction and takes the advisory lock of the  *)
(* session's 64-bit key; reads the last hmac again and rebuilds the record *)
(* when another worker got in between; inserts and commits, which releases *)
(* the lock.  Any exception rolls the transaction back, and a commit whose *)
(* acknowledgement is lost leaves the row behind a call that raised.       *)
(*                                                                         *)
(* Two sessions whose UUIDs share their first eight bytes share a lock:    *)
(* LockKey is any map from sessions to keys.                               *)
(***************************************************************************)
EXTENDS ChainLog

CONSTANTS
    Workers,        \* concurrent calls of insert_with_chain_lock
    LockKeys,       \* 64-bit advisory lock keys
    LockKey,        \* _session_lock_key, a function [Sessions -> LockKeys]
    Free            \* nobody holds the lock

ASSUME LockKeyAssumption == LockKey \in [Sessions -> LockKeys]
ASSUME FreeAssumption    == Free \notin Workers

VARIABLES
    holder,         \* holder[k]: the worker holding advisory lock k, or Free
    pc,             \* where each worker is in its call
    sess,           \* the session_id argument of the call
    optPrev,        \* optimistic_prev
    record,         \* the record the builder returned last
    nextRecord,     \* the next fresh event_id
    acked           \* ids of the records returned to callers

chainVars == <<chain, holder, pc, sess, optPrev, record, nextRecord, acked>>

PCs == {"idle", "built", "locked", "ready"}

ChainTypeOK ==
    /\ chain \in [Sessions -> Seq(Record)]
    /\ holder \in [LockKeys -> Workers \cup {Free}]
    /\ pc \in [Workers -> PCs]
    /\ sess \in [Workers -> Sessions]
    /\ optPrev \in [Workers -> Ids \cup {None}]
    /\ record \in [Workers -> [id : Ids \cup {None}, prev : Ids \cup {None}]]
    /\ nextRecord \in Nat \ {None}
    /\ acked \subseteq Ids

ChainInit ==
    /\ LogInit
    /\ holder = [k \in LockKeys |-> Free]
    /\ pc = [w \in Workers |-> "idle"]
    /\ sess \in [Workers -> Sessions]
    /\ optPrev = [w \in Workers |-> None]
    /\ record = [w \in Workers |-> [id |-> None, prev |-> None]]
    /\ nextRecord = 1
    /\ acked = {}

KeyOf(w) == LockKey[sess[w]]

(* builder(prev_hash): a record with a fresh event_id.                     *)
Build(w, prev) ==
    /\ nextRecord \in Ids
    /\ record' = [record EXCEPT ![w] = [id |-> nextRecord, prev |-> prev]]
    /\ nextRecord' = nextRecord + 1

(* Phase 1 and 1.5: the snapshot read and the build, no lock held.         *)
OptimisticBuild(w, s) ==
    /\ pc[w] = "idle"
    /\ sess' = [sess EXCEPT ![w] = s]
    /\ optPrev' = [optPrev EXCEPT ![w] = LastHmac(chain[s])]
    /\ Build(w, LastHmac(chain[s]))
    /\ pc' = [pc EXCEPT ![w] = "built"]
    /\ UNCHANGED <<chain, holder, acked>>

(* Fault: the lock is tried, and its refusal ignored.                      *)
AcquireLockUnchecked(w) ==
    /\ pc[w] = "built"
    /\ holder' = [holder EXCEPT ![KeyOf(w)] = w]
    /\ pc' = [pc EXCEPT ![w] = "locked"]
    /\ UNCHANGED <<chain, sess, optPrev, record, nextRecord, acked>>

(* pg_advisory_xact_lock: waits while another transaction holds the key.   *)
AcquireLock(w) ==
    /\ pc[w] = "built"
    /\ holder[KeyOf(w)] = Free
    /\ holder' = [holder EXCEPT ![KeyOf(w)] = w]
    /\ pc' = [pc EXCEPT ![w] = "locked"]
    /\ UNCHANGED <<chain, sess, optPrev, record, nextRecord, acked>>

(* Fault: the optimistic snapshot is trusted under the lock.               *)
ReverifyTrusting(w) ==
    /\ pc[w] = "locked"
    /\ pc' = [pc EXCEPT ![w] = "ready"]
    /\ UNCHANGED <<chain, holder, sess, optPrev, record, nextRecord, acked>>

(* The re-read under the lock, and the rebuild when the snapshot is stale. *)
Reverify(w) ==
    LET actual == LastHmac(chain[sess[w]]) IN
    /\ pc[w] = "locked"
    /\ IF actual # optPrev[w] THEN Build(w, actual)
                              ELSE UNCHANGED <<record, nextRecord>>
    /\ pc' = [pc EXCEPT ![w] = "ready"]
    /\ UNCHANGED <<chain, holder, sess, optPrev, acked>>

(* INSERT and COMMIT; the end of the transaction frees the lock.           *)
Insert(w) ==
    /\ pc[w] = "ready"
    /\ chain' = [chain EXCEPT ![sess[w]] = Append(@, record[w])]
    /\ holder' = [holder EXCEPT ![KeyOf(w)] = Free]
    /\ pc' = [pc EXCEPT ![w] = "idle"]
    /\ UNCHANGED <<sess, optPrev, record, nextRecord>>

(* Fault: the record is returned although the transaction rolled back.     *)
CommitRolledBack(w) ==
    /\ pc[w] = "ready"
    /\ holder' = [holder EXCEPT ![KeyOf(w)] = Free]
    /\ pc' = [pc EXCEPT ![w] = "idle"]
    /\ acked' = acked \cup {record[w].id}
    /\ UNCHANGED <<chain, sess, optPrev, record, nextRecord>>

(* The commit is acknowledged and the record returned to the caller.       *)
Commit(w) == Insert(w) /\ acked' = acked \cup {record[w].id}

(* The commit reached the server and the caller sees StoreUnavailableError. *)
CommitLostAck(w) == Insert(w) /\ UNCHANGED acked

(* Fault: a failing call leaves its lock behind (a session-level lock).    *)
FailKeepsLock(w) ==
    /\ pc[w] # "idle"
    /\ pc' = [pc EXCEPT ![w] = "idle"]
    /\ UNCHANGED <<chain, holder, sess, optPrev, record, nextRecord, acked>>

(* Any exception, or the death of the worker, before the commit: rollback. *)
Fail(w) ==
    /\ pc[w] # "idle"
    /\ holder' = IF holder[KeyOf(w)] = w
                   THEN [holder EXCEPT ![KeyOf(w)] = Free] ELSE holder
    /\ pc' = [pc EXCEPT ![w] = "idle"]
    /\ UNCHANGED <<chain, sess, optPrev, record, nextRecord, acked>>

WorkerStep(w) ==
    \/ \E s \in Sessions : OptimisticBuild(w, s)
    \/ AcquireLock(w)
    \/ Reverify(w)
    \/ Commit(w)
    \/ CommitLostAck(w)
    \/ Fail(w)

ChainNext == \E w \in Workers : WorkerStep(w)

(* A worker inside its transaction keeps taking steps: it is a coroutine of *)
(* a live event loop, and a dead one is rolled back by the server.         *)
InTransaction(w) ==
    /\ pc[w] \in {"locked", "ready"}
    /\ Reverify(w) \/ Commit(w) \/ CommitLostAck(w) \/ Fail(w)

(* Postgres queues the waiters of an advisory lock, so a waiter is granted *)
(* a lock that is released again and again.                                *)
Fairness == \A w \in Workers : SF_chainVars(AcquireLock(w)) /\ WF_chainVars(InTransaction(w))

ChainSpec == ChainInit /\ [][ChainNext]_chainVars

FairSpec == ChainSpec /\ Fairness

-----------------------------------------------------------------------------
(* Every chain is linear: the genesis row names no predecessor and each    *)
(* later row names the row inserted just before it, whatever the           *)
(* interleaving of stale snapshots, lock hand-overs and rollbacks in       *)
(* insert_with_chain_lock.  verify_chain accepts exactly such a chain.     *)
ChainLinear == \A s \in Sessions : Linked(chain[s])

(* A record that log() got back from the store is a row of a chain, also   *)
(* when the call had to rebuild it with another event_id.                  *)
AckedStored ==
    \A id \in acked : \E s \in Sessions : \E i \in 1..Len(chain[s]) :
        chain[s][i].id = id

(* Between the re-read and the commit nobody moves the head of the chain:  *)
(* the record about to be inserted still names the last row.               *)
ReadyIsCurrent ==
    \A w \in Workers : pc[w] = "ready" =>
        record[w].prev = LastHmac(chain[sess[w]])

(* The store implements the atomic append of ChainLog.                     *)
AtomicAppend == LogSpec

(* A call that has built its record ends: a waiter on the advisory lock is *)
(* granted it, also when its key is shared with another session.           *)
CallsEnd == \A w \in Workers : pc[w] # "idle" ~> pc[w] = "idle"

=============================================================================
