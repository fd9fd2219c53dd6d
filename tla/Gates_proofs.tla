---------------------------- MODULE Gates_proofs ----------------------------
(***************************************************************************)
(* What stands between an agent and its tools: the theorems about Gates    *)
(* and, below, about HaltSwitch.                                           *)
(*                                                                         *)
(* Gate resolution, for any number of requests, operators and waiters,     *)
(* with or without a platform: a resolved gate keeps its verdict; as long  *)
(* as audit.log lands somewhere it has an audit row with that verdict, and *)
(* wait_for returns no verdict that nobody gave. The first two rest on the *)
(* row lock: from the UPDATE to the end of the transaction its holder is   *)
(* the only one that can change the row, and the row is still pending. The *)
(* third rests on them and on the platform's never taking a verdict back:  *)
(* the POST of a gate comes before any decision about it.                  *)
(***************************************************************************)
EXTENDS Gates, HaltSwitch, TLAPS

(* A transaction past its UPDATE holds the row lock on a pending row.      *)
TxHoldsRow ==
    \A x \in Resolvers : tx[x].phase \in {"updated", "audited"} =>
        rowLock[tx[x].req] = x /\ row[tx[x].req] = "pending"

(* A transaction past its hook has its verdict in the audit trail.         *)
HookRan ==
    \A x \in Resolvers : tx[x].phase = "audited" =>
        <<tx[x].req, tx[x].verdict>> \in audit

(* A waiter's transaction runs only while wait_for awaits the sync.        *)
SyncOnlyWhenSyncing ==
    \A w \in Waiters : tx[w].phase # "idle" => wait[w].pc = "syncing"

(* Only request() inserts a row, and it mints the request id itself.       *)
RowOpened == \A r \in Requests : row[r] # "absent" => r \in opened

Typed == TypeOK /\ TxHoldsRow /\ SyncOnlyWhenSyncing /\ RowOpened

(* Between the UPDATE and the end of its transaction a resolver owns the   *)
(* pending row; types are kept.                                            *)
LEMMA TypedInvariant == Spec => []Typed
  <1> USE RolesAssumption DEF Resolvers, Verdicts
  <1>1. Init => Typed
    BY DEF Init, Typed, TypeOK, TxHoldsRow, SyncOnlyWhenSyncing, RowOpened, Txs, Waits
  <1>2. Typed /\ [Next]_vars => Typed'
    <2> SUFFICES ASSUME Typed, [Next]_vars PROVE Typed'
      OBVIOUS
    <2>0. TypeOK /\ TxHoldsRow /\ SyncOnlyWhenSyncing /\ RowOpened
      BY DEF Typed
    <2> USE <2>0
    <2>1. ASSUME NEW r \in Requests, Request(r) PROVE Typed'
      <3>1. row' \in [Requests -> {"absent", "pending", "purged"} \cup Verdicts]
        BY <2>1 DEF Request, TypeOK
      <3>2. forward' \in [Requests -> {"none", "inflight", "acked", "dropped"}]
        BY <2>1 DEF Request, TypeOK
      <3>3. TxHoldsRow'
        BY <2>1 DEF Request, Txs, TypeOK, TxHoldsRow
      <3>4. RowOpened'
        BY <2>1 DEF Request, TypeOK, RowOpened
      <3>5. SyncOnlyWhenSyncing'
        BY <2>1 DEF Request, SyncOnlyWhenSyncing, waitVars
      <3>6. TypeOK'
        BY <2>1, <3>1, <3>2 DEF Request, waitVars, TypeOK
      <3> QED BY <3>3, <3>4, <3>5, <3>6 DEF Typed
    <2>2. ASSUME NEW r \in Requests, Expire(r) PROVE Typed'
      BY <2>2 DEF Expire, waitVars, platformVars,
                  Typed, TypeOK, TxHoldsRow, SyncOnlyWhenSyncing, RowOpened
    <2>3. ASSUME NEW r \in Requests, Cleanup(r) PROVE Typed'
      BY <2>3 DEF Cleanup, waitVars, platformVars,
                  Typed, TypeOK, TxHoldsRow, SyncOnlyWhenSyncing, RowOpened
    <2>4. ASSUME NEW r \in Requests, ForwardGate(r) PROVE Typed'
      BY <2>4 DEF ForwardGate, localVars, waitVars,
                  Typed, TypeOK, TxHoldsRow, SyncOnlyWhenSyncing, RowOpened
    <2>5. ASSUME NEW o \in Operators, NEW r \in Requests, NEW v \in Verdicts,
                 Resolve(o, r, v)
          PROVE  Typed'
      <3>1. TypeOK'
        BY <2>5 DEF Resolve, Begin, Txs, Waits, waitVars, platformVars, TypeOK
      <3>2. TxHoldsRow'
        BY <2>5 DEF Resolve, Begin, Txs, TypeOK, TxHoldsRow
      <3>3. SyncOnlyWhenSyncing'
        BY <2>5 DEF Resolve, Begin, Txs, waitVars, TypeOK, SyncOnlyWhenSyncing
      <3>4. RowOpened'
        BY <2>5 DEF Resolve, Begin, Txs, TypeOK, RowOpened, TxHoldsRow
      <3> QED BY <3>1, <3>2, <3>3, <3>4 DEF Typed
    <2>6. ASSUME NEW x \in Resolvers, Update(x) PROVE Typed'
      <3>1. TypeOK'
        BY <2>6 DEF Update, Txs, Waits, waitVars, platformVars, TypeOK
      <3>2. TxHoldsRow'
        BY <2>6 DEF Update, Txs, TypeOK, TxHoldsRow
      <3>3. SyncOnlyWhenSyncing'
        BY <2>6 DEF Update, Txs, waitVars, TypeOK, SyncOnlyWhenSyncing
      <3>4. RowOpened'
        BY <2>6 DEF Update, Txs, TypeOK, RowOpened, TxHoldsRow
      <3> QED BY <3>1, <3>2, <3>3, <3>4 DEF Typed
    <2>7. ASSUME NEW x \in Resolvers, EmitAudit(x) PROVE Typed'
      <3>1. TypeOK'
        BY <2>7 DEF EmitAudit, Txs, Waits, waitVars, platformVars, TypeOK
      <3>2. TxHoldsRow'
        BY <2>7 DEF EmitAudit, Txs, TypeOK, TxHoldsRow
      <3>3. SyncOnlyWhenSyncing'
        BY <2>7 DEF EmitAudit, Txs, waitVars, TypeOK, SyncOnlyWhenSyncing
      <3>4. RowOpened'
        BY <2>7 DEF EmitAudit, Txs, TypeOK, RowOpened, TxHoldsRow
      <3> QED BY <3>1, <3>2, <3>3, <3>4 DEF Typed
    <2>8. ASSUME NEW x \in Resolvers, CommitTx(x) PROVE Typed'
      <3>1. TypeOK'
        BY <2>8 DEF CommitTx, EndTx, Txs, Waits, waitVars, platformVars, TypeOK
      <3>2. TxHoldsRow'
        BY <2>8 DEF CommitTx, EndTx, Txs, TypeOK, TxHoldsRow
      <3>3. SyncOnlyWhenSyncing'
        BY <2>8 DEF CommitTx, EndTx, Txs, waitVars, TypeOK, SyncOnlyWhenSyncing
      <3>4. RowOpened'
        BY <2>8 DEF CommitTx, EndTx, Txs, TypeOK, RowOpened, TxHoldsRow
      <3> QED BY <3>1, <3>2, <3>3, <3>4 DEF Typed
    <2>9. ASSUME NEW x \in Resolvers, RollbackTx(x) PROVE Typed'
      <3>1. TypeOK'
        BY <2>9 DEF RollbackTx, EndTx, Txs, Waits, waitVars, platformVars, TypeOK
      <3>2. TxHoldsRow'
        BY <2>9 DEF RollbackTx, EndTx, Txs, TypeOK, TxHoldsRow
      <3>3. SyncOnlyWhenSyncing'
        BY <2>9 DEF RollbackTx, EndTx, Txs, waitVars, TypeOK, SyncOnlyWhenSyncing
      <3>4. RowOpened'
        BY <2>9 DEF RollbackTx, EndTx, Txs, TypeOK, RowOpened, TxHoldsRow
      <3> QED BY <3>1, <3>2, <3>3, <3>4 DEF Typed
    <2>10. ASSUME NEW w \in Waiters, NEW r \in Requests, StartWait(w, r) PROVE Typed'
      BY <2>10 DEF StartWait, Waits, localVars, platformVars,
                   Typed, TypeOK, TxHoldsRow, SyncOnlyWhenSyncing, RowOpened
    <2>11. ASSUME NEW w \in Waiters, DeadlinePasses(w) PROVE Typed'
      BY <2>11 DEF DeadlinePasses, localVars, platformVars,
                   Typed, TypeOK, TxHoldsRow, SyncOnlyWhenSyncing, RowOpened
    <2>12. ASSUME NEW w \in Waiters, PollLocal(w) PROVE Typed'
      <3>1. wait' \in [Waiters -> Waits]
        BY <2>12 DEF PollLocal, Goto, Waits, TypeOK
      <3>2. SyncOnlyWhenSyncing'
        BY <2>12 DEF PollLocal, Goto, Waits, localVars, TypeOK, SyncOnlyWhenSyncing
      <3> QED
        BY <2>12, <3>1, <3>2 DEF PollLocal, localVars, platformVars,
           Typed, TypeOK, TxHoldsRow, RowOpened
    <2>13. ASSUME NEW w \in Waiters, NoVerdict(w) PROVE Typed'
      <3>1. wait' \in [Waiters -> Waits]
        BY <2>13 DEF NoVerdict, Goto, Waits, TypeOK
      <3>2. SyncOnlyWhenSyncing'
        BY <2>13 DEF NoVerdict, Goto, Waits, localVars, TypeOK, SyncOnlyWhenSyncing
      <3> QED
        BY <2>13, <3>1, <3>2 DEF NoVerdict, localVars, platformVars,
           Typed, TypeOK, TxHoldsRow, RowOpened
    <2>14. ASSUME NEW w \in Waiters, PollPlatform(w) PROVE Typed'
      <3>1. wait' \in [Waiters -> Waits]
        <4>1. plat[wait[w].req] \in Verdicts
          BY <2>14 DEF PollPlatform
        <4>2. wait[w] \in Waits
          BY DEF TypeOK
        <4>3. [wait[w] EXCEPT !.pc = "sync", !.verdict = plat[wait[w].req]] \in Waits
          BY <4>1, <4>2 DEF Waits
        <4> QED BY <2>14, <4>3 DEF PollPlatform, TypeOK
      <3>2. SyncOnlyWhenSyncing'
        BY <2>14 DEF PollPlatform, Goto, Waits, localVars, TypeOK, SyncOnlyWhenSyncing
      <3> QED
        BY <2>14, <3>1, <3>2 DEF PollPlatform, localVars, platformVars,
           Typed, TypeOK, TxHoldsRow, RowOpened
    <2>15. ASSUME NEW w \in Waiters, ReturnSynced(w) PROVE Typed'
      <3>1. wait' \in [Waiters -> Waits]
        BY <2>15 DEF ReturnSynced, Goto, Waits, TypeOK
      <3>2. SyncOnlyWhenSyncing'
        BY <2>15 DEF ReturnSynced, Goto, Waits, localVars, TypeOK, SyncOnlyWhenSyncing
      <3> QED
        BY <2>15, <3>1, <3>2 DEF ReturnSynced, localVars, platformVars,
           Typed, TypeOK, TxHoldsRow, RowOpened
    <2>16. ASSUME NEW w \in Waiters, SyncPlatform(w) PROVE Typed'
      <3>0. tx[w].phase = "idle"
        BY <2>16 DEF SyncPlatform, SyncOnlyWhenSyncing
      <3>1. CASE row[wait[w].req] = "pending" /\ Begin(w, wait[w].req, wait[w].verdict)
                   /\ Goto(w, "syncing")
        <4>1. wait[w] \in Waits
          BY DEF TypeOK
        <4>2. tx' \in [Resolvers -> Txs]
          BY <3>1, <4>1 DEF Begin, TypeOK, Txs, Waits
        <4>3. wait' \in [Waiters -> Waits]
          BY <3>1 DEF Goto, TypeOK, Waits
        <4>4. TypeOK'
          BY <2>16, <4>2, <4>3 DEF SyncPlatform, platformVars, TypeOK
        <4>5. TxHoldsRow'
          BY <2>16, <3>0, <3>1, <4>1 DEF SyncPlatform, Begin, TypeOK, TxHoldsRow
        <4>6. SyncOnlyWhenSyncing'
          BY <3>1, <4>1 DEF Begin, Goto, TypeOK, Waits, SyncOnlyWhenSyncing
        <4> QED BY <2>16, <4>4, <4>5, <4>6 DEF SyncPlatform, Typed, RowOpened
      <3>2. CASE Goto(w, wait[w].verdict) /\ UNCHANGED tx
        <4>1. wait' \in [Waiters -> Waits]
          BY <3>2 DEF Goto, TypeOK, Waits
        <4>2. SyncOnlyWhenSyncing'
          BY <3>0, <3>2 DEF Goto, TypeOK, SyncOnlyWhenSyncing
        <4> QED
          BY <2>16, <3>2, <4>1, <4>2 DEF SyncPlatform, platformVars,
             Typed, TypeOK, TxHoldsRow, RowOpened
      <3> QED BY <2>16, <3>1, <3>2 DEF SyncPlatform
    <2>17. ASSUME NEW r \in Requests, NEW v \in Verdicts,
                  PlatformDecide(r, v) \/ NotifyArrives(r, v)
           PROVE  Typed'
      BY <2>17 DEF PlatformDecide, NotifyArrives, localVars, waitVars,
                   Typed, TypeOK, TxHoldsRow, SyncOnlyWhenSyncing, RowOpened
    <2>18. CASE UNCHANGED vars
      BY <2>18 DEF vars, Typed, TypeOK, TxHoldsRow, SyncOnlyWhenSyncing, RowOpened
    <2> QED
      BY <2>1, <2>2, <2>3, <2>4, <2>5, <2>6, <2>7, <2>8, <2>9, <2>10, <2>11,
         <2>12, <2>13, <2>14, <2>15, <2>16, <2>17, <2>18
      DEF Next, TxStep, WaitStep
  <1> QED BY <1>1, <1>2, PTL DEF Spec

(* The model's variables keep their types in every reachable state of the  *)
(* gates module.                                                           *)
THEOREM GatesTypeOK == Spec => []TypeOK
  <1>1. Typed => TypeOK
    BY DEF Typed
  <1> QED BY TypedInvariant, <1>1, PTL

(* Once a gate is granted or denied in the store no interleaving of grant, *)
(* deny, retry, rollback and platform sync changes the verdict.            *)
THEOREM GatesSingleUse == Spec => SingleUse
  <1> DEFINE Keeps == \A r \in Requests : row[r] \in Verdicts => row'[r] \in {row[r], "purged"}
  <1>1. Typed /\ [Next]_vars => [Keeps]_vars
    <2> SUFFICES ASSUME Typed, Next, NEW q \in Requests, row[q] \in Verdicts
                 PROVE  row'[q] \in {row[q], "purged"}
      OBVIOUS
    <2>1. ASSUME NEW r \in Requests, Request(r) PROVE row'[q] = row[q]
      BY <2>1 DEF Request, Typed, TypeOK, RowOpened, Verdicts
    <2>2. ASSUME NEW r \in Requests, Cleanup(r) PROVE row'[q] \in {row[q], "purged"}
      BY <2>2 DEF Cleanup, Typed, TypeOK
    <2>3. ASSUME NEW x \in Resolvers, CommitTx(x) PROVE row'[q] = row[q]
      BY <2>3 DEF CommitTx, Typed, TypeOK, TxHoldsRow, Verdicts
    <2>4. row'[q] \in {row[q], "purged"} \/ UNCHANGED row
      BY <2>1, <2>2, <2>3
      DEF Next, TxStep, WaitStep, Expire, ForwardGate, Resolve, Update, EmitAudit,
          RollbackTx, StartWait, DeadlinePasses, PollLocal, NoVerdict, PollPlatform,
          SyncPlatform, ReturnSynced, PlatformDecide, NotifyArrives, localVars
    <2> QED BY <2>4
  <1> QED BY TypedInvariant, <1>1, PTL DEF Spec, SingleUse

(* With an audit log that always lands somewhere, a gate that is resolved  *)
(* in the store has the audit row of the verdict it carries: the hook runs *)
(* inside the transaction, and the transaction it belongs to is the only   *)
(* one that can commit a verdict.                                          *)
THEOREM GatesResolvedAudited ==
    ASSUME AuditCanFail = FALSE PROVE Spec => []ResolvedAudited
  <1> DEFINE Inv == HookRan /\ ResolvedAudited
  <1>1. Init => Inv
    BY DEF Init, HookRan, ResolvedAudited, Verdicts
  <1>2. Typed /\ Inv /\ [Next]_vars => Inv'
    <2> SUFFICES ASSUME Typed, HookRan, ResolvedAudited, [Next]_vars PROVE Inv'
      OBVIOUS
    <2>0. TypeOK /\ TxHoldsRow /\ SyncOnlyWhenSyncing /\ RowOpened
      BY DEF Typed
    <2>1. ASSUME NEW r \in Requests, Request(r) PROVE Inv'
      BY <2>0, <2>1 DEF Request, TypeOK, RowOpened, HookRan, ResolvedAudited, Verdicts
    <2>2. ASSUME NEW r \in Requests, Cleanup(r) PROVE Inv'
      BY <2>0, <2>2 DEF Cleanup, TypeOK, HookRan, ResolvedAudited, Verdicts
    <2>3. ASSUME NEW o \in Operators, NEW r \in Requests, NEW v \in Verdicts,
                 Resolve(o, r, v)
          PROVE  Inv'
      BY <2>0, <2>3 DEF Resolve, Begin, TypeOK, Txs, HookRan, ResolvedAudited, Resolvers
    <2>4. ASSUME NEW x \in Resolvers, Update(x) PROVE Inv'
      BY <2>0, <2>4 DEF Update, TypeOK, Txs, HookRan, ResolvedAudited
    <2>5. ASSUME NEW x \in Resolvers, EmitAudit(x) PROVE Inv'
      <3>1. audit' = audit \cup {<<tx[x].req, tx[x].verdict>>}
        BY <2>5 DEF EmitAudit
      <3>2. HookRan'
        BY <2>0, <2>5, <3>1 DEF EmitAudit, TypeOK, Txs, HookRan
      <3>3. ResolvedAudited'
        BY <2>5, <3>1 DEF EmitAudit, ResolvedAudited
      <3> QED BY <3>2, <3>3
    <2>6. ASSUME NEW x \in Resolvers, CommitTx(x) PROVE Inv'
      <3>1. <<tx[x].req, tx[x].verdict>> \in audit
        BY <2>6 DEF CommitTx, HookRan
      <3>2. HookRan'
        BY <2>0, <2>6 DEF CommitTx, EndTx, TypeOK, Txs, HookRan
      <3>3. ResolvedAudited'
        BY <2>0, <2>6, <3>1 DEF CommitTx, TypeOK, Txs, ResolvedAudited
      <3> QED BY <3>2, <3>3
    <2>7. ASSUME NEW x \in Resolvers, RollbackTx(x) PROVE Inv'
      BY <2>0, <2>7 DEF RollbackTx, EndTx, TypeOK, Txs, HookRan, ResolvedAudited
    <2>8. ASSUME NEW w \in Waiters, SyncPlatform(w) PROVE Inv'
      <3>1. ResolvedAudited'
        BY <2>8 DEF SyncPlatform, ResolvedAudited
      <3>2. HookRan'
        <4>1. CASE UNCHANGED tx
          BY <2>8, <4>1 DEF SyncPlatform, HookRan
        <4>2. CASE Begin(w, wait[w].req, wait[w].verdict)
          <5>1. w \in Resolvers
            BY DEF Resolvers
          <5>2. \A x \in Resolvers : tx'[x].phase = "audited" => x # w /\ tx'[x] = tx[x]
            BY <2>0, <4>2, <5>1 DEF Begin, TypeOK
          <5> QED BY <2>8, <5>2 DEF SyncPlatform, HookRan
        <4> QED BY <2>8, <4>1, <4>2 DEF SyncPlatform
      <3> QED BY <3>1, <3>2
    <2>9. CASE UNCHANGED <<row, tx, audit>>
      BY <2>9 DEF HookRan, ResolvedAudited
    <2> QED
      BY <2>1, <2>2, <2>3, <2>4, <2>5, <2>6, <2>7, <2>8, <2>9
      DEF Next, TxStep, WaitStep, Expire, ForwardGate, StartWait, DeadlinePasses,
          PollLocal, NoVerdict, PollPlatform, ReturnSynced, PlatformDecide,
          NotifyArrives, localVars, vars
  <1> QED BY <1>1, <1>2, TypedInvariant, PTL DEF Spec

-----------------------------------------------------------------------------
(* A gate whose POST has not been answered is unknown to the platform, and *)
(* only request() starts a POST, once for the id it minted.                *)
ForwardFirst ==
    \A r \in Requests :
        /\ forward[r] \in {"none", "inflight"} => plat[r] = "unknown"
        /\ r \notin opened => forward[r] = "none"

(* A waiter that writes a verdict back carries the platform's.             *)
SyncsVerdict ==
    \A w \in Waiters : wait[w].pc \in {"sync", "syncing"} =>
        plat[wait[w].req] = wait[w].verdict

(* The platform never takes a verdict back: the POST of a gate comes       *)
(* before any decision about it, and a second decision is a no-op.         *)
LEMMA PlatformKeeps ==
    ASSUME TypeOK, ForwardFirst, [Next]_vars
    PROVE  /\ ForwardFirst'
           /\ \A r \in Requests : plat[r] \in Verdicts => plat'[r] = plat[r]
  <1> USE DEF ForwardFirst, Verdicts
  <1>1. ASSUME NEW q \in Requests, Request(q)
        PROVE  ForwardFirst' /\ plat' = plat
    BY <1>1 DEF Request, TypeOK
  <1>2. ASSUME NEW q \in Requests, ForwardGate(q)
        PROVE  ForwardFirst' /\ \A r \in Requests : plat[r] \in Verdicts => plat'[r] = plat[r]
    <2>1. /\ forward[q] = "inflight" /\ plat[q] = "unknown" /\ opened' = opened
          /\ plat' \in {plat, [plat EXCEPT ![q] = "pending"]}
          /\ \E f \in {"acked", "dropped"} : forward' = [forward EXCEPT ![q] = f]
      BY <1>2 DEF ForwardGate, localVars
    <2>2. \A r \in Requests \ {q} : plat'[r] = plat[r] /\ forward'[r] = forward[r]
      BY <2>1 DEF TypeOK
    <2>3. forward'[q] \in {"acked", "dropped"} /\ q \in opened
      BY <2>1 DEF TypeOK
    <2> QED BY <2>1, <2>2, <2>3
  <1>3. ASSUME NEW q \in Requests, NEW v \in Verdicts,
               PlatformDecide(q, v) \/ NotifyArrives(q, v)
        PROVE  ForwardFirst' /\ \A r \in Requests : plat[r] \in Verdicts => plat'[r] = plat[r]
    <2>1. /\ UNCHANGED <<opened, forward>>
          /\ plat' = plat \/ (plat[q] = "pending" /\ plat' = [plat EXCEPT ![q] = v])
      BY <1>3 DEF PlatformDecide, NotifyArrives, localVars
    <2> QED BY <2>1 DEF TypeOK
  <1>4. CASE UNCHANGED <<opened, plat, forward>>
    BY <1>4
  <1> QED
    BY <1>1, <1>2, <1>3, <1>4
    DEF Next, TxStep, WaitStep, Expire, Cleanup, Resolve, Update, EmitAudit, CommitTx,
        RollbackTx, StartWait, DeadlinePasses, PollLocal, NoVerdict, PollPlatform,
        SyncPlatform, ReturnSynced, localVars, platformVars, vars

(* wait_for never makes a verdict up: with an audit log that always lands  *)
(* somewhere, the verdict it returns is in the audit trail or is the one   *)
(* the platform still holds, whatever the race between the local poll, the *)
(* platform poll, the write-back and an operator.                          *)
THEOREM GatesVerdictGiven ==
    ASSUME AuditCanFail = FALSE PROVE Spec => []VerdictGiven
  <1> DEFINE Given == ForwardFirst /\ SyncsVerdict /\ VerdictGiven
  <1>1. Init => Given
    BY DEF Init, ForwardFirst, SyncsVerdict, VerdictGiven, Verdicts
  <1>2. Typed /\ ResolvedAudited /\ Given /\ [Next]_vars => Given'
    <2> SUFFICES ASSUME Typed, ResolvedAudited, ForwardFirst, SyncsVerdict, VerdictGiven,
                        [Next]_vars
                 PROVE  Given'
      OBVIOUS
    <2>0. TypeOK
      BY DEF Typed
    <2>1. /\ ForwardFirst'
          /\ \A r \in Requests : plat[r] \in Verdicts => plat'[r] = plat[r]
      BY <2>0, PlatformKeeps
    <2>2. audit \subseteq audit'
      BY DEF Next, TxStep, WaitStep, Request, Expire, Cleanup, ForwardGate, Resolve, Update,
             EmitAudit, CommitTx, RollbackTx, StartWait, DeadlinePasses, PollLocal,
             NoVerdict, PollPlatform, SyncPlatform, ReturnSynced, PlatformDecide,
             NotifyArrives, localVars, vars
    <2>3. \A w \in Waiters : wait[w] \in Waits /\ wait[w].req \in Requests
                            /\ wait[w].verdict \in Verdicts
      BY <2>0 DEF TypeOK, Waits
    <2>4. ASSUME NEW w \in Waiters, wait'[w] = wait[w]
          PROVE  /\ wait'[w].pc \in {"sync", "syncing"} =>
                       plat'[wait'[w].req] = wait'[w].verdict
                 /\ wait'[w].pc \in Verdicts =>
                       \/ <<wait'[w].req, wait'[w].pc>> \in audit'
                       \/ plat'[wait'[w].req] = wait'[w].pc
      BY <2>1, <2>2, <2>3, <2>4 DEF SyncsVerdict, VerdictGiven
    <2>5. ASSUME NEW w \in Waiters,
                 \/ WaitStep(w)
                 \/ \E r \in Requests : StartWait(w, r)
          PROVE  /\ \A x \in Waiters \ {w} : wait'[x] = wait[x]
                 /\ wait'[w].pc \in {"sync", "syncing"} =>
                       plat'[wait'[w].req] = wait'[w].verdict
                 /\ wait'[w].pc \in Verdicts =>
                       \/ <<wait'[w].req, wait'[w].pc>> \in audit'
                       \/ plat'[wait'[w].req] = wait'[w].pc
      <3>0. UNCHANGED <<plat, audit>>
        BY <2>5 DEF WaitStep, StartWait, PollLocal, NoVerdict, PollPlatform, SyncPlatform,
                    ReturnSynced, localVars, platformVars
      <3>1. ASSUME NEW pc, Goto(w, pc)
            PROVE  /\ \A x \in Waiters \ {w} : wait'[x] = wait[x]
                   /\ wait'[w].pc = pc /\ wait'[w].req = wait[w].req
                   /\ wait'[w].verdict = wait[w].verdict
        BY <2>0, <2>3, <3>1 DEF Goto, TypeOK, Waits
      <3>2. CASE \E r \in Requests : StartWait(w, r)
        BY <2>0, <3>2 DEF StartWait, TypeOK, Verdicts
      <3>3. CASE PollLocal(w)
        <4>1. CASE row[wait[w].req] \in Verdicts /\ Goto(w, row[wait[w].req])
          BY <2>3, <3>0, <3>1, <4>1 DEF ResolvedAudited, Verdicts
        <4>2. CASE Goto(w, "platform")
          BY <3>1, <4>2 DEF Verdicts
        <4> QED BY <3>3, <4>1, <4>2 DEF PollLocal
      <3>4. CASE NoVerdict(w)
        <4>1. Goto(w, "timeout") \/ Goto(w, "local")
          BY <3>4 DEF NoVerdict
        <4> QED BY <3>1, <4>1 DEF Verdicts
      <3>5. CASE PollPlatform(w)
        <4>1. /\ \A x \in Waiters \ {w} : wait'[x] = wait[x]
              /\ wait'[w].pc = "sync" /\ wait'[w].req = wait[w].req
              /\ wait'[w].verdict = plat[wait[w].req]
          BY <2>0, <2>3, <3>5 DEF PollPlatform, TypeOK, Waits
        <4> QED BY <3>0, <4>1 DEF Verdicts
      <3>6. CASE SyncPlatform(w) \/ ReturnSynced(w)
        <4>1. /\ plat[wait[w].req] = wait[w].verdict
              /\ Goto(w, "syncing") \/ Goto(w, wait[w].verdict)
          BY <3>6 DEF SyncPlatform, ReturnSynced, SyncsVerdict
        <4> QED BY <2>3, <3>0, <3>1, <4>1 DEF Verdicts
      <3> QED BY <2>5, <3>2, <3>3, <3>4, <3>5, <3>6 DEF WaitStep
    <2>6. SyncsVerdict' /\ VerdictGiven'
      <3>1. CASE UNCHANGED wait
        BY <2>4, <3>1 DEF SyncsVerdict, VerdictGiven
      <3>2. ASSUME NEW w \in Waiters, WaitStep(w) \/ \E r \in Requests : StartWait(w, r)
            PROVE  SyncsVerdict' /\ VerdictGiven'
        BY <2>4, <2>5, <3>2 DEF SyncsVerdict, VerdictGiven
      <3> QED
        BY <3>1, <3>2
        DEF Next, TxStep, Request, Expire, Cleanup, ForwardGate, Resolve, Update, EmitAudit,
            CommitTx, RollbackTx, DeadlinePasses, PlatformDecide, NotifyArrives, waitVars, vars
    <2> QED BY <2>1, <2>6
  <1> QED BY <1>1, <1>2, TypedInvariant, GatesResolvedAudited, PTL DEF Spec

-----------------------------------------------------------------------------
(***************************************************************************)
(* The halt switch, which shares none of its names with the gates: its     *)
(* specification is SwitchSpec.                                            *)
(*                                                                         *)
(* The delay of the switch rests on Current: a change of halted_by older   *)
(* than the stamp of the cache, or of a query's answer on its way to it,   *)
(* is shown there, unless the last refresh failed and only the stamp was   *)
(* moved. It holds because the stamp is read before the query. That no     *)
(* answer undoes a newer one rests on the lock (Owner, Growing).           *)
(***************************************************************************)

(* What the switch assumes of its constants.                               *)
LEMMA HaltConstants ==
    /\ IsFiniteSet(Agents) /\ IsFiniteSet(Callers)
    /\ None \notin Agents \cup Callers
    /\ TTL \in Nat \ {0}
    /\ {StaleAfter, Uptime, MaxTime} \subseteq Nat
    /\ Uptime <= MaxTime
    /\ {DbCanFail, UpdateRevoked, OperatorClears} \subseteq BOOLEAN
  BY ActorsAssumption, TimeAssumption, ModeAssumption

(* Times in the past: the moments the state mentions have happened.        *)
Past ==
    /\ cacheAt <= clock /\ Uptime <= clock
    /\ \A a \in Agents : since[a] <= clock
    /\ \A c \in Callers : call[c].start <= clock /\ call[c].now <= clock
    /\ \A c \in Callers : call[c].pc \in {"fetch", "apply"} => call[c].start <= call[c].now
    /\ \A c \in Callers : call[c].pc # "idle" => Uptime <= call[c].start

(* What K says of every agent whose marker last changed before t.          *)
ShowsAll(K, t) == \A a \in Agents : since[a] < t => (a \in K <=> a \in halted)

(* The cache shows what its stamp promises, and so does an answer on its   *)
(* way to it.                                                              *)
Current ==
    /\ ~outage /\ cacheAt # 0 => ShowsAll(cache, cacheAt)
    /\ \A c \in Callers : call[c].pc = "apply" => ShowsAll(call[c].seen, call[c].now)

(* A refresh under way owns _halted_lock.                                  *)
Owner == \A c \in Callers : call[c].pc \in {"fetch", "apply"} => holder = c

(* The cache, and an answer that will replace it, only grow, clearings of  *)
(* the halt aside.                                                         *)
Growing ==
    /\ cache \subseteq halted \cup cleared
    /\ \A c \in Callers : call[c].pc = "apply" =>
         cache \subseteq call[c].seen \cup cleared /\ call[c].seen \subseteq halted \cup cleared

(* An engaged halt is in its row.                                          *)
Holds == HaltHolds /\ \A a \in halted : status[a] # "absent"


(* An idle call has its type.                                              *)
LEMMA IdleType ==
    ASSUME NEW v \in {"none", "passed", "blocked", "refreshed", "cancelled"}
    PROVE  Idle(v) \in Calls /\ Idle(v).pc = "idle"
BY HaltConstants DEF Idle, Calls, Times

(* What a call answers is one of its verdicts.                             *)
LEMMA AnswerType == ASSUME NEW c, NEW K
                    PROVE  Answer(c, K) \in {"refreshed", "blocked", "passed"}
BY DEF Answer

(* The presence rows, the marker, the cache and the calls keep their types *)
(* whatever order the agents, operators, coroutines and the clock run in.  *)
THEOREM HaltTypeOK == SwitchSpec => []SwitchTypeOK
<1>1. SwitchInit => SwitchTypeOK
  <2> SUFFICES ASSUME SwitchInit PROVE SwitchTypeOK
    OBVIOUS
  <2>1. Uptime \in Times /\ 0 \in Times /\ -TTL \in Int
    BY HaltConstants DEF Times
  <2>2. call \in [Callers -> Calls]
    BY IdleType DEF SwitchInit
  <2> QED BY <2>1, <2>2 DEF SwitchInit, SwitchTypeOK
<1>2. SwitchTypeOK /\ [SwitchNext]_switchVars => SwitchTypeOK'
  <2> SUFFICES ASSUME SwitchTypeOK, [SwitchNext]_switchVars PROVE SwitchTypeOK'
    OBVIOUS
  <2> USE DEF SwitchTypeOK
  <2>1. ASSUME NEW a \in Agents, Presence(a) PROVE SwitchTypeOK'
    BY <2>1 DEF Presence, Heartbeat, MarkIdle, CloseAgent, switch
  <2>2. ASSUME NEW a \in Agents, Halt(a) PROVE SwitchTypeOK'
    <3>1. status' \in [Agents -> {"absent", "live", "idle", "unresponsive"}]
      BY <2>2 DEF Halt
    <3>2. since' \in [Agents -> Int]
      BY <2>2 DEF Halt, Times
    <3>3. beat' \in [Agents -> Times]
      BY <2>2 DEF Halt
    <3>4. halted' \subseteq Agents /\ told' \in [Agents -> {"none", "engaged", "failed"}]
      BY <2>2 DEF Halt
    <3> QED BY <2>2, <3>1, <3>2, <3>3, <3>4 DEF Halt
  <2>3. ASSUME NEW a \in Agents, HaltDenied(a) PROVE SwitchTypeOK'
    BY <2>3 DEF HaltDenied, rows
  <2>4. ASSUME NEW a \in Agents, Clear(a) PROVE SwitchTypeOK'
    <3>1. since' \in [Agents -> Int]
      BY <2>4 DEF Clear, Times
    <3> QED BY <2>4, <3>1 DEF Clear, rows
  <2>5. CASE CheckStale
    <3>1. status' \in [Agents -> {"absent", "live", "idle", "unresponsive"}]
      BY <2>5 DEF CheckStale
    <3> QED BY <2>5, <3>1 DEF CheckStale, switch
  <2>6. CASE Tick
    <3>1. clock' \in Times
      BY <2>6, HaltConstants DEF Tick, Times
    <3> QED BY <2>6, <3>1 DEF Tick, rows, switch
  <2>7. ASSUME NEW c \in Callers, NEW K, Return(c, K) PROVE call' \in [Callers -> Calls]
    BY <2>7, IdleType, AnswerType DEF Return
  <2>8. 0 \in Times
    BY HaltConstants DEF Times
  <2>9. ASSUME NEW c \in Callers, NEW a \in Agents \cup {None}, Call(c, a) PROVE SwitchTypeOK'
    <3>1. [pc |-> "ask", agent |-> a, start |-> clock, now |-> 0, seen |-> {},
           verdict |-> "none"] \in Calls
      BY <2>8 DEF Calls
    <3>2. call' \in [Callers -> Calls]
      BY <2>9, <3>1 DEF Call
    <3> QED BY <2>9, <3>2 DEF Call, rows, switch
  <2>10. ASSUME NEW c \in Callers, Ask(c) PROVE SwitchTypeOK'
    <3>1. call' \in [Callers -> Calls]
      BY <2>7, <2>10 DEF Ask, Calls
    <3>2. cacheAt' \in Times
      BY <2>8, <2>10 DEF Ask
    <3> QED BY <2>10, <3>1, <3>2 DEF Ask, rows, switch
  <2>11. ASSUME NEW c \in Callers, Lock(c) PROVE SwitchTypeOK'
    <3>1. call' \in [Callers -> Calls]
      BY <2>7, <2>11 DEF Lock, Calls
    <3> QED BY <2>11, <3>1 DEF Lock, rows, switch
  <2>12. ASSUME NEW c \in Callers, Fetch(c) PROVE SwitchTypeOK'
    <3> DEFINE r == [call[c] EXCEPT !.pc = "apply", !.seen = halted]
    <3>1. call' \in [Callers -> Calls]
      <4>1. call[c] \in Calls /\ halted \in SUBSET Agents
        OBVIOUS
      <4>2. r \in Calls
        BY <4>1 DEF Calls
      <4>3. call' = [call EXCEPT ![c] = r]
        BY <2>12 DEF Fetch
      <4> QED BY <4>2, <4>3
    <3> QED BY <2>12, <3>1 DEF Fetch, rows, switch
  <2>13. ASSUME NEW c \in Callers, Apply(c) PROVE SwitchTypeOK'
    <3>1. call[c].seen \subseteq Agents /\ call[c].now \in Times
      BY DEF Calls
    <3> QED BY <2>7, <2>13, <3>1 DEF Apply, rows, switch
  <2>14. ASSUME NEW c \in Callers, FetchFails(c) PROVE SwitchTypeOK'
    <3>1. call[c].now \in Times
      BY DEF Calls
    <3> QED BY <2>7, <2>14, <3>1 DEF FetchFails, rows, switch
  <2>15. ASSUME NEW c \in Callers, Cancel(c) PROVE SwitchTypeOK'
    <3>1. call' \in [Callers -> Calls]
      BY <2>15, IdleType DEF Cancel
    <3> QED BY <2>15, <3>1 DEF Cancel, rows, switch
  <2>16. CASE UNCHANGED switchVars
    BY <2>16 DEF switchVars, rows, switch
  <2> QED
    BY <2>1, <2>2, <2>3, <2>4, <2>5, <2>6, <2>9, <2>10, <2>11, <2>12, <2>13, <2>14, <2>15,
       <2>16
       DEF SwitchNext, Operator, Coroutine
<1> QED BY <1>1, <1>2, PTL DEF SwitchSpec

-----------------------------------------------------------------------------
(* What an idle call holds.                                                *)
LEMMA IdleFields ==
    ASSUME NEW v
    PROVE  /\ Idle(v).pc = "idle" /\ Idle(v).start = 0 /\ Idle(v).now = 0
           /\ Idle(v).verdict = v
BY DEF Idle

(* Every moment the state records is in the past.                          *)
LEMMA HaltPast == SwitchSpec => []Past
<1>1. SwitchInit => Past
  BY IdleFields, HaltConstants DEF SwitchInit, Past
<1>2. SwitchTypeOK /\ Past /\ [SwitchNext]_switchVars => Past'
  <2> SUFFICES ASSUME SwitchTypeOK, Past, [SwitchNext]_switchVars PROVE Past'
    OBVIOUS
  <2>0. /\ clock \in Nat /\ cacheAt \in Nat /\ Uptime \in Nat
        /\ \A a \in Agents : since[a] \in Int
        /\ \A c \in Callers : call[c].start \in Nat /\ call[c].now \in Nat
    BY HaltConstants DEF SwitchTypeOK, Times, Calls
  <2>1. CASE UNCHANGED <<clock, cacheAt, call>> /\ \A a \in Agents : since'[a] \in {since[a], clock}
    BY <2>0, <2>1 DEF Past
  <2>2. ASSUME NEW a \in Agents, Presence(a) \/ Operator(a) PROVE Past'
    <3>1. UNCHANGED <<clock, cacheAt, call>> /\ \A b \in Agents : since'[b] \in {since[b], clock}
      BY <2>2 DEF Presence, Operator, Heartbeat, MarkIdle, CloseAgent, Halt,
                  HaltDenied, Clear,
                  switch, SwitchTypeOK
    <3> QED BY <2>1, <3>1
  <2>3. CASE CheckStale
    BY <2>1, <2>3 DEF CheckStale, switch
  <2>4. CASE Tick
    BY <2>0, <2>4 DEF Past, Tick, switch
  <2>5. ASSUME NEW c \in Callers, Coroutine(c) \/ \E a \in Agents \cup {None} : Call(c, a)
        PROVE  Past'
    <3>1. clock' = clock /\ since' = since
      BY <2>5 DEF Coroutine, Call, Ask, Lock, Fetch, Apply, FetchFails,
                  Cancel, switch
    <3>2. cacheAt' \in {0, cacheAt, call[c].now}
      BY <2>5 DEF Coroutine, Call, Ask, Lock, Fetch, Apply, FetchFails, Cancel
    <3>3. \A d \in Callers \ {c} : call'[d] = call[d]
      BY <2>5 DEF Coroutine, Call, Ask, Lock, Fetch, Apply, FetchFails,
                  Cancel, Return, SwitchTypeOK
    <3>4. \/ \E v : call'[c] = Idle(v)
          \/ /\ call'[c].pc \in {"ask", "lock"} /\ call'[c].now \in {0, call[c].now}
             /\ call'[c].start \in {clock} \cup {t \in {call[c].start} : call[c].pc # "idle"}
          \/ /\ call'[c].pc \in {"fetch", "apply"} /\ call[c].pc # "idle"
             /\ call'[c].start = call[c].start
             /\ call'[c].now \in {clock} \cup {t \in {call[c].now} : call[c].pc = "fetch"}
      <4>1. CASE Ask(c)
        BY <4>1 DEF Ask, Return, SwitchTypeOK, Calls
      <4>2. CASE Lock(c)
        BY <4>2 DEF Lock, Return, SwitchTypeOK, Calls
      <4>3. CASE Fetch(c)
        BY <4>3 DEF Fetch, SwitchTypeOK, Calls
      <4>4. CASE Apply(c) \/ FetchFails(c) \/ Cancel(c)
        BY <4>4 DEF Apply, FetchFails, Cancel, Return, SwitchTypeOK
      <4>5. CASE \E a \in Agents \cup {None} : Call(c, a)
        BY <4>5 DEF Call, SwitchTypeOK
      <4> QED BY <2>5, <4>1, <4>2, <4>3, <4>4, <4>5 DEF Coroutine
    <3>5. /\ call'[c].start <= clock /\ call'[c].now <= clock
          /\ call'[c].pc \in {"fetch", "apply"} => call'[c].start <= call'[c].now
          /\ call'[c].pc # "idle" => Uptime <= call'[c].start
      BY <2>0, <3>4, IdleFields DEF Past
    <3>6. cacheAt' <= clock
      BY <2>0, <3>2 DEF Past
    <3> QED BY <3>1, <3>3, <3>5, <3>6 DEF Past
  <2>6. CASE UNCHANGED switchVars
    BY <2>1, <2>6 DEF switchVars, switch
  <2> QED BY <2>2, <2>3, <2>4, <2>5, <2>6 DEF SwitchNext
<1> QED BY <1>1, <1>2, HaltTypeOK, PTL DEF SwitchSpec

-----------------------------------------------------------------------------
(* The marker of an agent changes only now, so what a cache stamped in the *)
(* past shows of older changes stays true.                                 *)
MarkerMoves == \A a \in Agents :
    \/ since'[a] = clock
    \/ since'[a] = since[a] /\ (a \in halted' <=> a \in halted)

(* A step of an agent or an operator changes a marker only at the time of  *)
(* the clock, and leaves the calls alone.                                  *)
LEMMA MarkerChangesNow ==
    ASSUME SwitchTypeOK, NEW b \in Agents, Presence(b) \/ Operator(b)
    PROVE  MarkerMoves /\ UNCHANGED <<clock, cache, cacheAt, outage, holder, call>>
<1>1. UNCHANGED <<clock, cache, cacheAt, outage, holder, call>>
  BY DEF Presence, Operator, Heartbeat, MarkIdle, CloseAgent, Halt, HaltDenied,
         Clear
<1>2. CASE Presence(b) \/ HaltDenied(b)
  BY <1>1, <1>2 DEF MarkerMoves, Presence, Heartbeat, MarkIdle, CloseAgent,
                    HaltDenied, switch
<1>3. CASE Halt(b)
  <2>1. halted' = halted \cup {b}
    BY <1>3 DEF Halt
  <2>2. since' = since \/ since' = [since EXCEPT ![b] = clock]
    BY <1>3 DEF Halt
  <2>3. b \in halted \/ since'[b] = clock
    BY <1>3 DEF Halt, SwitchTypeOK
  <2> QED BY <1>1, <2>1, <2>2, <2>3 DEF MarkerMoves, SwitchTypeOK
<1>4. CASE Clear(b)
  BY <1>1, <1>4 DEF MarkerMoves, Clear, SwitchTypeOK
<1> QED BY <1>2, <1>3, <1>4 DEF Operator

(* Between a refresh that succeeded and one that fails, the cache is       *)
(* current up to its stamp; every answer under way always is.              *)
LEMMA HaltCurrent == SwitchSpec => []Current
<1>1. SwitchInit => Current
  BY IdleFields DEF SwitchInit, Current
<1>2. SwitchTypeOK /\ Past /\ Current /\ [SwitchNext]_switchVars => Current'
  <2> SUFFICES ASSUME SwitchTypeOK, Past, Current, [SwitchNext]_switchVars PROVE Current'
    OBVIOUS
  <2>0. /\ clock \in Int /\ cacheAt \in Int
        /\ \A a \in Agents : since[a] \in Int
        /\ \A c \in Callers : call[c].now \in Int
    BY HaltConstants DEF SwitchTypeOK, Times, Calls
  <2>1. ASSUME MarkerMoves, UNCHANGED <<cache, cacheAt, outage, call>> PROVE Current'
    BY <2>0, <2>1 DEF MarkerMoves, Current, ShowsAll, Past
  <2>2. ASSUME NEW b \in Agents, Presence(b) \/ Operator(b) PROVE Current'
    BY <2>1, <2>2, MarkerChangesNow
  <2>3. CASE CheckStale \/ Tick \/ UNCHANGED switchVars
    BY <2>1, <2>3 DEF CheckStale, Tick, switchVars, switch, MarkerMoves
  <2>4. ASSUME NEW c \in Callers, Coroutine(c) \/ \E a \in Agents \cup {None} : Call(c, a)
        PROVE  Current'
    <3>1. UNCHANGED <<since, halted>>
      BY <2>4 DEF Coroutine, Call, Ask, Lock, Fetch, Apply, FetchFails,
                  Cancel, switch
    <3>2. \A d \in Callers \ {c} : call'[d] = call[d]
      BY <2>4 DEF Coroutine, Call, Ask, Lock, Fetch, Apply, FetchFails,
                  Cancel, Return, SwitchTypeOK
    <3>3. call'[c].pc = "apply" => ShowsAll(call[c].seen, call[c].now)'
      <4>1. CASE Fetch(c)
        <5>1. call'[c].seen = halted
          BY <4>1 DEF Fetch, SwitchTypeOK, Calls
        <5> QED BY <3>1, <5>1 DEF ShowsAll
      <4>2. CASE ~Fetch(c)
        <5>1. call'[c].pc # "apply"
          BY <2>4, <4>2, IdleFields
             DEF Coroutine, Call, Ask, Lock, Apply, FetchFails, Cancel, Return, SwitchTypeOK, Calls
        <5> QED BY <5>1
      <4> QED BY <4>1, <4>2
    <3>4. ~outage' /\ cacheAt' # 0 => ShowsAll(cache, cacheAt)'
      <4>1. CASE Apply(c)
        <5>1. cache' = call[c].seen /\ cacheAt' = call[c].now /\ call[c].pc = "apply"
          BY <4>1 DEF Apply
        <5> QED BY <3>1, <5>1 DEF Current, ShowsAll
      <4>2. CASE ~Apply(c)
        <5>1. outage' \/ (outage' = outage /\ cache' = cache /\ cacheAt' \in {0, cacheAt})
          BY <2>4, <4>2 DEF Coroutine, Call, Ask, Lock, Fetch, FetchFails, Cancel
        <5> QED BY <3>1, <5>1 DEF Current, ShowsAll
      <4> QED BY <4>1, <4>2
    <3> QED BY <3>1, <3>2, <3>3, <3>4 DEF Current, ShowsAll
  <2> QED BY <2>2, <2>3, <2>4 DEF SwitchNext
<1> QED BY <1>1, <1>2, HaltTypeOK, HaltPast, PTL DEF SwitchSpec

(* The delay of the halt switch is at most TTL in every process that       *)
(* starts TTL or more after boot: for any number of agents and coroutines, *)
(* a check made TTL or more after the last change of the agent's marker    *)
(* gives the verdict of the marker, unless the last refresh failed.        *)
THEOREM HaltDelayBounded ==
    ASSUME Uptime >= TTL
    PROVE  SwitchSpec => HaltBounded
<1> DEFINE Verdict(c) ==
      Returns(c) /\ call'[c].verdict \in {"passed", "blocked"}
        /\ call[c].start - since[call[c].agent] >= TTL /\ ~outage'
      => (call'[c].verdict = "blocked" <=> call[c].agent \in halted)
<1>1. SwitchTypeOK /\ Past /\ Current /\ [SwitchNext]_switchVars => [\A c \in Callers : Verdict(c)]_switchVars
  <2> SUFFICES ASSUME SwitchTypeOK, Past, Current, SwitchNext, NEW c \in Callers,
                      Returns(c), call'[c].verdict \in {"passed", "blocked"},
                      call[c].start - since[call[c].agent] >= TTL, ~outage'
               PROVE  call'[c].verdict = "blocked" <=> call[c].agent \in halted
    OBVIOUS
  <2> DEFINE a == call[c].agent
  <2>1. Ask(c) \/ Lock(c) \/ Apply(c)
    <3>1. PICK d \in Callers : Coroutine(d) \/ \E b \in Agents \cup {None} : Call(d, b)
      BY MarkerChangesNow DEF SwitchNext, Returns, CheckStale, Tick
    <3>2. d = c
      BY <3>1 DEF Returns, Coroutine, Call, Ask, Lock, Fetch, Apply,
                  FetchFails, Cancel, Return, SwitchTypeOK
    <3>3. ~Fetch(c) /\ ~Cancel(c) /\ ~\E b \in Agents \cup {None} : Call(c, b)
      BY IdleFields DEF Returns, Fetch, Cancel, Call, SwitchTypeOK, Calls
    <3> QED BY <3>1, <3>2, <3>3 DEF Coroutine, FetchFails
  <2>2. /\ Return(c, cache')
        /\ ShowsAll(cache', cacheAt') \/ cacheAt' = 0
        /\ call[c].start - cacheAt' < TTL
    <3>0. /\ clock \in Int /\ cacheAt \in Int /\ TTL \in Int /\ TTL > 0
          /\ call[c].start \in Int /\ call[c].now \in Int
      BY HaltConstants DEF SwitchTypeOK, Times, Calls
    <3>1. CASE Ask(c)
      <4>1. Fresh(cacheAt') /\ Return(c, cache) /\ cache' = cache /\ cacheAt' \in {0, cacheAt}
        BY <3>1 DEF Ask, Returns, SwitchTypeOK, Calls
      <4>2. call[c].start - cacheAt' < TTL
        <5>1. call[c].start <= clock
          BY DEF Past
        <5>2. clock - cacheAt' < TTL
          BY <4>1 DEF Fresh
        <5>3. CASE cacheAt' = 0
          BY <3>0, <5>1, <5>2, <5>3
        <5>4. CASE cacheAt' = cacheAt
          BY <3>0, <5>1, <5>2, <5>4
        <5> QED BY <4>1, <5>3, <5>4
      <4>3. ShowsAll(cache', cacheAt') \/ cacheAt' = 0
        BY <3>1, <4>1 DEF Ask, Current
      <4> QED BY <4>1, <4>2, <4>3
    <3>2. CASE Lock(c)
      <4>1. Fresh(cacheAt) /\ Return(c, cache) /\ cache' = cache /\ cacheAt' = cacheAt
        BY <3>2 DEF Lock, Returns, SwitchTypeOK, Calls
      <4>2. call[c].start - cacheAt' < TTL
        BY <3>0, <4>1 DEF Fresh, Past
      <4>3. ShowsAll(cache', cacheAt') \/ cacheAt' = 0
        BY <3>2, <4>1 DEF Lock, Current
      <4> QED BY <4>1, <4>2, <4>3
    <3>3. CASE Apply(c)
      <4>1. /\ Return(c, cache') /\ cache' = call[c].seen /\ cacheAt' = call[c].now
            /\ call[c].pc = "apply"
        BY <3>3 DEF Apply
      <4>2. call[c].start - call[c].now < TTL
        BY <3>0, <4>1 DEF Past
      <4> QED BY <4>1, <4>2 DEF Current
    <3> QED BY <2>1, <3>1, <3>2, <3>3
  <2>3. call'[c].verdict = Answer(c, cache')
    BY <2>2, IdleFields DEF Return, SwitchTypeOK
  <2>4. a \in Agents /\ a # None
    <3>1. a = None => Answer(c, cache') = "refreshed"
      BY DEF Answer
    <3>2. a # None
      BY <2>3, <3>1
    <3> QED BY <3>2 DEF SwitchTypeOK, Calls
  <2>5. ShowsAll(cache', cacheAt') /\ since[a] < cacheAt'
    <3>0. /\ cacheAt' \in Int /\ TTL \in Int /\ Uptime \in Int
          /\ call[c].start \in Int /\ since[a] \in Int
      <4>1. cacheAt' \in {0, cacheAt, call[c].now}
        BY <2>1 DEF Ask, Lock, Apply
      <4> QED BY <2>4, <4>1, HaltConstants DEF SwitchTypeOK, Times, Calls
    <3>1. call[c].start >= Uptime
      BY DEF Past, Returns
    <3> QED BY <2>2, <3>0, <3>1
  <2>6. a \in cache' <=> a \in halted
    BY <2>4, <2>5 DEF ShowsAll
  <2> QED BY <2>3, <2>4, <2>6 DEF Answer
<1> QED BY <1>1, HaltTypeOK, HaltPast, HaltCurrent, PTL DEF SwitchSpec, HaltBounded

-----------------------------------------------------------------------------
(* The refreshes of the cache follow one another, outages and              *)
(* cancellations included, so none takes out an agent another found        *)
(* halted.                                                                 *)
LEMMA HaltGrowing == SwitchSpec => [](Owner /\ Growing)
<1>1. SwitchInit => Owner /\ Growing
  BY IdleFields DEF SwitchInit, Owner, Growing
<1>2. SwitchTypeOK /\ Owner /\ Growing /\ [SwitchNext]_switchVars => (Owner /\ Growing)'
  <2> SUFFICES ASSUME SwitchTypeOK, Owner, Growing, [SwitchNext]_switchVars PROVE (Owner /\ Growing)'
    OBVIOUS
  <2>1. ASSUME UNCHANGED <<cache, holder, call>>, cleared \subseteq cleared',
               halted \subseteq halted' \cup cleared'
        PROVE  (Owner /\ Growing)'
    BY <2>1 DEF Owner, Growing
  <2>2. ASSUME NEW a \in Agents, Presence(a) \/ Operator(a) PROVE (Owner /\ Growing)'
    BY <2>1, <2>2 DEF Presence, Operator, Heartbeat, MarkIdle, CloseAgent, Halt,
                      HaltDenied, Clear,
                      switch
  <2>3. CASE CheckStale \/ Tick \/ UNCHANGED switchVars
    BY <2>1, <2>3 DEF CheckStale, Tick, switchVars, switch
  <2>4. ASSUME NEW c \in Callers, Coroutine(c) \/ \E a \in Agents \cup {None} : Call(c, a)
        PROVE  (Owner /\ Growing)'
    <3>1. UNCHANGED <<halted, cleared>>
      BY <2>4 DEF Coroutine, Call, Ask, Lock, Fetch, Apply, FetchFails,
                  Cancel, switch
    <3>2. \A d \in Callers \ {c} : call'[d] = call[d]
      BY <2>4 DEF Coroutine, Call, Ask, Lock, Fetch, Apply, FetchFails,
                  Cancel, Return, SwitchTypeOK
    <3>3. Owner'
      <4>1. CASE call'[c].pc \in {"fetch", "apply"}
        <5>1. Lock(c) \/ Fetch(c)
          BY <2>4, <4>1, IdleFields
             DEF Coroutine, Call, Ask, Apply, FetchFails, Cancel, Return, SwitchTypeOK, Calls
        <5>2. holder' = c /\ holder \in {None, c}
          <6>1. CASE Fetch(c)
            BY <6>1 DEF Fetch, Owner
          <6>2. CASE Lock(c)
            BY <4>1, <6>2, IdleFields DEF Lock, Return, SwitchTypeOK, Calls
          <6> QED BY <5>1, <6>1, <6>2
        <5>3. \A d \in Callers \ {c} : call[d].pc \notin {"fetch", "apply"}
          BY <5>2, HaltConstants DEF Owner
        <5> QED BY <3>2, <5>2, <5>3 DEF Owner
      <4>2. CASE call'[c].pc \notin {"fetch", "apply"}
        <5>1. holder' = holder \/ holder = c
          <6>1. CASE Ask(c) \/ Fetch(c) \/ \E a \in Agents \cup {None} : Call(c, a)
            BY <6>1 DEF Ask, Fetch, Call
          <6>2. CASE Lock(c)
            BY <4>2, <6>2 DEF Lock, Return, SwitchTypeOK, Calls
          <6>3. CASE Apply(c) \/ FetchFails(c) \/ Cancel(c)
            BY <6>3 DEF Apply, FetchFails, Cancel, Owner
          <6> QED BY <2>4, <6>1, <6>2, <6>3 DEF Coroutine
        <5> QED BY <3>2, <4>2, <5>1 DEF Owner
      <4> QED BY <4>1, <4>2
    <3>4. CASE Apply(c)
      <4>1. cache' = call[c].seen /\ call[c].pc = "apply" /\ call'[c].pc = "idle"
        BY <3>4, IdleFields DEF Apply, Return, SwitchTypeOK
      <4>2. \A d \in Callers : call'[d].pc # "apply"
        BY <3>2, <4>1 DEF Owner
      <4>3. call[c].seen \subseteq halted \cup cleared
        BY <4>1 DEF Growing
      <4> QED BY <3>1, <3>3, <4>1, <4>2, <4>3 DEF Growing
    <3>5. CASE ~Apply(c)
      <4>1. cache' = cache
        BY <2>4, <3>5 DEF Coroutine, Call, Ask, Lock, Fetch, FetchFails, Cancel
      <4>2. call'[c].pc = "apply" => call'[c].seen = halted
        <5>1. CASE Fetch(c)
          BY <5>1 DEF Fetch, SwitchTypeOK, Calls
        <5>2. CASE ~Fetch(c)
          BY <2>4, <3>5, <5>2, IdleFields
             DEF Coroutine, Call, Ask, Lock, FetchFails, Cancel, Return, SwitchTypeOK, Calls
        <5> QED BY <5>1, <5>2
      <4> QED BY <3>1, <3>2, <3>3, <4>1, <4>2 DEF Growing
    <3> QED BY <3>4, <3>5
  <2> QED BY <2>2, <2>3, <2>4 DEF SwitchNext
<1> QED BY <1>1, <1>2, HaltTypeOK, PTL DEF SwitchSpec

(* Once a process has seen an agent halted it refuses that agent until the *)
(* halt is cleared, for any number of coroutines and through any outage.   *)
THEOREM HaltBlockedStays == SwitchSpec => BlockedStays
<1>1. Growing /\ [SwitchNext]_switchVars => [cache \ cache' \subseteq cleared]_switchVars
  <2> SUFFICES ASSUME Growing, SwitchNext PROVE cache \ cache' \subseteq cleared
    OBVIOUS
  <2>1. cache' = cache \/ \E c \in Callers : Apply(c)
    BY DEF SwitchNext, Presence, Operator, Coroutine, Heartbeat, MarkIdle,
           CloseAgent, Halt, HaltDenied,
           Clear, CheckStale, Tick, Call, Ask, Lock, Fetch, FetchFails, Cancel
  <2> QED BY <2>1 DEF Growing, Apply
<1> QED BY <1>1, HaltGrowing, PTL DEF SwitchSpec, BlockedStays

(* A halt() that returned stays in force: no agent's own write to its row, *)
(* and no deletion of the row, undoes it.                                  *)
THEOREM HaltEngaged == SwitchSpec => []HaltHolds
<1>1. SwitchInit => Holds
  BY DEF SwitchInit, Holds, HaltHolds
<1>2. SwitchTypeOK /\ Holds /\ [SwitchNext]_switchVars => Holds'
  <2> SUFFICES ASSUME SwitchTypeOK, Holds, [SwitchNext]_switchVars PROVE Holds'
    OBVIOUS
  <2> USE DEF Holds, HaltHolds, SwitchTypeOK
  <2>1. ASSUME NEW a \in Agents, Presence(a) PROVE Holds'
    BY <2>1 DEF Presence, Heartbeat, MarkIdle, CloseAgent, switch
  <2>2. ASSUME NEW a \in Agents, Halt(a) PROVE Holds'
    BY <2>2 DEF Halt
  <2>3. ASSUME NEW a \in Agents, HaltDenied(a) PROVE Holds'
    BY <2>3 DEF HaltDenied, rows
  <2>4. ASSUME NEW a \in Agents, Clear(a) PROVE Holds'
    BY <2>4 DEF Clear, rows
  <2>5. CASE CheckStale
    BY <2>5 DEF CheckStale, Late, switch
  <2>6. CASE Tick
    BY <2>6 DEF Tick, switch, rows
  <2>7. ASSUME NEW c \in Callers, Coroutine(c) \/ \E a \in Agents \cup {None} : Call(c, a)
        PROVE  Holds'
    <3>1. UNCHANGED <<rows, switch>>
      BY <2>7 DEF Coroutine, Call, Ask, Lock, Fetch, Apply, FetchFails, Cancel
    <3> QED BY <3>1 DEF rows, switch
  <2>8. CASE UNCHANGED switchVars
    BY <2>8 DEF switchVars, switch, rows
  <2> QED BY <2>1, <2>2, <2>3, <2>4, <2>5, <2>6, <2>7, <2>8 DEF SwitchNext, Operator
<1>3. Holds => HaltHolds
  BY DEF Holds
<1> QED BY <1>1, <1>2, <1>3, HaltTypeOK, PTL DEF SwitchSpec

(* An agent shown as unresponsive has not been heard of for longer than    *)
(* the timeout, whatever heartbeats, idle marks, closings and halts come   *)
(* between two sweeps of check_stale: whatever renews the heartbeat of a   *)
(* row also shows it live, and time only makes the silence longer.         *)
THEOREM HaltStaleIsLate == SwitchSpec => []StaleIsLate
<1>1. SwitchInit => StaleIsLate
  BY DEF SwitchInit, StaleIsLate
<1>2. SwitchTypeOK /\ StaleIsLate /\ [SwitchNext]_switchVars => StaleIsLate'
  <2> SUFFICES ASSUME SwitchTypeOK, StaleIsLate, [SwitchNext]_switchVars PROVE StaleIsLate'
    OBVIOUS
  <2>0. /\ clock \in Int /\ StaleAfter \in Int
        /\ \A a \in Agents : beat[a] \in Int
    BY HaltConstants DEF SwitchTypeOK, Times
  <2>1. ASSUME NEW a \in Agents, Presence(a) PROVE StaleIsLate'
    BY <2>1 DEF Presence, Heartbeat, MarkIdle, CloseAgent, SwitchTypeOK, StaleIsLate
  <2>2. ASSUME NEW a \in Agents, Halt(a) PROVE StaleIsLate'
    BY <2>2 DEF Halt, SwitchTypeOK, StaleIsLate
  <2>3. ASSUME NEW a \in Agents, HaltDenied(a) \/ Clear(a) PROVE StaleIsLate'
    BY <2>3 DEF HaltDenied, Clear, rows, StaleIsLate
  <2>4. CASE CheckStale
    BY <2>4 DEF CheckStale, Late, StaleIsLate
  <2>5. CASE Tick
    BY <2>0, <2>5 DEF Tick, rows, StaleIsLate
  <2>6. ASSUME NEW c \in Callers, Coroutine(c) \/ \E a \in Agents \cup {None} : Call(c, a)
        PROVE  StaleIsLate'
    <3>1. UNCHANGED <<clock, rows>>
      BY <2>6 DEF Coroutine, Call, Ask, Lock, Fetch, Apply, FetchFails, Cancel
    <3> QED BY <3>1 DEF rows, StaleIsLate
  <2>7. CASE UNCHANGED switchVars
    BY <2>7 DEF switchVars, rows, StaleIsLate
  <2> QED BY <2>1, <2>2, <2>3, <2>4, <2>5, <2>6, <2>7 DEF SwitchNext, Operator
<1> QED BY <1>1, <1>2, HaltTypeOK, PTL DEF SwitchSpec

=============================================================================
