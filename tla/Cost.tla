-------------------------------- MODULE Cost --------------------------------
(***************************************************************************)
(* Budget enforcement: concurrent governed LLM calls of one agent in one   *)
(* session, each a check_or_raise, the provider's answer (whole or         *)
(* streamed), the post-call track / reconcile, and the budget alert that   *)
(* track fires when the day's spend crosses its threshold.                 *)
(*                                                                         *)
(* check_or_raise reads both counters in one query; track adds to both in  *)
(* one transaction (Postgres UPSERT, or the in-memory store's lock).       *)
(* There is no reservation between the two.  Amounts are naturals; a cap   *)
(* that is not set is one no call reaches.                                 *)
(***************************************************************************)
EXTENDS Integers, FiniteSets

CONSTANTS
    Callers,          \* concurrent governed calls
    Projections,      \* projected tokens: max_tokens, 0 when not declared
    Actual,           \* Actual[p], a subset of Nat: total_tokens a provider may report
    PerCall,          \* the most tokens one call is charged
    Price,            \* USD per token of estimate_cost
    MaxChunks,        \* bound on the chunks of a torn-down stream
    ChunkEstimate,    \* STREAM_CHUNK_TOKEN_ESTIMATE
    SessionTokens, SessionUsd, DailyTokens, DailyUsd,   \* the policy's caps
    AlertAt,          \* alert_threshold_pct of per_agent_usd_daily
    FailOpen,         \* CostModule(fail_open=True)
    StoreCanFail,     \* reads and writes of the cost store may fail
    MaxDay, MaxSpent  \* bounds on the midnights and on the tokens of a run

ASSUME CallersAssumption == IsFiniteSet(Callers) /\ Callers # {}
ASSUME UsageAssumption ==
    /\ Projections \subseteq Nat
    /\ \A p \in Projections : Actual[p] \subseteq Nat
    /\ {Price, MaxChunks, ChunkEstimate, MaxDay, MaxSpent} \subseteq Nat
ASSUME PerCallAssumption ==
    /\ PerCall \in Nat
    /\ \A p \in Projections : p <= PerCall /\ \A a \in Actual[p] : a <= PerCall
    /\ MaxChunks * ChunkEstimate <= PerCall
ASSUME PolicyAssumption ==
    /\ {SessionTokens, SessionUsd, DailyTokens, DailyUsd} \subseteq Nat
    /\ AlertAt \in Nat \ {0}
    /\ {FailOpen, StoreCanFail} \subseteq BOOLEAN

VARIABLES
    sTok, sUsd,       \* governance_cost_session_usage
    dTok, dUsd,       \* governance_cost_agent_daily, per UTC day
    today,
    call,             \* each call: where it is, its projection, what it tracks
    fired,            \* AlertDedup.fired: the days whose alert was sent
    spent             \* tokens the provider has reported (history variable)

vars == <<sTok, sUsd, dTok, dUsd, today, call, fired, spent>>
counters == <<sTok, sUsd, dTok, dUsd>>

Days == 0..MaxDay

(* pre is what track read before its update; -1 when it read nothing.      *)
Calls == [pc : {"idle", "denied", "admitted", "track", "store", "post", "fire", "streaming"},
          proj : Projections, tok : Nat, usd : Nat, pre : Nat \cup {-1}, upfront : BOOLEAN]

TypeOK ==
    /\ {sTok, sUsd, spent} \subseteq Nat
    /\ dTok \in [Days -> Nat] /\ dUsd \in [Days -> Nat]
    /\ today \in Days
    /\ call \in [Callers -> Calls]
    /\ fired \subseteq Days

Init ==
    /\ sTok = 0 /\ sUsd = 0 /\ spent = 0
    /\ dTok = [d \in Days |-> 0] /\ dUsd = [d \in Days |-> 0]
    /\ today = 0
    /\ call \in [Callers -> {[pc |-> "idle", proj |-> p, tok |-> 0, usd |-> 0,
                              pre |-> -1, upfront |-> FALSE] : p \in Projections}]
    /\ fired = {}

-----------------------------------------------------------------------------
(* check_or_raise(projected_tokens = p).                                   *)

(* Fault: the day's counters are not looked at.                            *)
BreachSessionOnly(p) == sUsd > SessionUsd \/ sTok + p > SessionTokens

Breach(p) ==
    \/ sUsd > SessionUsd
    \/ sTok + p > SessionTokens
    \/ dUsd[today] > DailyUsd
    \/ dTok[today] + p > DailyTokens

(* Fault: a store that cannot be read admits the call.                     *)
AdmitUnread(c, p) ==
    /\ call[c].pc \in {"idle", "denied"}
    /\ ~Breach(p) \/ StoreCanFail
    /\ call' = [call EXCEPT ![c] = [pc |-> "admitted", proj |-> p, tok |-> 0, usd |-> 0,
                                    pre |-> -1, upfront |-> FALSE]]
    /\ UNCHANGED <<counters, today, fired, spent>>

Admit(c, p) ==
    /\ call[c].pc \in {"idle", "denied"}
    /\ ~Breach(p) \/ (StoreCanFail /\ FailOpen)
    /\ call' = [call EXCEPT ![c] = [pc |-> "admitted", proj |-> p, tok |-> 0, usd |-> 0,
                                    pre |-> -1, upfront |-> FALSE]]
    /\ UNCHANGED <<counters, today, fired, spent>>

(* BudgetExceeded: a breach, the session's time limit, or the store cannot *)
(* be read and the module fails closed.                                    *)
Deny(c, p) ==
    /\ call[c].pc = "idle"
    /\ call' = [call EXCEPT ![c].pc = "denied", ![c].proj = p]
    /\ UNCHANGED <<counters, today, fired, spent>>

-----------------------------------------------------------------------------
(* The wrapped create(): what happens to the call once it is admitted.     *)

StartTrack(c, tok, usd, upfront) ==
    call' = [call EXCEPT ![c].pc = "track", ![c].tok = tok, ![c].usd = usd,
                         ![c].pre = -1, ![c].upfront = upfront]

Finish(c) == call' = [call EXCEPT ![c].pc = "idle"]

(* The provider raised: nothing is tracked.                                *)
CallFails(c) ==
    /\ call[c].pc = "admitted"
    /\ Finish(c)
    /\ UNCHANGED <<counters, today, fired, spent>>

Spend(n) == spent + n <= MaxSpent /\ spent' = spent + n

(* A whole response with its usage.                                        *)
Respond(c, a) ==
    /\ call[c].pc = "admitted"
    /\ a \in Actual[call[c].proj]
    /\ Spend(a)
    /\ IF a > 0 THEN StartTrack(c, a, Price * a, FALSE) ELSE Finish(c)
    /\ UNCHANGED <<counters, today, fired>>

(* Fault: the projection is priced up front, and the usage again later.    *)
StartStreamPriced(c) ==
    /\ call[c].pc = "admitted"
    /\ StartTrack(c, call[c].proj, Price * call[c].proj, TRUE)
    /\ UNCHANGED <<counters, today, fired, spent>>

(* A stream: the projection, if there is one, is tracked up front.         *)
StartStream(c) ==
    /\ call[c].pc = "admitted"
    /\ IF call[c].proj > 0 THEN StartTrack(c, call[c].proj, 0, TRUE)
                           ELSE call' = [call EXCEPT ![c].pc = "streaming"]
    /\ UNCHANGED <<counters, today, fired, spent>>

AtLeast0(n) == IF n > 0 THEN n ELSE 0

(* Fault: the projection is taken for the usage.                           *)
ReconcileUsdOnly(c, actual) ==
    IF Price * actual = 0 THEN Finish(c) ELSE StartTrack(c, 0, Price * actual, FALSE)

(* reconcile: the positive part of the difference; the USD of a stream is  *)
(* all tracked here.                                                       *)
Reconcile(c, actual) ==
    LET tok == AtLeast0(actual - call[c].proj)
        usd == Price * actual
    IN IF tok = 0 /\ usd = 0 THEN Finish(c) ELSE StartTrack(c, tok, usd, FALSE)

(* The final chunk carried the usage.  The caller holds on to the stream   *)
(* while iterating; GovernedCall models the callers that do not.           *)
StreamEnds(c, a) ==
    /\ call[c].pc = "streaming"
    /\ a \in Actual[call[c].proj]
    /\ Spend(a)
    /\ Reconcile(c, a)
    /\ UNCHANGED <<counters, today, fired>>

(* Torn down after k chunks without a usage chunk: the estimate.           *)
StreamTorn(c, k) ==
    /\ call[c].pc = "streaming"
    /\ k > 0
    /\ \E used \in 1..(k * ChunkEstimate) : Spend(used)
    /\ Reconcile(c, IF k * ChunkEstimate > call[c].proj THEN k * ChunkEstimate
                                                        ELSE call[c].proj)
    /\ UNCHANGED <<counters, today, fired>>

(* No usage chunk, or a proxy collected without being iterated: a warning. *)
StreamUnreported(c) ==
    /\ call[c].pc = "streaming"
    /\ Finish(c)
    /\ UNCHANGED <<counters, today, fired, spent>>

-----------------------------------------------------------------------------
(* track(tokens, usd).                                                     *)

(* The day's spend before the update, read only when an alert may come of  *)
(* it; a failed read skips the alert.                                      *)
PreRead(c) ==
    /\ call[c].pc = "track"
    /\ \/ call' = [call EXCEPT ![c].pc = "store",
                               ![c].pre = IF call[c].usd > 0 THEN dUsd[today] ELSE -1]
       \/ StoreCanFail /\ call' = [call EXCEPT ![c].pc = "store"]
    /\ UNCHANGED <<counters, today, fired, spent>>

AfterTrack(c) == IF call[c].upfront THEN "streaming" ELSE "idle"

(* store.track: session and day, in one transaction.                       *)
Track(c) ==
    /\ call[c].pc = "store"
    /\ sTok' = sTok + call[c].tok
    /\ sUsd' = sUsd + call[c].usd
    /\ dTok' = [dTok EXCEPT ![today] = @ + call[c].tok]
    /\ dUsd' = [dUsd EXCEPT ![today] = @ + call[c].usd]
    /\ call' = [call EXCEPT ![c].pc = IF call[c].pre >= 0 THEN "post" ELSE AfterTrack(c)]
    /\ UNCHANGED <<today, fired, spent>>

(* A failed write is logged and swallowed.                                 *)
TrackFails(c) ==
    /\ StoreCanFail
    /\ call[c].pc = "store"
    /\ call' = [call EXCEPT ![c].pc = AfterTrack(c)]
    /\ UNCHANGED <<counters, today, fired, spent>>

(* Fault: the threshold must be passed, not reached.                       *)
PostReadStrict(c) ==
    /\ call[c].pc = "post"
    /\ call' = [call EXCEPT ![c].pc = IF call[c].pre < AlertAt /\ AlertAt < dUsd[today]
                                   THEN "fire" ELSE AfterTrack(c)]
    /\ UNCHANGED <<counters, today, fired, spent>>

(* _maybe_fire_budget_alert: the day's spend after the update ...          *)
PostRead(c) ==
    /\ call[c].pc = "post"
    /\ \/ /\ call[c].pre < AlertAt /\ AlertAt <= dUsd[today]
          /\ call' = [call EXCEPT ![c].pc = "fire"]
       \/ /\ ~(call[c].pre < AlertAt /\ AlertAt <= dUsd[today]) \/ StoreCanFail
          /\ call' = [call EXCEPT ![c].pc = AfterTrack(c)]
    /\ UNCHANGED <<counters, today, fired, spent>>

(* ... and the alert, once per period_bucket_utc_day().                    *)
FireAlert(c) ==
    /\ call[c].pc = "fire"
    /\ fired' = fired \cup {today}
    /\ call' = [call EXCEPT ![c].pc = AfterTrack(c)]
    /\ UNCHANGED <<counters, today, spent>>

Midnight ==
    /\ today < MaxDay
    /\ today' = today + 1
    /\ UNCHANGED <<counters, call, fired, spent>>

-----------------------------------------------------------------------------
TrackStep(c) == PreRead(c) \/ Track(c) \/ TrackFails(c) \/ PostRead(c) \/ FireAlert(c)

CallStep(c) ==
    \/ \E p \in Projections : Admit(c, p) \/ Deny(c, p)
    \/ CallFails(c) \/ StartStream(c) \/ StreamUnreported(c)
    \/ \E a \in Actual[call[c].proj] : Respond(c, a) \/ StreamEnds(c, a)
    \/ \E k \in 1..MaxChunks : StreamTorn(c, k)
    \/ TrackStep(c)

Next == (\E c \in Callers : CallStep(c)) \/ Midnight

Spec == Init /\ [][Next]_vars

-----------------------------------------------------------------------------
(* No call uses more than it projected: max_tokens covers the prompt too,  *)
(* and the estimate of a torn-down stream.                                 *)
HonoursProjection ==
    \A p \in Projections : (\A a \in Actual[p] : a <= p) /\ MaxChunks * ChunkEstimate <= p

(* The documented soft ceiling, for tokens: N concurrent callers overshoot *)
(* the session cap by at most N - 1 calls, as long as calls honour their   *)
(* projection.                                                             *)
TokenCeiling ==
    sTok <= SessionTokens + PerCall * (Cardinality(Callers) - 1)

(* The same ceiling holds for each UTC day, although a call admitted before *)
(* midnight is counted on the day after.                                   *)
DailyCeiling ==
    \A d \in Days :
        dTok[d] <= DailyTokens + PerCall * (Cardinality(Callers) - 1)

(* The ceiling for USD, which check_or_raise does not project: one call    *)
(* per caller.                                                             *)
UsdCeiling ==
    sUsd <= SessionUsd + (Price * PerCall) * Cardinality(Callers)

Quiet == \A c \in Callers : call[c].pc \in {"idle", "denied"}

(* The counters never fall behind the provider: whatever mix of whole,     *)
(* streamed and torn-down answers, and of overlapping reconciliations,     *)
(* between calls the session has recorded at least what was reported.      *)
NoUndercount == Quiet => sTok >= spent

(* "A single call that vaults past the threshold fires exactly once": a    *)
(* day whose spend has reached the threshold has had its alert between     *)
(* calls, and a day below its threshold never had one.                     *)
AlertExact ==
    \A d \in Days :
        /\ Quiet /\ dUsd[d] >= AlertAt => d \in fired
        /\ d \in fired => dUsd[d] >= AlertAt

-----------------------------------------------------------------------------
(* What comments of the code say and the code does not keep; the README    *)
(* gives for each the constants under which TLC shows it.                  *)

(* "overshooting the cap by up to (N-1) x per-call cost", for USD.         *)
UsdCeilingDocumented ==
    sUsd <= SessionUsd + (Price * PerCall) * (Cardinality(Callers) - 1)

=============================================================================
