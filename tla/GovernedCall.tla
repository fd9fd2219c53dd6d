---------------------------- MODULE GovernedCall ----------------------------
(***************************************************************************)
(* One agent's governed operations, side by side on an event loop:         *)
(*   create    messages.create / completions.create behind wrap_anthropic  *)
(*             or wrap_openai: routing, the gates, the provider, the audit *)
(*             events, the usage, and the proxy of a streamed answer;      *)
(*   agt       ChatAgent.run behind wrap_agt_agent;                        *)
(*   tool      a tool under the LangChain handler with enforce=True, and   *)
(*   watch     with enforce=False: scope, loop detection, audit events;    *)
(*   contract  a tool inside contracts.enforce.                            *)
(*                                                                         *)
(* What the gates look at is the variable env: HaltSwitch, PolicyRegistry, *)
(* Cost and Gates say how each part of it comes about.  A step is the code *)
(* between two awaits, so everything may change between two gates, and an  *)
(* operation may be cancelled wherever it waits.                           *)
(***************************************************************************)
EXTENDS Naturals, Sequences, SequencesExt, FiniteSets

CONSTANTS
    Mixes,          \* the kinds of the operations that run side by side
    MaxCalls,       \* LoopPolicy.max_calls
    MaxChanges,     \* bound on the changes of env
    CanFail         \* audit, cost and loop stores may fail

Kinds == {"create", "agt", "tool", "watch", "contract"}

ASSUME CallAssumption ==
    /\ \A mix \in Mixes : mix \in Seq(Kinds)
    /\ {MaxCalls, MaxChanges} \subseteq Nat /\ CanFail \in BOOLEAN

VARIABLES
    env,            \* halted, the scope policy, budget exhausted, approval granted
    changes,        \* changes of env so far
    op,             \* each operation
    loopRows,       \* governance_loop_tracking: this tool's rows in the window
    detected,       \* a loop.detected event was logged
    logged,         \* an event of the session names the contract's tool
    seen            \* history: what was open at some moment since the op began

vars == <<env, changes, op, loopRows, detected, logged, seen>>

(* none: not registered.  narrow: allowed, but not to use the middle model. *)
Policies == {"none", "allow", "narrow", "deny"}
Env == [halted : BOOLEAN, policy : Policies, broke : BOOLEAN, approved : BOOLEAN]
Ops == DOMAIN op
Ended == {"returned", "raised", "cut"}

NewOp(kind) == [kind |-> kind, pc |-> "idle", gate |-> 1, model |-> "asked",
                pre |-> "none", post |-> {}, how |-> "none", reconciled |-> FALSE,
                ran |-> FALSE, lost |-> FALSE, cut |-> FALSE, trail |-> <<>>]

Init ==
    /\ env \in Env /\ changes = 0
    /\ \E mix \in Mixes : op = [c \in DOMAIN mix |-> NewOp(mix[c])]
    /\ loopRows = 0 /\ detected = FALSE
    /\ logged \in BOOLEAN
    /\ seen = [c \in DOMAIN op |-> {}]

-----------------------------------------------------------------------------
(* The world outside the operations.                                       *)

AllowedModels(policy) == IF policy = "narrow" THEN {"asked", "small"}
                                              ELSE {"asked", "middle", "small"}

(* What env lets an operation of this kind do.                             *)
Open(e, kind) ==
    (IF e.halted THEN {} ELSE {"halt"})
    \cup (IF e.policy \in {"allow", "narrow"} \/ (e.policy = "none" /\ kind \in {"create", "agt"})
          THEN {"scope"} ELSE {})
    \cup (IF e.broke THEN {} ELSE {"budget"})
    \cup (IF e.approved THEN {"hitl"} ELSE {})
    \cup AllowedModels(e.policy)

(* An operator halts or resumes, a policy is reloaded, a budget runs out   *)
(* or a day begins, an approval is granted or expires.                     *)
Change(e) ==
    /\ changes < MaxChanges /\ e # env
    /\ env' = e /\ changes' = changes + 1
    /\ seen' = [c \in Ops |-> IF op[c].pc = "idle" THEN {} ELSE seen[c] \cup Open(e, op[c].kind)]
    /\ UNCHANGED <<op, loopRows, detected, logged>>

OneChanged(e) ==
    \/ \E b \in BOOLEAN : e = [env EXCEPT !.halted = b]
    \/ \E p \in Policies : e = [env EXCEPT !.policy = p]
    \/ \E b \in BOOLEAN : e = [env EXCEPT !.broke = b]
    \/ \E b \in BOOLEAN : e = [env EXCEPT !.approved = b]

-----------------------------------------------------------------------------
(* Steps of an operation.                                                  *)

shared == <<env, changes, loopRows, detected, logged, seen>>

At(c, pc) == op[c].pc = pc
To(r, pc) == [r EXCEPT !.pc = pc]
Becomes(c, r) == op' = [op EXCEPT ![c] = r]

(* An observation: it is recorded, or its failure is swallowed.            *)
Noted(r, event) == [r EXCEPT !.trail = Append(@, event)]
Outcomes(r, event) ==
    {Noted(r, event)} \cup (IF CanFail THEN {[r EXCEPT !.lost = TRUE]} ELSE {})

(* Fault: the halt switch only guards agents with a scope policy.          *)
GatesOfScoped(kind) ==
    IF kind \in {"create", "agt"} THEN <<"registered", "rehalt", "allowed", "budget">>
    ELSE IF kind = "contract" THEN <<"hitl", "budget", "rehalt", "allowed">>
    ELSE <<"rehalt", "allowed">>

(* scope.check is the gates "rehalt" and "allowed"; the wrappers call it   *)
(* only for an agent with a policy, after a halt check of their own.       *)
GatesOf(kind) ==
    IF kind \in {"create", "agt"} THEN <<"halt", "registered", "rehalt", "allowed", "budget">>
    ELSE IF kind = "contract" THEN <<"hitl", "budget", "rehalt", "allowed">>
    ELSE <<"rehalt", "allowed">>

Begin(c) ==
    /\ At(c, "idle")
    /\ Becomes(c, To(op[c], IF op[c].kind = "create" THEN "route" ELSE "gate"))
    /\ seen' = [seen EXCEPT ![c] = Open(env, op[c].kind)]
    /\ UNCHANGED <<env, changes, loopRows, detected, logged>>

(* routing.suggest: the first candidate that allowed_models lets through   *)
(* when the budget is low or a rule matches, and the model asked for when  *)
(* none does, when there is no reason to route, or on any error.           *)
Suggested(candidates, policy) ==
    LET let == {i \in DOMAIN candidates : candidates[i] \in AllowedModels(policy)}
    IN IF let = {} THEN "asked" ELSE candidates[Min(let)]

Route(c) ==
    /\ At(c, "route")
    /\ \E candidates \in {<<>>, <<"middle">>, <<"middle", "small">>} :
         Becomes(c, [To(op[c], "gate") EXCEPT !.model = Suggested(candidates, env.policy)])
    /\ UNCHANGED shared

(* What follows the last gate: the call's own audit event first, for       *)
(* create as a task of its own.                                            *)
Admitted(r) ==
    IF r.kind = "create" THEN [r EXCEPT !.pc = "running", !.pre = "pending", !.ran = TRUE]
    ELSE IF r.kind = "contract" THEN [r EXCEPT !.pc = "running", !.ran = TRUE]
    ELSE IF r.kind = "agt" THEN To(r, "precall") ELSE To(r, "insert")

Past(r, n) == IF r.gate + n > Len(GatesOf(r.kind)) THEN Admitted(r)
                                                   ELSE [r EXCEPT !.gate = @ + n]

Shut(g) ==
    \/ g \in {"halt", "rehalt"} /\ env.halted
    \/ g = "allowed" /\ env.policy \in {"none", "deny"}
    \/ g = "budget" /\ env.broke
    \/ g = "hitl" /\ ~env.approved

GateOf(c) == GatesOf(op[c].kind)[op[c].gate]

GateOpens(c) ==
    /\ At(c, "gate") /\ ~Shut(GateOf(c))
    /\ Becomes(c, Past(op[c], IF GateOf(c) = "registered" /\ env.policy = "none" THEN 3 ELSE 1))
    /\ UNCHANGED shared

(* The event of a contract violation names the contract's tool itself.     *)
ViolationNames == logged' \in {TRUE} \cup (IF CanFail THEN {logged} ELSE {})

(* A refusal raises, and so does an approval that cannot be looked up.     *)
(* Only the handler looks at which: a scope violation is nothing to it     *)
(* without enforce, and any error but the three it names is logged and     *)
(* dropped, the failure to log the violation included.                     *)
GateRefuses(c) ==
    /\ At(c, "gate") /\ (Shut(GateOf(c)) \/ (GateOf(c) = "hitl" /\ CanFail))
    /\ IF GateOf(c) = "allowed"
       THEN \E r \in Outcomes(op[c], "violation") :
              Becomes(c, IF op[c].kind = "watch" \/ (op[c].kind = "tool" /\ r.lost)
                         THEN Past(r, 1) ELSE To(r, "raised"))
       ELSE Becomes(c, To(op[c], "raised"))
    /\ IF op[c].kind = "contract" /\ GateOf(c) # "rehalt" THEN ViolationNames
                                                      ELSE UNCHANGED logged
    /\ UNCHANGED <<env, changes, loopRows, detected, seen>>

-----------------------------------------------------------------------------
(* create: the provider call beside the task that logs llm.call.           *)

PreLog(c) ==
    /\ op[c].pre = "pending"
    /\ \E r \in Outcomes(op[c], "call") : Becomes(c, [r EXCEPT !.pre = "done"])
    /\ UNCHANGED shared

(* Fault: what follows the call does not wait for the task.                *)
PreJoinedAtOnce(c) == TRUE

PreJoined(c) == op[c].pre = "done"

Answers(c) ==
    /\ At(c, "running") /\ op[c].kind = "create"
    /\ \E pc \in {"answered", "failing"} : Becomes(c, To(op[c], pc))
    /\ UNCHANGED shared

(* llm.error, after llm.call.                                              *)
LogError(c) ==
    /\ At(c, "failing") /\ PreJoined(c)
    /\ \E r \in Outcomes(op[c], "error") : Becomes(c, To(r, "raised"))
    /\ UNCHANGED shared

(* A whole answer: gather(llm.result, track); no track without usage.      *)
Whole(c) ==
    /\ At(c, "answered") /\ PreJoined(c)
    /\ \/ Becomes(c, [To(op[c], "post") EXCEPT !.post = {"result", "tracked"}])
       \/ CanFail /\ Becomes(c, [To(op[c], "post") EXCEPT !.post = {"result"}, !.lost = TRUE])
    /\ UNCHANGED shared

PostStep(c) ==
    /\ At(c, "post")
    /\ \E event \in op[c].post : \E r \in Outcomes(op[c], event) :
         Becomes(c, [r EXCEPT !.post = @ \ {event},
                              !.pc = IF op[c].post = {event} THEN "returned" ELSE @])
    /\ UNCHANGED shared

(* A stream: the projection, if any, is tracked, then llm.result logged,   *)
(* and the proxy goes to the caller.                                       *)
Streamed(c) ==
    /\ At(c, "answered") /\ PreJoined(c)
    /\ \/ \E r \in Outcomes(op[c], "tracked") : Becomes(c, To(r, "announce"))
       \/ Becomes(c, To(op[c], "announce"))
    /\ UNCHANGED shared

Announce(c) ==
    /\ At(c, "announce")
    /\ \E r \in Outcomes(op[c], "result") : Becomes(c, To(r, "stream"))
    /\ UNCHANGED shared

-----------------------------------------------------------------------------
(* The proxy of a streamed answer.                                         *)

(* held: iterated by a caller with a reference to the proxy; with: inside  *)
(* `async with`; temporary: `async for chunk in await create(...)`, where  *)
(* nothing refers to the proxy once its iterator is made.                  *)
Iterate(c, how) ==
    /\ At(c, "stream")
    /\ Becomes(c, [To(op[c], "iterating") EXCEPT !.how = how])
    /\ UNCHANGED shared

(* _abandonment_finalizer, when the proxy is collected.                    *)
Finalize(c) ==
    /\ At(c, "stream") \/ (At(c, "iterating") /\ op[c].how = "temporary")
    /\ ~op[c].reconciled
    /\ Becomes(c, [op[c] EXCEPT !.reconciled = TRUE,
                                !.pc = IF @ = "stream" THEN "returned" ELSE @])
    /\ UNCHANGED shared

AfterReconcile(r) == IF r.how = "with" /\ r.pc # "exiting" THEN "exiting" ELSE "returned"

(* Fault: the flag the two proxies share is not looked at.                 *)
RunReconcileAlways(r) == [r EXCEPT !.reconciled = TRUE, !.pc = "reconcile"]

(* _run_reconcile, at most once: the flag is set before the first await.   *)
RunReconcile(r) ==
    IF r.reconciled THEN To(r, AfterReconcile(r))
    ELSE [r EXCEPT !.reconciled = TRUE, !.pc = "reconcile"]

(* The stream ends, or is torn down by an error or a cancellation.         *)
StreamStops(c) ==
    /\ At(c, "iterating")
    /\ Becomes(c, RunReconcile(op[c]))
    /\ UNCHANGED shared

(* __aexit__, after the iteration or without one.                          *)
ContextExit(c) ==
    /\ At(c, "exiting") \/ At(c, "stream")
    /\ Becomes(c, [RunReconcile(op[c]) EXCEPT !.how = IF op[c].reconciled THEN @ ELSE "exited"])
    /\ UNCHANGED shared

(* cost.reconcile, then llm.result.reconciled; neither where the provider  *)
(* reported no usage.                                                      *)
Reconcile(c) ==
    /\ At(c, "reconcile")
    /\ \/ \E r \in Outcomes(op[c], "delta") : Becomes(c, To(r, "report"))
       \/ CanFail /\ Becomes(c, [op[c] EXCEPT !.lost = TRUE, !.pc = AfterReconcile(op[c])])
    /\ UNCHANGED shared

Report(c) ==
    /\ At(c, "report")
    /\ \E r \in Outcomes(op[c], "reconciled") : Becomes(c, To(r, AfterReconcile(r)))
    /\ UNCHANGED shared

-----------------------------------------------------------------------------
(* agt: the audit event is awaited before the run, an error logged after.  *)

PreCall(c) ==
    /\ At(c, "precall")
    /\ \E r \in Outcomes(op[c], "call") : Becomes(c, [To(r, "running") EXCEPT !.ran = TRUE])
    /\ UNCHANGED shared

AgtEnds(c) ==
    /\ At(c, "running") /\ op[c].kind = "agt"
    /\ \/ Becomes(c, To(op[c], "returned"))
       \/ \E r \in Outcomes(op[c], "error") : Becomes(c, To(r, "raised"))
    /\ UNCHANGED shared

-----------------------------------------------------------------------------
(* tool, watch: record_call, tool.call, the tool, tool.result or .error.   *)

(* The row is committed on its own ...                                     *)
LoopInsert(c) ==
    /\ At(c, "insert")
    /\ \/ /\ loopRows' = loopRows + 1 /\ Becomes(c, To(op[c], "count"))
       \/ /\ CanFail /\ Becomes(c, [To(op[c], "precallTool") EXCEPT !.lost = TRUE])
          /\ UNCHANGED loopRows
    /\ UNCHANGED <<env, changes, detected, logged, seen>>

(* Fault: the limit may be passed by one.                                  *)
IsLoopLate == loopRows > MaxCalls + 1

IsLoop == loopRows > MaxCalls

(* ... and then counted with everyone's.                                   *)
LoopCount(c) ==
    /\ At(c, "count")
    /\ \/ Becomes(c, To(op[c], IF IsLoop THEN "detect" ELSE "precallTool"))
       \/ CanFail /\ Becomes(c, [To(op[c], "precallTool") EXCEPT !.lost = TRUE])
    /\ UNCHANGED shared

(* loop.detected; the handler drops the LoopDetected that follows.         *)
LoopDetect(c) ==
    /\ At(c, "detect")
    /\ \/ detected' = TRUE /\ Becomes(c, To(op[c], "precallTool"))
       \/ /\ CanFail /\ Becomes(c, [To(op[c], "precallTool") EXCEPT !.lost = TRUE])
          /\ UNCHANGED detected
    /\ UNCHANGED <<env, changes, loopRows, logged, seen>>

ToolCall(c) ==
    /\ At(c, "precallTool")
    /\ \E r \in Outcomes(op[c], "call") : Becomes(c, [To(r, "running") EXCEPT !.ran = TRUE])
    /\ UNCHANGED shared

ToolEnds(c) ==
    /\ At(c, "running") /\ op[c].kind \in {"tool", "watch"}
    /\ \E event \in {"result", "error"} : \E r \in Outcomes(op[c], event) :
         Becomes(c, To(r, IF event = "result" THEN "returned" ELSE "raised"))
    /\ UNCHANGED shared

-----------------------------------------------------------------------------
(* contract: the body, which may log an event that names the tool; then    *)
(* check_post, unless the body raised.  A lookup that fails counts as no   *)
(* event found.                                                            *)

BodyEnds(c) ==
    /\ At(c, "running") /\ op[c].kind = "contract"
    /\ \E ok, logs \in BOOLEAN :
         /\ logged' = (logged \/ logs)
         /\ Becomes(c, To(op[c], IF ok THEN "postCheck" ELSE "raised"))
    /\ UNCHANGED <<env, changes, loopRows, detected, seen>>

PostCheck(c) ==
    /\ At(c, "postCheck")
    /\ \/ logged /\ Becomes(c, To(op[c], "returned")) /\ UNCHANGED logged
       \/ /\ ~logged \/ CanFail
          /\ \E r \in Outcomes(op[c], "violation") : Becomes(c, To(r, "raised"))
          /\ ViolationNames
    /\ UNCHANGED <<env, changes, loopRows, detected, seen>>

-----------------------------------------------------------------------------
(* Cancellation.  At the provider of create it is an error like another;   *)
(* a stream being iterated or left reconciles (StreamStops, ContextExit);  *)
(* anywhere else it ends the operation and takes along the tasks it waits  *)
(* for.                                                                    *)
Cancel(c) ==
    /\ op[c].pc \notin Ended \cup {"idle", "iterating", "stream", "exiting"}
    /\ Becomes(c, IF op[c].kind = "create" /\ At(c, "running") THEN To(op[c], "failing")
                  ELSE [op[c] EXCEPT !.cut = TRUE, !.pre = IF @ = "pending" THEN "done" ELSE @,
                          !.pc = IF @ \in {"reconcile", "report"} /\ op[c].how = "with"
                                 THEN "exiting" ELSE "cut"])
    /\ UNCHANGED shared

Step(c) ==
    \/ Begin(c) \/ Route(c) \/ GateOpens(c) \/ GateRefuses(c)
    \/ PreLog(c) \/ Answers(c) \/ LogError(c) \/ Whole(c) \/ PostStep(c)
    \/ Streamed(c) \/ Announce(c) \/ Finalize(c) \/ StreamStops(c) \/ ContextExit(c)
    \/ Reconcile(c) \/ Report(c)
    \/ \E how \in {"held", "with", "temporary"} : Iterate(c, how)
    \/ PreCall(c) \/ AgtEnds(c)
    \/ LoopInsert(c) \/ LoopCount(c) \/ LoopDetect(c) \/ ToolCall(c) \/ ToolEnds(c)
    \/ BodyEnds(c) \/ PostCheck(c)
    \/ Cancel(c)

Next ==
    \/ \E c \in Ops : Step(c)
    \/ \E e \in Env : OneChanged(e) /\ Change(e)

Spec == Init /\ [][Next]_vars

-----------------------------------------------------------------------------
Events == {"call", "result", "error", "tracked", "delta", "reconciled", "violation"}

TypeOK ==
    /\ env \in Env /\ changes \in 0..MaxChanges
    /\ loopRows \in 0..Cardinality(Ops) /\ {detected, logged} \subseteq BOOLEAN
    /\ \A c \in Ops :
         /\ op[c].kind \in Kinds /\ op[c].gate \in 1..Len(GatesOf(op[c].kind))
         /\ op[c].model \in {"asked", "middle", "small"}
         /\ op[c].trail \in Seq(Events)

(* What an operation of this kind may not run without.                     *)
Required(r) ==
    IF r.kind = "watch" THEN {"halt"}
    ELSE IF r.kind = "tool" THEN (IF r.lost THEN {"halt"} ELSE {"halt", "scope"})
    ELSE IF r.kind = "contract" THEN {"halt", "scope", "budget", "hitl"}
    ELSE {"halt", "scope", "budget", r.model}

(* No operation runs past a gate that was shut all along: when a provider, *)
(* an agent or a tool is called, each gate it depends on (the halt switch, *)
(* the scope policy, the budget, the approval, allowed_models for a model  *)
(* routing chose) was open at some moment since the operation began.       *)
(* Excepted is a tool under the handler whose violation cannot be logged.  *)
GatesHold == TypeOK /\ \A c \in Ops : op[c].ran => Required(op[c]) \subseteq seen[c]

(* The scripts of the operations that ran, by how they ended.              *)
Script(r) ==
    IF r.kind = "contract" THEN {<<>>, <<"violation">>}
    ELSE IF r.kind = "agt" THEN IF r.pc = "returned" THEN {<<"call">>} ELSE {<<"call", "error">>}
    ELSE IF r.kind \in {"tool", "watch"} THEN
         {<<"call", IF r.pc = "returned" THEN "result" ELSE "error">>,
          <<"violation", "call", IF r.pc = "returned" THEN "result" ELSE "error">>}
    ELSE IF r.pc = "raised" THEN {<<"call", "error">>}
    ELSE IF ~r.reconciled THEN {<<"call", "result", "tracked">>, <<"call", "tracked", "result">>}
    ELSE IF r.how \in {"none", "temporary"} THEN
         {up \o <<"result">> \o down : up \in {<<"call">>, <<"call", "tracked">>},
                                       down \in {<<>>, <<"delta", "reconciled">>}}
    ELSE {up \o <<"result", "delta", "reconciled">> : up \in {<<"call">>, <<"call", "tracked">>}}

(* Every operation that ran and ended, however provider, tool, caller and  *)
(* cancellation interleave, has left its whole trail in order: llm.call    *)
(* first although a task of its own logs it, one result or one error, a    *)
(* cancelled provider call included; usage tracked once; a stream the      *)
(* caller held reconciled once.  Excepted are observations that failed and *)
(* operations cancelled outside the provider call.                         *)
CallAudited ==
    \A c \in Ops :
      (op[c].ran /\ op[c].pc \in {"returned", "raised"} /\ ~op[c].lost /\ ~op[c].cut)
        => op[c].trail \in Script(op[c])

(* Whatever fails or is cancelled, and whoever collects the proxy, nothing *)
(* is recorded or charged twice, and no call has both a result and an      *)
(* error.                                                                  *)
ChargedOnce ==
    \A c \in Ops :
      /\ \A i, j \in 1..Len(op[c].trail) :
           i # j => op[c].trail[i] # op[c].trail[j] /\ {op[c].trail[i], op[c].trail[j]} # {"result", "error"}
      /\ "delta" \in ToSet(op[c].trail) => op[c].reconciled

(* Concurrent calls of one tool cannot slip past the detector together:    *)
(* once more rows than max_calls are counted, loop.detected is logged.     *)
LoopNoticed ==
    (loopRows > MaxCalls /\ \A c \in Ops : ~op[c].lost /\ ~op[c].cut
                                           /\ op[c].pc \notin {"count", "detect"})
      => detected

=============================================================================
