------------------------ MODULE GovernedCall_proofs -------------------------
(***************************************************************************)
(* Governed operations, for every mix of operations of every kind, any     *)
(* number of them side by side, every limit of the loop detector and any   *)
(* number of changes of what the gates look at.                            *)
(*                                                                         *)
(* An operation changes only its own record, so the invariant is about one *)
(* operation at a time: where it is determines its other fields (Control), *)
(* what it has met open (GateSound), which events it may have recorded     *)
(* (Once) and, when nothing failed and nobody cancelled it, its exact      *)
(* trail (Exact). Three conjuncts relate the operations to what they       *)
(* share: what is open now was open since an operation began (OpenSeen),   *)
(* the loop detector's rows are those of operations past the insert        *)
(* (RowsCounted), and more rows than the limit have somebody who reports   *)
(* them (LoopWatched).                                                     *)
(***************************************************************************)
EXTENDS GovernedCall, FiniteSetTheorems, TLAPS

(* The models that routing may choose.                                     *)
Models == {"asked", "middle", "small"}

(* The places of create behind its gates, and of a tool.                   *)
CreatePcs == {"answered", "failing", "post", "announce", "stream", "iterating",
              "exiting", "reconcile", "report"}
ToolPcs == {"insert", "count", "detect", "precallTool"}
Pcs == {"idle", "route", "gate", "running", "precall", "postCheck"}
         \cup CreatePcs \cup ToolPcs \cup Ended

(* The records of operations.                                              *)
OpType == [kind : Kinds, pc : Pcs, gate : Nat, model : Models,
           pre : {"none", "pending", "done"}, post : SUBSET {"result", "tracked"},
           how : {"none", "held", "with", "temporary", "exited"},
           reconciled : BOOLEAN, ran : BOOLEAN, lost : BOOLEAN, cut : BOOLEAN,
           trail : Seq(Events)]

(* The fields that neither a change of place nor an observation touches.   *)
Kept(r, q) ==
    /\ q.kind = r.kind /\ q.gate = r.gate /\ q.model = r.model /\ q.pre = r.pre
    /\ q.post = r.post /\ q.how = r.how /\ q.reconciled = r.reconciled
    /\ q.ran = r.ran /\ q.cut = r.cut

(* A change of place changes nothing else.                                 *)
LEMMA Moving ==
    ASSUME NEW r \in OpType, NEW pc \in Pcs
    PROVE  /\ To(r, pc) \in OpType /\ Kept(r, To(r, pc)) /\ To(r, pc).pc = pc
           /\ To(r, pc).trail = r.trail /\ To(r, pc).lost = r.lost
  BY DEF OpType, To, Kept

(* An observation is appended to the trail, or its loss is remembered.     *)
Observed(r, q, e) ==
    \/ q.trail = Append(r.trail, e) /\ q.lost = r.lost
    \/ q.trail = r.trail /\ q.lost

(* That is what an observation does.                                       *)
LEMMA Observing ==
    ASSUME NEW r \in OpType, NEW e \in Events, NEW q \in Outcomes(r, e)
    PROVE  q \in OpType /\ Kept(r, q) /\ q.pc = r.pc /\ Observed(r, q, e)
  <1>1. Append(r.trail, e) \in Seq(Events)
    BY DEF OpType
  <1>2. CASE q = Noted(r, e)
    BY <1>1, <1>2 DEF Noted, OpType, Kept, Observed
  <1>3. CASE q = [r EXCEPT !.lost = TRUE]
    BY <1>3 DEF OpType, Kept, Observed
  <1> QED BY <1>2, <1>3 DEF Outcomes

-----------------------------------------------------------------------------
(* Where an operation is, and what its other fields are then.              *)
Control(r) ==
    /\ r.gate \in 1..Len(GatesOf(r.kind))
    /\ r.pc \in {"idle", "route"} => r.gate = 1
    /\ r.kind # "create" => r.pre = "none"
    /\ r.pc \in {"route"} \cup CreatePcs => r.kind = "create"
    /\ r.pc = "precall" => r.kind = "agt"
    /\ r.pc \in ToolPcs => r.kind \in {"tool", "watch"}
    /\ r.pc = "postCheck" => r.kind = "contract"
    /\ r.kind = "agt" => r.model = "asked"
    /\ r.pre = "pending" => r.kind = "create" /\ r.pc \in {"running", "answered", "failing"}
    /\ r.pc = "running" /\ r.kind = "create" => r.pre # "none"
    /\ r.pc \in {"answered", "failing"} => r.pre # "none"
    /\ r.pc \in {"running", "postCheck", "returned"} \cup CreatePcs => r.ran
    /\ r.pc \in {"idle", "route", "gate", "precall"} \cup ToolPcs => ~r.ran
    /\ r.pc = "post" => r.post # {}
    /\ r.pc \in {"idle", "route", "gate", "precall", "running", "answered", "failing", "post",
                 "announce", "stream"} \cup ToolPcs => r.how = "none" /\ ~r.reconciled
    /\ r.pc \in {"reconcile", "report", "exiting"} => r.reconciled
    /\ r.pc \in {"reconcile", "report"} => r.how # "none"
    /\ r.pc = "exiting" => r.how = "with"
    /\ r.pc = "iterating" => r.how # "none" /\ (r.reconciled => r.how = "temporary")

(* What the gates in front of gate n have shown open.                      *)
Passed(kind, n) ==
    IF n = 1 THEN {}
    ELSE IF kind \in {"create", "agt"} THEN IF n = 5 THEN {"halt", "scope"} ELSE {"halt"}
    ELSE IF kind = "contract" THEN {"hitl"} \cup (IF n > 2 THEN {"budget"} ELSE {})
                                           \cup (IF n > 3 THEN {"halt"} ELSE {})
    ELSE {"halt"}

(* What an operation has met open on its way.                              *)
Cleared(r) ==
    IF r.pc \in {"idle", "route"} \/ (r.pc \in Ended /\ ~r.ran) THEN {}
    ELSE IF r.pc = "gate" THEN Passed(r.kind, r.gate)
    ELSE Required(r)

(* It was open since the operation began; so was the model of a create.    *)
GateSound(r, s) ==
    /\ Cleared(r) \subseteq s
    /\ r.kind = "create" /\ r.pc \notin {"idle", "route"} \cup Ended => r.model \in s

(* The events an operation may have recorded by the time it is at its pc.  *)
May(r) ==
    IF r.pc \in {"returned", "cut", "exiting"} THEN Events \ {"error"}
    ELSE IF r.pc = "raised" THEN {"call", "error", "violation"}
    ELSE IF r.pc \in ToolPcs THEN {"violation"}
    ELSE IF r.pc = "running" /\ r.kind \in {"tool", "watch"} THEN {"violation", "call"}
    ELSE IF (r.pc = "running" /\ r.kind = "agt")
            \/ (r.pc \in {"running", "answered", "failing"} /\ r.pre = "done") THEN {"call"}
    ELSE IF r.pc = "post" THEN {"call", "result", "tracked"} \ r.post
    ELSE IF r.pc = "announce" THEN {"call", "tracked"}
    ELSE IF r.pc \in {"stream", "iterating", "reconcile"} THEN {"call", "tracked", "result"}
    ELSE IF r.pc = "report" THEN {"call", "tracked", "result", "delta"}
    ELSE {}

(* No event twice, none that does not belong here, no delta unreconciled.  *)
Once(r) ==
    /\ \A i, j \in 1..Len(r.trail) : i # j => r.trail[i] # r.trail[j]
    /\ \A i \in 1..Len(r.trail) : r.trail[i] \in May(r)
    /\ \A i \in 1..Len(r.trail) : r.trail[i] = "delta" => r.reconciled

(* The trails of an operation that lost no observation and was not cut.    *)
Ups     == {<<"call">>, <<"call", "tracked">>}
Results == {<<"call", "result">>, <<"call", "tracked", "result">>}
Deltas  == {<<"call", "result", "delta">>, <<"call", "tracked", "result", "delta">>}
Settled == {<<"call", "result", "delta", "reconciled">>,
            <<"call", "tracked", "result", "delta", "reconciled">>}

(* By where the operation is.                                              *)
Trails(r) ==
    IF r.pc \in {"returned", "raised"} /\ r.ran THEN Script(r)
    ELSE IF r.pc \in Ended THEN Seq(Events)
    ELSE IF r.pc \in ToolPcs THEN {<<>>, <<"violation">>}
    ELSE IF r.pc = "running" /\ r.kind \in {"tool", "watch"}
         THEN {<<"call">>, <<"violation", "call">>}
    ELSE IF (r.pc = "running" /\ r.kind = "agt")
            \/ (r.pc \in {"running", "answered", "failing"} /\ r.pre = "done")
         THEN {<<"call">>}
    ELSE IF r.pc = "post" THEN IF r.post = {"result", "tracked"} THEN {<<"call">>}
                               ELSE IF r.post = {"result"} THEN {<<"call", "tracked">>}
                               ELSE {<<"call", "result">>}
    ELSE IF r.pc = "announce" THEN Ups
    ELSE IF r.pc \in {"stream", "iterating", "reconcile"} THEN Results
    ELSE IF r.pc = "report" THEN Deltas
    ELSE IF r.pc = "exiting" THEN Settled
    ELSE {<<>>}

(* The trail of an operation that nothing disturbed is one of these.       *)
Exact(r) == ~r.lost /\ ~r.cut => r.trail \in Trails(r)

(* One operation, and what was open since it began.                        *)
Sound(r, s) == Control(r) /\ GateSound(r, s) /\ Once(r) /\ Exact(r)

-----------------------------------------------------------------------------
(* A step that records nothing keeps Once where May does not shrink.       *)
LEMMA OnceKept ==
    ASSUME NEW r \in OpType, NEW q \in OpType, Once(r), q.trail = r.trail,
           May(r) \subseteq May(q), r.reconciled => q.reconciled
    PROVE  Once(q)
  BY DEF Once

(* So does one that records an event which was not due before.             *)
LEMMA OnceNoted ==
    ASSUME NEW r \in OpType, NEW q \in OpType, NEW e \in Events, Once(r), Observed(r, q, e),
           e \notin May(r), e \in May(q), May(r) \subseteq May(q),
           r.reconciled => q.reconciled, e = "delta" => q.reconciled
    PROVE  Once(q)
  <1>1. CASE q.trail = r.trail
    BY <1>1, OnceKept
  <1>2. CASE q.trail = Append(r.trail, e)
    <2>0. r.trail \in Seq(Events) /\ Len(r.trail) \in Nat
      BY DEF OpType
    <2>1. /\ Len(q.trail) = Len(r.trail) + 1
          /\ q.trail[Len(r.trail) + 1] = e
          /\ \A i \in 1..Len(r.trail) : q.trail[i] = r.trail[i]
      BY <1>2, <2>0
    <2>2. \A i \in 1..Len(q.trail) : i \in 1..Len(r.trail) \/ i = Len(r.trail) + 1
      BY <2>0, <2>1
    <2>3. \A i \in 1..Len(r.trail) : q.trail[i] # e
      BY <2>1 DEF Once
    <2>4. ASSUME NEW i \in 1..Len(q.trail), NEW j \in 1..Len(q.trail), i # j
          PROVE  q.trail[i] # q.trail[j]
      <3>1. CASE i = Len(r.trail) + 1
        BY <2>1, <2>2, <2>3, <2>4, <3>1
      <3>2. CASE j = Len(r.trail) + 1
        BY <2>1, <2>2, <2>3, <2>4, <3>2
      <3>3. CASE i \in 1..Len(r.trail) /\ j \in 1..Len(r.trail)
        BY <2>1, <2>4, <3>3 DEF Once
      <3> QED BY <2>2, <3>1, <3>2, <3>3
    <2>5. ASSUME NEW i \in 1..Len(q.trail)
          PROVE  q.trail[i] \in May(q) /\ (q.trail[i] = "delta" => q.reconciled)
      <3>1. CASE i = Len(r.trail) + 1
        BY <2>1, <3>1
      <3>2. CASE i \in 1..Len(r.trail)
        BY <2>1, <3>2 DEF Once
      <3> QED BY <2>2, <3>1, <3>2
    <2> QED BY <2>4, <2>5 DEF Once
  <1> QED BY <1>1, <1>2 DEF Observed

(* A step that records nothing keeps Exact where Trails does not shrink.   *)
LEMMA ExactKept ==
    ASSUME NEW r \in OpType, NEW q \in OpType, Exact(r), q.trail = r.trail,
           r.lost => q.lost, r.cut => q.cut,
           ~q.lost /\ ~q.cut => Trails(r) \subseteq Trails(q)
    PROVE  Exact(q)
  BY DEF Exact

(* So does one whose event completes every trail to one of the next.       *)
LEMMA ExactNoted ==
    ASSUME NEW r \in OpType, NEW q \in OpType, NEW e \in Events, Exact(r), Observed(r, q, e),
           r.cut => q.cut, \A t \in Trails(r) : Append(t, e) \in Trails(q)
    PROVE  Exact(q)
  BY DEF Exact, Observed

(* Trails of up to five events, element by element.                        *)
LEMMA Tuples ==
    ASSUME NEW s \in Seq(Events)
    PROVE  /\ Len(s) = 1 => s = <<s[1]>>
           /\ Len(s) = 2 => s = <<s[1], s[2]>>
           /\ Len(s) = 3 => s = <<s[1], s[2], s[3]>>
           /\ Len(s) = 4 => s = <<s[1], s[2], s[3], s[4]>>
           /\ Len(s) = 5 => s = <<s[1], s[2], s[3], s[4], s[5]>>
  <1>1. Len(s) = 1 => s = <<s[1]>>
    OBVIOUS
  <1>2. Len(s) = 2 => s = <<s[1], s[2]>>
    OBVIOUS
  <1>3. Len(s) = 3 => s = <<s[1], s[2], s[3]>>
    OBVIOUS
  <1>4. Len(s) = 4 => s = <<s[1], s[2], s[3], s[4]>>
    OBVIOUS
  <1>5. Len(s) = 5 => s = <<s[1], s[2], s[3], s[4], s[5]>>
    OBVIOUS
  <1> QED BY <1>1, <1>2, <1>3, <1>4, <1>5

(* Appending one event to a short trail.                                   *)
LEMMA Append2 ==
    ASSUME NEW a \in Events, NEW b \in Events
    PROVE  Append(<<a>>, b) = <<a, b>>
  <1> DEFINE s == Append(<<a>>, b)
  <1>1. /\ s \in Seq(Events) /\ Len(s) = 2
        /\ s[1] = a /\ s[2] = b
    OBVIOUS
  <1> HIDE DEF s
  <1>2. s = <<s[1], s[2]>>
    BY <1>1, Tuples
  <1> QED BY <1>1, <1>2 DEF s

(* The same for two events,                                                *)
LEMMA Append3 ==
    ASSUME NEW a \in Events, NEW b \in Events, NEW c \in Events
    PROVE  Append(<<a, b>>, c) = <<a, b, c>>
  <1> DEFINE s == Append(<<a, b>>, c)
  <1>1. /\ s \in Seq(Events) /\ Len(s) = 3
        /\ s[1] = a /\ s[2] = b /\ s[3] = c
    OBVIOUS
  <1> HIDE DEF s
  <1>2. s = <<s[1], s[2], s[3]>>
    BY <1>1, Tuples
  <1> QED BY <1>1, <1>2 DEF s

(* three events                                                            *)
LEMMA Append4 ==
    ASSUME NEW a \in Events, NEW b \in Events, NEW c \in Events, NEW d \in Events
    PROVE  Append(<<a, b, c>>, d) = <<a, b, c, d>>
  <1> DEFINE s == Append(<<a, b, c>>, d)
  <1>1. /\ s \in Seq(Events) /\ Len(s) = 4
        /\ s[1] = a /\ s[2] = b /\ s[3] = c /\ s[4] = d
    OBVIOUS
  <1> HIDE DEF s
  <1>2. s = <<s[1], s[2], s[3], s[4]>>
    BY <1>1, Tuples
  <1> QED BY <1>1, <1>2 DEF s

(* and four events.                                                        *)
LEMMA Append5 ==
    ASSUME NEW a \in Events, NEW b \in Events, NEW c \in Events, NEW d \in Events,
           NEW e \in Events
    PROVE  Append(<<a, b, c, d>>, e) = <<a, b, c, d, e>>
  <1> DEFINE s == Append(<<a, b, c, d>>, e)
  <1>1. /\ s \in Seq(Events) /\ Len(s) = 5
        /\ s[1] = a /\ s[2] = b /\ s[3] = c /\ s[4] = d /\ s[5] = e
    OBVIOUS
  <1> HIDE DEF s
  <1>2. s = <<s[1], s[2], s[3], s[4], s[5]>>
    BY <1>1, Tuples
  <1> QED BY <1>1, <1>2 DEF s

(* The trails that an observation makes of the trails before it.           *)
LEMMA Notes ==
    /\ Append(<<>>, "call") = <<"call">>
    /\ Append(<<>>, "violation") = <<"violation">>
    /\ Append(<<"violation">>, "call") = <<"violation", "call">>
    /\ Append(<<"call">>, "error") = <<"call", "error">>
    /\ Append(<<"call">>, "result") = <<"call", "result">>
    /\ Append(<<"call">>, "tracked") = <<"call", "tracked">>
    /\ Append(<<"violation", "call">>, "error") = <<"violation", "call", "error">>
    /\ Append(<<"violation", "call">>, "result") = <<"violation", "call", "result">>
    /\ Append(<<"call", "tracked">>, "result") = <<"call", "tracked", "result">>
    /\ Append(<<"call", "result">>, "tracked") = <<"call", "result", "tracked">>
    /\ Append(<<"call", "result">>, "delta") = <<"call", "result", "delta">>
    /\ Append(<<"call", "tracked", "result">>, "delta")
         = <<"call", "tracked", "result", "delta">>
    /\ Append(<<"call", "result", "delta">>, "reconciled")
         = <<"call", "result", "delta", "reconciled">>
    /\ Append(<<"call", "tracked", "result", "delta">>, "reconciled")
         = <<"call", "tracked", "result", "delta", "reconciled">>
  <1>1. /\ Append(<<>>, "call") = <<"call">>
        /\ Append(<<>>, "violation") = <<"violation">>
    OBVIOUS
  <1>2. \A a, b \in Events : Append(<<a>>, b) = <<a, b>>
    BY Append2
  <1>3. \A a, b, c \in Events : Append(<<a, b>>, c) = <<a, b, c>>
    BY Append3
  <1>6. {"call", "violation", "error", "result", "tracked", "delta", "reconciled"} \subseteq Events
    BY DEF Events
  <1>7. /\ Append(<<"violation">>, "call") = <<"violation", "call">>
        /\ Append(<<"call">>, "error") = <<"call", "error">>
        /\ Append(<<"call">>, "result") = <<"call", "result">>
        /\ Append(<<"call">>, "tracked") = <<"call", "tracked">>
    BY <1>2, <1>6, Zenon
  <1>8. /\ Append(<<"violation", "call">>, "error") = <<"violation", "call", "error">>
        /\ Append(<<"violation", "call">>, "result") = <<"violation", "call", "result">>
        /\ Append(<<"call", "tracked">>, "result") = <<"call", "tracked", "result">>
        /\ Append(<<"call", "result">>, "tracked") = <<"call", "result", "tracked">>
        /\ Append(<<"call", "result">>, "delta") = <<"call", "result", "delta">>
    BY <1>3, <1>6, Zenon
  <1> PICK a \in Events, b \in Events, c \in Events, d \in Events, e \in Events :
         a = "call" /\ b = "tracked" /\ c = "result" /\ d = "delta" /\ e = "reconciled"
    BY <1>6
  <1>9. Append(<<a, b, c>>, d) = <<a, b, c, d>> /\ Append(<<a, c, d>>, e) = <<a, c, d, e>>
    BY Append4
  <1>10. Append(<<a, b, c, d>>, e) = <<a, b, c, d, e>>
    BY Append5
  <1> QED BY <1>1, <1>7, <1>8, <1>9, <1>10

(* The trails of a stream are scripts.                                     *)
Streams == {up \o <<"result">> \o down : up \in Ups, down \in {<<>>, <<"delta", "reconciled">>}}
HeldStreams == {up \o <<"result", "delta", "reconciled">> : up \in Ups}

(* A stream whose proxy was collected may stop after its result.           *)
LEMMA Scripts ==
    Results \subseteq Streams /\ Settled \subseteq Streams /\ Settled \subseteq HeldStreams
  <1>1. Results \subseteq Streams
    <2>1. <<"call", "result">> = <<"call">> \o <<"result">> \o <<>>
      OBVIOUS
    <2>2. <<"call", "tracked", "result">> = <<"call", "tracked">> \o <<"result">> \o <<>>
      OBVIOUS
    <2> QED BY <2>1, <2>2 DEF Results, Streams, Ups
  <1>2. Settled \subseteq Streams
    BY DEF Settled, Streams, Ups
  <1>3. Settled \subseteq HeldStreams
    BY DEF Settled, HeldStreams, Ups
  <1> QED BY <1>1, <1>2, <1>3

-----------------------------------------------------------------------------
(* The types of the variables.                                             *)
Typed ==
    /\ env \in Env /\ changes \in 0..MaxChanges
    /\ loopRows \in Nat /\ detected \in BOOLEAN /\ logged \in BOOLEAN
    /\ op \in [Ops -> OpType] /\ IsFiniteSet(Ops)
    /\ seen = [c \in Ops |-> seen[c]]

(* What an operation may meet open now has been open since it began.       *)
OpenSeen == \A c \in Ops : op[c].pc # "idle" => Open(env, op[c].kind) \subseteq seen[c]

(* Every operation is sound.                                               *)
AllSound == \A c \in Ops : Sound(op[c], seen[c])

(* Operations that have left the loop detector's insert behind them.       *)
Inserted == {c \in Ops : op[c].pc \notin {"idle", "route", "gate", "insert"}}

(* A row was inserted by an operation that is past the insert.             *)
RowsCounted == loopRows <= Cardinality(Inserted)

(* Once the rows exceed the limit, the loop was reported, or somebody is   *)
(* on the way to report it or was kept from doing so.                      *)
LoopWatched ==
    loopRows > MaxCalls =>
        \/ detected
        \/ \E c \in Ops : op[c].lost \/ op[c].cut \/ op[c].pc \in {"count", "detect"}

-----------------------------------------------------------------------------
(* A step of an operation keeps its kind, forgets no failure and never     *)
(* leads back in front of the loop detector's insert.                      *)
Before == {"idle", "route", "gate", "insert"}
Onward(r, q) ==
    /\ q.kind = r.kind /\ (r.lost => q.lost) /\ (r.cut => q.cut)
    /\ r.pc \notin Before => q.pc \notin Before

(* Behind the gates, what an operation may not run without only shrinks.   *)
LEMMA GateKept ==
    ASSUME NEW r \in OpType, NEW q \in OpType, NEW s, GateSound(r, s),
           q.kind = r.kind, q.model = r.model, r.lost => q.lost, r.cut => q.cut,
           r.pc \notin {"idle", "route", "gate"} \cup Ended,
           q.pc \notin {"idle", "route", "gate", "insert"}
    PROVE  GateSound(q, s) /\ Onward(r, q)
  <1>1. Required(q) \subseteq Required(r)
    BY DEF Required, OpType
  <1>2. Cleared(r) = Required(r)
    BY DEF Cleared
  <1>3. Cleared(q) \subseteq Required(q)
    BY DEF Cleared
  <1> QED BY <1>1, <1>2, <1>3 DEF GateSound, Onward, Before

(* An operation that ends before it ran has nothing to answer for.         *)
LEMMA GateEnded ==
    ASSUME NEW r \in OpType, NEW q \in OpType, NEW s, GateSound(r, s),
           q.kind = r.kind, q.model = r.model, ~q.ran, q.pc \in Ended,
           r.lost => q.lost, r.cut => q.cut
    PROVE  GateSound(q, s) /\ Onward(r, q)
  BY DEF GateSound, Cleared, Ended, Onward, Before

(* The gates of each kind of operation, in order.                          *)
LEMMA GateLists ==
    /\ \A kind \in {"create", "agt"} :
         /\ Len(GatesOf(kind)) = 5
         /\ GatesOf(kind)[1] = "halt" /\ GatesOf(kind)[2] = "registered"
         /\ GatesOf(kind)[3] = "rehalt" /\ GatesOf(kind)[4] = "allowed"
         /\ GatesOf(kind)[5] = "budget"
    /\ Len(GatesOf("contract")) = 4
    /\ GatesOf("contract")[1] = "hitl" /\ GatesOf("contract")[2] = "budget"
    /\ GatesOf("contract")[3] = "rehalt" /\ GatesOf("contract")[4] = "allowed"
    /\ \A kind \in {"tool", "watch"} :
         /\ Len(GatesOf(kind)) = 2
         /\ GatesOf(kind)[1] = "rehalt" /\ GatesOf(kind)[2] = "allowed"
  BY DEF GatesOf

(* Routing suggests a model that the policy allows.                        *)
LEMMA Suggests ==
    ASSUME NEW candidates \in {<<>>, <<"middle">>, <<"middle", "small">>}, NEW policy
    PROVE  Suggested(candidates, policy) \in AllowedModels(policy)
  <1> DEFINE let == {i \in DOMAIN candidates : candidates[i] \in AllowedModels(policy)}
  <1>1. CASE let = {}
    BY <1>1 DEF Suggested, AllowedModels
  <1>2. CASE let # {}
    <2>1. let \subseteq {1, 2}
      OBVIOUS
    <2>2. \E x \in let : \A y \in let : x <= y
      <3> HIDE DEF let
      <3>1. CASE 1 \in let
        BY <2>1, <3>1
      <3>2. CASE 1 \notin let
        <4>1. let = {2}
          BY <1>2, <2>1, <3>2
        <4> QED BY <4>1
      <3> QED BY <3>1, <3>2
    <2>3. Min(let) \in let
      BY <2>2 DEF Min
    <2> QED BY <1>2, <2>3 DEF Suggested
  <1> QED BY <1>1, <1>2

(* Beginning and routing keep an operation sound.                          *)
LEMMA RouteStep ==
    ASSUME NEW c \in Ops, Typed, OpenSeen, Sound(op[c], seen[c]), Begin(c) \/ Route(c)
    PROVE  op'[c] \in OpType /\ Sound(op'[c], seen'[c]) /\ Onward(op[c], op'[c])
  <1> PICK r \in OpType : r = op[c]
    BY DEF Typed
  <1> PICK q : q = op'[c]
    OBVIOUS
  <1> PICK t : t = seen'[c]
    OBVIOUS
  <1>1. CASE Begin(c)
    <2>1. r.pc = "idle" /\ q = To(r, IF r.kind = "create" THEN "route" ELSE "gate")
      BY <1>1 DEF Begin, Becomes, At, Ops
    <2>2. t = Open(env, r.kind)
      BY <1>1 DEF Begin, Typed
    <2>3. /\ q \in OpType /\ Kept(r, q) /\ q.trail = r.trail /\ q.lost = r.lost
          /\ q.pc = IF r.kind = "create" THEN "route" ELSE "gate"
      BY <2>1, Moving DEF Pcs
    <2>4. Control(q)
      BY <2>1, <2>3 DEF Sound, Control, Kept, CreatePcs, ToolPcs, Kinds, OpType
    <2>5. GateSound(q, t) /\ Onward(r, q)
      BY <2>1, <2>3, <2>4 DEF Sound, GateSound, Cleared, Passed, Control, Kept, Onward, Before
    <2>6. Once(q)
      BY <2>1, <2>3, OnceKept DEF Sound, May, Kept, ToolPcs, Ended
    <2>7. Exact(q)
      BY <2>1, <2>3, ExactKept DEF Sound, Trails, Kept, ToolPcs, Ended
    <2> QED BY <2>3, <2>4, <2>5, <2>6, <2>7 DEF Sound
  <1>2. CASE Route(c)
    <2>0. t = seen[c] /\ r.pc = "route"
      BY <1>2 DEF Route, shared, At
    <2>1. PICK candidates \in {<<>>, <<"middle">>, <<"middle", "small">>} :
            q = [To(r, "gate") EXCEPT !.model = Suggested(candidates, env.policy)]
      BY <1>2 DEF Route, Becomes, Ops
    <2>2. Suggested(candidates, env.policy) \in AllowedModels(env.policy)
      BY Suggests DEF Typed, Env
    <2>3. AllowedModels(env.policy) \subseteq Models /\ AllowedModels(env.policy) \subseteq t
      BY <2>0 DEF AllowedModels, Models, OpenSeen, Open
    <2>4. /\ q \in OpType /\ q.kind = r.kind /\ q.gate = r.gate /\ q.pre = r.pre
          /\ q.how = r.how /\ q.reconciled = r.reconciled /\ q.ran = r.ran /\ q.cut = r.cut
          /\ q.trail = r.trail /\ q.lost = r.lost /\ q.post = r.post
          /\ q.pc = "gate" /\ q.model \in t
      BY <2>1, <2>2, <2>3 DEF To, OpType, Pcs
    <2>5. Control(q)
      BY <2>0, <2>4 DEF Sound, Control, CreatePcs, ToolPcs
    <2>6. GateSound(q, t) /\ Onward(r, q)
      BY <2>0, <2>4 DEF Sound, GateSound, Cleared, Passed, Control, Ended, Onward, Before
    <2>7. Once(q)
      BY <2>0, <2>4, OnceKept DEF Sound, May, ToolPcs
    <2>8. Exact(q)
      BY <2>0, <2>4, ExactKept DEF Sound, Trails, ToolPcs, Ended
    <2> QED BY <2>4, <2>5, <2>6, <2>7, <2>8 DEF Sound
  <1> QED BY <1>1, <1>2

(* Past a gate an operation is at a later gate or behind the last.         *)
LEMMA Passing ==
    ASSUME NEW r \in OpType, NEW n \in {1, 3}, NEW q, q = Past(r, n), Control(r), Once(r), Exact(r),
           r.pc = "gate"
    PROVE  /\ q \in OpType /\ Control(q) /\ Once(q) /\ Exact(q)
           /\ q.kind = r.kind /\ q.model = r.model /\ q.lost = r.lost /\ q.cut = r.cut
           /\ IF r.gate + n > Len(GatesOf(r.kind))
              THEN q.pc \notin {"idle", "route", "gate"} \cup Ended
              ELSE q.pc = "gate" /\ q.gate = r.gate + n
  <1>1. CASE r.gate + n > Len(GatesOf(r.kind))
    <2>1. q = Admitted(r)
      BY <1>1 DEF Past
    <2>2. /\ q \in OpType /\ q.kind = r.kind /\ q.gate = r.gate /\ q.model = r.model
          /\ q.how = r.how /\ q.reconciled = r.reconciled /\ q.cut = r.cut
          /\ q.trail = r.trail /\ q.lost = r.lost /\ q.post = r.post
      <3>1. CASE q = [r EXCEPT !.pc = "running", !.pre = "pending", !.ran = TRUE]
        BY <3>1 DEF OpType, Pcs
      <3>2. CASE q = [r EXCEPT !.pc = "running", !.ran = TRUE]
        BY <3>2 DEF OpType, Pcs
      <3>3. CASE q = To(r, "precall") \/ q = To(r, "insert")
        BY <3>3, Moving DEF Kept, Pcs, ToolPcs
      <3> QED BY <2>1, <3>1, <3>2, <3>3 DEF Admitted
    <2>3. /\ r.kind = "create" => q.pc = "running" /\ q.pre = "pending" /\ q.ran
          /\ r.kind = "contract" => q.pc = "running" /\ q.ran /\ q.pre = r.pre
          /\ r.kind = "agt" => q.pc = "precall" /\ q.ran = r.ran /\ q.pre = r.pre
          /\ r.kind \in {"tool", "watch"} => q.pc = "insert" /\ q.ran = r.ran /\ q.pre = r.pre
      BY <2>1 DEF Admitted, To, OpType
    <2>4. r.kind \in Kinds
      BY DEF OpType
    <2>5. Control(q)
      BY <2>2, <2>3, <2>4 DEF Control, CreatePcs, ToolPcs, Kinds
    <2>6. May(r) = {} /\ Trails(r) = {<<>>}
      BY DEF May, Trails, ToolPcs, Ended
    <2>7. Once(q)
      BY <2>2, <2>6, OnceKept
    <2>8. <<>> \in Trails(q)
      BY <2>2, <2>3, <2>4 DEF Trails, Kinds, Ended, ToolPcs, Control
    <2>9. Exact(q)
      BY <2>2, <2>6, <2>8, ExactKept
    <2> QED BY <1>1, <2>2, <2>3, <2>4, <2>5, <2>7, <2>9 DEF Kinds, Ended
  <1>2. CASE ~(r.gate + n > Len(GatesOf(r.kind)))
    <2>1. q = [r EXCEPT !.gate = @ + n]
      BY <1>2 DEF Past
    <2>2. /\ q \in OpType /\ q.kind = r.kind /\ q.gate = r.gate + n /\ q.model = r.model
          /\ q.how = r.how /\ q.reconciled = r.reconciled /\ q.cut = r.cut
          /\ q.trail = r.trail /\ q.lost = r.lost /\ q.post = r.post
          /\ q.pc = r.pc /\ q.ran = r.ran /\ q.pre = r.pre
      BY <2>1 DEF OpType
    <2>3. q.gate \in 1..Len(GatesOf(q.kind))
      BY <1>2, <2>2, GateLists DEF Control, OpType, Kinds
    <2>4. Control(q)
      BY <2>2, <2>3 DEF Control
    <2>5. Once(q)
      BY <2>2, OnceKept DEF May
    <2>6. Exact(q)
      BY <2>2, ExactKept DEF Trails, ToolPcs, Ended
    <2> QED BY <1>2, <2>2, <2>4, <2>5, <2>6
  <1> QED BY <1>1, <1>2

(* What an open gate adds to what the ones before it have shown.           *)
LEMMA GateShows ==
    ASSUME NEW kind \in Kinds, NEW gate \in 1..Len(GatesOf(kind)), NEW s,
           env \in Env, Open(env, kind) \in SUBSET s, Passed(kind, gate) \in SUBSET s,
           ~Shut(GatesOf(kind)[gate]),
           NEW n \in {1, 3}, n = IF GatesOf(kind)[gate] = "registered" /\ env.policy = "none" THEN 3 ELSE 1
    PROVE  /\ gate + n <= Len(GatesOf(kind)) => Passed(kind, gate + n) \subseteq s
           /\ gate + n > Len(GatesOf(kind)) =>
                /\ {"halt", "scope"} \subseteq s
                /\ kind \notin {"tool", "watch"} => "budget" \in s
                /\ kind = "contract" => "hitl" \in s
  <1>1. /\ ~env.halted => "halt" \in s
        /\ env.policy \in {"allow", "narrow"} => "scope" \in s
        /\ env.policy = "none" /\ kind \in {"create", "agt"} => "scope" \in s
        /\ ~env.broke => "budget" \in s
        /\ env.approved => "hitl" \in s
    BY DEF Open
  <1>2. env.policy \in {"none", "allow", "narrow", "deny"}
    BY DEF Env, Policies
  <1>3. CASE kind \in {"create", "agt"}
    <2>0. Len(GatesOf(kind)) = 5
      BY <1>3, GateLists
    <2>1. CASE gate = 1
      BY <1>1, <1>3, <2>0, <2>1, GateLists DEF Shut, Passed
    <2>2. CASE gate = 2
      BY <1>1, <1>3, <2>0, <2>2, GateLists DEF Shut, Passed
    <2>3. CASE gate = 3
      BY <1>1, <1>3, <2>0, <2>3, GateLists DEF Shut, Passed
    <2>4. CASE gate = 4
      BY <1>1, <1>2, <1>3, <2>0, <2>4, GateLists DEF Shut, Passed
    <2>5. CASE gate = 5
      BY <1>1, <1>3, <2>0, <2>5, GateLists DEF Shut, Passed
    <2> QED BY <2>0, <2>1, <2>2, <2>3, <2>4, <2>5
  <1>4. CASE kind = "contract"
    <2>0. Len(GatesOf(kind)) = 4
      BY <1>4, GateLists
    <2>1. CASE gate = 1
      BY <1>1, <1>4, <2>0, <2>1, GateLists DEF Shut, Passed
    <2>2. CASE gate = 2
      BY <1>1, <1>4, <2>0, <2>2, GateLists DEF Shut, Passed
    <2>3. CASE gate = 3
      BY <1>1, <1>4, <2>0, <2>3, GateLists DEF Shut, Passed
    <2>4. CASE gate = 4
      BY <1>1, <1>2, <1>4, <2>0, <2>4, GateLists DEF Shut, Passed
    <2> QED BY <2>0, <2>1, <2>2, <2>3, <2>4
  <1>5. CASE kind \in {"tool", "watch"}
    <2>0. Len(GatesOf(kind)) = 2
      BY <1>5, GateLists
    <2>1. CASE gate = 1
      BY <1>1, <1>5, <2>0, <2>1, GateLists DEF Shut, Passed
    <2>2. CASE gate = 2
      BY <1>1, <1>2, <1>5, <2>0, <2>2, GateLists DEF Shut, Passed
    <2> QED BY <2>0, <2>1, <2>2
  <1> QED BY <1>3, <1>4, <1>5 DEF Kinds

(* An opening gate and a refusal keep an operation sound.                  *)
LEMMA GateStep ==
    ASSUME NEW c \in Ops, Typed, OpenSeen, Sound(op[c], seen[c]), GateOpens(c) \/ GateRefuses(c)
    PROVE  op'[c] \in OpType /\ Sound(op'[c], seen'[c]) /\ Onward(op[c], op'[c])
  <1> PICK r \in OpType : r = op[c]
    BY DEF Typed
  <1> PICK q : q = op'[c]
    OBVIOUS
  <1> PICK s : s = seen[c]
    OBVIOUS
  <1>0. /\ seen'[c] = s /\ r.pc = "gate" /\ GateOf(c) = GatesOf(r.kind)[r.gate]
        /\ r.kind \in Kinds /\ r.gate \in 1..Len(GatesOf(r.kind))
        /\ Control(r) /\ GateSound(r, s) /\ Once(r) /\ Exact(r)
        /\ Open(env, r.kind) \subseteq s /\ env \in Env
    BY DEF GateOpens, GateRefuses, shared, At, GateOf, Sound, Control, OpType, OpenSeen, Typed
  <1>1. CASE GateOpens(c)
    <2>0. PICK n \in {1, 3} :
           n = IF GatesOf(r.kind)[r.gate] = "registered" /\ env.policy = "none" THEN 3 ELSE 1
      OBVIOUS
    <2>1. q = Past(r, n) /\ ~Shut(GatesOf(r.kind)[r.gate])
      BY <1>0, <1>1, <2>0 DEF GateOpens, Becomes, Ops
    <2>2. /\ q \in OpType /\ Control(q) /\ Once(q) /\ Exact(q)
          /\ q.kind = r.kind /\ q.model = r.model /\ q.lost = r.lost /\ q.cut = r.cut
          /\ IF r.gate + n > Len(GatesOf(r.kind))
             THEN q.pc \notin {"idle", "route", "gate"} \cup Ended
             ELSE q.pc = "gate" /\ q.gate = r.gate + n
      BY <1>0, <2>1, Passing
    <2>3. Passed(r.kind, r.gate) \subseteq s /\ (r.kind = "create" => r.model \in s)
      BY <1>0 DEF GateSound, Cleared, Ended
    <2>4. "asked" \in s
      BY <1>0 DEF Open, AllowedModels
    <2>5. /\ r.gate + n <= Len(GatesOf(r.kind)) => Passed(r.kind, r.gate + n) \subseteq s
          /\ r.gate + n > Len(GatesOf(r.kind)) =>
               /\ {"halt", "scope"} \subseteq s
               /\ r.kind \notin {"tool", "watch"} => "budget" \in s
               /\ r.kind = "contract" => "hitl" \in s
      <3> PICK k \in Kinds : k = r.kind
        BY <1>0
      <3> PICK i \in 1..Len(GatesOf(k)) : i = r.gate
        BY <1>0
      <3>1. /\ env \in Env /\ Open(env, k) \in SUBSET s /\ Passed(k, i) \in SUBSET s
            /\ ~Shut(GatesOf(k)[i])
            /\ n = IF GatesOf(k)[i] = "registered" /\ env.policy = "none" THEN 3 ELSE 1
        BY <1>0, <2>0, <2>1, <2>3
      <3> HIDE DEF Ops
      <3>2. /\ i + n <= Len(GatesOf(k)) => Passed(k, i + n) \subseteq s
            /\ i + n > Len(GatesOf(k)) =>
               /\ {"halt", "scope"} \subseteq s
               /\ k \notin {"tool", "watch"} => "budget" \in s
               /\ k = "contract" => "hitl" \in s
        BY <3>1, GateShows
      <3> QED BY <3>2
    <2>6. CASE r.gate + n > Len(GatesOf(r.kind))
      <3>1. Required(q) \subseteq s
        BY <1>0, <2>2, <2>3, <2>4, <2>5, <2>6 DEF Required, Kinds, Control
      <3>2. GateSound(q, s) /\ Onward(r, q)
        BY <1>0, <2>2, <2>3, <2>6, <3>1 DEF GateSound, Cleared, Onward, Before
      <3> QED BY <1>0, <2>2, <3>2 DEF Sound
    <2>7. CASE ~(r.gate + n > Len(GatesOf(r.kind)))
      <3>1. r.gate + n <= Len(GatesOf(r.kind))
        BY <1>0, <2>7, GateLists DEF Kinds
      <3>2. GateSound(q, s) /\ Onward(r, q)
        BY <1>0, <2>2, <2>3, <2>5, <2>7, <3>1 DEF GateSound, Cleared, Ended, Onward, Before
      <3> QED BY <1>0, <2>2, <3>2 DEF Sound
    <2> QED BY <2>6, <2>7
  <1>2. CASE GateRefuses(c)
    <2>1. CASE q = To(r, "raised")
      <3>1. /\ q \in OpType /\ Kept(r, q) /\ q.trail = r.trail /\ q.lost = r.lost
            /\ q.pc = "raised"
        BY <2>1, Moving DEF Pcs, Ended
      <3>2. Control(q)
        BY <1>0, <3>1 DEF Control, Kept, CreatePcs, ToolPcs
      <3>3. GateSound(q, s) /\ Onward(r, q)
        BY <1>0, <3>1, GateEnded DEF Kept, Ended, Control
      <3>4. Once(q)
        BY <1>0, <3>1, OnceKept DEF May, Kept, ToolPcs
      <3>5. Exact(q)
        BY <1>0, <3>1 DEF Exact, Trails, Kept, Ended, Control, OpType
      <3> QED BY <1>0, <3>1, <3>2, <3>3, <3>4, <3>5 DEF Sound
    <2>2. CASE GateOf(c) = "allowed"
      <3>1. PICK v \in Outcomes(r, "violation") :
               q = IF r.kind = "watch" \/ (r.kind = "tool" /\ v.lost)
                   THEN Past(v, 1) ELSE To(v, "raised")
        BY <1>2, <2>2 DEF GateRefuses, Becomes, Ops
      <3>2. v \in OpType /\ Kept(r, v) /\ v.pc = "gate" /\ Observed(r, v, "violation")
        BY <1>0, Observing DEF Events
      <3>3. CASE q = To(v, "raised")
        <4>1. /\ q \in OpType /\ Kept(r, q) /\ Observed(r, q, "violation") /\ q.pc = "raised"
          <5>1. /\ q \in OpType /\ Kept(v, q) /\ q.pc = "raised"
                /\ q.trail = v.trail /\ q.lost = v.lost
            BY <3>2, <3>3, Moving DEF Pcs, Ended
          <5> QED BY <3>2, <5>1 DEF Kept, Observed
        <4>2. Control(q)
          BY <1>0, <4>1 DEF Control, Kept, CreatePcs, ToolPcs
        <4>3. GateSound(q, s) /\ Onward(r, q)
          <5>1. ~q.ran /\ q.pc \in Ended
            BY <1>0, <4>1 DEF Kept, Control, Ended
          <5>2. r.lost => q.lost
            BY <4>1 DEF Observed
          <5> QED BY <1>0, <4>1, <5>1, <5>2, GateEnded DEF Kept
        <4>4. Once(q)
          BY <1>0, <4>1, OnceNoted DEF May, Kept, ToolPcs, Events
        <4>5. Exact(q)
          BY <1>0, <4>1 DEF Exact, Trails, Kept, Ended, Control, OpType
        <4> QED BY <1>0, <4>1, <4>2, <4>3, <4>4, <4>5 DEF Sound
      <3>4. CASE r.kind = "watch" \/ (r.kind = "tool" /\ v.lost)
        <4>1. r.gate = 2 /\ Len(GatesOf(r.kind)) = 2
          <5>1. Len(GatesOf(r.kind)) = 2 /\ GatesOf(r.kind)[1] = "rehalt"
            BY <3>4, GateLists
          <5>2. r.gate \in 1..2 /\ r.gate # 1
            BY <1>0, <2>2, <5>1
          <5> QED BY <5>1, <5>2
        <4>2. q = To(v, "insert")
          BY <3>1, <3>2, <3>4, <4>1 DEF Past, Admitted, Kept
        <4>3. /\ q \in OpType /\ Kept(r, q) /\ Observed(r, q, "violation") /\ q.pc = "insert"
              /\ q.lost = v.lost
          BY <3>2, <4>2, Moving DEF Pcs, ToolPcs, Kept, Observed
        <4>4. Control(q)
          BY <1>0, <3>4, <4>3 DEF Control, Kept, CreatePcs, ToolPcs
        <4>5. Passed(r.kind, r.gate) \subseteq s
          BY <1>0 DEF GateSound, Cleared, Ended
        <4>6. GateSound(q, s) /\ Onward(r, q)
          BY <1>0, <3>4, <4>1, <4>3, <4>5 DEF Kept, GateSound, Cleared, Required, Passed, Ended,
             Onward, Before, Observed
        <4>7. Once(q)
          BY <1>0, <4>3, OnceNoted DEF May, Kept, ToolPcs, Events
        <4>8. Exact(q)
          <5>1. Append(<<>>, "violation") = <<"violation">>
            BY Notes
          <5>2. Trails(r) = {<<>>}
            BY <1>0 DEF Trails, ToolPcs, Ended
          <5>3. Trails(q) = {<<>>, <<"violation">>}
            BY <4>3 DEF Trails, ToolPcs, Ended
          <5>4. \A x \in Trails(r) : Append(x, "violation") \in Trails(q)
            BY <5>1, <5>2, <5>3
          <5> QED BY <1>0, <4>3, <5>4, ExactNoted DEF Kept, Events
        <4> QED BY <1>0, <4>3, <4>4, <4>6, <4>7, <4>8 DEF Sound
      <3> QED BY <3>1, <3>3, <3>4
    <2>3. CASE GateOf(c) # "allowed"
      <3>1. q = To(r, "raised")
        BY <1>2, <2>3 DEF GateRefuses, Becomes, Ops
      <3> QED BY <2>1, <3>1
    <2> QED BY <2>2, <2>3
  <1> QED BY <1>1, <1>2

(* create's way from the provider call to the whole answer or the proxy.   *)
LEMMA CallStep ==
    ASSUME NEW c \in Ops, Typed, Sound(op[c], seen[c]),
           \/ PreLog(c) \/ Answers(c) \/ LogError(c) \/ Whole(c) \/ PostStep(c)
           \/ Streamed(c) \/ Announce(c)
    PROVE  op'[c] \in OpType /\ Sound(op'[c], seen'[c]) /\ Onward(op[c], op'[c])
  <1> PICK r \in OpType : r = op[c]
    BY DEF Typed
  <1> PICK q : q = op'[c]
    OBVIOUS
  <1> PICK s : s = seen[c]
    OBVIOUS
  <1>0. /\ seen'[c] = s /\ r.kind \in Kinds
        /\ Control(r) /\ GateSound(r, s) /\ Once(r) /\ Exact(r)
    BY DEF PreLog, Answers, LogError, Whole, PostStep, Streamed, Announce, shared, Sound, OpType
  <1>1. CASE PreLog(c)
    <2>1. PICK v \in Outcomes(r, "call") : q = [v EXCEPT !.pre = "done"]
      BY <1>1 DEF PreLog, Becomes, Ops
    <2>2. v \in OpType /\ Kept(r, v) /\ v.pc = r.pc /\ Observed(r, v, "call")
      BY Observing DEF Events
    <2>3. /\ r.pre = "pending" /\ r.kind = "create" /\ r.pc \in {"running", "answered", "failing"}
      BY <1>0, <1>1 DEF PreLog, Control
    <2>4. /\ q \in OpType /\ q.pre = "done" /\ q.pc = v.pc /\ q.trail = v.trail /\ q.lost = v.lost
          /\ q.kind = v.kind /\ q.gate = v.gate /\ q.model = v.model /\ q.post = v.post
          /\ q.how = v.how /\ q.reconciled = v.reconciled /\ q.ran = v.ran /\ q.cut = v.cut
      BY <2>1, <2>2 DEF OpType
    <2>5. /\ q.pre = "done" /\ q.pc = r.pc /\ Observed(r, q, "call")
          /\ q.kind = r.kind /\ q.gate = r.gate /\ q.model = r.model /\ q.post = r.post
          /\ q.how = r.how /\ q.reconciled = r.reconciled /\ q.ran = r.ran /\ q.cut = r.cut
      BY <2>2, <2>4 DEF Kept, Observed
    <2>6. Control(q)
      BY <1>0, <2>3, <2>5 DEF Control
    <2>7. GateSound(q, s) /\ Onward(r, q)
      BY <1>0, <2>3, <2>4, <2>5, GateKept DEF Ended, Observed
    <2>8. Once(q)
      BY <1>0, <2>3, <2>4, <2>5, OnceNoted DEF May, Events, ToolPcs
    <2>9. Exact(q)
      <3>1. Trails(r) = {<<>>}
        BY <2>3 DEF Trails, Ended, ToolPcs
      <3>2. Trails(q) = {<<"call">>}
        BY <2>3, <2>5 DEF Trails, Ended, ToolPcs
      <3>3. \A x \in Trails(r) : Append(x, "call") \in Trails(q)
        BY <3>1, <3>2, Notes
      <3> QED BY <1>0, <2>4, <2>5, <3>3, ExactNoted DEF Events
    <2> QED BY <1>0, <2>4, <2>6, <2>7, <2>8, <2>9 DEF Sound
  <1>2. CASE Answers(c)
    <2>1. /\ r.pc = "running" /\ r.kind = "create"
          /\ \E pc \in {"answered", "failing"} : q = To(r, pc)
      BY <1>2 DEF Answers, Becomes, Ops, At
    <2>2. /\ q \in OpType /\ Kept(r, q) /\ q.pc \in {"answered", "failing"}
          /\ q.trail = r.trail /\ q.lost = r.lost
      BY <2>1, Moving DEF Pcs, CreatePcs
    <2>3. Control(q)
      BY <1>0, <2>1, <2>2 DEF Control, Kept, ToolPcs, CreatePcs
    <2>4. GateSound(q, s) /\ Onward(r, q)
      BY <1>0, <2>1, <2>2, GateKept DEF Ended, Kept
    <2>5. Once(q)
      BY <1>0, <2>1, <2>2, OnceKept DEF May, Kept, ToolPcs
    <2>6. Exact(q)
      BY <1>0, <2>1, <2>2, ExactKept DEF Trails, Kept, ToolPcs, Ended
    <2> QED BY <1>0, <2>2, <2>3, <2>4, <2>5, <2>6 DEF Sound
  <1>3. CASE LogError(c)
    <2>1. PICK v \in Outcomes(r, "error") : q = To(v, "raised")
      BY <1>3 DEF LogError, Becomes, Ops
    <2>2. v \in OpType /\ Kept(r, v) /\ Observed(r, v, "error")
      BY Observing DEF Events
    <2>3. /\ q \in OpType /\ q.pc = "raised" /\ Kept(v, q) /\ q.trail = v.trail /\ q.lost = v.lost
      BY <2>1, <2>2, Moving DEF Pcs, Ended
    <2>4. /\ r.pc = "failing" /\ r.pre = "done" /\ r.kind = "create" /\ r.ran
      BY <1>0, <1>3 DEF LogError, PreJoined, At, Control, CreatePcs
    <2>5. Kept(r, q) /\ Observed(r, q, "error")
      BY <2>2, <2>3 DEF Kept, Observed
    <2>6. Control(q)
      BY <1>0, <2>3, <2>4, <2>5 DEF Control, Kept, ToolPcs, CreatePcs
    <2>7. GateSound(q, s) /\ Onward(r, q)
      BY <1>0, <2>3, <2>4, <2>5, GateKept DEF Ended, Kept, Observed
    <2>8. Once(q)
      BY <1>0, <2>3, <2>4, <2>5, OnceNoted DEF May, Kept, ToolPcs, Events
    <2>9. Exact(q)
      <3>1. Trails(r) = {<<"call">>}
        BY <2>4 DEF Trails, Ended, ToolPcs
      <3>2. Trails(q) = {<<"call", "error">>}
        BY <2>3, <2>4, <2>5 DEF Trails, Script, Kept
      <3>3. \A x \in Trails(r) : Append(x, "error") \in Trails(q)
        BY <3>1, <3>2, Notes
      <3> QED BY <1>0, <2>3, <2>5, <3>3, ExactNoted DEF Events, Kept
    <2> QED BY <1>0, <2>3, <2>6, <2>7, <2>8, <2>9 DEF Sound
  <1>4. CASE Whole(c)
    <2>1. r.pc = "answered" /\ r.pre = "done" /\ r.kind = "create" /\ r.ran
      BY <1>0, <1>4 DEF Whole, PreJoined, At, Control, CreatePcs
    <2>2. \/ q = [To(r, "post") EXCEPT !.post = {"result", "tracked"}]
          \/ q = [To(r, "post") EXCEPT !.post = {"result"}, !.lost = TRUE]
      BY <1>4 DEF Whole, Becomes, Ops
    <2>3. To(r, "post") \in OpType /\ Kept(r, To(r, "post")) /\ To(r, "post").trail = r.trail
          /\ To(r, "post").pc = "post" /\ To(r, "post").lost = r.lost
      BY Moving DEF Pcs, CreatePcs
    <2>4. /\ q \in OpType /\ q.pc = "post" /\ q.kind = r.kind /\ q.gate = r.gate
          /\ q.model = r.model /\ q.pre = r.pre /\ q.how = r.how /\ q.reconciled = r.reconciled
          /\ q.ran = r.ran /\ q.cut = r.cut /\ q.trail = r.trail
      <3> PICK p \in OpType : p = To(r, "post")
        BY <2>3
      <3>1. CASE q = [p EXCEPT !.post = {"result", "tracked"}]
        BY <2>3, <3>1 DEF OpType, Kept
      <3>2. CASE q = [p EXCEPT !.post = {"result"}, !.lost = TRUE]
        <4>1. PICK d \in SUBSET {"result", "tracked"} : d = {"result"}
          OBVIOUS
        <4>2. q \in OpType
          BY <3>2, <4>1 DEF OpType
        <4>3. /\ q.pc = p.pc /\ q.kind = p.kind /\ q.gate = p.gate
              /\ q.model = p.model /\ q.pre = p.pre /\ q.how = p.how
              /\ q.reconciled = p.reconciled
              /\ q.ran = p.ran /\ q.cut = p.cut /\ q.trail = p.trail
          BY <3>2 DEF OpType
        <4> QED BY <2>3, <4>2, <4>3 DEF Kept
      <3> QED BY <2>2, <3>1, <3>2
    <2>5. \/ q.post = {"result", "tracked"} /\ q.lost = r.lost
          \/ q.post = {"result"} /\ q.lost
      BY <2>2, <2>3 DEF OpType, Kept
    <2>6. Control(q)
      BY <1>0, <2>1, <2>4, <2>5 DEF Control, ToolPcs, CreatePcs
    <2>7. GateSound(q, s) /\ Onward(r, q)
      BY <1>0, <2>1, <2>4, <2>5, GateKept DEF Ended
    <2>8. Once(q)
      BY <1>0, <2>1, <2>4, <2>5, OnceKept DEF May, ToolPcs
    <2>9. Exact(q)
      <3>1. Trails(r) = {<<"call">>}
        BY <2>1 DEF Trails, Ended, ToolPcs
      <3>2. q.post = {"result", "tracked"} => Trails(q) = {<<"call">>}
        BY <2>1, <2>4 DEF Trails, Ended, ToolPcs
      <3> QED BY <1>0, <2>4, <2>5, <3>1, <3>2, ExactKept
    <2> QED BY <1>0, <2>4, <2>6, <2>7, <2>8, <2>9 DEF Sound
  <1>5. CASE PostStep(c)
    <2>1. r.pc = "post" /\ r.kind = "create" /\ r.ran /\ ~r.reconciled /\ r.post # {}
          /\ r.post \in SUBSET {"result", "tracked"}
      BY <1>0, <1>5 DEF PostStep, At, Control, CreatePcs, OpType
    <2>2. PICK e \in r.post : \E w \in Outcomes(r, e) :
             q = [w EXCEPT !.post = @ \ {e}, !.pc = IF r.post = {e} THEN "returned" ELSE @]
      BY <1>5 DEF PostStep, Becomes, Ops
    <2>3. PICK v \in Outcomes(r, e) :
             q = [v EXCEPT !.post = @ \ {e}, !.pc = IF r.post = {e} THEN "returned" ELSE @]
      BY <2>2
    <2>4. e \in {"result", "tracked"} /\ e \in Events
      BY <2>1 DEF Events
    <2>5. v \in OpType /\ Kept(r, v) /\ v.pc = r.pc /\ Observed(r, v, e)
      BY <2>4, Observing
    <2>6. v.post \ {e} \in SUBSET {"result", "tracked"} /\ "returned" \in Pcs
      BY <2>5 DEF OpType, Pcs, Ended
    <2>7. /\ q \in OpType /\ q.pc = (IF r.post = {e} THEN "returned" ELSE v.pc)
          /\ q.kind = v.kind /\ q.gate = v.gate /\ q.post = v.post \ {e}
          /\ q.model = v.model /\ q.pre = v.pre /\ q.how = v.how /\ q.reconciled = v.reconciled
          /\ q.ran = v.ran /\ q.cut = v.cut /\ q.trail = v.trail /\ q.lost = v.lost
      BY <2>3, <2>5, <2>6 DEF OpType
    <2>8. /\ Observed(r, q, e) /\ q.pc = (IF r.post = {e} THEN "returned" ELSE "post")
          /\ q.kind = r.kind /\ q.gate = r.gate /\ q.post = r.post \ {e}
          /\ q.model = r.model /\ q.pre = r.pre /\ q.how = r.how /\ q.reconciled = r.reconciled
          /\ q.ran = r.ran /\ q.cut = r.cut
      BY <2>1, <2>5, <2>7 DEF Kept, Observed
    <2>9. Control(q)
      <3>1. q.pc = "post" => q.post # {}
        BY <2>2, <2>8
      <3> QED BY <1>0, <2>1, <2>8, <3>1 DEF Control, ToolPcs, CreatePcs
    <2>10. GateSound(q, s) /\ Onward(r, q)
      BY <1>0, <2>1, <2>7, <2>8, GateKept DEF Ended, Observed
    <2>11. Once(q)
      <3>1. May(r) = {"call", "result", "tracked"} \ r.post
        BY <2>1 DEF May, ToolPcs
      <3>2. q.pc = "returned" => May(q) = Events \ {"error"}
        BY DEF May
      <3>3. q.pc = "post" => May(q) = {"call", "result", "tracked"} \ q.post
        BY <2>8 DEF May, ToolPcs
      <3>4. May(r) \subseteq May(q) /\ e \in May(q) /\ e \notin May(r) /\ e # "delta"
        BY <2>2, <2>4, <2>8, <3>1, <3>2, <3>3 DEF Events
      <3> QED BY <1>0, <2>4, <2>7, <2>8, <3>4, OnceNoted
    <2>12. Exact(q)
      <3>1. CASE r.post = {"result", "tracked"}
        <4>1. Trails(r) = {<<"call">>}
          BY <2>1, <3>1 DEF Trails, Ended, ToolPcs
        <4>2. CASE e = "result"
          <5>1. q.post = {"tracked"} /\ q.pc = "post"
            BY <2>8, <3>1, <4>2
          <5>2. Trails(q) = {<<"call", "result">>}
            BY <5>1 DEF Trails, Ended, ToolPcs
          <5>3. \A x \in Trails(r) : Append(x, e) \in Trails(q)
            BY <4>1, <4>2, <5>2, Notes
          <5> QED BY <1>0, <2>4, <2>7, <2>8, <5>3, ExactNoted
        <4>3. CASE e = "tracked"
          <5>1. q.post = {"result"} /\ q.pc = "post"
            BY <2>8, <3>1, <4>3
          <5>2. Trails(q) = {<<"call", "tracked">>}
            BY <5>1 DEF Trails, Ended, ToolPcs
          <5>3. \A x \in Trails(r) : Append(x, e) \in Trails(q)
            BY <4>1, <4>3, <5>2, Notes
          <5> QED BY <1>0, <2>4, <2>7, <2>8, <5>3, ExactNoted
        <4> QED BY <2>4, <4>2, <4>3
      <3>2. CASE r.post = {e}
        <4>1. q.pc = "returned"
          BY <2>8, <3>2
        <4>2. Trails(q) = {<<"call", "result", "tracked">>, <<"call", "tracked", "result">>}
          BY <2>1, <2>8, <4>1 DEF Trails, Script
        <4>3. CASE e = "result"
          <5>1. Trails(r) = {<<"call", "tracked">>}
            BY <2>1, <3>2, <4>3 DEF Trails, Ended, ToolPcs
          <5>2. \A x \in Trails(r) : Append(x, e) \in Trails(q)
            BY <4>2, <4>3, <5>1, Notes
          <5> QED BY <1>0, <2>4, <2>7, <2>8, <5>2, ExactNoted
        <4>4. CASE e = "tracked"
          <5>1. Trails(r) = {<<"call", "result">>}
            BY <2>1, <3>2, <4>4 DEF Trails, Ended, ToolPcs
          <5>2. \A x \in Trails(r) : Append(x, e) \in Trails(q)
            BY <4>2, <4>4, <5>1, Notes
          <5> QED BY <1>0, <2>4, <2>7, <2>8, <5>2, ExactNoted
        <4> QED BY <2>4, <4>3, <4>4
      <3> QED BY <2>1, <2>2, <3>1, <3>2
    <2> QED BY <1>0, <2>7, <2>9, <2>10, <2>11, <2>12 DEF Sound
  <1>6. CASE Streamed(c)
    <2>1. r.pc = "answered" /\ r.pre = "done" /\ r.kind = "create" /\ r.ran
      BY <1>0, <1>6 DEF Streamed, PreJoined, At, Control, CreatePcs
    <2>2. Trails(r) = {<<"call">>}
      BY <2>1 DEF Trails, Ended, ToolPcs
    <2>3. CASE q = To(r, "announce")
      <3>1. /\ q \in OpType /\ Kept(r, q) /\ q.pc = "announce"
            /\ q.trail = r.trail /\ q.lost = r.lost
        BY <2>3, Moving DEF Pcs, CreatePcs
      <3>2. Control(q)
        BY <1>0, <2>1, <3>1 DEF Control, Kept, ToolPcs, CreatePcs
      <3>3. GateSound(q, s) /\ Onward(r, q)
        BY <1>0, <2>1, <3>1, GateKept DEF Ended, Kept
      <3>4. Once(q)
        BY <1>0, <2>1, <3>1, OnceKept DEF May, Kept, ToolPcs
      <3>5. Trails(q) = Ups
        BY <3>1 DEF Trails, Ended, ToolPcs
      <3>6. Exact(q)
        BY <1>0, <2>2, <3>1, <3>5, ExactKept DEF Kept, Ups
      <3> QED BY <1>0, <3>1, <3>2, <3>3, <3>4, <3>6 DEF Sound
    <2>4. CASE \E w \in Outcomes(r, "tracked") : q = To(w, "announce")
      <3>1. PICK v \in Outcomes(r, "tracked") : q = To(v, "announce")
        BY <2>4
      <3>2. v \in OpType /\ Kept(r, v) /\ Observed(r, v, "tracked")
        BY Observing DEF Events
      <3>3. /\ q \in OpType /\ q.pc = "announce" /\ Kept(v, q) /\ q.trail = v.trail
            /\ q.lost = v.lost
        BY <3>1, <3>2, Moving DEF Pcs, CreatePcs
      <3>4. Kept(r, q) /\ Observed(r, q, "tracked")
        BY <3>2, <3>3 DEF Kept, Observed
      <3>5. Control(q)
        BY <1>0, <2>1, <3>3, <3>4 DEF Control, Kept, ToolPcs, CreatePcs
      <3>6. GateSound(q, s) /\ Onward(r, q)
        BY <1>0, <2>1, <3>3, <3>4, GateKept DEF Ended, Kept, Observed
      <3>7. Once(q)
        BY <1>0, <2>1, <3>3, <3>4, OnceNoted DEF May, Kept, ToolPcs, Events
      <3>8. Exact(q)
        <4>1. Trails(q) = Ups
          BY <3>3 DEF Trails, Ended, ToolPcs
        <4>2. \A x \in Trails(r) : Append(x, "tracked") \in Trails(q)
          BY <2>2, <4>1, Notes DEF Ups
        <4> QED BY <1>0, <3>3, <3>4, <4>2, ExactNoted DEF Events, Kept
      <3> QED BY <1>0, <3>3, <3>5, <3>6, <3>7, <3>8 DEF Sound
    <2>5. q = To(r, "announce") \/ \E w \in Outcomes(r, "tracked") : q = To(w, "announce")
      BY <1>6 DEF Streamed, Becomes, Ops
    <2> QED BY <2>3, <2>4, <2>5
  <1>7. CASE Announce(c)
    <2>1. PICK v \in Outcomes(r, "result") : q = To(v, "stream")
      BY <1>7 DEF Announce, Becomes, Ops
    <2>2. v \in OpType /\ Kept(r, v) /\ Observed(r, v, "result")
      BY Observing DEF Events
    <2>3. /\ q \in OpType /\ q.pc = "stream" /\ Kept(v, q) /\ q.trail = v.trail /\ q.lost = v.lost
      BY <2>1, <2>2, Moving DEF Pcs, CreatePcs
    <2>4. r.pc = "announce" /\ r.kind = "create" /\ r.ran
      BY <1>0, <1>7 DEF Announce, At, Control, CreatePcs
    <2>5. Kept(r, q) /\ Observed(r, q, "result")
      BY <2>2, <2>3 DEF Kept, Observed
    <2>6. Control(q)
      BY <1>0, <2>3, <2>4, <2>5 DEF Control, Kept, ToolPcs, CreatePcs
    <2>7. GateSound(q, s) /\ Onward(r, q)
      BY <1>0, <2>3, <2>4, <2>5, GateKept DEF Ended, Kept, Observed
    <2>8. Once(q)
      BY <1>0, <2>3, <2>4, <2>5, OnceNoted DEF May, Kept, ToolPcs, Events
    <2>9. Exact(q)
      <3>1. Trails(r) = Ups
        BY <2>4 DEF Trails, Ended, ToolPcs
      <3>2. Trails(q) = Results
        BY <2>3 DEF Trails, Ended, ToolPcs
      <3>3. \A x \in Trails(r) : Append(x, "result") \in Trails(q)
        BY <3>1, <3>2, Notes DEF Ups, Results
      <3> QED BY <1>0, <2>3, <2>5, <3>3, ExactNoted DEF Events, Kept
    <2> QED BY <1>0, <2>3, <2>6, <2>7, <2>8, <2>9 DEF Sound
  <1> QED BY <1>1, <1>2, <1>3, <1>4, <1>5, <1>6, <1>7

(* The proxy of a streamed answer, from the first chunk to the report.     *)
LEMMA StreamStep ==
    ASSUME NEW c \in Ops, Typed, Sound(op[c], seen[c]),
           \/ \E how \in {"held", "with", "temporary"} : Iterate(c, how)
           \/ Finalize(c) \/ StreamStops(c) \/ ContextExit(c) \/ Reconcile(c) \/ Report(c)
    PROVE  op'[c] \in OpType /\ Sound(op'[c], seen'[c]) /\ Onward(op[c], op'[c])
  <1> PICK r \in OpType : r = op[c]
    BY DEF Typed
  <1> PICK q : q = op'[c]
    OBVIOUS
  <1> PICK s : s = seen[c]
    OBVIOUS
  <1>0. /\ seen'[c] = s /\ r.kind \in Kinds
        /\ Control(r) /\ GateSound(r, s) /\ Once(r) /\ Exact(r)
    BY DEF Iterate, Finalize, StreamStops, ContextExit, Reconcile, Report, shared, Sound, OpType
  <1>1. CASE \E how \in {"held", "with", "temporary"} : Iterate(c, how)
    <2>1. PICK how \in {"held", "with", "temporary"} :
             r.pc = "stream" /\ q = [To(r, "iterating") EXCEPT !.how = how]
      BY <1>1 DEF Iterate, Becomes, Ops, At
    <2>2. /\ q \in OpType /\ q.pc = "iterating" /\ q.how = how
          /\ q.kind = r.kind /\ q.gate = r.gate /\ q.model = r.model /\ q.pre = r.pre
          /\ q.post = r.post /\ q.reconciled = r.reconciled /\ q.ran = r.ran /\ q.cut = r.cut
          /\ q.trail = r.trail /\ q.lost = r.lost
      BY <2>1 DEF To, OpType, Pcs, CreatePcs
    <2>3. Control(q)
      BY <1>0, <2>1, <2>2 DEF Control, ToolPcs, CreatePcs
    <2>4. GateSound(q, s) /\ Onward(r, q)
      <3>1. r.pc \notin {"idle", "route", "gate"} \cup Ended
        BY <2>1 DEF Ended
      <3>2. q.pc \notin {"idle", "route", "gate", "insert"}
        BY <2>2
      <3> QED BY <1>0, <2>2, <3>1, <3>2, GateKept
    <2>5. Once(q)
      BY <1>0, <2>1, <2>2, OnceKept DEF May, ToolPcs
    <2>6. Exact(q)
      BY <1>0, <2>1, <2>2, ExactKept DEF Trails, ToolPcs, Ended
    <2> QED BY <1>0, <2>2, <2>3, <2>4, <2>5, <2>6 DEF Sound
  <1>2. CASE Finalize(c)
    <2>1. /\ r.pc = "stream" \/ (r.pc = "iterating" /\ r.how = "temporary")
          /\ ~r.reconciled
          /\ q = [r EXCEPT !.reconciled = TRUE, !.pc = IF @ = "stream" THEN "returned" ELSE @]
      BY <1>2 DEF Finalize, Becomes, Ops, At
    <2>2. /\ q \in OpType /\ q.pc = (IF r.pc = "stream" THEN "returned" ELSE r.pc)
          /\ q.reconciled /\ q.how = r.how
          /\ q.kind = r.kind /\ q.gate = r.gate /\ q.model = r.model /\ q.pre = r.pre
          /\ q.post = r.post /\ q.ran = r.ran /\ q.cut = r.cut
          /\ q.trail = r.trail /\ q.lost = r.lost
      BY <2>1 DEF OpType, Pcs, Ended
    <2>3. Control(q)
      BY <1>0, <2>1, <2>2 DEF Control, ToolPcs, CreatePcs
    <2>4. GateSound(q, s) /\ Onward(r, q)
      BY <1>0, <2>1, <2>2, GateKept DEF Ended
    <2>5. Once(q)
      BY <1>0, <2>1, <2>2, OnceKept DEF May, ToolPcs, Events
    <2>6. r.kind = "create" /\ r.ran
      BY <1>0, <2>1 DEF Control, CreatePcs
    <2>7. Exact(q)
      <3>1. Trails(r) = Results
        BY <2>1 DEF Trails, Ended, ToolPcs
      <3>2. CASE r.pc = "stream"
        <4>1. q.pc = "returned" /\ q.ran /\ q.kind = "create" /\ q.reconciled /\ q.how = "none"
          BY <1>0, <2>2, <2>6, <3>2 DEF Control
        <4>2. Trails(q) = Streams
          BY <4>1 DEF Trails, Script, Streams, Ups
        <4> QED BY <1>0, <2>2, <3>1, <4>2, Scripts, ExactKept
      <3>3. CASE r.pc # "stream"
        <4>1. Trails(q) = Results
          BY <2>1, <2>2, <3>3 DEF Trails, Ended, ToolPcs
        <4> QED BY <1>0, <2>2, <3>1, <4>1, ExactKept
      <3> QED BY <3>2, <3>3
    <2> QED BY <1>0, <2>2, <2>3, <2>4, <2>5, <2>7 DEF Sound
  <1>3. CASE StreamStops(c)
    <2>0. /\ r.pc = "iterating" /\ r.kind = "create" /\ r.ran /\ r.how # "none"
          /\ r.reconciled => r.how = "temporary"
          /\ q = RunReconcile(r)
      BY <1>0, <1>3 DEF StreamStops, Becomes, Ops, At, Control, CreatePcs
    <2>1. CASE r.reconciled
      <3>1. q = To(r, "returned")
        BY <2>0, <2>1 DEF RunReconcile, AfterReconcile
      <3>2. /\ q \in OpType /\ Kept(r, q) /\ q.pc = "returned"
            /\ q.trail = r.trail /\ q.lost = r.lost
        BY <3>1, Moving DEF Pcs, Ended
      <3>3. Control(q)
        BY <1>0, <2>0, <3>2 DEF Control, Kept, ToolPcs, CreatePcs
      <3>4. GateSound(q, s) /\ Onward(r, q)
        BY <1>0, <2>0, <3>2, GateKept DEF Ended, Kept
      <3>5. Once(q)
        BY <1>0, <2>0, <3>2, OnceKept DEF May, Kept, ToolPcs, Events
      <3>6. Exact(q)
        <4>1. Trails(r) = Results
          BY <2>0 DEF Trails, Ended, ToolPcs
        <4>2. Trails(q) = Streams
          BY <2>0, <2>1, <3>2 DEF Trails, Script, Streams, Ups, Kept
        <4> QED BY <1>0, <3>2, <4>1, <4>2, Scripts, ExactKept DEF Kept
      <3> QED BY <1>0, <3>2, <3>3, <3>4, <3>5, <3>6 DEF Sound
    <2>2. CASE ~r.reconciled
      <3>1. q = [r EXCEPT !.reconciled = TRUE, !.pc = "reconcile"]
        BY <2>0, <2>2 DEF RunReconcile
      <3>2. /\ q \in OpType /\ q.pc = "reconcile"
            /\ q.reconciled /\ q.how = r.how
            /\ q.kind = r.kind /\ q.gate = r.gate /\ q.model = r.model /\ q.pre = r.pre
            /\ q.post = r.post /\ q.ran = r.ran /\ q.cut = r.cut
            /\ q.trail = r.trail /\ q.lost = r.lost
        BY <3>1 DEF OpType, Pcs, CreatePcs
      <3>3. Control(q)
        BY <1>0, <2>0, <3>2 DEF Control, ToolPcs, CreatePcs
      <3>4. GateSound(q, s) /\ Onward(r, q)
        BY <1>0, <2>0, <3>2, GateKept DEF Ended
      <3>5. Once(q)
        BY <1>0, <2>0, <3>2, OnceKept DEF May, ToolPcs
      <3>6. Exact(q)
        BY <1>0, <2>0, <3>2, ExactKept DEF Trails, Ended, ToolPcs
      <3> QED BY <1>0, <3>2, <3>3, <3>4, <3>5, <3>6 DEF Sound
    <2> QED BY <2>1, <2>2
  <1>4. CASE ContextExit(c)
    <2>0. /\ r.pc \in {"exiting", "stream"} /\ r.kind = "create" /\ r.ran
          /\ q = [RunReconcile(r) EXCEPT !.how = IF r.reconciled THEN @ ELSE "exited"]
      BY <1>0, <1>4 DEF ContextExit, Becomes, Ops, At, Control, CreatePcs
    <2>1. CASE r.pc = "exiting"
      <3>1. r.reconciled /\ r.how = "with"
        BY <1>0, <2>1 DEF Control
      <3>2. RunReconcile(r) = To(r, "returned")
        BY <2>1, <3>1 DEF RunReconcile, AfterReconcile
      <3>3. /\ q \in OpType /\ Kept(r, q) /\ q.pc = "returned"
            /\ q.trail = r.trail /\ q.lost = r.lost
        <4> PICK p \in OpType : p = To(r, "returned")
          BY Moving DEF Pcs, Ended
        <4>1. /\ Kept(r, p) /\ p.pc = "returned" /\ p.trail = r.trail /\ p.lost = r.lost
          BY Moving DEF Pcs, Ended
        <4>2. q = [p EXCEPT !.how = p.how]
          BY <2>0, <3>1, <3>2
        <4> QED BY <4>1, <4>2 DEF OpType, Kept
      <3>4. Control(q)
        BY <1>0, <2>0, <3>3 DEF Control, Kept, ToolPcs, CreatePcs
      <3>5. GateSound(q, s) /\ Onward(r, q)
        BY <1>0, <2>1, <3>3, GateKept DEF Ended, Kept
      <3>6. Once(q)
        BY <1>0, <2>1, <3>3, OnceKept DEF May, Kept
      <3>7. Exact(q)
        <4>1. Trails(r) = Settled
          BY <2>1 DEF Trails, Ended, ToolPcs
        <4>2. q.kind = "create" /\ q.ran /\ q.reconciled /\ q.how = "with"
          BY <2>0, <3>1, <3>3 DEF Kept
        <4>3. Trails(q) = HeldStreams
          BY <3>3, <4>2 DEF Trails, Script, HeldStreams, Ups
        <4> QED BY <1>0, <3>3, <4>1, <4>3, Scripts, ExactKept DEF Kept
      <3> QED BY <1>0, <3>3, <3>4, <3>5, <3>6, <3>7 DEF Sound
    <2>2. CASE r.pc = "stream"
      <3>1. ~r.reconciled
        BY <1>0, <2>2 DEF Control
      <3>2. q = [[r EXCEPT !.reconciled = TRUE, !.pc = "reconcile"] EXCEPT !.how = "exited"]
        BY <2>0, <3>1 DEF RunReconcile
      <3>3. /\ q \in OpType /\ q.pc = "reconcile"
            /\ q.reconciled /\ q.how = "exited"
            /\ q.kind = r.kind /\ q.gate = r.gate /\ q.model = r.model /\ q.pre = r.pre
            /\ q.post = r.post /\ q.ran = r.ran /\ q.cut = r.cut
            /\ q.trail = r.trail /\ q.lost = r.lost
        BY <3>2 DEF OpType, Pcs, CreatePcs
      <3>4. Control(q)
        BY <1>0, <2>0, <3>3 DEF Control, ToolPcs, CreatePcs
      <3>5. GateSound(q, s) /\ Onward(r, q)
        BY <1>0, <2>2, <3>3, GateKept DEF Ended
      <3>6. Once(q)
        BY <1>0, <2>2, <3>3, OnceKept DEF May, ToolPcs
      <3>7. Exact(q)
        BY <1>0, <2>2, <3>3, ExactKept DEF Trails, Ended, ToolPcs
      <3> QED BY <1>0, <3>3, <3>4, <3>5, <3>6, <3>7 DEF Sound
    <2> QED BY <2>0, <2>1, <2>2
  <1>5. CASE Reconcile(c)
    <2>0. r.pc = "reconcile" /\ r.kind = "create" /\ r.ran /\ r.reconciled /\ r.how # "none"
      BY <1>0, <1>5 DEF Reconcile, At, Control, CreatePcs
    <2>1. CASE \E v \in Outcomes(r, "delta") : q = To(v, "report")
      <3>1. PICK v \in Outcomes(r, "delta") : q = To(v, "report")
        BY <2>1
      <3>2. v \in OpType /\ Kept(r, v) /\ Observed(r, v, "delta")
        BY Observing DEF Events
      <3>3. /\ q \in OpType /\ q.pc = "report" /\ Kept(v, q) /\ q.trail = v.trail
            /\ q.lost = v.lost
        BY <3>1, <3>2, Moving DEF Pcs, CreatePcs
      <3>4. Kept(r, q) /\ Observed(r, q, "delta")
        BY <3>2, <3>3 DEF Kept, Observed
      <3>5. Control(q)
        BY <1>0, <2>0, <3>3, <3>4 DEF Control, Kept, ToolPcs, CreatePcs
      <3>6. GateSound(q, s) /\ Onward(r, q)
        BY <1>0, <2>0, <3>3, <3>4, GateKept DEF Ended, Kept, Observed
      <3>7. Once(q)
        BY <1>0, <2>0, <3>3, <3>4, OnceNoted DEF May, Kept, ToolPcs, Events
      <3>8. Exact(q)
        <4>1. Trails(r) = Results
          BY <2>0 DEF Trails, Ended, ToolPcs
        <4>2. Trails(q) = Deltas
          BY <3>3 DEF Trails, Ended, ToolPcs
        <4>3. \A x \in Trails(r) : Append(x, "delta") \in Trails(q)
          BY <4>1, <4>2, Notes DEF Results, Deltas
        <4> QED BY <1>0, <3>3, <3>4, <4>3, ExactNoted DEF Events, Kept
      <3> QED BY <1>0, <3>3, <3>5, <3>6, <3>7, <3>8 DEF Sound
    <2>2. CASE q = [r EXCEPT !.lost = TRUE, !.pc = AfterReconcile(r)]
      <3>1. AfterReconcile(r) = (IF r.how = "with" THEN "exiting" ELSE "returned")
        BY <2>0 DEF AfterReconcile
      <3>2. /\ q \in OpType /\ q.pc = (IF r.how = "with" THEN "exiting" ELSE "returned")
            /\ q.lost /\ q.trail = r.trail /\ Kept(r, q)
        BY <2>2, <3>1 DEF OpType, Pcs, CreatePcs, Ended, Kept
      <3>3. Control(q)
        BY <1>0, <2>0, <3>2 DEF Control, Kept, ToolPcs, CreatePcs
      <3>4. GateSound(q, s) /\ Onward(r, q)
        BY <1>0, <2>0, <3>2, GateKept DEF Ended, Kept
      <3>5. Once(q)
        BY <1>0, <2>0, <3>2, OnceKept DEF May, Kept, ToolPcs, Events
      <3>6. Exact(q)
        BY <3>2 DEF Exact
      <3> QED BY <1>0, <3>2, <3>3, <3>4, <3>5, <3>6 DEF Sound
    <2> QED BY <1>5, <2>1, <2>2 DEF Reconcile, Becomes, Ops
  <1>6. CASE Report(c)
    <2>0. r.pc = "report" /\ r.kind = "create" /\ r.ran /\ r.reconciled /\ r.how # "none"
      BY <1>0, <1>6 DEF Report, At, Control, CreatePcs
    <2>1. PICK v \in Outcomes(r, "reconciled") : q = To(v, AfterReconcile(v))
      BY <1>6 DEF Report, Becomes, Ops
    <2>2. v \in OpType /\ Kept(r, v) /\ v.pc = r.pc /\ Observed(r, v, "reconciled")
      BY Observing DEF Events
    <2>3. /\ AfterReconcile(v) = (IF r.how = "with" THEN "exiting" ELSE "returned")
          /\ AfterReconcile(v) \in Pcs
      BY <2>0, <2>2 DEF AfterReconcile, Kept, Pcs, CreatePcs, Ended
    <2>4. /\ q \in OpType /\ q.pc = (IF r.how = "with" THEN "exiting" ELSE "returned")
          /\ Kept(v, q) /\ q.trail = v.trail /\ q.lost = v.lost
      BY <2>1, <2>2, <2>3, Moving
    <2>5. Kept(r, q) /\ Observed(r, q, "reconciled")
      BY <2>2, <2>4 DEF Kept, Observed
    <2>6. Control(q)
      BY <1>0, <2>0, <2>4, <2>5 DEF Control, Kept, ToolPcs, CreatePcs
    <2>7. GateSound(q, s) /\ Onward(r, q)
      BY <1>0, <2>0, <2>4, <2>5, GateKept DEF Ended, Kept, Observed
    <2>8. Once(q)
      BY <1>0, <2>0, <2>4, <2>5, OnceNoted DEF May, Kept, ToolPcs, Events
    <2>9. Exact(q)
      <3>1. Trails(r) = Deltas
        BY <2>0 DEF Trails, Ended, ToolPcs
      <3>2. \A x \in Trails(r) : Append(x, "reconciled") \in Settled
        BY <3>1, Notes DEF Deltas, Settled
      <3>3. Settled \subseteq Trails(q)
        <4>1. CASE r.how = "with"
          BY <2>4, <4>1 DEF Trails, Ended, ToolPcs
        <4>2. CASE r.how = "temporary"
          <5>1. Trails(q) = Streams
            BY <2>0, <2>4, <2>5, <4>2 DEF Trails, Script, Streams, Ups, Kept
          <5> QED BY <5>1, Scripts
        <4>3. CASE r.how \notin {"with", "temporary"}
          <5>1. Trails(q) = HeldStreams
            BY <2>0, <2>4, <2>5, <4>3 DEF Trails, Script, HeldStreams, Ups, Kept
          <5> QED BY <5>1, Scripts
        <4> QED BY <4>1, <4>2, <4>3
      <3>4. \A x \in Trails(r) : Append(x, "reconciled") \in Trails(q)
        BY <3>2, <3>3
      <3> QED BY <1>0, <2>4, <2>5, <3>4, ExactNoted DEF Events, Kept
    <2> QED BY <1>0, <2>4, <2>6, <2>7, <2>8, <2>9 DEF Sound
  <1> QED BY <1>1, <1>2, <1>3, <1>4, <1>5, <1>6

(* agt, and a tool behind the loop detector.                               *)
LEMMA ToolStep ==
    ASSUME NEW c \in Ops, Typed, Sound(op[c], seen[c]),
           \/ PreCall(c) \/ AgtEnds(c) \/ LoopInsert(c) \/ LoopCount(c) \/ LoopDetect(c)
           \/ ToolCall(c) \/ ToolEnds(c)
    PROVE  op'[c] \in OpType /\ Sound(op'[c], seen'[c]) /\ Onward(op[c], op'[c])
  <1> PICK r \in OpType : r = op[c]
    BY DEF Typed
  <1> PICK q : q = op'[c]
    OBVIOUS
  <1> PICK s : s = seen[c]
    OBVIOUS
  <1>0. /\ seen'[c] = s /\ r.kind \in Kinds
        /\ Control(r) /\ GateSound(r, s) /\ Once(r) /\ Exact(r)
    BY DEF PreCall, AgtEnds, LoopInsert, LoopCount, LoopDetect, ToolCall, ToolEnds, shared,
           Sound, OpType
  <1>1. CASE PreCall(c) \/ ToolCall(c)
    <2>1. PICK v \in Outcomes(r, "call") : q = [To(v, "running") EXCEPT !.ran = TRUE]
      BY <1>1 DEF PreCall, ToolCall, Becomes, Ops
    <2>2. v \in OpType /\ Kept(r, v) /\ Observed(r, v, "call")
      BY Observing DEF Events
    <2>3. /\ r.pc \in {"precall", "precallTool"}
          /\ r.pc = "precall" => r.kind = "agt"
          /\ r.pc = "precallTool" => r.kind \in {"tool", "watch"}
      BY <1>0, <1>1 DEF PreCall, ToolCall, At, Control, ToolPcs
    <2>4. /\ q \in OpType /\ q.pc = "running" /\ q.ran /\ q.trail = v.trail /\ q.lost = v.lost
          /\ q.kind = v.kind /\ q.gate = v.gate /\ q.model = v.model /\ q.pre = v.pre
          /\ q.post = v.post /\ q.how = v.how /\ q.reconciled = v.reconciled /\ q.cut = v.cut
      BY <2>1, <2>2 DEF To, OpType, Pcs
    <2>5. /\ Observed(r, q, "call")
          /\ q.kind = r.kind /\ q.gate = r.gate /\ q.model = r.model /\ q.pre = r.pre
          /\ q.post = r.post /\ q.how = r.how /\ q.reconciled = r.reconciled /\ q.cut = r.cut
      BY <2>2, <2>4 DEF Kept, Observed
    <2>6. Control(q)
      BY <1>0, <2>3, <2>4, <2>5 DEF Control, ToolPcs, CreatePcs
    <2>7. GateSound(q, s) /\ Onward(r, q)
      BY <1>0, <2>3, <2>4, <2>5, GateKept DEF Ended, Observed
    <2>8. Once(q)
      BY <1>0, <2>3, <2>4, <2>5, OnceNoted DEF May, ToolPcs, Events
    <2>9. Exact(q)
      <3>1. CASE r.pc = "precall"
        <4>1. Trails(r) = {<<>>}
          BY <3>1 DEF Trails, Ended, ToolPcs
        <4>2. Trails(q) = {<<"call">>}
          BY <2>3, <2>4, <2>5, <3>1 DEF Trails, Ended, ToolPcs
        <4>3. \A x \in Trails(r) : Append(x, "call") \in Trails(q)
          BY <4>1, <4>2, Notes
        <4> QED BY <1>0, <2>4, <2>5, <4>3, ExactNoted DEF Events
      <3>2. CASE r.pc = "precallTool"
        <4>1. Trails(r) = {<<>>, <<"violation">>}
          BY <3>2 DEF Trails, Ended, ToolPcs
        <4>2. Trails(q) = {<<"call">>, <<"violation", "call">>}
          BY <2>3, <2>4, <2>5, <3>2 DEF Trails, Ended, ToolPcs
        <4>3. \A x \in Trails(r) : Append(x, "call") \in Trails(q)
          BY <4>1, <4>2, Notes
        <4> QED BY <1>0, <2>4, <2>5, <4>3, ExactNoted DEF Events
      <3> QED BY <2>3, <3>1, <3>2
    <2> QED BY <1>0, <2>4, <2>6, <2>7, <2>8, <2>9 DEF Sound
  <1>2. CASE AgtEnds(c)
    <2>0. r.pc = "running" /\ r.kind = "agt" /\ r.ran
      BY <1>0, <1>2 DEF AgtEnds, At, Control
    <2>1. Trails(r) = {<<"call">>}
      BY <2>0 DEF Trails, Ended, ToolPcs
    <2>2. CASE q = To(r, "returned")
      <3>1. /\ q \in OpType /\ Kept(r, q) /\ q.pc = "returned"
            /\ q.trail = r.trail /\ q.lost = r.lost
        BY <2>2, Moving DEF Pcs, Ended
      <3>2. Control(q)
        BY <1>0, <2>0, <3>1 DEF Control, Kept, ToolPcs, CreatePcs
      <3>3. GateSound(q, s) /\ Onward(r, q)
        BY <1>0, <2>0, <3>1, GateKept DEF Ended, Kept
      <3>4. Once(q)
        BY <1>0, <2>0, <3>1, OnceKept DEF May, Kept, ToolPcs, Events
      <3>5. Trails(q) = {<<"call">>}
        BY <2>0, <3>1 DEF Trails, Script, Kept
      <3>6. Exact(q)
        BY <1>0, <2>1, <3>1, <3>5, ExactKept DEF Kept
      <3> QED BY <1>0, <3>1, <3>2, <3>3, <3>4, <3>6 DEF Sound
    <2>3. CASE \E w \in Outcomes(r, "error") : q = To(w, "raised")
      <3>1. PICK v \in Outcomes(r, "error") : q = To(v, "raised")
        BY <2>3
      <3>2. v \in OpType /\ Kept(r, v) /\ Observed(r, v, "error")
        BY Observing DEF Events
      <3>3. /\ q \in OpType /\ q.pc = "raised" /\ Kept(v, q) /\ q.trail = v.trail
            /\ q.lost = v.lost
        BY <3>1, <3>2, Moving DEF Pcs, Ended
      <3>4. Kept(r, q) /\ Observed(r, q, "error")
        BY <3>2, <3>3 DEF Kept, Observed
      <3>5. Control(q)
        BY <1>0, <2>0, <3>3, <3>4 DEF Control, Kept, ToolPcs, CreatePcs
      <3>6. GateSound(q, s) /\ Onward(r, q)
        BY <1>0, <2>0, <3>3, <3>4, GateKept DEF Ended, Kept, Observed
      <3>7. Once(q)
        BY <1>0, <2>0, <3>3, <3>4, OnceNoted DEF May, Kept, ToolPcs, Events
      <3>8. Exact(q)
        <4>1. Trails(q) = {<<"call", "error">>}
          BY <2>0, <3>3, <3>4 DEF Trails, Script, Kept
        <4>2. \A x \in Trails(r) : Append(x, "error") \in Trails(q)
          BY <2>1, <4>1, Notes
        <4> QED BY <1>0, <3>3, <3>4, <4>2, ExactNoted DEF Events, Kept
      <3> QED BY <1>0, <3>3, <3>5, <3>6, <3>7, <3>8 DEF Sound
    <2> QED BY <1>2, <2>2, <2>3 DEF AgtEnds, Becomes, Ops
  <1>3. CASE LoopInsert(c) \/ LoopCount(c) \/ LoopDetect(c)
    <2>1. /\ r.pc \in {"insert", "count", "detect"} /\ r.kind \in {"tool", "watch"}
          /\ \/ \E pc \in {"count", "detect", "precallTool"} : q = To(r, pc)
             \/ q = [To(r, "precallTool") EXCEPT !.lost = TRUE]
      BY <1>0, <1>3
         DEF LoopInsert, LoopCount, LoopDetect, Becomes, Ops, At, Control, ToolPcs
    <2>2. /\ q \in OpType /\ Kept(r, q) /\ q.pc \in {"count", "detect", "precallTool"}
          /\ q.trail = r.trail /\ (r.lost => q.lost)
      <3>1. CASE \E pc \in {"count", "detect", "precallTool"} : q = To(r, pc)
        <4>1. PICK pc \in {"count", "detect", "precallTool"} : q = To(r, pc)
          BY <3>1
        <4>2. pc \in Pcs
          BY DEF Pcs, ToolPcs
        <4> QED BY <4>1, <4>2, Moving
      <3>2. CASE q = [To(r, "precallTool") EXCEPT !.lost = TRUE]
        BY <3>2 DEF To, OpType, Kept, Pcs, ToolPcs
      <3> QED BY <2>1, <3>1, <3>2
    <2>3. Control(q)
      BY <1>0, <2>1, <2>2 DEF Control, Kept, ToolPcs, CreatePcs
    <2>4. GateSound(q, s) /\ Onward(r, q)
      BY <1>0, <2>1, <2>2, GateKept DEF Ended, Kept
    <2>5. Once(q)
      BY <1>0, <2>1, <2>2, OnceKept DEF May, Kept, ToolPcs
    <2>6. Exact(q)
      BY <1>0, <2>1, <2>2, ExactKept DEF Trails, Kept, ToolPcs, Ended
    <2> QED BY <1>0, <2>2, <2>3, <2>4, <2>5, <2>6 DEF Sound
  <1>4. CASE ToolEnds(c)
    <2>0. r.pc = "running" /\ r.kind \in {"tool", "watch"} /\ r.ran
      BY <1>0, <1>4 DEF ToolEnds, At, Control
    <2>1. PICK e \in {"result", "error"} : \E w \in Outcomes(r, e) :
             q = To(w, IF e = "result" THEN "returned" ELSE "raised")
      BY <1>4 DEF ToolEnds, Becomes, Ops
    <2>2. PICK v \in Outcomes(r, e) : q = To(v, IF e = "result" THEN "returned" ELSE "raised")
      BY <2>1
    <2>3. e \in Events
      BY DEF Events
    <2>4. v \in OpType /\ Kept(r, v) /\ Observed(r, v, e)
      BY <2>3, Observing
    <2>5. /\ q \in OpType /\ q.pc = (IF e = "result" THEN "returned" ELSE "raised")
          /\ Kept(v, q) /\ q.trail = v.trail /\ q.lost = v.lost
      BY <2>2, <2>4, Moving DEF Pcs, Ended
    <2>6. Kept(r, q) /\ Observed(r, q, e)
      BY <2>4, <2>5 DEF Kept, Observed
    <2>7. Control(q)
      BY <1>0, <2>0, <2>5, <2>6 DEF Control, Kept, ToolPcs, CreatePcs
    <2>8. GateSound(q, s) /\ Onward(r, q)
      BY <1>0, <2>0, <2>5, <2>6, GateKept DEF Ended, Kept, Observed
    <2>9. Once(q)
      BY <1>0, <2>0, <2>3, <2>5, <2>6, OnceNoted DEF May, Kept, ToolPcs, Events
    <2>10. Exact(q)
      <3>1. Trails(r) = {<<"call">>, <<"violation", "call">>}
        BY <2>0 DEF Trails, Ended, ToolPcs
      <3>2. q.kind \in {"tool", "watch"} /\ q.ran
        BY <2>0, <2>6 DEF Kept
      <3>3. CASE e = "result"
        <4>1. q.pc = "returned"
          BY <2>5, <3>3
        <4>2. Trails(q) = {<<"call", "result">>, <<"violation", "call", "result">>}
          BY <3>2, <4>1 DEF Trails, Script
        <4>3. \A x \in Trails(r) : Append(x, e) \in Trails(q)
          BY <3>1, <3>3, <4>2, Notes
        <4> QED BY <1>0, <2>3, <2>5, <2>6, <4>3, ExactNoted DEF Kept
      <3>4. CASE e = "error"
        <4>1. q.pc = "raised"
          BY <2>5, <3>4
        <4>2. Trails(q) = {<<"call", "error">>, <<"violation", "call", "error">>}
          BY <3>2, <4>1 DEF Trails, Script
        <4>3. \A x \in Trails(r) : Append(x, e) \in Trails(q)
          BY <3>1, <3>4, <4>2, Notes
        <4> QED BY <1>0, <2>3, <2>5, <2>6, <4>3, ExactNoted DEF Kept
      <3> QED BY <3>3, <3>4
    <2> QED BY <1>0, <2>5, <2>7, <2>8, <2>9, <2>10 DEF Sound
  <1> QED BY <1>1, <1>2, <1>3, <1>4

(* The body of a contract, its check, and cancellation.                    *)
LEMMA BodyStep ==
    ASSUME NEW c \in Ops, Typed, Sound(op[c], seen[c]), BodyEnds(c) \/ PostCheck(c) \/ Cancel(c)
    PROVE  op'[c] \in OpType /\ Sound(op'[c], seen'[c]) /\ Onward(op[c], op'[c])
  <1> PICK r \in OpType : r = op[c]
    BY DEF Typed
  <1> PICK q : q = op'[c]
    OBVIOUS
  <1> PICK s : s = seen[c]
    OBVIOUS
  <1>0. /\ seen'[c] = s /\ r.kind \in Kinds
        /\ Control(r) /\ GateSound(r, s) /\ Once(r) /\ Exact(r)
    BY DEF BodyEnds, PostCheck, Cancel, shared, Sound, OpType
  <1>1. ASSUME r.kind = "contract", r.pc \in {"running", "postCheck"}, r.ran,
               \E pc \in {"postCheck", "raised", "returned"} : q = To(r, pc)
        PROVE  q \in OpType /\ Sound(q, s) /\ Onward(r, q)
    <2>1. /\ q \in OpType /\ Kept(r, q) /\ q.pc \in {"postCheck", "raised", "returned"}
          /\ q.trail = r.trail /\ q.lost = r.lost
      BY <1>1, Moving DEF Pcs, Ended
    <2>2. Control(q)
      BY <1>0, <1>1, <2>1 DEF Control, Kept, ToolPcs, CreatePcs
    <2>3. GateSound(q, s) /\ Onward(r, q)
      BY <1>0, <1>1, <2>1, GateKept DEF Ended, Kept
    <2>4. r.pre = "none"
      BY <1>0, <1>1 DEF Control
    <2>5. Once(q)
      BY <1>0, <1>1, <2>1, <2>4, OnceKept DEF May, Kept, ToolPcs
    <2>6. Exact(q)
      <3>1. Trails(r) = {<<>>}
        BY <1>1, <2>4 DEF Trails, Ended, ToolPcs
      <3>2. <<>> \in Trails(q)
        BY <1>1, <2>1 DEF Trails, Script, Kept, Ended, ToolPcs
      <3> QED BY <1>0, <2>1, <3>1, <3>2, ExactKept DEF Kept
    <2> QED BY <2>1, <2>2, <2>3, <2>5, <2>6 DEF Sound
  <1>2. CASE BodyEnds(c)
    <2>1. /\ r.kind = "contract" /\ r.pc = "running" /\ r.ran
          /\ \E pc \in {"postCheck", "raised", "returned"} : q = To(r, pc)
      BY <1>0, <1>2 DEF BodyEnds, Becomes, Ops, At, Control
    <2> QED BY <1>0, <1>1, <2>1
  <1>3. CASE PostCheck(c)
    <2>0. r.kind = "contract" /\ r.pc = "postCheck" /\ r.ran
      BY <1>0, <1>3 DEF PostCheck, At, Control
    <2>1. CASE q = To(r, "returned")
      BY <1>0, <1>1, <2>0, <2>1
    <2>2. CASE \E w \in Outcomes(r, "violation") : q = To(w, "raised")
      <3>1. PICK v \in Outcomes(r, "violation") : q = To(v, "raised")
        BY <2>2
      <3>2. v \in OpType /\ Kept(r, v) /\ Observed(r, v, "violation")
        BY Observing DEF Events
      <3>3. /\ q \in OpType /\ q.pc = "raised" /\ Kept(v, q) /\ q.trail = v.trail
            /\ q.lost = v.lost
        BY <3>1, <3>2, Moving DEF Pcs, Ended
      <3>4. Kept(r, q) /\ Observed(r, q, "violation")
        BY <3>2, <3>3 DEF Kept, Observed
      <3>5. Control(q)
        BY <1>0, <2>0, <3>3, <3>4 DEF Control, Kept, ToolPcs, CreatePcs
      <3>6. GateSound(q, s) /\ Onward(r, q)
        BY <1>0, <2>0, <3>3, <3>4, GateKept DEF Ended, Kept, Observed
      <3>7. Once(q)
        BY <1>0, <2>0, <3>3, <3>4, OnceNoted DEF May, Kept, ToolPcs, Events
      <3>8. Exact(q)
        <4>1. Trails(r) = {<<>>}
          BY <2>0 DEF Trails, Ended, ToolPcs
        <4>2. Trails(q) = {<<>>, <<"violation">>}
          BY <2>0, <3>3, <3>4 DEF Trails, Script, Kept
        <4>3. \A x \in Trails(r) : Append(x, "violation") \in Trails(q)
          BY <4>1, <4>2, Notes
        <4> QED BY <1>0, <3>3, <3>4, <4>3, ExactNoted DEF Events, Kept
      <3> QED BY <1>0, <3>3, <3>5, <3>6, <3>7, <3>8 DEF Sound
    <2> QED BY <1>3, <2>1, <2>2 DEF PostCheck, Becomes, Ops
  <1>4. CASE Cancel(c)
    <2>0. r.pc \notin Ended \cup {"idle", "iterating", "stream", "exiting"}
      BY <1>4 DEF Cancel
    <2>1. CASE r.kind = "create" /\ r.pc = "running"
      <3>1. q = To(r, "failing")
        BY <1>4, <2>1 DEF Cancel, Becomes, Ops, At
      <3>2. /\ q \in OpType /\ Kept(r, q) /\ q.pc = "failing"
            /\ q.trail = r.trail /\ q.lost = r.lost
        BY <3>1, Moving DEF Pcs, CreatePcs
      <3>3. Control(q)
        BY <1>0, <2>1, <3>2 DEF Control, Kept, ToolPcs, CreatePcs
      <3>4. GateSound(q, s) /\ Onward(r, q)
        BY <1>0, <2>1, <3>2, GateKept DEF Ended, Kept
      <3>5. Once(q)
        BY <1>0, <2>1, <3>2, OnceKept DEF May, Kept, ToolPcs
      <3>6. Exact(q)
        BY <1>0, <2>1, <3>2, ExactKept DEF Trails, Kept, ToolPcs, Ended
      <3> QED BY <1>0, <3>2, <3>3, <3>4, <3>5, <3>6 DEF Sound
    <2>2. CASE ~(r.kind = "create" /\ r.pc = "running")
      <3>1. q = [r EXCEPT !.cut = TRUE, !.pre = IF @ = "pending" THEN "done" ELSE @,
                          !.pc = IF @ \in {"reconcile", "report"} /\ r.how = "with"
                                 THEN "exiting" ELSE "cut"]
        BY <1>4, <2>2 DEF Cancel, Becomes, Ops, At
      <3>2. /\ q \in OpType /\ q.cut /\ q.pre = (IF r.pre = "pending" THEN "done" ELSE r.pre)
            /\ q.pc = (IF r.pc \in {"reconcile", "report"} /\ r.how = "with"
                       THEN "exiting" ELSE "cut")
            /\ q.kind = r.kind /\ q.gate = r.gate /\ q.model = r.model /\ q.post = r.post
            /\ q.how = r.how /\ q.reconciled = r.reconciled /\ q.ran = r.ran
            /\ q.trail = r.trail /\ q.lost = r.lost
        BY <3>1 DEF OpType, Pcs, CreatePcs, Ended
      <3>3. Control(q)
        BY <1>0, <2>0, <3>2 DEF Control, ToolPcs, CreatePcs, Ended
      <3>4. GateSound(q, s) /\ Onward(r, q)
        <4>1. CASE r.pc \in {"route", "gate"}
          <5>1. q.pc = "cut" /\ ~q.ran
            BY <1>0, <3>2, <4>1 DEF Control
          <5> QED BY <1>0, <3>2, <4>1, <5>1, GateEnded DEF Ended
        <4>2. CASE r.pc \notin {"route", "gate"}
          BY <1>0, <2>0, <3>2, <4>2, GateKept DEF Ended
        <4> QED BY <4>1, <4>2
      <3>5. Once(q)
        <4>1. May(r) \subseteq Events \ {"error"}
          BY <2>0 DEF May, Ended, Events
        <4>2. May(q) = Events \ {"error"}
          BY <3>2 DEF May
        <4> QED BY <1>0, <3>2, <4>1, <4>2, OnceKept
      <3>6. Exact(q)
        BY <3>2 DEF Exact
      <3> QED BY <1>0, <3>2, <3>3, <3>4, <3>5, <3>6 DEF Sound
    <2> QED BY <2>1, <2>2
  <1> QED BY <1>2, <1>3, <1>4

-----------------------------------------------------------------------------
(* A step of an operation, whichever it is.                                *)
LEMMA OpStep ==
    ASSUME NEW c \in Ops, Typed, OpenSeen, AllSound, Step(c)
    PROVE  op'[c] \in OpType /\ Sound(op'[c], seen'[c]) /\ Onward(op[c], op'[c])
  <1>0. Sound(op[c], seen[c])
    BY DEF AllSound
  <1>1. CASE Begin(c) \/ Route(c)
    BY <1>0, <1>1, RouteStep
  <1>2. CASE GateOpens(c) \/ GateRefuses(c)
    BY <1>0, <1>2, GateStep
  <1>3. CASE \/ PreLog(c) \/ Answers(c) \/ LogError(c) \/ Whole(c) \/ PostStep(c)
             \/ Streamed(c) \/ Announce(c)
    BY <1>0, <1>3, CallStep
  <1>4. CASE \/ \E how \in {"held", "with", "temporary"} : Iterate(c, how)
             \/ Finalize(c) \/ StreamStops(c) \/ ContextExit(c) \/ Reconcile(c) \/ Report(c)
    BY <1>0, <1>4, StreamStep
  <1>5. CASE \/ PreCall(c) \/ AgtEnds(c) \/ LoopInsert(c) \/ LoopCount(c) \/ LoopDetect(c)
             \/ ToolCall(c) \/ ToolEnds(c)
    BY <1>0, <1>5, ToolStep
  <1>6. CASE BodyEnds(c) \/ PostCheck(c) \/ Cancel(c)
    BY <1>0, <1>6, BodyStep
  <1> QED BY <1>1, <1>2, <1>3, <1>4, <1>5, <1>6 DEF Step

(* What a step of one operation leaves alone.                              *)
LEMMA Frame ==
    ASSUME NEW c \in Ops, Typed, Step(c)
    PROVE  /\ \E x : Becomes(c, x)
           /\ UNCHANGED <<env, changes>>
           /\ detected' \in BOOLEAN /\ logged' \in BOOLEAN /\ (detected => detected')
           /\ Begin(c) \/ UNCHANGED seen
           /\ LoopInsert(c) \/ UNCHANGED loopRows
  <1>0. detected \in BOOLEAN /\ logged \in BOOLEAN
    BY DEF Typed
  <1>1. CASE Begin(c) \/ Route(c) \/ GateOpens(c)
    BY <1>0, <1>1 DEF Begin, Route, GateOpens, shared
  <1>2. CASE GateRefuses(c)
    <2>1. \E x : Becomes(c, x)
      BY <1>2 DEF GateRefuses
    <2>2. logged' \in BOOLEAN
      BY <1>0, <1>2 DEF GateRefuses, ViolationNames
    <2> QED BY <1>0, <1>2, <2>1, <2>2 DEF GateRefuses
  <1>3. CASE \/ PreLog(c) \/ Answers(c) \/ LogError(c) \/ Whole(c) \/ PostStep(c)
             \/ Streamed(c) \/ Announce(c)
    BY <1>0, <1>3 DEF PreLog, Answers, LogError, Whole, PostStep, Streamed, Announce, shared
  <1>4. CASE \/ \E how \in {"held", "with", "temporary"} : Iterate(c, how)
             \/ Finalize(c) \/ StreamStops(c) \/ ContextExit(c) \/ Reconcile(c) \/ Report(c)
    BY <1>0, <1>4 DEF Iterate, Finalize, StreamStops, ContextExit, Reconcile, Report, shared
  <1>5. CASE \/ PreCall(c) \/ AgtEnds(c) \/ LoopInsert(c) \/ LoopCount(c) \/ LoopDetect(c)
             \/ ToolCall(c) \/ ToolEnds(c)
    BY <1>0, <1>5 DEF PreCall, AgtEnds, LoopInsert, LoopCount, LoopDetect, ToolCall, ToolEnds,
                      shared
  <1>6. CASE BodyEnds(c) \/ PostCheck(c) \/ Cancel(c)
    BY <1>0, <1>6 DEF BodyEnds, PostCheck, Cancel, ViolationNames, shared
  <1> QED BY <1>1, <1>2, <1>3, <1>4, <1>5, <1>6 DEF Step

(* The other operations do not notice.                                     *)
LEMMA Others ==
    ASSUME NEW c \in Ops, Typed, Step(c)
    PROVE  Ops' = Ops /\ \A d \in Ops : d # c => op'[d] = op[d] /\ seen'[d] = seen[d]
  <1>1. PICK x : Becomes(c, x)
    BY Frame
  <1>2. Ops' = Ops /\ \A d \in Ops : d # c => op'[d] = op[d]
    BY <1>1 DEF Becomes, Ops
  <1>3. ASSUME NEW d \in Ops, d # c
        PROVE  seen'[d] = seen[d]
    BY <1>3, Frame DEF Begin, Typed
  <1> QED BY <1>2, <1>3

(* An operation that is idle can only begin.                               *)
LEMMA Waiting ==
    ASSUME NEW c \in Ops, Typed, AllSound, Step(c), op[c].pc = "idle"
    PROVE  Begin(c)
  <1>1. op[c].pre # "pending"
    BY DEF AllSound, Sound, Control
  <1>2. ~PreLog(c) /\ ~Finalize(c) /\ ~ContextExit(c) /\ ~Cancel(c)
    BY <1>1 DEF PreLog, Finalize, ContextExit, Cancel, At
  <1>3. ~Route(c) /\ ~GateOpens(c) /\ ~GateRefuses(c) /\ ~Answers(c) /\ ~LogError(c)
        /\ ~Whole(c) /\ ~PostStep(c) /\ ~Streamed(c) /\ ~Announce(c)
    BY DEF Route, GateOpens, GateRefuses, Answers, LogError, Whole, PostStep, Streamed,
           Announce, At
  <1>4. ~StreamStops(c) /\ ~Reconcile(c) /\ ~Report(c) /\ ~PreCall(c) /\ ~AgtEnds(c)
        /\ \A how \in {"held", "with", "temporary"} : ~Iterate(c, how)
    BY DEF StreamStops, Reconcile, Report, PreCall, AgtEnds, Iterate, At
  <1>5. ~LoopInsert(c) /\ ~LoopCount(c) /\ ~LoopDetect(c) /\ ~ToolCall(c) /\ ~ToolEnds(c)
        /\ ~BodyEnds(c) /\ ~PostCheck(c)
    BY DEF LoopInsert, LoopCount, LoopDetect, ToolCall, ToolEnds, BodyEnds, PostCheck, At
  <1> QED BY <1>2, <1>3, <1>4, <1>5 DEF Step

(* An operation at the detector's count or report can only take that step  *)
(* or be cancelled.                                                        *)
LEMMA Watching ==
    ASSUME NEW c \in Ops, Typed, AllSound, Step(c), op[c].pc \in {"count", "detect"}
    PROVE  LoopCount(c) \/ LoopDetect(c) \/ Cancel(c)
  <1>1. op[c].pre # "pending"
    BY DEF AllSound, Sound, Control
  <1>2. ~PreLog(c) /\ ~Finalize(c) /\ ~ContextExit(c) /\ ~Begin(c)
    BY <1>1 DEF PreLog, Finalize, ContextExit, Begin, At
  <1>3. ~Route(c) /\ ~GateOpens(c) /\ ~GateRefuses(c) /\ ~Answers(c) /\ ~LogError(c)
        /\ ~Whole(c) /\ ~PostStep(c) /\ ~Streamed(c) /\ ~Announce(c)
    BY DEF Route, GateOpens, GateRefuses, Answers, LogError, Whole, PostStep, Streamed,
           Announce, At
  <1>4. ~StreamStops(c) /\ ~Reconcile(c) /\ ~Report(c) /\ ~PreCall(c) /\ ~AgtEnds(c)
        /\ \A how \in {"held", "with", "temporary"} : ~Iterate(c, how)
    BY DEF StreamStops, Reconcile, Report, PreCall, AgtEnds, Iterate, At
  <1>5. ~LoopInsert(c) /\ ~ToolCall(c) /\ ~ToolEnds(c) /\ ~BodyEnds(c) /\ ~PostCheck(c)
    BY DEF LoopInsert, ToolCall, ToolEnds, BodyEnds, PostCheck, At
  <1> QED BY <1>2, <1>3, <1>4, <1>5 DEF Step

-----------------------------------------------------------------------------
(* The inductive invariant.                                                *)
Inv == Typed /\ OpenSeen /\ AllSound /\ RowsCounted /\ LoopWatched

(* It holds initially ...                                                  *)
LEMMA InitInv == Init => Inv
  <1> SUFFICES ASSUME Init
               PROVE  Inv
    OBVIOUS
  <1>1. PICK mix \in Mixes : op = [c \in DOMAIN mix |-> NewOp(mix[c])]
    BY DEF Init
  <1>2. mix \in Seq(Kinds) /\ Ops = 1..Len(mix) /\ Len(mix) \in Nat
    BY <1>1, CallAssumption DEF Ops
  <1>3. IsFiniteSet(Ops)
    BY <1>2, FS_Interval
  <1>4. ASSUME NEW c \in Ops
        PROVE  op[c] \in OpType /\ op[c].pc = "idle" /\ Sound(op[c], seen[c])
    <2>1. PICK k \in Kinds : op[c] = NewOp(k)
      BY <1>1, <1>2
    <2> PICK r : r = op[c]
      OBVIOUS
    <2>2. r \in OpType
      BY <2>1 DEF NewOp, OpType, Pcs, Models
    <2>3. /\ r.kind = k /\ r.pc = "idle" /\ r.gate = 1 /\ r.model = "asked" /\ r.pre = "none"
          /\ r.how = "none" /\ ~r.reconciled /\ ~r.ran /\ r.trail = <<>>
      BY <2>1 DEF NewOp
    <2>4. 1 \in 1..Len(GatesOf(k))
      BY GateLists DEF Kinds
    <2>5. Control(r)
      BY <2>3, <2>4 DEF Control, CreatePcs, ToolPcs
    <2>6. GateSound(r, seen[c]) /\ Once(r)
      BY <2>3 DEF GateSound, Cleared, Once
    <2>7. Exact(r)
      BY <2>3 DEF Exact, Trails, Ended, ToolPcs
    <2> QED BY <2>2, <2>3, <2>5, <2>6, <2>7 DEF Sound
  <1>5. Typed
    <2>1. op \in [Ops -> OpType]
      BY <1>1, <1>4 DEF Ops
    <2>2. changes \in 0..MaxChanges /\ loopRows \in Nat
      BY CallAssumption DEF Init
    <2>4. env \in Env /\ detected \in BOOLEAN /\ logged \in BOOLEAN
      BY DEF Init
    <2>3. seen = [c \in Ops |-> seen[c]]
      BY DEF Init, Ops
    <2> QED BY <1>3, <2>1, <2>2, <2>3, <2>4 DEF Typed
  <1>6. RowsCounted
    <2>1. IsFiniteSet(Inserted)
      BY <1>3, FS_Subset DEF Inserted
    <2>2. Cardinality(Inserted) \in Nat
      BY <2>1, FS_CardinalityType
    <2> QED BY <2>2 DEF RowsCounted, Init
  <1>7. LoopWatched
    BY CallAssumption DEF LoopWatched, Init
  <1> QED BY <1>4, <1>5, <1>6, <1>7 DEF Inv, OpenSeen, AllSound

(* ... every step of an operation keeps it ...                             *)
LEMMA StepInv ==
    ASSUME NEW c \in Ops, Inv, Step(c)
    PROVE  Inv'
  <1> USE DEF Inv
  <1>0. op'[c] \in OpType /\ Sound(op'[c], seen'[c]) /\ Onward(op[c], op'[c])
    BY OpStep
  <1>1. Ops' = Ops /\ \A d \in Ops : d # c => op'[d] = op[d] /\ seen'[d] = seen[d]
    BY Others
  <1>2. /\ \E x : Becomes(c, x)
        /\ UNCHANGED <<env, changes>>
        /\ detected' \in BOOLEAN /\ logged' \in BOOLEAN /\ (detected => detected')
        /\ Begin(c) \/ UNCHANGED seen
        /\ LoopInsert(c) \/ UNCHANGED loopRows
    BY Frame
  <1>3. Typed'
    <2>1. env' \in Env /\ changes' \in 0..MaxChanges
      BY <1>2 DEF Typed
    <2>2. loopRows' \in Nat
      BY <1>2 DEF Typed, LoopInsert
    <2>3. op' = [d \in Ops |-> op'[d]]
      BY <1>2 DEF Becomes, Ops
    <2>4. op' \in [Ops -> OpType]
      <3>1. \A d \in Ops : op'[d] \in OpType
        BY <1>0, <1>1 DEF Typed
      <3> QED BY <2>3, <3>1
    <2>5. seen' = [d \in Ops |-> seen'[d]]
      BY <1>2 DEF Typed, Begin
    <2> QED BY <1>1, <1>2, <2>1, <2>2, <2>4, <2>5 DEF Typed
  <1>4. OpenSeen'
    <2> SUFFICES ASSUME NEW d \in Ops, op'[d].pc # "idle"
                 PROVE  Open(env, op'[d].kind) \subseteq seen'[d]
      BY <1>1, <1>2 DEF OpenSeen
    <2>1. CASE d # c
      BY <1>1, <2>1 DEF OpenSeen
    <2>2. CASE d = c /\ Begin(c)
      BY <1>0, <2>2 DEF Begin, Typed, Onward
    <2>3. CASE d = c /\ ~Begin(c)
      <3>1. op[c].pc # "idle" /\ seen' = seen
        BY <1>2, <2>3, Waiting
      <3> QED BY <1>0, <2>3, <3>1 DEF OpenSeen, Onward
    <2> QED BY <2>1, <2>2, <2>3
  <1>5. AllSound'
    <2> SUFFICES ASSUME NEW d \in Ops
                 PROVE  Sound(op'[d], seen'[d])
      BY <1>1 DEF AllSound
    <2>1. CASE d = c
      BY <1>0, <2>1
    <2>2. CASE d # c
      BY <1>1, <2>2 DEF AllSound
    <2> QED BY <2>1, <2>2
  <1>6. RowsCounted'
    <2>1. Inserted \subseteq Inserted' /\ Inserted' \subseteq Ops
      BY <1>0, <1>1 DEF Inserted, Onward, Before
    <2>2. IsFiniteSet(Inserted') /\ IsFiniteSet(Inserted)
      BY <2>1, FS_Subset DEF Typed, Inserted
    <2>3. /\ Cardinality(Inserted) <= Cardinality(Inserted')
          /\ Cardinality(Inserted) \in Nat /\ Cardinality(Inserted') \in Nat
      BY <2>1, <2>2, FS_Subset, FS_CardinalityType
    <2>4. loopRows \in Nat /\ loopRows <= Cardinality(Inserted)
      BY DEF Typed, RowsCounted
    <2>5. CASE loopRows' = loopRows
      BY <2>3, <2>4, <2>5 DEF RowsCounted
    <2>6. CASE loopRows' = loopRows + 1 /\ LoopInsert(c)
      <3>0. op[c].pc = "insert" /\ op'[c] = To(op[c], "count")
        BY <2>4, <2>6 DEF LoopInsert, At, Becomes, Ops
      <3>1. op'[c].pc = "count"
        BY <3>0, Moving DEF Typed, Pcs, ToolPcs
      <3>2. c \notin Inserted /\ c \in Inserted'
        BY <1>1, <3>0, <3>1 DEF Inserted
      <3>3. Cardinality(Inserted \cup {c}) = Cardinality(Inserted) + 1
        BY <2>2, <3>2, FS_AddElement
      <3>4. Cardinality(Inserted \cup {c}) <= Cardinality(Inserted')
        BY <2>1, <2>2, <3>2, FS_Subset
      <3> QED BY <2>3, <2>4, <2>6, <3>3, <3>4 DEF RowsCounted
    <2> QED BY <1>2, <2>5, <2>6 DEF LoopInsert
  <1>7. LoopWatched'
    <2> SUFFICES ASSUME loopRows' > MaxCalls, ~detected'
                 PROVE  \E d \in Ops : op'[d].lost \/ op'[d].cut \/ op'[d].pc \in {"count", "detect"}
      BY <1>1 DEF LoopWatched
    <2>0. ~detected
      BY <1>2
    <2>1. CASE loopRows' # loopRows
      <3>1. op'[c] = To(op[c], "count")
        BY <1>2, <2>1 DEF LoopInsert, Becomes, Ops
      <3>2. op'[c].pc = "count"
        BY <3>1, Moving DEF Typed, Pcs, ToolPcs
      <3> QED BY <3>2
    <2>2. CASE loopRows' = loopRows
      <3>1. PICK d \in Ops : op[d].lost \/ op[d].cut \/ op[d].pc \in {"count", "detect"}
        BY <2>0, <2>2 DEF LoopWatched
      <3>2. CASE d # c
        BY <1>1, <3>1, <3>2
      <3>3. CASE d = c /\ (op[c].lost \/ op[c].cut)
        BY <1>0, <3>3 DEF Onward
      <3>4. CASE d = c /\ op[c].pc \in {"count", "detect"}
        <4>1. CASE Cancel(c)
          <5>1. op'[c] = [op[c] EXCEPT !.cut = TRUE,
                            !.pre = IF @ = "pending" THEN "done" ELSE @,
                            !.pc = IF @ \in {"reconcile", "report"} /\ op[c].how = "with"
                                   THEN "exiting" ELSE "cut"]
            BY <3>4, <4>1 DEF Cancel, Becomes, Ops, At
          <5>2. op'[c].cut
            BY <5>1 DEF Typed, OpType
          <5> QED BY <5>2
        <4>2. CASE LoopCount(c)
          <5>1. \/ op'[c] = To(op[c], "detect")
                \/ op'[c] = [To(op[c], "precallTool") EXCEPT !.lost = TRUE]
            BY <2>2, <4>2 DEF LoopCount, Becomes, Ops, IsLoop
          <5>2. op'[c].pc = "detect" \/ op'[c].lost
            BY <5>1 DEF Typed, OpType, To
          <5> QED BY <5>2
        <4>3. CASE LoopDetect(c)
          <5>1. op'[c] = [To(op[c], "precallTool") EXCEPT !.lost = TRUE]
            BY <4>3 DEF LoopDetect, Becomes, Ops
          <5>2. op'[c].lost
            BY <5>1 DEF Typed, OpType, To
          <5> QED BY <5>2
        <4> QED BY <3>4, <4>1, <4>2, <4>3, Watching
      <3> QED BY <3>1, <3>2, <3>3, <3>4
    <2> QED BY <2>1, <2>2
  <1> QED BY <1>3, <1>4, <1>5, <1>6, <1>7

(* A change of what the gates look at only adds to what was seen.          *)
LEMMA ChangeInv ==
    ASSUME Inv, NEW e \in Env, Change(e)
    PROVE  Inv'
  <1> USE DEF Inv
  <1>0. op' = op /\ loopRows' = loopRows /\ detected' = detected /\ logged' = logged /\ Ops' = Ops
    BY DEF Change, Ops
  <1>1. /\ env' = e /\ changes' = changes + 1 /\ changes < MaxChanges
        /\ seen' = [c \in Ops |-> IF op[c].pc = "idle" THEN {}
                                  ELSE seen[c] \cup Open(e, op[c].kind)]
    BY DEF Change
  <1>2. Typed'
    <2>1. changes' \in 0..MaxChanges
      BY <1>1, CallAssumption DEF Typed
    <2>2. op' \in [Ops -> OpType] /\ IsFiniteSet(Ops) /\ loopRows' \in Nat
          /\ detected' \in BOOLEAN /\ logged' \in BOOLEAN
      BY <1>0 DEF Typed
    <2>3. seen' = [c \in Ops |-> seen'[c]]
      BY <1>1
    <2> QED BY <1>0, <1>1, <2>1, <2>2, <2>3 DEF Typed
  <1>3. OpenSeen'
    BY <1>0, <1>1 DEF OpenSeen
  <1>4. AllSound'
    <2> SUFFICES ASSUME NEW c \in Ops
                 PROVE  Sound(op[c], seen'[c])
      BY <1>0 DEF AllSound
    <2>1. Control(op[c]) /\ GateSound(op[c], seen[c]) /\ Once(op[c]) /\ Exact(op[c])
      BY DEF AllSound, Sound
    <2>2. CASE op[c].pc = "idle"
      <3>1. GateSound(op[c], seen'[c])
        BY <2>2 DEF GateSound, Cleared
      <3> QED BY <2>1, <3>1 DEF Sound
    <2>3. CASE op[c].pc # "idle"
      <3>1. seen[c] \subseteq seen'[c]
        BY <1>1, <2>3
      <3>2. GateSound(op[c], seen'[c])
        BY <2>1, <3>1 DEF GateSound
      <3> QED BY <2>1, <3>2 DEF Sound
    <2> QED BY <2>2, <2>3
  <1>5. RowsCounted' /\ LoopWatched'
    BY <1>0 DEF RowsCounted, LoopWatched, Inserted
  <1> QED BY <1>2, <1>3, <1>4, <1>5

(* ... and so it holds in every reachable state, whatever operations run   *)
(* side by side and wherever they are cancelled.                           *)
THEOREM SpecInv == Spec => []Inv
  <1>1. ASSUME Inv, [Next]_vars
        PROVE  Inv'
    <2>1. CASE UNCHANGED vars
      <3>1. Ops' = Ops
        BY <2>1 DEF vars, Ops
      <3> QED BY <1>1, <2>1, <3>1 DEF vars, Inv, Typed, OpenSeen, AllSound, RowsCounted, Inserted,
                                      LoopWatched
    <2>2. CASE Next
      BY <1>1, <2>2, StepInv, ChangeInv DEF Next
    <2> QED BY <1>1, <2>1, <2>2
  <1> QED BY <1>1, InitInv, PTL DEF Spec

-----------------------------------------------------------------------------
(* No operation runs past a gate that was shut all along: the wrappers,    *)
(* the LangChain handler and contracts.enforce call a provider, an agent   *)
(* or a tool only after the halt switch, scope, budget, approval and the   *)
(* routed model were each open at some moment since the operation began.   *)
THEOREM CallGatesHold == Spec => []GatesHold
  <1>1. ASSUME Inv
        PROVE  GatesHold
    <2> USE <1>1 DEF Inv
    <2>1. TypeOK
      <3>1. Inserted \subseteq Ops
        BY DEF Inserted
      <3>2. IsFiniteSet(Inserted) /\ Cardinality(Inserted) <= Cardinality(Ops)
        BY <3>1, FS_Subset DEF Typed
      <3>3. Cardinality(Inserted) \in Nat /\ Cardinality(Ops) \in Nat
        BY <3>2, FS_CardinalityType DEF Typed
      <3>4. loopRows \in 0..Cardinality(Ops)
        BY <3>2, <3>3 DEF Typed, RowsCounted
      <3>5. ASSUME NEW c \in Ops
            PROVE  /\ op[c].kind \in Kinds /\ op[c].gate \in 1..Len(GatesOf(op[c].kind))
                   /\ op[c].model \in {"asked", "middle", "small"}
                   /\ op[c].trail \in Seq(Events)
        <4>1. op[c] \in OpType /\ Control(op[c])
          BY DEF Typed, AllSound, Sound
        <4> QED BY <4>1 DEF OpType, Control, Models
      <3> QED BY <3>4, <3>5 DEF Typed, TypeOK
    <2>2. ASSUME NEW c \in Ops, op[c].ran
          PROVE  Required(op[c]) \subseteq seen[c]
      <3>1. op[c].pc \notin {"idle", "route", "gate"}
        BY <2>2 DEF AllSound, Sound, Control
      <3>2. Cleared(op[c]) = Required(op[c])
        BY <2>2, <3>1 DEF Cleared
      <3> QED BY <3>2 DEF AllSound, Sound, GateSound
    <2> QED BY <2>1, <2>2 DEF GatesHold
  <1> QED BY <1>1, SpecInv, PTL

(* Every operation that ran and ended has left its whole trail in order,   *)
(* llm.call first although a task of its own logs it, unless an            *)
(* observation failed or it was cancelled outside the provider call.       *)
THEOREM CallsAreAudited == Spec => []CallAudited
  <1>1. ASSUME Inv
        PROVE  CallAudited
    <2> SUFFICES ASSUME NEW c \in Ops, op[c].ran, op[c].pc \in {"returned", "raised"},
                        ~op[c].lost, ~op[c].cut
                 PROVE  op[c].trail \in Script(op[c])
      BY DEF CallAudited
    <2>1. Exact(op[c])
      BY <1>1 DEF Inv, AllSound, Sound
    <2> QED BY <2>1 DEF Exact, Trails
  <1> QED BY <1>1, SpecInv, PTL

(* Whatever fails, is cancelled or is collected, nothing is recorded or    *)
(* charged twice, the stream proxy reconciles at most once, and no call    *)
(* has both a result and an error.                                         *)
THEOREM CallsChargedOnce == Spec => []ChargedOnce
  <1>1. ASSUME Inv
        PROVE  ChargedOnce
    <2> SUFFICES ASSUME NEW c \in Ops
                 PROVE  /\ \A i, j \in 1..Len(op[c].trail) :
                             i # j => /\ op[c].trail[i] # op[c].trail[j]
                                      /\ {op[c].trail[i], op[c].trail[j]} # {"result", "error"}
                        /\ "delta" \in ToSet(op[c].trail) => op[c].reconciled
      BY DEF ChargedOnce
    <2>1. Once(op[c]) /\ op[c].trail \in Seq(Events) /\ op[c] \in OpType
      BY <1>1 DEF Inv, AllSound, Sound, Typed, OpType
    <2>2. ~({"result", "error"} \subseteq May(op[c]))
      BY DEF May, Events
    <2>3. \A i \in 1..Len(op[c].trail) : op[c].trail[i] \in May(op[c])
      BY <2>1 DEF Once
    <2>4. ASSUME NEW i \in 1..Len(op[c].trail), NEW j \in 1..Len(op[c].trail), i # j
          PROVE  /\ op[c].trail[i] # op[c].trail[j]
                 /\ {op[c].trail[i], op[c].trail[j]} # {"result", "error"}
      BY <2>1, <2>2, <2>3, <2>4 DEF Once
    <2>5. ASSUME "delta" \in ToSet(op[c].trail)
          PROVE  op[c].reconciled
      <3>1. PICK i \in 1..Len(op[c].trail) : op[c].trail[i] = "delta"
        BY <2>1, <2>5 DEF ToSet
      <3> QED BY <2>1, <3>1 DEF Once
    <2> QED BY <2>4, <2>5
  <1> QED BY <1>1, SpecInv, PTL

(* Concurrent record_call calls of one tool cannot slip past the detector  *)
(* together: each inserts its row before it counts them all, so the last   *)
(* one to insert counts every row.                                         *)
THEOREM LoopsAreNoticed == Spec => []LoopNoticed
  <1>1. ASSUME Inv
        PROVE  LoopNoticed
    BY <1>1 DEF Inv, LoopWatched, LoopNoticed
  <1> QED BY <1>1, SpecInv, PTL
=============================================================================
