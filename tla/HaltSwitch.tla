----------------------------- MODULE HaltSwitch -----------------------------
(***************************************************************************)
(* The operator halt switch of PresenceModule: the presence rows that      *)
(* agents write (heartbeat, mark_idle, close_agent, check_stale), the      *)
(* halt marker an operator writes into the same rows, and the TTL cache    *)
(* through which every governed call of one process reads the marker.      *)
(*                                                                         *)
(* Each SQL statement is atomic.  A refresh of the cache is not: the clock *)
(* is read, the query runs, and the answer is stored after an await, all   *)
(* under _halted_lock.  clock is time.monotonic(): whole units since boot. *)
(* A heartbeat, idle mark, close or stale sweep whose statement fails only *)
(* logs, so a failed one is a stuttering step.                             *)
(***************************************************************************)
EXTENDS Integers, FiniteSets

CONSTANTS
    Agents,
    Callers,          \* coroutines of the process that ask about an agent
    None,
    TTL,              \* _HALT_CACHE_TTL_SECONDS
    StaleAfter,       \* check_stale's timeout_seconds
    Uptime,           \* the monotonic clock when the process starts
    MaxTime,          \* bound on the clock
    DbCanFail,        \* the refresh query may fail
    UpdateRevoked,    \* some process halts under a role without UPDATE on halted_by
    OperatorClears    \* an operator may clear a halt by hand

ASSUME ActorsAssumption ==
    /\ IsFiniteSet(Agents) /\ IsFiniteSet(Callers)
    /\ None \notin Agents \cup Callers
ASSUME TimeAssumption ==
    /\ TTL \in Nat \ {0}
    /\ {StaleAfter, Uptime, MaxTime} \subseteq Nat
    /\ Uptime <= MaxTime
ASSUME ModeAssumption == {DbCanFail, UpdateRevoked, OperatorClears} \subseteq BOOLEAN

VARIABLES
    clock,
    status, beat,     \* the rows: status ("absent": no row), last_heartbeat
    halted,           \* agents whose halted_by is not NULL
    cache, cacheAt,   \* _halted_cache, _halted_cache_at
    outage,           \* the last refresh that ended did so with an error (history)
    holder,           \* owner of _halted_lock
    call,             \* each coroutine's is_halted / force_refresh call
    told,             \* what halt() last answered about the agent (history)
    since,            \* when halted_by last changed (history)
    cleared           \* agents whose halt was ever cleared (history)

rows == <<status, beat>>
switch == <<halted, told, since, cleared>>
switchVars == <<clock, rows, switch, cache, cacheAt, outage, holder, call>>

Times == 0..MaxTime

(* agent is None for force_refresh_halted_cache.  start is when the call   *)
(* was made, now the clock read under the lock, seen the query's answer.   *)
Calls == [pc : {"idle", "ask", "lock", "fetch", "apply"},
          agent : Agents \cup {None}, start : Times, now : Times,
          seen : SUBSET Agents,
          verdict : {"none", "passed", "blocked", "refreshed", "cancelled"}]

SwitchTypeOK ==
    /\ clock \in Times
    /\ status \in [Agents -> {"absent", "live", "idle", "unresponsive"}]
    /\ beat \in [Agents -> Times]
    /\ halted \subseteq Agents /\ cache \subseteq Agents /\ cleared \subseteq Agents
    /\ cacheAt \in Times /\ outage \in BOOLEAN
    /\ holder \in Callers \cup {None}
    /\ call \in [Callers -> Calls]
    /\ told \in [Agents -> {"none", "engaged", "failed"}]
    /\ since \in [Agents -> Int]

(* Not in a call: the last one ended with verdict v.                       *)
Idle(v) == [pc |-> "idle", agent |-> None, start |-> 0, now |-> 0, seen |-> {}, verdict |-> v]

(* Agents may have been halted before this process started.                *)
SwitchInit ==
    /\ clock = Uptime
    /\ halted \in SUBSET Agents
    /\ status \in [Agents -> {"absent", "live"}]
    /\ \A a \in halted : status[a] = "live"
    /\ beat = [a \in Agents |-> Uptime]
    /\ cache = {} /\ cacheAt = 0 /\ outage = FALSE
    /\ holder = None
    /\ call = [c \in Callers |-> Idle("none")]
    /\ told = [a \in Agents |-> "none"]
    /\ since = [a \in Agents |-> -TTL]
    /\ cleared = {}

-----------------------------------------------------------------------------
(* What agents write.                                                      *)

(* The UPSERT lists neither halted_by nor halted_at.                       *)
Heartbeat(a) ==
    /\ status' = [status EXCEPT ![a] = "live"]
    /\ beat' = [beat EXCEPT ![a] = clock]
    /\ UNCHANGED <<clock, switch, cache, cacheAt, outage, holder, call>>

MarkIdle(a) ==
    /\ status[a] # "absent"
    /\ status' = [status EXCEPT ![a] = "idle"]
    /\ UNCHANGED <<clock, beat, switch, cache, cacheAt, outage, holder, call>>

(* Fault: the row goes whatever it carries, and the marker with it.        *)
CloseAgentAny(a) ==
    /\ status' = [status EXCEPT ![a] = "absent"]
    /\ halted' = halted \ {a}
    /\ UNCHANGED <<clock, beat, told, since, cleared, cache, cacheAt, outage, holder, call>>

(* DELETE ... WHERE halted_by IS NULL.                                     *)
CloseAgent(a) ==
    /\ a \notin halted
    /\ status' = [status EXCEPT ![a] = "absent"]
    /\ UNCHANGED <<clock, beat, switch, cache, cacheAt, outage, holder, call>>

(* Fault: the timeout itself counts as late.                               *)
LateAtTimeout(a) == status[a] \notin {"absent", "unresponsive"} /\ clock - beat[a] >= StaleAfter

Late(a) == status[a] \notin {"absent", "unresponsive"} /\ clock - beat[a] > StaleAfter

CheckStale ==
    /\ status' = [a \in Agents |-> IF Late(a) THEN "unresponsive" ELSE status[a]]
    /\ UNCHANGED <<clock, beat, switch, cache, cacheAt, outage, holder, call>>

-----------------------------------------------------------------------------
(* What operators write.                                                   *)

(* halt: INSERT ... ON CONFLICT DO UPDATE.  A new row takes the table's    *)
(* defaults; the UPDATE branch needs the privilege.                        *)
Halt(a) ==
    /\ halted' = halted \cup {a}
    /\ since' = IF a \in halted THEN since ELSE [since EXCEPT ![a] = clock]
    /\ told' = [told EXCEPT ![a] = "engaged"]
    /\ status' = [status EXCEPT ![a] = IF @ = "absent" THEN "live" ELSE @]
    /\ beat' = IF status[a] = "absent" THEN [beat EXCEPT ![a] = clock] ELSE beat
    /\ UNCHANGED <<clock, cleared, cache, cacheAt, outage, holder, call>>

(* HaltPersistenceError: the UPDATE is denied.                             *)
HaltDenied(a) ==
    /\ UpdateRevoked /\ status[a] # "absent"
    /\ told' = [told EXCEPT ![a] = "failed"]
    /\ UNCHANGED <<clock, rows, halted, since, cleared, cache, cacheAt, outage, holder, call>>

(* External: no SDK call clears a halt; an operator's own UPDATE does.     *)
Clear(a) ==
    /\ OperatorClears /\ a \in halted
    /\ halted' = halted \ {a}
    /\ since' = [since EXCEPT ![a] = clock]
    /\ told' = [told EXCEPT ![a] = "none"]
    /\ cleared' = cleared \cup {a}
    /\ UNCHANGED <<clock, rows, cache, cacheAt, outage, holder, call>>

-----------------------------------------------------------------------------
(* is_halted / assert_not_halted(a), and force_refresh_halted_cache when   *)
(* a is None.                                                              *)

Call(c, a) ==
    /\ call[c].pc = "idle"
    /\ call' = [call EXCEPT ![c] = [pc |-> "ask", agent |-> a, start |-> clock,
                                    now |-> 0, seen |-> {}, verdict |-> "none"]]
    /\ UNCHANGED <<clock, rows, switch, cache, cacheAt, outage, holder>>

Fresh(at) == clock - at < TTL

(* What the call returns, or raises, from the cache K.                     *)
Answer(c, K) == IF call[c].agent = None THEN "refreshed"
                ELSE IF call[c].agent \in K THEN "blocked" ELSE "passed"

Return(c, K) == call' = [call EXCEPT ![c] = Idle(Answer(c, K))]

(* _maybe_refresh_halted_cache up to the lock; force_refresh zeroes the    *)
(* time of the cache first.                                                *)
Ask(c) ==
    /\ call[c].pc = "ask"
    /\ cacheAt' = IF call[c].agent = None THEN 0 ELSE cacheAt
    /\ IF Fresh(cacheAt') THEN Return(c, cache)
                          ELSE call' = [call EXCEPT ![c].pc = "lock"]
    /\ UNCHANGED <<clock, rows, switch, cache, outage, holder>>

(* Fault: a waiter joins the refresh without owning the lock.              *)
LockShared(c) ==
    /\ call[c].pc = "lock"
    /\ call' = [call EXCEPT ![c].pc = "fetch", ![c].now = clock]
    /\ holder' = c
    /\ UNCHANGED <<clock, rows, switch, cache, cacheAt, outage>>

(* The lock, and the second look at the cache's age.                       *)
Lock(c) ==
    /\ call[c].pc = "lock" /\ holder = None
    /\ IF Fresh(cacheAt)
         THEN Return(c, cache) /\ UNCHANGED holder
         ELSE /\ call' = [call EXCEPT ![c].pc = "fetch", ![c].now = clock]
              /\ holder' = c
    /\ UNCHANGED <<clock, rows, switch, cache, cacheAt, outage>>

(* SELECT ... WHERE halted_by IS NOT NULL.                                 *)
Fetch(c) ==
    /\ call[c].pc = "fetch"
    /\ call' = [call EXCEPT ![c].pc = "apply", ![c].seen = halted]
    /\ UNCHANGED <<clock, rows, switch, cache, cacheAt, outage, holder>>

(* Fault: the cache is stamped with the time of its writing.               *)
ApplyStampedLate(c) ==
    /\ call[c].pc = "apply"
    /\ cache' = call[c].seen /\ cacheAt' = clock /\ outage' = FALSE
    /\ holder' = None
    /\ Return(c, cache')
    /\ UNCHANGED <<clock, rows, switch>>

(* The answer replaces the cache, stamped with the clock read before the   *)
(* query; the caller looks at the cache without another await.             *)
Apply(c) ==
    /\ call[c].pc = "apply"
    /\ cache' = call[c].seen /\ cacheAt' = call[c].now /\ outage' = FALSE
    /\ holder' = None
    /\ Return(c, cache')
    /\ UNCHANGED <<clock, rows, switch>>

(* Fault: the early return leaves the lock held.                           *)
FetchFailsLocked(c) ==
    /\ call[c].pc = "fetch" /\ DbCanFail
    /\ cacheAt' = call[c].now /\ outage' = TRUE
    /\ Return(c, cache)
    /\ UNCHANGED <<clock, rows, switch, cache, holder>>

(* The query fails: the cache is kept and its time moved.                  *)
FetchFails(c) ==
    /\ call[c].pc = "fetch" /\ DbCanFail
    /\ cacheAt' = call[c].now /\ outage' = TRUE
    /\ holder' = None
    /\ Return(c, cache)
    /\ UNCHANGED <<clock, rows, switch, cache>>

(* The host cancels the coroutine while it waits for the lock or the       *)
(* database; async with releases a lock it holds.                          *)
Cancel(c) ==
    /\ call[c].pc \in {"lock", "fetch", "apply"}
    /\ call' = [call EXCEPT ![c] = Idle("cancelled")]
    /\ holder' = IF holder = c THEN None ELSE holder
    /\ UNCHANGED <<clock, rows, switch, cache, cacheAt, outage>>

Tick ==
    /\ clock < MaxTime
    /\ clock' = clock + 1
    /\ UNCHANGED <<rows, switch, cache, cacheAt, outage, holder, call>>

-----------------------------------------------------------------------------
Presence(a) == Heartbeat(a) \/ MarkIdle(a) \/ CloseAgent(a)
Operator(a) == Halt(a) \/ HaltDenied(a) \/ Clear(a)
Coroutine(c) ==
    \/ Ask(c) \/ Lock(c) \/ Fetch(c) \/ Apply(c) \/ FetchFails(c) \/ Cancel(c)

SwitchNext ==
    \/ \E a \in Agents : Presence(a) \/ Operator(a)
    \/ CheckStale \/ Tick
    \/ \E c \in Callers : Coroutine(c) \/ \E a \in Agents \cup {None} : Call(c, a)

SwitchSpec == SwitchInit /\ [][SwitchNext]_switchVars

(* The event loop runs a ready coroutine, asyncio.Lock is first come first *)
(* served, and a query ends, with an answer or an error.                   *)
SwitchFairness == \A c \in Callers :
    /\ WF_switchVars(Ask(c)) /\ SF_switchVars(Lock(c))
    /\ WF_switchVars(Fetch(c) \/ FetchFails(c)) /\ WF_switchVars(Apply(c))
SwitchFairSpec == SwitchSpec /\ SwitchFairness

-----------------------------------------------------------------------------
(* Properties.                                                             *)

Returns(c) == call[c].pc # "idle" /\ call'[c].pc = "idle"

(* The delay of the switch, module.py:25-27.  A governed call made TTL or  *)
(* more after an agent was halted is refused, whatever other calls and     *)
(* refreshes are under way, and one made TTL or more after the halt was    *)
(* cleared passes; after an outage, from the first refresh that succeeds.  *)
HaltBounded ==
    [][\A c \in Callers :
         Returns(c) /\ call'[c].verdict \in {"passed", "blocked"}
           /\ call[c].start - since[call[c].agent] >= TTL /\ ~outage'
         => (call'[c].verdict = "blocked" <=> call[c].agent \in halted)]_switchVars

(* An agent this process has once seen halted stays refused until its halt *)
(* is cleared: no outage, no late answer of an older query and no          *)
(* cancelled refresh takes it out of _halted_cache.                        *)
BlockedStays == [][cache \ cache' \subseteq cleared]_switchVars

(* halt() that returned means a halt in force: no heartbeat, idle mark,    *)
(* close, re-registration or stale sweep undoes it, and a halt of an agent *)
(* without a row is not lost.                                              *)
HaltHolds == \A a \in Agents : told[a] = "engaged" => a \in halted

(* check_stale against concurrent heartbeats: an agent is shown as         *)
(* unresponsive only while its last heartbeat is older than the timeout.   *)
StaleIsLate == \A a \in Agents :
    status[a] = "unresponsive" => clock - beat[a] > StaleAfter

(* Every check of the halt switch returns: nobody waits on _halted_lock    *)
(* for ever, outages and cancellations included.                           *)
CheckReturns == \A c \in Callers : call[c].pc # "idle" ~> call[c].pc = "idle"

-----------------------------------------------------------------------------
(* What comments of the code say and the code does not keep; the README    *)
(* gives for each the constants under which TLC shows it.                  *)

(* force_refresh_halted_cache, "bypassing TTL" (module.py:695): when it    *)
(* returns, the cache shows every halt and clearing made before the call.  *)
ForceFresh ==
    [][\A c \in Callers :
         Returns(c) /\ call'[c].verdict = "refreshed"
         => \A a \in Agents : since[a] < call[c].start => (a \in cache' <=> a \in halted)]_switchVars
=============================================================================
