------------------------------ MODULE Recovery ------------------------------
(***************************************************************************)
(* RecoveryManager.run (packages/dsh-multi-agent/src/recovery/manager.ts): *)
(* one logical run of a plan as a bounded sequence of attempts.  Each      *)
(* attempt validates and routes the current candidate plan and hands it to *)
(* the Supervisor; what comes back decides between finishing, retrying,    *)
(* repairing the plan and pruning it.                                      *)
(*                                                                         *)
(* The loop is synchronous except where it awaits supervisor.run           *)
(* (pc = "running") and the delay of a retry (pc = "delay"): an abort of   *)
(* the caller's signal can come there, or before the call.                 *)
(*                                                                         *)
(* A task is named by its place in the plan the caller gave.  Prompts are  *)
(* one and the same, agents have no capabilities to tell them apart.       *)
(***************************************************************************)
EXTENDS Naturals, Sequences, FiniteSets

CONSTANTS
    N,            (* number of tasks of the plan                            *)
    Agents,       (* agent ids                                              *)
    NoAgent,      (* a task without an explicit agentId                     *)
    Pool,         (* the routable agents, in order                          *)
    MaxAttempts, MaxReplans,
    Plans         (* dependency functions of the plans run may be given     *)

Task == 1..N
Strategies == {"sequential", "relay", "broadcast"}

ASSUME NAssumption == N \in Nat \ {0}
ASSUME NoAgentAssumption == NoAgent \notin Agents
ASSUME PoolAssumption == Pool \in Seq(Agents)
ASSUME BudgetAssumption == MaxAttempts \in Nat \ {0} /\ MaxReplans \in Nat
ASSUME PlansAssumption == Plans \subseteq [Task -> SUBSET Task]

VARIABLES
    deps, strategy,  (* dependsOn of the tasks; options.strategy             *)
    kept,            (* currentPlan: its tasks ...                           *)
    agentId,         (* ... and their explicit assignments                   *)
    pool,            (* the agents routing still uses                        *)
    attempts, repairsUsed, replansUsed,
    pc,              (* where run() is                                       *)
    routed,          (* RoutedPlan: the agent of each task of this attempt   *)
    steps,           (* the tasks in the order the strategy was given them   *)
    report,          (* the code of each step, or <<>>                       *)
    failure,         (* code of the last failure recorded, or "none"         *)
    decision,        (* the last one of RecoveryRunResult.decisions          *)
    status,          (* RecoveryRunResult.status                             *)
    aborted,         (* options.signal is aborted                            *)
    timedOut,        (* the Supervisor's whole-run timer fired               *)
    dispatched,      (* history: how often the Supervisor ran a strategy     *)
    evicted          (* history: the agents repairs took out of the pool     *)

candidate == <<kept, agentId, pool>>
budget == <<attempts, repairsUsed, replansUsed>>
attempt == <<routed, steps, report>>
outcome == <<failure, decision, status>>
vars == <<deps, strategy, candidate, budget, pc, attempt, outcome, aborted,
          timedOut, dispatched, evicted>>

OwnFailures == {"AGENT_UNAVAILABLE", "TIMEOUT", "CANCELLED", "TASK_ERROR"}
TaskCodes == {"completed", "DEPENDENCY_FAILURE"} \cup OwnFailures
FailureCodes == {"none", "VALIDATION_ERROR", "ROUTING_ERROR", "RUNTIME_ERROR",
                 "DEPENDENCY_FAILURE"} \cup OwnFailures
Recoveries == {"retry", "repair", "replan"}
Final == {"completed", "failed", "abort"}
Statuses == {"completed", "failed", "cancelled", "timeout"}
Phases == {"top", "prepare", "running", "delay", "finished"}

Init ==
    /\ deps \in Plans /\ strategy \in Strategies
    /\ kept = Task
    /\ agentId \in [Task -> Agents \cup {NoAgent}]
    /\ pool = Pool
    /\ attempts = 0 /\ repairsUsed = 0 /\ replansUsed = 0
    /\ pc = "top"
    /\ routed = [t \in Task |-> NoAgent]
    /\ steps = <<>> /\ report = <<>>
    /\ failure = "none" /\ decision = "none" /\ status = "none"
    /\ aborted \in BOOLEAN
    /\ timedOut = FALSE
    /\ dispatched = 0 /\ evicted = {}

canAttempt_oneMore(n) == n <= MaxAttempts + 1                  \* mutant
canAttempt(n) == n <= MaxAttempts
canReplan == replansUsed < MaxReplans

finish(result, last) ==
    pc' = "finished" /\ status' = result /\ decision' = last

(* The status of a run that ends on a failure.                              *)
failedAs(code) == IF code = "TIMEOUT" THEN "timeout" ELSE "failed"

-----------------------------------------------------------------------------
(* The top of the loop: the signal, then the budget.                        *)
Top ==
    /\ pc = "top"
    /\ IF aborted
          THEN finish("cancelled", "abort") /\ UNCHANGED attempts
          ELSE IF ~canAttempt(attempts + 1)
          THEN finish(failedAs(failure), "failed") /\ UNCHANGED attempts
          ELSE /\ attempts' = attempts + 1
               /\ pc' = "prepare"
               /\ UNCHANGED <<decision, status>>
    /\ UNCHANGED <<deps, strategy, candidate, repairsUsed, replansUsed, attempt,
                   failure, aborted, timedOut, dispatched, evicted>>

(* PlanValidator.validate: a plan the loop may dispatch.                    *)
valid ==
    /\ kept # {}
    /\ \A t \in kept : deps[t] \subseteq kept \ {t}
    /\ \E rank \in [Task -> Task] :
          \A t \in kept : \A d \in deps[t] : rank[d] < rank[t]

(* AgentRouter.route, in declaration order: the explicit agent if the pool  *)
(* has it (validateAndRepair strips the others), else round robin.          *)
inPool(a) == \E i \in DOMAIN pool : pool[i] = a
roundRobin(t) ==
    LET turn == Cardinality({u \in kept : u < t /\ ~inPool(agentId[u])})
    IN  pool[(turn % Len(pool)) + 1]
route ==
    [t \in Task |-> IF t \notin kept THEN NoAgent
                    ELSE IF inPool(agentId[t]) THEN agentId[t] ELSE roundRobin(t)]

(* The tasks in declaration order.                                         *)
declared(tasks) ==
    LET taken[t \in 0 .. N] == IF t = 0 THEN <<>>
                               ELSE IF t \in tasks THEN Append(taken[t - 1], t)
                               ELSE taken[t - 1]
    IN  taken[N]

(* topologicalOrder: passes over the tasks in declaration order, each       *)
(* taking the tasks whose dependencies are taken; N passes take them all.   *)
place(tasks, g, order, t) ==
    LET done == {order[i] : i \in DOMAIN order}
    IN  IF t \in tasks \ done /\ g[t] \subseteq done THEN Append(order, t)
                                                     ELSE order
topologicalOrder_declared(tasks, g) == declared(tasks)        \* mutant
topologicalOrder(tasks, g) ==
    LET sorted[k \in 0 .. N * N] ==
            IF k = 0 THEN { <<>> }
            ELSE {place(tasks, g, order, ((k - 1) % N) + 1) : order \in sorted[k - 1]}
    IN  CHOOSE order \in sorted[N * N] : TRUE

(* manager.ts' way back from a strategy's synthetic id to the plan's task.  *)
strategyTaskOrder ==
    IF strategy = "broadcast" THEN declared(kept) ELSE topologicalOrder(kept, deps)

(* routedPlanToSupervisorPlan: the shapes a strategy can express.           *)
fits ==
    CASE strategy = "sequential" -> TRUE
      [] strategy = "broadcast" ->
            /\ \A t \in kept : deps[t] = {}
            /\ \A t, u \in kept : route[t] = route[u] => t = u
      [] strategy = "relay" ->
            /\ \A t \in kept : Cardinality(deps[t]) <= 1
            /\ Cardinality({t \in kept : deps[t] = {}}) = 1
            /\ \A t, u \in kept : deps[t] # {} /\ deps[t] = deps[u] => t = u

(* mutant: an error of the router leaves the loop hanging *)
PrepareFails_unrouted ==
    /\ pc = "prepare"
    /\ failure' = IF ~valid THEN "VALIDATION_ERROR" ELSE "RUNTIME_ERROR"
    /\ valid => pool # <<>> /\ ~fits
    /\ finish("failed", "failed")
    /\ UNCHANGED <<deps, strategy, candidate, budget, attempt, aborted,
                   timedOut, dispatched, evicted>>

(* The candidate fails before the Supervisor sees it.                       *)
PrepareFails ==
    /\ pc = "prepare"
    /\ failure' = IF ~valid THEN "VALIDATION_ERROR"
                  ELSE IF pool = <<>> THEN "ROUTING_ERROR" ELSE "RUNTIME_ERROR"
    /\ valid /\ pool # <<>> => ~fits
    /\ finish("failed", "failed")
    /\ UNCHANGED <<deps, strategy, candidate, budget, attempt, aborted,
                   timedOut, dispatched, evicted>>

Dispatch ==
    /\ pc = "prepare" /\ valid /\ pool # <<>> /\ fits
    /\ routed' = route
    /\ steps' = IF strategy = "broadcast" THEN declared(kept)
                                           ELSE topologicalOrder(kept, deps)
    /\ report' = <<>>
    /\ pc' = "running" /\ timedOut' = FALSE
    /\ dispatched' = dispatched + 1
    /\ UNCHANGED <<deps, strategy, candidate, budget, outcome, aborted, evicted>>

-----------------------------------------------------------------------------
(* The caller aborts.  A delay ends with it; a run is torn down.            *)
Abort ==
    /\ pc \in {"running", "delay"} /\ ~aborted
    /\ aborted' = TRUE
    /\ pc' = IF pc = "delay" THEN "top" ELSE pc
    /\ UNCHANGED <<deps, strategy, candidate, budget, attempt, outcome,
                   timedOut, dispatched, evicted>>

(* The whole-run timer of the Supervisor.                                   *)
TimerFires ==
    /\ pc = "running" /\ ~timedOut
    /\ timedOut' = TRUE
    /\ UNCHANGED <<deps, strategy, candidate, budget, pc, attempt, outcome,
                   aborted, dispatched, evicted>>

DelayOver ==
    /\ pc = "delay"
    /\ pc' = "top"
    /\ UNCHANGED <<deps, strategy, candidate, budget, attempt, outcome, aborted,
                   timedOut, dispatched, evicted>>

(* What a strategy may report: a chain breaks at one step and cascades, the *)
(* tasks of a broadcast fail on their own.                                  *)
Reports ==
    IF strategy = "broadcast"
       THEN [DOMAIN steps -> TaskCodes \ {"DEPENDENCY_FAILURE"}]
       ELSE { [i \in DOMAIN steps |-> IF i < k THEN "completed"
                                      ELSE IF i = k THEN code
                                      ELSE "DEPENDENCY_FAILURE"] :
              k \in 1 .. Len(steps) + 1, code \in OwnFailures }

failedSteps(rep) == {i \in DOMAIN rep : rep[i] # "completed"}

(* classifyResult: the most specific recoverable code wins.                 *)
classifyResult(rep) ==
    LET codes == {rep[i] : i \in DOMAIN rep}
    IN  CASE timedOut -> "TIMEOUT"
          [] ~timedOut /\ aborted -> "CANCELLED"
          [] OTHER ->
               IF "AGENT_UNAVAILABLE" \in codes THEN "AGENT_UNAVAILABLE"
               ELSE IF "DEPENDENCY_FAILURE" \in codes THEN "DEPENDENCY_FAILURE"
               ELSE IF "TIMEOUT" \in codes THEN "TIMEOUT"
               ELSE IF "CANCELLED" \in codes THEN "CANCELLED" ELSE "TASK_ERROR"

(* The plan's tasks behind a set of steps.                                  *)
planTasks(indices) ==
    LET order == strategyTaskOrder IN {order[i] : i \in indices}

unavailable(rep) == {i \in DOMAIN rep : rep[i] = "AGENT_UNAVAILABLE"}
clearable(rep) == {t \in planTasks(unavailable(rep)) : agentId[t] # NoAgent}

(* deterministicReplan: the failed tasks and all that depends on them.      *)
dependents(roots) ==
    {t \in kept : \A removed \in SUBSET kept :
        /\ roots \subseteq removed
        /\ \A u \in kept : deps[u] \cap removed # {} => u \in removed
        => t \in removed}
pruned_rootsOnly(rep) ==                                      \* mutant
    dependents(planTasks({i \in DOMAIN rep : rep[i] \in OwnFailures}))
pruned(rep) == dependents(planTasks(failedSteps(rep)))

Completed ==
    /\ pc = "running" /\ ~timedOut /\ ~aborted
    /\ report' = [i \in DOMAIN steps |-> "completed"]
    /\ finish("completed", "completed")
    /\ UNCHANGED <<deps, strategy, candidate, budget, routed, steps, failure,
                   aborted, timedOut, dispatched, evicted>>

mayRetry(code) == code = "TIMEOUT" /\ canAttempt(attempts + 1)
mayRepair(code, rep) ==
    code = "AGENT_UNAVAILABLE" /\ canAttempt(attempts + 1) /\ clearable(rep) # {}
mayReplan(code, rep) ==
    /\ code = "DEPENDENCY_FAILURE" /\ canAttempt(attempts + 1) /\ canReplan
    /\ kept \ pruned(rep) # {}

retry ==
    /\ decision' = "retry" /\ pc' = "delay"
    /\ UNCHANGED <<status, candidate, repairsUsed, replansUsed, evicted>>

(* The agents of a pool but those that are gone, in order.                  *)
without(agents, gone) ==
    LET left[i \in 0 .. Len(agents)] ==
            IF i = 0 THEN <<>>
            ELSE IF agents[i] \in gone THEN left[i - 1]
            ELSE Append(left[i - 1], agents[i])
    IN  left[Len(agents)]

repair(rep) ==
    LET gone == {routed[steps[i]] : i \in unavailable(rep)} IN
    /\ agentId' = [t \in Task |-> IF t \in clearable(rep) THEN NoAgent
                                                        ELSE agentId[t]]
    /\ pool' = without(pool, gone)
    /\ evicted' = evicted \cup gone
    /\ repairsUsed' = repairsUsed + 1
    /\ decision' = "repair" /\ pc' = "top"
    /\ UNCHANGED <<status, kept, replansUsed>>

replan(rep) ==
    /\ kept' = kept \ pruned(rep)
    /\ replansUsed' = replansUsed + 1
    /\ decision' = "replan" /\ pc' = "top"
    /\ UNCHANGED <<status, agentId, pool, repairsUsed, evicted>>

giveUp(result, last) ==
    /\ finish(result, last)
    /\ UNCHANGED <<candidate, repairsUsed, replansUsed, evicted>>

(* supervisor.run returned a result that is not "completed".                *)
Failed ==
    /\ pc = "running"
    /\ \E rep \in Reports : LET code == classifyResult(rep) IN
          /\ timedOut \/ aborted \/ failedSteps(rep) # {}
          /\ report' = rep /\ failure' = code
          /\ IF aborted \/ code = "CANCELLED" THEN giveUp("cancelled", "abort")
             ELSE IF mayRetry(code) THEN retry
             ELSE IF mayRepair(code, rep) THEN repair(rep)
             ELSE IF mayReplan(code, rep) THEN replan(rep)
             ELSE giveUp(failedAs(code), "failed")
    /\ UNCHANGED <<deps, strategy, attempts, routed, steps, aborted, timedOut,
                   dispatched>>

(* mutant: a run that timed out is retried though the caller aborted it *)
Thrown_timeoutFirst ==
    /\ pc = "running"
    /\ LET code == IF timedOut THEN "TIMEOUT"
                   ELSE IF aborted THEN "CANCELLED" ELSE "RUNTIME_ERROR" IN
          /\ failure' = code
          /\ IF mayRetry(code) THEN retry
             ELSE IF code = "CANCELLED" THEN giveUp("cancelled", "abort")
             ELSE giveUp(failedAs(code), "failed")
    /\ UNCHANGED <<deps, strategy, attempts, attempt, aborted, timedOut,
                   dispatched>>

(* supervisor.run threw; classifyThrown.                                    *)
Thrown ==
    /\ pc = "running"
    /\ LET code == IF timedOut THEN "TIMEOUT"
                   ELSE IF aborted THEN "CANCELLED" ELSE "RUNTIME_ERROR" IN
          /\ failure' = code
          /\ IF aborted THEN giveUp("cancelled", "abort")
             ELSE IF mayRetry(code) THEN retry
             ELSE giveUp(failedAs(code), "failed")
    /\ UNCHANGED <<deps, strategy, attempts, attempt, aborted, timedOut,
                   dispatched>>

Over == pc = "finished" /\ UNCHANGED vars

-----------------------------------------------------------------------------
Next ==
    \/ Top \/ PrepareFails \/ Dispatch
    \/ Abort \/ TimerFires \/ DelayOver
    \/ Completed \/ Failed \/ Thrown
    \/ Over

Spec == Init /\ [][Next]_vars

(* The loop runs, delays end, and supervisor.run returns or throws          *)
(* (Scheduler!RunResolves).                                                 *)
FairSpec ==
    Spec /\ WF_vars(Top \/ PrepareFails \/ Dispatch \/ DelayOver)
         /\ WF_vars(Completed \/ Failed \/ Thrown)

-----------------------------------------------------------------------------
(* Every variable has its type. *)
TypeOK ==
    /\ deps \in Plans /\ strategy \in Strategies
    /\ kept \subseteq Task /\ agentId \in [Task -> Agents \cup {NoAgent}]
    /\ pool \in Seq(Agents)
    /\ attempts \in Nat /\ repairsUsed \in Nat /\ replansUsed \in Nat
    /\ pc \in Phases
    /\ routed \in [Task -> Agents \cup {NoAgent}]
    /\ steps \in Seq(Task) /\ report \in Seq(TaskCodes)
    /\ failure \in FailureCodes
    /\ decision \in {"none"} \cup Recoveries \cup Final
    /\ status \in {"none"} \cup Statuses
    /\ aborted \in BOOLEAN /\ timedOut \in BOOLEAN
    /\ dispatched \in Nat /\ evicted \subseteq Agents

stepsBefore(i) == {steps[j] : j \in 1 .. i - 1}
stepsWith(rep, code) == {steps[i] : i \in {j \in DOMAIN steps : rep[j] = code}}

(* No run of a plan costs more than its budget, whatever mix of retries,    *)
(* repairs and replans it goes through, and each of those is decided only   *)
(* when an attempt is left: the loop never finds its budget exhausted       *)
(* (retry-policy.ts:4-6, docs/r22, lines 3-13).                             *)
BudgetKept ==
    /\ TypeOK
    /\ dispatched <= attempts /\ attempts <= MaxAttempts
    /\ replansUsed <= MaxReplans
    /\ repairsUsed + replansUsed <= attempts
    /\ pc = "top" => attempts < MaxAttempts

(* The run is told "cancelled" exactly when the caller aborted it or its    *)
(* last failure is a cancellation, whatever else failed or timed out        *)
(* meanwhile (manager.ts:106-110).                                          *)
CancelledToldRight ==
    pc = "finished" => (status = "cancelled" <=> aborted \/ failure = "CANCELLED")

(* A strategy gets every task of the candidate once, after the tasks it     *)
(* depends on, in whatever order the plan declares them, and none assigned  *)
(* to an agent that a repair found unavailable (integration.ts:33-37, :83,  *)
(* docs/r23, lines 3-9).                                                    *)
DispatchedRight ==
    pc = "running" =>
        /\ Len(steps) = Cardinality(kept)
        /\ \A t \in kept :
              /\ routed[t] \notin evicted
              /\ \E i \in DOMAIN steps : steps[i] = t /\ deps[t] \subseteq stepsBefore(i)

(* What the loop decides follows the report, which speaks of steps where    *)
(* the plan speaks of tasks: a repair changes the assignment of those tasks *)
(* only that reported their agent unavailable, and a replan keeps exactly   *)
(* the tasks that completed, hence not an independent one that the          *)
(* strategy's chain cancelled.  Once the caller aborted, nothing is         *)
(* dispatched any more (manager.ts:48-53, :106-110, replanner.ts:4-8).      *)
DecisionsRight ==
    [][/\ \A t \in Task : agentId'[t] # agentId[t] =>
             t \in stepsWith(report', "AGENT_UNAVAILABLE")
       /\ kept' # kept => kept' = stepsWith(report', "completed")
       /\ aborted => dispatched' = dispatched]_vars

(* Every run ends (retry-policy.ts:4-6).                                    *)
RunEnds == <>(pc = "finished")

=============================================================================
