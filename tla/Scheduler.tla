----------------------------- MODULE Scheduler -----------------------------
(***************************************************************************)
(* One call of Scheduler.run (packages/dsh-multi-agent/src/scheduler.ts):  *)
(* the execution of a validated TaskGraph with bounded parallelism and at  *)
(* most one task in flight per agent.                                      *)
(*                                                                         *)
(* The code is one JavaScript coroutine.  Its main loop runs without       *)
(* interruption between two awaits, so the loops over graph.tasks() and    *)
(* graph.ready() are unrolled here one task at a time behind `pc' and      *)
(* `cursor', and nothing else may step until pc = "wait".  What interleaves*)
(* with the loop is exactly what the event loop can run while it awaits:   *)
(* a runner's promise settling (Settle) and an abort (Abort), any number   *)
(* of them before the loop is resumed.  An abort can also be raised by the *)
(* synchronous part of #execute, hence the choice of aborted' in Launch.   *)
(*                                                                         *)
(* A task is named by its position in the graph's insertion order.         *)
(***************************************************************************)
EXTENDS Naturals, Sequences, FiniteSets

CONSTANTS
    N,            (* number of tasks; task t is the t-th one inserted       *)
    Agents,       (* agent ids                                              *)
    Concurrency,  (* SchedulerOptions.concurrency; N or more is "unlimited" *)
    Graphs,       (* dependency functions of the graphs run may be given    *)
    Assignments   (* the agents those graphs may give their tasks           *)

Task == 1..N

(* A dependency function has no cycle when the tasks can be ranked. *)
Acyclic(g) == \E rank \in [Task -> Task] :
                  \A t \in Task : \A d \in g[t] : rank[d] < rank[t]

(* Every task is inserted after the tasks it depends on. *)
DeclaredInOrder(g) == \A t \in Task : \A d \in g[t] : d < t

ASSUME NAssumption == N \in Nat
ASSUME ConcurrencyAssumption == Concurrency \in Nat \ {0}
ASSUME GraphsAssumption == Graphs \subseteq [Task -> SUBSET Task]
ASSUME AssignmentsAssumption == Assignments \subseteq [Task -> Agents]

VARIABLES
    deps,      (* dependsOn of each task                                     *)
    agentOf,   (* agentId of each task                                       *)
    status,    (* Task.status; the status "ready" is overwritten at once     *)
    pc,        (* where run() is                                             *)
    cursor,    (* the task the current loop of run() is at                   *)
    running,   (* the local set `running'                                    *)
    busy,      (* the local set `busyAgents'                                 *)
    inflight,  (* tasks whose #execute promise has not settled yet           *)
    launched,  (* history: tasks #execute was called with                    *)
    order,     (* the local `order'; outcomes.set always goes with its push  *)
    aborted,   (* controller.signal.aborted                                  *)
    stopped,   (* the local `stopped'                                        *)
    woken      (* the promise the loop awaits is resolved                    *)

graph == <<deps, agentOf>>
vars == <<deps, agentOf, status, pc, cursor, running, busy, inflight, launched,
          order, aborted, stopped, woken>>

Outcomes == {"completed", "failed", "cancelled"}
Status == {"pending", "running"} \cup Outcomes
SyncPhases == {"cancel", "launch", "check", "teardown"}
Phases == {"idle", "wait", "resolved", "stalled"} \cup SyncPhases

isTerminal(t) == status[t] \in Outcomes
isComplete == \A t \in Task : isTerminal(t)
depsCompleted(t) == \A d \in deps[t] : status[d] = "completed"
blocked(t) == \E d \in deps[t] : status[d] \in {"failed", "cancelled"}

-----------------------------------------------------------------------------
Init ==
    /\ deps \in Graphs
    /\ agentOf \in Assignments
    /\ status = [t \in Task |-> "pending"]
    /\ pc = "idle" /\ cursor = 1
    /\ running = {} /\ busy = {} /\ inflight = {} /\ launched = {}
    /\ order = <<>>
    /\ aborted = FALSE /\ stopped = FALSE /\ woken = FALSE

(* run() enters its loop; the caller's signal may be aborted already. *)
Run ==
    /\ pc = "idle"
    /\ pc' = "cancel" /\ cursor' = 1
    /\ aborted' \in BOOLEAN
    /\ UNCHANGED <<graph, status, running, busy, inflight, launched, order,
                   stopped, woken>>

(* cancelBlocked: the task gets its outcome without ever being executed. *)
cancelBlocked(t) ==
    /\ status' = [status EXCEPT ![t] = "cancelled"]
    /\ order' = Append(order, t)

(* mutant: the pass runs from the last task to the first *)
CancelNext_backwards ==
    /\ pc = "cancel" /\ cursor <= N
    /\ LET t == N + 1 - cursor IN
          IF status[t] = "pending" /\ blocked(t)
             THEN cancelBlocked(t)
             ELSE UNCHANGED <<status, order>>
    /\ cursor' = cursor + 1
    /\ UNCHANGED <<graph, pc, running, busy, inflight, launched, aborted,
                   stopped, woken>>

(* 1) one pass over the tasks, in insertion order *)
CancelNext ==
    /\ pc = "cancel" /\ cursor <= N
    /\ IF status[cursor] = "pending" /\ blocked(cursor)
          THEN cancelBlocked(cursor)
          ELSE UNCHANGED <<status, order>>
    /\ cursor' = cursor + 1
    /\ UNCHANGED <<graph, pc, running, busy, inflight, launched, aborted,
                   stopped, woken>>

(* mutant: the launch pass does not ask whether the run was stopped *)
CancelDone_launches ==
    /\ pc = "cancel" /\ cursor > N
    /\ stopped' = (stopped \/ aborted)
    /\ pc' = "launch" /\ cursor' = 1
    /\ UNCHANGED <<graph, status, running, busy, inflight, launched, order,
                   aborted, woken>>

CancelDone ==
    /\ pc = "cancel" /\ cursor > N
    /\ stopped' = (stopped \/ aborted)
    /\ pc' = IF stopped' THEN "check" ELSE "launch"
    /\ cursor' = 1
    /\ UNCHANGED <<graph, status, running, busy, inflight, launched, order,
                   aborted, woken>>

(* 2) launch the ready tasks in insertion order.  graph.ready() is a copy   *)
(* taken before the loop; starting one task makes no other task ready.      *)
launchable(t) ==
    /\ status[t] = "pending" /\ depsCompleted(t)
    /\ Cardinality(running) < Concurrency
    /\ agentOf[t] \notin busy

start(t) ==
    /\ status' = [status EXCEPT ![t] = "running"]
    /\ running' = running \cup {t}
    /\ busy' = busy \cup {agentOf[t]}
    /\ inflight' = inflight \cup {t}
    /\ launched' = launched \cup {t}

Launch ==
    /\ pc = "launch" /\ cursor <= N /\ launchable(cursor)
    /\ start(cursor)
    /\ aborted' \in {aborted, TRUE}
    /\ cursor' = cursor + 1
    /\ UNCHANGED <<graph, pc, order, stopped, woken>>

SkipLaunch ==
    /\ pc = "launch" /\ cursor <= N /\ ~launchable(cursor)
    /\ cursor' = cursor + 1
    /\ UNCHANGED <<graph, status, pc, running, busy, inflight, launched, order,
                   aborted, stopped, woken>>

LaunchDone ==
    /\ pc = "launch" /\ cursor > N
    /\ pc' = "check"
    /\ UNCHANGED <<graph, status, cursor, running, busy, inflight, launched,
                   order, aborted, stopped, woken>>

(* 3) termination and stall checks, then 4) wait for an event *)
CheckComplete ==
    /\ pc = "check" /\ running = {} /\ isComplete
    /\ pc' = IF stopped THEN "teardown" ELSE "resolved"
    /\ cursor' = 1
    /\ UNCHANGED <<graph, status, running, busy, inflight, launched, order,
                   aborted, stopped, woken>>

CheckStopped ==
    /\ pc = "check" /\ (running = {} => ~isComplete)
    /\ stopped \/ aborted
    /\ stopped' = TRUE
    /\ pc' = "teardown" /\ cursor' = 1
    /\ UNCHANGED <<graph, status, running, busy, inflight, launched, order,
                   aborted, woken>>

CheckStalled ==
    /\ pc = "check" /\ running = {} /\ ~isComplete
    /\ ~stopped /\ ~aborted
    /\ pc' = "stalled"
    /\ UNCHANGED <<graph, status, cursor, running, busy, inflight, launched,
                   order, aborted, stopped, woken>>

CheckWait ==
    /\ pc = "check" /\ running # {}
    /\ ~stopped /\ ~aborted
    /\ pc' = "wait" /\ woken' = FALSE
    /\ UNCHANGED <<graph, status, cursor, running, busy, inflight, launched,
                   order, aborted, stopped>>

Resume ==
    /\ pc = "wait" /\ woken
    /\ pc' = "cancel" /\ cursor' = 1
    /\ UNCHANGED <<graph, status, running, busy, inflight, launched, order,
                   aborted, stopped, woken>>

(* mutant: only the tasks that never started are torn down *)
TeardownNext_pendingOnly ==
    /\ pc = "teardown" /\ cursor <= N
    /\ IF status[cursor] = "pending"
          THEN cancelBlocked(cursor) ELSE UNCHANGED <<status, order>>
    /\ cursor' = cursor + 1
    /\ UNCHANGED <<graph, pc, running, busy, inflight, launched, aborted,
                   stopped, woken>>

(* 5) cooperative teardown, again in insertion order *)
TeardownNext ==
    /\ pc = "teardown" /\ cursor <= N
    /\ IF isTerminal(cursor)
          THEN UNCHANGED <<status, order, running, busy>>
          ELSE /\ cancelBlocked(cursor)
               /\ running' = running \ {cursor}
               /\ busy' = IF status[cursor] = "running"
                             THEN busy \ {agentOf[cursor]} ELSE busy
    /\ cursor' = cursor + 1
    /\ UNCHANGED <<graph, pc, inflight, launched, aborted, stopped, woken>>

TeardownDone ==
    /\ pc = "teardown" /\ cursor > N
    /\ pc' = "resolved"
    /\ UNCHANGED <<graph, status, cursor, running, busy, inflight, launched,
                   order, aborted, stopped, woken>>

settle_leaksAgent(t, outcome) ==                              \* mutant
    /\ IF status[t] = "running"
          THEN /\ status' = [status EXCEPT ![t] = outcome]
               /\ order' = Append(order, t)
          ELSE UNCHANGED <<status, order>>
    /\ running' = running \ {t}
    /\ busy' = IF outcome = "completed" THEN busy \ {agentOf[t]} ELSE busy

(* settle: the promise of an executed task resolves, before or after the    *)
(* run is over.  A task that is no longer running drops the outcome.        *)
settle(t, outcome) ==
    /\ IF status[t] = "running"
          THEN /\ status' = [status EXCEPT ![t] = outcome]
               /\ order' = Append(order, t)
          ELSE UNCHANGED <<status, order>>
    /\ running' = running \ {t}
    /\ busy' = busy \ {agentOf[t]}

wake == woken' = (woken \/ pc = "wait")

Settle(t, outcome) ==
    /\ t \in inflight /\ pc \notin SyncPhases
    /\ inflight' = inflight \ {t}
    /\ settle(t, outcome)
    /\ wake
    /\ UNCHANGED <<graph, pc, cursor, launched, aborted, stopped>>

(* mutant: the abort listener does not wake the loop *)
Abort_silent ==
    /\ pc = "wait" /\ ~aborted
    /\ aborted' = TRUE
    /\ UNCHANGED <<graph, status, pc, cursor, running, busy, inflight,
                   launched, order, stopped, woken>>

(* stop(), or the caller's AbortSignal, while the loop waits *)
Abort ==
    /\ pc = "wait" /\ ~aborted
    /\ aborted' = TRUE
    /\ wake
    /\ UNCHANGED <<graph, status, pc, cursor, running, busy, inflight,
                   launched, order, stopped>>

(* run() has returned or thrown and no promise is left: nothing more happens. *)
Over ==
    /\ pc \in {"resolved", "stalled"} /\ inflight = {}
    /\ UNCHANGED vars

-----------------------------------------------------------------------------
Loop ==
    \/ Run
    \/ CancelNext \/ CancelDone
    \/ Launch \/ SkipLaunch \/ LaunchDone
    \/ CheckComplete \/ CheckStopped \/ CheckStalled \/ CheckWait
    \/ Resume
    \/ TeardownNext \/ TeardownDone

Settles == \E t \in Task, outcome \in Outcomes : Settle(t, outcome)

Next == Loop \/ Settles \/ Abort \/ Over

Spec == Init /\ [][Next]_vars

(* A runner settles: its timer (60 s unless set otherwise) and the grace    *)
(* window after it are both bounded.                                        *)
SettleFairness ==
    \A t \in Task : WF_vars(\E outcome \in Outcomes : Settle(t, outcome))

-----------------------------------------------------------------------------
(* Every variable has its type. *)
TypeOK ==
    /\ deps \in Graphs
    /\ agentOf \in [Task -> Agents]
    /\ status \in [Task -> Status]
    /\ pc \in Phases
    /\ cursor \in 1 .. N + 1
    /\ running \in SUBSET Task
    /\ busy \in SUBSET Agents
    /\ inflight \in SUBSET Task
    /\ launched \in SUBSET Task
    /\ order \in Seq(Task)
    /\ aborted \in BOOLEAN /\ stopped \in BOOLEAN /\ woken \in BOOLEAN

(* A task is executed only after all it depends on completed, and stays so: *)
(* no later failure or teardown takes a dependency's completion back        *)
(* (scheduler.ts:9).                                                        *)
DependencyOrder == \A t \in launched : \A d \in deps[t] : status[d] = "completed"

(* At most one promise per agent is in flight in one run, the promises a    *)
(* stopped run leaves behind included (scheduler.ts:14-18).                 *)
AgentExclusive ==
    \A t, u \in inflight : agentOf[t] = agentOf[u] => t = u

(* No more than `concurrency' promises are in flight (scheduler.ts:12).     *)
ConcurrencyBound == Cardinality(inflight) <= Concurrency

(* A result is never replaced, whatever settles after it: a run that was    *)
(* stopped drops late results (scheduler.ts:22-24).                         *)
OutcomesFinal ==
    [][\A t \in Task : isTerminal(t) => status'[t] = status[t]]_vars

(* When run() resolves every task is terminal and stands in `order' exactly *)
(* once (scheduler.ts:19-21, :25-26).                                       *)
ReportComplete ==
    pc = "resolved" =>
        /\ isComplete
        /\ Len(order) = N
        /\ \A t \in Task : \E i \in DOMAIN order : order[i] = t

(* `order' is a completion sequence: what a completed task depends on comes *)
(* before it, even when the graph declares it after.                        *)
CompletionOrder ==
    \A i \in DOMAIN order : status[order[i]] = "completed" =>
        \A d \in deps[order[i]] : \E j \in 1 .. i - 1 : order[j] = d

(* So what a run reports is complete and in order, although tasks settle in *)
(* any order, and some are cancelled beside them.                           *)
ReportRight == ReportComplete /\ CompletionOrder

(* The loop never sleeps while it could start a task: an event that frees   *)
(* an agent or a slot, or completes a dependency, always gets its launch    *)
(* pass (scheduler.ts:27-28).                                               *)
NoMissedLaunch ==
    pc = "wait" /\ ~woken =>
        \A t \in Task :
            /\ status[t] = "pending"
            /\ \A d \in deps[t] : status[d] = "completed"
            => \/ Cardinality(inflight) = Concurrency
               \/ \E u \in inflight : agentOf[u] = agentOf[t]

(* The run never throws "scheduler stalled" (scheduler.ts:192-195).         *)
NoStall == pc # "stalled"

(* It never does so when tasks are declared after their dependencies, as    *)
(* the chain and fan-out strategies declare them (scheduler.ts:165-173).    *)
OrderedNeverStalls == DeclaredInOrder(deps) => NoStall

-----------------------------------------------------------------------------
(* The promise of TaskRun that a caller relies on, for whatever the loop    *)
(* does between two awaits.                                                 *)
phase == CASE pc = "resolved" -> "resolved"
           [] pc = "stalled"  -> "failed"
           [] OTHER           -> IF stopped THEN "closing" ELSE "open"

Contract == INSTANCE TaskRun

(* run() implements TaskRun: seen through the statuses of the tasks alone,  *)
(* every step is one TaskRun allows (scheduler.ts:7-28).                    *)
ImplementsTaskRun == Contract!Spec
=============================================================================
