----------------------------- MODULE NativeRun -----------------------------
(***************************************************************************)
(* One run of tasks, from the caller to the report: Supervisor.run         *)
(* (supervisor/supervisor.ts) dispatches to a strategy (strategies/*.ts),  *)
(* the strategy builds a graph and hands it to Scheduler.run, which judges *)
(* it (GraphValidation) and then executes it (Scheduler); what the runners *)
(* answer goes back through the strategy's own records into its report and *)
(* from there into the result.  runDag has no Supervisor and takes any     *)
(* graph; the graph alone is also judged by the planner's validator.       *)
(*                                                                         *)
(* From the call to the loop's first await everything is synchronous, and  *)
(* so is the loop between two awaits.  The strategy, and after it the      *)
(* Supervisor, are resumed some microtasks after Scheduler.run resolves:   *)
(* an answer, an abort or a further call may come in between, a timer may  *)
(* not.                                                                    *)
(***************************************************************************)
EXTENDS Scheduler

CONSTANT Missing   (* the id of no task *)
ASSUME MissingAssumption == Missing \notin Nat

VARIABLES
    declared, strict, vpc, vcursor, color, stack, errors, cycle,
                 (* the judgement of the graph, see GraphValidation          *)
    strategy,    (* how the tasks were given                                 *)
    given,       (* what the strategy recorded of each answer                *)
    context,     (* the step whose text or result a step was prompted with   *)
    report,      (* the strategy's report: [entries, final], or NoReport     *)
    state,       (* Supervisor.#state                                        *)
    cancelled,   (* the local `cancelled'                                    *)
    timer,       (* the whole-run timer; "fired" is the local `timedOut'     *)
    result       (* what Supervisor.run returned or threw                    *)

verdict == <<declared, strict, vpc, vcursor, color, stack, errors, cycle>>
records == <<given, context, report>>
supervisor == <<state, cancelled, timer, result>>
allVars == <<vars, verdict, strategy, records, supervisor>>

Judge == INSTANCE GraphValidation
             WITH deps <- declared, pc <- vpc, cursor <- vcursor

Chains == {"sequential", "relay"}
Supervised == Chains \cup {"broadcast"}
Answers == {"text", "silent", "failed", "cancelled"}
outcomeOf(a) == IF a \in {"text", "silent"} THEN "completed" ELSE a
NoReport == [entries |-> <<>>, final |-> 0]
Terminal == {"completed", "failed", "cancelled", "timeout"}

(* lifecycle.ts: the transitions a run may make.                            *)
legal(from, to) ==
    \/ from = "running" /\ to \in {"aggregating"} \cup (Terminal \ {"completed"})
    \/ from = "aggregating" /\ to \in Terminal

-----------------------------------------------------------------------------
(* The graph a strategy builds; runDag and the planner's validator take any.*)
flat == [t \in Task |-> {}]
chain == [t \in Task |-> IF t = 1 THEN {} ELSE {t - 1}]
built(g) ==
    /\ strategy = "broadcast" => g = flat
    /\ strategy \in Chains => g = chain

(* validateBroadcastOptions turns away an agent that is named twice.        *)
agentsDistinct == \A t, u \in Task : agentOf[t] = agentOf[u] => t = u

RunInit ==
    /\ strategy \in Supervised \cup {"dag", "plan"}
    /\ Judge!Init /\ built(declared) /\ strict = (strategy # "plan")
    /\ deps = [t \in Task |-> declared[t] \cap Task] /\ Init
    /\ strategy = "broadcast" => agentsDistinct
    /\ strategy = "plan" => agentOf = CHOOSE f \in Assignments : TRUE
    /\ given = [t \in Task |-> "none"] /\ context = [t \in Task |-> 0]
    /\ report = NoReport
    /\ state \in IF strategy \in Supervised THEN {"created"} \cup Terminal
                                            ELSE {"created"}
    /\ cancelled = FALSE /\ result = "none"
    /\ timer \in IF strategy \in Supervised THEN {"none", "armed"} ELSE {"none"}

(* Supervisor.run accepts the input: the lifecycle starts over, and a signal*)
(* that is aborted already is noticed at once.                              *)
Call ==
    /\ strategy \in Supervised /\ pc = "idle"
    /\ state # "running" /\ result = "none"
    /\ state' = "running" /\ cancelled' \in BOOLEAN
    /\ UNCHANGED <<vars, verdict, strategy, records, timer, result>>

(* new Scheduler throws on a limit that is no positive integer, which no    *)
(* validation of the input looks at.                                        *)
DispatchThrows ==
    /\ strategy \in Supervised /\ state = "running"
    /\ vpc = "check" /\ vcursor = 1
    /\ result' = IF cancelled THEN "cancelled" ELSE "failed"
    /\ state' = result'
    /\ timer' = "none"
    /\ UNCHANGED <<vars, verdict, strategy, records, cancelled>>

Validate ==
    /\ strategy \in Supervised => state = "running"
    /\ Judge!Next
    /\ UNCHANGED <<vars, strategy, records, supervisor>>

Begin ==
    /\ strict /\ vpc = "done" /\ errors = {}
    /\ Run
    /\ strategy \in Supervised => aborted' = cancelled
    /\ UNCHANGED <<verdict, strategy, records, supervisor>>

-----------------------------------------------------------------------------
(* The prompt of a step: a sequential step is given the result before it, a *)
(* turn of a relay the draft before it, if there is one.                    *)
hasResult(t) == t > 0 /\ given[t] # "none"
hasDraft(t) == t > 0 /\ given[t] = "text"
previous(t) ==
    IF \/ strategy = "sequential" /\ hasResult(t - 1)
       \/ strategy = "relay" /\ hasDraft(t - 1)
       THEN t - 1 ELSE 0

(* The caller's signal, if the synchronous part of #execute aborts it, is   *)
(* heard by the Supervisor too.                                             *)
StartStep ==
    /\ Launch
    /\ context' = [context EXCEPT ![cursor] = previous(cursor)]
    /\ cancelled' = \/ cancelled
                    \/ strategy \in Supervised /\ aborted' # aborted
    /\ UNCHANGED <<verdict, strategy, given, report, state, timer, result>>

Between ==
    /\ \/ CancelNext \/ CancelDone \/ SkipLaunch \/ LaunchDone
       \/ CheckComplete \/ CheckStopped \/ CheckStalled \/ CheckWait
       \/ Resume \/ TeardownNext \/ TeardownDone
    /\ UNCHANGED <<verdict, strategy, records, supervisor>>

(* executeStep and executeTurn note the answer before the scheduler has it. *)
Answer(t) ==
    /\ strategy \in Chains
    /\ t \in inflight /\ given[t] = "none" /\ pc \notin SyncPhases
    /\ \E a \in Answers : given' = [given EXCEPT ![t] = a]
    /\ UNCHANGED <<vars, verdict, strategy, context, report, supervisor>>

(* mutant: the note is made beside the answer, not before it is passed on *)
SettleStep_unawaited(t) ==
    /\ IF strategy \in Chains
          THEN \E a \in Answers : /\ given[t] \in {"none", a}
                                  /\ Settle(t, outcomeOf(a))
          ELSE \E outcome \in Outcomes : Settle(t, outcome)
    /\ UNCHANGED <<verdict, strategy, records, supervisor>>

SettleStep(t) ==
    /\ IF strategy \in Chains
          THEN given[t] # "none" /\ Settle(t, outcomeOf(given[t]))
          ELSE \E outcome \in Outcomes : Settle(t, outcome)
    /\ UNCHANGED <<verdict, strategy, records, supervisor>>

(* The builder of a sequential step's prompt throws: no note is made.       *)
PromptThrows(t) ==
    /\ strategy = "sequential" /\ given[t] = "none"
    /\ Settle(t, "failed")
    /\ UNCHANGED <<verdict, strategy, records, supervisor>>

-----------------------------------------------------------------------------
(* The entry of a task: what was noted, else what the scheduler says.       *)
entry(t) == IF given[t] # "none" THEN given[t] ELSE status[t]

last(S) == IF S = {} THEN 0 ELSE CHOOSE k \in S : \A j \in S : j <= k
(* The last successful step of a sequence; the draft of a relay, followed   *)
(* turn by turn as far as each turn left one.                               *)
lastSuccess == last({t \in Task : outcomeOf(entry(t)) = "completed"})
lastDraft == last({t \in Task : \A u \in 1 .. t : hasDraft(u)})
finalStep ==
    CASE strategy = "sequential" -> lastSuccess
      [] strategy = "relay"      -> lastDraft
      [] OTHER                   -> 0

Report ==
    /\ pc = "resolved" /\ report = NoReport
    /\ report' = [entries |-> [t \in Task |-> entry(t)], final |-> finalStep]
    /\ UNCHANGED <<vars, verdict, strategy, given, context, supervisor>>

(* strategyEnvelope: a run is a success if it was not stopped and all its   *)
(* entries are.                                                             *)
ok ==
    /\ ~stopped /\ ~aborted
    /\ \A t \in Task : outcomeOf(report.entries[t]) = "completed"

runStatus ==
    IF timer = "fired" THEN "timeout"
    ELSE IF cancelled THEN "cancelled"
    ELSE IF ok THEN "completed" ELSE "failed"

Aggregate ==
    /\ strategy \in Supervised /\ report # NoReport /\ result = "none"
    /\ IF legal(state, "aggregating") /\ legal("aggregating", runStatus)
          THEN state' = runStatus /\ result' = runStatus
          ELSE state' = state /\ result' = "illegal"
    /\ timer' = IF timer = "armed" THEN "none" ELSE timer
    /\ UNCHANGED <<vars, verdict, strategy, records, cancelled>>

-----------------------------------------------------------------------------
(* The signal of the caller, until Supervisor.run is done with it.          *)
AbortRun ==
    /\ IF strategy \in Supervised
          THEN /\ ~cancelled /\ result = "none" /\ pc \in {"wait", "resolved"}
               /\ cancelled' = TRUE
               /\ IF pc = "wait" /\ ~aborted THEN Abort ELSE UNCHANGED vars
          ELSE Abort /\ UNCHANGED cancelled
    /\ UNCHANGED <<verdict, strategy, records, state, timer, result>>

(* No promise is about to resume anyone.                                    *)
asleep == pc = "wait" /\ ~woken /\ \A t \in inflight : given[t] = "none"

TimerFires_flagOnly ==                                        \* mutant
    /\ timer = "armed" /\ asleep
    /\ timer' = "fired"
    /\ UNCHANGED <<vars, verdict, strategy, records, state, cancelled, result>>

TimerFires ==
    /\ timer = "armed" /\ asleep
    /\ timer' = "fired"
    /\ Abort
    /\ UNCHANGED <<verdict, strategy, records, state, cancelled, result>>

(* mutant: whoever calls moves the one lifecycle *)
OtherCall_unguarded ==
    /\ strategy \in Supervised /\ pc \in {"wait", "resolved"}
    /\ state' = "failed"
    /\ UNCHANGED <<vars, verdict, strategy, records, cancelled, timer, result>>

(* Another call of the same Supervisor, with an input that is not valid: it *)
(* is turned away while this run is active, and fails otherwise.            *)
OtherCall ==
    /\ strategy \in Supervised /\ pc \in {"wait", "resolved"}
    /\ state' = IF state \in {"running", "aggregating"} THEN state ELSE "failed"
    /\ UNCHANGED <<vars, verdict, strategy, records, cancelled, timer, result>>

(* Nothing is left that could happen.                                       *)
RunOver ==
    /\ \/ pc \in {"resolved", "stalled"}
       \/ pc = "idle" /\ result # "none"
       \/ pc = "idle" /\ vpc = "done" /\ (errors # {} \/ ~strict)
    /\ inflight = {} /\ (pc = "resolved" => report # NoReport)
    /\ strategy \in Supervised => result # "none"
    /\ UNCHANGED allVars

-----------------------------------------------------------------------------
RunNext ==
    \/ Call \/ DispatchThrows \/ Validate \/ Begin \/ StartStep \/ Between
    \/ \E t \in Task : Answer(t) \/ SettleStep(t) \/ PromptThrows(t)
    \/ Report \/ Aggregate
    \/ AbortRun \/ TimerFires \/ OtherCall
    \/ RunOver

(* What is synchronous goes on, a promise that resolved resumes who awaits  *)
(* it, and a timer that is armed fires.  Runners need not settle.           *)
RunSpec ==
    /\ RunInit /\ [][RunNext]_allVars
    /\ WF_allVars(Call \/ DispatchThrows \/ Validate \/ Begin \/ StartStep \/ Between)
    /\ WF_allVars(Report \/ Aggregate)
    /\ \A t \in Task : WF_allVars(given[t] # "none" /\ SettleStep(t))
    /\ WF_allVars(TimerFires)

-----------------------------------------------------------------------------
(* Every variable has its type. *)
RunTypeOK ==
    /\ TypeOK
    /\ strategy \in Supervised \cup {"dag", "plan"}
    /\ given \in [Task -> Answers \cup {"none"}] /\ context \in [Task -> 0 .. N]
    /\ report = NoReport \/ report \in [entries : [Task -> Answers \cup Outcomes],
                                        final : 0 .. N]
    /\ state \in {"created", "running"} \cup Terminal
    /\ cancelled \in BOOLEAN /\ timer \in {"none", "armed", "fired"}
    /\ result \in {"none", "illegal"} \cup Terminal

(* See GraphValidation.                                                     *)
VerdictRight == Judge!VerdictRight

(* A judgement that was begun ends (graph.ts:136-174).  The abort of a      *)
(* running call resolves it, whether the runners in flight ever settle or   *)
(* not; without one, a call on a graph that was accepted and is declared in *)
(* order returns if every runner settles (scheduler.ts:22-26).              *)
RunResolves ==
    /\ (vcursor > 1 \/ vpc = "search") ~> vpc = "done"
    /\ aborted ~> pc = "resolved"
    /\ DeclaredInOrder(deps) /\ SettleFairness =>
          (pc # "idle" ~> pc = "resolved")

isDone(t) == outcomeOf(report.entries[t]) = "completed"

(* A report says of a task what the scheduler says, up to one thing: in a   *)
(* run that was stopped, a step whose answer came too late for the scheduler*)
(* may stand as completed.  Even so the completed steps of a chain are its  *)
(* first ones (sequential.ts:96-110, relay.ts:116-130).                     *)
RecordsRight ==
    /\ RunTypeOK
    /\ report # NoReport => \A t \in Task :
          /\ status[t] = "completed" => isDone(t)
          /\ isDone(t) /\ status[t] # "completed" => stopped
          /\ strategy \in Chains /\ isDone(t) => \A u \in 1 .. t - 1 : isDone(u)

(* No step of a chain is prompted without what came before it, whatever the *)
(* microtasks do: a sequential step always has the result before it, a turn *)
(* the draft before it, unless the turn before it was completed without a   *)
(* text.  So the final draft is the last one, unless there was such a turn  *)
(* (sequential.ts:74-91, relay.ts:84-112, :132-137).                        *)
ContextRight ==
    /\ \A t \in launched \ {1} :
          /\ strategy = "sequential" => context[t] = t - 1
          /\ strategy = "relay" => context[t] = t - 1 \/ given[t - 1] = "silent"
    /\ report # NoReport => \A t \in Task :
          /\ strategy = "sequential" /\ isDone(t) => report.final >= t
          /\ strategy = "relay" /\ report.entries[t] = "text" =>
                \/ report.final >= t
                \/ \E u \in 1 .. t - 1 : report.entries[u] = "silent"

(* So a strategy tells the caller, and each agent, the truth: its records   *)
(* are those of the scheduler, although they are made beside it.            *)
StrategyRight == RecordsRight /\ ContextRight

(* What Supervisor.run tells is true to the tasks, the timer and the signal,*)
(* a timeout before an abort, although both flags and the report come from  *)
(* different moments; and nobody else's call disturbs the lifecycle of an   *)
(* active run (supervisor.ts:191-195, :223-232).                            *)
OutcomeRight ==
    /\ strategy \in Supervised /\ pc \notin {"idle", "resolved"} => state = "running"
    /\ result # "none" =>
        /\ result \in Terminal /\ state \in {result, "failed"}
        /\ result = "timeout" <=> timer = "fired"
        /\ result = "cancelled" <=> cancelled /\ timer # "fired"
        /\ aborted => result \in {"timeout", "cancelled"}
        /\ result = "completed" => \A t \in Task : status[t] = "completed"
        /\ result = "failed" /\ pc = "resolved" =>
              \E t \in launched : status[t] # "completed"

(* A run with a timeout returns though no runner ever settles, and so does  *)
(* one that is aborted; without either it returns if the runners settle     *)
(* (supervisor.ts:14-20).                                                   *)
RunReturns ==
    /\ timer = "armed" \/ cancelled ~> result # "none"
    /\ SettleFairness => (state = "running" ~> result # "none")
=============================================================================
