---------------------------- MODULE TaskScheduler ----------------------------
(***************************************************************************)
(* TaskScheduler.execute_run of the Python runtime (runtime/scheduler.py): *)
(* a plan executed as a DAG on the shared pool, with a deadline per task   *)
(* and one for the run, and cooperative cancellation.                      *)
(*                                                                         *)
(* One thread runs the loop of _run; the workers of the pool, the other    *)
(* runs that use it and the clock move at any time in between.  A step of  *)
(* the loop here is a stretch of code that reads what they change at one   *)
(* point only.                                                             *)
(*                                                                         *)
(* A task is named by its place in the plan.  on_event callbacks that      *)
(* raise, and task functions that answer for another task, are left out.   *)
(***************************************************************************)
EXTENDS Naturals, FiniteSets

CONSTANTS
    N,               (* number of tasks of the plan                         *)
    Workers,         (* size of the shared pool                             *)
    MaxConcurrency,  (* max_concurrency; N or more is None                  *)
    MaxTime,         (* the clock stops here                                *)
    Plans,           (* dependency functions of the plans                   *)
    Timeouts,        (* timeouts the tasks of a plan may have               *)
    Deadlines        (* run deadlines                                       *)

Task == 1..N
Never == MaxTime + 1  (* no timeout, no deadline                            *)

ASSUME NAssumption == N \in Nat
ASSUME WorkersAssumption == Workers \in Nat \ {0}
ASSUME MaxConcurrencyAssumption == MaxConcurrency \in Nat \ {0}
ASSUME TimeAssumption ==
    /\ MaxTime \in Nat
    /\ Timeouts \subseteq [Task -> 1 .. Never] /\ Deadlines \subseteq 0 .. Never
ASSUME PlansAssumption ==    (* what validate() let pass: acyclic            *)
    /\ Plans \subseteq [Task -> SUBSET Task]
    /\ \A g \in Plans, S \in SUBSET Task : S # {} => \E t \in S : g[t] \cap S = {}

VARIABLES
    deps, timeoutOf,    (* the plan: depends_on and timeout of each task    *)
    runDeadline,        (* deadline of the run                              *)
    clock,              (* time.monotonic()                                 *)
    pc,                 (* where _run is                                    *)
    cursor,             (* the loop of _launch_ready has looked below this  *)
    now,                (* its `now'                                        *)
    pending, running,   (* the dicts of these names                         *)
    finished,           (* what wait() returned and is not collected yet    *)
    results,            (* the dict of results; "none" where it has no key  *)
    deadlineOf,         (* _Running.deadline of the running tasks           *)
    told, runTold,      (* cancelled task tokens; the run's token           *)
    answer,             (* how a task's callable ended                      *)
    raised,             (* the exception that left the loop                 *)
    status,             (* RunResult.status                                 *)
    slots, future, others

Pool == INSTANCE BoundedExecutor WITH Jobs <- Task

pool == <<slots, future, others>>
plan == <<deps, timeoutOf, runDeadline>>
tokens == <<told, runTold>>
launch == <<cursor, now, deadlineOf>>
verdict == <<raised, status>>
vars == <<plan, clock, pc, launch, pending, running, finished, results, tokens,
          answer, verdict, pool>>

Answers == {"success", "failed", "timeout", "cancelled", "budget"}
Unsuccessful == {"failed", "timeout", "cancelled", "skipped"}
Terminal == Unsuccessful \cup {"success"}
Phases == {"skip", "launch", "wait", "collect", "drained", "abort", "over"}

Init ==
    /\ deps \in Plans /\ timeoutOf \in Timeouts
    /\ runDeadline \in Deadlines
    /\ clock = 0 /\ now = 0 /\ cursor = 1
    /\ pc = "skip"
    /\ pending = Task /\ running = {} /\ finished = {}
    /\ results = [t \in Task |-> "none"]
    /\ deadlineOf = [t \in Task |-> Never]
    /\ told = {} /\ runTold = FALSE
    /\ answer = [t \in Task |-> "none"]
    /\ raised = "none" /\ status = "none"
    /\ Pool!PoolInit

lesser(a, b) == IF a <= b THEN a ELSE b
finish(S, s) == results' = [t \in Task |-> IF t \in S THEN s ELSE results[t]]
drop(S) ==
    /\ running' = running \ S
    /\ deadlineOf' = [t \in Task |-> IF t \in S THEN Never ELSE deadlineOf[t]]
leave(exception) == pc' = "abort" /\ raised' = exception

-----------------------------------------------------------------------------
(* _skip_blocked: one pass over the plan; a task skipped blocks those after *)
(* it in the plan.                                                          *)
skippable(S) ==
    \A t \in S : \E d \in deps[t] : results[d] \in Unsuccessful \/ (d \in S /\ d < t)
blocked == UNION {S \in SUBSET pending : skippable(S)}

(* The top of the loop, up to the one reading of the clock in               *)
(* _launch_ready.                                                           *)
SkipBlocked ==
    /\ pc = "skip" /\ pending \cup running # {}
    /\ finish(blocked, "skipped")
    /\ pending' = pending \ blocked
    /\ now' = clock /\ cursor' = 1
    /\ IF clock >= runDeadline
          THEN leave("RunTimeout") /\ runTold' = TRUE
          ELSE pc' = "launch" /\ UNCHANGED <<raised, runTold>>
    /\ UNCHANGED <<plan, clock, running, finished, deadlineOf, told, answer,
                   status, pool>>

LoopDone ==
    /\ pc = "skip" /\ pending \cup running = {}
    /\ pc' = "drained"
    /\ UNCHANGED <<plan, clock, launch, pending, running, finished, results,
                   tokens, answer, verdict, pool>>

(* The next task _launch_ready comes to that may run.                       *)
ready ==
    {t \in pending : t >= cursor /\ \A d \in deps[t] : results[d] = "success"}
mayLaunch == ready # {} /\ Cardinality(running) < MaxConcurrency
first == CHOOSE t \in ready : \A u \in ready : t <= u

(* submit waits for a slot: the clock may have moved on from `now'.         *)
LaunchNext ==
    /\ pc = "launch" /\ mayLaunch
    /\ Pool!submit(first)
    /\ running' = running \cup {first} /\ pending' = pending \ {first}
    /\ deadlineOf' = [deadlineOf EXCEPT ![first] =
                         lesser(lesser(now + timeoutOf[first], runDeadline), Never)]
    /\ cursor' = first + 1
    /\ UNCHANGED <<plan, clock, pc, now, finished, results, tokens, answer,
                   verdict>>

(* PoolSaturated: the task is over without having run.                      *)
LaunchSaturated ==
    /\ pc = "launch" /\ mayLaunch
    /\ Pool!saturated
    /\ finish({first}, "timeout") /\ pending' = pending \ {first}
    /\ cursor' = first + 1
    /\ UNCHANGED <<plan, clock, pc, now, deadlineOf, running, finished, tokens,
                   answer, verdict, pool>>

LaunchDone ==
    /\ pc = "launch" /\ ~mayLaunch
    /\ IF running # {} THEN pc' = "wait" /\ UNCHANGED raised
       ELSE IF pending # {} THEN leave("TaskError")
       ELSE pc' = "drained" /\ UNCHANGED raised
    /\ now' = 0 /\ cursor' = 1
    /\ UNCHANGED <<plan, clock, deadlineOf, pending, running, finished, results,
                   tokens, answer, status, pool>>

-----------------------------------------------------------------------------
done == {t \in running : future[t] = "done"}

WaitReturns ==
    /\ pc = "wait" /\ done # {}
    /\ finished' = done
    /\ pc' = "collect"
    /\ UNCHANGED <<plan, clock, launch, pending, running, results, tokens,
                   answer, verdict, pool>>

(* _collect, which takes the future out of `running' first.                 *)
Collect ==
    /\ pc = "collect"
    /\ \E t \in finished :
          /\ drop({t}) /\ finished' = finished \ {t}
          /\ IF answer[t] = "budget"
                THEN leave("BudgetExceeded") /\ UNCHANGED results
                ELSE /\ finish({t}, answer[t])
                     /\ pc' = IF finished = {t} THEN "skip" ELSE "collect"
                     /\ UNCHANGED raised
    /\ UNCHANGED <<plan, clock, cursor, now, pending, tokens, answer, status,
                   pool>>

late == {t \in running : deadlineOf[t] <= clock}

(* mutant: an expired task is given up without being told *)
WaitExpires_untold ==
    /\ pc = "wait" /\ done = {}
    /\ late # {} \/ clock >= runDeadline
    /\ Pool!cancelAll(late)
    /\ finish(late, "timeout")
    /\ drop(late)
    /\ pc' = "skip"
    /\ UNCHANGED <<plan, clock, cursor, now, pending, finished, tokens, answer,
                   verdict>>

(* mutant: the wait is taken up again, not the loop *)
WaitExpires_retries ==
    /\ pc = "wait" /\ done = {}
    /\ late # {} \/ clock >= runDeadline
    /\ told' = told \cup late
    /\ Pool!cancelAll(late)
    /\ finish(late, "timeout")
    /\ drop(late)
    /\ UNCHANGED <<plan, clock, pc, cursor, now, pending, finished, runTold,
                   answer, verdict>>

(* The wait ran out with nothing done: _expire.  A future that is done      *)
(* before it gets there is treated like one that is not.                    *)
WaitExpires ==
    /\ pc = "wait" /\ done = {}
    /\ late # {} \/ clock >= runDeadline
    /\ told' = told \cup late
    /\ Pool!cancelAll(late)
    /\ finish(late, "timeout")
    /\ drop(late)
    /\ pc' = "skip"
    /\ UNCHANGED <<plan, clock, cursor, now, pending, finished, runTold, answer,
                   verdict>>

-----------------------------------------------------------------------------
(* mutant: only a failed task fails the run *)
Drained_lenient ==
    /\ pc = "drained"
    /\ IF clock >= runDeadline /\ \E t \in Task : results[t] = "timeout"
          THEN leave("RunTimeout") /\ runTold' = TRUE /\ UNCHANGED status
          ELSE /\ pc' = "over"
               /\ status' = IF \E t \in Task : results[t] = "failed"
                               THEN "failed" ELSE "success"
               /\ UNCHANGED <<raised, runTold>>
    /\ UNCHANGED <<plan, clock, launch, pending, running, finished, results,
                   told, answer, pool>>

(* Every task has its result; the deadline may still have ended the last.   *)
Drained ==
    /\ pc = "drained"
    /\ IF clock >= runDeadline /\ \E t \in Task : results[t] = "timeout"
          THEN leave("RunTimeout") /\ runTold' = TRUE /\ UNCHANGED status
          ELSE /\ pc' = "over"
               /\ status' = IF \E t \in Task : results[t] \in {"failed", "timeout"}
                               THEN "failed" ELSE "success"
               /\ UNCHANGED <<raised, runTold>>
    /\ UNCHANGED <<plan, clock, launch, pending, running, finished, results,
                   told, answer, pool>>

(* What execute_run makes of the exception.                                 *)
runStatus == CASE raised = "RunTimeout" -> "timeout"
               [] raised = "BudgetExceeded" -> "cancelled"
               [] raised = "TaskError" -> "failed"

(* mutant: an abort cancels every task of the plan *)
Abort_everything ==
    /\ pc = "abort"
    /\ runTold' = TRUE
    /\ Pool!cancelAll(running)
    /\ finish(Task, "cancelled")
    /\ status' = runStatus
    /\ pc' = "over"
    /\ UNCHANGED <<plan, clock, launch, pending, running, finished, told,
                   answer, raised>>

(* _abort: everything without a result is cancelled.                        *)
Abort ==
    /\ pc = "abort"
    /\ runTold' = TRUE
    /\ Pool!cancelAll(running)
    /\ finish(running \cup pending, "cancelled")
    /\ status' = runStatus
    /\ pc' = "over"
    /\ UNCHANGED <<plan, clock, launch, pending, running, finished, told,
                   answer, raised>>

-----------------------------------------------------------------------------
loopVars == <<plan, clock, pc, launch, pending, running, finished, results,
              tokens, verdict>>

isTold(t) == runTold \/ t \in told

(* A callable ends; it says it was cancelled only if its token told it.     *)
CallableEnds(t) ==
    /\ Pool!ReleaseSlot(t)
    /\ \E a \in Answers :
          /\ a = "cancelled" => isTold(t)
          /\ answer' = [answer EXCEPT ![t] = a]
    /\ UNCHANGED loopVars

Worker(t) ==
    \/ Pool!StartJob(t) /\ UNCHANGED <<loopVars, answer>>
    \/ CallableEnds(t)
    \/ Pool!CompleteJob(t) /\ UNCHANGED <<loopVars, answer>>

(* What other runs hold is felt where the loop asks for a slot.             *)
OtherRuns ==
    pc = "launch" /\ Pool!OtherJob /\ UNCHANGED <<loopVars, answer>>

Tick ==
    /\ clock < MaxTime
    /\ clock' = clock + 1
    /\ UNCHANGED <<plan, pc, launch, pending, running, finished, results, tokens,
                   answer, verdict, pool>>

Over == pc = "over" /\ UNCHANGED vars

Loop ==
    \/ SkipBlocked \/ LoopDone
    \/ LaunchNext \/ LaunchSaturated \/ LaunchDone
    \/ WaitReturns \/ Collect \/ WaitExpires
    \/ Drained \/ Abort

Next == Loop \/ (\E t \in Task : Worker(t)) \/ OtherRuns \/ Tick \/ Over

Spec == Init /\ [][Next]_vars

(* The thread of the loop and the clock go on.  Nothing is assumed of the   *)
(* workers: a provider call may hang for good.                              *)
FairSpec == Spec /\ WF_vars(Loop) /\ WF_vars(Tick)

-----------------------------------------------------------------------------
(* Every variable has its type. *)
TypeOK ==
    /\ deps \in Plans /\ timeoutOf \in Timeouts
    /\ runDeadline \in Deadlines
    /\ clock \in 0 .. MaxTime /\ now \in 0 .. MaxTime /\ cursor \in 1 .. N + 1
    /\ pc \in Phases
    /\ pending \subseteq Task /\ running \subseteq Task /\ finished \subseteq Task
    /\ results \in [Task -> Terminal \cup {"none"}]
    /\ deadlineOf \in [Task -> 0 .. Never]
    /\ told \subseteq Task /\ runTold \in BOOLEAN
    /\ answer \in [Task -> Answers \cup {"none"}]
    /\ raised \in {"none", "RunTimeout", "BudgetExceeded", "TaskError"}
    /\ status \in {"none", "success", "failed", "timeout", "cancelled"}
    /\ Pool!PoolTypeOK

(* No slot of the shared pool leaks or is released twice, whichever of      *)
(* completion, expiry and abort comes first (executor.py:79-93).            *)
SlotsBalanced == TypeOK /\ Pool!SlotsBalanced

(* A run that is over leaves nothing queued, and every callable it leaves   *)
(* executing has been asked to stop (scheduler.py:36-42, :47-50).           *)
OrphansTold ==
    pc = "over" => \A t \in Task :
        /\ future[t] # "queued"
        /\ future[t] = "executing" => isTold(t)

(* The status of the run is what its results and the clock say.  Every task *)
(* has a result when it is over, but for the one whose callable raised      *)
(* BudgetExceeded.  "scheduler deadlock" is raised only for a plan that     *)
(* names a task before its dependency, or when the pool was saturated: in   *)
(* order, a failure is passed on in one pass (scheduler.py:75-82, :167-173, *)
(* :206-209, :362-366).                                                     *)
StatusTruthful ==
    /\ status = "success" => \A t \in Task : results[t] = "success"
    /\ status = "timeout" => clock >= runDeadline
    /\ status = "failed" => \E t \in Task : results[t] \in {"failed", "timeout"}
    /\ status = "cancelled" => \E t \in Task : answer[t] = "budget"
    /\ pc = "over" => \A t \in Task : results[t] \in Terminal \/ answer[t] = "budget"
    /\ raised = "TaskError" =>
          \/ \E t \in Task : \E d \in deps[t] : d > t
          \/ \E t \in Task : results[t] = "timeout" /\ future[t] = "none"

(* A result is never replaced: what finished keeps its result through every *)
(* expiry and abort after it (scheduler.py:22-23).                          *)
ResultsKept ==
    [][\A t \in Task : results[t] # "none" => results'[t] = results[t]]_vars

(* A run with a deadline ends, whatever its tasks do (scheduler.py:52).     *)
RunEnds == runDeadline < Never => <>(pc = "over")

=============================================================================
