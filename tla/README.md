# Formal model of the DSH multi-agent runtime

TLA+ modules, TLC instances and TLAPS proofs for the two runtimes of this
repository. Paths are relative to the repository's root; `TS` stands for
`packages/dsh-multi-agent/src`, `PY` for `src/deepseek_multi_agent_plugin`.

The *Native* runtime (TypeScript, `TS`) is the plugin that is shipped
(`docs/source-of-truth.md`); the *Python* runtime (`PY`) is kept as the
compatible reference. They share ideas, not code: a task graph executed with
bounded parallelism, agents that answer calls, supervisors that plan, retry and
repair. Concurrency is of two kinds: cooperative in the Native runtime (one
JavaScript thread, interleaving only at `await`), preemptive in the Python
runtime (a pool of threads, a clock, futures that cannot be killed).

## 1. Inventory

### Native runtime

| part | state it keeps | operations | what makes it correct |
|---|---|---|---|
| task graph `graph.ts`, `task.ts` | tasks in insertion order, a status each | add, validate, ready, isComplete | exactly the DAGs of known tasks pass; a reported cycle is one |
| scheduler `scheduler.ts` | `running`, `busyAgents`, outcomes and order of one run, the current abort controller | run, stop | dependencies before dependents, one call per agent, the limit, every task ends once, stop reaches all, the run resolves |
| agent runner `runner.ts`, `timeout.ts` | per call: baseline, timer, abort listener, grace window | run | the slice and outcome of a call are those of its own turn; nothing is left behind; the call returns |
| harness interface `dsh.ts` | (external) event log, follow-up queue, the live turn | followup, cancel, whenIdle | – |
| strategies `strategies/*` | results, drafts, turns of one run | runSequential, runRelay, runBroadcast, runDag | reports agree with what the scheduler decided |
| supervisor `supervisor/*` | lifecycle state, whole-run timer | run, stop | no overlapping runs; status says what ended the run |
| recovery `recovery/*` | candidate plan, pool, counters, decisions | run, cancel | the budget, cancellation, repairs and replans that hit the right tasks, an end |
| planner `planner/*` | none | validate, route, map to a strategy | edges survive the way to a strategy |
| diagnostics, metrics `diagnostics.ts`, `observability.ts` | registry of runs, counters | events | bounded; a finished run stays finished |
| wiring `index.ts` | none | builds the parts | – |

A recovery manager hands a routed plan to the supervisor, which picks a
strategy, which builds a task graph for the scheduler, which calls the agent
runner, which sends a follow-up to the harness and reads its event log. An abort
signal travels down the same path; results, error codes and thrown errors travel
up. What is hard: an abort or a timer at any await; promises that settle after
their run is over; one event log shared by the calls to an agent; step numbers
that must find their way back to the plan's tasks; counters spread over the
branches of an unbounded loop.

### Python runtime

| part | state it keeps | operations | what makes it correct |
|---|---|---|---|
| scheduler `runtime/scheduler.py` | `pending`, `running`, `results`, tokens of one run | execute, execute_run | a result for every task, never replaced; orphans told to stop; the run ends by its deadline |
| executor `runtime/executor.py` | semaphore, thread pool, shared by all runs | submit, cancel | every slot released exactly once |
| agent calls `strategies.py` (`_call_agent`, `_parallel`, `_run_agent_once`), `runtime/budget.py`, `runtime/deadline.py`, traces in `observability.py` | the reservation, usage baseline and span of each call; budget, deadline, usage counters of a run | call one agent, call all at once, reserve, settle, record | limits hold, reservations are settled, a call is charged its own tokens and recorded once; a run with timeouts ends |
| strategies `strategies.py`, `context.py`, `memory.py` | transcript, drafts, ballots of one run; the coordinator's memory | six strategies, build_context | the result and the votes are those of the answers; a debater hears the others; memory keeps the latest messages of each run |
| supervisor plans `supervisor.py`, `runtime/task.py`, `runtime/dependency.py` | a plan, the router's cursor | parse, validate, repair, route | only DAGs pass; a repair changes no task; work goes to capable workers |
| agents `agents.py`, `cache.py` | usage counters, LRU cache of each agent | chat_completion, handle, fallback | no token is lost, the cache keeps what was used last |
| sessions `sessions.py` | sessions with the time of their last request | get_or_create, delete, cleanup | bounded, isolated, no live session evicted without need |
| registry, history `observability.py`, `history.py` | runs by id, a file of JSON lines | record, append, load | bounded and consistent; a run that was answered is in the file |
| adapters `adapters/*`, `coordinator.py` | gate for concurrent runs | HTTP, MCP, CLI | every permit is given back |

What is hard: the loop, the workers, the clock and the other users of the pool
move independently; a running callable cannot be stopped, only asked; the clock
read at one point is used at another; a future's result is read after the books
on it are closed; a call that was given up goes on and charges the budget;
counters are read before a call and subtracted after it; several runs write to
one memory; a session may be evicted while its run goes on; an append may fail
half-way.

`PROJECT.json` lists each component with its status, and the hazards with their
lines and the properties aimed at them.

## 2. Modules

| module | models | checked by | proofs |
|---|---|---|---|
| `Scheduler` | `Scheduler.run` and `stop` | `MCNativeRun`; `MCScheduler` for the stall | `NativeRunProofs` |
| `TaskRun` | what a run promises, without a loop | refined by `Scheduler` | |
| `DshAgent`, `AgentRunner` | the harness (external) and `AgentRunner.run` | `MCAgentRunner` | `AgentRunnerProofs` |
| `Recovery` | `RecoveryManager.run` with planner, router and the supervisor's outcome | `MCRecovery` | `RecoveryProofs` |
| `GraphValidation` | `TaskGraph.validate` / `PlanValidator.validate` | `MCNativeRun` | `NativeRunProofs` |
| `NativeRun` over `Scheduler`, `GraphValidation` | a run from the caller to its result: strategies, `Supervisor.run`, lifecycle | `MCNativeRun` | `NativeRunProofs` |
| `Diagnostics` | run registry, health, recovery counters, the single-flight guard | `MCDiagnostics` | `DiagnosticsProofs` |
| `BoundedExecutor`, `TaskScheduler` | the Python pool and scheduler | `MCTaskScheduler` | `TaskSchedulerProofs` |
| `AgentCalls` over `BoundedExecutor` | the agent calls of a Python run with budget, deadline, usage and trace | `MCAgentCalls` | `AgentCallsProofs` |
| `Strategies` over `PlanPipeline` | the six strategies, as concurrent runs of one coordinator; the supervisor's plan from its text to routed tasks | `MCStrategies` | `CoordinatorProofs` |
| `Provider` | LLM agents, fallback chain, response caches, usage counters | `MCProvider` | `CoordinatorProofs` |
| `AdapterServer` over `SessionManager`, `RunHistory` | the server: sessions, gate, run registries, history file, restarts | `MCAdapterServer` | `AdapterServerProofs` |

Definitions marked `mutant` are plausible slips of the definition that follows
them; no action uses them. Each property of a passing run has one that breaks it.

**Scheduler.** The variables are the locals of `run` (`running`, `busy`,
`order`, `stopped`), the status of each task and two histories (`inflight`: the
promises of `#execute` not settled, `launched`). `pc` and `cursor` unroll the
loops over `graph.tasks()`; between `cancel` and `check` nothing else may step,
because the code does not await there. `Run` is the entry, `CancelNext` the pass
that cancels blocked tasks, `Launch`/`SkipLaunch` the launch pass, the `Check...`
actions the three ways out and the wait, `Resume` the wake-up, `TeardownNext` the
teardown. `Settle` is `settle` with any outcome, `Abort` the abort signal. An
abort can also come from inside a runner's synchronous part (`Launch`).

**AgentRunner over DshAgent.** Calls share one event log and follow-up queue.
`Begin` reads the baseline and sends the follow-up, `TimerFires`, `Abort` and
`GraceExpires` race with the turn, `Read` slices the log and derives the
outcome. `DshAgent` says what the code relies on, and `converges` separates the
harnesses that end a cancelled turn in time from those that do not. Calls belong
to runs (`RunOf`): within a run the scheduler calls an agent once at a time, but
a run that is aborted does not wait for its calls, so the next one may begin
while an old turn unwinds.

**Recovery.** One action per stretch between awaits: `Top`, `PrepareFails` and
`Dispatch` (validate, route, map), `Completed`, `Failed` and `Thrown` (what
comes back from `supervisor.run`), `Abort`, `TimerFires`, `DelayOver`. The
report of a failed attempt is any report the strategy can give: a chain breaks at
one step and cascades, a broadcast fails task by task.

**GraphValidation.** The iterative three-colour search, one frame operation per
action; the order in which a task lists its dependencies is left open.

**NativeRun over Scheduler and GraphValidation.** One run through the layers.
`RunInit` gives it as any graph (`runDag`, or the planner's validator alone), as
a broadcast, a sequence or a relay (`built`), the last three through a
Supervisor in any state a run may find it in. `Call` starts the lifecycle over,
`Validate` is a step of `GraphValidation` (its variables mapped by
`INSTANCE ... WITH`), `Begin` hands the graph to the loop. The loop's actions
are those of `Scheduler`; `StartStep` adds what a step is prompted with,
`Answer` the note a strategy makes of an answer before it passes it on
(`SettleStep`), `PromptThrows` a prompt builder that throws. `Report` is the
strategy's report, `Aggregate` the Supervisor's result; both come microtasks
after the loop resolves, so aborts, late answers and other calls (`AbortRun`,
`OtherCall`) come in between, the timer (`TimerFires`) only when nobody is about
to be resumed. `DispatchThrows` is the limit that no validation looks at. The
transitions that are made without an await in between are one step.

**Diagnostics.** A run of `RecoveryManager` is reduced to what it emits between
two awaits: `Begin`, `Returns` (from `supervisor.run`), `DelayOver`; which
decision it takes and why is `Recovery`'s matter. `ingest` takes one event into
the registry, a sequence in the order of the `Map`, and into the counters; a step
passes what is known from one event to the next (`known`) up to the await.
`Refuse` is the single-flight guard.

**TaskScheduler over BoundedExecutor.** The loop of `_run` is one actor
(`SkipBlocked`, `LaunchNext`, `LaunchSaturated`, `LaunchDone`, `WaitReturns`,
`Collect`, `WaitExpires`, `Drained`, `Abort`); the workers (`StartJob`,
`CallableEnds`, `CompleteJob`), the other users of the pool and the clock (`Tick`)
move at any time. A step of the loop covers the code between two reads of what
the others change: the clock is read once in `SkipBlocked`, as in
`_launch_ready`, and each `submit` is a step of its own since it may wait for a
slot. The slot is released a moment before the future is done, as in
`_BoundedExecutor.submit`.

**AgentCalls over BoundedExecutor.** The thread of the run is one actor. It makes
the dispatches of its strategy (`strategy`, a constant's choice) one after the
other. A dispatch is `_call_agent` for one agent (in the run's own thread when it
has no timeout, `InlineReturns`) or `_parallel` for all: `Submit`,
`SubmitSaturated`, `BeginWait`, `Collect`, `GiveUp` when the call's timeout or the
run's deadline passes, `Refuse` and `AbortWait` when the budget or the deadline
ends the run; or it is the tasks of a supervisor's plan on the scheduler, where one
worker may have several tasks at a time: `Launch`, `Skip`, `TaskCollect`,
`TaskExpire`, `WorkAborts`, `WorkDone`. A task calls `_run_agent_once` without the
event `timed_out`, so its worker always records it and the run never does. Which
task of the plan may go first, and in which passes, is `TaskScheduler`'s matter;
here any may be next, each with the clock as it is then. Other runs of the
coordinator ask the same agents: `OtherUsage` adds to an agent's counter while
calls of this run are being made (`mixed` are those beside it). Each call is an actor of its own, step by step through `_run_agent_once`:
`Reserve`, `Handle` (the agent, reading and adding to its cumulative counters),
`Finally`, `Note` (the span, unless the caller set `timed_out`), `Settle`. It
goes on when it is given up.

**Strategies and PlanPipeline.** A run is a program counter over its strategy
(`BroadcastRound`, `DebateRound`, `LastWord`, `SequentialTurn`, `RelayTurn`,
`ToVote`, `Vote`, `AskPlan`, `Plan`, `Work`, `ToReport`), with `Abort` wherever
a call may abort it and `Remember` for one message entering the memory; runs of
one coordinator interleave at these. A dispatch is one step with any answers;
its insides are `AgentCalls`. A text is what it is made of. `PlanPipeline` is pure:
`tasksFromJson`, `tasksFromLines`, `valid`, `repaired`, `routed`, composed by
`pipeline` as in `_validate_and_repair`. The comprehensions and loops of the code
are recursive functions over 0 .. Len (`keep`, `tasksFromJson`, `routed`), since the
library's `SelectSeq` and folds cannot be reasoned about; `NoError` stands where the
code has no exception.

**Provider.** A frame per thread steps through `FallbackAgent.handle` and
`chat_completion`: note the backend's counters (`Enter`), ask the cache (`Look`),
attempt and retry (`Post`), cache the body (`Put`), count (`CountUsage`,
`CountHit`), take over the differences (`Absorb`, `AbsorbHits`, whose read and
write of the hits are apart, since the code has no lock there). `ApplyCache` is a
run that has the option `cache`.

**AdapterServer over SessionManager and RunHistory.** A request thread goes
through `Route` (`get_or_create` for a session), `Register`, `Gate`, `RunEnds`
(the run goes into the registry of the coordinator that made it) and `Record`
(the line of the history, which may fail, or be torn by `Crash`). `Delete` and
`Cleanup` are requests of their own. After `Crash` only `Start` may follow, and
only if the history can be opened: records are written in UTF-8 without escapes
and counted strictly when the file is opened, so a line that was torn in the middle
of a character (`undecodable`) makes `RunHistory.__init__` raise at every start.
A torn line counts as unreadable, also the rare one that lacks only its newline
(its run was never answered). Sessions of `SessionManager` are handed out
under its lock, runs go on without it.

## 3. What the runs show

| run | instance | result |
|---|---|---|
| `native_run` | 3 tasks, every dependency relation with self and unknown dependencies, strictly and as the planner judges; for the accepted ones, all 25 DAGs in every declaration order, all 5 ways to share 3 agents, limit 2; broadcasts, sequences and relays with timer or none, signal and other calls | verdict right, the judgement ends; complete report, completion order, no missed launch, no stall where dependencies are declared first, refinement of `TaskRun`; records, prompts and the Supervisor's outcome true; the run resolves and returns (by an abort or the timer without help of the runners) |
| `scheduler_stall` | the scheduler alone, all 25 DAGs, one agent, limit 1 | **violation**: the loop throws "scheduler stalled" |
| `agent_runner` | two calls of one run and one of the next, to one agent | own slice, truthful outcome, nothing left behind, calls return |
| `recovery_loop` | 3 tasks, all DAGs and a cycle, 3 strategies, 2 live agents and an unknown one, 3 attempts, 1 replan | budget, cancellation, what is dispatched, what is decided, the loop ends |
| `diagnostics` | 4 runs on 3 managers with 3 run ids, registry of 2, 2 attempts | inspection, running entries and health right |
| `task_scheduler` | 3 tasks, all 25 DAGs in every order, pool of 2, `max_concurrency` 2, clock 0..2 | slots balanced, orphans told, status and deadlock explained, results kept, the run ends |
| `agent_calls` | 2 agents, 2 workers, a call of one before or after a call of both, or after two tasks of one worker; one usage by another run, clock 0..2, call timeout 1 or none, deadline 2 or none, a budget of two calls and two tokens | budget kept, charges, records, RunTimeout explained, the run ends |
| `agent_calls_saturated` | 1 agent, 1 worker, no timeout | **violation**: TypeError instead of a timeout |
| `strategies` | agents `a`, `ab`, `b`; 16 jobs over all six strategies, each beside a short second run; memory of 6; plans of two entries with every defect and all dependency relations of three | memory, what debaters hear, votes, plans, results |
| `provider` | 2 threads, 4 calls, 3 keys, fallback over 2 backends, caches of 2, one retry, one switch | counters, LRU |
| `provider_disabled` | 1 thread, 2 calls, 1 key | **violation**: a disabled cache answers |
| `adapter_server` | 2 threads, 3 ids, 2 sessions, 1 concurrent run, registries of 1, 4 requests, two faults, clock 0..2 | isolation, eviction, gate, registry, history |

### Disagreements with the documentation

Three have a run of their own:

1. *The scheduler can stall* (`TS/scheduler.ts:165-196`). One pass in insertion
   order cannot carry a failure to a task declared before its dependency;
   `runDag` keeps the caller's order. The comment at 192 calls the state
   impossible. Proved impossible when dependencies are declared first.
2. *A saturated pool raises TypeError* (`PY/strategies.py:174`): a call of
   `_parallel` without a timeout that finds no slot is noted with
   `timeout = None`, which `PY/observability.py:254` multiplies.
   `PY/runtime/executor.py:19-20` says saturation is treated like a timeout.
3. *`cache=False` does not disable the cache* (`PY/coordinator.py:185`): the
   agent keeps `_cache`, and requests go by that. Lines 122-123 say it does.

The others are the exceptions that passing properties spell out; each property
says exactly when the code departs from what is written, and otherwise holds
the code to it. Some of the names are those of a conjunct: `StrategyRight` is
`RecordsRight` and `ContextRight`, `OperatorTold` is `InspectRight` and
`HealthRight`, `ResultRight` is `FinalRight` and `VoteRight`, `RunsAccounted` is
`GateBalanced` and `RegistryConsistent`.

4. *A slice may hold another run's turn* (`TS/runner.ts:98`), and a timer or
   abort left from a run may cancel the next run's turn, when that run was
   aborted and the turn still unwinds; `dsh.ts:14-16` says the slice holds
   exactly the task's events. `SliceIsOwn`, `NothingLeft` allow it across the
   abort of a run only (`apart`).
5. *A repair of the last agent is decided but never dispatched*
   (`TS/recovery/manager.ts:288`), against
   `docs/r22-recovery-budget-correctness.md`: `BudgetKept` says
   `dispatched <= attempts`, not `=`.
6. *A replan prunes tasks that could run* (`TS/recovery/manager.ts:296`),
   because the chain's cascade is taken for failures, against
   `replanner.ts:4-6`: `DecisionsRight`.
7. *A saturated pool turns into a deadlock error* (`PY/runtime/scheduler.py:277`):
   the dependents of a task that found no slot are not skipped, against lines 5-6;
   *a task can end without a result* (line 366), the one whose callable raised
   `BudgetExceeded`, against `RunResult` (79-81). Both: `StatusTruthful`.
8. *Calls of one agent that overlap are charged for each other*
   (`PY/strategies.py:72-88`): the tasks of one worker in a plan, which run at once
   (462-466), calls made by other runs of the coordinator, and a call the run went
   on without beside a later one. `ChargedOwn` names these three and says that no
   other call is charged too much, and none too little. A fallback agent's overlapping
   calls absorb each other's usage (`PY/agents.py:406-430`, `AbsorbedRight`); hits
   may even be lost there. Token limits are checked at the reservation only
   (`PY/runtime/budget.py:53`): calls in flight together overshoot them.
9. *A call may have two spans, or none*: a timeout noted by the caller while the
   worker notes its answer, and the calls of an aborted run (`AnswersRecorded`).
10. *A vote that begins with another candidate's name may go to that one*
    (`PY/strategies.py:587-596`): `VoteRight` excepts such names, and votes that
    name several.
11. *A broadcast's result is what was fed back* when the last of several rounds had
    no answers (`PY/strategies.py:291-296`): under `max_chars` it begins with the
    prompt, once for every round fed back since, also where nothing was too long,
    and it may be cut, against the comment at 293; after no answers at all it is the
    prompt repeated. An error is handed out as the result when it is the last answer; a relay that
    leaves the draft as it was for a round is over. All in `FinalRight`.
12. *A repaired plan may send work to a worker that cannot do it*, an entry
    without description is dropped and what depends on it makes the plan invalid
    (`PY/supervisor.py:118-120`, `:164-197`): `PlanRight`, `RoutedRight`.
13. *A session's runs are not found by `GET /runs/{id}`* (`PY/coordinator.py:172`,
    `adapters/http.py:280-283`, against `docs/http_api.md:186`), since each session
    has a registry of its own: `RegistryConsistent`.
14. *A record appended to a torn line is lost with it, and numbers have gaps or
    repeat after a failed append and a restart* (`PY/history.py:42-52`): what is left
    is in `HistoryKeeps`. *After a line torn in the middle of a character the server
    does not start again*: `PY/history.py:51` writes `ensure_ascii=False`, `:36` reads
    strictly (`:54-96`, `recent`, does not), and nothing catches the exception
    (`adapters/http.py:589`), against lines 18-19, where reopening the file goes on
    with the numbering. In the model `Start` is then disabled for good, and
    `HistoryKeeps` says only what remains true: such a file has a torn line.
15. *A relay goes back to the prompt after a turn that is completed without a
    text, and its draft stays the one before that turn*, however many follow
    (`TS/strategies/relay.ts:90`, `:133-138`), against lines 4-5, where each agent
    receives the current draft: `ContextRight` excepts what comes after such a
    turn. A sequential step's late result stands in the report of a stopped run
    though the scheduler cancelled the step: `RecordsRight`.
16. *A limit that is no positive integer passes the Supervisor's validation* and
    fails the run instead of being refused (`TS/supervisor/supervisor.ts:89-118`):
    `DispatchThrows`.
17. *A running run that fails may be missing from health* when newer runs
    displaced it from the registry, or its id was used before
    (`TS/diagnostics.ts:46`, `:98`), against
    `docs/r19-health-severity-contract.md:11-13`: `InspectRight` and `HealthRight`
    speak of runs that are known (`isKnown`).

### Bounds, and why they are enough

Three tasks are the smallest number with a chain, a fork, a join and each of
them in the wrong declaration order; with limit 2 and three agents both the
limit and the sharing of agents bind in turn. Agents are alike, so one numbering
per partition of the tasks stands for all assignments. Three steps of a chain
have one with a step before and a step after it, as a gap in the drafts needs. In
`Diagnostics` two runs of one id, and a registry smaller than the number of ids,
make an id be used again and a run be displaced while it is running; three
managers let three runs overlap, and one of them has two runs for its guard. In `Recovery` three
attempts allow a retry, a repair and a replan to follow one another in any
order. In `TaskScheduler` two workers for three tasks make the pool full, free
and held by others; the clock has a moment before, at and after a task's
timeout, and the run's deadline is its last moment or none (`Never`). Ascending
timeouts stand for all since the plans come in every order; other runs take and
give back slots only while the loop asks for one, since it feels them nowhere
else.

In `AgentRunner` two calls of a run are enough for a timer of the first to meet
the second, and a third for what an aborted run leaves to the next. In
`AgentCalls` the second dispatch is the one that meets a call given up in the
first, on a pool that is full, free or shared; two tasks of one worker overlap in
one dispatch, and the usage of another run (`MaxElsewhere`) comes at any moment at
which a call compares counters. A budget of two calls is met before, at and beyond
its limit by three, and its two tokens are gone before the calls when one is charged
for another's. `Strategies` needs a third agent
for a tie and for votes that name two, names one of which begins another, and a
second run, which may as well be short, since all it does to the first is to put
messages into the memory and to push others out. `Provider` needs four calls
with three keys to tell the least recently used entry of two from the oldest. In
`AdapterServer` three ids for two sessions make eviction happen, a single permit
and a registry of one run make both limits bind, and two faults, failed appends
or deaths, come at every point. Threads, keys and ids are interchangeable
where a run has a `SYMMETRY`; those runs check no liveness. Values of answers,
prompts and texts play no part and are left out.

### Fairness

* `NativeRun`: what is synchronous goes on, a promise that resolved resumes who
  awaits it, and a timer that is armed fires: the JavaScript engine runs what can
  run. After an abort or the timer `RunResolves` and `RunReturns` ask no more;
  otherwise they assume `SettleFairness`, every call of a runner settles, which
  `AgentRunner` shows (`CallsReturn`), and `RunResolves` dependencies declared
  first (see the finding on the stall). That the judgement ends needs only that
  it, being synchronous, goes on.
* `AgentRunner`: timers and promise callbacks run; the harness ends a cancelled
  turn only where `converges` holds, and `CallsReturn` does not need it.
* `Recovery`: the loop runs, a delay ends, `supervisor.run` returns or throws.
* `TaskScheduler`, `AgentCalls`: the thread of the run and the clock. Nothing is
  assumed of the workers, so `RunEnds` holds with every provider call hanging:
  for a scheduler's run that has a deadline, and for a run of agent calls that
  has timeouts or a deadline (a call inline, without timeout, waits for its agent).
* `Diagnostics`, `Strategies`, `Provider`, `AdapterServer`: none; safety only.

## 4. What is proved

`NativeRunProofs` begins with `Scheduler`, for every number of tasks, every set of
graphs, agents and assignments and every limit, from the assumptions at its head:

* `TypeCorrect`, the type invariant.
* `Invariance` of `IInv`: the local sets agree with the statuses and with the
  promises in flight (`SetsAgree`), up to the teardown, which empties the sets
  while promises are still in flight (`TeardownProgress`). The properties speak
  of promises, the guards of the code of the local sets; without this link no
  property is inductive. From it: `DependencyOrdered`, `AgentsExclusive`,
  `ConcurrencyBounded`, `OutcomesAreFinal`.
* `StallNeedsDisorder`: with dependencies declared first the run never throws
  "scheduler stalled". `CascadeInv` says how far the cancelling pass has got, and
  that a launch pass with nothing running has found every task before `cursor`
  terminal.
* `OrderInvariance`: `order` holds the terminal tasks, each once, dependencies
  first; from it `ReportsComplete` and `CompletionOrdered`, together `ReportsRight`.
* `LaunchInvariance`, and with it `Implements`: `Scheduler` refines `TaskRun`.
  It says what the code's checks leave implicit: whoever sees `stopped` false
  between `cancel` and `check` is right, and a stall has nothing that could begin.
* `NoLaunchMissed`: in a wait nothing that could be launched is left. The launch
  pass goes through the graph once, and each task it passed by stays what kept it
  from being launched (not ready, its agent busy, the limit) until the wait.

The rest of it is about `NativeRun`, for every number of tasks, every graph with
unknown and self dependencies, every strategy and lifecycle:

* `RunsScheduler`: a run through all the layers takes only steps of `Scheduler`
  (`RunSpec => Spec`), so the theorems above hold of every run.
* `VerdictsRight`, from `JudgeInv`. The stack is the path of gray tasks, each
  depending on the one above it, and what a frame has looked at is black or on top
  of it (`PathInv`); the black tasks can be ranked so that dependencies rank lower
  (`RankInv`); what was looked at has left its mark in the errors (`MarkInv`).
  When the search ends with no errors every task is black, and the ranks make the
  graph acyclic; a reported cycle is a piece of the path (`CycleInv`).
* `RunInvariance` of `RunInv`, which adds what the strategy noted of the answers
  (`RecordsInv`) and what the lifecycle, the timer and the signal have to do with
  the report (`SupervisorInv`). From it `StrategiesRight` and `OutcomesRight`.

`AgentRunnerProofs`, for every number of calls and runs, harnesses that converge
or not, and events in every order: `IInv` says that runs follow one another, with
one call at a time in each (`OrderInv`, from `RunOf` and how `Begin` is guarded);
what a call that is not waiting can have left in the agent (`LiveInv`); that the
turn of a call nobody disturbs is the last to be had, and its end the last event
(`TurnInv`); and whose events lie beyond a call's baseline (`SliceInv`).
`SliceIsOwn` alone is not inductive, since a slice is cut long after its events
were written. From it `SlicesAreOwn`, `OutcomesTruthful`, `NothingIsLeft`.
`UndefinedAssumption` says that the code's `undefined` is no outcome.

`RecoveryProofs`, for every plan, pool, strategy and policy. The orders in which
tasks are placed are recursive functions over data; what they compute is proved
by least counterexample over the naturals, after `Iterate` has shown that the
functions exist.

* `BudgetHolds`: `BudgetInv` says at which places of the loop the attempt that a
  decision spends is already paid for.
* `CancellationTold`: `TellInv` keeps a recorded cancellation from being followed
  by anything, and an aborted run from preparing an attempt.
* `DispatchIsRight`: whatever the order of declaration, the strategy gets the
  tasks of the candidate once each, dependencies first (`RunningInv`), and the
  pool has no agent that was taken out (`PoolInv`).
* `DecisionsFollow`: the action property, from the same invariant.

`AgentCallsProofs`, for every number of agents, dispatches and workers, every
strategy (`StrategiesAssumption`: a dispatch of one call has one place), timeout,
deadline and budget, and whatever tokens the calls and the other runs use:

* `TypeCorrect`: the difference of a cumulative counter is a number because the
  counter never falls below what a call read before it (`Ended`).
* `BudgetIsKept`: `NotYetMade` says that a call is begun by one dispatch only;
  hence the reservations are as many as the calls being made (`Holding`), a step
  adds or removes one at most, and the limit is that of the guard of `reserve`.
* `ChargedIsOwn`: `Expected` and `WaitedFor` say that a call the run did not go on
  without is one it is waiting for, so calls of two dispatches overlap only if the
  earlier was given up or expired; `Charging`, that the difference a call will be
  charged is never less than its own tokens, and more only beside one of those the
  property names. That such a call was really made, not refused, is `Unended`. None
  of it is visible in the code of the calls themselves: it follows from how the
  run's thread waits.
* `AnswersAreRecorded`, from `RecordInv`: a call has no span until its worker or
  its caller wrote one, each writes one at most (`NothingYet`, `GivenUp`), and the
  run goes on only with an answer for every call it made (`Answered`). The two
  sides meet in `timedOut`, which the caller sets before its own span. That the
  caller never records what it does not answer for, a task that expired above all,
  is `Said`.
* `RunTimeoutIsExplained`, an action property: the code decides before a wait
  whether the run's deadline binds it; `BindInv` says that the wait then does not
  end before that deadline.

`TaskSchedulerProofs`, for every number of tasks, every set of acyclic plans
(`PlansAssumption`: what `validate` lets pass), pools of every size, every
concurrency, timeout and deadline:

* `SlotsAreBalanced` and `OrphansAreTold`, from `Books`: what the loop has down
  as pending, running and finished agrees with the futures, and a callable that
  executes off the books has been told to stop. Neither side is inductive alone,
  since the loop learns of a future later than the pool.
* `ResultsAreKept`: results are given only to tasks on the books, which have none.
* `StatusIsTruthful`: `Told` (nobody on the books has been told to stop, so an
  answer "cancelled" is never taken for a result), `Accounted` (a task without a
  result is on the books, or ended the run by `BudgetExceeded`), `Causes` (a skip
  goes back to a failure), `LaunchPass` (what a pass that launched nothing has
  seen) and `Reasons` (why the loop was left). That a deadlock has one of the two
  causes named there is an argument about a minimal element of the tasks that are
  left, which exists because the plan is acyclic.

`CoordinatorProofs` is about what one coordinator runs and about its agents. Of
`Strategies`, for every set of runs and jobs, every registration, capability and
answer, every vote and plan and every capacity (`StrategiesAssumption`,
`JobsAssumption`, `AnswersAssumption`: names are distinct, sequences are sequences,
only a context policy hides anything, an answer is not the marker of an error;
`PipelineAssumption`: something may be repaired, as the code's default of 2 has it):

* What the recursive functions compute is proved as in `RecoveryProofs`: `Iterate`
  shows that the function exists, and least counterexample what holds of each of
  its values (`keep` and concatenation, `unused`, tasks, routes, transcripts).
* `StrategiesInvariant` of `StrategiesInv`: types; which stages a strategy has, and
  whose messages are queued (`StageInv`); what a run that does not wait has in its
  log (`CallInv`); and the three below. None of the four properties is inductive.
* `MemorySafe`: `MemInv` says that what a run said is something dropped, then what
  the memory has of it, then its queue, and that nothing is dropped before the
  memory is full. With the queue left out nothing would say what is still to come.
* `DebateSafe` follows from it: the window and the filters of a debater keep an
  end of an end, whatever other runs put in between.
* `PlanSafe`: `PlanInv` says that the tasks are what `pipeline` made of the answer.
  The rest is about the pipeline: the ids of `unused` are distinct, by counting
  those that are taken; repairs touch no dependency and leave nothing that a second
  validation would refuse but an order that does not exist; routing changes
  only a task's worker, and the cursor always meets an eligible one if there is one.
* `ResultSafe`: `ResultInv` follows a broadcast, a relay and a consensus from round
  to round and turn to turn: the text handed on is what the log says it should be
  (`broadcastOn`, with the prompts a `max_chars` puts before it, and `relayOn`), each round of a relay that was not its last changed the
  draft. That the parsed votes elect whom the votes meant, where they are clear, is
  `VoteClear`: each vote then counts for the one candidate it names, and the first
  of the most voted is the only one.

Of `Provider`, for every finite set of threads, every number of backends, retries
and keys, whichever are registered or cached, and caches of every size:

* `CachesAreRight`: a cache is the tail, of at most its size, of the keys it was
  used with in the order of their last use (`Latest`, in `CacheInv`); moving a key
  to the end of both, and dropping the head of the one that is full, keep it so
  wherever the key was. No request that looks or puts goes to an agent whose
  `_cache` is `None`.
* `UsageIsAbsorbed`: two arguments. However calls overlap, what the counters of
  the fallback agent lack is at most one for each answer that was counted and not
  yet taken over (`CountInv`, `toAbsorb`), since a difference that others also
  moved only grows. With one call at a time the lag is exactly what that call has
  yet to take over, at each of its steps (`ExactInv`).

`AdapterServerProofs`, for all sets of threads and ids, finite or not, every
bound, and any number of restarts and failed appends:

* `SessionsStayIsolated` and the action property `EvictionsNeeded`: coordinators
  are numbered, those in use by a session are below the next one to be made; the
  evicted are the prefix, by idle time, of the live ones that are sorted by it.
* `RunsStayAccounted`: permits given and held add up (`GateInv`); a registry holds
  its runs in ascending order, each at least as old as its place says (`Aged`), so
  the one dropped for a new run has seen enough runs end (`RegistryInv`).
* `HistoryStaysKept`: the runs in the file, those on their way into it and those
  lost with a torn line are distinct (`HistoryInv`); the counter of a running server
  is never behind the lines, so no record gets a number below its place; and what
  was torn inside a character is a line nobody can read (`FileOK`), whatever is
  appended to it. That the server starts again is not claimed.

`DiagnosticsProofs`, for any number of runs and managers, finite or not, ids
shared in any way and registries of every size. `IInv` says what is known of the
runs (`Told`) in terms of phases, attempts and failures that are given to it, since
a step passes through several of them, one per event; each event keeps it
(`Started`, `Attempted`, `HasFailed`, `HasFinished`), so a step does, whatever it
emits (`Cancels`, `Tries`).

* `NoGhosts`: an entry that says "running" has a run of its id that is going on
  (`Listed`); every start is counted, and every end once (`Counted`).
* `OperatorIsTold`: the entry of a run whose id nobody else used is its own, and
  the entries behind it are of ids that were started after it (`Entered`). Both
  are needed: that fewer than `MaxRuns` ids came later keeps the entry from being
  the oldest when the registry overflows, by the pigeonhole principle.

Only model-checked:

* liveness (`RunResolves`, `RunReturns`, `CallsReturn`, `RunEnds`): the prover
  reasons about no fairness and no `ENABLED`;
* the violations, which are about the code as it is.

## 5. Not modelled

Wording of prompts and texts, finding the JSON in an answer, formatting; Native
capabilities; observers and event callbacks that throw or call back into the
component; a user of the harness cancelling a turn; a follow-up that throws; task
functions of the Python scheduler that answer for another task or raise outside
`Exception`; shutdown of the pool; a budget shared by several runs; an agent's own error that
reads "timeout", which the scheduler would take for one; Python agents
of the kinds command, http and mock; a cache with a ttl (no agent gives it one);
`max_chars` of the memory; changes of the agents or the context policy during a
run; parsing, access rules and size limits of HTTP and MCP requests, and the
command line; configuration; build and release scripts.

Of the Native diagnostics: the counters of tasks, decisions and failure codes,
repairs and replans in an inspection, and `startRun`, `finishRun` and `clear`,
which nothing in the plugin calls. Of the strategies: joined texts, durations, the
empty run that returns at once.

Three things are coarser than the code. `Recovery.Completed` takes the decision of
`Supervisor.run` (`TS/supervisor.ts:346`) and the manager's resumption
(`TS/recovery/manager.ts:254-256`) for one step, so an abort in the microtasks
between them, which leaves the run completed, counts as one after its end.
`Scheduler.Run` begins after the entry guards (`TS/scheduler.ts:73-84`: a second run
while one is on, a graph used before), since the properties are about
one run that is accepted (`NativeRun` judges its graph). `Provider.ApplyCache` switches an agent's cache in one
step, where `PY/coordinator.py:182-187` sets, checks and creates without a lock.

## 6. Plan

What is left, the behaviour that matters most first:

1. The executor's shutdown beside running pools, and a budget shared by runs.
2. The Native pipeline that maps a routed plan to a DAG.
