----------------------------- MODULE AgentCalls -----------------------------
(***************************************************************************)
(* The agent calls of one coordinator.run of the Python runtime            *)
(* (strategies.py: _call_agent, _parallel, _run_agent_once) with what they *)
(* are held to and recorded by: the run budget (runtime/budget.py), the    *)
(* run deadline (runtime/deadline.py), the usage counters of the agents    *)
(* and the spans of the trace (observability.py).                          *)
(*                                                                         *)
(* A strategy is a sequence of dispatches: of a call of one agent, of      *)
(* calls of all at once, or of the tasks of a supervisor's plan, several   *)
(* of which may have the same agent.  What it makes of the answers is left *)
(* open; it may end after any of them.  The thread of the run dispatches   *)
(* and waits; the calls run on the shared pool, and go on when the run no  *)
(* longer waits for them.  The agents also answer the other runs of their  *)
(* coordinator.  Which task of a plan waits for which, and in which passes *)
(* they are launched, is in TaskScheduler: here any task may be next.  The *)
(* health counters of an agent move with the spans and are not kept apart. *)
(* Cost is checked and charged like tokens.  A budget is that of one run,  *)
(* and an agent that runs a budgeted coordinator of its own is left out.   *)
(***************************************************************************)
EXTENDS Naturals, FiniteSets, Functions

CONSTANTS
    N,             (* agents are 1..N, in registration order                *)
    Strategies,    (* the dispatches of a run, in order                     *)
    Rounds,        (* how many they are                                     *)
    MaxElsewhere,  (* how often other runs count tokens beside its calls    *)
    Workers,       (* size of the shared pool                               *)
    MaxTime,       (* the clock stops here; it stands for all later times   *)
    Timeouts,      (* per-call timeouts; Never is None                      *)
    Deadlines,     (* run deadlines; Never is none                          *)
    Budgets,       (* run budgets: records of max_calls and max_tokens      *)
    Usage          (* tokens a call may use                                 *)

Agents == 1..N
Places == 1..N
Calls == (1..Rounds) \X Places
Never == MaxTime + 1

(* The calls made at once, each in its place, and the agents they are of.   *)
Dispatches ==
    [how : {"one", "all", "tasks"}, places : SUBSET Places, agentOf : [Places -> Agents]]

ASSUME SizesAssumption ==
    /\ N \in Nat /\ Rounds \in Nat /\ Workers \in Nat /\ MaxTime \in Nat
    /\ MaxElsewhere \in Nat
ASSUME StrategiesAssumption ==
    /\ Strategies \subseteq [1..Rounds -> Dispatches]
    /\ \A s \in Strategies, r \in 1..Rounds :
          s[r].how = "one" => \E i \in Places : s[r].places = {i}
ASSUME InputsAssumption ==
    /\ Timeouts \subseteq 1 .. Never /\ Deadlines \subseteq 0 .. Never
    /\ Budgets \subseteq [max_calls : Nat, max_tokens : Nat] /\ Usage \subseteq Nat

VARIABLES
    strategy, callTimeout, runDeadline, budget,   (* options of the run     *)
    clock,
    pc, round,           (* the run's thread: where, in which dispatch      *)
    todo, pending,       (* places to submit; calls submitted and awaited   *)
    timeout, waitUntil, runBinds,       (* locals of the dispatch           *)
    deadlineOf,          (* of the tasks that are running                   *)
    answer,              (* what the strategy got for each call             *)
    raised,              (* the exception that ended the run                *)
    step, ended,         (* each call's _run_agent_once: where, and its end *)
    timedOut,            (* calls whose event is set                        *)
    total,               (* cumulative usage of each agent                  *)
    before, own, charged, (* per call: usage_before, its own usage, and     *)
                         (* what the budget was charged for it              *)
    elsewhere, mixed,    (* usages of other runs; the calls beside them     *)
    calls, reserved,     (* counters of the budget                          *)
    spans,               (* of the trace                                    *)
    slots, future, others

Pool == INSTANCE BoundedExecutor WITH Jobs <- Calls

pool == <<slots, future, others>>
options == <<strategy, callTimeout, runDeadline, budget>>
limits == <<timeout, waitUntil, runBinds>>
dispatch == <<round, limits, deadlineOf>>
caller == <<pc, dispatch, todo, pending, answer, raised>>
usage == <<total, before, own, charged>>
foreign == <<elsewhere, mixed>>
worker == <<step, ended, usage, foreign, calls, reserved>>
vars == <<options, clock, caller, worker, timedOut, spans, pool>>

kind == strategy[round].how
who(c) == strategy[c[1]].agentOf[c[2]]
each(x) == [c \in Calls |-> x]
lesser(a, b) == IF a <= b THEN a ELSE b
tokens == FoldFunction(LAMBDA x, y : x + y, 0, charged)
span(c, by, status) == [call |-> c, by |-> by, status |-> status]

Init ==
    /\ strategy \in Strategies
    /\ callTimeout \in Timeouts /\ runDeadline \in Deadlines /\ budget \in Budgets
    /\ clock = 0 /\ pc = "idle" /\ round = 0
    /\ todo = {} /\ pending = {} /\ deadlineOf = each(Never)
    /\ timeout = Never /\ waitUntil = Never /\ runBinds = FALSE
    /\ answer = each("none") /\ raised = "none"
    /\ step = each("none") /\ ended = each("none") /\ timedOut = {}
    /\ total = [a \in Agents |-> 0]
    /\ before = each(0) /\ own = each(0) /\ charged = each(0)
    /\ elsewhere = 0 /\ mixed = {}
    /\ calls = 0 /\ reserved = 0 /\ spans = {}
    /\ Pool!PoolInit

-----------------------------------------------------------------------------
(* A call on its worker: _run_agent_once.                                   *)

(* mutant: only settled calls count against max_calls *)
exhausted_settledOnly ==
    calls >= budget.max_calls \/ tokens >= budget.max_tokens

exhausted ==
    calls + reserved >= budget.max_calls \/ tokens >= budget.max_tokens

to(c, s) == step' = [step EXCEPT ![c] = s]

Reserve(c) ==
    /\ step[c] = "reserve"
    /\ IF exhausted
          THEN /\ ended' = [ended EXCEPT ![c] = "refused"] /\ to(c, "leave")
               /\ UNCHANGED <<before, reserved>>
          ELSE /\ reserved' = reserved + 1 /\ to(c, "handle")
               /\ before' = [before EXCEPT ![c] = total[who(c)]]
               /\ UNCHANGED ended
    /\ UNCHANGED <<total, own, charged, calls, timedOut, spans>>

(* agent.handle returns or raises; the agent has counted the tokens used.   *)
Handle(c) ==
    /\ step[c] = "handle"
    /\ \E u \in Usage, e \in {"ok", "error"} :
          /\ total' = [total EXCEPT ![who(c)] = @ + u]
          /\ own' = [own EXCEPT ![c] = u]
          /\ ended' = [ended EXCEPT ![c] = e]
    /\ to(c, "finally")
    /\ UNCHANGED <<before, charged, calls, reserved, timedOut, spans>>

(* mutant: a call that timed out is recorded by its worker alone *)
Finally_reversed(c) ==
    /\ step[c] = "finally"
    /\ to(c, IF c \in timedOut THEN "note" ELSE "settle")
    /\ UNCHANGED <<ended, usage, calls, reserved, timedOut, spans>>

(* The worker records the call unless it has been told not to ...           *)
Finally(c) ==
    /\ step[c] = "finally"
    /\ to(c, IF c \in timedOut THEN "settle" ELSE "note")
    /\ UNCHANGED <<ended, usage, calls, reserved, timedOut, spans>>

(* ... which the run may do after it looked.                                *)
Note(c) ==
    /\ step[c] = "note"
    /\ spans' = spans \cup {span(c, "worker", ended[c])}
    /\ to(c, "settle")
    /\ UNCHANGED <<ended, usage, calls, reserved, timedOut>>

(* mutant: a call that timed out is not charged *)
Settle_forgives(c) ==
    /\ step[c] = "settle"
    /\ charged' = [charged EXCEPT ![c] =
                      IF c \in timedOut THEN 0 ELSE total[who(c)] - before[c]]
    /\ calls' = calls + 1 /\ reserved' = reserved - 1
    /\ to(c, "leave")
    /\ UNCHANGED <<ended, total, before, own, timedOut, spans>>

Settle(c) ==
    /\ step[c] = "settle"
    /\ charged' = [charged EXCEPT ![c] = total[who(c)] - before[c]]
    /\ calls' = calls + 1
    /\ reserved' = IF reserved = 0 THEN 0 ELSE reserved - 1
    /\ to(c, "leave")
    /\ UNCHANGED <<ended, total, before, own, timedOut, spans>>

RunAgentOnce(c) ==
    /\ Reserve(c) \/ Handle(c) \/ Finally(c) \/ Note(c) \/ Settle(c)
    /\ UNCHANGED <<options, clock, caller, foreign, pool>>

Start(c) ==
    /\ Pool!StartJob(c) /\ to(c, "reserve")
    /\ UNCHANGED <<options, clock, caller, ended, usage, foreign, calls,
                   reserved, timedOut, spans>>

Return(c) ==
    /\ \/ step[c] = "leave" /\ Pool!ReleaseSlot(c)
       \/ Pool!CompleteJob(c)
    /\ UNCHANGED <<options, clock, caller, worker, timedOut, spans>>

-----------------------------------------------------------------------------
(* The thread of the run.                                                   *)

fail(exception) == pc' = "over" /\ raised' = exception

(* cancel for those still waiting in the queue, the event for all           *)
cancelEntries(S) == timedOut' = timedOut \cup S /\ Pool!cancelAll(S)

deadlineSpent == clock >= runDeadline

(* A dispatch past the run deadline is refused (clamp_timeout) ...          *)
Refuse ==
    /\ pc = "idle" /\ round < Rounds /\ deadlineSpent
    /\ fail("RunTimeout")
    /\ UNCHANGED <<options, clock, dispatch, todo, pending, answer, worker,
                   timedOut, spans, pool>>

(* mutant: a run deadline always ends the wait *)
bindsAt_always(now, t) == runDeadline < Never

(* Whether the run deadline ends a wait that begins now, rather than t.     *)
bindsAt(now, t) == runDeadline < Never /\ (t = Never \/ runDeadline <= now + t)
clamped == IF runDeadline = Never THEN callTimeout
           ELSE lesser(callTimeout, runDeadline - clock)

(* ... any other makes its calls on the pool, and a single call without a   *)
(* time limit in the thread of the run.                                     *)
Dispatch ==
    /\ pc = "idle" /\ round < Rounds /\ ~deadlineSpent
    /\ round' = round + 1
    /\ todo' = strategy[round'].places
    /\ timeout' = clamped
    /\ LET how == strategy[round'].how IN
       /\ runBinds' = IF how = "one" THEN bindsAt(clock, clamped) ELSE runBinds
       /\ IF how = "one" /\ clamped = Never
             THEN pc' = "inline" /\ \E i \in todo' : to(<<round', i>>, "reserve")
             ELSE pc' = (IF how = "tasks" THEN "work" ELSE "submit") /\ UNCHANGED step
    /\ UNCHANGED <<options, clock, waitUntil, deadlineOf, pending, answer, raised,
                   ended, usage, foreign, calls, reserved, timedOut, spans, pool>>

(* The call of the next place of the loop *)
isNext(c) == c[1] = round /\ c[2] \in todo /\ \A b \in todo : c[2] <= b

InlineReturns(c) ==
    /\ pc = "inline" /\ isNext(c) /\ step[c] = "leave"
    /\ to(c, "none") /\ todo' = {}
    /\ IF ended[c] = "refused"
          THEN fail("BudgetExceeded") /\ UNCHANGED answer
          ELSE /\ answer' = [answer EXCEPT ![c] = ended[c]]
               /\ pc' = "idle" /\ UNCHANGED raised
    /\ UNCHANGED <<options, clock, dispatch, pending, ended, usage, foreign,
                   calls, reserved, timedOut, spans, pool>>

Submit(c) ==
    /\ pc = "submit" /\ isNext(c)
    /\ Pool!submit(c)
    /\ pending' = pending \cup {c} /\ todo' = todo \ {c[2]}
    /\ UNCHANGED <<options, clock, pc, dispatch, answer, raised, worker, timedOut,
                   spans>>

(* The caller answers and records a call it does not wait for (any longer). *)
answerTimeout(S) ==
    /\ answer' = [c \in Calls |-> IF c \in S THEN "timeout" ELSE answer[c]]
    /\ spans' = spans \cup {span(c, "caller", "timeout") : c \in S}

(* PoolSaturated.  A parallel call without a timeout fails on recording     *)
(* the timeout it does not have.                                            *)
SubmitSaturated(c) ==
    /\ pc = "submit" /\ isNext(c)
    /\ Pool!saturated
    /\ CASE kind = "one" /\ runBinds ->
              fail("RunTimeout") /\ UNCHANGED <<answer, spans, todo>>
         [] kind = "all" /\ timeout = Never ->
              fail("TypeError") /\ UNCHANGED <<answer, spans, todo>>
         [] OTHER ->
              /\ answerTimeout({c}) /\ todo' = todo \ {c[2]}
              /\ pc' = IF kind = "one" THEN "idle" ELSE "submit"
              /\ UNCHANGED raised
    /\ UNCHANGED <<options, clock, dispatch, pending, worker, timedOut, pool>>

BeginWait ==
    /\ pc = "submit" /\ todo = {}
    /\ pc' = "wait"
    /\ LET end == IF timeout = Never THEN Never ELSE lesser(clock + timeout, MaxTime)
           binds == IF kind = "one" THEN runBinds ELSE bindsAt(clock, timeout)
       IN  /\ runBinds' = binds
           /\ waitUntil' = IF kind = "all" /\ binds THEN runDeadline ELSE end
    /\ UNCHANGED <<options, clock, round, timeout, deadlineOf, todo, pending,
                   answer, raised, worker, timedOut, spans, pool>>

done == {c \in pending : future[c] = "done"}

(* The results of the calls that are done, in the order of the agents; a    *)
(* refused one ends the run, and the calls after it are given up.           *)
Collect ==
    /\ pc = "wait" /\ done # {}
    /\ LET refused == {c \in done : ended[c] = "refused"}
           taken == {c \in done : \A f \in refused : c[2] < f[2]}
           first == {f \in refused : \A g \in refused : f[2] <= g[2]}
           rest == pending \ (taken \cup first)
       IN  /\ answer' = [c \in Calls |-> IF c \in taken THEN ended[c] ELSE answer[c]]
           /\ IF refused = {}
                 THEN pending' = rest /\ UNCHANGED <<pc, raised, timedOut, pool>>
                 ELSE fail("BudgetExceeded") /\ cancelEntries(rest) /\ pending' = {}
    /\ UNCHANGED <<options, clock, dispatch, todo, worker, spans>>

AllCollected ==
    /\ pc = "wait" /\ pending = {}
    /\ pc' = "idle"
    /\ UNCHANGED <<options, clock, dispatch, todo, pending, answer, raised, worker,
                   timedOut, spans, pool>>

expired == pc = "wait" /\ pending # {} /\ clock >= waitUntil

(* The wait ends by the run deadline: the run is over, nothing is recorded. *)
AbortWait ==
    /\ expired /\ runBinds
    /\ fail("RunTimeout") /\ pending' = {}
    /\ IF kind = "all" THEN cancelEntries(pending)
       ELSE timedOut' = timedOut \cup pending /\ UNCHANGED pool
    /\ UNCHANGED <<options, clock, dispatch, todo, answer, worker, spans>>

(* mutant: an expired wait is taken up again *)
GiveUp_waitsOn ==
    /\ expired /\ ~runBinds
    /\ timedOut' = timedOut \cup pending
    /\ UNCHANGED <<options, clock, pc, pending, dispatch, todo, answer, raised, spans, pool,
                   worker>>

(* By the timeout of the calls: those pending are answered for.  The future *)
(* of a single call is not cancelled.                                       *)
GiveUp ==
    /\ expired /\ ~runBinds
    /\ answerTimeout(pending)
    /\ IF kind = "all" THEN cancelEntries(pending)
       ELSE timedOut' = timedOut \cup pending /\ UNCHANGED pool
    /\ pc' = "idle" /\ pending' = {}
    /\ UNCHANGED <<options, clock, dispatch, todo, raised, worker>>

(* A plan's tasks on the scheduler.  A task runs _run_agent_once on a       *)
(* worker and is never told that nobody waits for it: its worker records    *)
(* the call, the run says nothing.                                          *)
isTask(c) == pc = "work" /\ c[1] = round /\ c[2] \in todo
taskFailed == \E c \in Calls : c[1] = round /\ answer[c] \in {"error", "expired"}
taskDeadline ==
    IF callTimeout = Never THEN runDeadline
    ELSE lesser(lesser(clock + callTimeout, MaxTime), runDeadline)

(* A task that finds the pool saturated has expired.                        *)
Launch(c) ==
    /\ isTask(c) /\ ~deadlineSpent
    /\ todo' = todo \ {c[2]}
    /\ \/ /\ Pool!submit(c)
          /\ pending' = pending \cup {c}
          /\ deadlineOf' = [deadlineOf EXCEPT ![c] = taskDeadline]
          /\ UNCHANGED answer
       \/ /\ Pool!saturated
          /\ answer' = [answer EXCEPT ![c] = "expired"]
          /\ UNCHANGED <<pending, deadlineOf, pool>>
    /\ UNCHANGED <<options, clock, pc, round, limits, raised, worker, timedOut,
                   spans>>

(* A task that depends on one that did not succeed                          *)
Skip(c) ==
    /\ isTask(c) /\ taskFailed
    /\ todo' = todo \ {c[2]}
    /\ UNCHANGED <<options, clock, pc, dispatch, pending, answer, raised, worker,
                   timedOut, spans, pool>>

TaskCollect(c) ==
    /\ pc = "work" /\ c \in done
    /\ deadlineOf' = [deadlineOf EXCEPT ![c] = Never]
    /\ IF ended[c] = "refused"
          THEN /\ fail("BudgetExceeded") /\ pending' = {}
               /\ Pool!cancelAll(pending \ {c})
               /\ UNCHANGED answer
          ELSE /\ answer' = [answer EXCEPT ![c] = ended[c]]
               /\ pending' = pending \ {c}
               /\ UNCHANGED <<pc, raised, pool>>
    /\ UNCHANGED <<options, clock, round, limits, todo, worker, timedOut, spans>>

late == {c \in pending : deadlineOf[c] <= clock}

(* Even of tasks that got done after the wait had found none that is.       *)
TaskExpire ==
    /\ pc = "work" /\ late # {}
    /\ answer' = [c \in Calls |-> IF c \in late THEN "expired" ELSE answer[c]]
    /\ deadlineOf' = [c \in Calls |-> IF c \in late THEN Never ELSE deadlineOf[c]]
    /\ pending' = pending \ late
    /\ Pool!cancelAll(late)
    /\ UNCHANGED <<options, clock, pc, round, limits, todo, raised, worker,
                   timedOut, spans>>

(* The deadline of the run, or tasks left that can never be launched        *)
WorkAborts ==
    /\ pc = "work"
    /\ \/ todo # {} \/ pending # {}
    /\ \/ deadlineSpent /\ fail("RunTimeout")
       \/ pending = {} /\ taskFailed /\ fail("TaskError")
    /\ pending' = {} /\ Pool!cancelAll(pending)
    /\ UNCHANGED <<options, clock, dispatch, todo, answer, worker, timedOut, spans>>

(* The deadline may still have ended the last tasks.                        *)
WorkDone ==
    /\ pc = "work" /\ todo = {} /\ pending = {}
    /\ IF deadlineSpent /\ \E c \in Calls : c[1] = round /\ answer[c] = "expired"
          THEN fail("RunTimeout")
          ELSE pc' = "idle" /\ UNCHANGED raised
    /\ UNCHANGED <<options, clock, dispatch, todo, pending, answer, worker,
                   timedOut, spans, pool>>

(* The strategy has made all its calls; the trace is finished.              *)
Finish ==
    /\ pc = "idle"
    /\ pc' = "over"
    /\ UNCHANGED <<options, clock, dispatch, todo, pending, answer, raised, worker,
                   timedOut, spans, pool>>

-----------------------------------------------------------------------------
(* What other runs hold is felt where this one asks for a slot.             *)
OtherRuns ==
    /\ pc = "submit" \/ (pc = "work" /\ todo # {})
    /\ Pool!OtherJob
    /\ UNCHANGED <<options, clock, caller, worker, timedOut, spans>>

holding == {c \in Calls : step[c] \in {"handle", "finally", "note", "settle"}}

(* Another run's call of an agent counts its tokens while calls of this run *)
(* are being made; at any other time nobody compares the counter.           *)
OtherUsage ==
    /\ elsewhere < MaxElsewhere
    /\ elsewhere' = elsewhere + 1
    /\ \E a \in Agents, u \in Usage :
          LET beside == {c \in holding : who(c) = a} IN
          /\ beside # {}
          /\ total' = [total EXCEPT ![a] = @ + u]
          /\ mixed' = mixed \cup beside
    /\ UNCHANGED <<options, clock, caller, step, ended, before, own, charged,
                   calls, reserved, timedOut, spans, pool>>

Tick ==
    /\ clock < MaxTime /\ pc # "over"
    /\ clock' = clock + 1
    /\ UNCHANGED <<options, caller, worker, timedOut, spans, pool>>

Over == pc = "over" /\ UNCHANGED vars

Run ==
    \/ \E c \in Calls : InlineReturns(c) \/ Submit(c) \/ SubmitSaturated(c)
    \/ \E c \in Calls : Launch(c) \/ Skip(c) \/ TaskCollect(c)
    \/ Refuse \/ Dispatch \/ BeginWait
    \/ Collect \/ AllCollected \/ AbortWait \/ GiveUp
    \/ TaskExpire \/ WorkAborts \/ WorkDone \/ Finish

Next ==
    \/ Run \/ OtherRuns \/ OtherUsage \/ Tick \/ Over
    \/ \E c \in Calls : Start(c) \/ RunAgentOnce(c) \/ Return(c)

Spec == Init /\ [][Next]_vars

(* The run's thread and the clock go on; an agent may hang for good.        *)
FairSpec == Spec /\ WF_vars(Run) /\ WF_vars(Tick)

-----------------------------------------------------------------------------
Steps == {"none", "reserve", "handle", "finally", "note", "settle", "leave"}
gaveUp == {c \in Calls : answer[c] \in {"timeout", "expired"}}
made(c) == step[c] = "handle" \/ ended[c] \in {"ok", "error"}

(* Every variable has its type. *)
TypeOK ==
    /\ strategy \in Strategies /\ callTimeout \in Timeouts
    /\ runDeadline \in Deadlines /\ budget \in Budgets
    /\ clock \in 0 .. MaxTime
    /\ pc \in {"idle", "inline", "submit", "wait", "work", "over"}
    /\ round \in 0 .. Rounds /\ deadlineOf \in [Calls -> 0 .. Never]
    /\ todo \subseteq Places /\ pending \subseteq Calls
    /\ timeout \in 0 .. Never /\ waitUntil \in 0 .. Never /\ runBinds \in BOOLEAN
    /\ answer \in [Calls -> {"none", "ok", "error", "timeout", "expired"}]
    /\ raised \in {"none", "RunTimeout", "BudgetExceeded", "TypeError", "TaskError"}
    /\ step \in [Calls -> Steps]
    /\ ended \in [Calls -> {"none", "ok", "error", "refused"}]
    /\ timedOut \subseteq Calls
    /\ total \in [Agents -> Nat]
    /\ before \in [Calls -> Nat] /\ own \in [Calls -> Nat] /\ charged \in [Calls -> Nat]
    /\ elsewhere \in 0 .. MaxElsewhere /\ mixed \subseteq Calls
    /\ calls \in Nat /\ reserved \in Nat
    /\ spans \subseteq [call : Calls, by : {"worker", "caller"},
                        status : {"ok", "error", "timeout"}]
    /\ Pool!PoolTypeOK

(* However many calls run at once, no more than max_calls are ever made,    *)
(* and a reservation is held by exactly one call that is being made: none   *)
(* is lost when a call times out, fails or is given up (budget.py:44-72).   *)
BudgetKept ==
    /\ calls + reserved <= budget.max_calls
    /\ reserved = Cardinality(holding)

(* The budget is charged each call's own tokens, never fewer; more only for *)
(* a call that ran beside another of the same agent (strategies.py:72-88).  *)
(* That is one of another run of the coordinator, of a task of the same     *)
(* plan (:462-466), or of another dispatch, and then the run had gone on    *)
(* without the earlier of the two.                                          *)
ChargedOwn ==
    \A c \in Calls : step[c] = "leave" /\ ended[c] # "refused" =>
        /\ charged[c] >= own[c]
        /\ charged[c] > own[c] =>
              \/ c \in mixed
              \/ \E d \in Calls \ {c} :
                    /\ who(d) = who(c) /\ made(d)
                    /\ d[1] = c[1] \/ (d[1] < c[1] /\ d \in gaveUp)
                       \/ (c[1] < d[1] /\ c \in gaveUp)

(* Once the run goes on, every call it made is answered and recorded: the   *)
(* agent's own answer once, under its status; a timeout by the caller, and  *)
(* perhaps once more by the worker; a task that expired by its worker       *)
(* alone.  A refused call is never an answer, and a call is made without    *)
(* being recorded only if its run was aborted (strategies.py:57-88,         *)
(* :159-210, :462-477).                                                     *)
AnswersRecorded ==
    /\ TypeOK
    /\ \A c \in Calls : LET mine == {s \in spans : s.call = c} IN
           /\ answer[c] \in {"ok", "error"} => mine = {span(c, "worker", answer[c])}
           /\ answer[c] = "timeout" => span(c, "caller", "timeout") \in mine
           /\ answer[c] = "expired" => \A s \in mine : s.by = "worker"
           /\ ended[c] = "refused" => answer[c] \in {"none", "timeout", "expired"}
           /\ pc = "idle" /\ (future[c] # "none" \/ ended[c] # "none") =>
                  answer[c] # "none"
           /\ step[c] = "leave" /\ ended[c] # "refused" /\ mine = {} => raised # "none"

(* The run is ended for its deadline when that has passed, or when a single *)
(* call found the pool saturated (strategies.py:125-147, :196-204).         *)
RunTimeoutExplained ==
    [][raised' = "RunTimeout" /\ raised = "none" =>
          deadlineSpent \/ (kind = "one" /\ Pool!saturated)]_vars

(* With a timeout for its calls, or for the run if it calls all agents at   *)
(* once, a run ends, whatever its agents do (coordinator.py:109-112).       *)
RunEnds == callTimeout < Never \/ runDeadline < Never => <>(pc = "over")

-----------------------------------------------------------------------------
(* A saturated pool is treated like a timeout (executor.py:19-20).          *)
SaturationIsTimeout == raised # "TypeError"
=============================================================================
