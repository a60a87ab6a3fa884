---------------------------- MODULE AgentRunner ----------------------------
(***************************************************************************)
(* AgentRunner.run (packages/dsh-multi-agent/src/runner.ts): the calls     *)
(* that successive runs make to one agent.                                 *)
(*                                                                         *)
(* A run is one Scheduler.run.  It has one call of this agent in flight at *)
(* a time (Scheduler!AgentExclusive), and it is over when its calls have   *)
(* settled or when it is aborted, which does not wait for them             *)
(* (Scheduler!RunResolves): the next run, a recovery attempt for         *)
(* instance, then starts while the old call is still unwinding.            *)
(***************************************************************************)
EXTENDS DshAgent

CONSTANTS
    RunOf,     (* the run each call is made by; runs are numbered in order  *)
    Undefined  (* no result yet                                             *)

Outcomes == {"completed", "failed", "cancelled", "timeout"}

ASSUME RunOfAssumption == RunOf \in [Calls -> Nat]
ASSUME UndefinedAssumption == Undefined \notin Outcomes

VARIABLES
    converges,  (* the harness ends a cancelled turn within the grace window *)
    aborted,    (* the runs whose AbortSignal is aborted                     *)
    pc,         (* where each call is                                        *)
    baseline,   (* session.events.length when the call began                 *)
    timer,      (* the per-task timer is armed                               *)
    converged,  (* the race was won by whenIdle                              *)
    result,     (* the TaskOutcome's status, timeouts apart                  *)
    slice,      (* history: the events the outcome was derived from          *)
    cancels     (* history: <<the canceller, the turn it aborted>>           *)

runnerVars == <<converges, aborted, pc, baseline, timer, converged, result,
                slice, cancels>>
vars == <<agentVars, runnerVars>>

Runs == {RunOf[c] : c \in Calls}
Phases == {"new", "waiting", "grace", "reading", "settled"}
InFlight(c) == pc[c] \in {"waiting", "grace", "reading"}

(* The run before c's is over; c's run has nothing else in flight.          *)
mayBegin(c) ==
    /\ pc[c] = "new"
    /\ \A b \in Calls : RunOf[b] < RunOf[c] =>
          pc[b] = "settled" \/ RunOf[b] \in aborted
    /\ \A b \in Calls : RunOf[b] = RunOf[c] => ~InFlight(b)

Init ==
    /\ AgentInit
    /\ converges \in BOOLEAN
    /\ aborted = {}
    /\ pc = [c \in Calls |-> "new"]
    /\ baseline = [c \in Calls |-> 0]
    /\ timer = [c \in Calls |-> FALSE]
    /\ converged = [c \in Calls |-> FALSE]
    /\ result = [c \in Calls |-> Undefined]
    /\ slice = [c \in Calls |-> <<>>]
    /\ cancels = {}

settleWith(c, outcome) ==
    /\ pc' = [pc EXCEPT ![c] = "settled"]
    /\ result' = [result EXCEPT ![c] = outcome]

-----------------------------------------------------------------------------
(* The call returns at once: its signal is already aborted, or the registry *)
(* has no such agent.                                                       *)
ReturnEarly(c) ==
    /\ mayBegin(c)
    /\ settleWith(c, IF RunOf[c] \in aborted THEN "cancelled" ELSE "failed")
    /\ UNCHANGED <<agentVars, converges, aborted, baseline, timer, converged,
                   slice, cancels>>

(* mutant: the slice is taken from the start of the log *)
Begin_noBaseline(c) ==
    /\ mayBegin(c) /\ RunOf[c] \notin aborted
    /\ followup(c)
    /\ pc' = [pc EXCEPT ![c] = "waiting"]
    /\ timer' = [timer EXCEPT ![c] = TRUE]
    /\ UNCHANGED <<converges, aborted, baseline, converged, result, slice, cancels>>

Begin(c) ==
    /\ mayBegin(c) /\ RunOf[c] \notin aborted
    /\ followup(c)
    /\ pc' = [pc EXCEPT ![c] = "waiting"]
    /\ baseline' = [baseline EXCEPT ![c] = Len(log)]
    /\ timer' = [timer EXCEPT ![c] = TRUE]
    /\ UNCHANGED <<converges, aborted, converged, result, slice, cancels>>

(* A promise's continuation runs before the event loop takes anything up.   *)
noneReading == \A c \in Calls : pc[c] # "reading"

(* whenIdle() resolves, for every call that waits for it, when the whole    *)
(* agent is quiescent.                                                      *)
whenIdle(phase) ==
    /\ pc' = IF idle' THEN [c \in Calls |-> IF phase[c] \in {"waiting", "grace"}
                                               THEN "reading" ELSE phase[c]]
                      ELSE phase
    /\ converged' = [c \in Calls |->
                        converged[c] \/ (idle' /\ phase[c] = "waiting")]

AgentStep ==
    /\ noneReading
    /\ StartTurn \/ Message \/ EndTurn
    /\ whenIdle(pc)
    /\ UNCHANGED <<converges, aborted, baseline, timer, result, slice, cancels>>

AgentAborts ==
    /\ noneReading /\ EndAborted
    /\ whenIdle(pc)
    /\ UNCHANGED <<converges, aborted, baseline, timer, result, slice, cancels>>

(* agent.cancel(cause), from whichever call: it aborts the turn that is     *)
(* live now.                                                                *)
cancelBy(c) ==
    /\ cancel
    /\ cancels' = IF active = None THEN cancels ELSE cancels \cup {<<c, active>>}

giveUpWaiting_noGrace(phase, c) ==                            \* mutant
    [phase EXCEPT ![c] = IF @ = "waiting" THEN "reading" ELSE @]

giveUpWaiting_never(phase, c) == phase                        \* mutant

giveUpWaiting(phase, c) ==
    [phase EXCEPT ![c] = IF @ = "waiting" THEN "grace" ELSE @]

(* The per-task timer.  It is cleared only when the call returns, so it can *)
(* fire in the grace window too.                                            *)
TimerFires(c) ==
    /\ noneReading /\ timer[c]
    /\ timer' = [timer EXCEPT ![c] = FALSE]
    /\ cancelBy(c)
    /\ whenIdle(giveUpWaiting(pc, c))
    /\ UNCHANGED <<converges, aborted, baseline, result, slice>>

(* The run's signal aborts, with c in flight: onAbort.                      *)
Abort(c) ==
    /\ InFlight(c) /\ RunOf[c] \notin aborted
    /\ aborted' = aborted \cup {RunOf[c]}
    /\ cancelBy(c)
    /\ whenIdle(giveUpWaiting(pc, c))
    /\ UNCHANGED <<converges, baseline, timer, result, slice>>

(* It aborts between two calls: no listener is registered.                  *)
AbortBetween(r) ==
    /\ r \notin aborted
    /\ \A c \in Calls : RunOf[c] = r => ~InFlight(c)
    /\ aborted' = aborted \cup {r}
    /\ UNCHANGED <<agentVars, converges, pc, baseline, timer, converged, result,
                   slice, cancels>>

(* The grace window ends first.  A harness that converges has ended this    *)
(* call's turn by then, yet another call may keep the agent from being idle.*)
GraceExpires(c) ==
    /\ noneReading /\ pc[c] = "grace" /\ (converges => active # c)
    /\ pc' = [pc EXCEPT ![c] = "reading"]
    /\ UNCHANGED <<agentVars, converges, aborted, baseline, timer, converged,
                   result, slice, cancels>>

(* mutant: an abort decides before the turn's end does *)
outcomeFromEvents_abortFirst(c, events) ==
    LET ends == {i \in DOMAIN events : events[i].kind \in Ends}
        turnEnd == IF ends = {} THEN Undefined
                   ELSE events[CHOOSE i \in ends : \A j \in ends : j <= i].kind
        signalled == RunOf[c] \in aborted
    IN  IF signalled THEN "cancelled"
        ELSE IF turnEnd = "completed" THEN "completed"
        ELSE IF ~converged[c] THEN "timeout"
        ELSE IF signalled \/ turnEnd = "aborted" THEN "cancelled"
        ELSE "failed"

(* outcomeFromEvents: the last turn/end of the slice decides first.         *)
outcomeFromEvents(c, events) ==
    LET ends == {i \in DOMAIN events : events[i].kind \in Ends}
        turnEnd == IF ends = {} THEN Undefined
                   ELSE events[CHOOSE i \in ends : \A j \in ends : j <= i].kind
        signalled == RunOf[c] \in aborted
    IN  IF turnEnd = "completed" THEN "completed"
        ELSE IF ~converged[c] /\ ~signalled THEN "timeout"
        ELSE IF signalled \/ turnEnd = "aborted" THEN "cancelled"
        ELSE "failed"

Read(c) ==
    /\ pc[c] = "reading"
    /\ LET events == SubSeq(log, baseline[c] + 1, Len(log)) IN
          /\ settleWith(c, outcomeFromEvents(c, events))
          /\ slice' = [slice EXCEPT ![c] = events]
    /\ timer' = [timer EXCEPT ![c] = FALSE]
    /\ UNCHANGED <<agentVars, converges, aborted, baseline, converged, cancels>>

Over ==
    /\ \A c \in Calls : pc[c] = "settled" \/ (pc[c] = "new" /\ RunOf[c] \in aborted)
    /\ idle
    /\ UNCHANGED vars

-----------------------------------------------------------------------------
Next ==
    \/ \E c \in Calls :
          \/ ReturnEarly(c) \/ Begin(c) \/ TimerFires(c) \/ Abort(c)
          \/ GraceExpires(c) \/ Read(c)
    \/ \E r \in Runs : AbortBetween(r)
    \/ AgentStep \/ AgentAborts
    \/ Over

Spec == Init /\ [][Next]_vars

(* Timers fire and promise callbacks run.  Nothing is asked of the harness  *)
(* but what `converges' says.                                               *)
Fairness ==
    /\ \A c \in Calls : /\ WF_vars(TimerFires(c))
                        /\ WF_vars(GraceExpires(c))
                        /\ WF_vars(Read(c))
    /\ WF_vars(converges /\ AgentAborts)

FairSpec == Spec /\ Fairness

-----------------------------------------------------------------------------
(* Every variable has its type; a call has a result exactly when it returned.*)
TypeOK ==
    /\ AgentTypeOK
    /\ converges \in BOOLEAN /\ aborted \subseteq Runs
    /\ pc \in [Calls -> Phases]
    /\ baseline \in [Calls -> Nat]
    /\ timer \in [Calls -> BOOLEAN] /\ converged \in [Calls -> BOOLEAN]
    /\ \A c \in Calls : pc[c] = "settled" <=> result[c] # Undefined
    /\ slice \in [Calls -> Seq(Event)]
    /\ cancels \subseteq Calls \X Calls

Settled(c) == pc[c] = "settled"

(* Two calls may disturb each other only across an abort: that of the       *)
(* earlier one's run, which did not wait for it to unwind.                  *)
apart(b, c) ==
    RunOf[b] # RunOf[c] /\ RunOf[IF RunOf[b] < RunOf[c] THEN b ELSE c] \in aborted
disturbed(c) == \E b \in Calls : pc[b] # "new" /\ apart(b, c)

(* The slice a call derives its outcome from holds the events of its own     *)
(* turn only, when the harness ends cancelled turns in time, and otherwise   *)
(* those of a turn that an aborted run left unwinding (runner.ts:10,         *)
(* dsh.ts:14-16).                                                            *)
SliceIsOwn ==
    /\ TypeOK
    /\ converges =>
          \A c \in Calls : \A i \in DOMAIN slice[c] :
             slice[c][i].of = c \/ apart(slice[c][i].of, c)

(* "completed" is told of a call exactly when its own turn completed, timers *)
(* and aborts that raced with the turn's end included; bad news has its own  *)
(* cause too: "cancelled" only in a run that was aborted, and a turn's       *)
(* failure only when the call's own turn ended in one, and not because       *)
(* another call of the run dropped its message (runner.ts:155-160,           *)
(* :248-285).                                                                *)
OutcomeTruthful ==
    \A c \in Calls :
        LET turnEnds(k) == \E i \in DOMAIN log : log[i] = [of |-> c, kind |-> k] IN
        /\ Settled(c) /\ ~disturbed(c) =>
              (result[c] = "completed" <=> turnEnds("completed"))
        /\ result[c] = "cancelled" => RunOf[c] \in aborted \/ disturbed(c)
        /\ result[c] = "failed" /\ converged[c] => turnEnds("error") \/ disturbed(c)

(* A call leaves nothing behind when the harness converges: its timer and    *)
(* listener abort no other call's turn, except across the abort of a run,    *)
(* and when the calls have returned no turn of theirs is live or queued      *)
(* (runner.ts:21-23, :170-173).                                              *)
NothingLeft ==
    converges =>
        /\ \A p \in cancels : p[1] = p[2] \/ apart(p[1], p[2])
        /\ (\A c \in Calls : ~InFlight(c)) => idle

(* Every call returns, whatever the harness does (runner.ts:24-26).          *)
CallsReturn == \A c \in Calls : InFlight(c) ~> Settled(c)
=============================================================================
