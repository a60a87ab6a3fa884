-------------------------- MODULE AgentCallsProofs --------------------------
(***************************************************************************)
(* Theorems about AgentCalls, for every number of agents, dispatches and   *)
(* workers, every strategy, budget, timeout and deadline, and whatever     *)
(* tokens the calls and the other runs use.                                *)
(***************************************************************************)
EXTENDS AgentCalls, FiniteSetTheorems, TLAPS

USE SizesAssumption, InputsAssumption DEF SizesAssumption, InputsAssumption

LEMMA CallsFinite == IsFiniteSet(Calls) /\ \A S \in SUBSET Calls : Cardinality(S) \in Nat
<1>1. IsFiniteSet(1 .. Rounds) /\ IsFiniteSet(1 .. N)
  BY FS_Interval
<1>2. IsFiniteSet(Calls)
  BY <1>1, FS_Product DEF Calls, Places
<1>3. QED
  BY <1>2, FS_Subset, FS_CardinalityType

(* A place has one agent, and a dispatch of one call has one place.         *)
LEMMA Strategic ==
    ASSUME strategy \in Strategies
    PROVE  /\ \A c \in Calls : who(c) \in Agents
           /\ \A r \in 1..Rounds : /\ strategy[r] \in Dispatches
                                   /\ strategy[r].places \subseteq Places
                                   /\ strategy[r].how = "one" =>
                                          \E i \in Places : strategy[r].places = {i}
<1>1. \A r \in 1..Rounds : strategy[r] \in Dispatches
  BY StrategiesAssumption DEF StrategiesAssumption
<1>2. \A r \in 1..Rounds : strategy[r].how = "one" =>
          \E i \in Places : strategy[r].places = {i}
  BY StrategiesAssumption DEF StrategiesAssumption
<1>3. ASSUME NEW c \in Calls PROVE who(c) \in Agents
  <2>1. c[1] \in 1..Rounds /\ c[2] \in Places
    BY DEF Calls
  <2> QED BY <2>1, <1>1 DEF Dispatches, who
<1> QED
  BY <1>1, <1>2, <1>3 DEF Dispatches

-----------------------------------------------------------------------------
(* What the types of the counters and the spans rest on: a usage counter    *)
(* never falls below what a call read before it, and a call that has been   *)
(* made, and every future that is done, has its end.                        *)
Ended ==
    /\ \A c \in Calls : before[c] <= total[who(c)]
    /\ \A c \in Calls : step[c] \in {"finally", "note", "settle"} =>
          ended[c] \in {"ok", "error"}
    /\ \A c \in Calls :
          step[c] = "leave" \/ future[c] \in {"returning", "done"} => ended[c] # "none"

TypeInv == TypeOK /\ Ended

LEMMA TypeInit == Init => TypeInv
<1> SUFFICES ASSUME Init PROVE TypeInv
  OBVIOUS
<1> USE DEF Init, each
<1>1. Pool!PoolTypeOK
  BY DEF Pool!PoolInit, Pool!PoolTypeOK, Pool!FutureStates
<1>2. 0 \in 0 .. MaxTime /\ 0 \in 0 .. Rounds /\ Never \in 0 .. Never
      /\ 0 \in 0 .. MaxElsewhere
  BY DEF Never
<1>3. TypeOK
  BY <1>1, <1>2 DEF TypeOK, Steps
<1>4. Ended
  BY Strategic DEF Ended, Pool!PoolInit
<1> QED
  BY <1>3, <1>4 DEF TypeInv

(* The steps of _run_agent_once *)
LEMMA TypeOnce ==
    ASSUME TypeInv, NEW c \in Calls, RunAgentOnce(c)
    PROVE  TypeInv'
<1> USE DEF TypeInv, RunAgentOnce, options, caller, dispatch, limits, foreign, pool, to
<1>a. \A d \in Calls : who(d) \in Agents /\ who(d)' = who(d)
  BY Strategic DEF TypeOK, who
<1>p. Pool!PoolTypeOK'
  BY DEF TypeOK, Pool!PoolTypeOK
<1>1. CASE Reserve(c)
  <2>1. TypeOK'
    BY <1>1, <1>a, <1>p DEF Reserve, TypeOK, Steps
  <2>2. Ended'
    BY <1>1, <1>a DEF Reserve, Ended, TypeOK
  <2> QED BY <2>1, <2>2
<1>2. CASE Handle(c)
  <2>1. TypeOK'
    BY <1>2, <1>a, <1>p DEF Handle, TypeOK, Steps
  <2>2. Ended'
    BY <1>2, <1>a DEF Handle, Ended, TypeOK
  <2> QED BY <2>1, <2>2
<1>3. CASE Finally(c)
  <2>1. TypeOK'
    BY <1>3, <1>p DEF Finally, TypeOK, Steps, usage
  <2>2. Ended'
    BY <1>3, <1>a DEF Finally, Ended, TypeOK, usage
  <2> QED BY <2>1, <2>2
<1>4. CASE Note(c)
  <2>1. TypeOK'
    BY <1>4, <1>p DEF Note, TypeOK, Ended, Steps, usage, span
  <2>2. Ended'
    BY <1>4, <1>a DEF Note, Ended, TypeOK, usage
  <2> QED BY <2>1, <2>2
<1>5. CASE Settle(c)
  <2>1. total[who(c)] - before[c] \in Nat
    BY <1>a DEF Ended, TypeOK
  <2>2. TypeOK'
    BY <1>5, <1>p, <2>1 DEF Settle, TypeOK, Steps
  <2>3. Ended'
    BY <1>5, <1>a DEF Settle, Ended, TypeOK
  <2> QED BY <2>2, <2>3
<1> QED
  BY <1>1, <1>2, <1>3, <1>4, <1>5

(* The pool's own steps *)
LEMMA TypePool ==
    ASSUME TypeInv, NEW c \in Calls, Start(c) \/ Return(c)
    PROVE  TypeInv'
<1> USE DEF TypeInv, options, caller, dispatch, limits, worker, foreign, usage, to
<1>a. \A d \in Calls : who(d)' = who(d)
  BY DEF Start, Return, who
<1>1. CASE Start(c)
  <2>1. Pool!PoolTypeOK'
    BY <1>1 DEF Start, TypeOK, Pool!PoolTypeOK, Pool!StartJob, Pool!FutureStates
  <2>2. TypeOK'
    BY <1>1, <2>1 DEF Start, TypeOK, Steps
  <2>3. Ended'
    BY <1>1, <1>a DEF Start, Ended, TypeOK, Pool!PoolTypeOK, Pool!StartJob
  <2> QED BY <2>2, <2>3
<1>2. CASE Return(c)
  <2>1. Pool!PoolTypeOK'
    BY <1>2 DEF Return, TypeOK, Pool!PoolTypeOK, Pool!ReleaseSlot,
                Pool!CompleteJob, Pool!FutureStates
  <2>2. TypeOK'
    BY <1>2, <2>1 DEF Return, TypeOK
  <2>3. Ended'
    BY <1>2, <1>a DEF Return, Ended, TypeOK, Pool!PoolTypeOK, Pool!ReleaseSlot,
                Pool!CompleteJob
  <2> QED BY <2>2, <2>3
<1> QED
  BY <1>1, <1>2

(* Giving up calls changes the futures of queued ones only.                 *)
LEMMA Cancelling ==
    ASSUME TypeInv, NEW S \in SUBSET Calls, Pool!cancelAll(S)
    PROVE  /\ Pool!PoolTypeOK'
           /\ \A c \in Calls : future'[c] = future[c] \/ future'[c] = "cancelled"
<1>1. S \cap Pool!inState({"queued"}) \in SUBSET Calls
  OBVIOUS
<1>2. Cardinality(S \cap Pool!inState({"queued"})) \in Nat
  BY <1>1, CallsFinite
<1>3. /\ Pool!PoolTypeOK
      /\ slots \in Nat
  BY DEF TypeInv, TypeOK, Pool!PoolTypeOK
<1>c. /\ slots' = slots + Cardinality(S \cap Pool!inState({"queued"}))
      /\ others' = others
  BY Zenon DEF Pool!cancelAll, Pool!Cardinality, Cardinality
<1>4. slots' \in Nat /\ others' = others
  BY <1>2, <1>3, <1>c
<1>5. future' \in [Calls -> Pool!FutureStates]
  BY <1>3 DEF Pool!cancelAll, Pool!PoolTypeOK, Pool!FutureStates
<1>6. \A c \in Calls : future'[c] = future[c] \/ future'[c] = "cancelled"
  BY DEF Pool!cancelAll
<1> QED
  BY <1>3, <1>4, <1>5, <1>6 DEF Pool!PoolTypeOK

LEMMA StrategyStays == ASSUME [Next]_vars PROVE strategy' = strategy
<1> USE DEF options
<1>1. ASSUME NEW c \in Calls, RunAgentOnce(c) \/ Start(c) \/ Return(c)
      PROVE  strategy' = strategy
  BY <1>1 DEF RunAgentOnce, Start, Return
<1>2. ASSUME NEW c \in Calls, InlineReturns(c) \/ Submit(c) \/ SubmitSaturated(c)
                              \/ Launch(c) \/ Skip(c) \/ TaskCollect(c)
      PROVE  strategy' = strategy
  BY <1>2 DEF InlineReturns, Submit, SubmitSaturated, Launch, Skip, TaskCollect
<1>3. ASSUME Refuse \/ Dispatch \/ BeginWait \/ Collect \/ AllCollected \/ AbortWait
             \/ GiveUp \/ TaskExpire \/ WorkAborts \/ WorkDone \/ Finish
      PROVE  strategy' = strategy
  BY <1>3 DEF Refuse, Dispatch, BeginWait, Collect, AllCollected, AbortWait, GiveUp,
              TaskExpire, WorkAborts, WorkDone, Finish
<1> QED
  BY <1>1, <1>2, <1>3 DEF Next, Run, OtherRuns, OtherUsage, Tick, Over, vars

(* The steps of the run's thread *)
LEMMA TypeRun == ASSUME TypeInv, Run PROVE TypeInv'
<1> USE DEF TypeInv, options, caller, dispatch, limits, worker, foreign, usage, pool, fail
<1>a. \A d \in Calls : who(d)' = who(d)
  BY StrategyStays DEF who, Next
<1>1. ASSUME NEW c \in Calls, InlineReturns(c) PROVE TypeInv'
  <2>1. Pool!PoolTypeOK'
    BY <1>1 DEF InlineReturns, TypeOK, Pool!PoolTypeOK
  <2>2. ended[c] # "none" /\ ended[c] \in {"none", "ok", "error", "refused"}
    BY <1>1 DEF InlineReturns, TypeOK, Ended
  <2>3. TypeOK'
    BY <1>1, <2>1, <2>2 DEF InlineReturns, TypeOK, Steps, to
  <2>4. Ended'
    BY <1>1, <1>a DEF InlineReturns, Ended, TypeOK, to
  <2> QED BY <2>3, <2>4
<1>2. ASSUME NEW c \in Calls, Submit(c) PROVE TypeInv'
  <2>1. Pool!PoolTypeOK'
    BY <1>2 DEF Submit, TypeOK, Pool!PoolTypeOK, Pool!submit, Pool!FutureStates
  <2>2. TypeOK'
    BY <1>2, <2>1 DEF Submit, TypeOK
  <2>3. Ended'
    BY <1>2, <1>a DEF Submit, Ended, TypeOK, Pool!PoolTypeOK, Pool!submit
  <2> QED BY <2>2, <2>3
<1>3. ASSUME NEW c \in Calls, SubmitSaturated(c) PROVE TypeInv'
  <2>1. Pool!PoolTypeOK'
    BY <1>3 DEF SubmitSaturated, TypeOK, Pool!PoolTypeOK
  <2>2. TypeOK'
    BY <1>3, <2>1 DEF SubmitSaturated, answerTimeout, span, TypeOK
  <2>3. Ended'
    BY <1>3, <1>a DEF SubmitSaturated, Ended
  <2> QED BY <2>2, <2>3
<1>4. CASE Refuse
  <2>1. Pool!PoolTypeOK'
    BY <1>4 DEF Refuse, TypeOK, Pool!PoolTypeOK
  <2> QED BY <1>4, <1>a, <2>1 DEF Refuse, TypeOK, Ended
<1>5. CASE Dispatch
  <2>1. Pool!PoolTypeOK'
    BY <1>5 DEF Dispatch, TypeOK, Pool!PoolTypeOK
  <2>2. clamped \in 0 .. Never /\ round + 1 \in 0 .. Rounds
    BY <1>5 DEF Dispatch, clamped, lesser, deadlineSpent, TypeOK, Never
  <2>3. round' = round + 1 /\ round' \in 1 .. Rounds
    BY <1>5, <2>2 DEF Dispatch, TypeOK
  <2>4. todo' = strategy[round'].places /\ todo' \subseteq Places
    BY <1>5, <2>3, Strategic DEF Dispatch, TypeOK
  <2>5. pc' \in {"submit", "inline", "work"} /\ runBinds' \in BOOLEAN
    BY <1>5 DEF Dispatch, TypeOK, bindsAt
  <2>6. step' \in [Calls -> Steps] /\ \A c \in Calls : step'[c] \in {step[c], "reserve"}
    <3>1. step' = step \/ \E i \in todo' : to(<<round', i>>, "reserve")
      BY <1>5 DEF Dispatch
    <3> QED BY <3>1 DEF TypeOK, Steps, to
  <2>7. TypeOK'
    BY <1>5, <2>1, <2>2, <2>3, <2>4, <2>5, <2>6 DEF Dispatch, TypeOK
  <2>8. Ended'
    BY <1>5, <1>a, <2>6 DEF Dispatch, Ended, TypeOK
  <2> QED BY <2>7, <2>8
<1>6. CASE BeginWait
  <2>1. Pool!PoolTypeOK'
    BY <1>6 DEF BeginWait, TypeOK, Pool!PoolTypeOK
  <2> DEFINE end == IF timeout = Never THEN Never ELSE lesser(clock + timeout, MaxTime)
             binds == IF kind = "one" THEN runBinds ELSE bindsAt(clock, timeout)
  <2>a. runBinds' = binds /\ waitUntil' = IF kind = "all" /\ binds THEN runDeadline ELSE end
    BY <1>6 DEF BeginWait
  <2>b. end \in 0 .. Never /\ runDeadline \in 0 .. Never
    BY DEF lesser, TypeOK, Never
  <2>c. binds \in BOOLEAN
    BY DEF bindsAt, TypeOK
  <2>2. waitUntil' \in 0 .. Never /\ runBinds' \in BOOLEAN
    BY <2>a, <2>b, <2>c
  <2>3. TypeOK'
    BY <1>6, <2>1, <2>2 DEF BeginWait, TypeOK
  <2>4. Ended'
    BY <1>6, <1>a DEF BeginWait, Ended
  <2> QED BY <2>3, <2>4
<1>7. CASE Collect
  <2> DEFINE refused == {c \in done : ended[c] = "refused"}
             taken == {c \in done : \A f \in refused : c[2] < f[2]}
             first == {f \in refused : \A g \in refused : f[2] <= g[2]}
             rest == pending \ (taken \cup first)
  <2>1. taken \in SUBSET Calls /\ rest \in SUBSET Calls
    BY DEF done, TypeOK
  <2>2. \A c \in taken : ended[c] \in {"ok", "error"}
    <3> SUFFICES ASSUME NEW c \in taken PROVE ended[c] \in {"ok", "error"}
      OBVIOUS
    <3>1. c \in Calls /\ future[c] = "done" /\ c[2] \in Nat
      BY <2>1 DEF done, Calls, Places
    <3>2. c \notin refused
      BY <3>1
    <3> QED
      BY <3>1, <3>2 DEF Ended, TypeOK
  <2>3. Pool!PoolTypeOK' /\ \A c \in Calls : future'[c] = future[c] \/ future'[c] = "cancelled"
    <3>1. CASE refused = {}
      BY <1>7, <3>1 DEF Collect, TypeOK, Pool!PoolTypeOK
    <3>2. CASE refused # {}
      <4>1. Pool!cancelAll(rest)
        BY <1>7, <3>2 DEF Collect, cancelEntries
      <4> QED BY <4>1, <2>1, Cancelling
    <3> QED BY <3>1, <3>2
  <2>4. answer' \in [Calls -> {"none", "ok", "error", "timeout", "expired"}]
    BY <1>7, <2>2 DEF Collect, TypeOK
  <2>5. pending' \subseteq Calls /\ timedOut' \subseteq Calls
        /\ pc' \in {"wait", "over"} /\ raised' \in {raised, "BudgetExceeded"}
    BY <1>7, <2>1 DEF Collect, cancelEntries, TypeOK
  <2>6. TypeOK'
    BY <1>7, <2>3, <2>4, <2>5 DEF Collect, TypeOK
  <2>7. Ended'
    BY <1>7, <1>a, <2>3 DEF Collect, Ended
  <2> QED BY <2>6, <2>7
<1>8. CASE AllCollected
  <2>1. Pool!PoolTypeOK'
    BY <1>8 DEF AllCollected, TypeOK, Pool!PoolTypeOK
  <2> QED BY <1>8, <1>a, <2>1 DEF AllCollected, TypeOK, Ended
<1>9. CASE AbortWait
  <2>1. Pool!PoolTypeOK' /\ \A c \in Calls : future'[c] = future[c] \/ future'[c] = "cancelled"
    <3>1. CASE kind = "all"
      BY <1>9, <3>1, Cancelling DEF AbortWait, cancelEntries, TypeOK
    <3>2. CASE kind # "all"
      BY <1>9, <3>2 DEF AbortWait, TypeOK, Pool!PoolTypeOK
    <3> QED BY <3>1, <3>2
  <2>2. timedOut' \subseteq Calls
    BY <1>9 DEF AbortWait, cancelEntries, TypeOK
  <2> QED BY <1>9, <1>a, <2>1, <2>2 DEF AbortWait, TypeOK, Ended
<1>10. CASE GiveUp
  <2>1. Pool!PoolTypeOK' /\ \A c \in Calls : future'[c] = future[c] \/ future'[c] = "cancelled"
    <3>1. CASE kind = "all"
      BY <1>10, <3>1, Cancelling DEF GiveUp, cancelEntries, TypeOK
    <3>2. CASE kind # "all"
      BY <1>10, <3>2 DEF GiveUp, TypeOK, Pool!PoolTypeOK
    <3> QED BY <3>1, <3>2
  <2>2. timedOut' \subseteq Calls
    BY <1>10 DEF GiveUp, cancelEntries, TypeOK
  <2>3. TypeOK'
    BY <1>10, <2>1, <2>2 DEF GiveUp, answerTimeout, span, TypeOK
  <2>4. Ended'
    BY <1>10, <1>a, <2>1 DEF GiveUp, Ended
  <2> QED BY <2>3, <2>4
<1>11. CASE Finish
  <2>1. Pool!PoolTypeOK'
    BY <1>11 DEF Finish, TypeOK, Pool!PoolTypeOK
  <2> QED BY <1>11, <1>a, <2>1 DEF Finish, TypeOK, Ended
<1>12. ASSUME NEW c \in Calls, Launch(c) PROVE TypeInv'
  <2>1. Pool!PoolTypeOK' /\ \A d \in Calls : future'[d] = future[d] \/ future'[d] = "queued"
    BY <1>12 DEF Launch, TypeOK, Pool!PoolTypeOK, Pool!submit, Pool!FutureStates
  <2>2. taskDeadline \in 0 .. Never
    BY DEF taskDeadline, lesser, TypeOK, Never
  <2>3. deadlineOf' \in [Calls -> 0 .. Never]
    BY <1>12, <2>2 DEF Launch, TypeOK
  <2>4. answer' \in [Calls -> {"none", "ok", "error", "timeout", "expired"}]
    BY <1>12 DEF Launch, TypeOK
  <2>5. TypeOK'
    BY <1>12, <2>1, <2>3, <2>4 DEF Launch, TypeOK
  <2>6. Ended'
    BY <1>12, <1>a, <2>1 DEF Launch, Ended
  <2> QED BY <2>5, <2>6
<1>13. ASSUME NEW c \in Calls, Skip(c) PROVE TypeInv'
  <2>1. Pool!PoolTypeOK'
    BY <1>13 DEF Skip, TypeOK, Pool!PoolTypeOK
  <2> QED BY <1>13, <1>a, <2>1 DEF Skip, TypeOK, Ended
<1>14. ASSUME NEW c \in Calls, TaskCollect(c) PROVE TypeInv'
  <2>1. Pool!PoolTypeOK' /\ \A d \in Calls : future'[d] = future[d] \/ future'[d] = "cancelled"
    <3>1. CASE ended[c] = "refused"
      <4>1. pending \ {c} \in SUBSET Calls /\ Pool!cancelAll(pending \ {c})
        BY <1>14, <3>1 DEF TaskCollect, TypeOK
      <4> QED BY <4>1, Cancelling
    <3>2. CASE ended[c] # "refused"
      BY <1>14, <3>2 DEF TaskCollect, TypeOK, Pool!PoolTypeOK
    <3> QED BY <3>1, <3>2
  <2>2. ended[c] # "none" /\ ended[c] \in {"none", "ok", "error", "refused"}
    BY <1>14 DEF TaskCollect, done, TypeOK, Ended
  <2>3. deadlineOf' \in [Calls -> 0 .. Never]
    BY <1>14 DEF TaskCollect, TypeOK, Never
  <2>4. answer' \in [Calls -> {"none", "ok", "error", "timeout", "expired"}]
    BY <1>14, <2>2 DEF TaskCollect, TypeOK
  <2>5. TypeOK'
    BY <1>14, <2>1, <2>3, <2>4 DEF TaskCollect, TypeOK
  <2>6. Ended'
    BY <1>14, <1>a, <2>1 DEF TaskCollect, Ended
  <2> QED BY <2>5, <2>6
<1>15. CASE TaskExpire \/ WorkAborts
  <2>1. late \in SUBSET Calls /\ pending \in SUBSET Calls
    BY DEF late, TypeOK
  <2>2. Pool!PoolTypeOK' /\ \A d \in Calls : future'[d] = future[d] \/ future'[d] = "cancelled"
    BY <1>15, <2>1, Cancelling DEF TaskExpire, WorkAborts
  <2>3. CASE TaskExpire
    <3>1. deadlineOf' \in [Calls -> 0 .. Never]
          /\ answer' \in [Calls -> {"none", "ok", "error", "timeout", "expired"}]
      BY <2>3 DEF TaskExpire, TypeOK, Never
    <3>2. TypeOK'
      BY <2>2, <2>3, <3>1 DEF TaskExpire, TypeOK
    <3>3. Ended'
      BY <1>a, <2>2, <2>3 DEF TaskExpire, Ended
    <3> QED BY <3>2, <3>3
  <2>4. CASE WorkAborts
    <3>1. TypeOK'
      BY <2>2, <2>4 DEF WorkAborts, TypeOK
    <3>2. Ended'
      BY <1>a, <2>2, <2>4 DEF WorkAborts, Ended
    <3> QED BY <3>1, <3>2
  <2> QED BY <1>15, <2>3, <2>4
<1>16. CASE WorkDone
  <2>1. Pool!PoolTypeOK'
    BY <1>16 DEF WorkDone, TypeOK, Pool!PoolTypeOK
  <2> QED BY <1>16, <1>a, <2>1 DEF WorkDone, TypeOK, Ended
<1> QED
  BY <1>1, <1>2, <1>3, <1>4, <1>5, <1>6, <1>7, <1>8, <1>9, <1>10, <1>11, <1>12, <1>13,
     <1>14, <1>15, <1>16 DEF Run

(* Tokens another run counts, and what else the run does not do             *)
LEMMA TypeOther ==
    ASSUME TypeInv, OtherRuns \/ OtherUsage \/ Tick \/ UNCHANGED vars
    PROVE  TypeInv'
<1> USE DEF TypeInv, options, caller, dispatch, limits, worker, foreign, usage
<1>a. \A d \in Calls : who(d) \in Agents /\ who(d)' = who(d)
  <2>1. strategy' = strategy
    BY DEF OtherRuns, OtherUsage, Tick, vars
  <2> QED BY <2>1, Strategic DEF TypeOK, who
<1>1. CASE UNCHANGED vars
  <2>1. Pool!PoolTypeOK'
    BY <1>1 DEF TypeOK, Pool!PoolTypeOK, vars, pool
  <2>2. TypeOK'
    BY <1>1, <2>1 DEF TypeOK, vars
  <2>3. Ended'
    BY <1>1, <1>a DEF Ended, vars, pool
  <2> QED BY <2>2, <2>3
<1>2. CASE OtherRuns
  <2>1. Pool!PoolTypeOK' /\ future' = future
    BY <1>2 DEF OtherRuns, TypeOK, Pool!PoolTypeOK, Pool!OtherJob
  <2> QED BY <1>2, <1>a, <2>1 DEF OtherRuns, TypeOK, Ended
<1>3. CASE Tick
  <2>1. Pool!PoolTypeOK'
    BY <1>3 DEF Tick, TypeOK, Pool!PoolTypeOK, pool
  <2> QED BY <1>3, <1>a, <2>1 DEF Tick, TypeOK, Ended, pool
<1>4. CASE OtherUsage
  <2>1. PICK a \in Agents, u \in Usage :
            /\ total' = [total EXCEPT ![a] = @ + u]
            /\ mixed' = mixed \cup {c \in holding : who(c) = a}
    BY <1>4 DEF OtherUsage
  <2>2. u \in Nat /\ total \in [Agents -> Nat]
    BY InputsAssumption DEF TypeOK
  <2>3. total' \in [Agents -> Nat] /\ \A b \in Agents : total[b] <= total'[b]
    BY <2>1, <2>2
  <2>4. mixed' \subseteq Calls /\ elsewhere' \in 0 .. MaxElsewhere
    BY <1>4, <2>1 DEF OtherUsage, holding, TypeOK
  <2>5. Pool!PoolTypeOK'
    BY <1>4 DEF OtherUsage, TypeOK, Pool!PoolTypeOK, pool
  <2>6. TypeOK'
    BY <1>4, <2>3, <2>4, <2>5 DEF OtherUsage, TypeOK, pool
  <2>7. \A c \in Calls : before'[c] <= total'[who(c)']
    <3> SUFFICES ASSUME NEW c \in Calls PROVE before'[c] <= total'[who(c)']
      OBVIOUS
    <3>1. before'[c] = before[c] /\ before[c] <= total[who(c)] /\ before[c] \in Nat
      BY <1>4 DEF OtherUsage, Ended, TypeOK
    <3>2. total[who(c)] <= total'[who(c)] /\ total[who(c)] \in Nat /\ total'[who(c)] \in Nat
      BY <1>a, <2>2, <2>3
    <3> QED BY <1>a, <3>1, <3>2
  <2>8. UNCHANGED <<step, ended, future>>
    BY <1>4 DEF OtherUsage, pool
  <2> QED BY <2>6, <2>7, <2>8 DEF Ended
<1> QED
  BY <1>1, <1>2, <1>3, <1>4

LEMMA TypeInvariance == Spec => []TypeInv
<1>1. TypeInv /\ [Next]_vars => TypeInv'
  BY TypeOnce, TypePool, TypeRun, TypeOther DEF Next, Over
<1> QED
  BY <1>1, TypeInit, PTL DEF Spec

(* Every variable keeps its type, whatever the calls do when                *)
(* (strategies.py:52-224).                                                  *)
THEOREM TypeCorrect == Spec => []TypeOK
<1>1. TypeInv => TypeOK
  BY DEF TypeInv
<1> QED
  BY <1>1, TypeInvariance, PTL

-----------------------------------------------------------------------------
(* The inductive invariant of the budget: a call goes through               *)
(* _run_agent_once only once, as no call that is still to be submitted, or  *)
(* waits in the queue, is on its way through it.                            *)
NotYetMade ==
    /\ \A c \in Calls : c[1] > round => step[c] = "none" /\ future[c] = "none"
    /\ \A c \in Calls : future[c] = "queued" => step[c] = "none"
    /\ pc \in {"submit", "work"} =>
          \A c \in Calls : c[1] = round /\ c[2] \in todo =>
              step[c] = "none" /\ future[c] = "none"

LEMMA Dispatched ==
    ASSUME TypeOK, Dispatch
    PROVE  /\ round' = round + 1 /\ UNCHANGED <<future, budget, calls, reserved>>
           /\ round' \in 1 .. Rounds /\ strategy' = strategy
           /\ todo' = strategy[round'].places /\ todo' \subseteq Places
           /\ pc' \in {"submit", "inline", "work"}
           /\ pc' = "inline" \/ (pc' = "submit" /\ kind' = "one") =>
                  \E i \in Places : todo' = {i}
           /\ \A c \in Calls :
                 step'[c] = step[c]
                 \/ (c[1] = round' /\ c[2] \in todo' /\ pc' = "inline" /\ step'[c] = "reserve")
<1>a. round' = round + 1 /\ round' \in 1 .. Rounds
  BY DEF Dispatch, TypeOK
<1>b. UNCHANGED <<future, budget, calls, reserved, strategy>>
  BY DEF Dispatch, options, pool
<1>c. todo' = strategy[round'].places /\ todo' \subseteq Places
  BY <1>a, Strategic DEF Dispatch, TypeOK
<1>d. pc' \in {"submit", "inline", "work"}
  BY DEF Dispatch
<1>e. pc' = "inline" => strategy[round'].how = "one"
  BY DEF Dispatch
<1>f. pc' = "inline" \/ (pc' = "submit" /\ kind' = "one") => \E i \in Places : todo' = {i}
  <2>1. kind' = strategy[round'].how
    BY <1>b DEF kind
  <2>2. strategy[round'].how = "one" => \E i \in Places : strategy[round'].places = {i}
    BY <1>a, Strategic DEF TypeOK
  <2> QED BY <1>c, <1>e, <2>1, <2>2
<1>1. \/ UNCHANGED step
      \/ \E i \in todo' : pc' = "inline" /\ to(<<round', i>>, "reserve")
  BY DEF Dispatch
<1>2. ASSUME NEW i \in todo', to(<<round', i>>, "reserve"), NEW c \in Calls
      PROVE  step'[c] = step[c]
             \/ (c[1] = round' /\ c[2] \in todo' /\ step'[c] = "reserve")
  <2>1. CASE c = <<round', i>>
    BY <1>2, <2>1 DEF to, TypeOK
  <2>2. CASE c # <<round', i>>
    BY <1>2, <2>2 DEF to, TypeOK
  <2> QED BY <2>1, <2>2
<1> QED
  BY <1>a, <1>b, <1>c, <1>d, <1>f, <1>1, <1>2

LEMMA OnceEach ==
    ASSUME TypeOK, NotYetMade, [Next]_vars
    PROVE  NotYetMade'
<1> USE DEF options, caller, dispatch, limits, worker, foreign, usage, pool, to, fail
<1>t. /\ step \in [Calls -> Steps] /\ round \in Nat /\ todo \subseteq Places
      /\ future \in [Calls -> Pool!FutureStates]
  BY DEF TypeOK, Pool!PoolTypeOK
<1>n. \A c \in Calls : c[1] \in Nat /\ c[2] \in Places
  BY DEF Calls
<1>1. ASSUME NEW c \in Calls, RunAgentOnce(c) PROVE NotYetMade'
  BY <1>1, <1>t DEF RunAgentOnce, Reserve, Handle, Finally, Note, Settle, NotYetMade
<1>2. ASSUME NEW c \in Calls, Start(c) PROVE NotYetMade'
  BY <1>2, <1>t DEF Start, Pool!StartJob, NotYetMade
<1>3. ASSUME NEW c \in Calls, Return(c) PROVE NotYetMade'
  BY <1>3, <1>t DEF Return, Pool!ReleaseSlot, Pool!CompleteJob, NotYetMade
<1>4. ASSUME NEW c \in Calls, InlineReturns(c) PROVE NotYetMade'
  BY <1>4, <1>t DEF InlineReturns, NotYetMade
<1>5. ASSUME NEW c \in Calls, Submit(c) PROVE NotYetMade'
  BY <1>5, <1>t, <1>n DEF Submit, isNext, Pool!submit, NotYetMade
<1>6. ASSUME NEW c \in Calls, SubmitSaturated(c) PROVE NotYetMade'
  BY <1>6, <1>t DEF SubmitSaturated, NotYetMade
<1>7. CASE Dispatch
  <2>1. \A c \in Calls : c[1] = round' => step[c] = "none" /\ future[c] = "none"
    BY <1>7, <1>t, <1>n, Dispatched DEF NotYetMade
  <2> QED BY <1>7, <2>1, <1>t, <1>n, Dispatched DEF NotYetMade
<1>8. CASE Collect \/ AbortWait \/ GiveUp
  <2>1. pc' \notin {"submit", "work"} /\ UNCHANGED <<step, round>>
    BY <1>8 DEF Collect, AbortWait, GiveUp
  <2>2. \A c \in Calls : future'[c] = future[c] \/ (future[c] = "queued" /\ future'[c] = "cancelled")
    BY <1>8, <1>t DEF Collect, AbortWait, GiveUp, cancelEntries, Pool!cancelAll, Pool!inState
  <2> QED BY <2>1, <2>2 DEF NotYetMade
<1>9. CASE Refuse \/ BeginWait \/ AllCollected \/ Finish
  BY <1>9 DEF Refuse, BeginWait, AllCollected, Finish, NotYetMade
<1>10. CASE OtherRuns \/ OtherUsage \/ Tick \/ UNCHANGED vars
  BY <1>10 DEF OtherRuns, Pool!OtherJob, OtherUsage, Tick, vars, NotYetMade
<1>11. ASSUME NEW c \in Calls, Launch(c) PROVE NotYetMade'
  <2>1. /\ UNCHANGED <<step, round, pc>> /\ todo' = todo \ {c[2]}
        /\ pc = "work" /\ c[1] = round /\ c[2] \in todo
        /\ future' = [future EXCEPT ![c] = "queued"] \/ UNCHANGED future
    BY <1>11 DEF Launch, isTask, Pool!submit
  <2> QED BY <2>1, <1>t, <1>n DEF NotYetMade
<1>12. ASSUME NEW c \in Calls, Skip(c) PROVE NotYetMade'
  BY <1>12 DEF Skip, NotYetMade
<1>13. ASSUME NEW c \in Calls, TaskCollect(c) PROVE NotYetMade'
  <2>1. /\ UNCHANGED <<step, round, todo>> /\ pc = "work" /\ pc' # "submit"
    BY <1>13 DEF TaskCollect
  <2>2. \A d \in Calls : future'[d] = future[d] \/ (future[d] = "queued" /\ future'[d] = "cancelled")
    BY <1>13, <1>t DEF TaskCollect, Pool!cancelAll, Pool!inState
  <2> QED BY <2>1, <2>2 DEF NotYetMade
<1>14. ASSUME TaskExpire \/ WorkAborts \/ WorkDone PROVE NotYetMade'
  <2>1. /\ UNCHANGED <<step, round, todo>> /\ pc = "work" /\ pc' # "submit"
    BY <1>14 DEF TaskExpire, WorkAborts, WorkDone
  <2>2. \A d \in Calls : future'[d] = future[d] \/ (future[d] = "queued" /\ future'[d] = "cancelled")
    BY <1>14, <1>t DEF TaskExpire, WorkAborts, WorkDone, Pool!cancelAll, Pool!inState
  <2> QED BY <2>1, <2>2 DEF NotYetMade
<1> QED
  BY <1>1, <1>2, <1>3, <1>4, <1>5, <1>6, <1>7, <1>8, <1>9, <1>10, <1>11, <1>12, <1>13,
     <1>14 DEF Next, Run, Over

LEMMA Holding ==
    ASSUME NEW c \in Calls
    PROVE  /\ Cardinality(holding) \in Nat
           /\ c \notin holding => Cardinality(holding \cup {c}) = Cardinality(holding) + 1
           /\ c \in holding => Cardinality(holding \ {c}) = Cardinality(holding) - 1
                               /\ Cardinality(holding) > 0
<1>1. IsFiniteSet(holding) /\ Cardinality(holding) \in Nat
  BY CallsFinite, FS_Subset DEF holding
<1>2. c \notin holding => Cardinality(holding \cup {c}) = Cardinality(holding) + 1
  BY <1>1, FS_AddElement
<1>3. c \in holding => Cardinality(holding \ {c}) = Cardinality(holding) - 1
  BY <1>1, FS_RemoveElement
<1>4. c \in holding => Cardinality(holding) # 0
  BY <1>1, FS_EmptySet
<1> QED
  BY <1>1, <1>2, <1>3, <1>4

LEMMA BudgetOnce ==
    ASSUME TypeOK, BudgetKept, NEW c \in Calls, RunAgentOnce(c)
    PROVE  BudgetKept'
<1> USE DEF to
<1>t. /\ step \in [Calls -> Steps] /\ calls \in Nat /\ reserved \in Nat
      /\ budget.max_calls \in Nat /\ UNCHANGED budget
  BY DEF TypeOK, RunAgentOnce, options
<1>1. CASE Reserve(c) /\ exhausted
  <2>1. holding' = holding /\ UNCHANGED <<calls, reserved>>
    BY <1>1, <1>t DEF Reserve, holding
  <2> QED BY <2>1, <1>t DEF BudgetKept
<1>2. CASE Reserve(c) /\ ~exhausted
  <2>1. c \notin holding /\ holding' = holding \cup {c}
    BY <1>2, <1>t DEF Reserve, holding
  <2>2. reserved' = reserved + 1 /\ calls' = calls /\ calls + reserved < budget.max_calls
    BY <1>2, <1>t DEF Reserve, exhausted
  <2> QED BY <2>1, <2>2, <1>t, Holding DEF BudgetKept
<1>3. CASE Handle(c) \/ Finally(c) \/ Note(c)
  <2>1. holding' = holding /\ UNCHANGED <<calls, reserved>>
    BY <1>3, <1>t DEF Handle, Finally, Note, holding
  <2> QED BY <2>1, <1>t DEF BudgetKept
<1>4. CASE Settle(c)
  <2>1. c \in holding /\ holding' = holding \ {c}
    BY <1>4, <1>t DEF Settle, holding
  <2>2. reserved > 0
    BY <2>1, Holding DEF BudgetKept
  <2>3. calls' = calls + 1 /\ reserved' = reserved - 1
    BY <1>4, <2>2 DEF Settle
  <2> QED BY <2>1, <2>3, <1>t, Holding DEF BudgetKept
<1> QED
  BY <1>1, <1>2, <1>3, <1>4 DEF RunAgentOnce

(* However many calls of a run are in flight at once, its budget of calls   *)
(* is not exceeded, and each reservation belongs to one call that is being  *)
(* made (BudgetManager.reserve and settle, budget.py:44-72).                *)
THEOREM BudgetIsKept == Spec => []BudgetKept
<1>1. Init => NotYetMade /\ BudgetKept
  <2> SUFFICES ASSUME Init PROVE NotYetMade /\ BudgetKept
    OBVIOUS
  <2>1. NotYetMade
    BY DEF Init, each, NotYetMade, Pool!PoolInit
  <2>2. holding = {} /\ calls = 0 /\ reserved = 0 /\ budget.max_calls \in Nat
    BY DEF Init, each, holding
  <2> QED BY <2>1, <2>2, FS_EmptySet DEF BudgetKept
<1>2. ASSUME TypeOK, NotYetMade, BudgetKept, [Next]_vars PROVE BudgetKept'
  <2>1. ASSUME NEW c \in Calls, RunAgentOnce(c) PROVE BudgetKept'
    BY <1>2, <2>1, BudgetOnce
  <2>2. \/ \E c \in Calls : RunAgentOnce(c)
        \/ holding' = holding /\ UNCHANGED <<budget, calls, reserved>>
    <3> USE <1>2 DEF options, caller, dispatch, limits, worker, foreign, usage, pool, to,
                     fail, holding
    <3>t. step \in [Calls -> Steps] /\ round \in Nat
      BY DEF TypeOK
    <3>1. ASSUME NEW c \in Calls, Start(c)
          PROVE  holding' = holding /\ UNCHANGED <<budget, calls, reserved>>
      BY <3>1, <3>t DEF Start, Pool!StartJob, NotYetMade
    <3>2. ASSUME NEW c \in Calls, Return(c)
          PROVE  holding' = holding /\ UNCHANGED <<budget, calls, reserved>>
      BY <3>2 DEF Return
    <3>3. ASSUME NEW c \in Calls, InlineReturns(c)
          PROVE  holding' = holding /\ UNCHANGED <<budget, calls, reserved>>
      BY <3>3, <3>t DEF InlineReturns
    <3>4. ASSUME NEW c \in Calls, Submit(c) \/ SubmitSaturated(c) \/ Launch(c)
                                  \/ Skip(c) \/ TaskCollect(c)
          PROVE  holding' = holding /\ UNCHANGED <<budget, calls, reserved>>
      BY <3>4 DEF Submit, SubmitSaturated, Launch, Skip, TaskCollect
    <3>5. ASSUME Dispatch
          PROVE  holding' = holding /\ UNCHANGED <<budget, calls, reserved>>
      <4>1. \A c \in Calls : c[1] = round + 1 => step[c] = "none"
        BY <3>t DEF NotYetMade, Calls
      <4>2. /\ round' = round + 1 /\ UNCHANGED <<budget, calls, reserved>>
            /\ \A c \in Calls : step'[c] = step[c] \/ (c[1] = round' /\ step'[c] = "reserve")
        BY <3>5, Dispatched
      <4> QED BY <4>1, <4>2
    <3>6. ASSUME Refuse \/ BeginWait \/ Collect \/ AllCollected \/ AbortWait
                 \/ GiveUp \/ TaskExpire \/ WorkAborts \/ WorkDone \/ Finish
          PROVE  holding' = holding /\ UNCHANGED <<budget, calls, reserved>>
      BY <3>6 DEF Refuse, BeginWait, Collect, AllCollected, AbortWait, GiveUp, TaskExpire,
                  WorkAborts, WorkDone, Finish
    <3>7. ASSUME OtherRuns \/ OtherUsage \/ Tick \/ UNCHANGED vars
          PROVE  holding' = holding /\ UNCHANGED <<budget, calls, reserved>>
      BY <3>7 DEF OtherRuns, OtherUsage, Tick, vars
    <3> QED
      BY <3>1, <3>2, <3>3, <3>4, <3>5, <3>6, <3>7 DEF Next, Run, Over
  <2> QED BY <1>2, <2>1, <2>2 DEF BudgetKept
<1> QED
  BY <1>1, <1>2, TypeCorrect, OnceEach, PTL DEF Spec

-----------------------------------------------------------------------------
(* A call that is still to be made, or is waited for, has no answer yet;    *)
(* what the run has gone on without it never takes up again.                *)
Expected ==
    /\ \A c \in Calls :
          c[1] > round \/ (pc \in {"inline", "submit", "work"} /\ c[1] = round /\ c[2] \in todo) =>
              answer[c] = "none"
    /\ \A c \in pending : c[1] = round /\ future[c] # "none" /\ answer[c] = "none"
    /\ pc \in {"idle", "inline"} => pending = {}
    /\ pc = "inline" \/ (pc = "submit" /\ kind = "one" /\ todo # {}) =>
          pending = {} /\ \E i \in Places : todo = {i}

LEMMA StillExpected ==
    ASSUME TypeOK, NotYetMade, Expected, [Next]_vars
    PROVE  Expected' /\ gaveUp \subseteq gaveUp'
<1> USE DEF options, caller, dispatch, limits, worker, foreign, usage, pool, to, fail
<1>t. /\ step \in [Calls -> Steps] /\ round \in Nat /\ todo \subseteq Places
      /\ future \in [Calls -> Pool!FutureStates] /\ pending \subseteq Calls
      /\ answer \in [Calls -> {"none", "ok", "error", "timeout", "expired"}]
  BY DEF TypeOK, Pool!PoolTypeOK
<1>n. \A c \in Calls : c = <<c[1], c[2]>> /\ c[1] \in Nat /\ c[2] \in Places
  BY DEF Calls
<1>k. round' = round => kind' = kind
  BY StrategyStays DEF kind
<1>1. ASSUME UNCHANGED <<pc, round, todo, pending, answer>>,
             \A c \in Calls : future[c] # "none" => future'[c] # "none"
      PROVE  Expected' /\ gaveUp \subseteq gaveUp'
  BY <1>1, <1>k, <1>t DEF Expected, gaveUp
<1>2. ASSUME NEW c \in Calls, RunAgentOnce(c) \/ Start(c) \/ Return(c)
      PROVE  Expected' /\ gaveUp \subseteq gaveUp'
  <2>1. UNCHANGED <<pc, round, todo, pending, answer>>
    BY <1>2 DEF RunAgentOnce, Start, Return
  <2>2. \A d \in Calls : future[d] # "none" => future'[d] # "none"
    BY <1>2, <1>t DEF RunAgentOnce, Start, Return, Pool!StartJob, Pool!ReleaseSlot,
                      Pool!CompleteJob
  <2> QED BY <1>1, <2>1, <2>2
<1>3. CASE OtherRuns \/ OtherUsage \/ Tick \/ UNCHANGED vars
  <2>1. UNCHANGED <<pc, round, todo, pending, answer, future>>
    BY <1>3 DEF OtherRuns, Pool!OtherJob, OtherUsage, Tick, vars
  <2> QED BY <1>1, <2>1
<1>4. ASSUME NEW c \in Calls, InlineReturns(c) PROVE Expected' /\ gaveUp \subseteq gaveUp'
  <2>1. /\ UNCHANGED <<round, pending, future>> /\ pc' \in {"idle", "over"}
        /\ pc = "inline" /\ c[1] = round /\ c[2] \in todo
        /\ answer' = answer \/ answer' = [answer EXCEPT ![c] = ended[c]]
    BY <1>4 DEF InlineReturns, isNext
  <2>2. answer[c] = "none" /\ pending = {}
    BY <2>1 DEF Expected
  <2> QED BY <2>1, <2>2, <1>t, <1>n DEF Expected, gaveUp
<1>5. ASSUME NEW c \in Calls, Submit(c) PROVE Expected' /\ gaveUp \subseteq gaveUp'
  <2>1. /\ UNCHANGED <<answer, round, pc>> /\ pc = "submit"
        /\ pending' = pending \cup {c} /\ todo' = todo \ {c[2]}
        /\ c[1] = round /\ c[2] \in todo
        /\ future' = [future EXCEPT ![c] = "queued"]
    BY <1>5 DEF Submit, isNext, Pool!submit
  <2>2. kind = "one" => todo' = {}
    BY <2>1 DEF Expected
  <2> QED BY <2>1, <2>2, <1>k, <1>t, <1>n DEF Expected, gaveUp
<1>6. ASSUME NEW c \in Calls, SubmitSaturated(c) PROVE Expected' /\ gaveUp \subseteq gaveUp'
  <2>1. /\ UNCHANGED <<round, future, pending>> /\ pc = "submit"
        /\ c[1] = round /\ c[2] \in todo
        /\ \/ pc' = "over" /\ UNCHANGED <<answer, todo>>
           \/ /\ pc' = IF kind = "one" THEN "idle" ELSE "submit"
              /\ todo' = todo \ {c[2]}
              /\ answer' = [answer EXCEPT ![c] = "timeout"]
    BY <1>6, <1>t DEF SubmitSaturated, isNext, answerTimeout
  <2>2. kind = "one" => pending = {}
    BY <2>1 DEF Expected
  <2>3. c \notin pending
    BY <2>1 DEF Expected, NotYetMade
  <2> QED BY <2>1, <2>2, <2>3, <1>k, <1>t, <1>n DEF Expected, gaveUp
<1>7. CASE Dispatch
  <2>1. /\ UNCHANGED <<pending, answer>> /\ pc = "idle"
    BY <1>7 DEF Dispatch
  <2>2. /\ round' = round + 1
        /\ pc' = "inline" \/ (pc' = "submit" /\ kind' = "one") => \E i \in Places : todo' = {i}
    BY <1>7, Dispatched
  <2>3. pending = {}
    BY <2>1 DEF Expected
  <2> QED BY <2>1, <2>2, <2>3, <1>t, <1>n DEF Expected, gaveUp
<1>8. CASE Collect \/ AbortWait \/ GiveUp
  <2>1. /\ UNCHANGED round /\ pc' \in {"idle", "wait", "over"}
        /\ pending' \subseteq pending
        /\ pc' = "idle" => pending' = {}
    BY <1>8 DEF Collect, AbortWait, GiveUp
  <2>2. \A c \in Calls : future[c] # "none" => future'[c] # "none"
    BY <1>8, <1>t DEF Collect, AbortWait, GiveUp, cancelEntries, Pool!cancelAll
  <2>3. \A c \in Calls : answer'[c] = answer[c] \/ (c \in pending /\ c \notin pending')
    BY <1>8, <1>t DEF Collect, AbortWait, GiveUp, answerTimeout, done
  <2>4. \A c \in Calls : c[1] > round \/ c \in pending' => answer'[c] = answer[c]
    BY <2>3, <1>t, <1>n DEF Expected
  <2>a. \A c \in Calls : c[1] > round' => answer'[c] = "none"
    BY <2>1, <2>4 DEF Expected
  <2>b. \A c \in pending' : c[1] = round' /\ future'[c] # "none" /\ answer'[c] = "none"
    BY <2>1, <2>2, <2>4, <1>t DEF Expected
  <2>5. Expected'
    BY <2>1, <2>a, <2>b DEF Expected
  <2>6. gaveUp \subseteq gaveUp'
    BY <2>3 DEF Expected, gaveUp
  <2> QED BY <2>5, <2>6
<1>9. CASE BeginWait \/ Refuse \/ Finish \/ AllCollected
  <2>1. /\ UNCHANGED <<round, todo, pending, answer, future>> /\ pc' \in {"idle", "wait", "over"}
        /\ pc' = "idle" => pending = {}
    BY <1>9 DEF BeginWait, Refuse, Finish, AllCollected
  <2> QED BY <2>1, <1>t DEF Expected, gaveUp
<1>10. ASSUME NEW c \in Calls, Launch(c) PROVE Expected' /\ gaveUp \subseteq gaveUp'
  <2>1. /\ UNCHANGED <<round, pc>> /\ pc = "work" /\ todo' = todo \ {c[2]}
        /\ c[1] = round /\ c[2] \in todo
        /\ \/ /\ pending' = pending \cup {c} /\ UNCHANGED answer
              /\ future' = [future EXCEPT ![c] = "queued"]
           \/ /\ UNCHANGED <<pending, future>>
              /\ answer' = [answer EXCEPT ![c] = "expired"]
    BY <1>10 DEF Launch, isTask, Pool!submit
  <2>2. c \notin pending /\ answer[c] = "none"
    BY <2>1 DEF Expected, NotYetMade
  <2> QED BY <2>1, <2>2, <1>t, <1>n DEF Expected, gaveUp
<1>11. ASSUME NEW c \in Calls, Skip(c) PROVE Expected' /\ gaveUp \subseteq gaveUp'
  <2>1. /\ UNCHANGED <<round, pc, pending, answer, future>> /\ pc = "work"
        /\ todo' \subseteq todo
    BY <1>11 DEF Skip, isTask
  <2> QED BY <2>1, <1>t DEF Expected, gaveUp
<1>12. ASSUME NEW c \in Calls, TaskCollect(c) PROVE Expected' /\ gaveUp \subseteq gaveUp'
  <2>1. /\ UNCHANGED <<round, todo>> /\ pc = "work" /\ pc' \in {"work", "over"}
        /\ c \in pending /\ pending' \subseteq pending \ {c}
        /\ answer' = answer \/ answer' = [answer EXCEPT ![c] = ended[c]]
    BY <1>12 DEF TaskCollect, done
  <2>2. \A d \in Calls : future[d] # "none" => future'[d] # "none"
    BY <1>12, <1>t DEF TaskCollect, Pool!cancelAll
  <2>3. answer[c] = "none" /\ ~(c[1] > round) /\ ~(c[1] = round /\ c[2] \in todo)
    BY <2>1, <1>t, <1>n DEF Expected, NotYetMade
  <2>4. \A d \in Calls : d # c => answer'[d] = answer[d]
    BY <2>1, <1>t
  <2>a. \A d \in Calls : d[1] > round' \/ (d[1] = round' /\ d[2] \in todo') => answer'[d] = "none"
    BY <2>1, <2>3, <2>4 DEF Expected
  <2>b. \A d \in pending' : d[1] = round' /\ future'[d] # "none" /\ answer'[d] = "none"
    BY <2>1, <2>2, <2>4, <1>t DEF Expected
  <2>5. Expected'
    BY <2>1, <2>a, <2>b DEF Expected
  <2>6. gaveUp \subseteq gaveUp'
    BY <2>3, <2>4 DEF gaveUp
  <2> QED BY <2>5, <2>6
<1>13. CASE TaskExpire \/ WorkAborts \/ WorkDone
  <2>1. /\ UNCHANGED <<round, todo>> /\ pc = "work" /\ pc' \in {"work", "over", "idle"}
        /\ pending' \subseteq pending
        /\ pc' = "idle" => pending' = {}
    BY <1>13 DEF TaskExpire, WorkAborts, WorkDone
  <2>2. \A d \in Calls : future[d] # "none" => future'[d] # "none"
    BY <1>13, <1>t DEF TaskExpire, WorkAborts, WorkDone, Pool!cancelAll
  <2>3. \A d \in Calls : answer'[d] = answer[d]
                         \/ (d \in pending /\ d \notin pending' /\ answer'[d] = "expired")
    BY <1>13, <1>t DEF TaskExpire, WorkAborts, WorkDone, late
  <2>4. \A d \in pending : ~(d[1] > round) /\ ~(d[1] = round /\ d[2] \in todo)
    BY <2>1, <1>t, <1>n DEF Expected, NotYetMade
  <2>5. Expected'
    BY <2>1, <2>2, <2>3, <2>4, <1>t, <1>n DEF Expected
  <2>6. gaveUp \subseteq gaveUp'
    BY <2>3 DEF gaveUp
  <2> QED BY <2>5, <2>6
<1> QED
  BY <1>2, <1>3, <1>4, <1>5, <1>6, <1>7, <1>8, <1>9, <1>10, <1>11, <1>12, <1>13
     DEF Next, Run, Over

-----------------------------------------------------------------------------
(* A call is being made from the moment it waits in the queue until it is   *)
(* charged.  Those the run has not gone on without are the ones it waits    *)
(* for.                                                                     *)
Making == {"reserve", "handle", "finally", "note", "settle"}
active(c) == step[c] \in Making \/ future[c] = "queued"

WaitedFor ==
    /\ \A c \in Calls : future[c] \in {"returning", "done"} => step[c] = "leave"
    /\ pc = "inline" => \A c \in Calls : c[1] = round => future[c] = "none"
    /\ \A c \in Calls : active(c) /\ c \notin gaveUp =>
          /\ c[1] >= round
          /\ pc # "idle"
          /\ pc = "inline" => c[2] \in todo
          /\ pc \in {"submit", "wait", "work"} => c \in pending

LEMMA ActiveNow ==
    ASSUME NotYetMade, NEW c \in Calls, active(c), round \in Nat
    PROVE  c[1] \in Nat /\ c[1] <= round
<1>1. c[1] \in Nat
  BY DEF Calls
<1> QED
  BY <1>1 DEF NotYetMade, active, Making

LEMMA StillWaitedFor ==
    ASSUME TypeOK, NotYetMade, Expected, WaitedFor, [Next]_vars
    PROVE  WaitedFor'
<1> USE DEF options, caller, dispatch, limits, worker, foreign, usage, pool, to, fail
<1>t. /\ step \in [Calls -> Steps] /\ round \in Nat /\ todo \subseteq Places
      /\ future \in [Calls -> Pool!FutureStates] /\ pending \subseteq Calls
      /\ answer \in [Calls -> {"none", "ok", "error", "timeout", "expired"}]
  BY DEF TypeOK, Pool!PoolTypeOK
<1>n. \A c \in Calls : c = <<c[1], c[2]>> /\ c[1] \in Nat /\ c[2] \in Places
  BY DEF Calls
<1>g. gaveUp \subseteq gaveUp'
  BY StillExpected
<1>1. ASSUME NEW c \in Calls, RunAgentOnce(c) PROVE WaitedFor'
  <2>1. /\ UNCHANGED <<pc, pending, todo, round, future>>
        /\ step[c] \in Making /\ step' = [step EXCEPT ![c] = step'[c]]
    BY <1>1, <1>t DEF RunAgentOnce, Reserve, Handle, Finally, Note, Settle, Making
  <2> QED BY <2>1, <1>t, <1>g DEF WaitedFor, active, Making
<1>2. ASSUME NEW c \in Calls, Start(c) PROVE WaitedFor'
  BY <1>2, <1>t, <1>g DEF Start, Pool!StartJob, WaitedFor, active, Making
<1>3. ASSUME NEW c \in Calls, Return(c) PROVE WaitedFor'
  BY <1>3, <1>t, <1>g DEF Return, Pool!ReleaseSlot, Pool!CompleteJob, WaitedFor, active, Making
<1>4. ASSUME NEW c \in Calls, InlineReturns(c) PROVE WaitedFor'
  <2>1. /\ UNCHANGED <<pending, round, future>> /\ pc' \in {"idle", "over"}
        /\ pc = "inline" /\ c[1] = round /\ c[2] \in todo
        /\ step' = [step EXCEPT ![c] = "none"]
    BY <1>4 DEF InlineReturns, isNext
  <2>2. \A d \in Calls : d[1] = round /\ d[2] \in todo => d = c
    BY <2>1, <1>n DEF Expected
  <2>3. \A d \in Calls : active(d)' => active(d) /\ d # c
    BY <2>1, <1>t DEF active, Making, WaitedFor
  <2>4. \A d \in Calls : active(d)' => d \in gaveUp
    BY <2>1, <2>2, <2>3, <1>t, ActiveNow DEF WaitedFor
  <2> QED BY <2>1, <2>4, <1>t, <1>g DEF WaitedFor
<1>5. ASSUME NEW c \in Calls, Submit(c) \/ Launch(c) PROVE WaitedFor'
  <2>1. /\ UNCHANGED <<step, round, pc>> /\ pc \in {"submit", "work"} /\ c[1] = round
        /\ \/ /\ pending' = pending \cup {c}
              /\ future' = [future EXCEPT ![c] = "queued"]
           \/ UNCHANGED <<pending, future>>
    BY <1>5 DEF Submit, isNext, Launch, isTask, Pool!submit
  <2>2. \A d \in Calls : active(d)' => active(d) \/ (d = c /\ d \in pending')
    BY <2>1, <1>t DEF active
  <2> QED BY <2>1, <2>2, <1>t, <1>g DEF WaitedFor
<1>6. ASSUME NEW c \in Calls, SubmitSaturated(c) PROVE WaitedFor'
  <2>1. /\ UNCHANGED <<step, round, future, pending>>
        /\ pc = "submit" /\ todo # {}
        /\ \/ pc' = "over"
           \/ kind = "one" /\ pc' = "idle"
           \/ kind # "one" /\ pc' = "submit"
    BY <1>6 DEF SubmitSaturated, isNext
  <2>2. kind = "one" => pending = {}
    BY <2>1 DEF Expected
  <2> QED BY <2>1, <2>2, <1>t, <1>g DEF WaitedFor, active
<1>7. CASE Dispatch
  <2>1. UNCHANGED <<pending, answer>> /\ pc = "idle"
    BY <1>7 DEF Dispatch
  <2>2. /\ round' = round + 1 /\ UNCHANGED future
        /\ \A c \in Calls : step'[c] = step[c]
              \/ (c[1] = round' /\ c[2] \in todo' /\ pc' = "inline" /\ step'[c] = "reserve")
    BY <1>7, Dispatched
  <2>3. \A c \in Calls : c[1] = round' => future[c] = "none" /\ step[c] = "none"
    BY <2>2, <1>t, <1>n DEF NotYetMade
  <2>4. \A c \in Calls : active(c)' /\ c \notin gaveUp' =>
            c[1] = round' /\ pc' = "inline" /\ c[2] \in todo'
    <3> SUFFICES ASSUME NEW c \in Calls, active(c)', c \notin gaveUp'
                 PROVE  c[1] = round' /\ pc' = "inline" /\ c[2] \in todo'
      OBVIOUS
    <3>1. ~active(c)
      BY <1>g, <2>1 DEF WaitedFor
    <3>2. step'[c] # step[c]
      BY <2>2, <3>1 DEF active
    <3> QED BY <2>2, <3>2
  <2>5. \A c \in Calls : future[c] \in {"returning", "done"} => step'[c] = "leave"
    BY <2>2, <2>3, <1>t DEF WaitedFor
  <2> QED BY <2>1, <2>2, <2>3, <2>4, <2>5, <1>t, <1>n DEF WaitedFor
<1>8. CASE Collect \/ AbortWait \/ GiveUp
  <2>1. /\ UNCHANGED <<step, round>> /\ pc = "wait" /\ pc' \in {"idle", "wait", "over"}
    BY <1>8 DEF Collect, AbortWait, GiveUp, expired
  <2>2. \A c \in Calls : future'[c] = future[c] \/ (future[c] = "queued" /\ future'[c] = "cancelled")
    BY <1>8, <1>t DEF Collect, AbortWait, GiveUp, cancelEntries, Pool!cancelAll, Pool!inState
  <2>3. \A c \in Calls : active(c)' => active(c)
    BY <2>1, <2>2 DEF active
  <2>4. pc' = "idle" => pending' = {} /\ pending \subseteq gaveUp'
    BY <1>8, <1>t DEF Collect, AbortWait, GiveUp, cancelEntries, answerTimeout, gaveUp
  <2>5. pc' = "wait" => pending' = pending \ done
    BY <1>8 DEF Collect, AbortWait, GiveUp
  <2>6. \A c \in done : c \in Calls => ~active(c)
    BY DEF done, WaitedFor, active, Making
  <2> QED BY <2>1, <2>2, <2>3, <2>4, <2>5, <2>6, <1>g DEF WaitedFor
<1>9. CASE BeginWait \/ Refuse \/ Finish
  BY <1>9, <1>g DEF BeginWait, Refuse, Finish, WaitedFor, active
<1>10. CASE AllCollected \/ WorkDone
  <2>1. /\ pc \in {"wait", "work"} /\ pc' \in {"idle", "over"} /\ pending = {}
        /\ UNCHANGED <<step, future, round, pending>>
    BY <1>10 DEF AllCollected, WorkDone
  <2> QED BY <2>1, <1>g DEF WaitedFor, active
<1>11. ASSUME NEW c \in Calls, Skip(c) PROVE WaitedFor'
  <2>1. UNCHANGED <<pc, step, future, round, pending>> /\ pc = "work"
    BY <1>11 DEF Skip, isTask
  <2> QED BY <2>1, <1>g DEF WaitedFor, active
<1>12. ASSUME NEW c \in Calls, TaskCollect(c) PROVE WaitedFor'
  <2>1. /\ UNCHANGED <<step, round>> /\ pc = "work" /\ c \in done
        /\ pc' = "over" \/ (pc' = "work" /\ pending' = pending \ {c})
    BY <1>12 DEF TaskCollect
  <2>2. \A d \in Calls : future'[d] = future[d] \/ (future[d] = "queued" /\ future'[d] = "cancelled")
    BY <1>12, <1>t DEF TaskCollect, Pool!cancelAll, Pool!inState
  <2>3. \A d \in Calls : active(d)' => active(d)
    BY <2>1, <2>2 DEF active
  <2>4. ~active(c)
    BY <2>1 DEF done, WaitedFor, active, Making
  <2> QED BY <2>1, <2>2, <2>3, <2>4, <1>g DEF WaitedFor
<1>13. CASE TaskExpire \/ WorkAborts
  <2>1. /\ UNCHANGED <<step, round>> /\ pc = "work"
        /\ pc' = "over" \/ (pc' = "work" /\ \A d \in Calls : d \in pending => d \in pending' \/ d \in gaveUp')
    BY <1>13, <1>t DEF TaskExpire, WorkAborts, late, gaveUp
  <2>2. \A d \in Calls : future'[d] = future[d] \/ (future[d] = "queued" /\ future'[d] = "cancelled")
    BY <1>13, <1>t DEF TaskExpire, WorkAborts, Pool!cancelAll, Pool!inState
  <2>3. \A d \in Calls : active(d)' => active(d)
    BY <2>1, <2>2 DEF active
  <2> QED BY <2>1, <2>2, <2>3, <1>g DEF WaitedFor
<1>14. CASE OtherRuns \/ OtherUsage \/ Tick \/ UNCHANGED vars
  BY <1>14, <1>g DEF OtherRuns, Pool!OtherJob, OtherUsage, Tick, vars, WaitedFor, active
<1> QED
  BY <1>1, <1>2, <1>3, <1>4, <1>5, <1>6, <1>7, <1>8, <1>9, <1>10, <1>11, <1>12, <1>13, <1>14
     DEF Next, Run, Over

-----------------------------------------------------------------------------
(* What a call is charged is what its agent's counter has moved since it    *)
(* began: its own tokens, unless another call of the agent ran beside it.   *)
beside(c) ==
    \/ c \in mixed
    \/ \E d \in Calls \ {c} :
          /\ who(d) = who(c) /\ made(d)
          /\ d[1] = c[1] \/ (d[1] < c[1] /\ d \in gaveUp) \/ (c[1] < d[1] /\ c \in gaveUp)

Charging ==
    \A c \in Calls :
        /\ step[c] = "handle" =>
              /\ before[c] <= total[who(c)]
              /\ before[c] < total[who(c)] => beside(c)
        /\ step[c] \in {"finally", "note", "settle"} =>
              /\ before[c] + own[c] <= total[who(c)]
              /\ before[c] + own[c] < total[who(c)] => beside(c)
        /\ step[c] = "leave" /\ ended[c] # "refused" =>
              /\ charged[c] >= own[c]
              /\ charged[c] > own[c] => beside(c)

(* Of two calls being made that belong to two dispatches the run has gone   *)
(* on without the earlier.                                                  *)
LEMMA OneIsLost ==
    ASSUME NotYetMade, WaitedFor, round \in Nat, NEW c \in Calls, NEW d \in Calls,
           active(c), active(d), c[1] < d[1]
    PROVE  c \in gaveUp
<1>1. c[1] \in Nat /\ d[1] \in Nat /\ d[1] <= round
  BY ActiveNow
<1> QED
  BY <1>1 DEF WaitedFor

(* Once a call ran beside another it did.                                   *)
LEMMA BesideStays ==
    ASSUME strategy' = strategy, mixed \subseteq mixed', gaveUp \subseteq gaveUp',
           \A d \in Calls : made(d) => made(d)',
           NEW c \in Calls, beside(c)
    PROVE  beside(c)'
<1>1. \A d \in Calls : who(d)' = who(d)
  BY DEF who
<1> QED
  BY <1>1 DEF beside

(* A call that is still to be made has not ended.                           *)
due(c) ==
    \/ c[1] > round
    \/ pc \in {"submit", "work"} /\ c[1] = round /\ c[2] \in todo
    \/ future[c] = "queued" \/ step[c] \in {"reserve", "handle"}
Unended == \A c \in Calls : due(c) => ended[c] = "none"

LEMMA StillUnended ==
    ASSUME TypeOK, NotYetMade, Unended, [Next]_vars
    PROVE  Unended'
<1> USE DEF options, caller, dispatch, limits, worker, foreign, usage, pool, to, fail
<1>t. /\ step \in [Calls -> Steps] /\ round \in Nat /\ todo \subseteq Places
      /\ future \in [Calls -> Pool!FutureStates]
      /\ ended \in [Calls -> {"none", "ok", "error", "refused"}]
  BY DEF TypeOK, Pool!PoolTypeOK
<1>n. \A c \in Calls : c[1] \in Nat /\ c[2] \in Places
  BY DEF Calls
<1>0. ASSUME UNCHANGED ended, \A c \in Calls : due(c)' => due(c) PROVE Unended'
  BY <1>0 DEF Unended
<1>1. ASSUME NEW c \in Calls, RunAgentOnce(c) PROVE Unended'
  <2>1. /\ UNCHANGED <<pc, round, todo, future>> /\ step[c] # "none"
        /\ step' = [step EXCEPT ![c] = step'[c]]
        /\ \A d \in Calls : d # c => ended'[d] = ended[d]
        /\ step'[c] \in {"reserve", "handle"} => step[c] = "reserve" /\ ended' = ended
    BY <1>1, <1>t DEF RunAgentOnce, Reserve, Handle, Finally, Note, Settle
  <2>2. \A d \in Calls : d # c => (due(d)' => due(d))
    BY <2>1, <1>t DEF due
  <2>3. due(c)' => due(c) /\ ended'[c] = ended[c]
    <3>1. ~(c[1] > round) /\ future[c] # "queued"
          /\ ~(pc \in {"submit", "work"} /\ c[1] = round /\ c[2] \in todo)
      BY <2>1 DEF NotYetMade
    <3> QED BY <2>1, <3>1 DEF due
  <2> QED BY <2>1, <2>2, <2>3 DEF Unended
<1>2. ASSUME NEW c \in Calls, Start(c) \/ Return(c) PROVE Unended'
  <2>1. UNCHANGED <<pc, round, todo, ended>>
    BY <1>2 DEF Start, Return
  <2>2. \A d \in Calls : due(d)' => due(d)
    BY <1>2, <2>1, <1>t DEF due, Start, Return, Pool!StartJob, Pool!ReleaseSlot, Pool!CompleteJob
  <2> QED BY <1>0, <2>1, <2>2
<1>3. ASSUME NEW c \in Calls, InlineReturns(c) PROVE Unended'
  <2>1. /\ UNCHANGED <<round, future, ended>> /\ pc' \in {"idle", "over"}
        /\ step' = [step EXCEPT ![c] = "none"]
    BY <1>3 DEF InlineReturns
  <2> QED BY <1>0, <2>1, <1>t DEF due
<1>4. ASSUME NEW c \in Calls, Submit(c) \/ Launch(c) PROVE Unended'
  <2>1. /\ UNCHANGED <<ended, step, round, pc>> /\ pc \in {"submit", "work"}
        /\ c[1] = round /\ c[2] \in todo /\ todo' = todo \ {c[2]}
        /\ future' = future \/ future' = [future EXCEPT ![c] = "queued"]
    BY <1>4 DEF Submit, isNext, Launch, isTask, Pool!submit
  <2> QED BY <1>0, <2>1, <1>t DEF due
<1>5. ASSUME NEW c \in Calls, SubmitSaturated(c) \/ Skip(c) PROVE Unended'
  <2>1. /\ UNCHANGED <<ended, step, round, future>> /\ todo' \subseteq todo
        /\ pc' = pc \/ pc' \in {"idle", "over"}
    BY <1>5 DEF SubmitSaturated, Skip
  <2> QED BY <1>0, <2>1 DEF due
<1>6. CASE Dispatch
  <2>1. UNCHANGED ended /\ pc = "idle"
    BY <1>6 DEF Dispatch
  <2>2. \A c \in Calls : due(c)' => due(c)
    BY <1>6, <2>1, <1>t, <1>n, Dispatched DEF due
  <2> QED BY <1>0, <2>1, <2>2
<1>7. ASSUME \/ \E c \in Calls : TaskCollect(c)
             \/ Collect \/ AbortWait \/ GiveUp \/ TaskExpire \/ WorkAborts \/ WorkDone
      PROVE  Unended'
  <2>1. /\ UNCHANGED <<ended, step, round, todo>>
        /\ pc' = pc \/ pc' \in {"idle", "wait", "over"}
    BY <1>7 DEF TaskCollect, Collect, AbortWait, GiveUp, TaskExpire, WorkAborts, WorkDone
  <2>2. ASSUME NEW S, Pool!cancelAll(S) \/ UNCHANGED future
        PROVE  \A d \in Calls : future'[d] = "queued" => future[d] = "queued"
    BY <2>2, <1>t DEF Pool!cancelAll, Pool!inState
  <2>3. \E S : Pool!cancelAll(S) \/ UNCHANGED future
    BY <1>7 DEF TaskCollect, Collect, AbortWait, GiveUp, cancelEntries, TaskExpire,
                WorkAborts, WorkDone
  <2> QED BY <1>0, <2>1, <2>2, <2>3 DEF due
<1>8. CASE Refuse \/ BeginWait \/ AllCollected \/ Finish \/ OtherRuns \/ OtherUsage \/ Tick
           \/ UNCHANGED vars
  <2>1. /\ UNCHANGED <<ended, step, future, round, todo>>
        /\ pc' = pc \/ pc' \in {"idle", "wait", "over"}
    BY <1>8 DEF Refuse, BeginWait, AllCollected, Finish, OtherRuns, Pool!OtherJob,
                OtherUsage, Tick, vars
  <2> QED BY <1>0, <2>1 DEF due
<1> QED
  BY <1>1, <1>2, <1>3, <1>4, <1>5, <1>6, <1>7, <1>8 DEF Next, Run, Over

LEMMA ChargingOnce ==
    ASSUME TypeOK, NotYetMade, WaitedFor, Unended, Charging,
           NEW c \in Calls, RunAgentOnce(c)
    PROVE  Charging'
<1> USE DEF to
<1>t. /\ step \in [Calls -> Steps] /\ ended \in [Calls -> {"none", "ok", "error", "refused"}]
      /\ total \in [Agents -> Nat] /\ before \in [Calls -> Nat]
      /\ own \in [Calls -> Nat] /\ charged \in [Calls -> Nat] /\ round \in Nat
  BY DEF TypeOK
<1>w. /\ UNCHANGED <<strategy, mixed, gaveUp>>
      /\ \A d \in Calls : who(d) \in Agents /\ who(d)' = who(d)
  <2>1. UNCHANGED <<strategy, mixed, answer>>
    BY DEF RunAgentOnce, options, foreign, caller
  <2> QED BY <2>1, Strategic DEF TypeOK, who, gaveUp
<1>m. \A d \in Calls : made(d) => made(d)'
  <2>1. CASE Reserve(c)
    <3>1. /\ step[c] = "reserve" /\ step' = [step EXCEPT ![c] = step'[c]]
          /\ \A d \in Calls : d # c => ended'[d] = ended[d]
      BY <2>1, <1>t DEF Reserve
    <3>2. ended[c] = "none"
      BY <3>1 DEF Unended, due
    <3> QED BY <3>1, <3>2, <1>t DEF made
  <2>2. CASE Handle(c)
    BY <2>2, <1>t DEF Handle, made
  <2>3. CASE Finally(c) \/ Note(c) \/ Settle(c)
    <3>1. step[c] # "handle" /\ ended' = ended /\ step' = [step EXCEPT ![c] = step'[c]]
      BY <2>3, <1>t DEF Finally, Note, Settle
    <3> QED BY <3>1, <1>t DEF made
  <2> QED BY <2>1, <2>2, <2>3 DEF RunAgentOnce
<1>b. \A d \in Calls : beside(d) => beside(d)'
  BY <1>w, <1>m, BesideStays
<1>1. CASE Reserve(c)
  BY <1>1, <1>t, <1>w, <1>b DEF Reserve, Charging
<1>2. CASE Handle(c)
  <2>1. PICK u \in Usage, e \in {"ok", "error"} :
            /\ total' = [total EXCEPT ![who(c)] = @ + u]
            /\ own' = [own EXCEPT ![c] = u]
            /\ ended' = [ended EXCEPT ![c] = e]
    BY <1>2 DEF Handle
  <2>2. u \in Nat /\ step[c] = "handle" /\ step' = [step EXCEPT ![c] = "finally"]
        /\ UNCHANGED <<before, charged>>
    BY <1>2, InputsAssumption DEF Handle
  <2>3. active(c) /\ made(c)'
    BY <2>1, <2>2, <1>t DEF active, Making, made
  <2> SUFFICES ASSUME NEW d \in Calls
               PROVE
        /\ step'[d] = "handle" =>
              /\ before'[d] <= total'[who(d)]
              /\ before'[d] < total'[who(d)] => beside(d)'
        /\ step'[d] \in {"finally", "note", "settle"} =>
              /\ before'[d] + own'[d] <= total'[who(d)]
              /\ before'[d] + own'[d] < total'[who(d)] => beside(d)'
        /\ step'[d] = "leave" /\ ended'[d] # "refused" =>
              /\ charged'[d] >= own'[d]
              /\ charged'[d] > own'[d] => beside(d)'
    BY <1>w DEF Charging
  <2>4. CASE d = c
    BY <2>1, <2>2, <2>4, <1>t, <1>w, <1>b DEF Charging
  <2>5. CASE d # c /\ who(d) # who(c)
    <3>1. total'[who(d)] = total[who(d)] /\ step'[d] = step[d] /\ own'[d] = own[d]
          /\ ended'[d] = ended[d] /\ before'[d] = before[d] /\ charged'[d] = charged[d]
      BY <2>1, <2>2, <2>5, <1>t, <1>w
    <3> QED BY <3>1, <1>b DEF Charging
  <2>6. CASE d # c /\ who(d) = who(c)
    <3>1. active(d) => beside(d)'
      <4> SUFFICES ASSUME active(d) PROVE beside(d)'
        OBVIOUS
      <4>1. c[1] \in Nat /\ d[1] \in Nat
        BY DEF Calls
      <4>2. d[1] < c[1] => d \in gaveUp'
        BY <2>3, <1>t, <1>w, OneIsLost
      <4>3. c[1] < d[1] => c \in gaveUp'
        BY <2>3, <1>t, <1>w, OneIsLost
      <4>4. c[1] = d[1] \/ c[1] < d[1] \/ d[1] < c[1]
        BY <4>1
      <4>5. c \in Calls \ {d} /\ who(c)' = who(d)'
        BY <2>6, <1>w
      <4> QED BY <2>3, <4>2, <4>3, <4>4, <4>5 DEF beside
    <3>2. step[d] \in {"handle", "finally", "note", "settle"} => active(d)
      BY DEF active, Making
    <3>3. total'[who(d)] = total[who(d)] + u /\ step'[d] = step[d] /\ own'[d] = own[d]
          /\ ended'[d] = ended[d] /\ before'[d] = before[d] /\ charged'[d] = charged[d]
          /\ total[who(d)] \in Nat /\ before[d] \in Nat /\ own[d] \in Nat
      BY <2>1, <2>2, <2>6, <1>t, <1>w
    <3> QED BY <2>2, <3>1, <3>2, <3>3, <1>b DEF Charging
  <2> QED BY <2>4, <2>5, <2>6
<1>3. CASE Finally(c) \/ Note(c)
  BY <1>3, <1>t, <1>w, <1>b DEF Finally, Note, Charging, usage
<1>4. CASE Settle(c)
  BY <1>4, <1>t, <1>w, <1>b DEF Settle, Charging
<1> QED
  BY <1>1, <1>2, <1>3, <1>4 DEF RunAgentOnce

(* Another run counts tokens: every call being made of that agent knows.    *)
LEMMA ChargingBeside ==
    ASSUME TypeOK, Charging, OtherUsage
    PROVE  Charging'
<1>1. PICK a \in Agents, u \in Usage :
          /\ total' = [total EXCEPT ![a] = @ + u]
          /\ mixed' = mixed \cup {c \in holding : who(c) = a}
  BY DEF OtherUsage
<1>2. UNCHANGED <<strategy, answer, step, ended, before, own, charged>>
  BY DEF OtherUsage, options, caller
<1>3. /\ total \in [Agents -> Nat] /\ before \in [Calls -> Nat] /\ own \in [Calls -> Nat]
      /\ u \in Nat
  BY InputsAssumption DEF TypeOK
<1>4. \A c \in Calls : who(c) \in Agents /\ who(c)' = who(c)
  BY <1>2, Strategic DEF TypeOK, who
<1>5. \A c \in Calls : beside(c) => beside(c)'
  <2>1. gaveUp' = gaveUp /\ \A d \in Calls : made(d) => made(d)'
    BY <1>2 DEF gaveUp, made
  <2> QED BY <1>1, <1>2, <2>1, BesideStays
<1>6. \A c \in Calls : step[c] \in {"handle", "finally", "note", "settle"} =>
          total'[who(c)] = total[who(c)] \/ (beside(c)' /\ total'[who(c)] = total[who(c)] + u)
  <2> SUFFICES ASSUME NEW c \in Calls, step[c] \in {"handle", "finally", "note", "settle"}
               PROVE  total'[who(c)] = total[who(c)]
                      \/ (beside(c)' /\ total'[who(c)] = total[who(c)] + u)
    OBVIOUS
  <2>1. CASE who(c) = a
    <3>1. c \in mixed'
      BY <1>1, <2>1 DEF holding
    <3> QED BY <1>1, <1>3, <1>4, <2>1, <3>1 DEF beside
  <2>2. CASE who(c) # a
    BY <1>1, <1>3, <1>4, <2>2
  <2> QED BY <2>1, <2>2
<1> SUFFICES ASSUME NEW c \in Calls
             PROVE
      /\ step[c] = "handle" =>
            /\ before[c] <= total'[who(c)]
            /\ before[c] < total'[who(c)] => beside(c)'
      /\ step[c] \in {"finally", "note", "settle"} =>
            /\ before[c] + own[c] <= total'[who(c)]
            /\ before[c] + own[c] < total'[who(c)] => beside(c)'
      /\ step[c] = "leave" /\ ended[c] # "refused" =>
            /\ charged[c] >= own[c]
            /\ charged[c] > own[c] => beside(c)'
  BY <1>2, <1>4 DEF Charging
<1>7. total[who(c)] \in Nat /\ before[c] \in Nat /\ own[c] \in Nat
  BY <1>3, <1>4
<1> QED
  BY <1>3, <1>5, <1>6, <1>7 DEF Charging

LEMMA ChargingElsewhere ==
    ASSUME TypeOK, NotYetMade, Charging, gaveUp \subseteq gaveUp',
           [Next]_vars, ~\E c \in Calls : RunAgentOnce(c), ~OtherUsage
    PROVE  Charging'
<1> USE DEF options, caller, dispatch, limits, worker, foreign, usage, pool, to, fail
<1>t. step \in [Calls -> Steps] /\ round \in Nat
  BY DEF TypeOK
<1> DEFINE Moved ==
      /\ UNCHANGED <<total, before, own, charged, ended, mixed>>
      /\ \A c \in Calls : step'[c] = step[c]
                          \/ (step[c] # "handle" /\ step'[c] \in {"none", "reserve"})
<1>1. ASSUME NEW c \in Calls, Start(c) \/ Return(c) \/ InlineReturns(c)
                              \/ Submit(c) \/ SubmitSaturated(c)
                              \/ Launch(c) \/ Skip(c) \/ TaskCollect(c)
      PROVE  Moved
  BY <1>1, <1>t DEF Start, Return, InlineReturns, Submit, SubmitSaturated, Launch, Skip,
                    TaskCollect, Pool!StartJob, NotYetMade
<1>2. ASSUME Dispatch PROVE Moved
  <2>1. UNCHANGED <<total, before, own, charged, ended, mixed>>
    BY <1>2 DEF Dispatch
  <2>2. \A c \in Calls : c[1] = round + 1 => step[c] = "none"
    BY <1>t DEF NotYetMade, Calls
  <2>3. /\ round' = round + 1
        /\ \A c \in Calls : step'[c] = step[c] \/ (c[1] = round' /\ step'[c] = "reserve")
    BY <1>2, Dispatched
  <2> QED BY <2>1, <2>2, <2>3
<1>3. ASSUME Refuse \/ BeginWait \/ Collect \/ AllCollected \/ AbortWait \/ GiveUp
             \/ TaskExpire \/ WorkAborts \/ WorkDone
             \/ Finish \/ OtherRuns \/ Tick \/ UNCHANGED vars
      PROVE  Moved
  BY <1>3 DEF Refuse, BeginWait, Collect, AllCollected, AbortWait, GiveUp, TaskExpire,
              WorkAborts, WorkDone, Finish, OtherRuns, Tick, vars
<1>4. Moved
  BY <1>1, <1>2, <1>3 DEF Next, Run, Over
<1>5. strategy' = strategy /\ \A c \in Calls : who(c)' = who(c)
  BY StrategyStays DEF who
<1>6. \A c \in Calls : beside(c) => beside(c)'
  <2>1. \A d \in Calls : made(d) => made(d)'
    BY <1>4 DEF made
  <2> QED BY <1>4, <1>5, <2>1, BesideStays
<1> SUFFICES ASSUME NEW c \in Calls
             PROVE
      /\ step'[c] = "handle" =>
            /\ before'[c] <= total'[who(c)]
            /\ before'[c] < total'[who(c)] => beside(c)'
      /\ step'[c] \in {"finally", "note", "settle"} =>
            /\ before'[c] + own'[c] <= total'[who(c)]
            /\ before'[c] + own'[c] < total'[who(c)] => beside(c)'
      /\ step'[c] = "leave" /\ ended'[c] # "refused" =>
            /\ charged'[c] >= own'[c]
            /\ charged'[c] > own'[c] => beside(c)'
  BY <1>5 DEF Charging
<1> QED
  BY <1>4, <1>6 DEF Charging

(* A call is charged all it used, and more only beside another call of the  *)
(* same agent: of another run, of a task of the same plan, or of another    *)
(* dispatch, the earlier of the two having been given up (_run_agent_once   *)
(* with BudgetManager.settle, strategies.py:69-88, :462-466).               *)
THEOREM ChargedIsOwn == Spec => []ChargedOwn
<1> DEFINE IInv == NotYetMade /\ Expected /\ WaitedFor /\ Unended /\ Charging
<1>1. Init => IInv
  BY DEF Init, each, Pool!PoolInit, NotYetMade, Expected, WaitedFor, Unended, Charging,
         active, Making
<1>2. TypeOK /\ IInv /\ [Next]_vars => IInv'
  <2> SUFFICES ASSUME TypeOK, IInv, [Next]_vars PROVE IInv'
    OBVIOUS
  <2>1. /\ NotYetMade' /\ Expected' /\ WaitedFor' /\ Unended'
        /\ gaveUp \subseteq gaveUp'
    BY OnceEach, StillExpected, StillWaitedFor, StillUnended
  <2>2. Charging'
    BY <2>1, ChargingOnce, ChargingBeside, ChargingElsewhere
  <2> QED BY <2>1, <2>2
<1>3. IInv => ChargedOwn
  BY DEF Charging, ChargedOwn, beside
<1> QED
  BY <1>1, <1>2, <1>3, TypeCorrect, PTL DEF Spec

-----------------------------------------------------------------------------
(* How a call is recorded.  Before it has been made nothing is said of it;  *)
(* until the run gives it up only its worker records it, and only between   *)
(* "note" and "settle"; when the run gives it up without being ended itself *)
(* the caller has recorded it, as it records no other; and the run goes on  *)
(* to its next dispatch only with an answer for every call it made.         *)
about(c) == {s \in spans : s.call = c}
ahead(c) == c[1] > round \/ (pc \in {"submit", "work"} /\ c[1] = round /\ c[2] \in todo)
begun(c) == future[c] # "none" \/ ended[c] # "none" \/ step[c] # "none"

NothingYet ==
    \A c \in Calls :
        /\ ahead(c) => about(c) = {} /\ answer[c] = "none"
        /\ c \notin timedOut =>
              /\ future[c] = "queued" \/ step[c] \in {"reserve", "handle", "finally", "note"} =>
                    about(c) = {}
              /\ step[c] \in {"settle", "leave"} /\ ended[c] # "refused" =>
                    about(c) = {span(c, "worker", ended[c])}

GivenUp ==
    /\ \A c \in timedOut :
          /\ future[c] # "none" /\ answer[c] \in {"none", "timeout"}
          /\ raised = "none" => span(c, "caller", "timeout") \in spans
    /\ \A c \in pending : c \notin timedOut /\ answer[c] = "none" /\ future[c] # "none"

Answered ==
    /\ \A c \in Calls : answer[c] \in {"ok", "error"} =>
          /\ ended[c] = answer[c] /\ about(c) = {span(c, "worker", answer[c])}
          /\ step[c] \in {"leave", "none"} /\ future[c] # "queued"
    /\ \A c \in Calls : answer[c] = "timeout" => span(c, "caller", "timeout") \in spans
    /\ pc # "over" => \A c \in Calls : begun(c) =>
          \/ answer[c] # "none" \/ c \in pending
          \/ pc = "inline" /\ c[1] = round /\ c[2] \in todo

Said == \A s \in spans : s.by = "caller" => answer[s.call] = "timeout"

RecordInv == NothingYet /\ GivenUp /\ Answered

BindInv ==
    /\ pc = "submit" /\ kind = "one" /\ runBinds =>
          runDeadline < Never /\ (timeout = Never \/ runDeadline <= clock + timeout)
    /\ pc = "wait" /\ runBinds => runDeadline <= waitUntil

(* The worker of a call, in _run_agent_once *)
LEMMA RecordOnce ==
    ASSUME TypeInv, NotYetMade, RecordInv, NEW c \in Calls, RunAgentOnce(c)
    PROVE  RecordInv'
<1> USE DEF options, caller, dispatch, limits, usage, pool, to
<1>t. /\ step \in [Calls -> Steps] /\ ended \in [Calls -> {"none", "ok", "error", "refused"}]
      /\ answer \in [Calls -> {"none", "ok", "error", "timeout", "expired"}]
      /\ timedOut \subseteq Calls
  BY DEF TypeInv, TypeOK, RunAgentOnce, Reserve, Handle, Finally, Settle
<1>1. UNCHANGED <<answer, pc, round, todo, pending, timedOut, future, raised>>
  BY DEF RunAgentOnce, Reserve, Handle, Finally, Note, Settle
<1>2. /\ step[c] \in Making /\ step'[c] \in Making \cup {"leave"}
      /\ step' = [step EXCEPT ![c] = step'[c]]
      /\ ended' = [ended EXCEPT ![c] = ended'[c]]
  BY <1>t DEF RunAgentOnce, Reserve, Handle, Finally, Note, Settle, Making
<1>3. /\ \A d \in Calls : d # c => about(d)' = about(d)
      /\ spans \subseteq spans'
  <2>1. spans' = spans \/ spans' = spans \cup {span(c, "worker", ended[c])}
    BY DEF RunAgentOnce, Reserve, Handle, Finally, Note, Settle
  <2> QED BY <2>1 DEF about, span
<1>4. ~ahead(c) /\ answer[c] \notin {"ok", "error"} /\ begun(c)
  <2>1. ~ahead(c)
    BY <1>2 DEF ahead, NotYetMade, Making
  <2>2. answer[c] \notin {"ok", "error"}
    BY <1>2, <1>t DEF RecordInv, Answered, Making
  <2> QED BY <1>2, <2>1, <2>2 DEF begun, Making
<1>5. ASSUME c \notin timedOut
      PROVE  /\ step'[c] \in {"reserve", "handle", "finally", "note"} => about(c)' = {}
             /\ step'[c] \in {"settle", "leave"} /\ ended'[c] # "refused" =>
                   about(c)' = {span(c, "worker", ended'[c])}
  <2>0. /\ step[c] \in {"reserve", "handle", "finally", "note"} => about(c) = {}
        /\ step[c] \in {"settle", "leave"} /\ ended[c] # "refused" =>
              about(c) = {span(c, "worker", ended[c])}
    BY <1>5 DEF RecordInv, NothingYet
  <2>1. CASE Reserve(c)
    BY <2>0, <2>1, <1>t DEF Reserve, about
  <2>2. CASE Handle(c)
    BY <2>0, <2>2, <1>t DEF Handle, about
  <2>3. CASE Finally(c)
    BY <2>0, <2>3, <1>5, <1>t DEF Finally, about
  <2>4. CASE Note(c)
    <3>1. about(c)' = about(c) \cup {span(c, "worker", ended[c])}
      BY <2>4 DEF Note, about, span
    <3> QED BY <2>0, <2>4, <3>1, <1>t DEF Note
  <2>5. CASE Settle(c)
    BY <2>0, <2>5, <1>t DEF Settle, about
  <2> QED BY <2>1, <2>2, <2>3, <2>4, <2>5 DEF RunAgentOnce
<1>6. NothingYet'
  <2> SUFFICES ASSUME NEW d \in Calls
               PROVE
        /\ ahead(d)' => about(d)' = {} /\ answer'[d] = "none"
        /\ d \notin timedOut' =>
              /\ future'[d] = "queued" \/ step'[d] \in {"reserve", "handle", "finally", "note"} =>
                    about(d)' = {}
              /\ step'[d] \in {"settle", "leave"} /\ ended'[d] # "refused" =>
                    about(d)' = {span(d, "worker", ended'[d])}
    BY DEF NothingYet, span
  <2>1. ahead(d)' <=> ahead(d)
    BY <1>1 DEF ahead
  <2>2. CASE d = c
    <3>1. future[c] # "queued"
      BY <1>2 DEF NotYetMade, Making
    <3> QED BY <1>1, <1>4, <1>5, <2>1, <2>2, <3>1
  <2>3. CASE d # c
    BY <1>1, <1>2, <1>3, <1>t, <2>1, <2>3 DEF RecordInv, NothingYet
  <2> QED BY <2>2, <2>3
<1>7. GivenUp'
  BY <1>1, <1>3 DEF RecordInv, GivenUp, span
<1>8. Answered'
  <2>1. \A d \in Calls : answer'[d] \in {"ok", "error"} =>
          /\ ended'[d] = answer'[d] /\ about(d)' = {span(d, "worker", answer'[d])}
          /\ step'[d] \in {"leave", "none"} /\ future'[d] # "queued"
    BY <1>1, <1>2, <1>3, <1>4, <1>t DEF RecordInv, Answered
  <2>2. \A d \in Calls : answer'[d] = "timeout" => span(d, "caller", "timeout") \in spans'
    BY <1>1, <1>3 DEF RecordInv, Answered
  <2>3. \A d \in Calls : begun(d)' => begun(d)
    BY <1>1, <1>2, <1>4, <1>t DEF begun
  <2> QED BY <1>1, <2>1, <2>2, <2>3 DEF RecordInv, Answered, span
<1> QED
  BY <1>6, <1>7, <1>8 DEF RecordInv

(* The pool, and the run's thread where it makes a call                     *)
LEMMA RecordCalls ==
    ASSUME TypeInv, NotYetMade, Expected, WaitedFor, RecordInv, NEW c \in Calls,
           Start(c) \/ Return(c) \/ InlineReturns(c) \/ Submit(c) \/ SubmitSaturated(c)
    PROVE  RecordInv'
<1> USE DEF options, caller, dispatch, limits, worker, foreign, usage, pool, to, fail
<1>t. /\ step \in [Calls -> Steps] /\ ended \in [Calls -> {"none", "ok", "error", "refused"}]
      /\ answer \in [Calls -> {"none", "ok", "error", "timeout", "expired"}]
      /\ future \in [Calls -> Pool!FutureStates] /\ timedOut \subseteq Calls
  BY DEF TypeInv, TypeOK, Pool!PoolTypeOK
<1>n. \A d \in Calls : d = <<d[1], d[2]>> /\ d[1] \in Nat /\ d[2] \in Places
  BY DEF Calls
<1>1. CASE Start(c) \/ Return(c)
  <2>1. /\ UNCHANGED <<answer, pc, round, todo, pending, timedOut, spans, ended, raised>>
        /\ future' = [future EXCEPT ![c] = future'[c]]
        /\ step' = [step EXCEPT ![c] = step'[c]]
        /\ future'[c] \notin {"none", "queued"} /\ future[c] # "none"
        /\ step'[c] = step[c] \/ (future[c] = "queued" /\ step'[c] = "reserve")
    BY <1>1, <1>t DEF Start, Return, Pool!StartJob, Pool!ReleaseSlot, Pool!CompleteJob
  <2>2. \A d \in Calls : about(d)' = about(d) /\ (ahead(d)' <=> ahead(d))
    BY <2>1 DEF about, ahead
  <2>3. NothingYet'
    BY <2>1, <2>2, <1>t DEF RecordInv, NothingYet, span
  <2>4. GivenUp'
    <3>1. \A d \in Calls : future[d] # "none" => future'[d] # "none"
      BY <2>1, <1>t
    <3> QED BY <2>1, <3>1, <1>t DEF RecordInv, GivenUp, span, TypeInv, TypeOK
  <2>5. Answered'
    BY <2>1, <2>2, <1>t DEF RecordInv, Answered, span, begun
  <2> QED BY <2>3, <2>4, <2>5 DEF RecordInv
<1>2. CASE InlineReturns(c)
  <2>1. /\ UNCHANGED <<round, pending, timedOut, spans, ended, future>>
        /\ pc = "inline" /\ c[1] = round /\ c[2] \in todo /\ step[c] = "leave"
        /\ step' = [step EXCEPT ![c] = "none"]
        /\ \/ ended[c] = "refused" /\ pc' = "over" /\ raised' # "none" /\ UNCHANGED answer
           \/ /\ ended[c] # "refused" /\ pc' = "idle" /\ UNCHANGED raised
              /\ answer' = [answer EXCEPT ![c] = ended[c]]
    BY <1>2 DEF InlineReturns, isNext
  <2>2. future[c] = "none" /\ c \notin timedOut /\ ended[c] # "none"
    BY <2>1 DEF WaitedFor, RecordInv, GivenUp, TypeInv, Ended
  <2>3. \A d \in Calls : d[1] = round /\ d[2] \in todo => d = c
    BY <2>1, <1>n DEF Expected
  <2>4. \A d \in Calls : about(d)' = about(d) /\ (ahead(d)' => ahead(d) /\ d # c)
    BY <2>1, <1>n DEF about, ahead, TypeInv, TypeOK
  <2>5. NothingYet'
    BY <2>1, <2>2, <2>4, <1>t DEF RecordInv, NothingYet, span
  <2>6. GivenUp'
    BY <2>1, <2>2, <1>t DEF RecordInv, GivenUp, span, Expected
  <2>7. ended[c] # "refused" => about(c) = {span(c, "worker", ended[c])}
    BY <2>1, <2>2 DEF RecordInv, NothingYet
  <2>8. Answered'
    BY <2>1, <2>2, <2>3, <2>4, <2>7, <1>t DEF RecordInv, Answered, span, begun
  <2> QED BY <2>5, <2>6, <2>8 DEF RecordInv
<1>3. CASE Submit(c)
  <2>1. /\ UNCHANGED <<answer, step, round, pc, timedOut, spans, ended, raised>>
        /\ pc = "submit" /\ c[1] = round /\ c[2] \in todo
        /\ pending' = pending \cup {c} /\ todo' = todo \ {c[2]}
        /\ future' = [future EXCEPT ![c] = "queued"]
    BY <1>3 DEF Submit, isNext, Pool!submit
  <2>2. future[c] = "none" /\ step[c] = "none" /\ c \notin timedOut /\ ahead(c)
    BY <2>1 DEF NotYetMade, RecordInv, GivenUp, ahead
  <2>3. \A d \in Calls : about(d)' = about(d) /\ (ahead(d)' => ahead(d))
    BY <2>1 DEF about, ahead
  <2>4. NothingYet'
    BY <2>1, <2>2, <2>3, <1>t DEF RecordInv, NothingYet, span
  <2>5. GivenUp'
    BY <2>1, <2>2, <1>t DEF RecordInv, GivenUp, span, NothingYet
  <2>6. answer[c] = "none"
    BY <2>2 DEF RecordInv, NothingYet
  <2>7. Answered'
    BY <2>1, <2>2, <2>3, <2>6, <1>t DEF RecordInv, Answered, span, begun
  <2> QED BY <2>4, <2>5, <2>7 DEF RecordInv
<1>4. CASE SubmitSaturated(c)
  <2>1. /\ UNCHANGED <<step, round, pending, timedOut, ended, future>>
        /\ pc = "submit" /\ c[1] = round /\ c[2] \in todo
        /\ \/ pc' = "over" /\ raised' # "none" /\ UNCHANGED <<answer, spans, todo>>
           \/ /\ answerTimeout({c}) /\ todo' = todo \ {c[2]} /\ UNCHANGED raised
              /\ pc' = IF kind = "one" THEN "idle" ELSE "submit"
    BY <1>4 DEF SubmitSaturated, isNext
  <2>2. /\ future[c] = "none" /\ step[c] = "none" /\ c \notin timedOut /\ ahead(c)
        /\ c \notin pending
    BY <2>1 DEF NotYetMade, RecordInv, GivenUp, ahead
  <2>3. CASE pc' = "over" /\ raised' # "none" /\ UNCHANGED <<answer, spans, todo>>
    <3>1. \A d \in Calls : about(d)' = about(d) /\ (ahead(d)' => ahead(d))
      BY <2>1, <2>3 DEF about, ahead
    <3>2. NothingYet'
      BY <2>1, <2>3, <3>1 DEF RecordInv, NothingYet, span
    <3>3. GivenUp' /\ Answered'
      BY <2>1, <2>3, <3>1 DEF RecordInv, GivenUp, Answered, span
    <3> QED BY <3>2, <3>3 DEF RecordInv
  <2>4. CASE /\ answerTimeout({c}) /\ todo' = todo \ {c[2]} /\ UNCHANGED raised
             /\ pc' = IF kind = "one" THEN "idle" ELSE "submit"
    <3>1. /\ answer' = [answer EXCEPT ![c] = "timeout"]
          /\ spans' = spans \cup {span(c, "caller", "timeout")}
      BY <2>4, <1>t DEF answerTimeout
    <3>2. \A d \in Calls : /\ d # c => about(d)' = about(d)
                           /\ ahead(d)' => ahead(d) /\ d # c
      BY <2>1, <2>4, <3>1, <1>n DEF about, ahead, span, TypeInv, TypeOK
    <3>3. NothingYet'
      BY <2>1, <2>2, <3>1, <3>2, <1>t DEF RecordInv, NothingYet, span
    <3>4. GivenUp'
      BY <2>1, <2>2, <2>4, <3>1, <1>t DEF RecordInv, GivenUp, span
    <3>5. Answered'
      <4>1. \A d \in Calls : answer'[d] \in {"ok", "error"} =>
              /\ ended'[d] = answer'[d] /\ about(d)' = {span(d, "worker", answer'[d])}
              /\ step'[d] \in {"leave", "none"} /\ future'[d] # "queued"
        BY <2>1, <3>1, <3>2, <1>t DEF RecordInv, Answered
      <4>2. \A d \in Calls : answer'[d] = "timeout" => span(d, "caller", "timeout") \in spans'
        BY <3>1, <1>t DEF RecordInv, Answered
      <4>3. \A d \in Calls : begun(d)' => answer'[d] # "none" \/ d \in pending'
        BY <2>1, <3>1, <1>t DEF RecordInv, Answered, begun
      <4> QED BY <4>1, <4>2, <4>3 DEF Answered, span
    <3> QED BY <3>3, <3>4, <3>5 DEF RecordInv
  <2> QED BY <2>1, <2>3, <2>4
<1> QED
  BY <1>1, <1>2, <1>3, <1>4

(* The run's thread where it waits and gives up                             *)
LEMMA RecordWaits ==
    ASSUME TypeInv, NotYetMade, Expected, WaitedFor, RecordInv,
           Dispatch \/ Collect \/ AbortWait \/ GiveUp
    PROVE  RecordInv'
<1> USE DEF options, caller, dispatch, limits, worker, foreign, usage, pool, to, fail
<1>t. /\ step \in [Calls -> Steps] /\ ended \in [Calls -> {"none", "ok", "error", "refused"}]
      /\ answer \in [Calls -> {"none", "ok", "error", "timeout", "expired"}]
      /\ future \in [Calls -> Pool!FutureStates] /\ timedOut \subseteq Calls
      /\ pending \subseteq Calls /\ round \in Nat
  BY DEF TypeInv, TypeOK, Pool!PoolTypeOK
<1>n. \A d \in Calls : d = <<d[1], d[2]>> /\ d[1] \in Nat /\ d[2] \in Places
  BY DEF Calls
<1>1. CASE Dispatch
  <2>1. /\ UNCHANGED <<answer, pending, timedOut, spans, ended, raised>>
        /\ pc = "idle" /\ round' = round + 1 /\ UNCHANGED future
    BY <1>1, <1>t, Dispatched DEF Dispatch, TypeInv
  <2>2. \A d \in Calls : /\ about(d)' = about(d)
                         /\ ahead(d)' => ahead(d)
                         /\ d[1] = round' => ahead(d)
    BY <2>1, <1>t, <1>n DEF about, ahead
  <2>3. \A d \in Calls : step'[d] # step[d] =>
            /\ d[1] = round' /\ pc' = "inline" /\ step'[d] = "reserve" /\ d[2] \in todo'
    BY <1>1, Dispatched DEF TypeInv
  <2>4. NothingYet'
    BY <2>1, <2>2, <2>3 DEF RecordInv, NothingYet, span
  <2>5. GivenUp'
    BY <2>1 DEF RecordInv, GivenUp, span
  <2>6. Answered'
    <3>1. \A d \in Calls : answer'[d] \in {"ok", "error"} =>
            /\ ended'[d] = answer'[d] /\ about(d)' = {span(d, "worker", answer'[d])}
            /\ step'[d] \in {"leave", "none"} /\ future'[d] # "queued"
      BY <2>1, <2>2, <2>3 DEF RecordInv, Answered, NothingYet
    <3>2. \A d \in Calls : answer'[d] = "timeout" => span(d, "caller", "timeout") \in spans'
      BY <2>1 DEF RecordInv, Answered
    <3>3. \A d \in Calls : begun(d)' => begun(d) \/ (pc' = "inline" /\ d[1] = round' /\ d[2] \in todo')
      BY <2>1, <2>3 DEF begun
    <3>4. \A d \in Calls : begun(d) => answer'[d] # "none" \/ d \in pending'
      BY <2>1 DEF RecordInv, Answered
    <3> QED BY <3>1, <3>2, <3>3, <3>4 DEF Answered, span
  <2> QED BY <2>4, <2>5, <2>6 DEF RecordInv
<1>w. CASE Collect \/ AbortWait \/ GiveUp
  <2>0. /\ pc = "wait" /\ pc' \notin {"submit", "work"} /\ timedOut \subseteq timedOut'
        /\ UNCHANGED <<step, ended, round, todo>>
    BY <1>w DEF Collect, AbortWait, GiveUp, expired, cancelEntries
  <2>f. \A d \in Calls : future'[d] = future[d]
                         \/ (future[d] = "queued" /\ future'[d] = "cancelled")
    BY <1>w, <1>t DEF Collect, AbortWait, GiveUp, cancelEntries, Pool!cancelAll, Pool!inState
  <2>a. \A d \in Calls : ahead(d)' => ahead(d) /\ d \notin pending
    BY <2>0 DEF ahead, NotYetMade, RecordInv, GivenUp
  <2>1. CASE Collect
    <3> DEFINE refused == {d \in done : ended[d] = "refused"}
               taken == {d \in done : \A f \in refused : d[2] < f[2]}
               first == {f \in refused : \A g \in refused : f[2] <= g[2]}
               rest == pending \ (taken \cup first)
    <3>1. /\ UNCHANGED spans
          /\ answer' = [d \in Calls |-> IF d \in taken THEN ended[d] ELSE answer[d]]
          /\ \/ /\ refused = {} /\ pending' = rest
                /\ UNCHANGED <<pc, raised, timedOut>>
             \/ /\ pc' = "over" /\ raised' # "none" /\ pending' = {}
                /\ timedOut' = timedOut \cup rest
      BY <2>1 DEF Collect, cancelEntries
    <3>2. \A d \in taken : /\ d \in Calls /\ d \in pending /\ d \notin timedOut
                           /\ future[d] = "done" /\ step[d] = "leave"
                           /\ ended[d] \in {"ok", "error"} /\ answer[d] = "none"
      <4> SUFFICES ASSUME NEW d \in taken
                   PROVE  /\ d \in Calls /\ d \in pending /\ d \notin timedOut
                          /\ future[d] = "done" /\ step[d] = "leave"
                          /\ ended[d] \in {"ok", "error"} /\ answer[d] = "none"
        OBVIOUS
      <4>1. d \in pending /\ d \in Calls /\ future[d] = "done"
        BY <1>t DEF done
      <4>2. d \notin refused
        <5>1. d \in refused => d[2] < d[2]
          OBVIOUS
        <5> QED BY <4>1, <5>1, <1>n DEF Places
      <4>3. ended[d] # "none" /\ step[d] = "leave"
        BY <4>1 DEF TypeInv, Ended, WaitedFor
      <4> QED BY <4>1, <4>2, <4>3, <1>t DEF RecordInv, GivenUp, done
    <3>3. refused = {} => taken = done /\ rest = pending \ done
      OBVIOUS
    <3>4. \A d \in rest : d \in pending /\ d \notin taken
      OBVIOUS
    <3> HIDE DEF refused, taken, first, rest
    <3>5. \A d \in Calls : about(d)' = about(d)
      BY <3>1 DEF about
    <3>6. \A d \in Calls : d \in taken => about(d) = {span(d, "worker", ended[d])}
      BY <3>2 DEF RecordInv, NothingYet
    <3>7. NothingYet'
      BY <2>0, <2>f, <2>a, <3>1, <3>2, <3>5 DEF RecordInv, NothingYet, span
    <3>8. GivenUp'
      <4>1. CASE pc' = "over" /\ raised' # "none" /\ pending' = {} /\ timedOut' = timedOut \cup rest
        BY <2>f, <3>1, <3>2, <3>4, <4>1, <1>t DEF RecordInv, GivenUp
      <4>2. CASE refused = {} /\ pending' = rest /\ UNCHANGED <<pc, raised, timedOut>>
        <5>1. \A d \in timedOut : d \in Calls /\ d \notin taken /\ answer'[d] = answer[d]
          BY <3>1, <3>2, <1>t
        <5>2. \A d \in pending' : d \in pending /\ d \in Calls /\ answer'[d] = answer[d]
          BY <3>1, <3>4, <4>2, <1>t
        <5>3. \A d \in Calls : future[d] # "none" => future'[d] # "none"
          BY <2>f
        <5> QED BY <4>2, <5>1, <5>2, <5>3, <3>1 DEF RecordInv, GivenUp, span
      <4> QED BY <3>1, <4>1, <4>2
    <3>9. Answered'
      <4>1. \A d \in Calls : answer'[d] \in {"ok", "error"} =>
              /\ ended'[d] = answer'[d] /\ about(d)' = {span(d, "worker", answer'[d])}
              /\ step'[d] \in {"leave", "none"} /\ future'[d] # "queued"
        BY <2>0, <2>f, <3>1, <3>2, <3>5, <3>6 DEF RecordInv, Answered
      <4>2. \A d \in Calls : answer'[d] = "timeout" => span(d, "caller", "timeout") \in spans'
        BY <3>1, <3>2 DEF RecordInv, Answered
      <4>3. pc' # "over" => \A d \in Calls : begun(d)' => answer'[d] # "none" \/ d \in pending'
        <5> SUFFICES ASSUME pc' # "over", NEW d \in Calls, begun(d)'
                     PROVE  answer'[d] # "none" \/ d \in pending'
          OBVIOUS
        <5>1. begun(d)
          BY <2>0, <2>f DEF begun
        <5>2. answer[d] # "none" \/ d \in pending
          BY <5>1, <2>0 DEF RecordInv, Answered
        <5>3. refused = {} /\ pending' = rest
          BY <3>1
        <5>4. d \in pending => d \in taken \/ d \in pending'
          BY <3>3, <5>3
        <5> QED BY <3>1, <3>2, <5>2, <5>4
      <4> QED BY <2>0, <4>1, <4>2, <4>3 DEF Answered, span
    <3> QED BY <3>7, <3>8, <3>9 DEF RecordInv
  <2>2. CASE AbortWait
    <3>1. /\ UNCHANGED <<answer, spans>> /\ pc' = "over" /\ raised' # "none"
          /\ pending' = {} /\ timedOut' = timedOut \cup pending
      BY <2>2 DEF AbortWait, cancelEntries
    <3>2. \A d \in Calls : about(d)' = about(d)
      BY <3>1 DEF about
    <3>3. NothingYet'
      BY <2>0, <2>f, <2>a, <3>1, <3>2 DEF RecordInv, NothingYet, span
    <3>4. GivenUp'
      BY <2>f, <3>1, <1>t DEF RecordInv, GivenUp
    <3>5. Answered'
      BY <2>0, <2>f, <3>1, <3>2 DEF RecordInv, Answered, span
    <3> QED BY <3>3, <3>4, <3>5 DEF RecordInv
  <2>3. CASE GiveUp
    <3>1. /\ answer' = [d \in Calls |-> IF d \in pending THEN "timeout" ELSE answer[d]]
          /\ spans' = spans \cup {span(d, "caller", "timeout") : d \in pending}
          /\ pc' = "idle" /\ pending' = {} /\ timedOut' = timedOut \cup pending
          /\ UNCHANGED raised
      BY <2>3 DEF GiveUp, answerTimeout, cancelEntries
    <3>2. \A d \in Calls : d \notin pending => about(d)' = about(d)
      BY <3>1 DEF about, span
    <3>3. NothingYet'
      BY <2>0, <2>f, <2>a, <3>1, <3>2 DEF RecordInv, NothingYet, span
    <3>4. GivenUp'
      <4>1. \A d \in pending : span(d, "caller", "timeout") \in spans'
        BY <3>1
      <4>2. \A d \in pending : d \in Calls /\ future'[d] # "none" /\ answer'[d] = "timeout"
        BY <2>f, <3>1, <1>t DEF RecordInv, GivenUp
      <4>3. \A d \in timedOut : /\ d \in Calls /\ future'[d] # "none"
                                /\ answer'[d] \in {"none", "timeout"}
        BY <2>f, <3>1, <1>t DEF RecordInv, GivenUp
      <4> QED BY <3>1, <4>1, <4>2, <4>3 DEF RecordInv, GivenUp, span
    <3>5. Answered'
      <4>1. \A d \in Calls : answer'[d] \in {"ok", "error"} =>
              /\ ended'[d] = answer'[d] /\ about(d)' = {span(d, "worker", answer'[d])}
              /\ step'[d] \in {"leave", "none"} /\ future'[d] # "queued"
        BY <2>0, <2>f, <3>1, <3>2 DEF RecordInv, Answered
      <4>2. \A d \in Calls : answer'[d] = "timeout" => span(d, "caller", "timeout") \in spans'
        BY <3>1 DEF RecordInv, Answered
      <4>3. \A d \in Calls : begun(d)' => answer'[d] # "none"
        <5>1. \A d \in Calls : begun(d)' => begun(d)
          BY <2>0, <2>f DEF begun
        <5> QED BY <2>0, <3>1, <5>1 DEF RecordInv, Answered
      <4> QED BY <4>1, <4>2, <4>3 DEF Answered, span
    <3> QED BY <3>3, <3>4, <3>5 DEF RecordInv
  <2> QED BY <1>w, <2>1, <2>2, <2>3
<1> QED
  BY <1>1, <1>w

(* The run's thread where it works through the tasks of a plan              *)
LEMMA RecordTasks ==
    ASSUME TypeInv, NotYetMade, Expected, WaitedFor, RecordInv,
           \/ \E c \in Calls : Launch(c) \/ Skip(c) \/ TaskCollect(c)
           \/ TaskExpire \/ WorkAborts
    PROVE  RecordInv'
<1> USE DEF options, caller, dispatch, limits, worker, foreign, usage, pool, to, fail
<1>t. /\ step \in [Calls -> Steps] /\ ended \in [Calls -> {"none", "ok", "error", "refused"}]
      /\ answer \in [Calls -> {"none", "ok", "error", "timeout", "expired"}]
      /\ future \in [Calls -> Pool!FutureStates] /\ timedOut \subseteq Calls
      /\ pending \subseteq Calls /\ round \in Nat
  BY DEF TypeInv, TypeOK, Pool!PoolTypeOK
<1>n. \A d \in Calls : d = <<d[1], d[2]>> /\ d[1] \in Nat /\ d[2] \in Places
  BY DEF Calls
<1>0. /\ UNCHANGED <<spans, timedOut, ended, step, round>> /\ pc = "work"
      /\ pc' \in {"work", "over"}
      /\ pc' = "over" => raised' # "none"
      /\ pc' = "work" => raised' = raised
  BY DEF Launch, Skip, TaskCollect, TaskExpire, WorkAborts, isTask
<1>a. \A d \in Calls : about(d)' = about(d)
  BY <1>0 DEF about
<1>1. ASSUME NEW c \in Calls, Launch(c) PROVE RecordInv'
  <2>1. /\ pc' = "work" /\ c[1] = round /\ c[2] \in todo /\ todo' = todo \ {c[2]}
        /\ \/ /\ pending' = pending \cup {c} /\ UNCHANGED answer
              /\ future' = [future EXCEPT ![c] = "queued"]
           \/ /\ answer' = [answer EXCEPT ![c] = "expired"]
              /\ UNCHANGED <<pending, future>>
    BY <1>1 DEF Launch, isTask, Pool!submit
  <2>2. /\ future[c] = "none" /\ step[c] = "none" /\ c \notin timedOut /\ ahead(c)
        /\ c \notin pending
    BY <1>0, <2>1 DEF NotYetMade, RecordInv, GivenUp, ahead
  <2>3. \A d \in Calls : ahead(d)' => ahead(d) /\ d # c
    BY <1>0, <2>1, <1>t, <1>n DEF ahead
  <2>4. NothingYet'
    BY <1>0, <1>a, <2>1, <2>2, <2>3, <1>t DEF RecordInv, NothingYet, span
  <2>5. GivenUp'
    BY <1>0, <2>1, <2>2, <1>t DEF RecordInv, GivenUp, span, NothingYet
  <2>6. answer[c] = "none"
    BY <2>2 DEF RecordInv, NothingYet
  <2>7. Answered'
    BY <1>0, <1>a, <2>1, <2>2, <2>6, <1>t DEF RecordInv, Answered, span, begun
  <2> QED BY <2>4, <2>5, <2>7 DEF RecordInv
<1>2. ASSUME NEW c \in Calls, Skip(c) PROVE RecordInv'
  <2>1. /\ UNCHANGED <<answer, pending, future, pc>> /\ todo' \subseteq todo
    BY <1>2 DEF Skip
  <2>2. NothingYet'
    BY <1>0, <1>a, <2>1 DEF RecordInv, NothingYet, span, ahead
  <2>3. GivenUp'
    BY <1>0, <2>1 DEF RecordInv, GivenUp, span
  <2>4. Answered'
    BY <1>0, <1>a, <2>1 DEF RecordInv, Answered, span, begun
  <2> QED BY <2>2, <2>3, <2>4 DEF RecordInv
<1>3. ASSUME (\E c \in Calls : TaskCollect(c)) \/ TaskExpire \/ WorkAborts
      PROVE  RecordInv'
  <2>1. /\ todo' = todo /\ pending' \subseteq pending
        /\ \A d \in Calls : future'[d] = future[d]
                            \/ (future[d] = "queued" /\ future'[d] = "cancelled")
    <3>1. ASSUME NEW S, Pool!cancelAll(S) \/ UNCHANGED future
          PROVE  \A d \in Calls : future'[d] = future[d]
                                  \/ (future[d] = "queued" /\ future'[d] = "cancelled")
      BY <3>1, <1>t DEF Pool!cancelAll, Pool!inState
    <3>2. \E S : Pool!cancelAll(S) \/ UNCHANGED future
      BY <1>3 DEF TaskCollect, TaskExpire, WorkAborts
    <3>3. todo' = todo /\ pending' \subseteq pending
      BY <1>3 DEF TaskCollect, TaskExpire, WorkAborts
    <3> QED BY <3>1, <3>2, <3>3
  <2>2. \A d \in Calls : answer'[d] # answer[d] =>
            /\ d \in pending /\ d \notin pending'
            /\ \/ answer'[d] = "expired"
               \/ d \in done /\ ended[d] # "refused" /\ answer'[d] = ended[d]
    <3>1. ASSUME NEW c \in Calls, TaskCollect(c)
          PROVE  /\ c \in done /\ c \in pending /\ c \notin pending'
                 /\ answer' = answer \/ (/\ ended[c] # "refused"
                                        /\ answer' = [answer EXCEPT ![c] = ended[c]])
      BY <3>1 DEF TaskCollect, done
    <3>2. CASE TaskExpire \/ WorkAborts
      BY <3>2, <1>t DEF TaskExpire, WorkAborts, late
    <3> QED BY <1>3, <1>t, <3>1, <3>2
  <2>3. pc' = "work" => \A d \in Calls : d \in pending =>
            d \in pending' \/ answer'[d] # "none"
    <3>1. \A d \in Calls : d \in done => ended[d] # "none"
      BY DEF TypeInv, Ended, done
    <3> QED BY <1>3, <1>t, <3>1 DEF TaskCollect, TaskExpire, WorkAborts
  <2>4. \A d \in Calls : d \in done =>
            /\ step[d] = "leave" /\ d \notin timedOut /\ future[d] = "done"
            /\ ended[d] # "refused" => about(d) = {span(d, "worker", ended[d])}
    BY DEF done, WaitedFor, RecordInv, GivenUp, NothingYet
  <2>5. \A d \in pending : ~ahead(d) /\ d \notin timedOut
    BY <1>0, <1>t DEF ahead, NotYetMade, RecordInv, GivenUp
  <2>6. NothingYet'
    <3>1. \A d \in Calls : ahead(d)' => ahead(d) /\ answer'[d] = answer[d]
      BY <1>0, <2>1, <2>2, <2>5 DEF ahead
    <3> QED BY <1>0, <1>a, <2>1, <3>1 DEF RecordInv, NothingYet, span
  <2>7. GivenUp'
    <3>1. \A d \in Calls : future[d] # "none" => future'[d] # "none"
      BY <2>1
    <3>2. \A d \in pending' : d \in pending /\ d \in Calls /\ answer'[d] = answer[d]
      BY <2>1, <2>2, <1>t
    <3>3. \A d \in timedOut : d \in Calls /\ answer'[d] = answer[d]
      BY <2>2, <2>5, <1>t
    <3>4. raised' = "none" => raised = "none"
      BY <1>0
    <3> QED BY <1>0, <3>1, <3>2, <3>3, <3>4 DEF RecordInv, GivenUp, span
  <2>8. Answered'
    <3>1. \A d \in Calls : answer'[d] \in {"ok", "error"} =>
            /\ ended'[d] = answer'[d] /\ about(d)' = {span(d, "worker", answer'[d])}
            /\ step'[d] \in {"leave", "none"} /\ future'[d] # "queued"
      BY <1>0, <1>a, <2>1, <2>2, <2>4 DEF RecordInv, Answered
    <3>2. \A d \in Calls : answer'[d] = "timeout" => answer[d] = "timeout"
      BY <2>2, <1>t
    <3>3. \A d \in Calls : begun(d)' => begun(d)
      BY <1>0, <2>1 DEF begun
    <3>4. pc' = "work" => \A d \in Calls : begun(d) => answer'[d] # "none" \/ d \in pending'
      <4>1. \A d \in Calls : begun(d) => answer[d] # "none" \/ d \in pending
        BY <1>0 DEF RecordInv, Answered
      <4> QED BY <2>2, <2>3, <4>1, <1>t
    <3> QED BY <1>0, <3>1, <3>2, <3>3, <3>4 DEF RecordInv, Answered, span
  <2> QED BY <2>6, <2>7, <2>8 DEF RecordInv
<1> QED
  BY <1>1, <1>2, <1>3

(* What says and answers nothing                                            *)
LEMMA RecordElsewhere ==
    ASSUME WaitedFor, RecordInv,
           Refuse \/ BeginWait \/ AllCollected \/ WorkDone \/ Finish
           \/ OtherRuns \/ OtherUsage \/ Tick \/ UNCHANGED vars
    PROVE  RecordInv'
<1> USE DEF options, caller, dispatch, limits, worker, foreign, usage, pool, fail
<1>1. /\ UNCHANGED <<answer, spans, timedOut, ended, step, future, round, todo, pending>>
      /\ raised' = "none" => raised = "none"
      /\ pc' = pc \/ pc' \in {"wait", "over", "idle"}
      /\ pc' # "over" => pc # "over"
      /\ pc' # pc => pc # "inline" \/ pc' = "over"
  BY DEF Refuse, BeginWait, AllCollected, WorkDone, Finish, OtherRuns, Pool!OtherJob,
         OtherUsage, Tick, vars
<1>2. \A d \in Calls : about(d)' = about(d) /\ (ahead(d)' => ahead(d))
                       /\ (begun(d)' <=> begun(d))
  BY <1>1 DEF about, ahead, begun
<1>3. NothingYet'
  BY <1>1, <1>2 DEF RecordInv, NothingYet, span
<1>4. GivenUp'
  BY <1>1 DEF RecordInv, GivenUp, span
<1>5. Answered'
  BY <1>1, <1>2 DEF RecordInv, Answered, span
<1> QED
  BY <1>3, <1>4, <1>5 DEF RecordInv

(* The caller records a call only when it answers for it.                   *)
LEMMA SaidStays ==
    ASSUME TypeOK, Expected, Said, [Next]_vars
    PROVE  Said'
<1> USE DEF options, caller, dispatch, limits, worker, foreign, usage, pool, to, fail
<1>t. /\ answer \in [Calls -> {"none", "ok", "error", "timeout", "expired"}]
      /\ pending \subseteq Calls /\ \A s \in spans : s.call \in Calls
  BY DEF TypeOK
<1>1. ASSUME \A c \in Calls : answer[c] = "timeout" => answer'[c] = "timeout",
             \A s \in spans' : s \in spans \/ s.by = "worker" \/ answer'[s.call] = "timeout"
      PROVE  Said'
  BY <1>1, <1>t DEF Said
<1>2. ASSUME NEW c \in Calls, RunAgentOnce(c) PROVE Said'
  <2>1. UNCHANGED answer /\ (spans' = spans \/ spans' = spans \cup {span(c, "worker", ended[c])})
    BY <1>2 DEF RunAgentOnce, Reserve, Handle, Finally, Note, Settle
  <2> QED BY <1>1, <2>1 DEF span
<1>3. ASSUME NEW c \in Calls, InlineReturns(c) PROVE Said'
  <2>1. spans' = spans /\ answer[c] = "none"
        /\ (answer' = answer \/ answer' = [answer EXCEPT ![c] = ended[c]])
    BY <1>3 DEF InlineReturns, isNext, Expected
  <2> QED BY <1>1, <2>1, <1>t
<1>4. ASSUME NEW c \in Calls, SubmitSaturated(c) PROVE Said'
  <2>1. UNCHANGED <<answer, spans>> \/ answerTimeout({c})
    BY <1>4 DEF SubmitSaturated
  <2> QED BY <1>1, <2>1, <1>t DEF answerTimeout, span
<1>5. ASSUME NEW c \in Calls, Launch(c) PROVE Said'
  <2>1. spans' = spans /\ answer[c] = "none"
        /\ (answer' = answer \/ answer' = [answer EXCEPT ![c] = "expired"])
    BY <1>5 DEF Launch, isTask, Expected
  <2> QED BY <1>1, <2>1, <1>t
<1>6. ASSUME NEW c \in Calls, TaskCollect(c) PROVE Said'
  <2>1. spans' = spans /\ answer[c] = "none"
        /\ (answer' = answer \/ answer' = [answer EXCEPT ![c] = ended[c]])
    BY <1>6 DEF TaskCollect, done, Expected
  <2> QED BY <1>1, <2>1, <1>t
<1>7. CASE Collect \/ TaskExpire
  <2>1. spans' = spans /\ \A c \in Calls : answer'[c] = answer[c] \/ c \in pending
    BY <1>7, <1>t DEF Collect, TaskExpire, done, late
  <2> QED BY <1>1, <2>1, <1>t DEF Expected
<1>8. CASE GiveUp
  <2>1. answerTimeout(pending)
    BY <1>8 DEF GiveUp
  <2> QED BY <1>1, <2>1, <1>t DEF answerTimeout, span
<1>9. ASSUME NEW c \in Calls, Start(c) \/ Return(c) \/ Submit(c) \/ Skip(c) PROVE Said'
  <2>1. UNCHANGED <<answer, spans>>
    BY <1>9 DEF Start, Return, Submit, Skip
  <2> QED BY <1>1, <2>1
<1>10. CASE Refuse \/ Dispatch \/ BeginWait \/ AllCollected \/ AbortWait \/ WorkAborts \/ WorkDone
            \/ Finish \/ OtherRuns \/ OtherUsage \/ Tick \/ UNCHANGED vars
  <2>1. UNCHANGED <<answer, spans>>
    BY <1>10 DEF Refuse, Dispatch, BeginWait, AllCollected, AbortWait, WorkAborts, WorkDone,
                 Finish, OtherRuns, OtherUsage, Tick, vars
  <2> QED BY <1>1, <2>1
<1> QED
  BY <1>2, <1>3, <1>4, <1>5, <1>6, <1>7, <1>8, <1>9, <1>10 DEF Next, Run, Over

(* Every call that was made is answered and recorded, each in its own way,  *)
(* once the run goes on: whatever ends first of call, timeout, deadline and *)
(* budget (_call_agent, _parallel, _run_agent_once, strategies.py:57-88,    *)
(* :159-210).                                                               *)
THEOREM AnswersAreRecorded == Spec => []AnswersRecorded
<1> DEFINE IInv == NotYetMade /\ Expected /\ WaitedFor /\ Said /\ RecordInv
<1>1. Init => IInv
  <2> SUFFICES ASSUME Init PROVE IInv
    OBVIOUS
  <2> USE DEF Init, each, Pool!PoolInit
  <2>1. NotYetMade /\ Expected /\ WaitedFor /\ Said
    BY DEF NotYetMade, Expected, WaitedFor, active, Making, Said
  <2>2. RecordInv
    BY DEF RecordInv, NothingYet, GivenUp, Answered, about, begun
  <2> QED BY <2>1, <2>2
<1>2. TypeInv /\ IInv /\ [Next]_vars => IInv'
  <2> SUFFICES ASSUME TypeInv, IInv, [Next]_vars PROVE IInv'
    OBVIOUS
  <2>1. TypeOK
    BY DEF TypeInv
  <2>2. NotYetMade' /\ Expected' /\ WaitedFor' /\ Said'
    BY <2>1, OnceEach, StillExpected, StillWaitedFor, SaidStays
  <2>3. RecordInv'
    BY RecordOnce, RecordCalls, RecordWaits, RecordTasks, RecordElsewhere DEF Next, Run, Over
  <2> QED BY <2>2, <2>3
<1>3. TypeInv /\ IInv => AnswersRecorded
  <2> SUFFICES ASSUME TypeInv, IInv PROVE AnswersRecorded
    OBVIOUS
  <2>1. TypeOK
    BY DEF TypeInv
  <2>2. ASSUME NEW c \in Calls
        PROVE  /\ answer[c] \in {"ok", "error"} => about(c) = {span(c, "worker", answer[c])}
               /\ answer[c] = "timeout" => span(c, "caller", "timeout") \in about(c)
               /\ answer[c] = "expired" => \A s \in about(c) : s.by = "worker"
               /\ ended[c] = "refused" => answer[c] \in {"none", "timeout", "expired"}
               /\ pc = "idle" /\ (future[c] # "none" \/ ended[c] # "none") => answer[c] # "none"
               /\ step[c] = "leave" /\ ended[c] # "refused" /\ about(c) = {} => raised # "none"
    <3>t. answer \in [Calls -> {"none", "ok", "error", "timeout", "expired"}]
      BY <2>1 DEF TypeOK
    <3>1. answer[c] \in {"ok", "error"} =>
              ended[c] = answer[c] /\ about(c) = {span(c, "worker", answer[c])}
      BY DEF RecordInv, Answered
    <3>2. answer[c] = "timeout" => span(c, "caller", "timeout") \in about(c)
      BY DEF RecordInv, Answered, about, span
    <3>3. ended[c] = "refused" => answer[c] \in {"none", "timeout", "expired"}
      BY <3>1, <3>t
    <3>x. answer[c] = "expired" => \A s \in about(c) : s.by = "worker"
      BY <2>1 DEF Said, about, TypeOK
    <3>4. pc = "idle" /\ (future[c] # "none" \/ ended[c] # "none") => answer[c] # "none"
      BY DEF RecordInv, Answered, begun, Expected
    <3>5. step[c] = "leave" /\ ended[c] # "refused" /\ about(c) = {} => raised # "none"
      <4>1. ASSUME step[c] = "leave", ended[c] # "refused", about(c) = {}
            PROVE  c \in timedOut
        BY <4>1 DEF RecordInv, NothingYet
      <4>2. ASSUME c \in timedOut, raised = "none"
            PROVE  span(c, "caller", "timeout") \in about(c)
        BY <4>2 DEF RecordInv, GivenUp, about, span
      <4> QED BY <4>1, <4>2
    <3> QED BY <3>1, <3>2, <3>3, <3>x, <3>4, <3>5
  <2> QED BY <2>1, <2>2 DEF AnswersRecorded, about
<1> QED
  BY <1>1, <1>2, <1>3, TypeInvariance, PTL DEF Spec

(* The run's deadline is checked against the end of the wait before the     *)
(* wait, so a wait that it ends has reached it.                             *)
THEOREM RunTimeoutIsExplained == Spec => RunTimeoutExplained
<1>1. Init => BindInv
  BY DEF Init, BindInv
<1>2. TypeOK /\ BindInv /\ [Next]_vars => BindInv'
  <2> SUFFICES ASSUME TypeOK, BindInv, [Next]_vars PROVE BindInv'
    OBVIOUS
  <2> USE DEF options, caller, dispatch, limits, worker, foreign, usage, pool, to, fail
  <2>t. /\ clock \in Nat /\ clock <= MaxTime /\ Never = MaxTime + 1
        /\ runDeadline \in 0 .. Never /\ callTimeout \in 1 .. Never
        /\ timeout \in 0 .. Never /\ waitUntil \in 0 .. Never
    BY DEF TypeOK, Never
  <2>k. round' = round => kind' = kind
    BY StrategyStays DEF kind
  <2>1. CASE Dispatch
    <3>1. /\ pc' # "wait" /\ timeout' = clamped
          /\ UNCHANGED <<clock, callTimeout, runDeadline>>
      BY <2>1 DEF Dispatch
    <3>2. kind' = "one" => runBinds' = bindsAt(clock, clamped)
      BY <2>1 DEF Dispatch, kind
    <3>3. bindsAt(clock, clamped) =>
              runDeadline < Never /\ (clamped = Never \/ runDeadline <= clock + clamped)
      BY DEF bindsAt
    <3> QED BY <3>1, <3>2, <3>3 DEF BindInv
  <2>2. CASE BeginWait
    <3>1. /\ pc = "submit" /\ UNCHANGED <<clock, timeout, runDeadline>>
          /\ runBinds' = IF kind = "one" THEN runBinds ELSE bindsAt(clock, timeout)
          /\ waitUntil' = IF kind = "all" /\ runBinds' THEN runDeadline
                          ELSE IF timeout = Never THEN Never
                          ELSE lesser(clock + timeout, MaxTime)
      BY <2>2 DEF BeginWait
    <3>2. runBinds' => runDeadline < Never
                       /\ (timeout = Never \/ runDeadline <= clock + timeout)
      <4>1. CASE kind = "one"
        <5>1. runBinds' = runBinds
          BY <3>1, <4>1
        <5> QED BY <3>1, <4>1, <5>1 DEF BindInv
      <4>2. CASE kind # "one"
        <5>1. runBinds' = bindsAt(clock, timeout)
          BY <3>1, <4>2
        <5> QED BY <5>1 DEF bindsAt
      <4> QED BY <4>1, <4>2
    <3>3. runBinds' => runDeadline <= waitUntil'
      <4> SUFFICES ASSUME runBinds' PROVE runDeadline <= waitUntil'
        OBVIOUS
      <4>1. runDeadline <= MaxTime /\ (timeout = Never \/ runDeadline <= clock + timeout)
        BY <2>t, <3>2
      <4>2. CASE kind = "all"
        <5>1. waitUntil' = runDeadline
          BY <3>1, <4>2
        <5> QED BY <5>1, <2>t
      <4>3. CASE kind # "all"
        <5>1. waitUntil' = IF timeout = Never THEN Never ELSE lesser(clock + timeout, MaxTime)
          BY <3>1, <4>3
        <5> QED BY <5>1, <4>1, <2>t DEF lesser
      <4> QED BY <4>2, <4>3
    <3>4. pc' = "wait" /\ UNCHANGED runDeadline
      BY <2>2 DEF BeginWait
    <3> QED BY <3>3, <3>4 DEF BindInv
  <2>3. CASE Tick
    <3>1. clock' = clock + 1 /\ UNCHANGED <<pc, kind, runBinds, runDeadline, timeout, waitUntil>>
      BY <2>3, <2>k DEF Tick
    <3> QED BY <2>t, <3>1 DEF BindInv
  <2>4. ASSUME NEW c \in Calls,
               RunAgentOnce(c) \/ Start(c) \/ Return(c) \/ InlineReturns(c) \/ Submit(c)
               \/ SubmitSaturated(c) \/ Launch(c) \/ Skip(c) \/ TaskCollect(c)
        PROVE  BindInv'
    <3>1. /\ UNCHANGED <<clock, kind, runBinds, runDeadline, timeout, waitUntil>>
          /\ pc' = pc \/ pc' \in {"idle", "over"} \/ (pc = "submit" /\ pc' = "submit")
      BY <2>4, <2>k DEF RunAgentOnce, Start, Return, InlineReturns, Submit, SubmitSaturated,
                        Launch, Skip, TaskCollect
    <3> QED BY <3>1 DEF BindInv
  <2>5. CASE Refuse \/ Collect \/ AllCollected \/ AbortWait \/ GiveUp \/ TaskExpire
             \/ WorkAborts \/ WorkDone \/ Finish \/ OtherRuns \/ OtherUsage \/ UNCHANGED vars
    <3>1. /\ UNCHANGED <<clock, kind, runBinds, runDeadline, timeout, waitUntil>>
          /\ pc' = pc \/ pc' \in {"idle", "over"}
      BY <2>5, <2>k DEF Refuse, Collect, AllCollected, AbortWait, GiveUp, TaskExpire,
                        WorkAborts, WorkDone, Finish, OtherRuns, OtherUsage, vars
    <3> QED BY <3>1 DEF BindInv
  <2> QED BY <2>1, <2>2, <2>3, <2>4, <2>5 DEF Next, Run, Over
<1>3. TypeOK /\ BindInv /\ [Next]_vars =>
          (raised' = "RunTimeout" /\ raised = "none" =>
               deadlineSpent \/ (kind = "one" /\ Pool!saturated))
  <2> SUFFICES ASSUME TypeOK, BindInv, [Next]_vars, raised' = "RunTimeout", raised = "none"
               PROVE  deadlineSpent \/ (kind = "one" /\ Pool!saturated)
    OBVIOUS
  <2> USE DEF options, caller, dispatch, limits, worker, foreign, usage, pool, to, fail
  <2>1. CASE Refuse
    BY <2>1 DEF Refuse
  <2>2. ASSUME NEW c \in Calls, SubmitSaturated(c)
        PROVE  kind = "one" /\ Pool!saturated
    BY <2>2 DEF SubmitSaturated
  <2>3. CASE AbortWait
    <3>1. pc = "wait" /\ runBinds /\ clock >= waitUntil
      BY <2>3 DEF AbortWait, expired
    <3>2. clock \in Nat /\ waitUntil \in Nat /\ runDeadline \in Nat
      BY DEF TypeOK, Never
    <3> QED BY <3>1, <3>2 DEF BindInv, deadlineSpent
  <2>4. ASSUME NEW c \in Calls,
               RunAgentOnce(c) \/ Start(c) \/ Return(c) \/ InlineReturns(c) \/ Submit(c)
               \/ Launch(c) \/ Skip(c) \/ TaskCollect(c)
        PROVE  FALSE
    BY <2>4 DEF RunAgentOnce, Start, Return, InlineReturns, Submit, Launch, Skip, TaskCollect
  <2>5. ~(Dispatch \/ BeginWait \/ Collect \/ AllCollected \/ GiveUp \/ TaskExpire \/ Finish
          \/ OtherRuns \/ OtherUsage \/ Tick \/ UNCHANGED vars)
    BY DEF Dispatch, BeginWait, Collect, AllCollected, GiveUp, TaskExpire, Finish, OtherRuns,
           OtherUsage, Tick, vars
  <2>6. CASE WorkAborts \/ WorkDone
    BY <2>6 DEF WorkAborts, WorkDone
  <2> QED BY <2>1, <2>2, <2>3, <2>4, <2>5, <2>6 DEF Next, Run, Over
<1>6. Spec => [](TypeOK /\ BindInv)
  BY <1>1, <1>2, TypeCorrect, PTL DEF Spec
<1>7. TypeOK /\ BindInv /\ [Next]_vars =>
          [raised' = "RunTimeout" /\ raised = "none" =>
               deadlineSpent \/ (kind = "one" /\ Pool!saturated)]_vars
  BY <1>3
<1> QED
  BY <1>6, <1>7, PTL DEF Spec, RunTimeoutExplained
=============================================================================
