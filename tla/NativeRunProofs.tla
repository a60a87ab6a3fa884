-------------------------- MODULE NativeRunProofs --------------------------
(***************************************************************************)
(* Theorems about Scheduler, and about NativeRun, which puts the judgement *)
(* of the graph before it and that of the results after it, for every      *)
(* number of tasks, every graph, every sharing of agents and every         *)
(* concurrency limit.  A run of NativeRun goes through a run of Scheduler, *)
(* so the invariants of Scheduler, which come first, hold there too.       *)
(***************************************************************************)
EXTENDS NativeRun, FiniteSetTheorems, SequenceTheorems, WellFoundedInduction, TLAPS

USE NAssumption, ConcurrencyAssumption, GraphsAssumption, AssignmentsAssumption
    DEF NAssumption, ConcurrencyAssumption, GraphsAssumption,
        AssignmentsAssumption

-----------------------------------------------------------------------------
(* Every variable keeps its type (Scheduler.run, scheduler.ts:72-231).      *)
THEOREM TypeCorrect == Spec => []TypeOK
<1>1. Init => TypeOK
  <2> SUFFICES ASSUME Init PROVE TypeOK
    OBVIOUS
  <2>1. order \in Seq(Task)
    BY DEF Init
  <2>2. deps \in Graphs /\ agentOf \in [Task -> Agents]
        /\ status \in [Task -> Status] /\ pc \in Phases
    BY DEF Init, Status, Phases
  <2>3. /\ cursor \in 1 .. N + 1
        /\ running \in SUBSET Task /\ busy \in SUBSET Agents
        /\ inflight \in SUBSET Task /\ launched \in SUBSET Task
    BY DEF Init
  <2>4. aborted \in BOOLEAN /\ stopped \in BOOLEAN /\ woken \in BOOLEAN
    BY DEF Init
  <2>5. QED
    BY <2>1, <2>2, <2>3, <2>4 DEF TypeOK
<1>2. TypeOK /\ [Next]_vars => TypeOK'
  <2> SUFFICES ASSUME TypeOK, [Next]_vars PROVE TypeOK'
    OBVIOUS
  <2> USE DEF TypeOK, Status, Phases, SyncPhases, Outcomes, graph
  <2>c. /\ cursor + 1 \in 1 .. N + 1 <=> cursor <= N
        /\ cursor <= N => cursor \in Task
        /\ 1 \in 1 .. N + 1
    BY DEF Task
  <2>1. CASE Run BY <2>1, <2>c DEF Run
  <2>2. CASE CancelNext
    <3>1. order' \in Seq(Task)
      BY <2>2, <2>c DEF CancelNext, cancelBlocked
    <3>2. QED
      BY <2>2, <2>c, <3>1 DEF CancelNext, cancelBlocked
  <2>3. CASE CancelDone BY <2>3, <2>c DEF CancelDone
  <2>4. CASE Launch BY <2>4, <2>c DEF Launch, start
  <2>5. CASE SkipLaunch BY <2>5, <2>c DEF SkipLaunch
  <2>6. CASE LaunchDone BY <2>6 DEF LaunchDone
  <2>7. CASE CheckComplete BY <2>7, <2>c DEF CheckComplete
  <2>8. CASE CheckStopped BY <2>8, <2>c DEF CheckStopped
  <2>9. CASE CheckStalled BY <2>9 DEF CheckStalled
  <2>10. CASE CheckWait BY <2>10 DEF CheckWait
  <2>11. CASE Resume BY <2>11, <2>c DEF Resume
  <2>12. CASE TeardownNext
    <3>1. order' \in Seq(Task)
      BY <2>12, <2>c DEF TeardownNext, cancelBlocked
    <3>2. QED
      BY <2>12, <2>c, <3>1 DEF TeardownNext, cancelBlocked
  <2>13. CASE TeardownDone BY <2>13 DEF TeardownDone
  <2>14. ASSUME NEW t \in Task, NEW outcome \in Outcomes, Settle(t, outcome)
         PROVE TypeOK'
    <3>1. order' \in Seq(Task)
      BY <2>14 DEF Settle, settle
    <3>2. QED
      BY <2>14, <3>1 DEF Settle, settle, wake
  <2>15. CASE Abort BY <2>15 DEF Abort, wake
  <2>16. CASE UNCHANGED vars BY <2>16 DEF vars
  <2>17. QED
    BY <2>1, <2>2, <2>3, <2>4, <2>5, <2>6, <2>7, <2>8, <2>9, <2>10, <2>11,
       <2>12, <2>13, <2>14, <2>15, <2>16 DEF Next, Loop, Settles, Over
<1>3. QED BY <1>1, <1>2, PTL DEF Spec

-----------------------------------------------------------------------------
(* The inductive invariant.  The local sets of run() say what they are      *)
(* meant to say: `running' is the set of tasks with that status, `busy' the *)
(* agents of those tasks, and nothing else is in flight until a teardown    *)
(* abandons what is.                                                        *)
SetsAgree ==
    /\ running = {t \in Task : status[t] = "running"}
    /\ busy = {agentOf[t] : t \in running}
    /\ running \subseteq inflight
    /\ inflight \subseteq launched
    /\ \A t \in launched : status[t] # "pending"
    /\ pc \notin {"teardown", "resolved"} => inflight = running

TeardownProgress ==
    /\ pc = "teardown" => \A t \in Task : t < cursor => isTerminal(t)
    /\ pc = "resolved" => isComplete

IInv ==
    /\ SetsAgree
    /\ AgentExclusive
    /\ ConcurrencyBound
    /\ DependencyOrder
    /\ TeardownProgress

(* What is in flight is a finite set: removing a task never raises the      *)
(* number of tasks in flight, adding one raises it by at most one.          *)
LEMMA InflightCardinality ==
    ASSUME TypeOK, NEW t
    PROVE  /\ Cardinality(inflight) \in Nat
           /\ Cardinality(inflight \ {t}) <= Cardinality(inflight)
           /\ Cardinality(inflight \ {t}) \in Nat
           /\ Cardinality(inflight \cup {t}) <= Cardinality(inflight) + 1
           /\ Cardinality(inflight \cup {t}) \in Nat
<1>1. IsFiniteSet(Task) BY FS_Interval DEF Task
<1>2. IsFiniteSet(inflight) BY <1>1, FS_Subset DEF TypeOK
<1>3. Cardinality(inflight) \in Nat BY <1>2, FS_CardinalityType
<1>4. /\ IsFiniteSet(inflight \ {t})
      /\ Cardinality(inflight \ {t}) <= Cardinality(inflight)
  BY <1>2, FS_Subset
<1>5. Cardinality(inflight \ {t}) \in Nat BY <1>4, FS_CardinalityType
<1>6. Cardinality(inflight \cup {t}) <= Cardinality(inflight) + 1
  BY <1>2, <1>3, FS_AddElement
<1>7. Cardinality(inflight \cup {t}) \in Nat
  BY <1>2, FS_AddElement, FS_CardinalityType
<1>8. QED BY <1>3, <1>4, <1>5, <1>6, <1>7

(* The steps that move run() along its loop without touching a task.        *)
Control ==
    \/ Run \/ CancelDone \/ SkipLaunch \/ LaunchDone
    \/ CheckComplete \/ CheckStopped \/ CheckStalled \/ CheckWait
    \/ Resume \/ TeardownDone \/ Abort \/ Over \/ UNCHANGED vars

(* The control steps of the loop touch no task and no promise in flight.   *)
LEMMA ControlKeepsIInv == TypeOK /\ IInv /\ Control => IInv'
<1> SUFFICES ASSUME TypeOK, IInv, Control PROVE IInv'
  OBVIOUS
<1> USE DEF isTerminal, isComplete
<1>1. UNCHANGED <<deps, agentOf, status, running, busy, inflight, launched>>
  BY DEF Control, Run, CancelDone, SkipLaunch, LaunchDone, CheckComplete,
         CheckStopped, CheckStalled, CheckWait, Resume, TeardownDone, Abort,
         Over, vars, graph
<1>2. pc' \notin {"teardown", "resolved"} => pc \notin {"teardown", "resolved"}
  BY DEF Control, Run, CancelDone, SkipLaunch, LaunchDone, CheckComplete,
         CheckStopped, CheckStalled, CheckWait, Resume, TeardownDone, Abort,
         Over, vars
<1>3. SetsAgree'
  BY <1>1, <1>2 DEF IInv, SetsAgree
<1>4. AgentExclusive' /\ ConcurrencyBound' /\ DependencyOrder'
  BY <1>1 DEF IInv, AgentExclusive, ConcurrencyBound, DependencyOrder,
              depsCompleted
<1>5. TeardownProgress'
  <2>1. CASE CheckComplete
    BY <2>1, <1>1 DEF CheckComplete, TeardownProgress, Task
  <2>2. CASE CheckStopped
    BY <2>2, <1>1 DEF CheckStopped, TeardownProgress, Task
  <2>3. CASE TeardownDone
    BY <2>3, <1>1 DEF TeardownDone, IInv, TeardownProgress, Task, TypeOK
  <2>4. CASE ~(CheckComplete \/ CheckStopped \/ TeardownDone)
    <3>1. /\ pc' = "teardown" => pc = "teardown" /\ cursor' = cursor
          /\ pc' = "resolved" => pc = "resolved"
      BY <2>4 DEF Control, Run, CancelDone, SkipLaunch, LaunchDone,
                  CheckStalled, CheckWait, Resume, Abort, Over, vars
    <3>2. QED BY <3>1, <1>1 DEF IInv, TeardownProgress
  <2>5. QED BY <2>1, <2>2, <2>3, <2>4
<1>6. QED BY <1>3, <1>4, <1>5 DEF IInv

(* Cancelling a task before it is executed, in the cascade or the teardown. *)
LEMMA CancelKeepsIInv ==
    TypeOK /\ IInv /\ (CancelNext \/ TeardownNext) => IInv'
<1> SUFFICES ASSUME TypeOK, IInv, CancelNext \/ TeardownNext PROVE IInv'
  OBVIOUS
<1> USE DEF isTerminal, isComplete, Outcomes
<1>1. cursor \in Task /\ cursor \in Nat
  BY DEF CancelNext, TeardownNext, TypeOK, Task
<1>2. /\ UNCHANGED <<deps, agentOf, inflight, launched>>
      /\ pc' = pc /\ cursor' = cursor + 1
      /\ pc \in {"cancel", "teardown"}
  BY DEF CancelNext, TeardownNext, graph
<1>3. \/ UNCHANGED <<status, running, busy>>
      \/ /\ status[cursor] \notin Outcomes
         /\ status' = [status EXCEPT ![cursor] = "cancelled"]
         /\ \/ /\ pc = "cancel" /\ status[cursor] = "pending"
               /\ UNCHANGED <<running, busy>>
            \/ /\ pc = "teardown"
               /\ running' = running \ {cursor}
               /\ busy' = IF status[cursor] = "running"
                             THEN busy \ {agentOf[cursor]} ELSE busy
  BY DEF CancelNext, TeardownNext, cancelBlocked
<1>4. SetsAgree'
  <2>1. running' = {t \in Task : status'[t] = "running"}
    BY <1>1, <1>3 DEF IInv, SetsAgree, TypeOK
  <2>2. busy' = {agentOf'[t] : t \in running'}
    BY <1>1, <1>2, <1>3 DEF IInv, SetsAgree, AgentExclusive, TypeOK
  <2>3. running' \subseteq inflight' /\ inflight' \subseteq launched'
    BY <1>2, <1>3 DEF IInv, SetsAgree
  <2>4. \A t \in launched' : status'[t] # "pending"
    BY <1>1, <1>2, <1>3 DEF IInv, SetsAgree, TypeOK
  <2>5. pc' \notin {"teardown", "resolved"} => inflight' = running'
    BY <1>2, <1>3 DEF IInv, SetsAgree
  <2>6. QED BY <2>1, <2>2, <2>3, <2>4, <2>5 DEF SetsAgree
<1>5. AgentExclusive' /\ ConcurrencyBound'
  BY <1>2 DEF IInv, AgentExclusive, ConcurrencyBound
<1>6. DependencyOrder'
  BY <1>1, <1>2, <1>3 DEF IInv, DependencyOrder, depsCompleted, TypeOK
<1>7. TeardownProgress'
  <2>1. CASE CancelNext
    BY <2>1, <1>2 DEF CancelNext, TeardownProgress
  <2>2. CASE TeardownNext
    <3>1. \A t \in Task : t < cursor + 1 => t < cursor \/ t = cursor
      BY <1>1 DEF Task
    <3>2. status'[cursor] \in Outcomes
      BY <2>2, <1>1 DEF TeardownNext, cancelBlocked, TypeOK
    <3>3. QED
      BY <2>2, <1>1, <1>2, <1>3, <3>1, <3>2
         DEF TeardownNext, IInv, TeardownProgress, TypeOK
  <2>3. QED BY <2>1, <2>2
<1>8. QED BY <1>4, <1>5, <1>6, <1>7 DEF IInv

(* start(task): the one step that puts an agent and a slot to use.          *)
LEMMA LaunchKeepsIInv == TypeOK /\ IInv /\ Launch => IInv'
<1> SUFFICES ASSUME TypeOK, IInv, Launch PROVE IInv'
  OBVIOUS
<1> DEFINE t == cursor
<1>1. t \in Task
  BY DEF Launch, TypeOK, Task
<1>2. /\ UNCHANGED <<deps, agentOf>>
      /\ pc = "launch" /\ pc' = "launch"
      /\ status[t] = "pending" /\ depsCompleted(t)
      /\ Cardinality(running) < Concurrency /\ agentOf[t] \notin busy
      /\ status' = [status EXCEPT ![t] = "running"]
      /\ running' = running \cup {t} /\ busy' = busy \cup {agentOf[t]}
      /\ inflight' = inflight \cup {t} /\ launched' = launched \cup {t}
  BY DEF Launch, launchable, start, graph
<1>3. inflight = running
  BY <1>2 DEF IInv, SetsAgree
<1> HIDE DEF t
<1>4. SetsAgree'
  BY <1>1, <1>2, <1>3 DEF IInv, SetsAgree, TypeOK
<1>5. AgentExclusive'
  BY <1>1, <1>2, <1>3 DEF IInv, SetsAgree, AgentExclusive
<1>6. ConcurrencyBound'
  <2>1. /\ Cardinality(inflight) \in Nat
        /\ Cardinality(inflight \cup {t}) \in Nat
        /\ Cardinality(inflight \cup {t}) <= Cardinality(inflight) + 1
    BY InflightCardinality
  <2>2. QED BY <2>1, <1>2, <1>3 DEF ConcurrencyBound
<1>7. DependencyOrder'
  BY <1>1, <1>2 DEF IInv, DependencyOrder, depsCompleted, TypeOK
<1>8. TeardownProgress'
  BY <1>2 DEF TeardownProgress
<1>9. QED BY <1>4, <1>5, <1>6, <1>7, <1>8 DEF IInv

(* A runner settles: its slot is given back, and its outcome is kept only   *)
(* if the task is still running (scheduler.ts:105-121).                     *)
LEMMA SettleKeepsIInv ==
    ASSUME TypeOK, IInv, NEW t \in Task, NEW o \in Outcomes, Settle(t, o)
    PROVE  IInv'
<1>1. /\ UNCHANGED <<deps, agentOf, pc, cursor, launched>>
      /\ pc \in Phases /\ pc \notin SyncPhases
      /\ t \in inflight /\ inflight' = inflight \ {t}
      /\ running' = running \ {t} /\ busy' = busy \ {agentOf[t]}
      /\ status' = IF status[t] = "running"
                      THEN [status EXCEPT ![t] = o] ELSE status
  BY DEF Settle, settle, graph, TypeOK
<1>2. pc # "teardown"
  BY <1>1 DEF SyncPhases
(* A late result finds the run torn down and its sets empty.               *)
<1>3. t \in running \/ (running = {} /\ busy = {})
  <2>1. CASE pc = "resolved"
    <3>1. \A u \in Task : status[u] # "running"
      BY <2>1 DEF IInv, TeardownProgress, isComplete, isTerminal, Outcomes
    <3>2. QED BY <3>1 DEF IInv, SetsAgree
  <2>2. CASE pc # "resolved"
    BY <2>2, <1>1, <1>2 DEF IInv, SetsAgree
  <2>3. QED BY <2>1, <2>2
<1>4. SetsAgree'
  <2>1. running' = {u \in Task : status'[u] = "running"}
    BY <1>1 DEF IInv, SetsAgree, TypeOK, Outcomes
  <2>2. busy' = {agentOf'[u] : u \in running'}
    BY <1>1, <1>3 DEF IInv, SetsAgree, AgentExclusive
  <2>3. \A u \in launched' : status'[u] # "pending"
    BY <1>1 DEF IInv, SetsAgree, TypeOK, Outcomes
  <2>4. running' \subseteq inflight' /\ inflight' \subseteq launched'
    BY <1>1 DEF IInv, SetsAgree
  <2>5. pc' \notin {"teardown", "resolved"} => inflight' = running'
    BY <1>1 DEF IInv, SetsAgree
  <2>6. QED BY <2>1, <2>2, <2>3, <2>4, <2>5 DEF SetsAgree
<1>5. AgentExclusive'
  BY <1>1 DEF IInv, AgentExclusive
<1>6. ConcurrencyBound'
  <2>1. /\ Cardinality(inflight) \in Nat
        /\ Cardinality(inflight \ {t}) \in Nat
        /\ Cardinality(inflight \ {t}) <= Cardinality(inflight)
    BY InflightCardinality
  <2>2. QED BY <2>1, <1>1 DEF IInv, ConcurrencyBound
<1>7. DependencyOrder'
  BY <1>1 DEF IInv, DependencyOrder, depsCompleted, TypeOK
<1>8. TeardownProgress'
  BY <1>1, <1>2 DEF IInv, TeardownProgress, isComplete, isTerminal, TypeOK,
                    Outcomes
<1>9. QED BY <1>4, <1>5, <1>6, <1>7, <1>8 DEF IInv

(* The inductive invariant holds in every reachable state of a run, for    *)
(* every graph, agent assignment and maxParallel (scheduler.ts:84-231).    *)
THEOREM Invariance == Spec => []IInv
<1>1. Init => IInv
  <2> SUFFICES ASSUME Init PROVE IInv
    OBVIOUS
  <2>1. SetsAgree /\ AgentExclusive /\ DependencyOrder /\ TeardownProgress
    BY DEF Init, SetsAgree, AgentExclusive, DependencyOrder, TeardownProgress
  <2>2. ConcurrencyBound
    BY FS_EmptySet DEF Init, ConcurrencyBound
  <2>3. QED BY <2>1, <2>2 DEF IInv
<1>2. TypeOK /\ IInv /\ [Next]_vars => IInv'
  BY ControlKeepsIInv, CancelKeepsIInv, LaunchKeepsIInv, SettleKeepsIInv
     DEF Next, Loop, Settles, Control
<1>3. QED BY <1>1, <1>2, TypeCorrect, PTL DEF Spec

-----------------------------------------------------------------------------
(* A task is executed only after everything it depends on completed         *)
(* (scheduler.ts:9), in every run of every graph.                           *)
THEOREM DependencyOrdered == Spec => []DependencyOrder
<1>1. IInv => DependencyOrder BY DEF IInv
<1>2. QED BY <1>1, Invariance, PTL

(* One run never has two promises of one agent in flight                    *)
(* (scheduler.ts:14-18).                                                    *)
THEOREM AgentsExclusive == Spec => []AgentExclusive
<1>1. IInv => AgentExclusive BY DEF IInv
<1>2. QED BY <1>1, Invariance, PTL

(* No more than `concurrency' promises are in flight (scheduler.ts:12).     *)
THEOREM ConcurrencyBounded == Spec => []ConcurrencyBound
<1>1. IInv => ConcurrencyBound BY DEF IInv
<1>2. QED BY <1>1, Invariance, PTL

(* A task's result is never replaced: late results are dropped              *)
(* (scheduler.ts:22-24, :105-112).                                          *)
THEOREM OutcomesAreFinal == Spec => OutcomesFinal
<1>1. TypeOK /\ [Next]_vars =>
        [\A t \in Task : isTerminal(t) => status'[t] = status[t]]_vars
  <2> SUFFICES ASSUME TypeOK, Next, NEW t \in Task, isTerminal(t)
               PROVE  status'[t] = status[t]
    OBVIOUS
  <2> USE DEF isTerminal, Outcomes
  <2>1. CASE Control
    BY <2>1 DEF Control, Run, CancelDone, SkipLaunch, LaunchDone,
         CheckComplete, CheckStopped, CheckStalled, CheckWait, Resume,
         TeardownDone, Abort, Over, vars
  <2>2. CASE CancelNext \/ TeardownNext
    BY <2>2 DEF CancelNext, TeardownNext, cancelBlocked, TypeOK, Task
  <2>3. CASE Launch
    BY <2>3 DEF Launch, launchable, start, TypeOK
  <2>4. CASE Settles
    BY <2>4 DEF Settles, Settle, settle, TypeOK
  <2>5. QED
    BY <2>1, <2>2, <2>3, <2>4 DEF Next, Loop, Control
<1>2. QED BY <1>1, TypeCorrect, PTL DEF Spec, OutcomesFinal

-----------------------------------------------------------------------------
(* Why a graph declared dependencies first never stalls: one pass in        *)
(* insertion order then cascades to the end, and a launch pass that leaves  *)
(* nothing running has found every task it went past terminal.              *)
CascadeInv ==
    /\ pc = "cancel" => \A t \in Task :
          t < cursor /\ status[t] = "pending" => ~blocked(t)
    /\ pc \in {"launch", "check"} => \A t \in Task :
          status[t] = "pending" => ~blocked(t)
    /\ pc = "launch" /\ running = {} => \A t \in Task :
          t < cursor => isTerminal(t)
    /\ pc = "check" /\ running = {} /\ ~stopped => isComplete
    /\ pc # "stalled"

(* Each step keeps CascadeInv when the graph declares dependencies first.   *)
LEMMA CascadeStep ==
    ASSUME DeclaredInOrder(deps), TypeOK, IInv, CascadeInv, [Next]_vars
    PROVE  CascadeInv'
<1>o. \A t \in Task : \A d \in deps[t] : d \in Task /\ d < t
  BY DEF TypeOK, DeclaredInOrder
<1>n. cursor \in Nat /\ \A t \in Task : t \in Nat
  BY DEF TypeOK, Task
<1> USE DEF CascadeInv
<1>1. CASE CancelNext
  <2>1. /\ pc = "cancel" /\ pc' = "cancel" /\ cursor' = cursor + 1
        /\ UNCHANGED deps /\ cursor \in Task
        /\ \A t \in Task : t # cursor => status'[t] = status[t]
        /\ status'[cursor] = IF status[cursor] = "pending" /\ blocked(cursor)
                               THEN "cancelled" ELSE status[cursor]
    BY <1>1 DEF CancelNext, cancelBlocked, graph, TypeOK, Task
  <2>2. ASSUME NEW t \in Task, t < cursor + 1, status'[t] = "pending"
        PROVE  ~blocked(t)'
    <3>1. ASSUME NEW d \in deps[t] PROVE d # cursor
      <4>1. d \in Task /\ d < t
        BY <1>o
      <4>2. d \in Nat /\ t \in Nat /\ cursor \in Nat
        BY <4>1, <1>n
      <4>3. QED BY <4>1, <4>2, <2>2
    <3>2. ~blocked(t)
      <4>1. CASE t = cursor
        BY <4>1, <2>1, <2>2
      <4>2. CASE t # cursor
        <5>1. t < cursor
          BY <4>2, <2>2, <1>n
        <5>2. status[t] = "pending"
          BY <4>2, <2>1, <2>2
        <5>3. QED BY <5>1, <5>2, <2>1
      <4>3. QED BY <4>1, <4>2
    <3>3. QED BY <3>1, <3>2, <2>1, <1>o DEF blocked
  <2>3. QED BY <2>1, <2>2
<1>2. CASE SkipLaunch
  <2>1. /\ pc = "launch" /\ pc' = "launch" /\ cursor' = cursor + 1
        /\ UNCHANGED <<deps, status, running>> /\ cursor \in Task
        /\ ~launchable(cursor)
    BY <1>2 DEF SkipLaunch, graph, TypeOK, Task
  <2>2. ASSUME running = {} PROVE isTerminal(cursor)
    <3>1. busy = {} /\ Cardinality(running) = 0 /\ status[cursor] # "running"
      BY <2>1, <2>2, FS_EmptySet DEF IInv, SetsAgree
    <3>2. ASSUME status[cursor] = "pending" PROVE depsCompleted(cursor)
      <4>1. ~blocked(cursor)
        BY <2>1, <3>2
      <4>2. \A d \in deps[cursor] : isTerminal(d)
        BY <2>1, <2>2, <1>o
      <4>3. QED BY <4>1, <4>2 DEF blocked, isTerminal, depsCompleted, Outcomes
    <3>3. status[cursor] # "pending"
      BY <3>1, <3>2, <2>1 DEF launchable
    <3>4. QED BY <3>1, <3>3, <2>1 DEF isTerminal, TypeOK, Status
  <2>3. \A t \in Task : t < cursor + 1 => t < cursor \/ t = cursor
    BY <1>n
  <2>4. QED BY <2>1, <2>2, <2>3 DEF blocked, isTerminal
<1>3. CASE Launch
  <2>1. /\ pc = "launch" /\ pc' = "launch" /\ cursor \in Task
        /\ UNCHANGED deps /\ running' # {}
        /\ status[cursor] = "pending"
        /\ status' = [status EXCEPT ![cursor] = "running"]
    BY <1>3 DEF Launch, launchable, start, graph, TypeOK, Task
  <2>2. \A t \in Task : ~blocked(t) => ~blocked(t)'
    BY <2>1, <1>o DEF blocked, TypeOK
  <2>3. QED BY <2>1, <2>2 DEF TypeOK
<1>4. CASE CancelDone
  BY <1>4, <1>n DEF CancelDone, blocked, TypeOK, Task, graph
<1>5. CASE LaunchDone
  BY <1>5, <1>n DEF LaunchDone, blocked, isComplete, isTerminal, TypeOK, Task, graph
<1>6. CASE CheckStalled
  BY <1>6 DEF CheckStalled
<1>7. CASE Run \/ CheckComplete \/ CheckStopped \/ CheckWait \/ Resume
           \/ TeardownNext \/ TeardownDone \/ Abort \/ Settles
  <2>1. /\ pc' \notin {"launch", "check", "stalled"}
        /\ pc' = "cancel" => cursor' = 1
    BY <1>7 DEF Run, CheckComplete, CheckStopped, CheckWait, Resume,
                TeardownNext, TeardownDone, Abort, Settles, Settle, SyncPhases
  <2>2. \A t \in Task : ~(t < 1)
    BY DEF Task
  <2>3. QED BY <2>1, <2>2
<1>8. CASE UNCHANGED vars
  BY <1>8 DEF vars, blocked, isTerminal, isComplete
<1>9. QED
  BY <1>1, <1>2, <1>3, <1>4, <1>5, <1>6, <1>7, <1>8 DEF Next, Loop, Over

(* A graph whose tasks are declared after their dependencies never makes    *)
(* run() throw "scheduler stalled" (scheduler.ts:192-195), whatever fails   *)
(* or is cancelled and in whichever order the runners settle.               *)
THEOREM StallNeedsDisorder == Spec => []OrderedNeverStalls
<1> DEFINE Inv == DeclaredInOrder(deps) => CascadeInv
<1>1. Init => Inv
  BY DEF Init, CascadeInv
<1>2. [Next]_vars => UNCHANGED deps
  BY DEF Next, Loop, Settles, Settle, Run, CancelNext, CancelDone, Launch,
         SkipLaunch, LaunchDone, CheckComplete, CheckStopped, CheckStalled,
         CheckWait, Resume, TeardownNext, TeardownDone, Abort, Over, graph, vars
<1>3. TypeOK /\ IInv /\ Inv /\ [Next]_vars => Inv'
  <2> SUFFICES ASSUME TypeOK, IInv, Inv, [Next]_vars, DeclaredInOrder(deps)'
               PROVE  CascadeInv'
    OBVIOUS
  <2>1. DeclaredInOrder(deps)
    BY <1>2 DEF DeclaredInOrder
  <2>2. QED BY <2>1, CascadeStep
<1>4. Inv => OrderedNeverStalls
  BY DEF CascadeInv, OrderedNeverStalls, NoStall
<1>5. QED BY <1>1, <1>3, <1>4, TypeCorrect, Invariance, PTL DEF Spec

-----------------------------------------------------------------------------
(* `order' holds the terminal tasks, each once.                             *)
Finished == {t \in Task : isTerminal(t)}

OrderInv ==
    /\ Len(order) = Cardinality(Finished)
    /\ \A t \in Task : isTerminal(t) <=> \E i \in 1 .. Len(order) : order[i] = t
    /\ CompletionOrder

LEMMA FinishedCardinality ==
    ASSUME NEW t \in Task, t \notin Finished
    PROVE  /\ Cardinality(Finished) \in Nat
           /\ Cardinality(Finished \cup {t}) = Cardinality(Finished) + 1
<1>1. IsFiniteSet(Task) BY FS_Interval DEF Task
<1>2. IsFiniteSet(Finished) BY <1>1, FS_Subset DEF Finished
<1>3. QED BY <1>2, FS_AddElement, FS_CardinalityType

(* A task that ends is appended; the statuses of the others do not change.  *)
EndTask(t) ==
    /\ ~isTerminal(t) /\ isTerminal(t)'
    /\ \A u \in Task \ {t} : status'[u] = status[u]
    /\ order' = Append(order, t)
    /\ status'[t] = "completed" => depsCompleted(t)

(* Ending one task and appending it to `order' keeps the record complete,  *)
(* free of repetition and in dependency order.                              *)
LEMMA EndTaskKeepsOrderInv ==
    ASSUME TypeOK, TypeOK', OrderInv, UNCHANGED graph, NEW t \in Task, EndTask(t)
    PROVE  OrderInv'
<1>1. Finished' = Finished \cup {t} /\ t \notin Finished
  BY DEF Finished, EndTask, isTerminal
<1>2. /\ order \in Seq(Task) /\ order' = Append(order, t)
      /\ Len(order') = Len(order) + 1 /\ Len(order) \in Nat
      /\ order'[Len(order) + 1] = t
      /\ \A i \in 1 .. Len(order) : order'[i] = order[i] /\ order[i] \in Task
      /\ DOMAIN order' = 1 .. Len(order) + 1 /\ DOMAIN order = 1 .. Len(order)
  BY DEF TypeOK, EndTask
<1>3. Len(order') = Cardinality(Finished')
  BY <1>1, <1>2, FinishedCardinality DEF OrderInv
<1>4. \A u \in Task : isTerminal(u)' <=> \E i \in 1 .. Len(order') : order'[i] = u
  <2> TAKE u \in Task
  <2>1. CASE u = t
    BY <2>1, <1>2 DEF EndTask
  <2>2. CASE u # t
    <3>1. isTerminal(u)' <=> isTerminal(u)
      BY <2>2 DEF EndTask, isTerminal
    <3>2. \A i : i \in 1 .. Len(order) + 1 <=>
                    i \in 1 .. Len(order) \/ i = Len(order) + 1
      BY <1>2
    <3>3. (\E i \in 1 .. Len(order) : order[i] = u) <=>
             \E i \in 1 .. Len(order) + 1 : order'[i] = u
      BY <2>2, <1>2, <3>2
    <3>4. QED BY <3>1, <3>3, <1>2 DEF OrderInv
  <2>3. QED BY <2>1, <2>2
<1>5. CompletionOrder'
  <2>1. SUFFICES ASSUME NEW i \in 1 .. Len(order) + 1,
                        status'[order'[i]] = "completed",
                        NEW d \in deps[order'[i]]
                 PROVE  \E j \in 1 .. i - 1 : order'[j] = d
    BY <1>2 DEF CompletionOrder, graph
  <2>2. CASE i = Len(order) + 1
    <3>1. d \in Task /\ status[d] = "completed"
      BY <2>1, <2>2, <1>2, GraphsAssumption DEF EndTask, depsCompleted, TypeOK
    <3>2. PICK j \in 1 .. Len(order) : order[j] = d
      BY <3>1 DEF OrderInv, isTerminal, Outcomes
    <3>3. QED BY <3>2, <2>2, <1>2
  <2>3. CASE i \in 1 .. Len(order)
    <3>1. order'[i] = order[i] /\ order[i] # t
      BY <2>3, <1>2 DEF OrderInv, EndTask
    <3>2. status[order[i]] = "completed"
      BY <3>1, <2>1, <2>3, <1>2 DEF EndTask
    <3>3. PICK j \in 1 .. i - 1 : order[j] = d
      BY <3>1, <3>2, <2>1, <2>3, <1>2 DEF OrderInv, CompletionOrder
    <3>4. QED BY <3>3, <2>3, <1>2
  <2>4. QED BY <2>2, <2>3, <1>2
<1>6. QED BY <1>3, <1>4, <1>5 DEF OrderInv

(* Each step either ends one task or leaves the record alone.               *)
LEMMA OrderStep ==
    ASSUME TypeOK, TypeOK', IInv, OrderInv, [Next]_vars
    PROVE  OrderInv'
<1>1. graph' = graph
  BY DEF Next, Loop, Settles, Run, CancelNext, CancelDone, Launch, SkipLaunch,
         LaunchDone, CheckComplete, CheckStopped, CheckStalled, CheckWait,
         Resume, TeardownNext, TeardownDone, Settle, Abort, Over, vars, graph
<1>2. CASE /\ order' = order
           /\ \A t \in Task :
                 /\ status'[t] \in Outcomes <=> status[t] \in Outcomes
                 /\ status[t] \in Outcomes => status'[t] = status[t]
  <2>1. Finished' = Finished
    BY <1>2 DEF Finished, isTerminal
  <2>2. \A i \in DOMAIN order : order[i] \in Task
    BY DEF TypeOK
  <2>3. CompletionOrder'
    BY <1>1, <1>2, <2>2 DEF OrderInv, CompletionOrder, graph, isTerminal, Outcomes
  <2>4. QED BY <1>2, <2>1, <2>3 DEF OrderInv, isTerminal
<1>3. ASSUME NEW t \in Task, EndTask(t) PROVE OrderInv'
  BY <1>1, <1>3, EndTaskKeepsOrderInv
<1>4. CASE CancelNext \/ TeardownNext
  <2>1. cursor \in Task
    BY <1>4 DEF CancelNext, TeardownNext, TypeOK, Task
  <2>2. CASE UNCHANGED <<order, status>>
    BY <2>2, <1>2 DEF isTerminal
  <2>3. CASE cancelBlocked(cursor) /\ status[cursor] \notin Outcomes
    <3>1. PICK t \in Task : t = cursor
      BY <2>1
    <3>2. /\ status' = [status EXCEPT ![t] = "cancelled"]
          /\ order' = Append(order, t)
          /\ status[t] \notin Outcomes
      BY <2>3, <3>1 DEF cancelBlocked
    <3>3. EndTask(t)
      BY <3>2 DEF EndTask, isTerminal, Outcomes, TypeOK
    <3>4. QED BY <3>3, <1>3
  <2>4. QED
    BY <1>4, <2>2, <2>3 DEF CancelNext, TeardownNext, isTerminal, Outcomes
<1>5. CASE Launch
  BY <1>5, <1>2 DEF Launch, launchable, start, isTerminal, Outcomes, TypeOK
<1>6. CASE Settles
  <2>1. PICK t \in Task, o \in Outcomes : Settle(t, o)
    BY <1>6 DEF Settles
  <2>2. depsCompleted(t)
    BY <2>1 DEF Settle, IInv, SetsAgree, DependencyOrder, depsCompleted
  <2>3. EndTask(t) \/ UNCHANGED <<order, status>>
    BY <2>1, <2>2 DEF Settle, settle, EndTask, isTerminal, Outcomes, TypeOK
  <2>4. QED BY <2>3, <1>2, <1>3 DEF isTerminal
<1>7. CASE Control
  <2>1. UNCHANGED <<order, status>>
    BY <1>7 DEF Control, Run, CancelDone, SkipLaunch, LaunchDone,
         CheckComplete, CheckStopped, CheckStalled, CheckWait, Resume,
         TeardownDone, Abort, Over, vars
  <2>2. QED BY <2>1, <1>2 DEF isTerminal
<1>8. QED
  BY <1>4, <1>5, <1>6, <1>7 DEF Next, Loop, Control

(* The order in which tasks end, with the states they ended in, is always  *)
(* a faithful record of the run (scheduler.ts:124-140 and 158-168).        *)
THEOREM OrderInvariance == Spec => []OrderInv
<1>1. Init => OrderInv
  <2> SUFFICES ASSUME Init PROVE OrderInv
    OBVIOUS
  <2>1. order = <<>> /\ \A t \in Task : ~isTerminal(t)
    BY DEF Init, isTerminal, Outcomes
  <2>2. Cardinality(Finished) = 0
    BY <2>1, FS_EmptySet DEF Finished
  <2>3. QED BY <2>1, <2>2 DEF OrderInv, CompletionOrder
<1>2. TypeOK /\ TypeOK' /\ IInv /\ OrderInv /\ [Next]_vars => OrderInv'
  BY OrderStep
<1>3. QED BY <1>1, <1>2, TypeCorrect, Invariance, PTL DEF Spec

(* When run() resolves, every task is terminal and is reported exactly once *)
(* (scheduler.ts:19-21, :25-26).                                            *)
THEOREM ReportsComplete == Spec => []ReportComplete
<1>1. IInv /\ OrderInv => ReportComplete
  <2> SUFFICES ASSUME IInv, OrderInv, pc = "resolved"
               PROVE  /\ isComplete
                      /\ Len(order) = N
                      /\ \A t \in Task : \E i \in DOMAIN order : order[i] = t
    BY DEF ReportComplete
  <2>1. isComplete
    BY DEF IInv, TeardownProgress
  <2>2. Finished = 1 .. N
    BY <2>1 DEF Finished, isComplete, Task
  <2>3. Len(order) = N
    BY <2>2, FS_Interval DEF OrderInv
  <2>4. QED BY <2>1, <2>3 DEF OrderInv, isComplete
<1>2. QED BY <1>1, Invariance, OrderInvariance, PTL

(* `order' lists a completed task after everything it depends on, however   *)
(* the graph declares them (scheduler.ts:21).                               *)
THEOREM CompletionOrdered == Spec => []CompletionOrder
<1>1. OrderInv => CompletionOrder BY DEF OrderInv
<1>2. QED BY <1>1, OrderInvariance, PTL

(* The report of a run is complete and in order (scheduler.ts:19-26).       *)
THEOREM ReportsRight == Spec => []ReportRight
<1>1. ReportComplete /\ CompletionOrder => ReportRight BY DEF ReportRight
<1>2. QED BY <1>1, ReportsComplete, CompletionOrdered, PTL

-----------------------------------------------------------------------------
(* A launch pass that leaves nothing running has met no task it could       *)
(* start: what is still pending waits for a dependency.  A run that noticed *)
(* the abort goes straight to its teardown.                                 *)
LaunchInv ==
    /\ stopped => pc \in {"check", "teardown", "resolved"}
    /\ pc = "teardown" => stopped
    /\ pc = "stalled" => running = {}
    /\ pc = "launch" /\ running = {} => \A t \in Task :
          t < cursor /\ status[t] = "pending" => ~depsCompleted(t)
    /\ pc = "check" /\ running = {} /\ ~stopped => \A t \in Task :
          status[t] = "pending" => ~depsCompleted(t)

(* Each step keeps LaunchInv.                                               *)
LEMMA LaunchStep ==
    ASSUME TypeOK, IInv, LaunchInv, [Next]_vars
    PROVE  LaunchInv'
<1>n. cursor \in Nat /\ \A t \in Task : t \in Nat
  BY DEF TypeOK, Task
<1> USE DEF LaunchInv, depsCompleted
<1>1. CASE SkipLaunch
  <2>1. /\ pc' = "launch" /\ cursor' = cursor + 1 /\ pc = "launch"
        /\ UNCHANGED <<deps, status, running, stopped>> /\ ~launchable(cursor)
    BY <1>1 DEF SkipLaunch, graph
  <2>2. ASSUME running = {}, status[cursor] = "pending"
        PROVE  ~depsCompleted(cursor)
    <3>1. busy = {} /\ Cardinality(running) = 0
      BY <2>2, FS_EmptySet DEF IInv, SetsAgree
    <3>2. QED BY <3>1, <2>1, <2>2 DEF launchable
  <2>3. \A t \in Task : t < cursor + 1 => t < cursor \/ t = cursor
    BY <1>n
  <2>4. QED BY <2>1, <2>2, <2>3
<1>2. CASE Launch
  BY <1>2 DEF Launch, start
<1>3. CASE LaunchDone
  BY <1>3, <1>n DEF LaunchDone, graph, TypeOK, Task
<1>4. CASE CancelDone
  <2>1. /\ pc' = "launch" => cursor' = 1 /\ ~stopped'
        /\ pc' = "check" => stopped'
    BY <1>4 DEF CancelDone
  <2>2. \A t \in Task : ~(t < 1)
    BY DEF Task
  <2>3. pc' \in {"launch", "check"}
    BY <1>4 DEF CancelDone
  <2>4. QED BY <2>1, <2>2, <2>3
<1>5. CASE Run \/ CancelNext \/ CheckComplete \/ CheckStopped \/ CheckStalled
           \/ CheckWait \/ Resume \/ TeardownNext \/ TeardownDone \/ Abort
           \/ Settles
  <2>1. pc' \notin {"launch", "check"}
    BY <1>5 DEF Run, CancelNext, CheckComplete, CheckStopped, CheckStalled,
                CheckWait, Resume, TeardownNext, TeardownDone, Abort, Settles,
                Settle, SyncPhases
  <2>2. /\ stopped' => pc' \in {"teardown", "resolved"}
        /\ pc' = "teardown" => stopped'
        /\ pc' = "stalled" => running' = {}
    BY <1>5 DEF Run, CancelNext, CheckComplete, CheckStopped, CheckStalled,
                CheckWait, Resume, TeardownNext, TeardownDone, Abort, Settles,
                Settle, settle, SyncPhases
  <2>3. QED BY <2>1, <2>2
<1>6. CASE UNCHANGED vars
  BY <1>6 DEF vars
<1>7. QED
  BY <1>1, <1>2, <1>3, <1>4, <1>5, <1>6 DEF Next, Loop, Over

(* While run() is in its synchronous launch and check steps nobody can     *)
(* have asked it to stop, and teardown is entered only when stopped        *)
(* (scheduler.ts:170-225).                                                 *)
THEOREM LaunchInvariance == Spec => []LaunchInv
<1>1. Init => LaunchInv
  BY DEF Init, LaunchInv
<1>2. TypeOK /\ IInv /\ LaunchInv /\ [Next]_vars => LaunchInv'
  BY LaunchStep
<1>3. QED BY <1>1, <1>2, TypeCorrect, Invariance, PTL DEF Spec

-----------------------------------------------------------------------------
(* A task the launch pass went past cannot be started, and cannot be        *)
(* started either when the loop goes to sleep after it: what could change   *)
(* this wakes the loop.                                                     *)
NothingLaunchable == \A t \in Task : ~launchable(t)

SleepInv ==
    /\ pc = "launch" => \A t \in Task : t < cursor => ~launchable(t)
    /\ pc = "check" /\ ~stopped => NothingLaunchable
    /\ pc = "wait" /\ ~woken => NothingLaunchable

(* Each step keeps SleepInv.                                                *)
LEMMA SleepStep ==
    ASSUME TypeOK, IInv, LaunchInv, SleepInv, [Next]_vars
    PROVE  SleepInv'
<1>n. cursor \in Nat /\ \A t \in Task : t \in Nat
  BY DEF TypeOK, Task
<1>1. CASE SkipLaunch
  <2>1. /\ pc' = "launch" /\ cursor' = cursor + 1 /\ pc = "launch"
        /\ UNCHANGED <<deps, agentOf, status, running, busy>> /\ ~launchable(cursor)
    BY <1>1 DEF SkipLaunch, graph
  <2>2. \A t \in Task : t < cursor + 1 => t < cursor \/ t = cursor
    BY <1>n
  <2>3. \A t \in Task : t < cursor' => ~launchable(t)
    BY <2>1, <2>2 DEF SleepInv
  <2>4. \A t \in Task : launchable(t)' <=> launchable(t)
    BY <2>1 DEF launchable, depsCompleted
  <2>5. QED BY <2>1, <2>3, <2>4 DEF SleepInv
<1>2. CASE Launch
  <2>1. /\ pc' = "launch" /\ cursor' = cursor + 1 /\ pc = "launch"
        /\ UNCHANGED <<deps, agentOf>> /\ launchable(cursor) /\ cursor \in Task
        /\ status' = [status EXCEPT ![cursor] = "running"]
        /\ running' = running \cup {cursor} /\ busy' = busy \cup {agentOf[cursor]}
    BY <1>2 DEF Launch, start, graph, TypeOK, Task
  <2>2. ASSUME NEW t \in Task, t < cursor + 1, launchable(t)'
        PROVE  FALSE
    <3>1. status[t] = "pending" /\ t # cursor
      BY <2>1, <2>2 DEF launchable, TypeOK
    <3>2. t < cursor
      BY <1>n, <2>2, <3>1
    <3>3. depsCompleted(t)
      BY <2>1, <2>2 DEF launchable, depsCompleted, TypeOK
    <3>4. agentOf[t] \notin busy /\ Cardinality(running) < Concurrency
      BY <2>1, <2>2 DEF launchable
    <3>5. QED BY <2>1, <3>1, <3>2, <3>3, <3>4 DEF SleepInv, launchable
  <2>3. QED BY <2>1, <2>2 DEF SleepInv
<1>3. CASE LaunchDone
  <2>1. /\ pc = "launch" /\ pc' = "check" /\ \A t \in Task : t < cursor
        /\ UNCHANGED <<deps, agentOf, status, running, busy>>
    BY <1>3, <1>n DEF LaunchDone, graph, TypeOK, Task
  <2>2. \A t \in Task : launchable(t)' <=> launchable(t)
    BY <2>1 DEF launchable, depsCompleted
  <2>3. QED BY <2>1, <2>2 DEF SleepInv, NothingLaunchable
<1>4. CASE CancelDone
  <2>1. /\ pc' = "launch" => cursor' = 1
        /\ pc' = "check" => stopped'
        /\ pc' \in {"launch", "check"}
    BY <1>4 DEF CancelDone
  <2>2. \A t \in Task : ~(t < 1)
    BY DEF Task
  <2>3. QED BY <2>1, <2>2 DEF SleepInv
<1>5. CASE CheckWait
  <2>1. /\ pc = "check" /\ ~stopped /\ pc' = "wait"
        /\ UNCHANGED <<deps, agentOf, status, running, busy>>
    BY <1>5 DEF CheckWait, graph
  <2>2. \A t \in Task : launchable(t)' <=> launchable(t)
    BY <2>1 DEF launchable, depsCompleted
  <2>3. QED BY <2>1, <2>2 DEF SleepInv, NothingLaunchable
<1>6. CASE Run \/ CancelNext \/ CheckComplete \/ CheckStopped \/ CheckStalled
           \/ Resume \/ TeardownNext \/ TeardownDone
  <2>1. pc' \notin {"launch", "check", "wait"}
    BY <1>6 DEF Run, CancelNext, CheckComplete, CheckStopped, CheckStalled,
                Resume, TeardownNext, TeardownDone
  <2>2. QED BY <2>1 DEF SleepInv
<1>7. CASE Abort \/ Settles
  <2>1. pc' \notin {"launch", "check"} /\ (pc' = "wait" => woken')
    BY <1>7 DEF Abort, Settles, Settle, wake, SyncPhases
  <2>2. QED BY <2>1 DEF SleepInv
<1>8. CASE UNCHANGED vars
  <2>1. \A t \in Task : launchable(t)' <=> launchable(t)
    BY <1>8 DEF launchable, depsCompleted, vars
  <2>2. QED BY <1>8, <2>1 DEF SleepInv, NothingLaunchable, vars
<1>9. QED
  BY <1>1, <1>2, <1>3, <1>4, <1>5, <1>6, <1>7, <1>8 DEF Next, Loop, Over

(* The loop never sleeps while it could start a task: every task whose      *)
(* dependencies completed waits for a slot or for its agent                 *)
(* (scheduler.ts:27-28, :180-190, :210-221).                                *)
THEOREM NoLaunchMissed == Spec => []NoMissedLaunch
<1>1. Init => SleepInv
  BY DEF Init, SleepInv
<1>2. TypeOK /\ IInv /\ LaunchInv /\ SleepInv /\ [Next]_vars => SleepInv'
  BY SleepStep
<1>3. TypeOK /\ IInv /\ SleepInv => NoMissedLaunch
  <2> SUFFICES ASSUME TypeOK, IInv, SleepInv, pc = "wait" /\ ~woken,
                      NEW t \in Task, status[t] = "pending",
                      \A d \in deps[t] : status[d] = "completed"
               PROVE  \/ Cardinality(inflight) = Concurrency
                      \/ \E u \in inflight : agentOf[u] = agentOf[t]
    BY DEF NoMissedLaunch
  <2>1. ~launchable(t) /\ inflight = running
    BY DEF SleepInv, NothingLaunchable, IInv, SetsAgree
  <2>2. CASE agentOf[t] \in busy
    BY <2>1, <2>2 DEF IInv, SetsAgree
  <2>3. CASE ~(Cardinality(running) < Concurrency)
    <3>1. Cardinality(inflight) \in Nat
      BY InflightCardinality
    <3>2. Cardinality(inflight) <= Concurrency
      BY DEF IInv, ConcurrencyBound
    <3>3. QED BY <2>1, <2>3, <3>1, <3>2
  <2>4. QED BY <2>1, <2>2, <2>3 DEF launchable, depsCompleted
<1>4. QED
  BY <1>1, <1>2, <1>3, TypeCorrect, Invariance, LaunchInvariance, PTL DEF Spec

-----------------------------------------------------------------------------
(* Each step of run() is a step of TaskRun or leaves its state alone.       *)
LEMMA StepRefines ==
    ASSUME TypeOK, IInv, LaunchInv, [Next]_vars
    PROVE  [Contract!Next]_(Contract!vars)
<1> USE DEF phase, Contract!vars, Contract!Task, Contract!Outcomes,
            Contract!Terminal, isTerminal, isComplete, Outcomes
<1>r. Contract!Running = running
  BY DEF Contract!Running, IInv, SetsAgree, Task
<1>t. cursor \in Nat
  BY DEF TypeOK
<1>1. CASE CancelNext
  <2>1. /\ pc = "cancel" /\ pc' = "cancel" /\ stopped' = stopped
        /\ UNCHANGED <<deps, agentOf>> /\ cursor \in 1..N
    BY <1>1 DEF CancelNext, graph, TypeOK
  <2>2. PICK t \in 1..N : t = cursor
    BY <2>1
  <2>3. \/ UNCHANGED status
        \/ /\ status[t] = "pending" /\ blocked(t)
           /\ status' = [status EXCEPT ![t] = "cancelled"]
    BY <1>1, <2>2 DEF CancelNext, cancelBlocked
  <2>4. CASE UNCHANGED status
    BY <2>1, <2>4
  <2>5. CASE ~UNCHANGED status
    <3>1. ~stopped
      BY <2>1 DEF LaunchInv
    <3>2. Contract!Skip(t)
      BY <2>1, <2>3, <2>5, <3>1 DEF Contract!Skip, Contract!Become, blocked
    <3>3. QED BY <3>2 DEF Contract!Next
  <2>6. QED BY <2>4, <2>5
<1>2. CASE Launch
  <2>1. /\ pc = "launch" /\ pc' = "launch" /\ stopped' = stopped
        /\ UNCHANGED <<deps, agentOf>> /\ cursor \in 1..N
    BY <1>2 DEF Launch, graph, TypeOK
  <2>2. PICK t \in 1..N : t = cursor
    BY <2>1
  <2>3. /\ launchable(t) /\ status' = [status EXCEPT ![t] = "running"]
    BY <1>2, <2>2 DEF Launch, start
  <2>4. \A u \in running : agentOf[u] # agentOf[t]
    BY <2>3 DEF launchable, IInv, SetsAgree
  <2>5. ~stopped
    BY <2>1 DEF LaunchInv
  <2>6. /\ phase = "open" /\ phase' = "open" /\ status[t] = "pending"
        /\ Cardinality(Contract!Running) < Concurrency
        /\ \A d \in deps[t] : status[d] = "completed"
    BY <2>1, <2>3, <2>5, <1>r DEF launchable, depsCompleted
  <2>7. Contract!Become(t, "running")
    BY <2>1, <2>3, <2>6 DEF Contract!Become
  <2>8. \A u \in Contract!Running : agentOf[u] # agentOf[t]
    BY <2>4, <1>r
  <2>9. Contract!Cardinality(Contract!Running) = Cardinality(Contract!Running)
    BY Zenon DEF Contract!Cardinality, Cardinality
  <2> HIDE DEF phase
  <2>10. Contract!Begin(t)
    BY <2>6, <2>7, <2>8, <2>9 DEF Contract!Begin
  <2>11. QED BY <2>10 DEF Contract!Next
<1>3. CASE CancelDone
  <2>1. /\ UNCHANGED <<deps, agentOf, status>> /\ pc = "cancel"
        /\ pc' \in {"check", "launch"} /\ stopped' \in BOOLEAN
    BY <1>3 DEF CancelDone, graph, TypeOK
  <2>2. ~stopped
    BY <2>1 DEF LaunchInv
  <2>3. CASE stopped'
    BY <2>1, <2>2, <2>3 DEF Contract!Next, Contract!Stop, Contract!Move
  <2>4. CASE ~stopped'
    BY <2>1, <2>2, <2>4
  <2>5. QED BY <2>3, <2>4
<1>4. CASE CheckComplete
  <2>1. /\ UNCHANGED <<deps, agentOf, status, stopped>> /\ pc = "check"
        /\ pc' = IF stopped THEN "teardown" ELSE "resolved"
        /\ \A t \in 1..N : status[t] \in Outcomes
    BY <1>4 DEF CheckComplete, graph, Task
  <2>2. CASE stopped
    BY <2>1, <2>2
  <2>3. CASE ~stopped
    <3>1. Contract!Resolve
      BY <2>1, <2>3 DEF Contract!Resolve, Contract!Move
    <3>2. QED BY <3>1 DEF Contract!Next
  <2>4. QED BY <2>2, <2>3
<1>5. CASE CheckStopped
  <2>1. /\ UNCHANGED <<deps, agentOf, status>> /\ pc = "check"
        /\ pc' = "teardown" /\ stopped' = TRUE
    BY <1>5 DEF CheckStopped, graph
  <2>2. CASE stopped
    BY <2>1, <2>2
  <2>3. CASE ~stopped
    BY <2>1, <2>3 DEF Contract!Next, Contract!Stop, Contract!Move
  <2>4. QED BY <2>2, <2>3
<1>6. CASE CheckStalled
  <2>1. /\ UNCHANGED <<deps, agentOf, status, stopped>> /\ pc = "check"
        /\ pc' = "stalled" /\ running = {} /\ ~stopped
    BY <1>6 DEF CheckStalled, graph
  <2>2. \A t \in 1..N : status[t] = "pending" =>
           \E d \in deps[t] : status[d] # "completed"
    BY <2>1 DEF LaunchInv, depsCompleted, Task
  <2>3. Contract!Fail
    BY <2>1, <2>2, <1>r DEF Contract!Fail, Contract!Move
  <2>4. QED BY <2>3 DEF Contract!Next
<1>7. CASE TeardownNext
  <2>1. /\ pc = "teardown" /\ pc' = "teardown" /\ stopped' = stopped
        /\ UNCHANGED <<deps, agentOf>> /\ cursor \in 1..N /\ stopped
    BY <1>7 DEF TeardownNext, graph, TypeOK, LaunchInv
  <2>2. PICK t \in 1..N : t = cursor
    BY <2>1
  <2>3. \/ UNCHANGED status
        \/ /\ status[t] \notin Outcomes
           /\ status' = [status EXCEPT ![t] = "cancelled"]
    BY <1>7, <2>2 DEF TeardownNext, cancelBlocked
  <2>4. CASE UNCHANGED status
    BY <2>1, <2>4
  <2>5. CASE ~UNCHANGED status
    <3>1. Contract!Drop(t)
      BY <2>1, <2>3, <2>5 DEF Contract!Drop, Contract!Become
    <3>2. QED BY <3>1 DEF Contract!Next
  <2>6. QED BY <2>4, <2>5
<1>8. CASE TeardownDone
  <2>1. /\ UNCHANGED <<deps, agentOf, status, stopped>> /\ pc = "teardown"
        /\ pc' = "resolved" /\ stopped
    BY <1>8 DEF TeardownDone, graph, LaunchInv
  <2>2. \A t \in 1..N : status[t] \in Outcomes
    BY <1>8 DEF TeardownDone, IInv, TeardownProgress, TypeOK, Task
  <2>3. Contract!Resolve
    BY <2>1, <2>2 DEF Contract!Resolve, Contract!Move
  <2>4. QED BY <2>3 DEF Contract!Next
<1>9. CASE Settles
  <2>1. PICK t \in 1..N, o \in Outcomes : Settle(t, o)
    BY <1>9 DEF Settles, Task
  <2>2. /\ UNCHANGED <<deps, agentOf, stopped, pc>> /\ pc \notin SyncPhases
        /\ status' = IF status[t] = "running"
                        THEN [status EXCEPT ![t] = o] ELSE status
    BY <2>1 DEF Settle, settle, graph
  <2>3. CASE status[t] # "running"
    BY <2>2, <2>3
  <2>4. CASE status[t] = "running"
    <3>1. pc \notin {"resolved", "stalled"}
      BY <2>4 DEF IInv, TeardownProgress, SetsAgree, LaunchInv, Task
    <3>2. phase = "open" /\ phase' = "open"
      BY <2>2, <3>1 DEF LaunchInv, SyncPhases
    <3>3. Contract!End(t, o)
      BY <2>2, <2>4, <3>2 DEF Contract!End, Contract!Become
    <3>4. QED BY <3>3 DEF Contract!Next
  <2>5. QED BY <2>3, <2>4
<1>10. CASE Run \/ SkipLaunch \/ LaunchDone \/ CheckWait \/ Resume \/ Abort
            \/ UNCHANGED vars
  <2>1. /\ UNCHANGED <<deps, agentOf, status, stopped>>
        /\ \/ pc \notin {"resolved", "stalled"} /\ pc' \notin {"resolved", "stalled"}
           \/ pc' = pc
    BY <1>10 DEF Run, SkipLaunch, LaunchDone, CheckWait, Resume, Abort, vars,
                 graph
  <2>2. QED BY <2>1
<1>11. QED
  BY <1>1, <1>2, <1>3, <1>4, <1>5, <1>6, <1>7, <1>8, <1>9, <1>10
     DEF Next, Loop, Over

(* run() implements TaskRun (scheduler.ts:7-28).                            *)
THEOREM Implements == Spec => ImplementsTaskRun
<1>1. Init => Contract!Init
  BY DEF Init, Contract!Init, Contract!Task, Task, phase
<1>2. TypeOK /\ IInv /\ LaunchInv /\ [Next]_vars
         => [Contract!Next]_(Contract!vars)
  BY StepRefines
<1>3. QED
  BY <1>1, <1>2, TypeCorrect, Invariance, LaunchInvariance, PTL
     DEF Spec, ImplementsTaskRun, Contract!Spec

-----------------------------------------------------------------------------
(* The run around the scheduler.                                            *)
USE MissingAssumption DEF MissingAssumption

-----------------------------------------------------------------------------
(* The judgement of the graph.                                              *)
(*                                                                          *)
(* The frames are the gray tasks, each depending on the one above it, and   *)
(* what a frame looked at is black, or on top of it.                        *)
PathInv ==
    /\ stack \in Seq(Judge!Frame) /\ color \in [Task -> Judge!Colors]
    /\ declared \in [Task -> SUBSET (Task \cup {Missing})]
    /\ \A i, j \in 1 .. Len(stack) : stack[i].id = stack[j].id => i = j
    /\ \A t \in Task : color[t] = "gray" <=> \E i \in 1 .. Len(stack) : stack[i].id = t
    /\ \A i \in 1 .. Len(stack) :
          /\ stack[i].left \subseteq declared[stack[i].id]
          /\ i < Len(stack) => stack[i + 1].id \in declared[stack[i].id]
          /\ \A d \in (declared[stack[i].id] \ stack[i].left) \cap Task :
                \/ d = stack[i].id \/ color[d] = "black"
                \/ i < Len(stack) /\ d = stack[i + 1].id

(* The black tasks are ranked by the order in which they were left.         *)
Black == {t \in Task : color[t] = "black"}
Ranks(rank) ==
    \A t \in Black :
       /\ rank[t] >= 1 /\ rank[t] <= Cardinality(Black)
       /\ \A d \in declared[t] \cap Task : d # t => d \in Black /\ rank[d] < rank[t]
RankInv == \E rank \in [Task -> Nat] : Ranks(rank)

(* What has been looked at has left its mark in the errors.                 *)
Marked(t) ==
    /\ t \in declared[t] => errors # {}
    /\ Missing \in declared[t] => errors # {}
MarkInv ==
    /\ vpc \in {"check", "search", "done"} /\ vcursor \in 1 .. N + 1
    /\ errors \subseteq Judge!Codes
    /\ vpc = "check" =>
          /\ stack = <<>> /\ \A t \in Task : color[t] = "white"
          /\ \A t \in Task : t < vcursor => Marked(t)
    /\ vpc = "search" => \A t \in Task :
          Marked(t) /\ (t < vcursor => color[t] # "white")
    /\ vpc = "done" /\ errors = {} => \A t \in Task :
          Marked(t) /\ color[t] = "black"
    /\ Judge!IsDag => errors = {}

(* The cycle that is reported is one.                                       *)
CycleInv ==
    /\ cycle \in Seq(Task)
    /\ cycle # <<>> =>
        /\ Len(cycle) > 2 /\ cycle[1] = cycle[Len(cycle)]
        /\ \A i \in 1 .. Len(cycle) - 1 : cycle[i + 1] \in declared[cycle[i]]
        /\ \A i, j \in 2 .. Len(cycle) : cycle[i] = cycle[j] => i = j

JudgeInv == PathInv /\ RankInv /\ MarkInv /\ CycleInv /\ strict \in BOOLEAN


(* A frame of a stack of them.                                              *)
LEMMA FrameOf ==
    ASSUME stack \in Seq(Judge!Frame), NEW i \in 1 .. Len(stack)
    PROVE  /\ Len(stack) \in Nat /\ DOMAIN stack = 1 .. Len(stack)
           /\ stack[i] \in Judge!Frame
           /\ stack[i].id \in Task
           /\ stack[i].left \subseteq Task \cup {Missing}
<1>1. Len(stack) \in Nat /\ DOMAIN stack = 1 .. Len(stack)
      /\ stack[i] \in Judge!Frame
  OBVIOUS
<1>2. QED BY <1>1 DEF Judge!Frame, Judge!Task, Task

LEMMA TopOf ==
    ASSUME stack \in Seq(Judge!Frame), stack # <<>>
    PROVE  Len(stack) \in 1 .. Len(stack) /\ Judge!top = stack[Len(stack)]
BY DEF Judge!top

(* Taking up a dependency takes it out of the top frame.                    *)
LEMMA Consuming ==
    ASSUME stack \in Seq(Judge!Frame), stack # <<>>, NEW dep
    PROVE  /\ Judge!consumed(dep) \in Seq(Judge!Frame)
           /\ Len(Judge!consumed(dep)) = Len(stack)
           /\ \A i \in 1 .. Len(stack) :
                 /\ Judge!consumed(dep)[i].id = stack[i].id
                 /\ Judge!consumed(dep)[i].left =
                       IF i = Len(stack) THEN stack[i].left \ {dep}
                                         ELSE stack[i].left
<1> DEFINE n == Len(stack)
           f == [stack[n] EXCEPT !.left = stack[n].left \ {dep}]
<1>1. n \in 1 .. n /\ n \in Nat /\ DOMAIN stack = 1 .. n
  BY TopOf
<1>2. stack[n] \in Judge!Frame
  BY <1>1
<1>3. /\ f \in Judge!Frame /\ f.id = stack[n].id
      /\ f.left = stack[n].left \ {dep}
  BY <1>2 DEF Judge!Frame
<1>4. Judge!consumed(dep) = [stack EXCEPT ![n] = f]
  BY DEF Judge!consumed
<1>5. [stack EXCEPT ![n] = f] \in Seq(Judge!Frame)
      /\ Len([stack EXCEPT ![n] = f]) = n
  BY <1>1, <1>3, ExceptSeq
<1>6. \A i \in 1 .. n : [stack EXCEPT ![n] = f][i] = IF i = n THEN f ELSE stack[i]
  BY <1>1
<1> HIDE DEF f
<1>7. QED BY <1>3, <1>4, <1>5, <1>6

(* A white task that is entered is pushed, and is gray from then on.        *)
Pushed(t, frames) ==
    /\ t \in Task /\ color[t] = "white"
    /\ color' = [color EXCEPT ![t] = "gray"]
    /\ stack' = Append(frames, [id |-> t, left |-> declared[t]])
    /\ UNCHANGED declared

(* The frames are those of the stack, up to what the top one has left.      *)
SameFrames(frames) ==
    /\ frames \in Seq(Judge!Frame) /\ Len(frames) = Len(stack)
    /\ \A i \in 1 .. Len(stack) :
          /\ frames[i].id = stack[i].id /\ frames[i].left \subseteq stack[i].left
          /\ i # Len(stack) => frames[i].left = stack[i].left

LEMMA Pushing ==
    ASSUME PathInv, NEW t, NEW frames, Pushed(t, frames), SameFrames(frames),
           stack # <<>> =>
              \E d \in stack[Len(stack)].left :
                 /\ frames[Len(stack)].left = stack[Len(stack)].left \ {d} /\ d = t
    PROVE  PathInv'
<1> DEFINE n == Len(stack)
           f == [id |-> t, left |-> declared[t]]
<1>1. /\ stack \in Seq(Judge!Frame) /\ frames \in Seq(Judge!Frame)
      /\ n \in Nat /\ Len(frames) = n /\ n + 1 \in Nat
  BY DEF PathInv, SameFrames
<1>2. f \in Judge!Frame /\ f.id = t /\ f.left = declared[t]
  BY DEF PathInv, Pushed, Judge!Frame, Judge!Task, Task
<1>3. /\ stack' \in Seq(Judge!Frame) /\ Len(stack') = n + 1
      /\ stack'[n + 1] = f /\ \A i \in 1 .. n : stack'[i] = frames[i]
  BY <1>1, <1>2 DEF Pushed
<1>4. \A i \in 1 .. n : stack'[i].id = stack[i].id /\ stack[i].id \in Task
  BY <1>1, <1>3, FrameOf DEF SameFrames
<1>5. stack'[n + 1].id = t /\ stack'[n + 1].left = declared[t]
  BY <1>2, <1>3
<1>6. \A i \in 1 .. n :
         /\ stack'[i].left \subseteq stack[i].left
         /\ i # n => stack'[i].left = stack[i].left
         /\ i = n => t \in stack[i].left /\ stack'[i].left = stack[i].left \ {t}
  BY <1>1, <1>3 DEF SameFrames
<1>7. /\ t \in Task /\ color[t] = "white" /\ declared' = declared
      /\ color' = [color EXCEPT ![t] = "gray"]
      /\ color \in [Task -> Judge!Colors]
  BY DEF Pushed, PathInv
<1>8. \A u \in Task : color'[u] = IF u = t THEN "gray" ELSE color[u]
  BY <1>7
<1>9. \A i \in 1 .. n : stack[i].id # t
  BY <1>7 DEF PathInv
<1>a. /\ color' \in [Task -> Judge!Colors]
      /\ declared' \in [Task -> SUBSET (Task \cup {Missing})]
  BY <1>7 DEF PathInv, Judge!Colors
<1> HIDE DEF f
<1>b. \A i \in 1 .. n + 1 : i \in 1 .. n \/ i = n + 1
  BY <1>1
<1>c. \A i \in 1 .. n : i \in 1 .. n + 1 /\ i + 1 \in 1 .. n + 1 /\ i < n + 1
                        /\ (i # n => i + 1 \in 1 .. n /\ i < n)
  BY <1>1
<1>n. n + 1 \in 1 .. n + 1
  BY <1>1
<1> HIDE DEF n
<1>d. \A i, j \in 1 .. n : stack[i].id = stack[j].id => i = j
  BY DEF PathInv, n
<1>e. \A i, j \in 1 .. n + 1 : stack'[i].id = stack'[j].id => i = j
  BY <1>b, <1>d, <1>4, <1>5, <1>9
<1>f. \A u \in Task : color[u] = "gray" <=> \E i \in 1 .. n : stack[i].id = u
  BY DEF PathInv, n
<1>g. \A u \in Task : color'[u] = "gray" <=> \E i \in 1 .. n + 1 : stack'[i].id = u
  <2> TAKE u \in Task
  <2>1. CASE u = t
    BY <2>1, <1>8, <1>5, <1>n
  <2>2. CASE u # t
    <3>1. color'[u] = color[u]
      BY <2>2, <1>8
    <3>2. (\E i \in 1 .. n + 1 : stack'[i].id = u)
             <=> \E i \in 1 .. n : stack[i].id = u
      BY <2>2, <1>b, <1>c, <1>4, <1>5
    <3>3. QED BY <3>1, <3>2, <1>f
  <2>3. QED BY <2>1, <2>2
<1>h. \A i \in 1 .. n :
         /\ stack[i].left \subseteq declared[stack[i].id]
         /\ i # n => stack[i + 1].id \in declared[stack[i].id]
         /\ \A d \in (declared[stack[i].id] \ stack[i].left) \cap Task :
               \/ d = stack[i].id \/ color[d] = "black"
               \/ i # n /\ d = stack[i + 1].id
  BY <1>c DEF PathInv, n
<1>i. ASSUME NEW i \in 1 .. n + 1
      PROVE  /\ stack'[i].left \subseteq declared[stack'[i].id]
             /\ i < n + 1 => stack'[i + 1].id \in declared[stack'[i].id]
             /\ \A d \in (declared[stack'[i].id] \ stack'[i].left) \cap Task :
                   \/ d = stack'[i].id \/ color'[d] = "black"
                   \/ i < n + 1 /\ d = stack'[i + 1].id
  <2>1. CASE i = n + 1
    BY <2>1, <1>5, <1>1 DEF n
  <2>2. CASE i \in 1 .. n /\ i # n
    BY <2>2, <1>h, <1>c, <1>4, <1>6, <1>8, <1>7
  <2>3. CASE i \in 1 .. n /\ i = n
    BY <2>3, <1>h, <1>c, <1>4, <1>5, <1>6, <1>8, <1>7
  <2>4. QED BY <2>1, <2>2, <2>3, <1>b
<1>j. QED BY <1>3, <1>7, <1>a, <1>e, <1>g, <1>i DEF PathInv

(* Each step of the judgement keeps PathInv.                                *)
LEMMA PathStep ==
    ASSUME PathInv, Judge!Next, vcursor \in 1 .. N + 1
    PROVE  PathInv'
<1> DEFINE n == Len(stack)
<1>1. CASE UNCHANGED <<declared, color, stack>>
  BY <1>1 DEF PathInv
<1>2. CASE Judge!Root
  <2>1. CASE color[vcursor] = "white"
    <3>1. SameFrames(stack)
      BY DEF SameFrames, PathInv
    <3>2. Pushed(vcursor, stack) /\ stack = <<>>
      BY <1>2, <2>1 DEF Pushed, Judge!Root, Judge!enter, Task
    <3>3. QED BY <3>1, <3>2, Pushing
  <2>2. QED BY <1>1, <1>2, <2>1 DEF Judge!Root
<1>3. CASE Judge!Descend
  <2>1. PICK dep \in Judge!top.left :
           /\ dep \in Task /\ color[dep] = "white"
           /\ color' = [color EXCEPT ![dep] = "gray"]
           /\ stack' = Append(Judge!consumed(dep),
                              [id |-> dep, left |-> declared[dep]])
    BY <1>3 DEF Judge!Descend, Judge!isNew, Judge!enter, Judge!Task, Task
  <2>2. stack # <<>> /\ declared' = declared /\ stack \in Seq(Judge!Frame)
    BY <1>3 DEF Judge!Descend, PathInv
  <2>3. SameFrames(Judge!consumed(dep)) /\ n \in 1 .. n
    BY <2>2, Consuming, TopOf DEF SameFrames
  <2>4. Judge!consumed(dep)[n].left = stack[n].left \ {dep} /\ dep \in stack[n].left
    BY <2>1, <2>2, <2>3, Consuming, TopOf
  <2>5. Pushed(dep, Judge!consumed(dep))
    BY <2>1, <2>2 DEF Pushed
  <2>6. QED BY <2>3, <2>4, <2>5, Pushing
<1>4. CASE Judge!PassOver
  <2>1. PICK dep \in Judge!top.left :
           /\ dep \in Task => \/ color[dep] \notin {"gray", "white"}
                              \/ color[dep] = "gray" /\ dep = Judge!top.id
           /\ stack' = Judge!consumed(dep)
    BY <1>4 DEF Judge!PassOver, Judge!onPath, Judge!isNew, Judge!Task, Task
  <2>2. /\ stack # <<>> /\ declared' = declared /\ color' = color
        /\ stack \in Seq(Judge!Frame)
    BY <1>4 DEF Judge!PassOver, PathInv
  <2>3. /\ n \in 1 .. n /\ n \in Nat /\ Judge!top = stack[n]
        /\ stack' \in Seq(Judge!Frame) /\ Len(stack') = n
        /\ \A i \in 1 .. n :
              /\ stack'[i].id = stack[i].id
              /\ stack'[i].left = IF i = n THEN stack[i].left \ {dep}
                                           ELSE stack[i].left
    <3>1. n \in 1 .. n /\ n \in Nat /\ Judge!top = stack[n]
      BY <2>2, TopOf
    <3>2. QED BY <3>1, <2>1, <2>2, Consuming
  <2>4. \A i \in 1 .. n : i < n => i + 1 \in 1 .. n /\ i # n
    BY <2>3
  <2>5. dep \in Task => color[dep] = "black" \/ dep = stack[n].id
    BY <2>1, <2>3 DEF PathInv, Judge!Colors
  <2> HIDE DEF n
  <2>6. ASSUME NEW i \in 1 .. n
        PROVE  /\ stack'[i].left \subseteq declared[stack'[i].id]
               /\ i < n => stack'[i + 1].id \in declared[stack'[i].id]
               /\ \A d \in (declared[stack'[i].id] \ stack'[i].left) \cap Task :
                     \/ d = stack'[i].id \/ color[d] = "black"
                     \/ i < n /\ d = stack'[i + 1].id
    <3>1. /\ stack[i].left \subseteq declared[stack[i].id]
          /\ i < n => stack[i + 1].id \in declared[stack[i].id]
          /\ \A d \in (declared[stack[i].id] \ stack[i].left) \cap Task :
                \/ d = stack[i].id \/ color[d] = "black"
                \/ i < n /\ d = stack[i + 1].id
      BY DEF PathInv, n
    <3>2. QED BY <3>1, <2>3, <2>4, <2>5
  <2>a. \A i, j \in 1 .. n : stack[i].id = stack[j].id => i = j
    BY DEF PathInv, n
  <2>7. \A i, j \in 1 .. n : stack'[i].id = stack'[j].id => i = j
    BY <2>3, <2>a
  <2>b. \A t \in Task : color[t] = "gray" <=> \E i \in 1 .. n : stack[i].id = t
    BY DEF PathInv, n
  <2>8. \A t \in Task : color[t] = "gray" <=> \E i \in 1 .. n : stack'[i].id = t
    <3>1. \A i \in 1 .. n : stack'[i].id = stack[i].id
      BY <2>3
    <3>2. QED BY ONLY <2>b, <3>1, Zenon
  <2>9. QED BY <2>2, <2>3, <2>6, <2>7, <2>8 DEF PathInv
<1>5. CASE Judge!Leave
  <2>1. /\ stack # <<>> /\ stack \in Seq(Judge!Frame)
        /\ declared' = declared /\ Judge!top.left = {}
        /\ color' = [color EXCEPT ![Judge!top.id] = "black"]
        /\ stack' = SubSeq(stack, 1, n - 1)
    BY <1>5 DEF Judge!Leave, PathInv
  <2>2. n \in 1 .. n /\ n \in Nat /\ Judge!top = stack[n]
    BY <2>1, TopOf
  <2>3. /\ stack' \in Seq(Judge!Frame) /\ Len(stack') = n - 1
        /\ \A i \in 1 .. n - 1 : stack'[i] = stack[i]
    <3> HIDE DEF n
    <3>1. stack \in Seq(Judge!Frame) /\ Len(stack) = n
      BY <2>1 DEF n
    <3>2. n - 1 \in Nat /\ n - 1 <= n /\ 1 \in Int /\ n - 1 \in Int
          /\ 1 .. n - 1 \subseteq 1 .. n
      BY <2>2
    <3>3. \A i \in 1 .. n - 1 : stack[i] \in Judge!Frame
      BY <3>1, <3>2
    <3>4. SubSeq(stack, 1, n - 1) = [i \in 1 .. n - 1 |-> stack[i]]
      BY <3>1, <3>2
    <3>5. QED BY <3>2, <3>3, <3>4, <2>1
  <2>4. \A i \in 1 .. n : stack[i].id \in Task
    BY <2>1, FrameOf
  <2>5. \A u \in Task : color'[u] = IF u = stack[n].id THEN "black" ELSE color[u]
    BY <2>1, <2>2, <2>4 DEF PathInv
  <2>6. color' \in [Task -> Judge!Colors]
    BY <2>1 DEF PathInv, Judge!Colors
  <2>7. \A i \in 1 .. n - 1 : i \in 1 .. n /\ i < n /\ i + 1 \in 1 .. n
                              /\ (i < n - 1 => i + 1 \in 1 .. n - 1)
                              /\ (~(i < n - 1) => i + 1 = n)
    BY <2>2
  <2>8. \A i \in 1 .. n : i \in 1 .. n - 1 \/ i = n
    BY <2>2
  <2>z. n \notin 1 .. n - 1
    BY <2>2
  <2> HIDE DEF n
  <2>9. \A i, j \in 1 .. n : stack[i].id = stack[j].id => i = j
    BY DEF PathInv, n
  <2>a. \A i, j \in 1 .. n - 1 : stack'[i].id = stack'[j].id => i = j
    BY <2>9, <2>3, <2>7
  <2>b. \A t \in Task : color[t] = "gray" <=> \E i \in 1 .. n : stack[i].id = t
    BY DEF PathInv, n
  <2>c. \A t \in Task :
           color'[t] = "gray" <=> \E i \in 1 .. n - 1 : stack'[i].id = t
    BY <2>b, <2>3, <2>5, <2>7, <2>8, <2>9, <2>2, <2>z
  <2>d. ASSUME NEW i \in 1 .. n - 1
        PROVE  /\ stack'[i].left \subseteq declared[stack'[i].id]
               /\ i < n - 1 => stack'[i + 1].id \in declared[stack'[i].id]
               /\ \A d \in (declared[stack'[i].id] \ stack'[i].left) \cap Task :
                     \/ d = stack'[i].id \/ color'[d] = "black"
                     \/ i < n - 1 /\ d = stack'[i + 1].id
    <3>1. /\ stack[i].left \subseteq declared[stack[i].id]
          /\ i < n => stack[i + 1].id \in declared[stack[i].id]
          /\ \A d \in (declared[stack[i].id] \ stack[i].left) \cap Task :
                \/ d = stack[i].id \/ color[d] = "black"
                \/ i < n /\ d = stack[i + 1].id
      BY <2>7 DEF PathInv, n
    <3>2. QED BY <3>1, <2>3, <2>5, <2>7
  <2>e. QED BY <2>1, <2>3, <2>6, <2>a, <2>c, <2>d DEF PathInv
<1>6. QED BY <1>1, <1>2, <1>3, <1>4, <1>5
          DEF Judge!Next, Judge!Search, Judge!CheckTask, Judge!CheckDone,
              Judge!FindCycle, Judge!SearchDone

(* Each step of the judgement keeps the black tasks ranked: the one that is *)
(* left is ranked above all others.                                         *)
LEMMA RankStep ==
    ASSUME PathInv, RankInv, Judge!Next, vcursor \in 1 .. N + 1
    PROVE  RankInv'
<1> DEFINE n == Len(stack)
<1>1. CASE Black' = Black /\ declared' = declared
  BY <1>1 DEF RankInv, Ranks
<1>2. CASE Judge!Leave
  <2> DEFINE t == stack[n].id
  <2>1. /\ stack # <<>> /\ stack \in Seq(Judge!Frame)
        /\ declared' = declared /\ Judge!top.left = {}
        /\ color' = [color EXCEPT ![Judge!top.id] = "black"]
        /\ color \in [Task -> Judge!Colors]
    BY <1>2 DEF Judge!Leave, PathInv
  <2>2. n \in 1 .. n /\ n \in Nat /\ Judge!top = stack[n]
    BY <2>1, TopOf
  <2>3. t \in Task /\ color[t] = "gray"
    BY <2>1, <2>2, FrameOf DEF PathInv
  <2>4. Black' = Black \cup {t} /\ t \notin Black /\ Black \subseteq Task
    BY <2>1, <2>2, <2>3 DEF Black
  <2>5. \A d \in declared[t] \cap Task : d # t => d \in Black
    BY <2>1, <2>2 DEF PathInv, Black
  <2>6. IsFiniteSet(Black)
    <3>1. IsFiniteSet(Task) BY FS_Interval DEF Task
    <3>2. QED BY <3>1, <2>4, FS_Subset
  <2>7. Cardinality(Black) \in Nat /\ Cardinality(Black') = Cardinality(Black) + 1
    BY <2>4, <2>6, FS_AddElement, FS_CardinalityType
  <2>8. PICK rank \in [Task -> Nat] : Ranks(rank)
    BY DEF RankInv
  <2>a. PICK r \in [Task -> Nat] :
           \A u \in Task : r[u] = IF u = t THEN Cardinality(Black) + 1 ELSE rank[u]
    <3> DEFINE c == Cardinality(Black) + 1
               q == [u \in Task |-> IF u = t THEN c ELSE rank[u]]
    <3>1. c \in Nat
      BY <2>7
    <3> HIDE DEF c, n, t
    <3>2. q \in [Task -> Nat] /\ \A u \in Task : q[u] = IF u = t THEN c ELSE rank[u]
      BY <3>1, <2>8
    <3>3. QED BY <3>2 DEF c
  <2> HIDE DEF n, t
  <2>b. \A u \in Black : rank[u] \in Nat /\ 1 <= rank[u] /\ rank[u] <= Cardinality(Black)
    BY <2>8, <2>4 DEF Ranks
  <2>d. \A u \in Black : \A d \in declared[u] \cap Task :
           d # u => d \in Black /\ rank[d] < rank[u]
    BY <2>8 DEF Ranks
  <2>e. ASSUME NEW u \in Black'
        PROVE  /\ r[u] >= 1 /\ r[u] <= Cardinality(Black')
               /\ \A d \in declared[u] \cap Task :
                     d # u => d \in Black' /\ r[d] < r[u]
    <3>1. CASE u = t
      <4>1. r[u] = Cardinality(Black) + 1
        BY <3>1, <2>a, <2>3
      <4>2. \A d \in declared[u] \cap Task : d # u =>
               d \in Black /\ d \in Black' /\ r[d] = rank[d]
        BY <3>1, <2>5, <2>a, <2>4
      <4>3. QED BY <4>1, <4>2, <2>b, <2>7
    <3>2. CASE u \in Black
      <4>1. u # t /\ r[u] = rank[u]
        BY <3>2, <2>a, <2>4
      <4>2. \A d \in declared[u] \cap Task : d # u =>
               d \in Black' /\ r[d] = rank[d] /\ rank[d] < rank[u]
        BY <3>2, <2>d, <2>a, <2>4
      <4>3. QED BY <3>2, <4>1, <4>2, <2>b, <2>7
    <3>3. QED BY <3>1, <3>2, <2>4
  <2>f. Ranks(r)'
    BY <2>e, <2>1 DEF Ranks
  <2>g. QED BY <2>f, <2>a DEF RankInv
<1>3. CASE Judge!Root
  <2>1. /\ declared' = declared
        /\ \/ color' = color
           \/ /\ vcursor \in Task /\ color[vcursor] = "white"
              /\ color' = [color EXCEPT ![vcursor] = "gray"]
    <3>1. declared' = declared /\ vcursor \in Task
      BY <1>3 DEF Judge!Root, Task
    <3>2. CASE color[vcursor] = "white"
      BY <3>1, <3>2, <1>3 DEF Judge!Root
    <3>3. CASE color[vcursor] # "white"
      <4>1. UNCHANGED <<color, stack>>
        BY <3>3, <1>3 DEF Judge!Root
      <4>2. QED BY <3>1, <4>1
    <3>4. QED BY <3>2, <3>3
  <2>2. QED BY <2>1, <1>1 DEF Black, PathInv
<1>4. CASE Judge!Descend
  <2>1. PICK dep : /\ dep \in Task /\ color[dep] = "white"
                   /\ color' = [color EXCEPT ![dep] = "gray"]
                   /\ declared' = declared
    BY <1>4 DEF Judge!Descend, Judge!isNew, Judge!Task, Task
  <2>2. QED BY <2>1, <1>1 DEF Black, PathInv
<1>5. CASE UNCHANGED <<declared, color>>
  BY <1>1, <1>5 DEF Black
<1>6. QED BY <1>2, <1>3, <1>4, <1>5
          DEF Judge!Next, Judge!Search, Judge!CheckTask, Judge!CheckDone,
              Judge!PassOver, Judge!FindCycle, Judge!SearchDone

(* A dependency that is on the path already closes a cycle: no ranking can  *)
(* put each task of the path above the next.                                *)
LEMMA NoCycle ==
    ASSUME PathInv, stack # <<>>, NEW dep \in Judge!top.left, Judge!onPath(dep)
    PROVE  ~Judge!IsDag
<1> DEFINE n == Len(stack)
<1> SUFFICES ASSUME Judge!IsDag PROVE FALSE
  OBVIOUS
<1>1. PICK rank \in [Task -> Task] :
         \A t \in Task : \A d \in declared[t] : d \in Task /\ rank[d] < rank[t]
  BY DEF Judge!IsDag, Judge!Task, Task
<1>2. stack \in Seq(Judge!Frame) /\ n \in 1 .. n /\ n \in Nat /\ Judge!top = stack[n]
  BY TopOf DEF PathInv
<1>3. \A i \in 1 .. n : stack[i].id \in Task
  BY <1>2, FrameOf
<1>4. /\ dep \in Task /\ color[dep] = "gray" /\ dep \in declared[stack[n].id]
  BY <1>2 DEF Judge!onPath, Judge!Task, Task, PathInv
<1>5. PICK k \in 1 .. n : stack[k].id = dep
  BY <1>4 DEF PathInv
<1>6. \A i \in 1 .. n : i < n => stack[i + 1].id \in declared[stack[i].id]
  BY DEF PathInv
<1> HIDE DEF n
<1> DEFINE R(i) == rank[stack[i].id]
           S == {R(i) : i \in k .. n}
<1>7. \A i \in k .. n : i \in 1 .. n /\ R(i) \in Nat /\ (i # n => i + 1 \in k .. n /\ i < n)
  BY <1>2, <1>3, <1>1 DEF Task
<1>8. S \subseteq Nat /\ R(n) \in S /\ n \in k .. n /\ k \in k .. n
  BY <1>7, <1>2
<1>9. \E x \in S : \A y \in S : ~(<<y, x>> \in OpToRel(<, Nat))
  BY <1>8, NatLessThanWellFounded, WFMin, Zenon
<1>a. PICK i \in k .. n : \A j \in k .. n : ~(R(j) < R(i))
  <2>1. PICK i \in k .. n : \A y \in S : ~(<<y, R(i)>> \in OpToRel(<, Nat))
    BY <1>9
  <2>2. ASSUME NEW j \in k .. n PROVE ~(R(j) < R(i))
    <3>1. R(j) \in S /\ R(j) \in Nat /\ R(i) \in Nat
      BY <1>7
    <3> HIDE DEF R, S
    <3>2. QED BY <3>1, <2>1 DEF OpToRel
  <2>3. QED BY <2>2
<1>b. CASE i = n
  <2>1. R(k) < R(n)
    BY <1>1, <1>3, <1>4, <1>5, <1>2
  <2>2. QED BY <2>1, <1>b, <1>a, <1>8
<1>c. CASE i # n
  <2>1. R(i + 1) < R(i) /\ i + 1 \in k .. n
    BY <1>c, <1>1, <1>3, <1>6, <1>7
  <2>2. QED BY <2>1, <1>a
<1>d. QED BY <1>b, <1>c

(* A task has a code of its own if it depends on itself or on no task; then *)
(* there is no ranking.                                                     *)
LEMMA BadDeps ==
    ASSUME NEW t \in Task, PathInv
    PROVE  /\ Judge!badDeps(t) \subseteq Judge!Codes
           /\ t \in declared[t] \/ Missing \in declared[t] <=> Judge!badDeps(t) # {}
           /\ Judge!IsDag => Judge!badDeps(t) = {}
<1>1. Judge!badDeps(t) \subseteq Judge!Codes
  BY DEF Judge!badDeps, Judge!Codes
<1>2. ASSUME t \in declared[t] PROVE Judge!badDeps(t) # {}
  <2>1. "self-dependency" \in Judge!badDeps(t)
    BY <1>2 DEF Judge!badDeps
  <2>2. QED BY <2>1
<1>3. ASSUME Missing \in declared[t] PROVE Judge!badDeps(t) # {}
  <2>1. "missing-dependency" \in Judge!badDeps(t)
    BY <1>3 DEF Judge!badDeps
  <2>2. QED BY <2>1
<1>4. ASSUME Judge!badDeps(t) # {} PROVE t \in declared[t] \/ Missing \in declared[t]
  BY <1>4 DEF Judge!badDeps
<1>5. ASSUME Judge!IsDag PROVE Judge!badDeps(t) = {}
  <2>1. PICK rank \in [Task -> Task] :
           \A u \in Task : \A d \in declared[u] : d \in Task /\ rank[d] < rank[u]
    BY <1>5 DEF Judge!IsDag, Judge!Task, Task
  <2>2. ~(t \in declared[t]) /\ ~(Missing \in declared[t])
    BY <2>1 DEF Task
  <2>3. QED BY <2>2, <1>4
<1>6. QED BY <1>1, <1>2, <1>3, <1>4, <1>5

(* Each step of the judgement keeps MarkInv.                                *)
LEMMA MarkStep ==
    ASSUME PathInv, MarkInv, Judge!Next
    PROVE  MarkInv'
<1>1. declared' = declared /\ (Judge!IsDag' <=> Judge!IsDag)
  BY DEF Judge!Next, Judge!Search, Judge!CheckTask, Judge!CheckDone, Judge!Root,
         Judge!FindCycle, Judge!Descend, Judge!PassOver, Judge!Leave,
         Judge!SearchDone, Judge!IsDag
<1>2. vcursor \in Nat /\ \A t \in Task : t \in Nat
  BY DEF MarkInv, Task
<1>3. CASE Judge!CheckTask
  <2>1. /\ vpc = "check" /\ vcursor \in Task
        /\ stack' = stack /\ color' = color
        /\ stack = <<>> /\ \A t \in Task : color[t] = "white"
        /\ \A t \in Task : t < vcursor => Marked(t)
        /\ errors \subseteq Judge!Codes
        /\ Judge!IsDag => errors = {}
    BY <1>3, <1>2 DEF Judge!CheckTask, MarkInv, Task
  <2>2. CASE strict /\ Judge!badDeps(vcursor) # {}
    <3>1. PICK code \in Judge!badDeps(vcursor) : errors' = {code}
      BY <1>3, <2>2 DEF Judge!CheckTask
    <3>2. vpc' = "done" /\ vcursor' = vcursor
      BY <1>3, <2>2 DEF Judge!CheckTask
    <3>3. errors' \subseteq Judge!Codes /\ errors' # {} /\ ~Judge!IsDag
      BY <3>1, <2>1, <2>2, BadDeps
    <3>4. QED BY <3>2, <3>3, <1>1 DEF MarkInv, Judge!Codes
  <2>3. CASE ~(strict /\ Judge!badDeps(vcursor) # {})
    <3>1. /\ errors' = errors \cup Judge!badDeps(vcursor)
          /\ vcursor' = vcursor + 1 /\ vpc' = vpc
      BY <1>3, <2>3 DEF Judge!CheckTask
    <3>2. errors' \subseteq Judge!Codes /\ (Judge!IsDag => errors' = {})
      BY <3>1, <2>1, BadDeps
    <3>3. ASSUME NEW t \in Task, t < vcursor + 1 PROVE Marked(t)'
      <4>1. CASE t = vcursor
        BY <4>1, <3>1, <1>1, BadDeps DEF Marked
      <4>2. CASE t < vcursor
        BY <4>2, <2>1, <3>1, <1>1 DEF Marked
      <4>3. QED BY <4>1, <4>2, <3>3, <1>2
    <3>4. vcursor' \in 1 .. N + 1
      BY <3>1, <2>1 DEF Task
    <3>5. QED BY <3>1, <3>2, <3>3, <3>4, <2>1, <1>1 DEF MarkInv, Judge!Codes
  <2>4. QED BY <2>2, <2>3
<1>4. CASE Judge!CheckDone
  <2>1. /\ vpc = "check" /\ vcursor > N /\ vpc' = "search" /\ vcursor' = 1
        /\ UNCHANGED <<color, errors>>
    BY <1>4 DEF Judge!CheckDone
  <2>2. \A t \in Task : t < vcursor /\ ~(t < vcursor')
    BY <2>1, <1>2 DEF Task
  <2>3. \A t \in Task : Marked(t)' /\ ~(t < vcursor')
    BY <2>1, <2>2, <1>1 DEF MarkInv, Marked
  <2>4. vcursor' \in 1 .. N + 1
    BY <2>1
  <2>5. QED BY <2>1, <2>3, <2>4, <1>1 DEF MarkInv, Judge!Codes
<1>5. CASE Judge!Root
  <2>1. /\ vpc = "search" /\ vpc' = "search" /\ errors' = errors
        /\ vcursor' = vcursor + 1 /\ vcursor \in Task
        /\ color \in [Task -> Judge!Colors]
    BY <1>5, <1>2 DEF Judge!Root, MarkInv, Task, PathInv
  <2>2. /\ color'[vcursor] # "white"
        /\ \A t \in Task : t # vcursor => color'[t] = color[t]
    <3>1. CASE color[vcursor] = "white"
      BY <1>5, <3>1, <2>1 DEF Judge!Root
    <3>2. CASE color[vcursor] # "white"
      BY <1>5, <3>2, <2>1 DEF Judge!Root
    <3>3. QED BY <3>1, <3>2
  <2>3. \A t \in Task : t < vcursor + 1 => t < vcursor \/ t = vcursor
    BY <1>2
  <2>4. \A t \in Task : Marked(t)' /\ (t < vcursor' => color'[t] # "white")
    BY <2>1, <2>2, <2>3, <1>1 DEF MarkInv, Marked
  <2>5. vcursor' \in 1 .. N + 1
    BY <2>1 DEF Task
  <2>6. QED BY <2>1, <2>4, <2>5, <1>1 DEF MarkInv, Judge!Codes
<1>6. CASE Judge!Descend \/ Judge!PassOver \/ Judge!Leave
  <2>1. /\ vpc = "search" /\ UNCHANGED <<vpc, errors, vcursor>>
        /\ \A t \in Task : color[t] # "white" => color'[t] # "white"
    <3>1. CASE Judge!Descend
      <4>1. PICK dep : color' = [color EXCEPT ![dep] = "gray"]
        BY <3>1 DEF Judge!Descend
      <4>2. QED BY <4>1, <3>1 DEF Judge!Descend, PathInv
    <3>2. CASE Judge!PassOver
      BY <3>2 DEF Judge!PassOver
    <3>3. CASE Judge!Leave
      BY <3>3 DEF Judge!Leave, PathInv
    <3>4. QED BY <3>1, <3>2, <3>3, <1>6
  <2>2. \A t \in Task : Marked(t)' /\ (t < vcursor' => color'[t] # "white")
    BY <2>1, <1>1 DEF MarkInv, Marked
  <2>3. QED BY <2>1, <2>2, <1>1 DEF MarkInv, Judge!Codes
<1>7. CASE Judge!FindCycle
  <2>1. /\ vpc' = "done" /\ errors' = errors \cup {"cycle"} /\ vcursor' = vcursor
        /\ stack # <<>> /\ \E dep \in Judge!top.left : Judge!onPath(dep)
    BY <1>7 DEF Judge!FindCycle
  <2>2. ~Judge!IsDag
    BY <2>1, NoCycle
  <2>3. QED BY <2>1, <2>2, <1>1 DEF MarkInv, Judge!Codes
<1>8. CASE Judge!SearchDone
  <2>1. /\ vpc = "search" /\ vpc' = "done" /\ UNCHANGED <<vcursor, color, errors>>
        /\ stack = <<>> /\ vcursor > N
    BY <1>8 DEF Judge!SearchDone
  <2>2. \A t \in Task : t < vcursor
    BY <2>1, <1>2 DEF Task
  <2>3. \A t \in Task : color[t] # "gray"
    BY <2>1 DEF PathInv
  <2>4. \A t \in Task : Marked(t)' /\ color'[t] = "black"
    BY <2>1, <2>2, <2>3, <1>1 DEF MarkInv, Marked, PathInv, Judge!Colors
  <2>5. QED BY <2>1, <2>4, <1>1 DEF MarkInv, Judge!Codes
<1>9. QED BY <1>3, <1>4, <1>5, <1>6, <1>7, <1>8 DEF Judge!Next, Judge!Search

(* What FindCycle reports is the path from the task that is met again to    *)
(* the top, and that task once more.                                        *)
LEMMA CycleStep ==
    ASSUME PathInv, CycleInv, Judge!Next
    PROVE  CycleInv'
<1>1. declared' = declared
  BY DEF Judge!Next, Judge!Search, Judge!CheckTask, Judge!CheckDone, Judge!Root,
         Judge!FindCycle, Judge!Descend, Judge!PassOver, Judge!Leave,
         Judge!SearchDone
<1>2. CASE cycle' = cycle
  BY <1>1, <1>2 DEF CycleInv
<1>3. CASE Judge!FindCycle
  <2> DEFINE n == Len(stack)
             p == Judge!path
  <2>1. PICK dep \in Judge!top.left :
           Judge!onPath(dep) /\ cycle' = Judge!reported(dep)
    BY <1>3 DEF Judge!FindCycle
  <2>2. /\ stack # <<>> /\ stack \in Seq(Judge!Frame)
        /\ n \in 1 .. n /\ n \in Nat /\ Judge!top = stack[n] /\ DOMAIN stack = 1 .. n
    <3>1. stack # <<>> /\ stack \in Seq(Judge!Frame)
      BY <1>3 DEF Judge!FindCycle, PathInv
    <3>2. QED BY <3>1, TopOf
  <2>3. \A i \in 1 .. n : stack[i].id \in Task
    BY <2>2, FrameOf
  <2>4. p = [i \in 1 .. n |-> stack[i].id] /\ p \in Seq(Task) /\ Len(p) = n
    <3>1. p = [i \in 1 .. n |-> stack[i].id]
      BY <2>2 DEF Judge!path
    <3> HIDE DEF n, p
    <3>2. QED BY <3>1, <2>2, <2>3
  <2>5. /\ dep \in Task /\ color[dep] = "gray" /\ dep # p[n]
        /\ dep \in declared[p[n]]
    BY <2>1, <2>2, <2>4 DEF Judge!onPath, Judge!Task, Task, PathInv
  <2>6. \A i, j \in 1 .. n : p[i] = p[j] => i = j
    BY <2>4 DEF PathInv
  <2>7. \A i \in 1 .. n : i < n => p[i + 1] \in declared[p[i]]
    <3>1. \A i \in 1 .. n : i < n => i + 1 \in 1 .. n
      BY <2>2
    <3>2. QED BY <3>1, <2>4 DEF PathInv
  <2>8. \E i \in 1 .. n : p[i] = dep
    BY <2>5, <2>4 DEF PathInv
  <2>9. PICK k \in 1 .. n : /\ p[k] = dep
                            /\ cycle' = Append(SubSeq(p, k, n), dep)
    <3> DEFINE first == CHOOSE i \in 1 .. n : p[i] = dep
    <3>1. first \in 1 .. n /\ p[first] = dep
      BY <2>8
    <3>2. cycle' = Append(SubSeq(p, first, n), dep)
      BY <2>1, <2>4 DEF Judge!reported
    <3>3. QED BY <3>1, <3>2
  <2> HIDE DEF n, p
  <2> DEFINE m == n - k + 1
             q == SubSeq(p, k, n)
  <2>a. k < n /\ m \in Nat /\ m >= 2
    BY <2>2, <2>5, <2>9
  <2>b. /\ q \in Seq(Task) /\ Len(q) = m
        /\ \A i \in 1 .. m : q[i] = p[k + i - 1]
    <3>1. \A i \in k .. n : p[i] \in Task
      BY <2>2, <2>3, <2>4
    <3>2. QED BY <3>1, <2>a, <2>2, SubSeqProperties
  <2>c. /\ cycle' \in Seq(Task) /\ Len(cycle') = m + 1
        /\ cycle'[m + 1] = dep /\ \A i \in 1 .. m : cycle'[i] = q[i]
    <3> HIDE DEF q, m
    <3>1. cycle' = Append(q, dep)
      BY <2>9 DEF q
    <3>2. QED BY <3>1, <2>5, <2>a, <2>b
  <2>d. \A i \in 1 .. m : cycle'[i] = p[k + i - 1] /\ k + i - 1 \in 1 .. n
    <3>1. \A i \in 1 .. m : k + i - 1 \in 1 .. n
      BY <2>a, <2>2
    <3>2. QED BY <3>1, <2>b, <2>c
  <2> HIDE DEF m, q
  <2>e. 1 \in 1 .. m /\ m \in 1 .. m /\ m + 1 \in Nat /\ m \in Nat
    BY <2>a
  <2>f. cycle'[1] = dep
    <3>1. k + 1 - 1 = k
      BY <2>a
    <3>2. QED BY <3>1, <2>d, <2>e, <2>9
  <2>g. ASSUME NEW i \in 1 .. m PROVE cycle'[i + 1] \in declared[cycle'[i]]
    <3>1. CASE i = m
      <4>1. k + i - 1 = n
        BY <3>1, <2>a, <2>2 DEF m
      <4>2. QED BY <4>1, <3>1, <2>c, <2>d, <2>5
    <3>2. CASE i # m
      <4>1. /\ i + 1 \in 1 .. m /\ k + i - 1 < n /\ k + (i + 1) - 1 = (k + i - 1) + 1
        BY <3>2, <2>a, <2>2 DEF m
      <4>2. QED BY <4>1, <2>d, <2>7
    <3>3. QED BY <3>1, <3>2
  <2>h. ASSUME NEW i \in 2 .. m + 1, NEW j \in 2 .. m + 1, cycle'[i] = cycle'[j]
        PROVE  i = j
    <3>1. \A x \in 2 .. m : /\ x \in 1 .. m /\ k + x - 1 # k
      BY <2>a, <2>2
    <3>2. \A x \in 2 .. m : cycle'[x] # dep
      <4> TAKE x \in 2 .. m
      <4>1. cycle'[x] = p[k + x - 1] /\ k + x - 1 \in 1 .. n /\ k + x - 1 # k
        BY <3>1, <2>d
      <4>2. p[k + x - 1] # p[k]
        BY <4>1, <2>6
      <4>3. QED BY <4>1, <4>2, <2>9
    <3>3. \A x \in 2 .. m + 1 : x = m + 1 \/ x \in 2 .. m
      BY <2>e
    <3>4. \A x, y \in 2 .. m : k + x - 1 = k + y - 1 => x = y
      BY <2>a, <2>2
    <3>5. QED BY <2>h, <3>1, <3>2, <3>3, <3>4, <2>c, <2>d, <2>6
  <2>i. Len(cycle') > 2 /\ Len(cycle') - 1 = m
    BY <2>c, <2>a
  <2>j. QED BY <1>1, <2>c, <2>f, <2>g, <2>h, <2>i DEF CycleInv
<1>4. QED BY <1>2, <1>3
          DEF Judge!Next, Judge!Search, Judge!CheckTask, Judge!CheckDone, Judge!Root,
              Judge!Descend, Judge!PassOver, Judge!Leave, Judge!SearchDone

(* The path is never longer than there are tasks, for no task is on it      *)
(* twice.                                                                   *)
LEMMA PathFits == PathInv => Len(stack) <= N
<1> SUFFICES ASSUME PathInv PROVE Len(stack) <= N
  OBVIOUS
<1> DEFINE n == Len(stack)
           f == [i \in 1 .. n |-> stack[i].id]
<1>1. stack \in Seq(Judge!Frame) /\ n \in Nat
  BY DEF PathInv
<1>2. \A i \in 1 .. n : stack[i].id \in Task
  BY <1>1, FrameOf
<1>3. IsFiniteSet(1 .. n) /\ Cardinality(1 .. n) = n
  BY <1>1, FS_Interval
<1>4. IsFiniteSet(Task) /\ Cardinality(Task) = N
  BY FS_Interval DEF Task
<1>5. \A i, j \in 1 .. n : stack[i].id = stack[j].id => i = j
  BY DEF PathInv
<1> HIDE DEF n
<1>6. f \in Injection(1 .. n, Task)
  BY <1>2, <1>5 DEF Injection, IsInjective
<1>7. QED
  <2>1. Cardinality(1 .. n) <= Cardinality(Task)
    BY <1>3, <1>4, <1>6, FS_Injection, Zenon
  <2>2. QED BY <2>1, <1>3, <1>4 DEF n

(* When the search ends without an error every task is black, and the order *)
(* in which the tasks were left ranks them.                                 *)
LEMMA AcceptedIsDag ==
    ASSUME PathInv, RankInv, MarkInv, vpc = "done", errors = {}
    PROVE  Judge!IsDag
<1>1. PICK rank \in [Task -> Nat] : Ranks(rank)
  BY DEF RankInv
<1>2. \A t \in Task : Marked(t) /\ color[t] = "black"
  BY DEF MarkInv
<1>3. Black = Task
  BY <1>2 DEF Black
<1>4. IsFiniteSet(Task) /\ Cardinality(Black) = N
  BY <1>3, FS_Interval DEF Task
<1>5. rank \in [Task -> Task]
  BY <1>1, <1>3, <1>4 DEF Ranks, Task
<1>6. ASSUME NEW t \in Task, NEW d \in declared[t]
      PROVE  d \in Task /\ rank[d] < rank[t]
  <2>1. d \in Task /\ d # t
    BY <1>2 DEF Marked, PathInv
  <2>2. QED BY <2>1, <1>1, <1>3 DEF Ranks
<1>7. QED BY <1>5, <1>6 DEF Judge!IsDag, Judge!Task, Task

LEMMA JudgedRight == JudgeInv => VerdictRight
<1> SUFFICES ASSUME JudgeInv PROVE VerdictRight
  OBVIOUS
<1>1. PathInv /\ RankInv /\ MarkInv /\ CycleInv /\ strict \in BOOLEAN
  BY DEF JudgeInv
<1>2. Judge!TypeOK
  BY <1>1, PathFits DEF Judge!TypeOK, PathInv, MarkInv, CycleInv, Judge!Task, Task
<1>3. vpc = "done" => (errors = {} <=> Judge!IsDag)
  BY <1>1, AcceptedIsDag DEF MarkInv
<1>4. QED BY <1>1, <1>2, <1>3 DEF VerdictRight, Judge!VerdictRight, CycleInv

LEMMA JudgeStep == JudgeInv /\ Judge!Next => JudgeInv'
<1> SUFFICES ASSUME JudgeInv, Judge!Next PROVE JudgeInv'
  OBVIOUS
<1>1. strict' = strict
  BY DEF Judge!Next, Judge!Search, Judge!CheckTask, Judge!CheckDone, Judge!Root,
         Judge!FindCycle, Judge!Descend, Judge!PassOver, Judge!Leave,
         Judge!SearchDone
<1>2. vcursor \in 1 .. N + 1
  BY DEF JudgeInv, MarkInv
<1>3. QED
  BY <1>1, <1>2, PathStep, RankStep, MarkStep, CycleStep DEF JudgeInv

LEMMA JudgeStutter == JudgeInv /\ UNCHANGED verdict => JudgeInv'
<1> SUFFICES ASSUME JudgeInv, UNCHANGED verdict PROVE JudgeInv'
  OBVIOUS
<1>1. UNCHANGED <<declared, strict, vpc, vcursor, color, stack, errors, cycle>>
  BY DEF verdict
<1>2. PathInv'
  BY <1>1 DEF JudgeInv, PathInv
<1>3. RankInv'
  BY <1>1 DEF JudgeInv, RankInv, Ranks, Black
<1>4. MarkInv'
  BY <1>1 DEF JudgeInv, MarkInv, Marked, Judge!IsDag
<1>5. CycleInv'
  BY <1>1 DEF JudgeInv, CycleInv
<1>6. QED BY <1>1, <1>2, <1>3, <1>4, <1>5 DEF JudgeInv

LEMMA JudgeInit == RunInit => JudgeInv
<1> SUFFICES ASSUME RunInit PROVE JudgeInv
  OBVIOUS
<1>1. /\ declared \in [Task -> SUBSET (Task \cup {Missing})]
      /\ vpc = "check" /\ vcursor = 1 /\ color = [t \in Task |-> "white"]
      /\ stack = <<>> /\ errors = {} /\ cycle = <<>> /\ strict \in BOOLEAN
  BY DEF RunInit, Judge!Init, Judge!Task, Task
<1>2. PathInv
  BY <1>1 DEF PathInv, Judge!Colors
<1>3. RankInv
  <2>1. [t \in Task |-> 0] \in [Task -> Nat] /\ Black = {}
    BY <1>1 DEF Black
  <2>2. QED BY <2>1 DEF RankInv, Ranks
<1>4. MarkInv
  BY <1>1 DEF MarkInv, Task
<1>5. CycleInv
  BY <1>1 DEF CycleInv
<1>6. QED BY <1>1, <1>2, <1>3, <1>4, <1>5 DEF JudgeInv

(* A step of a run is a step of the judgement, or leaves it alone.          *)
LEMMA RunJudges == [RunNext]_allVars => Judge!Next \/ UNCHANGED verdict
BY DEF RunNext, Call, DispatchThrows, Validate, Begin, StartStep, Between, Answer,
       SettleStep, PromptThrows, Report, Aggregate, AbortRun, TimerFires,
       OtherCall, RunOver, allVars

(* What is noted of an answer is an answer.                                 *)
GivenOK == given \in [Task -> Answers \cup {"none"}]

LEMMA GivenStep == GivenOK /\ [RunNext]_allVars => GivenOK'
<1> SUFFICES ASSUME GivenOK, [RunNext]_allVars PROVE GivenOK'
  OBVIOUS
<1>1. CASE UNCHANGED given
  BY <1>1 DEF GivenOK
<1>2. CASE \E t \in Task : Answer(t)
  BY <1>2 DEF Answer, GivenOK
<1>3. QED
  BY <1>1, <1>2 DEF RunNext, Call, DispatchThrows, Validate, Begin, StartStep,
     Between, SettleStep, PromptThrows, Report, Aggregate, AbortRun, TimerFires,
     OtherCall, RunOver, allVars, records

(* A step of a run is a step of Scheduler, or leaves it alone.              *)
LEMMA RunSchedules == GivenOK /\ [RunNext]_allVars => [Next]_vars
<1> SUFFICES ASSUME GivenOK, RunNext PROVE [Next]_vars
  BY DEF allVars
<1>1. CASE Call \/ DispatchThrows \/ Validate \/ Report \/ Aggregate \/ OtherCall
           \/ RunOver
  BY <1>1 DEF Call, DispatchThrows, Validate, Report, Aggregate, OtherCall, RunOver,
         allVars
<1>2. CASE Begin \/ StartStep \/ Between
  BY <1>2 DEF Begin, StartStep, Between, Next, Loop
<1>3. CASE AbortRun \/ TimerFires
  BY <1>3 DEF AbortRun, TimerFires, Next
<1>4. ASSUME NEW t \in Task, Answer(t) \/ SettleStep(t) \/ PromptThrows(t)
      PROVE  [Next]_vars
  <2>1. UNCHANGED vars \/ \E outcome \in Outcomes : Settle(t, outcome)
    <3>1. CASE Answer(t)
      BY <3>1 DEF Answer
    <3>2. CASE PromptThrows(t)
      BY <3>2 DEF PromptThrows, Outcomes
    <3>3. CASE SettleStep(t)
      <4>1. \/ strategy \in Chains /\ given[t] # "none" /\ Settle(t, outcomeOf(given[t]))
            \/ \E outcome \in Outcomes : Settle(t, outcome)
        BY <3>3 DEF SettleStep
      <4>2. given[t] # "none" => outcomeOf(given[t]) \in Outcomes
        BY DEF GivenOK, outcomeOf, Answers, Outcomes
      <4>3. QED BY <4>1, <4>2
    <3>4. QED BY <1>4, <3>1, <3>2, <3>3
  <2>2. QED BY <2>1 DEF Next, Settles
<1>5. QED BY <1>1, <1>2, <1>3, <1>4 DEF RunNext

(* So a run of tasks is a run of Scheduler, whatever its strategy, its      *)
(* Supervisor and its timer do (scheduler.ts:72-231 as strategies/*.ts and  *)
(* supervisor/supervisor.ts call it).                                       *)
THEOREM RunsScheduler == RunSpec => Spec
<1>1. RunInit => Init /\ GivenOK
  BY DEF RunInit, GivenOK
<1>2. QED BY <1>1, GivenStep, RunSchedules, PTL DEF RunSpec, Spec

(* A graph is accepted exactly when it is a DAG of known tasks, and a cycle *)
(* that is reported is one (graph.ts:4-8, :100-103, :132-135).              *)
THEOREM VerdictsRight == RunSpec => []VerdictRight
<1>1. JudgeInv /\ [RunNext]_allVars => JudgeInv'
  BY RunJudges, JudgeStep, JudgeStutter
<1>2. QED BY <1>1, JudgeInit, JudgedRight, PTL DEF RunSpec

-----------------------------------------------------------------------------
(* The records of a strategy.                                               *)
(*                                                                          *)
(* What ran was launched; while nothing was stopped, what was cancelled     *)
(* without having run follows from something that did run; and the steps of *)
(* a chain run one after another.                                           *)
TaskInv ==
    /\ strategy \in Supervised \cup {"dag", "plan"}
    /\ strategy \in Chains => deps = chain
    /\ pc = "resolved" /\ ~stopped => inflight = {}
    /\ \A t \in Task : status[t] \in {"running", "completed", "failed"} => t \in launched
    /\ ~stopped => \A t \in Task : status[t] = "cancelled" =>
          \E u \in launched : status[u] \in {"failed", "cancelled"}
    /\ strategy \in Chains => \A t \in launched : \A u \in Task :
          u < t => status[u] = "completed"

(* A note stands for the answer of a step that ran, and what the scheduler  *)
(* made of it differs only if the run was stopped.                          *)
NoteInv ==
    /\ GivenOK
    /\ \A t \in Task : given[t] # "none" => strategy \in Chains /\ t \in launched
    /\ strategy \in Chains => \A t \in Task :
          status[t] = "completed" => given[t] \in {"text", "silent"}
    /\ \A t \in Task : given[t] \in {"text", "silent"} =>
          status[t] \in {"running", "completed"} \/ stopped

PromptInv ==
    /\ context \in [Task -> 0 .. N]
    /\ \A t \in launched \ {1} :
          /\ strategy = "sequential" => context[t] = t - 1
          /\ strategy = "relay" => context[t] = t - 1 \/ given[t - 1] = "silent"

(* A report is made once the run resolved, and says of it what it should.   *)
ReportInv ==
    /\ \/ report = NoReport
       \/ report \in [entries : [Task -> Answers \cup Outcomes], final : 0 .. N]
    /\ report # NoReport =>
        /\ pc = "resolved"
        /\ \A t \in Task :
              /\ status[t] = "completed" => isDone(t)
              /\ isDone(t) /\ status[t] # "completed" => stopped
              /\ strategy \in Chains /\ isDone(t) => \A u \in 1 .. t - 1 : isDone(u)
              /\ strategy = "sequential" /\ isDone(t) => report.final >= t
              /\ strategy = "relay" /\ report.entries[t] = "text" =>
                    \/ report.final >= t
                    \/ \E u \in 1 .. t - 1 : report.entries[u] = "silent"

RecordsInv == TaskInv /\ NoteInv /\ PromptInv /\ ReportInv

-----------------------------------------------------------------------------
(* The Supervisor.                                                          *)
(*                                                                          *)
(* Where a call is: it has not begun, runs, or is over; its lifecycle is    *)
(* its own while it runs.                                                   *)
CallInv ==
    /\ state \in {"created", "running"} \cup Terminal
    /\ cancelled \in BOOLEAN /\ timer \in {"none", "armed", "fired"}
    /\ result \in {"none"} \cup Terminal
    /\ pc # "idle" => vpc = "done"
    /\ strategy \in Supervised /\ result = "none"
          /\ (pc # "idle" \/ vpc # "check" \/ vcursor # 1) => state = "running"
    /\ result # "none" =>
          /\ strategy \in Supervised /\ timer # "armed" /\ state \in {result, "failed"}
          /\ \/ pc = "resolved" /\ report # NoReport
             \/ pc = "idle" /\ vpc = "check" /\ vcursor = 1
    /\ result # "none" /\ pc = "idle" => result \in {"cancelled", "failed"}

(* Whatever stops a run is in a flag of the Supervisor.                     *)
SignalInv ==
    /\ stopped => aborted
    /\ pc = "idle" => ~aborted /\ ~stopped
    /\ timer = "fired" => aborted /\ pc # "idle"
    /\ strategy \in Supervised /\ aborted => cancelled \/ timer = "fired"

(* What a call returned says how it came to its end.                        *)
ResultInv ==
    result # "none" =>
        /\ result = "timeout" <=> timer = "fired"
        /\ result = "cancelled" <=> cancelled /\ timer # "fired"
        /\ result = "completed" => \A t \in Task : status[t] = "completed"
        /\ result = "failed" /\ pc = "resolved" =>
              \E t \in launched : status[t] # "completed"

SupervisorInv == CallInv /\ SignalInv /\ ResultInv

-----------------------------------------------------------------------------
(* The outcome of a step of a chain is the answer that was noted of it; if  *)
(* none was, its prompt could not be built.                                 *)
Noted(t, o) ==
    strategy \in Chains => o = IF given[t] = "none" THEN "failed" ELSE outcomeOf(given[t])

(* What a step of a run does to Scheduler.                                  *)
LEMMA RunSteps ==
    ASSUME GivenOK, [RunNext]_allVars
    PROVE  /\ strategy' = strategy
           /\ \/ UNCHANGED vars \/ Control \/ CancelNext \/ TeardownNext \/ Launch
              \/ \E t \in Task, o \in Outcomes : Settle(t, o) /\ Noted(t, o)
<1>1. CASE UNCHANGED <<vars, strategy>>
  BY <1>1
<1>2. CASE Begin \/ Between
  BY <1>2 DEF Begin, Between, Control
<1>3. CASE StartStep
  BY <1>3 DEF StartStep
<1>4. CASE AbortRun \/ TimerFires
  BY <1>4 DEF AbortRun, TimerFires, Control
<1>5. ASSUME NEW t \in Task, SettleStep(t) PROVE
        /\ strategy' = strategy
        /\ \E o \in Outcomes : Settle(t, o) /\ Noted(t, o)
  <2>1. CASE strategy \in Chains
    <3>1. /\ given[t] # "none" /\ Settle(t, outcomeOf(given[t]))
          /\ strategy' = strategy
      BY <1>5, <2>1 DEF SettleStep
    <3>2. outcomeOf(given[t]) \in Outcomes
      BY <3>1 DEF GivenOK, outcomeOf, Answers, Outcomes
    <3>3. QED BY <3>1, <3>2 DEF Noted
  <2>2. CASE strategy \notin Chains
    BY <1>5, <2>2 DEF SettleStep, Noted
  <2>3. QED BY <2>1, <2>2
<1>6. ASSUME NEW t \in Task, PromptThrows(t) PROVE
        /\ strategy' = strategy
        /\ \E o \in Outcomes : Settle(t, o) /\ Noted(t, o)
  <2>1. /\ given[t] = "none" /\ Settle(t, "failed") /\ strategy' = strategy
    BY <1>6 DEF PromptThrows
  <2>2. QED BY <2>1 DEF Noted, Outcomes
<1>7. QED
  BY <1>1, <1>2, <1>3, <1>4, <1>5, <1>6
     DEF RunNext, Call, DispatchThrows, Validate, Answer, Report, Aggregate,
         OtherCall, RunOver, allVars

(* How a task may go on.                                                    *)
Moved(t) ==
    \/ status'[t] = status[t]
    \/ status[t] = "pending" /\ status'[t] = "running" /\ t \in launched'
    \/ /\ status[t] = "running" /\ t \in launched
       /\ status'[t] \in Outcomes /\ Noted(t, status'[t])
    \/ /\ status[t] = "pending" /\ status'[t] = "cancelled"
       /\ \E d \in deps[t] : status[d] \in {"failed", "cancelled"}
    \/ status[t] \notin Outcomes /\ stopped /\ status'[t] = "cancelled"

(* How the run goes on.                                                     *)
Flows ==
    /\ strategy' = strategy /\ deps' = deps /\ (stopped => stopped')
    /\ launched \subseteq launched'
    /\ \A t \in launched' \ launched : depsCompleted(t)
    /\ pc' = "resolved" /\ ~stopped' => inflight' = {}
    /\ \A t \in Task : Moved(t)

LEMMA RunFlows ==
    ASSUME TypeOK, IInv, LaunchInv, TaskInv, GivenOK, [RunNext]_allVars
    PROVE  Flows
<1>1. strategy' = strategy
  BY RunSteps
<1>2. CASE UNCHANGED vars
  BY <1>1, <1>2 DEF Flows, Moved, vars, TaskInv
<1>3. CASE Control
  <2>a. UNCHANGED <<deps, status, inflight, launched>>
    BY <1>3 DEF Control, Run, CancelDone, SkipLaunch, LaunchDone, CheckComplete,
         CheckStopped, CheckStalled, CheckWait, Resume, TeardownDone, Abort,
         Over, vars, graph
  <2>b. stopped => stopped'
    <3>1. CASE CancelDone
      BY <3>1 DEF CancelDone
    <3>2. CASE CheckStopped
      BY <3>2 DEF CheckStopped
    <3>3. CASE stopped' = stopped
      BY <3>3
    <3>4. QED
      BY <1>3, <3>1, <3>2, <3>3
         DEF Control, Run, SkipLaunch, LaunchDone, CheckComplete, CheckStalled,
             CheckWait, Resume, TeardownDone, Abort, Over, vars
  <2>1. UNCHANGED <<deps, status, inflight, launched>> /\ (stopped => stopped')
    BY <2>a, <2>b
  <2>2. ASSUME pc' = "resolved", ~stopped' PROVE inflight = {}
    <3>1. CASE CheckComplete
      BY <3>1 DEF CheckComplete, IInv, SetsAgree
    <3>2. CASE TeardownDone
      BY <3>2, <2>2 DEF TeardownDone, LaunchInv
    <3>3. CASE pc' = pc /\ stopped' = stopped
      BY <3>3, <2>2 DEF TaskInv
    <3>4. QED
      BY <1>3, <2>2, <3>1, <3>2, <3>3
         DEF Control, Run, CancelDone, SkipLaunch, LaunchDone, CheckStopped,
             CheckStalled, CheckWait, Resume, Abort, Over, vars
  <2>3. QED BY <1>1, <2>1, <2>2 DEF Flows, Moved
<1>4. CASE CancelNext
  <2>1. /\ UNCHANGED <<deps, inflight, launched, stopped>> /\ pc' = "cancel"
        /\ \A t \in Task : status'[t] # status[t] =>
              status[t] = "pending" /\ blocked(t) /\ status'[t] = "cancelled"
    BY <1>4 DEF CancelNext, cancelBlocked, graph, TypeOK
  <2>2. QED BY <1>1, <2>1 DEF Flows, Moved, blocked
<1>5. CASE TeardownNext
  <2>1. /\ UNCHANGED <<deps, inflight, launched, stopped>> /\ pc' = "teardown"
        /\ stopped
        /\ \A t \in Task : status'[t] # status[t] =>
              ~isTerminal(t) /\ status'[t] = "cancelled"
    BY <1>5 DEF TeardownNext, cancelBlocked, graph, TypeOK, LaunchInv
  <2>2. QED BY <1>1, <2>1 DEF Flows, Moved, isTerminal
<1>6. CASE Launch
  <2>1. /\ UNCHANGED <<deps, stopped>> /\ pc' = "launch" /\ cursor \in Task
        /\ status[cursor] = "pending" /\ depsCompleted(cursor)
        /\ status' = [status EXCEPT ![cursor] = "running"]
        /\ launched' = launched \cup {cursor}
    BY <1>6 DEF Launch, launchable, start, graph, TypeOK, Task
  <2>2. \A t \in Task : Moved(t)
    BY <2>1 DEF Moved, TypeOK
  <2>3. QED BY <1>1, <2>1, <2>2 DEF Flows
<1>7. ASSUME NEW t \in Task, NEW o \in Outcomes, Settle(t, o), Noted(t, o)
      PROVE  Flows
  <2>1. /\ UNCHANGED <<deps, pc, launched, stopped>>
        /\ inflight' = inflight \ {t}
        /\ status' = IF status[t] = "running"
                        THEN [status EXCEPT ![t] = o] ELSE status
    BY <1>7 DEF Settle, settle, graph
  <2>2. pc' = "resolved" /\ ~stopped' => inflight' = {}
    BY <2>1 DEF TaskInv
  <2>3. ASSUME NEW u \in Task PROVE Moved(u)
    <3>1. CASE u = t /\ status[t] = "running"
      <4>1. status'[u] = o /\ u \in launched
        BY <3>1, <2>1 DEF TypeOK, IInv, SetsAgree
      <4>2. QED BY <4>1, <3>1, <1>7 DEF Moved
    <3>2. CASE ~(u = t /\ status[t] = "running")
      BY <3>2, <2>1 DEF Moved, TypeOK
    <3>3. QED BY <3>1, <3>2
  <2>4. QED BY <1>1, <2>1, <2>2, <2>3 DEF Flows
<1>8. QED BY RunSteps, <1>2, <1>3, <1>4, <1>5, <1>6, <1>7

(* Each step of a run keeps TaskInv.                                        *)
LEMMA TaskStep ==
    ASSUME TypeOK, TypeOK', IInv, LaunchInv, TaskInv, GivenOK, [RunNext]_allVars
    PROVE  TaskInv'
<1>1. Flows
  BY RunFlows
<1>2. /\ strategy' = strategy /\ deps' = deps /\ (stopped => stopped')
      /\ launched \subseteq launched' /\ launched' \subseteq Task
      /\ pc' = "resolved" /\ ~stopped' => inflight' = {}
      /\ \A t \in launched' \ launched : depsCompleted(t)
      /\ \A t \in Task : status[t] \in Status /\ status'[t] \in Status
  BY <1>1 DEF Flows, TypeOK
<1>3. strategy \in Chains => deps' = chain
  BY <1>2 DEF TaskInv
<1>4. ASSUME NEW t \in Task, status'[t] \in {"running", "completed", "failed"}
      PROVE  t \in launched'
  BY <1>1, <1>2, <1>4 DEF Flows, Moved, TaskInv
<1>5. ASSUME NEW t \in Task, status[t] \in Outcomes PROVE status'[t] = status[t]
  BY <1>1, <1>5 DEF Flows, Moved, Outcomes
<1>6. ASSUME ~stopped', NEW t \in Task, status'[t] = "cancelled"
      PROVE  \E u \in launched' : status'[u] \in {"failed", "cancelled"}
  <2>1. ASSUME NEW u \in launched, status[u] \in {"failed", "cancelled"}
        PROVE  \E v \in launched' : status'[v] \in {"failed", "cancelled"}
    BY <2>1, <1>2, <1>5 DEF Outcomes, TypeOK
  <2>2. CASE status[t] = "cancelled"
    BY <2>2, <2>1, <1>2, <1>6 DEF TaskInv
  <2>3. CASE status[t] = "running" /\ t \in launched
    BY <2>3, <1>2, <1>6
  <2>4. CASE \E d \in deps[t] : status[d] \in {"failed", "cancelled"}
    <3>1. PICK d \in deps[t] : status[d] \in {"failed", "cancelled"}
      BY <2>4
    <3>2. d \in Task
      BY DEF TypeOK
    <3>3. \E u \in launched : status[u] \in {"failed", "cancelled"}
      BY <3>1, <3>2, <1>2, <1>6 DEF TaskInv
    <3>4. QED BY <3>3, <2>1
  <2>5. QED BY <1>1, <1>2, <1>6, <2>2, <2>3, <2>4 DEF Flows, Moved
<1>7. ASSUME strategy \in Chains, NEW t \in launched', NEW u \in Task, u < t
      PROVE  status'[u] = "completed"
  <2>1. CASE t \in launched
    <3>1. status[u] = "completed"
      BY <2>1, <1>7 DEF TaskInv
    <3>2. QED BY <3>1, <1>5 DEF Outcomes
  <2>2. CASE t \notin launched
    <3>1. /\ t \in Task /\ t # 1 /\ depsCompleted(t) /\ deps[t] = {t - 1}
          /\ t - 1 \in Task
      BY <2>2, <1>2, <1>7 DEF TaskInv, chain, Task
    <3>2. status[t - 1] = "completed"
      BY <3>1 DEF depsCompleted
    <3>3. t - 1 \in launched
      BY <3>1, <3>2 DEF TaskInv
    <3>4. u = t - 1 \/ u < t - 1
      BY <1>7, <3>1 DEF Task
    <3>5. status[u] = "completed"
      BY <1>7, <3>2, <3>3, <3>4 DEF TaskInv
    <3>6. QED BY <3>5, <1>5 DEF Outcomes
  <2>3. QED BY <2>1, <2>2
<1>8. QED BY <1>2, <1>3, <1>4, <1>6, <1>7 DEF TaskInv

(* The notes change when an answer is noted, and only then.                 *)
LEMMA NotesChange ==
    [RunNext]_allVars => UNCHANGED given \/ \E t \in Task : Answer(t)
BY DEF RunNext, Call, DispatchThrows, Validate, Begin, StartStep, Between,
       SettleStep, PromptThrows, Report, Aggregate, AbortRun, TimerFires,
       OtherCall, RunOver, allVars, records

(* Each step of a run keeps NoteInv.                                        *)
LEMMA NoteStep ==
    ASSUME TypeOK, IInv, LaunchInv, TaskInv, NoteInv, [RunNext]_allVars
    PROVE  NoteInv'
<1>1. GivenOK' /\ Flows
  BY GivenStep, RunFlows DEF NoteInv
<1>2. CASE UNCHANGED given
  <2>1. ASSUME NEW t \in Task, given[t] # "none"
        PROVE  strategy' \in Chains /\ t \in launched'
    BY <1>1, <2>1 DEF NoteInv, Flows
  <2>2. ASSUME strategy' \in Chains, NEW t \in Task, status'[t] = "completed"
        PROVE  given[t] \in {"text", "silent"}
    <3>1. strategy \in Chains
      BY <1>1, <2>2 DEF Flows
    <3>2. CASE status[t] = "completed"
      BY <3>1, <3>2 DEF NoteInv
    <3>3. CASE Noted(t, status'[t])
      BY <3>1, <3>3, <2>2 DEF Noted, outcomeOf, NoteInv, GivenOK, Answers
    <3>4. QED BY <1>1, <2>2, <3>2, <3>3 DEF Flows, Moved
  <2>3. ASSUME NEW t \in Task, given[t] \in {"text", "silent"}
        PROVE  status'[t] \in {"running", "completed"} \/ stopped'
    <3>1. strategy \in Chains /\ (status[t] \in {"running", "completed"} \/ stopped)
      BY <2>3 DEF NoteInv
    <3>2. CASE stopped
      BY <1>1, <3>2 DEF Flows
    <3>3. CASE Noted(t, status'[t])
      BY <3>1, <3>3, <2>3 DEF Noted, outcomeOf
    <3>4. CASE status[t] \in {"running", "completed"} /\ ~stopped
      BY <1>1, <3>3, <3>4 DEF Flows, Moved, Outcomes
    <3>5. QED BY <3>1, <3>2, <3>4
  <2>4. QED BY <1>1, <1>2, <2>1, <2>2, <2>3 DEF NoteInv
<1>3. ASSUME NEW t \in Task, Answer(t) PROVE NoteInv'
  <2>1. /\ strategy \in Chains /\ t \in inflight /\ given[t] = "none"
        /\ pc \notin SyncPhases
        /\ UNCHANGED <<status, launched, stopped, strategy>>
    BY <1>3 DEF Answer, vars
  <2>2. \A u \in Task : u # t => given'[u] = given[u]
    BY <1>3 DEF Answer, NoteInv, GivenOK
  <2>3. t \in launched /\ status[t] # "completed"
    BY <2>1 DEF IInv, SetsAgree, NoteInv
  <2>4. status[t] = "running" \/ stopped
    BY <2>1 DEF IInv, SetsAgree, TaskInv, SyncPhases
  <2>5. QED BY <1>1, <2>1, <2>2, <2>3, <2>4 DEF NoteInv
<1>4. QED BY <1>2, <1>3, NotesChange

(* Each step of a run keeps PromptInv.                                      *)
LEMMA PromptStep ==
    ASSUME TypeOK, IInv, LaunchInv, TaskInv, NoteInv, PromptInv, [RunNext]_allVars
    PROVE  PromptInv'
<1>1. Flows
  BY RunFlows DEF NoteInv
<1>2. /\ strategy' = strategy /\ launched \subseteq launched'
      /\ \A t \in launched' \ launched : depsCompleted(t)
  BY <1>1 DEF Flows
<1>3. \A t \in Task : given[t] = "silent" => given'[t] = "silent"
  BY NotesChange DEF Answer, NoteInv, GivenOK
<1>l. launched \subseteq Task /\ \A t \in Task : t # 1 => t - 1 \in Task
  BY DEF TypeOK, Task
<1>4. CASE StartStep
  <2>1. /\ cursor \in Task /\ launched' = launched \cup {cursor}
        /\ context' = [context EXCEPT ![cursor] = previous(cursor)]
        /\ given' = given /\ depsCompleted(cursor)
    BY <1>4 DEF StartStep, Launch, launchable, start, TypeOK, Task
  <2>2. previous(cursor) \in 0 .. N
    BY <2>1 DEF previous, Task
  <2>3. context' \in [Task -> 0 .. N]
    BY <2>1, <2>2 DEF PromptInv
  <2>4. ASSUME cursor # 1, strategy \in Chains
        PROVE  /\ cursor - 1 \in Task /\ cursor - 1 > 0
               /\ given[cursor - 1] \in {"text", "silent"}
    <3>1. deps[cursor] = {cursor - 1} /\ cursor - 1 \in Task /\ cursor - 1 > 0
      BY <2>1, <2>4 DEF TaskInv, chain, Task
    <3>2. status[cursor - 1] = "completed"
      BY <2>1, <3>1 DEF depsCompleted
    <3>3. QED BY <2>4, <3>1, <3>2 DEF NoteInv
  <2>5. ASSUME cursor # 1
        PROVE  /\ strategy = "sequential" => previous(cursor) = cursor - 1
               /\ strategy = "relay" => \/ previous(cursor) = cursor - 1
                                        \/ given[cursor - 1] = "silent"
    BY <2>4, <2>5 DEF previous, hasResult, hasDraft, Chains
  <2>6. ASSUME NEW t \in launched' \ {1}
        PROVE  /\ strategy = "sequential" => context'[t] = t - 1
               /\ strategy = "relay" => context'[t] = t - 1 \/ given[t - 1] = "silent"
    <3>1. CASE t = cursor
      BY <3>1, <2>6, <2>1, <2>5 DEF PromptInv
    <3>2. CASE t # cursor
      BY <3>2, <2>6, <2>1, <1>l DEF PromptInv
    <3>3. QED BY <3>1, <3>2
  <2>7. QED BY <2>1, <2>3, <2>6, <1>2 DEF PromptInv
<1>5. CASE UNCHANGED <<context, launched>>
  <2>1. ASSUME NEW t \in launched \ {1}
        PROVE  /\ strategy = "sequential" => context[t] = t - 1
               /\ strategy = "relay" => context[t] = t - 1 \/ given'[t - 1] = "silent"
    BY <1>3, <1>l DEF PromptInv
  <2>2. QED BY <1>2, <1>5, <2>1 DEF PromptInv
<1>6. QED
  <2>1. CASE UNCHANGED <<vars, context>>
    BY <2>1, <1>5 DEF vars
  <2>2. CASE Begin \/ Between
    BY <2>2, <1>5 DEF Begin, Between, Run, CancelNext, CancelDone, SkipLaunch,
       LaunchDone, CheckComplete, CheckStopped, CheckStalled, CheckWait, Resume,
       TeardownNext, TeardownDone, records
  <2>3. CASE AbortRun \/ TimerFires
    BY <2>3, <1>5 DEF AbortRun, TimerFires, Abort, records, vars
  <2>4. CASE \E t \in Task : SettleStep(t) \/ PromptThrows(t)
    BY <2>4, <1>5 DEF SettleStep, PromptThrows, Settle, records
  <2>5. QED
    BY <1>4, <2>1, <2>2, <2>3, <2>4
       DEF RunNext, Call, DispatchThrows, Validate, Answer, Report, Aggregate,
           OtherCall, RunOver, allVars, records

(* The last of a set of tasks.                                              *)
LEMMA LastOf ==
    ASSUME NEW S, S \subseteq Task
    PROVE  last(S) \in 0 .. N /\ \A j \in S : j <= last(S)
<1>1. CASE S = {}
  BY <1>1 DEF last
<1>2. CASE S # {}
  <2> DEFINE V == {N - j : j \in S}
  <2>1. V \subseteq Nat /\ V # {}
    <3>1. \A j \in S : N - j \in Nat
      BY DEF Task
    <3>2. PICK j \in S : TRUE
      BY <1>2
    <3>3. N - j \in V
      BY <3>2
    <3>4. QED BY <3>1, <3>3
  <2>2. PICK v \in V : \A w \in V : <<w, v>> \notin OpToRel(<, Nat)
    BY <2>1, NatLessThanWellFounded, WFMin, Zenon
  <2>3. \A w \in V : ~(w < v)
    BY <2>1, <2>2, Zenon DEF OpToRel
  <2>4. PICK k \in S : v = N - k
    OBVIOUS
  <2>5. \A j \in S : j <= k
    <3>1. \A j \in S : N - j \in V
      OBVIOUS
    <3>2. \A j \in S : ~(N - j < N - k)
      BY <2>3, <2>4, <3>1
    <3>3. QED BY <3>2 DEF Task
  <2>6. last(S) \in S /\ \A j \in S : j <= last(S)
    BY <1>2, <2>5 DEF last
  <2>7. last(S) \in Task /\ Task \subseteq 0 .. N
    <3>1. last(S) \in Task
      BY <2>6
    <3>2. Task \subseteq 0 .. N
      BY DEF Task
    <3>3. QED BY <3>1, <3>2
  <2>8. QED BY <2>6, <2>7
<1>3. QED BY <1>1, <1>2

(* The report that is made of a run that resolved.                          *)
LEMMA ReportMade ==
    ASSUME TypeOK, IInv, TaskInv, NoteInv, Report
    PROVE  ReportInv'
<1>1. /\ pc = "resolved" /\ UNCHANGED <<vars, strategy, given>>
      /\ report' = [entries |-> [t \in Task |-> entry(t)], final |-> finalStep]
  BY DEF Report
<1>2. /\ UNCHANGED <<pc, status, stopped>>
      /\ report'.final = finalStep /\ \A t \in Task : report'.entries[t] = entry(t)
  BY <1>1 DEF vars
<1>3. \A t \in Task : status[t] \in Outcomes
  BY <1>1 DEF IInv, TeardownProgress, isComplete, isTerminal
<1>4. \A t \in Task : given[t] \in Answers \cup {"none"}
  BY DEF NoteInv, GivenOK
<1>5. \A t \in Task : entry(t) \in Answers \cup Outcomes
  BY <1>3, <1>4 DEF entry
<1>6. finalStep \in 0 .. N
  <2>1. /\ {t \in Task : outcomeOf(entry(t)) = "completed"} \subseteq Task
        /\ {t \in Task : \A u \in 1 .. t : hasDraft(u)} \subseteq Task
    OBVIOUS
  <2>2. lastSuccess \in 0 .. N /\ lastDraft \in 0 .. N
    BY <2>1, LastOf DEF lastSuccess, lastDraft
  <2>3. QED BY <2>2 DEF finalStep
<1>7. report' \in [entries : [Task -> Answers \cup Outcomes], final : 0 .. N]
  BY <1>1, <1>5, <1>6
(* What is done is what the scheduler has as completed, if nothing was      *)
(* stopped.                                                                 *)
<1> DEFINE done(t) == outcomeOf(entry(t)) = "completed"
<1>8. \A t \in Task : isDone(t)' <=> done(t)
  BY <1>2 DEF isDone
<1>9. ASSUME NEW t \in Task, status[t] = "completed" PROVE done(t)
  <2>1. CASE given[t] = "none"
    BY <2>1, <1>9 DEF entry, outcomeOf
  <2>2. CASE given[t] # "none"
    BY <2>2, <1>9 DEF entry, outcomeOf, NoteInv
  <2>3. QED BY <2>1, <2>2
<1>a. ASSUME NEW t \in Task, done(t)
      PROVE  given[t] \in {"text", "silent"} \/ (given[t] = "none" /\ status[t] = "completed")
  <2>1. CASE given[t] = "none"
    BY <2>1, <1>a, <1>3 DEF entry, outcomeOf, Outcomes
  <2>2. CASE given[t] # "none"
    BY <2>2, <1>a, <1>4 DEF entry, outcomeOf, Answers
  <2>3. QED BY <2>1, <2>2
<1>b. ASSUME NEW t \in Task, done(t), status[t] # "completed" PROVE stopped
  <2>1. status[t] \in {"running", "completed"} \/ stopped
    BY <1>a, <1>b DEF NoteInv
  <2>2. QED BY <2>1, <1>3, <1>b DEF Outcomes
<1>c. ASSUME strategy \in Chains, NEW t \in Task, done(t)
      PROVE  /\ given[t] \in {"text", "silent"}
             /\ \A u \in Task : u < t => done(u)
  <2>1. given[t] \in {"text", "silent"}
    BY <1>a, <1>c DEF NoteInv
  <2>2. t \in launched
    BY <2>1 DEF NoteInv
  <2>3. \A u \in Task : u < t => status[u] = "completed"
    BY <2>2, <1>c DEF TaskInv
  <2>4. QED BY <2>1, <2>3, <1>9
<1>t. \A t \in Task : 1 .. t - 1 = {u \in Task : u < t}
                      /\ 1 .. t = {u \in Task : u < t} \cup {t}
  BY DEF Task
<1>d. ASSUME strategy = "sequential", NEW t \in Task, done(t)
      PROVE  finalStep >= t
  <2> DEFINE S == {k \in Task : outcomeOf(entry(k)) = "completed"}
  <2>1. finalStep = last(S)
    BY <1>d DEF finalStep, lastSuccess
  <2>2. t \in S /\ S \subseteq Task
    BY <1>d
  <2> HIDE DEF S
  <2>3. t <= last(S) /\ last(S) \in 0 .. N
    BY <2>2, LastOf
  <2>4. QED BY <2>1, <2>3 DEF Task
<1>e. ASSUME strategy = "relay", NEW t \in Task, entry(t) = "text",
             \A u \in 1 .. t - 1 : entry(u) # "silent"
      PROVE  finalStep >= t
  <2> DEFINE S == {k \in Task : \A u \in 1 .. k : hasDraft(u)}
  <2>1. finalStep = last(S)
    BY <1>e DEF finalStep, lastDraft
  <2>2. done(t) /\ strategy \in Chains
    BY <1>e DEF outcomeOf, Chains
  <2>3. \A u \in 1 .. t : u \in Task /\ u > 0 /\ done(u) /\ entry(u) # "silent"
    BY <2>2, <1>c, <1>t, <1>e DEF Task
  <2>4. \A u \in 1 .. t : hasDraft(u)
    <3> TAKE u \in 1 .. t
    <3>1. given[u] \in {"text", "silent"}
      BY <2>2, <2>3, <1>c
    <3>2. entry(u) = given[u]
      BY <3>1 DEF entry
    <3>3. QED BY <3>1, <3>2, <2>3 DEF hasDraft
  <2>5. t \in S /\ S \subseteq Task
    BY <2>4
  <2> HIDE DEF S
  <2>6. t <= last(S) /\ last(S) \in 0 .. N
    BY <2>5, LastOf
  <2>7. QED BY <2>1, <2>6 DEF Task
<1> HIDE DEF done
<1>f. ASSUME NEW t \in Task
      PROVE  /\ status'[t] = "completed" => isDone(t)'
             /\ isDone(t)' /\ status'[t] # "completed" => stopped'
             /\ strategy' \in Chains /\ isDone(t)' => \A u \in 1 .. t - 1 : isDone(u)'
             /\ strategy' = "sequential" /\ isDone(t)' => report'.final >= t
             /\ strategy' = "relay" /\ report'.entries[t] = "text" =>
                   \/ report'.final >= t
                   \/ \E u \in 1 .. t - 1 : report'.entries[u] = "silent"
  <2>1. /\ status'[t] = "completed" => isDone(t)'
        /\ isDone(t)' /\ status'[t] # "completed" => stopped'
    BY <1>2, <1>8, <1>9, <1>b
  <2>2. strategy' \in Chains /\ isDone(t)' => \A u \in 1 .. t - 1 : isDone(u)'
    BY <1>1, <1>8, <1>c, <1>t
  <2>3. strategy' = "sequential" /\ isDone(t)' => report'.final >= t
    BY <1>1, <1>2, <1>8, <1>d
  <2>4. \A u \in 1 .. t - 1 : u \in Task
    BY <1>t
  <2>5. strategy' = "relay" /\ report'.entries[t] = "text" =>
                   \/ report'.final >= t
                   \/ \E u \in 1 .. t - 1 : report'.entries[u] = "silent"
    BY <2>4, <1>1, <1>2, <1>e
  <2>6. QED BY <2>1, <2>2, <2>3, <2>5
<1>g. QED BY <1>1, <1>2, <1>7, <1>f DEF ReportInv

(* Each step of a run keeps ReportInv: nothing that happens after a run     *)
(* resolved changes the status of a task.                                   *)
LEMMA ReportStep ==
    ASSUME TypeOK, IInv, LaunchInv, TaskInv, NoteInv, ReportInv, [RunNext]_allVars
    PROVE  ReportInv'
<1>1. Flows
  BY RunFlows DEF NoteInv
<1>2. CASE UNCHANGED report
  <2>1. CASE report = NoReport
    BY <1>2, <2>1 DEF ReportInv
  <2>2. CASE report # NoReport
    <3>1. pc = "resolved"
      BY <2>2 DEF ReportInv
    <3>2. pc' = "resolved"
      BY <3>1, RunSteps DEF NoteInv, vars, Control, Run, CancelNext, CancelDone,
         Launch, SkipLaunch, LaunchDone, CheckComplete, CheckStopped, CheckStalled,
         CheckWait, Resume, TeardownNext, TeardownDone, Settle, Abort, Over
    <3>3. \A t \in Task : status[t] \in Outcomes
      BY <3>1 DEF IInv, TeardownProgress, isComplete, isTerminal
    <3>4. \A t \in Task : status'[t] = status[t]
      BY <3>3, <1>1 DEF Flows, Moved, Outcomes
    <3>5. strategy' = strategy /\ (stopped => stopped')
      BY <1>1 DEF Flows
    <3>6. \A t \in Task : isDone(t)' <=> isDone(t)
      BY <1>2 DEF isDone
    <3>7. \A t \in Task : \A u \in 1 .. t - 1 : isDone(u)' <=> isDone(u)
      BY <1>2 DEF isDone
    <3>8. QED BY <1>2, <2>2, <3>2, <3>4, <3>5, <3>6, <3>7 DEF ReportInv
  <2>3. QED BY <2>1, <2>2
<1>3. CASE Report
  BY <1>3, ReportMade
<1>4. QED
  BY <1>2, <1>3 DEF RunNext, Call, DispatchThrows, Validate, Begin, StartStep,
     Between, Answer, SettleStep, PromptThrows, Aggregate, AbortRun, TimerFires,
     OtherCall, RunOver, allVars, records

LEMMA RecordsInit == RunInit => RecordsInv
<1> SUFFICES ASSUME RunInit PROVE RecordsInv
  OBVIOUS
<1>1. /\ strategy \in Supervised \cup {"dag", "plan"}
      /\ built(declared) /\ deps = [t \in Task |-> declared[t] \cap Task] /\ Init
      /\ given = [t \in Task |-> "none"] /\ context = [t \in Task |-> 0]
      /\ report = NoReport
  BY DEF RunInit
<1>2. ASSUME strategy \in Chains PROVE deps = chain
  <2>1. declared = chain
    BY <1>1, <1>2 DEF built
  <2>2. \A t \in Task : chain[t] \cap Task = chain[t]
    BY DEF chain, Task
  <2>3. deps = [t \in Task |-> chain[t]]
    BY <1>1, <2>1, <2>2
  <2>4. QED BY <2>3 DEF chain
<1>3. TaskInv
  BY <1>1, <1>2 DEF TaskInv, Init
<1>4. NoteInv
  BY <1>1 DEF NoteInv, GivenOK, Init
<1>5. PromptInv
  BY <1>1 DEF PromptInv, Init
<1>6. ReportInv
  BY <1>1 DEF ReportInv
<1>7. QED BY <1>3, <1>4, <1>5, <1>6 DEF RecordsInv

LEMMA RecordsStep ==
    TypeOK /\ TypeOK' /\ IInv /\ LaunchInv /\ RecordsInv /\ [RunNext]_allVars
        => RecordsInv'
BY TaskStep, NoteStep, PromptStep, ReportStep DEF RecordsInv, NoteInv

-----------------------------------------------------------------------------
(* Each step of a run keeps SignalInv.                                      *)
LEMMA SignalStep ==
    ASSUME TypeOK, LaunchInv, CallInv, SignalInv, [RunNext]_allVars
    PROVE  SignalInv'
<1>1. CASE UNCHANGED <<stopped, aborted, pc, timer, strategy, cancelled>>
  BY <1>1 DEF SignalInv
<1>2. CASE Call
  <2>1. /\ pc = "idle" /\ UNCHANGED <<stopped, aborted, pc, timer, strategy>>
    BY <1>2 DEF Call, vars
  <2>2. QED BY <2>1 DEF SignalInv
<1>3. CASE DispatchThrows
  <2>1. /\ UNCHANGED <<stopped, aborted, pc, strategy, cancelled>> /\ timer' = "none"
        /\ vpc = "check"
    BY <1>3 DEF DispatchThrows, vars
  <2>2. pc = "idle"
    BY <2>1 DEF CallInv
  <2>3. QED BY <2>1, <2>2 DEF SignalInv
<1>4. CASE Begin
  <2>1. /\ pc = "idle" /\ pc' = "cancel" /\ UNCHANGED <<stopped, timer, strategy, cancelled>>
        /\ strategy \in Supervised => aborted' = cancelled
    BY <1>4 DEF Begin, Run, supervisor
  <2>2. ~stopped /\ timer # "fired"
    BY <2>1 DEF SignalInv
  <2>3. QED BY <2>1, <2>2 DEF SignalInv
<1>5. CASE StartStep
  <2>1. /\ pc = "launch" /\ pc' = "launch" /\ UNCHANGED <<stopped, timer, strategy>>
        /\ aborted' \in {aborted, TRUE}
    BY <1>5 DEF StartStep, Launch
  <2>2. cancelled' = (cancelled \/ (strategy \in Supervised /\ aborted' # aborted))
    BY <1>5 DEF StartStep
  <2>3. (aborted => aborted') /\ (cancelled => cancelled')
    <3>1. CASE aborted' = aborted
      BY <3>1, <2>2, Zenon
    <3>2. CASE aborted' = TRUE
      BY <3>2, <2>2, Zenon
    <3>3. QED BY <2>1, <3>1, <3>2
  <2>4. strategy \in Supervised /\ aborted' => cancelled' \/ timer = "fired"
    BY <2>1, <2>2 DEF SignalInv
  <2>5. QED BY <2>1, <2>3, <2>4 DEF SignalInv
<1>6. CASE Between
  <2>1. /\ pc # "idle" /\ pc' # "idle"
        /\ UNCHANGED <<timer, strategy, cancelled, aborted>>
    BY <1>6 DEF Between, supervisor, CancelNext, CancelDone, SkipLaunch, LaunchDone,
       CheckComplete, CheckStopped, CheckStalled, CheckWait, Resume, TeardownNext,
       TeardownDone
  <2>2. stopped' => aborted
    <3>1. CASE CancelDone
      BY <3>1 DEF CancelDone, SignalInv
    <3>2. CASE CheckStopped
      BY <3>2 DEF CheckStopped, SignalInv
    <3>3. CASE stopped' = stopped
      BY <3>3 DEF SignalInv
    <3>4. QED
      BY <1>6, <3>1, <3>2, <3>3
         DEF Between, CancelNext, SkipLaunch, LaunchDone, CheckComplete,
             CheckStalled, CheckWait, Resume, TeardownNext, TeardownDone
  <2>3. QED BY <2>1, <2>2 DEF SignalInv
<1>7. ASSUME NEW t \in Task, SettleStep(t) \/ PromptThrows(t)
      PROVE  UNCHANGED <<stopped, aborted, pc, timer, strategy, cancelled>>
  BY <1>7 DEF SettleStep, PromptThrows, Settle, supervisor
<1>8. CASE Aggregate
  <2>1. /\ UNCHANGED <<stopped, aborted, pc, strategy, cancelled>>
        /\ timer' = "fired" <=> timer = "fired"
    BY <1>8 DEF Aggregate, vars
  <2>2. QED BY <2>1 DEF SignalInv
<1>9. CASE AbortRun
  <2>1. /\ UNCHANGED <<stopped, pc, timer, strategy>> /\ (aborted => aborted')
        /\ pc # "idle"
    BY <1>9 DEF AbortRun, Abort, vars
  <2>2. strategy \in Supervised => cancelled'
    BY <1>9 DEF AbortRun
  <2>3. QED BY <2>1, <2>2 DEF SignalInv
<1>a. CASE TimerFires
  <2>1. /\ pc = "wait" /\ UNCHANGED <<stopped, pc, strategy, cancelled>>
        /\ aborted' = TRUE /\ timer' = "fired"
    BY <1>a DEF TimerFires, Abort, asleep
  <2>2. QED BY <2>1 DEF SignalInv
<1>b. CASE Validate \/ Report \/ OtherCall \/ RunOver \/ UNCHANGED allVars
  BY <1>b, <1>1 DEF Validate, Report, OtherCall, RunOver, allVars, vars, supervisor
<1>c. ASSUME NEW t \in Task, Answer(t)
      PROVE  UNCHANGED <<stopped, aborted, pc, timer, strategy, cancelled>>
  BY <1>c DEF Answer, vars, supervisor
<1>d. QED
  BY <1>1, <1>2, <1>3, <1>4, <1>5, <1>6, <1>7, <1>8, <1>9, <1>a, <1>b, <1>c
     DEF RunNext

(* Each step of a run keeps CallInv.                                        *)
LEMMA CallStep ==
    ASSUME TypeOK, JudgeInv, CallInv, SignalInv, ReportInv, [RunNext]_allVars
    PROVE  CallInv'
<1> USE DEF Terminal
<1>r. report # NoReport => pc = "resolved"
  BY DEF ReportInv
<1>1. CASE UNCHANGED <<state, cancelled, timer, result, strategy, pc, vpc, vcursor,
                       report>>
  BY <1>1 DEF CallInv
<1>2. CASE Call
  <2>1. /\ pc = "idle" /\ result = "none" /\ state' = "running" /\ cancelled' \in BOOLEAN
        /\ UNCHANGED <<timer, result, strategy, pc, vpc, vcursor, report>>
    BY <1>2 DEF Call, vars, verdict, records
  <2>2. QED BY <2>1 DEF CallInv
<1>3. CASE DispatchThrows
  <2>1. /\ vpc = "check" /\ vcursor = 1 /\ strategy \in Supervised
        /\ result' \in {"cancelled", "failed"} /\ state' = result' /\ timer' = "none"
        /\ UNCHANGED <<cancelled, strategy, pc, vpc, vcursor, report>>
    BY <1>3 DEF DispatchThrows, vars, verdict, records
  <2>2. pc = "idle"
    BY <2>1 DEF CallInv
  <2>3. QED BY <2>1, <2>2 DEF CallInv
<1>4. CASE Validate
  <2>1. /\ strategy \in Supervised => state = "running"
        /\ Judge!Next /\ UNCHANGED <<state, cancelled, timer, result, strategy, pc, report>>
    BY <1>4 DEF Validate, vars, records, supervisor
  <2>2. vpc # "done"
    BY <2>1 DEF Judge!Next, Judge!Search, Judge!CheckTask, Judge!CheckDone,
       Judge!Root, Judge!FindCycle, Judge!Descend, Judge!PassOver, Judge!Leave,
       Judge!SearchDone
  <2>3. pc = "idle"
    BY <2>2 DEF CallInv
  <2>4. result = "none"
    <3>1. result # "none" => strategy \in Supervised /\ state \in {result, "failed"}
                             /\ result \in {"cancelled", "failed"}
      BY <2>3 DEF CallInv
    <3>2. QED BY <3>1, <2>1
  <2>5. QED BY <2>1, <2>3, <2>4 DEF CallInv
<1>5. CASE Begin
  <2>1. /\ pc = "idle" /\ vpc = "done" /\ pc' = "cancel"
        /\ UNCHANGED <<state, cancelled, timer, result, strategy, vpc, vcursor, report>>
    BY <1>5 DEF Begin, Run, verdict, records, supervisor
  <2>2. result = "none"
    BY <2>1 DEF CallInv, ReportInv
  <2>3. QED BY <2>1, <2>2 DEF CallInv
<1>6. CASE StartStep
  <2>1. /\ pc = "launch" /\ pc' = "launch"
        /\ UNCHANGED <<state, timer, result, strategy, vpc, vcursor, report>>
    BY <1>6 DEF StartStep, Launch, verdict, records
  <2>2. cancelled' \in BOOLEAN
    BY <1>6, Zenon DEF StartStep
  <2>3. QED BY <2>1, <2>2 DEF CallInv
<1>7. CASE Between
  <2>1. /\ pc \notin {"idle", "resolved"} /\ pc' # "idle"
        /\ UNCHANGED <<state, cancelled, timer, result, strategy, vpc, vcursor, report>>
    BY <1>7 DEF Between, verdict, records, supervisor, CancelNext, CancelDone,
       SkipLaunch, LaunchDone, CheckComplete, CheckStopped, CheckStalled, CheckWait,
       Resume, TeardownNext, TeardownDone
  <2>2. QED BY <2>1 DEF CallInv
<1>8. ASSUME NEW t \in Task, SettleStep(t) \/ PromptThrows(t)
      PROVE  UNCHANGED <<state, cancelled, timer, result, strategy, pc, vpc, vcursor,
                         report>>
  BY <1>8 DEF SettleStep, PromptThrows, Settle, verdict, records, supervisor
<1>9. CASE Report
  <2>1. /\ pc = "resolved" /\ report = NoReport
        /\ UNCHANGED <<state, cancelled, timer, result, strategy, pc, vpc, vcursor>>
    BY <1>9 DEF Report, vars, verdict, supervisor
  <2>2. result = "none"
    BY <2>1 DEF CallInv
  <2>3. QED BY <2>1, <2>2 DEF CallInv
<1>a. CASE Aggregate
  <2>1. /\ strategy \in Supervised /\ report # NoReport /\ result = "none"
        /\ UNCHANGED <<cancelled, strategy, pc, vpc, vcursor, report>>
        /\ timer' = IF timer = "armed" THEN "none" ELSE timer
    BY <1>a DEF Aggregate, vars, verdict, records
  <2>2. pc = "resolved" /\ state = "running"
    BY <2>1, <1>r DEF CallInv
  <2>3. runStatus \in Terminal
    BY DEF runStatus
  <2>4. state' = runStatus /\ result' = runStatus
    BY <1>a, <2>2, <2>3 DEF Aggregate, legal
  <2>5. QED BY <2>1, <2>2, <2>3, <2>4 DEF CallInv
<1>b. CASE AbortRun
  <2>1. UNCHANGED <<state, timer, result, strategy, pc, vpc, vcursor, report>>
        /\ cancelled' \in BOOLEAN
    BY <1>b DEF AbortRun, Abort, vars, verdict, records, CallInv
  <2>2. QED BY <2>1 DEF CallInv
<1>c. CASE TimerFires
  <2>1. /\ UNCHANGED <<state, cancelled, result, strategy, pc, vpc, vcursor, report>>
        /\ timer = "armed" /\ timer' = "fired"
    BY <1>c DEF TimerFires, Abort, vars, verdict, records
  <2>2. QED BY <2>1 DEF CallInv
<1>d. CASE OtherCall
  <2>1. /\ strategy \in Supervised /\ pc \in {"wait", "resolved"}
        /\ state' = IF state \in {"running", "aggregating"} THEN state ELSE "failed"
        /\ UNCHANGED <<cancelled, timer, result, strategy, pc, vpc, vcursor, report>>
    BY <1>d DEF OtherCall, vars, verdict, records
  <2>2. QED BY <2>1 DEF CallInv
<1>e. CASE RunOver \/ UNCHANGED allVars
  BY <1>e, <1>1 DEF RunOver, allVars, vars, verdict, records, supervisor
<1>f. ASSUME NEW t \in Task, Answer(t)
      PROVE  UNCHANGED <<state, cancelled, timer, result, strategy, pc, vpc, vcursor,
                         report>>
  BY <1>f DEF Answer, vars, verdict, supervisor
<1>g. QED
  BY <1>1, <1>2, <1>3, <1>4, <1>5, <1>6, <1>7, <1>8, <1>9, <1>a, <1>b, <1>c, <1>d,
     <1>e, <1>f DEF RunNext

(* A call that has its result is neither timed out nor cancelled any more.  *)
LEMMA ResultStays ==
    ASSUME CallInv, result # "none", [RunNext]_allVars
    PROVE  /\ result' = result /\ cancelled' = cancelled
           /\ timer' = "fired" <=> timer = "fired"
           /\ pc' = pc
<1>1. /\ strategy \in Supervised /\ timer # "armed" /\ state \in {result, "failed"}
      /\ pc \in {"idle", "resolved"}
      /\ pc = "idle" => state # "running" /\ vpc = "check"
      /\ pc = "resolved" => vpc = "done"
  BY DEF CallInv
<1>2. CASE UNCHANGED <<result, cancelled, timer, pc>>
  BY <1>2
<1>3. CASE DispatchThrows
  BY <1>1, <1>3 DEF DispatchThrows
<1>4. CASE Begin \/ StartStep \/ Between
  BY <1>1, <1>4 DEF Begin, Run, StartStep, Launch, Between, CancelNext, CancelDone,
     SkipLaunch, LaunchDone, CheckComplete, CheckStopped, CheckStalled, CheckWait,
     Resume, TeardownNext, TeardownDone
<1>5. CASE Call \/ Aggregate \/ AbortRun \/ TimerFires
  BY <1>1, <1>5 DEF Call, Aggregate, AbortRun, TimerFires
<1>6. CASE \E t \in Task : Answer(t) \/ SettleStep(t) \/ PromptThrows(t)
  BY <1>2, <1>6 DEF Answer, SettleStep, PromptThrows, Settle, vars, supervisor
<1>7. CASE Validate \/ Report \/ OtherCall \/ RunOver \/ UNCHANGED allVars
  BY <1>2, <1>7 DEF Validate, Report, OtherCall, RunOver, allVars, vars, supervisor
<1>8. QED BY <1>3, <1>4, <1>5, <1>6, <1>7 DEF RunNext

(* What Aggregate finds in the report is true of the tasks.                 *)
LEMMA Aggregated ==
    ASSUME TypeOK, IInv, RecordsInv, CallInv, SignalInv, Aggregate
    PROVE  ResultInv'
<1>1. /\ strategy \in Supervised /\ report # NoReport /\ result = "none"
      /\ UNCHANGED <<cancelled, pc, status, launched>>
      /\ timer' = "fired" <=> timer = "fired"
  BY DEF Aggregate, vars
<1>2. pc = "resolved" /\ state = "running"
  BY <1>1 DEF RecordsInv, ReportInv, CallInv
<1>3. result' = runStatus
  BY <1>2 DEF Aggregate, legal, runStatus, Terminal
<1>4. /\ runStatus = "timeout" <=> timer = "fired"
      /\ runStatus = "cancelled" <=> cancelled /\ timer # "fired"
  BY DEF runStatus
<1>5. ASSUME runStatus = "completed", NEW t \in Task PROVE status[t] = "completed"
  <2>1. ok
    BY <1>5 DEF runStatus
  <2>2. ~stopped /\ isDone(t)
    BY <2>1 DEF ok, isDone
  <2>3. QED BY <1>1, <2>2 DEF RecordsInv, ReportInv
<1>6. ASSUME runStatus = "failed"
      PROVE  \E t \in launched : status[t] # "completed"
  <2>1. ~ok /\ timer # "fired" /\ ~cancelled
    BY <1>6 DEF runStatus
  <2>2. ~aborted /\ ~stopped
    BY <1>1, <2>1 DEF SignalInv
  <2>3. PICK t \in Task : ~isDone(t)
    BY <2>1, <2>2 DEF ok, isDone
  <2>4. status[t] \in {"failed", "cancelled"}
    BY <1>1, <1>2, <2>3 DEF RecordsInv, ReportInv, IInv, TeardownProgress, isComplete,
       isTerminal, Outcomes
  <2>5. QED BY <2>2, <2>4 DEF RecordsInv, TaskInv
<1>7. QED BY <1>1, <1>3, <1>4, <1>5, <1>6 DEF ResultInv

(* Each step of a run keeps ResultInv.                                      *)
LEMMA ResultStep ==
    ASSUME TypeOK, IInv, LaunchInv, RecordsInv, CallInv, SignalInv, ResultInv,
           [RunNext]_allVars
    PROVE  ResultInv'
<1>1. Flows
  BY RunFlows DEF RecordsInv, NoteInv
<1>2. CASE result # "none"
  <2>1. /\ result' = result /\ cancelled' = cancelled
        /\ timer' = "fired" <=> timer = "fired"
        /\ pc' = pc
    BY <1>2, ResultStays
  <2>2. CASE pc = "resolved"
    <3>1. \A t \in Task : status[t] \in Outcomes
      BY <2>2 DEF IInv, TeardownProgress, isComplete, isTerminal
    <3>2. \A t \in Task : status'[t] = status[t]
      BY <3>1, <1>1 DEF Flows, Moved, Outcomes
    <3>3. launched \subseteq launched' /\ launched \subseteq Task
      BY <1>1 DEF Flows, TypeOK
    <3>4. QED BY <1>2, <2>1, <3>2, <3>3 DEF ResultInv
  <2>3. CASE pc # "resolved"
    <3>1. result \in {"cancelled", "failed"}
      BY <1>2, <2>3 DEF CallInv
    <3>2. QED BY <1>2, <2>1, <2>3, <3>1 DEF ResultInv
  <2>4. QED BY <2>2, <2>3
<1>3. CASE result = "none"
  <2>1. CASE DispatchThrows
    <3>1. /\ vpc = "check" /\ result' = (IF cancelled THEN "cancelled" ELSE "failed")
          /\ cancelled' = cancelled /\ timer' = "none" /\ pc' = pc
      BY <2>1 DEF DispatchThrows, vars
    <3>2. pc = "idle"
      BY <3>1 DEF CallInv
    <3>3. QED BY <3>1, <3>2 DEF ResultInv
  <2>2. CASE Aggregate
    BY <2>2, Aggregated
  <2>3. CASE result' = "none"
    BY <2>3 DEF ResultInv
  <2>4. QED
    BY <1>3, <2>1, <2>2, <2>3
       DEF RunNext, Call, Validate, Begin, StartStep, Between, Answer, SettleStep,
           PromptThrows, Report, AbortRun, TimerFires, OtherCall, RunOver, allVars,
           supervisor
<1>4. QED BY <1>2, <1>3

LEMMA SupervisorInit == RunInit => SupervisorInv
<1> SUFFICES ASSUME RunInit PROVE SupervisorInv
  OBVIOUS
<1>1. /\ pc = "idle" /\ vpc = "check" /\ vcursor = 1 /\ ~aborted /\ ~stopped
      /\ state \in {"created"} \cup Terminal /\ cancelled = FALSE /\ result = "none"
      /\ timer \in {"none", "armed"}
  BY DEF RunInit, Init, Judge!Init
<1>2. QED BY <1>1 DEF SupervisorInv, CallInv, SignalInv, ResultInv

LEMMA SupervisorStep ==
    TypeOK /\ IInv /\ LaunchInv /\ JudgeInv /\ RecordsInv /\ SupervisorInv
           /\ [RunNext]_allVars => SupervisorInv'
BY SignalStep, CallStep, ResultStep DEF SupervisorInv, RecordsInv

(* The inductive invariant of a run, beside those of Scheduler.             *)
RunInv == JudgeInv /\ RecordsInv /\ SupervisorInv

(* It holds through every strategy, signal, timer and late answer.          *)
THEOREM RunInvariance == RunSpec => []RunInv
<1>1. RunInit => RunInv
  BY JudgeInit, RecordsInit, SupervisorInit DEF RunInv
<1>2. /\ TypeOK /\ TypeOK' /\ IInv /\ LaunchInv /\ RunInv /\ [RunNext]_allVars
      => RunInv'
  BY RunJudges, JudgeStep, JudgeStutter, RecordsStep, SupervisorStep DEF RunInv
<1>3. QED
  BY <1>1, <1>2, RunsScheduler, TypeCorrect, Invariance, LaunchInvariance, PTL
     DEF RunSpec

(* A strategy's records, made beside those of the scheduler, say the same;  *)
(* each step of a chain is prompted with what came before it, and the final *)
(* draft is the last one (sequential.ts:74-110, relay.ts:84-137).           *)
THEOREM StrategiesRight == RunSpec => []StrategyRight
<1>1. TypeOK /\ RunInv => RunTypeOK
  BY DEF RunInv, RecordsInv, SupervisorInv, TaskInv, NoteInv, GivenOK, PromptInv,
         ReportInv, CallInv, RunTypeOK
<1>2. TypeOK /\ RunInv => StrategyRight
  BY <1>1 DEF RunInv, RecordsInv, PromptInv, ReportInv, StrategyRight, RecordsRight,
              ContextRight
<1>3. QED BY <1>2, RunInvariance, RunsScheduler, TypeCorrect, PTL

(* What Supervisor.run tells is true to the tasks, the timer and the signal,*)
(* and nobody else's call disturbs the lifecycle of an active run           *)
(* (supervisor.ts:191-195, :223-232).                                       *)
THEOREM OutcomesRight == RunSpec => []OutcomeRight
<1>1. RunInv => OutcomeRight
  <2> SUFFICES ASSUME RunInv PROVE OutcomeRight
    OBVIOUS
  <2>1. CallInv /\ SignalInv /\ ResultInv
    BY DEF RunInv, SupervisorInv
  <2>2. strategy \in Supervised /\ pc \notin {"idle", "resolved"} => state = "running"
    BY <2>1 DEF CallInv
  <2>3. result # "none" => result \in Terminal /\ state \in {result, "failed"}
    BY <2>1 DEF CallInv
  <2>4. result # "none" /\ aborted => result \in {"timeout", "cancelled"}
    BY <2>1 DEF CallInv, SignalInv, ResultInv
  <2>5. QED BY <2>1, <2>2, <2>3, <2>4 DEF OutcomeRight, ResultInv
<1>2. QED BY <1>1, RunInvariance, PTL
=============================================================================
