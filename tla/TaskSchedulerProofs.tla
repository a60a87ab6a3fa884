------------------------ MODULE TaskSchedulerProofs ------------------------
(***************************************************************************)
(* Theorems about TaskScheduler, for every number of tasks, every set of   *)
(* acyclic plans, every size of the pool and every timeout and deadline.   *)
(***************************************************************************)
EXTENDS TaskScheduler, FiniteSetTheorems, WellFoundedInduction, TLAPS

USE NAssumption, WorkersAssumption, MaxConcurrencyAssumption, TimeAssumption
    DEF NAssumption, WorkersAssumption, MaxConcurrencyAssumption, TimeAssumption

LEMMA TasksFinite ==
    /\ IsFiniteSet(Task)
    /\ \A S \in SUBSET Task : IsFiniteSet(S) /\ Cardinality(S) \in Nat
<1>1. IsFiniteSet(Task)
  BY FS_Interval DEF Task
<1> QED
  BY <1>1, FS_Subset, FS_CardinalityType

LEMMA LeastTask ==
    ASSUME NEW S \in SUBSET Task, S # {}
    PROVE  \E t \in S : \A u \in S : t <= u
<1>1. S \subseteq Nat
  BY DEF Task
<1>2. PICK t \in S : \A u \in S : <<u, t>> \notin OpToRel(<, Nat)
  BY <1>1, NatLessThanWellFounded, WFMin, Zenon
<1>3. \A u \in S : ~(u < t)
  BY <1>1, <1>2, Zenon DEF OpToRel
<1> QED
  BY <1>1, <1>3

(* first is the task that _launch_ready comes to.                           *)
LEMMA FirstReady ==
    ASSUME pending \subseteq Task, ready # {}
    PROVE  /\ first \in ready /\ first \in pending /\ first \in Task
           /\ \A t \in ready : first <= t
<1>1. ready \in SUBSET Task
  BY DEF ready
<1>2. \E t \in ready : \A u \in ready : t <= u
  BY <1>1, LeastTask
<1>3. first \in ready /\ \A t \in ready : first <= t
  BY <1>2 DEF first
<1> QED
  BY <1>1, <1>3 DEF ready

-----------------------------------------------------------------------------
(* What every step does to the pool                                         *)
held == Pool!inState({"queued", "executing"})

LEMMA Balance ==
    /\ Pool!SlotsBalanced <=> slots + others + Cardinality(held) = Workers
    /\ Pool!SlotsBalanced' <=> slots' + others' + Cardinality(held') = Workers
    /\ IsFiniteSet(held) /\ Cardinality(held) \in Nat
<1>1. Pool!SlotsBalanced <=> slots + others + Cardinality(held) = Workers
  BY Zenon DEF Pool!SlotsBalanced, Pool!Cardinality, Cardinality, held
<1>2. Pool!SlotsBalanced' <=> slots' + others' + Cardinality(held') = Workers
  BY Zenon DEF Pool!SlotsBalanced, Pool!Cardinality, Cardinality, held
<1>3. held \in SUBSET Task
  BY DEF held, Pool!inState
<1> QED
  BY <1>1, <1>2, <1>3, TasksFinite

LEMMA Cancelling ==
    ASSUME Pool!PoolTypeOK, NEW S \in SUBSET Task, Pool!cancelAll(S)
    PROVE  /\ Pool!PoolTypeOK'
           /\ \A t \in Task : future'[t] =
                 IF t \in S /\ future[t] = "queued" THEN "cancelled" ELSE future[t]
           /\ Pool!SlotsBalanced => Pool!SlotsBalanced'
<1> DEFINE D == S \cap Pool!inState({"queued"})
<1>1. D \in SUBSET Task
  OBVIOUS
<1>2. Cardinality(D) \in Nat /\ IsFiniteSet(D)
  BY <1>1, TasksFinite
<1>3. slots \in Nat /\ others \in Nat /\ future \in [Task -> Pool!FutureStates]
  BY DEF Pool!PoolTypeOK
<1>4. slots' = slots + Cardinality(D) /\ others' = others
  BY Zenon DEF Pool!cancelAll, Pool!Cardinality, Cardinality
<1>5. future' = [t \in Task |-> IF t \in D THEN "cancelled" ELSE future[t]]
  BY DEF Pool!cancelAll
<1>6. \A t \in Task : future'[t] =
         IF t \in S /\ future[t] = "queued" THEN "cancelled" ELSE future[t]
  BY <1>5 DEF Pool!inState
<1>7. Pool!PoolTypeOK'
  BY <1>2, <1>3, <1>4, <1>5 DEF Pool!PoolTypeOK, Pool!FutureStates
<1>8. held' = held \ D /\ held \cap D = D
  BY <1>6 DEF held, Pool!inState
<1> HIDE DEF D
<1>9. Cardinality(held') = Cardinality(held) - Cardinality(D)
  <2>1. IsFiniteSet(held)
    BY Balance
  <2>2. Cardinality(held \ D) = Cardinality(held) - Cardinality(held \cap D)
    BY <2>1, FS_Difference
  <2> QED BY <1>8, <2>2
<1>10. Pool!SlotsBalanced => Pool!SlotsBalanced'
  BY <1>2, <1>3, <1>4, <1>9, Balance
<1> QED
  BY <1>6, <1>7, <1>10

LEMMA Submitting ==
    ASSUME Pool!PoolTypeOK, NEW t \in Task, future[t] = "none", Pool!submit(t)
    PROVE  /\ Pool!PoolTypeOK'
           /\ future' = [future EXCEPT ![t] = "queued"]
           /\ Pool!SlotsBalanced => Pool!SlotsBalanced'
<1>1. /\ slots \in Nat /\ slots > 0 /\ others \in Nat
      /\ future \in [Task -> Pool!FutureStates]
      /\ slots' = slots - 1 /\ others' = others
      /\ future' = [future EXCEPT ![t] = "queued"]
  BY DEF Pool!PoolTypeOK, Pool!submit
<1>2. Pool!PoolTypeOK'
  BY <1>1 DEF Pool!PoolTypeOK, Pool!FutureStates
<1>3. t \notin held /\ held' = held \cup {t}
  BY <1>1 DEF held, Pool!inState
<1>4. Cardinality(held') = Cardinality(held) + 1
  BY <1>3, Balance, FS_AddElement
<1> QED
  BY <1>1, <1>2, <1>4, Balance

(* Workers and other runs *)
LEMMA Working ==
    ASSUME Pool!PoolTypeOK, NEW t \in Task,
           Pool!StartJob(t) \/ Pool!ReleaseSlot(t) \/ Pool!CompleteJob(t)
    PROVE  /\ Pool!PoolTypeOK'
           /\ Pool!SlotsBalanced => Pool!SlotsBalanced'
<1>1. /\ slots \in Nat /\ others \in Nat
      /\ future \in [Task -> Pool!FutureStates]
  BY DEF Pool!PoolTypeOK
<1>2. CASE Pool!StartJob(t) \/ Pool!CompleteJob(t)
  <2>1. UNCHANGED <<slots, others>> /\ held' = held
    BY <1>1, <1>2 DEF Pool!StartJob, Pool!CompleteJob, held, Pool!inState
  <2>2. Pool!PoolTypeOK'
    BY <1>1, <1>2 DEF Pool!StartJob, Pool!CompleteJob, Pool!PoolTypeOK, Pool!FutureStates
  <2> QED BY <2>1, <2>2, Balance
<1>3. CASE Pool!ReleaseSlot(t)
  <2>1. slots' = slots + 1 /\ others' = others /\ t \in held /\ held' = held \ {t}
    BY <1>1, <1>3 DEF Pool!ReleaseSlot, held, Pool!inState
  <2>2. Pool!PoolTypeOK'
    BY <1>1, <1>3 DEF Pool!ReleaseSlot, Pool!PoolTypeOK, Pool!FutureStates
  <2>3. Cardinality(held') = Cardinality(held) - 1
    BY <2>1, Balance, FS_RemoveElement
  <2> QED BY <1>1, <2>1, <2>2, <2>3, Balance
<1> QED
  BY <1>2, <1>3

LEMMA OthersWorking ==
    ASSUME Pool!PoolTypeOK, Pool!OtherJob
    PROVE  /\ Pool!PoolTypeOK' /\ UNCHANGED future
           /\ Pool!SlotsBalanced => Pool!SlotsBalanced'
<1>1. /\ slots \in Nat /\ others \in Nat
      /\ future \in [Task -> Pool!FutureStates]
  BY DEF Pool!PoolTypeOK
<1>2. UNCHANGED future /\ slots' \in Nat /\ others' \in Nat
      /\ slots' + others' = slots + others
  BY <1>1 DEF Pool!OtherJob
<1>3. held' = held
  BY <1>2 DEF held, Pool!inState
<1> QED
  BY <1>1, <1>2, <1>3, Balance DEF Pool!PoolTypeOK

LEMMA PoolKept ==
    ASSUME UNCHANGED pool
    PROVE  /\ UNCHANGED future /\ (Pool!PoolTypeOK => Pool!PoolTypeOK')
           /\ Pool!SlotsBalanced => Pool!SlotsBalanced'
<1>1. UNCHANGED <<slots, future, others>>
  BY DEF pool
<1>2. held' = held
  BY <1>1 DEF held, Pool!inState
<1> QED
  BY <1>1, <1>2, Balance DEF Pool!PoolTypeOK

-----------------------------------------------------------------------------
(* The books of the loop: which tasks it still has to do with in which      *)
(* phase, and what it knows of their futures.  A callable that executes     *)
(* without being on the books has been told to stop.                        *)
Sets ==
    /\ pending \cap running = {} /\ finished \subseteq running
    /\ pc \notin {"collect", "abort", "over"} => finished = {}
    /\ pc = "drained" => pending \cup running = {}
Exit ==
    /\ pc = "abort" => raised # "none"
    /\ pc \notin {"abort", "over"} => raised = "none" /\ ~runTold
    /\ pc # "over" => status = "none"
Futures ==
    /\ \A t \in pending : future[t] = "none"
    /\ \A t \in finished : future[t] = "done"
    /\ \A t \in Task : answer[t] = "none" <=> future[t] \notin {"returning", "done"}
    /\ \A t \in Task : future[t] = "queued" => t \in running /\ pc # "over"
    /\ \A t \in Task : future[t] = "executing" => (t \in running /\ pc # "over") \/ isTold(t)
Unsettled == pc # "over" => \A t \in pending \cup running : results[t] = "none"

Books == TypeOK /\ Pool!SlotsBalanced /\ Sets /\ Exit /\ Futures /\ Unsettled

LEMMA BooksInit == Init => Books
<1> SUFFICES ASSUME Init PROVE Books
  OBVIOUS
<1> USE DEF Init
<1>1. Pool!PoolTypeOK /\ future = [t \in Task |-> "none"]
  BY DEF Pool!PoolInit, Pool!PoolTypeOK, Pool!FutureStates
<1>2. held = {}
  BY <1>1 DEF held, Pool!inState
<1>3. slots = Workers /\ others = 0
  BY DEF Pool!PoolInit
<1>4. Pool!SlotsBalanced
  BY <1>2, <1>3, Balance, FS_EmptySet
<1>t. /\ 0 \in 0 .. MaxTime /\ 1 \in 1 .. N + 1 /\ Never \in 0 .. Never
      /\ "skip" \in Phases
  BY DEF Never, Phases
<1>5. TypeOK
  BY <1>1, <1>t DEF TypeOK
<1>6. Sets /\ Exit /\ Futures /\ Unsettled
  BY <1>1 DEF Sets, Exit, Futures, Unsettled
<1> QED
  BY <1>4, <1>5, <1>6 DEF Books

LEMMA BooksSkipBlocked == ASSUME Books, SkipBlocked PROVE Books'
<1> USE DEF Books, SkipBlocked, plan
<1>p. Pool!PoolTypeOK' /\ Pool!SlotsBalanced' /\ UNCHANGED future
  BY PoolKept DEF TypeOK
<1>b. blocked \subseteq pending
  BY DEF blocked
<1>r. \A t \in Task : results'[t] = IF t \in blocked THEN "skipped" ELSE results[t]
  BY DEF finish
<1>1. TypeOK'
  <2>1. results' \in [Task -> Terminal \cup {"none"}]
    BY DEF finish, TypeOK, Terminal, Unsuccessful
  <2>2. now' \in 0 .. MaxTime /\ cursor' \in 1 .. N + 1 /\ pending' \subseteq Task
    BY DEF TypeOK
  <2>3. pc' \in Phases /\ raised' \in {"none", "RunTimeout", "BudgetExceeded", "TaskError"}
        /\ runTold' \in BOOLEAN
    BY DEF TypeOK, Phases, leave
  <2> QED BY <1>p, <2>1, <2>2, <2>3 DEF TypeOK
<1>2. /\ \/ pc' = "abort" /\ raised' # "none"
         \/ pc' = "launch" /\ UNCHANGED <<raised, runTold>>
      /\ pc = "skip" /\ UNCHANGED status
  BY DEF leave, verdict
<1>3. Sets' /\ Exit' /\ Unsettled'
  BY <1>b, <1>r, <1>2 DEF Sets, Exit, Unsettled, TypeOK
<1>4. Futures'
  BY <1>p, <1>b, <1>2 DEF Futures, TypeOK, isTold, leave
<1> QED
  BY <1>p, <1>1, <1>3, <1>4

LEMMA BooksLaunch ==
    ASSUME Books, LoopDone \/ LaunchNext \/ LaunchSaturated \/ LaunchDone
    PROVE  Books'
<1> USE DEF Books, plan, launch, tokens, verdict
<1>1. CASE LoopDone
  <2> USE <1>1 DEF LoopDone
  <2>p. Pool!PoolTypeOK' /\ Pool!SlotsBalanced' /\ UNCHANGED future
    BY PoolKept DEF TypeOK
  <2>1. TypeOK'
    BY <2>p DEF TypeOK, Phases
  <2>2. Sets' /\ Exit' /\ Futures' /\ Unsettled'
    BY <2>p DEF Sets, Exit, Futures, Unsettled, isTold
  <2> QED BY <2>p, <2>1, <2>2
<1>2. CASE LaunchNext
  <2> USE <1>2 DEF LaunchNext
  <2>f. first \in pending /\ first \in Task
    BY FirstReady DEF mayLaunch, TypeOK
  <2>p. Pool!PoolTypeOK' /\ Pool!SlotsBalanced' /\ future' = [future EXCEPT ![first] = "queued"]
    BY <2>f, Submitting DEF TypeOK, Futures
  <2>1. TypeOK'
    <3>1. first + 1 \in 1 .. N + 1
      BY <2>f DEF Task
    <3>2. lesser(lesser(now + timeoutOf[first], runDeadline), Never) \in 0 .. Never
      <4>1. now \in Nat /\ timeoutOf[first] \in Nat /\ runDeadline \in Nat /\ Never \in Nat
        BY <2>f DEF TypeOK, TimeAssumption, Never
      <4> QED BY <4>1 DEF lesser
    <3> HIDE DEF Never, lesser
    <3> QED BY <2>f, <2>p, <3>1, <3>2 DEF TypeOK
  <2>2. Sets' /\ Exit' /\ Unsettled'
    BY <2>f DEF Sets, Exit, Unsettled, TypeOK
  <2>3. Futures'
    BY <2>f, <2>p DEF Sets, Exit, Futures, TypeOK, Pool!PoolTypeOK, isTold
  <2> QED BY <2>p, <2>1, <2>2, <2>3
<1>3. CASE LaunchSaturated
  <2> USE <1>3 DEF LaunchSaturated
  <2>f. first \in pending /\ first \in Task
    BY FirstReady DEF mayLaunch, TypeOK
  <2>p. Pool!PoolTypeOK' /\ Pool!SlotsBalanced' /\ UNCHANGED future
    BY PoolKept DEF TypeOK
  <2>1. TypeOK'
    <3>1. first + 1 \in 1 .. N + 1
      BY <2>f DEF Task
    <3>2. results' \in [Task -> Terminal \cup {"none"}]
      BY DEF finish, TypeOK, Terminal, Unsuccessful
    <3> QED BY <2>f, <2>p, <3>1, <3>2 DEF TypeOK
  <2>2. Sets' /\ Exit' /\ Unsettled'
    BY <2>f DEF Sets, Exit, Unsettled, TypeOK, finish
  <2>3. Futures'
    BY <2>f, <2>p DEF Futures, isTold
  <2> QED BY <2>p, <2>1, <2>2, <2>3
<1>4. CASE LaunchDone
  <2> USE <1>4 DEF LaunchDone
  <2>p. Pool!PoolTypeOK' /\ Pool!SlotsBalanced' /\ UNCHANGED future
    BY PoolKept DEF TypeOK
  <2>1. TypeOK'
    BY <2>p DEF TypeOK, Phases, leave
  <2>2. Sets' /\ Exit' /\ Unsettled' /\ Futures'
    BY <2>p DEF Sets, Exit, Futures, Unsettled, isTold, leave
  <2> QED BY <2>p, <2>1, <2>2
<1> QED
  BY <1>1, <1>2, <1>3, <1>4

LEMMA BooksWait ==
    ASSUME Books, WaitReturns \/ Collect \/ WaitExpires
    PROVE  Books'
<1> USE DEF Books, plan, launch, tokens, verdict
<1>1. CASE WaitReturns
  <2> USE <1>1 DEF WaitReturns
  <2>p. Pool!PoolTypeOK' /\ Pool!SlotsBalanced' /\ UNCHANGED future
    BY PoolKept DEF TypeOK
  <2>1. TypeOK'
    BY <2>p DEF TypeOK, Phases, done
  <2>2. Sets' /\ Exit' /\ Futures' /\ Unsettled'
    BY <2>p DEF Sets, Exit, Futures, Unsettled, isTold, done
  <2> QED BY <2>p, <2>1, <2>2
<1>2. CASE Collect
  <2> USE <1>2 DEF Collect
  <2>p. Pool!PoolTypeOK' /\ Pool!SlotsBalanced' /\ UNCHANGED future
    BY PoolKept DEF TypeOK
  <2>1. PICK t \in finished :
          /\ drop({t}) /\ finished' = finished \ {t}
          /\ IF answer[t] = "budget"
                THEN leave("BudgetExceeded") /\ UNCHANGED results
                ELSE /\ finish({t}, answer[t])
                     /\ pc' = IF finished = {t} THEN "skip" ELSE "collect"
                     /\ UNCHANGED raised
    OBVIOUS
  <2>2. t \in Task /\ t \in running /\ answer[t] \in Answers
    BY DEF TypeOK, Sets, Futures
  <2>3. TypeOK'
    <3>1. results' \in [Task -> Terminal \cup {"none"}]
      BY <2>1, <2>2 DEF finish, TypeOK, Terminal, Unsuccessful, Answers
    <3>2. deadlineOf' \in [Task -> 0 .. Never]
      BY <2>1 DEF drop, TypeOK, Never
    <3>3. pc' \in Phases /\ raised' \in {"none", "RunTimeout", "BudgetExceeded", "TaskError"}
      BY <2>1 DEF TypeOK, Phases, leave
    <3>4. running' \subseteq Task /\ finished' \subseteq Task
      BY <2>1 DEF TypeOK, drop
    <3> QED BY <2>p, <3>1, <3>2, <3>3, <3>4 DEF TypeOK
  <2>4. Sets' /\ Exit' /\ Unsettled'
    BY <2>1, <2>2 DEF Sets, Exit, Unsettled, TypeOK, drop, finish, leave
  <2>5. Futures'
    BY <2>1, <2>2, <2>p DEF Sets, Exit, Futures, TypeOK, isTold, drop, leave
  <2> QED BY <2>p, <2>3, <2>4, <2>5
<1>3. CASE WaitExpires
  <2> USE <1>3 DEF WaitExpires
  <2>l. late \in SUBSET Task /\ late \subseteq running
    BY DEF late, TypeOK
  <2>p. /\ Pool!PoolTypeOK' /\ Pool!SlotsBalanced'
        /\ \A t \in Task : future'[t] =
              IF t \in late /\ future[t] = "queued" THEN "cancelled" ELSE future[t]
    BY <2>l, Cancelling DEF TypeOK
  <2>1. TypeOK'
    <3>1. results' \in [Task -> Terminal \cup {"none"}]
      BY DEF finish, TypeOK, Terminal, Unsuccessful
    <3>2. deadlineOf' \in [Task -> 0 .. Never]
      BY DEF drop, TypeOK, Never
    <3>3. running' \subseteq Task /\ told' \subseteq Task /\ pc' \in Phases
      BY <2>l DEF drop, TypeOK, Phases
    <3> QED BY <2>p, <3>1, <3>2, <3>3 DEF TypeOK
  <2>2. Sets' /\ Exit' /\ Unsettled'
    BY <2>l DEF Sets, Exit, Unsettled, TypeOK, drop, finish
  <2>3. Futures'
    BY <2>l, <2>p DEF Sets, Exit, Futures, TypeOK, isTold, drop
  <2> QED BY <2>p, <2>1, <2>2, <2>3
<1> QED
  BY <1>1, <1>2, <1>3

LEMMA BooksEnd == ASSUME Books, Drained \/ Abort PROVE Books'
<1> USE DEF Books, plan, launch, tokens, verdict
<1>1. CASE Drained
  <2> USE <1>1 DEF Drained
  <2>p. Pool!PoolTypeOK' /\ Pool!SlotsBalanced' /\ UNCHANGED future
    BY PoolKept DEF TypeOK
  <2>1. TypeOK'
    BY <2>p DEF TypeOK, Phases, leave
  <2>2. Sets' /\ Exit' /\ Futures' /\ Unsettled'
    BY <2>p DEF Sets, Exit, Futures, Unsettled, isTold, leave
  <2> QED BY <2>p, <2>1, <2>2
<1>2. CASE Abort
  <2> USE <1>2 DEF Abort
  <2>p. /\ Pool!PoolTypeOK' /\ Pool!SlotsBalanced'
        /\ \A t \in Task : future'[t] =
              IF t \in running /\ future[t] = "queued" THEN "cancelled" ELSE future[t]
    BY Cancelling DEF TypeOK
  <2>1. TypeOK'
    <3>1. results' \in [Task -> Terminal \cup {"none"}]
      BY DEF finish, TypeOK, Terminal, Unsuccessful
    <3>2. pc' \in Phases /\ runTold' \in BOOLEAN
      BY DEF Phases
    <3>3. status' \in {"none", "success", "failed", "timeout", "cancelled"}
      BY DEF TypeOK, Exit, runStatus
    <3> QED BY <2>p, <3>1, <3>2, <3>3 DEF TypeOK
  <2>2. Sets' /\ Exit' /\ Unsettled'
    BY DEF Sets, Exit, Unsettled
  <2>3. Futures'
    BY <2>p DEF Sets, Exit, Futures, TypeOK, isTold
  <2> QED BY <2>p, <2>1, <2>2, <2>3
<1> QED
  BY <1>1, <1>2

LEMMA BooksWorker == ASSUME Books, NEW t \in Task, Worker(t) PROVE Books'
<1> USE DEF Books, loopVars, plan, launch, tokens, verdict
<1>p. Pool!PoolTypeOK' /\ Pool!SlotsBalanced'
  BY Working DEF Worker, CallableEnds, TypeOK
<1>f. future \in [Task -> Pool!FutureStates]
  BY DEF TypeOK, Pool!PoolTypeOK
<1>1. CASE Pool!StartJob(t) /\ UNCHANGED <<loopVars, answer>>
  <2>1. future[t] = "queued" /\ future' = [future EXCEPT ![t] = "executing"]
    BY <1>1 DEF Pool!StartJob
  <2>2. TypeOK'
    BY <1>1, <1>p DEF TypeOK
  <2>3. Sets' /\ Exit' /\ Futures' /\ Unsettled'
    BY <1>1, <1>f, <2>1 DEF Sets, Exit, Futures, Unsettled, isTold
  <2> QED BY <1>p, <2>2, <2>3
<1>2. CASE CallableEnds(t)
  <2>1. /\ future[t] = "executing" /\ future' = [future EXCEPT ![t] = "returning"]
        /\ UNCHANGED loopVars
        /\ \E a \in Answers : answer' = [answer EXCEPT ![t] = a]
    BY <1>2 DEF CallableEnds, Pool!ReleaseSlot
  <2>2. TypeOK'
    BY <1>p, <2>1 DEF TypeOK
  <2>3. Sets' /\ Exit' /\ Unsettled'
    BY <2>1 DEF Sets, Exit, Unsettled
  <2>4. Futures'
    BY <1>f, <2>1 DEF Futures, isTold, TypeOK, Answers
  <2> QED BY <1>p, <2>2, <2>3, <2>4
<1>3. CASE Pool!CompleteJob(t) /\ UNCHANGED <<loopVars, answer>>
  <2>1. future[t] = "returning" /\ future' = [future EXCEPT ![t] = "done"]
    BY <1>3 DEF Pool!CompleteJob
  <2>2. TypeOK'
    BY <1>3, <1>p DEF TypeOK
  <2>3. Sets' /\ Exit' /\ Futures' /\ Unsettled'
    BY <1>3, <1>f, <2>1 DEF Sets, Exit, Futures, Unsettled, isTold
  <2> QED BY <1>p, <2>2, <2>3
<1> QED
  BY <1>1, <1>2, <1>3 DEF Worker

LEMMA BooksKept == Books /\ [Next]_vars => Books'
<1> SUFFICES ASSUME Books, [Next]_vars PROVE Books'
  OBVIOUS
<1>1. CASE Loop
  BY <1>1, BooksSkipBlocked, BooksLaunch, BooksWait, BooksEnd DEF Loop
<1>2. CASE \E t \in Task : Worker(t)
  BY <1>2, BooksWorker
<1>3. CASE OtherRuns
  <2>1. /\ Pool!PoolTypeOK' /\ Pool!SlotsBalanced' /\ UNCHANGED <<future, loopVars, answer>>
    BY <1>3, OthersWorking DEF OtherRuns, Books, TypeOK
  <2> USE DEF loopVars, plan, launch, tokens, verdict
  <2>2. TypeOK'
    BY <2>1 DEF Books, TypeOK
  <2>3. Sets' /\ Exit' /\ Futures' /\ Unsettled'
    BY <2>1 DEF Books, Sets, Exit, Futures, Unsettled, isTold
  <2> QED BY <2>1, <2>2, <2>3 DEF Books
<1>4. CASE Tick \/ UNCHANGED vars
  <2> USE DEF Tick, vars, plan, launch, tokens, verdict
  <2>1. Pool!PoolTypeOK' /\ Pool!SlotsBalanced' /\ UNCHANGED future
    BY <1>4, PoolKept DEF Books, TypeOK
  <2>2. TypeOK'
    BY <1>4, <2>1 DEF Books, TypeOK
  <2>3. Sets' /\ Exit' /\ Futures' /\ Unsettled'
    BY <1>4, <2>1 DEF Books, Sets, Exit, Futures, Unsettled, isTold
  <2> QED BY <2>1, <2>2, <2>3 DEF Books
<1> QED
  BY <1>1, <1>2, <1>3, <1>4 DEF Next, Over

(* Every variable of the scheduler keeps its type, and the slots of the     *)
(* shared pool are balanced whichever of completion, expiry and abort comes *)
(* first, for a pool of any size (executor.py:79-93).                       *)
THEOREM SlotsAreBalanced == Spec => []SlotsBalanced
<1>1. Books => SlotsBalanced
  BY DEF Books, SlotsBalanced
<1> QED
  BY <1>1, BooksInit, BooksKept, PTL DEF Spec

(* A run that is over leaves nothing queued, and has told every callable    *)
(* that goes on to stop (scheduler.py:36-42).                               *)
THEOREM OrphansAreTold == Spec => []OrphansTold
<1>1. Books => OrphansTold
  BY DEF Books, Futures, OrphansTold
<1> QED
  BY <1>1, BooksInit, BooksKept, PTL DEF Spec

-----------------------------------------------------------------------------
(* Steps that do not touch the books *)
Quiet ==
    \/ LoopDone \/ WaitReturns \/ OtherRuns \/ Tick \/ UNCHANGED vars
    \/ \E t \in Task : Worker(t)

LEMMA QuietIs ==
    ASSUME Books, Quiet
    PROVE  /\ UNCHANGED <<deps, runDeadline, pending, running, results, told, runTold,
                          raised, status, cursor>>
           /\ clock' >= clock
           /\ pc' = pc \/ (pc = "skip" /\ pc' = "drained" /\ pending \cup running = {})
                       \/ (pc = "wait" /\ pc' = "collect")
           /\ \A t \in Task : answer[t] # "none" => answer'[t] = answer[t]
           /\ \A t \in Task : answer'[t] = "cancelled" /\ answer[t] = "none" => isTold(t)
           /\ \A t \in Task : future[t] = "none" => future'[t] = "none"
<1> USE DEF plan, launch, tokens, verdict, loopVars
<1>c. clock \in Nat /\ future \in [Task -> Pool!FutureStates]
      /\ answer \in [Task -> Answers \cup {"none"}]
  BY DEF Books, TypeOK, Pool!PoolTypeOK
<1>1. CASE LoopDone \/ WaitReturns \/ Tick \/ UNCHANGED vars
  BY <1>1, <1>c DEF LoopDone, WaitReturns, Tick, vars, pool
<1>2. CASE OtherRuns
  BY <1>2, <1>c DEF OtherRuns, Pool!OtherJob
<1>3. ASSUME NEW t \in Task, Worker(t)
      PROVE  /\ UNCHANGED loopVars
             /\ \A u \in Task : answer[u] # "none" => answer'[u] = answer[u]
             /\ \A u \in Task : answer'[u] = "cancelled" /\ answer[u] = "none" => isTold(u)
             /\ \A u \in Task : future[u] = "none" => future'[u] = "none"
  <2>1. CASE Pool!StartJob(t) \/ Pool!CompleteJob(t)
    BY <1>3, <1>c, <2>1 DEF Worker, CallableEnds, Pool!StartJob, Pool!CompleteJob,
                            Pool!ReleaseSlot
  <2>2. CASE CallableEnds(t)
    <3>1. future[t] = "executing" /\ answer[t] = "none"
      BY <2>2 DEF CallableEnds, Pool!ReleaseSlot, Books, Futures
    <3> QED BY <1>c, <2>2, <3>1 DEF CallableEnds, Pool!ReleaseSlot
  <2> QED BY <1>3, <2>1, <2>2 DEF Worker
<1>4. CASE \E t \in Task : Worker(t)
  BY <1>3, <1>4, <1>c
<1> QED
  BY <1>1, <1>2, <1>4 DEF Quiet

LEMMA NotQuiet ==
    ASSUME [Next]_vars
    PROVE  \/ Quiet \/ SkipBlocked \/ LaunchNext \/ LaunchSaturated \/ LaunchDone
           \/ Collect \/ WaitExpires \/ Drained \/ Abort
BY DEF Next, Loop, Over, Quiet

(* What stays: results and answers, and that a task has no future if it got *)
(* its result without one.                                                  *)
LEMMA Lasting ==
    ASSUME Books, [Next]_vars
    PROVE  /\ UNCHANGED <<deps, runDeadline>> /\ clock' >= clock
           /\ \A t \in Task : results[t] # "none" => results'[t] = results[t]
           /\ \A t \in Task : answer[t] # "none" => answer'[t] = answer[t]
           /\ \A t \in Task : results[t] # "none" /\ future[t] = "none" =>
                                 future'[t] = "none"
<1> USE DEF Books, plan, launch, tokens, verdict
<1>c. clock \in Nat /\ future \in [Task -> Pool!FutureStates]
      /\ answer \in [Task -> Answers \cup {"none"}]
  BY DEF TypeOK, Pool!PoolTypeOK
<1>1. CASE Quiet
  BY <1>1, QuietIs
<1>2. CASE SkipBlocked
  BY <1>2, <1>c DEF SkipBlocked, finish, blocked, Unsettled, pool
<1>3. CASE LaunchNext
  <2>1. first \in pending /\ results[first] = "none"
    BY <1>3, FirstReady DEF LaunchNext, mayLaunch, TypeOK, Unsettled
  <2> QED BY <1>3, <1>c, <2>1 DEF LaunchNext, Pool!submit
<1>4. CASE LaunchSaturated
  <2>1. first \in pending /\ results[first] = "none"
    BY <1>4, FirstReady DEF LaunchSaturated, mayLaunch, TypeOK, Unsettled
  <2> QED BY <1>4, <1>c, <2>1 DEF LaunchSaturated, finish, pool
<1>5. CASE Collect
  BY <1>5, <1>c DEF Collect, finish, Sets, Unsettled, pool
<1>6. CASE WaitExpires \/ Abort
  <2>1. \A t \in Task : future[t] = "none" => future'[t] = "none"
    BY <1>6 DEF WaitExpires, Abort, Pool!cancelAll, Pool!inState
  <2>2. \A t \in Task : results[t] # "none" => results'[t] = results[t]
    BY <1>6 DEF WaitExpires, Abort, finish, late, Unsettled
  <2> QED BY <1>6, <1>c, <2>1, <2>2 DEF WaitExpires, Abort
<1>7. CASE LaunchDone \/ Drained
  BY <1>7, <1>c DEF LaunchDone, Drained, pool
<1> QED
  BY <1>1, <1>2, <1>3, <1>4, <1>5, <1>6, <1>7, NotQuiet

(* A task that has a result keeps it (scheduler.py:22-23).                  *)
THEOREM ResultsAreKept == Spec => ResultsKept
<1>1. Books /\ [Next]_vars =>
         [\A t \in Task : results[t] # "none" => results'[t] = results[t]]_vars
  BY Lasting
<1> QED
  BY <1>1, BooksInit, BooksKept, PTL DEF Spec, ResultsKept

-----------------------------------------------------------------------------
(* Who is told to stop is off the books, and says "cancelled" only then.    *)
Told ==
    /\ told \cap (pending \cup running) = {}
    /\ \A t \in Task : answer[t] = "cancelled" => isTold(t)

(* A task has a result, is still to be done, or its callable has ended the  *)
(* run by BudgetExceeded.                                                   *)
Accounted ==
    \A t \in Task : results[t] = "none" =>
        \/ pc # "over" /\ t \in pending \cup running
        \/ pc \in {"abort", "over"} /\ answer[t] = "budget"

(* Until the run is over nothing is cancelled, and a skipped task goes back *)
(* to one that failed or timed out.                                         *)
bad == {t \in Task : results[t] \in {"failed", "timeout"}}
Causes ==
    pc # "over" =>
        /\ \A t \in Task : results[t] # "cancelled"
        /\ (\E t \in Task : results[t] = "skipped") => bad # {}

LEMMA ToldKept == ASSUME Books, Told, [Next]_vars PROVE Told'
<1> USE DEF Books, Told, plan, launch, tokens, verdict
<1>1. CASE Quiet
  BY <1>1, QuietIs DEF isTold, TypeOK
<1>2. CASE SkipBlocked
  BY <1>2 DEF SkipBlocked, isTold, leave
<1>3. CASE LaunchNext \/ LaunchSaturated
  <2>1. first \in pending
    BY <1>3, FirstReady DEF LaunchNext, LaunchSaturated, mayLaunch, TypeOK
  <2> QED BY <1>3, <2>1 DEF LaunchNext, LaunchSaturated, isTold
<1>4. CASE LaunchDone \/ Drained \/ Abort
  BY <1>4 DEF LaunchDone, Drained, Abort, isTold, leave
<1>5. CASE Collect
  BY <1>5 DEF Collect, isTold, drop
<1>6. CASE WaitExpires
  BY <1>6 DEF WaitExpires, late, isTold, drop, Sets
<1> QED
  BY <1>1, <1>2, <1>3, <1>4, <1>5, <1>6, NotQuiet

LEMMA AccountedKept == ASSUME Books, Accounted, [Next]_vars PROVE Accounted'
<1> USE DEF Books, Accounted, plan, launch, tokens, verdict
<1>1. CASE Quiet
  <2>1. ASSUME NEW t \in Task, results'[t] = "none"
        PROVE  \/ pc' # "over" /\ t \in pending' \cup running'
               \/ pc' \in {"abort", "over"} /\ answer'[t] = "budget"
    BY <1>1, <2>1, QuietIs
  <2> QED BY <2>1
<1>2. CASE SkipBlocked
  BY <1>2 DEF SkipBlocked, finish, leave
<1>3. CASE LaunchNext
  BY <1>3 DEF LaunchNext
<1>4. CASE LaunchSaturated
  BY <1>4 DEF LaunchSaturated, finish
<1>5. CASE LaunchDone \/ Drained
  BY <1>5 DEF LaunchDone, Drained, Sets, leave
<1>6. CASE Collect
  <2>1. PICK t \in finished :
          /\ drop({t}) /\ finished' = finished \ {t}
          /\ IF answer[t] = "budget"
                THEN leave("BudgetExceeded") /\ UNCHANGED results
                ELSE /\ finish({t}, answer[t])
                     /\ pc' = IF finished = {t} THEN "skip" ELSE "collect"
                     /\ UNCHANGED raised
    BY <1>6 DEF Collect
  <2>2. t \in Task /\ answer[t] \in Answers /\ answer[t] # "none"
    BY DEF TypeOK, Sets, Futures, Answers
  <2> QED BY <1>6, <2>1, <2>2 DEF Collect, drop, finish, leave
<1>7. CASE WaitExpires
  BY <1>7 DEF WaitExpires, drop, finish
<1>8. CASE Abort
  BY <1>8 DEF Abort, finish
<1> QED
  BY <1>1, <1>2, <1>3, <1>4, <1>5, <1>6, <1>7, <1>8, NotQuiet

(* The first task that a pass skips is skipped for a result there was.      *)
LEMMA SkippedForCause ==
    ASSUME TypeOK, blocked # {}
    PROVE  \E d \in Task : results[d] \in Unsuccessful
<1>d. \A t \in Task : deps[t] \subseteq Task
  BY PlansAssumption DEF TypeOK, PlansAssumption
<1>1. blocked \in SUBSET Task
  BY DEF blocked, TypeOK
<1>2. PICK t \in blocked : \A u \in blocked : t <= u
  BY <1>1, LeastTask
<1>3. PICK S \in SUBSET pending : skippable(S) /\ t \in S /\ S \subseteq blocked
  BY <1>2 DEF blocked
<1>4. PICK d \in deps[t] : results[d] \in Unsuccessful \/ (d \in S /\ d < t)
  BY <1>3 DEF skippable
<1>5. ~(d \in S /\ d < t)
  <2>1. blocked \subseteq Nat
    BY <1>1 DEF Task
  <2>2. d \in S => t \in Nat /\ d \in Nat /\ t <= d
    BY <2>1, <1>2, <1>3
  <2> QED BY <2>2
<1> QED
  BY <1>1, <1>d, <1>4, <1>5

LEMMA CausesKept == ASSUME Books, Told, Causes, [Next]_vars PROVE Causes'
<1> SUFFICES ASSUME pc # "over", pc' # "over" PROVE Causes'
  <2>1. CASE pc = "over"
    <3>1. pc' = "over"
      BY <2>1, NotQuiet, QuietIs
         DEF SkipBlocked, LaunchNext, LaunchSaturated, LaunchDone, Collect, WaitExpires,
             Drained, Abort
    <3> QED BY <3>1 DEF Causes
  <2> QED BY <2>1 DEF Causes
<1> USE DEF Books, Causes, plan, launch, tokens, verdict
<1>k. bad \subseteq bad'
  BY Lasting DEF bad, TypeOK
<1>1. CASE Quiet \/ LaunchNext \/ LaunchDone \/ Drained
  <2>1. UNCHANGED results
    BY <1>1, QuietIs DEF LaunchNext, LaunchDone, Drained
  <2> QED BY <2>1, <1>k
<1>2. CASE SkipBlocked
  <2>1. \A t \in Task : results'[t] \in {results[t], "skipped"}
    BY <1>2 DEF SkipBlocked, finish
  <2>2. (\E t \in Task : results'[t] = "skipped") => bad # {}
    <3>1. CASE blocked = {}
      BY <1>2, <3>1 DEF SkipBlocked, finish
    <3>2. CASE blocked # {}
      BY <3>2, SkippedForCause DEF bad, Unsuccessful
    <3> QED BY <3>1, <3>2
  <2> QED BY <2>1, <2>2, <1>k
<1>3. CASE LaunchSaturated \/ WaitExpires
  <2>1. \A t \in Task : results'[t] \in {results[t], "timeout"}
    BY <1>3 DEF LaunchSaturated, WaitExpires, finish
  <2> QED BY <2>1, <1>k
<1>4. CASE Collect
  <2>1. \A t \in Task : results'[t] = results[t]
                        \/ (t \in finished /\ results'[t] = answer[t])
    BY <1>4 DEF Collect, finish
  <2>2. \A t \in finished : answer[t] # "cancelled" /\ answer[t] # "skipped"
    BY <1>4 DEF Collect, Told, Sets, Exit, isTold, TypeOK, Answers
  <2> QED BY <2>1, <2>2, <1>k
<1> QED
  BY <1>1, <1>2, <1>3, <1>4, NotQuiet DEF Abort

-----------------------------------------------------------------------------
(* What the pass of _launch_ready has found: the tasks before cursor cannot *)
(* run, and what the pass before it left blocked by an earlier task is so   *)
(* by one that found no slot since.                                         *)
unserved(d) == results[d] = "timeout" /\ future[d] = "none"
LaunchPass ==
    pc = "launch" => \A t \in pending :
        /\ t < cursor => \E d \in deps[t] : results[d] # "success"
        /\ \A d \in deps[t] : d < t /\ results[d] \in Unsuccessful => unserved(d)

LEMMA BlockedIsSkippable == skippable(blocked)
BY DEF skippable, blocked

LEMMA PassedBy ==
    ASSUME TypeOK, LaunchPass, pc = "launch", mayLaunch
    PROVE  \A t \in pending \ {first} :
              t < first + 1 => \E d \in deps[t] : results[d] # "success"
<1>1. first \in Task /\ \A t \in ready : first <= t
  BY FirstReady DEF TypeOK, mayLaunch
<1>2. Task \subseteq Nat /\ cursor \in Nat
  BY DEF Task, TypeOK
<1> SUFFICES ASSUME NEW t \in pending, t # first, t < first + 1
             PROVE  \E d \in deps[t] : results[d] # "success"
  OBVIOUS
<1>3. t \in Nat /\ first \in Nat /\ t < first
  <2>1. t \in Nat /\ first \in Nat
    BY <1>1, <1>2 DEF TypeOK
  <2> QED BY <2>1
<1>4. t \notin ready
  BY <1>1, <1>3
<1>5. t < cursor \/ t >= cursor
  BY <1>2, <1>3
<1> QED
  BY <1>4, <1>5 DEF LaunchPass, ready

LEMMA LaunchPassKept == ASSUME Books, LaunchPass, [Next]_vars PROVE LaunchPass'
<1> USE DEF Books, plan, launch, tokens, verdict
<1>d. \A t \in Task : deps[t] \subseteq Task
  BY PlansAssumption DEF TypeOK, PlansAssumption
<1>n. Task \subseteq Nat /\ pending \subseteq Nat /\ cursor \in Nat
  BY DEF Task, TypeOK
<1>1. CASE Quiet
  <2> SUFFICES ASSUME pc' = "launch" PROVE LaunchPass'
    BY DEF LaunchPass
  <2>1. pc = "launch" /\ UNCHANGED <<deps, pending, results, cursor>>
    BY <1>1, QuietIs
  <2>2. \A t \in pending : \A d \in deps[t] : unserved(d) => unserved(d)'
    BY <1>1, <1>d, <2>1, QuietIs DEF unserved, TypeOK
  <2> QED BY <2>1, <2>2 DEF LaunchPass
<1>2. CASE SkipBlocked
  <2>1. cursor' = 1 /\ UNCHANGED deps /\ pending' = pending \ blocked
    BY <1>2 DEF SkipBlocked
  <2>2. ASSUME NEW t \in pending, t \notin blocked, NEW d \in deps[t], d < t,
               results'[d] \in Unsuccessful
        PROVE  FALSE
    <3>1. d \in Task /\ t \in Task
      BY <1>d DEF TypeOK
    <3>2. d \in blocked \/ results[d] \in Unsuccessful
      BY <1>2, <2>2, <3>1 DEF SkipBlocked, finish
    <3>3. skippable(blocked \cup {t})
      BY <2>2, <3>2, BlockedIsSkippable DEF skippable
    <3>4. blocked \cup {t} \in SUBSET pending
      BY DEF blocked
    <3> QED BY <2>2, <3>3, <3>4 DEF blocked
  <2>3. \A t \in pending' : ~(t < cursor')
    BY <1>n, <2>1, <1>2 DEF Task, TypeOK
  <2> QED BY <2>1, <2>2, <2>3 DEF LaunchPass
<1>3. CASE LaunchNext
  <2>1. mayLaunch /\ first \in pending /\ first \in Task
    BY <1>3, FirstReady DEF LaunchNext, mayLaunch, TypeOK
  <2>2. /\ pc = "launch" /\ UNCHANGED <<deps, results>>
        /\ pending' = pending \ {first} /\ cursor' = first + 1
        /\ results[first] = "none"
    BY <1>3, <2>1 DEF LaunchNext, Unsettled
  <2>3. \A t \in pending' : t < cursor' => \E d \in deps[t] : results[d] # "success"
    BY <2>1, <2>2, PassedBy
  <2>4. \A d \in Task : results[d] \in Unsuccessful /\ unserved(d) => unserved(d)'
    BY <1>3, Lasting DEF unserved, TypeOK, Unsuccessful
  <2> QED BY <1>d, <2>2, <2>3, <2>4 DEF LaunchPass, TypeOK
<1>4. CASE LaunchSaturated
  <2>1. mayLaunch /\ first \in pending /\ first \in Task
    BY <1>4, FirstReady DEF LaunchSaturated, mayLaunch, TypeOK
  <2>2. /\ pc = "launch" /\ UNCHANGED <<deps, future>>
        /\ pending' = pending \ {first} /\ cursor' = first + 1
        /\ \A t \in Task : results'[t] = IF t = first THEN "timeout" ELSE results[t]
        /\ future[first] = "none"
    BY <1>4, <2>1 DEF LaunchSaturated, finish, pool, Futures
  <2>3. \A t \in pending' : t < cursor' => \E d \in deps[t] : results[d] # "success"
    BY <2>1, <2>2, PassedBy
  <2>4. \A t \in pending' : t < cursor' => \E d \in deps[t] : results'[d] # "success"
    BY <1>d, <2>2, <2>3 DEF TypeOK
  <2>5. ASSUME NEW t \in pending, NEW d \in deps[t], d < t,
               results'[d] \in Unsuccessful
        PROVE  unserved(d)'
    <3>1. t \in Task /\ d \in Task
      BY <1>d DEF TypeOK
    <3>2. d = first \/ (results'[d] = results[d] /\ unserved(d))
      BY <2>2, <2>5, <3>1 DEF LaunchPass
    <3> QED BY <2>2, <3>1, <3>2 DEF unserved
  <2> QED BY <2>2, <2>4, <2>5 DEF LaunchPass
<1>5. CASE LaunchDone \/ Collect \/ WaitExpires \/ Drained \/ Abort
  BY <1>5 DEF LaunchDone, Collect, WaitExpires, Drained, Abort, leave, LaunchPass
<1> QED
  BY <1>1, <1>2, <1>3, <1>4, <1>5, NotQuiet

-----------------------------------------------------------------------------
(* Why the loop was left                                                    *)
disordered == \E t \in Task : \E d \in deps[t] : d > t
Reasons ==
    /\ raised = "RunTimeout" => clock >= runDeadline
    /\ raised = "BudgetExceeded" => \E t \in Task : answer[t] = "budget"
    /\ raised = "TaskError" => bad # {} /\ (disordered \/ \E t \in Task : unserved(t))

(* In a plan without cycles one of the tasks that are left waits for none   *)
(* of the others: what it waits for has failed.                             *)
LEMMA DeadlockHasCause ==
    ASSUME Books, Accounted, Causes, LaunchPass, pc = "launch",
           running = {}, pending # {}, ready = {}
    PROVE  bad # {} /\ (disordered \/ \E t \in Task : unserved(t))
<1> USE DEF Books
<1>d. deps \in Plans /\ \A t \in Task : deps[t] \subseteq Task
  BY PlansAssumption DEF TypeOK, PlansAssumption
<1>n. Task \subseteq Nat /\ cursor \in Nat
  BY DEF Task, TypeOK
<1>1. PICK t \in pending : deps[t] \cap pending = {}
  BY <1>d, PlansAssumption DEF PlansAssumption, TypeOK
<1>2. t \in Task
  BY DEF TypeOK
<1>3. PICK d \in deps[t] : results[d] # "success"
  BY <1>n, <1>2 DEF LaunchPass, ready
<1>4. d \in Task /\ d \notin pending /\ d # t
  BY <1>1, <1>2, <1>d
<1>5. results[d] \in {"failed", "timeout", "skipped"}
  BY <1>3, <1>4 DEF Accounted, Causes, TypeOK, Terminal, Unsuccessful
<1>6. bad # {}
  BY <1>4, <1>5 DEF bad, Causes
<1>7. CASE d > t
  BY <1>2, <1>6, <1>7 DEF disordered
<1>8. CASE d < t
  BY <1>4, <1>5, <1>6, <1>8 DEF LaunchPass, Unsuccessful
<1>9. d \in Nat /\ t \in Nat
  BY <1>n, <1>2, <1>4
<1> QED
  BY <1>4, <1>7, <1>8, <1>9

LEMMA ReasonsKept ==
    ASSUME Books, Accounted, Causes, LaunchPass, Reasons, [Next]_vars
    PROVE  Reasons'
<1> USE DEF Books, plan, launch, tokens, verdict
<1>c. clock \in Nat /\ clock' \in Nat /\ runDeadline \in Nat
  <2>1. TypeOK'
    BY BooksKept
  <2> QED BY <2>1 DEF TypeOK, Never
<1>l. Reasons /\ UNCHANGED raised => Reasons'
  <2>1. bad \subseteq bad'
    BY Lasting DEF bad, TypeOK
  <2>2. \A t \in Task : unserved(t) => unserved(t)'
    BY Lasting DEF unserved, TypeOK
  <2>3. UNCHANGED <<deps, runDeadline>> /\ clock' >= clock
        /\ \A t \in Task : answer[t] = "budget" => answer'[t] = "budget"
    BY Lasting
  <2> QED BY <1>c, <2>1, <2>2, <2>3 DEF Reasons, disordered
<1>1. CASE Quiet \/ LaunchNext \/ LaunchSaturated \/ WaitExpires \/ Abort
  BY <1>1, <1>l, QuietIs DEF LaunchNext, LaunchSaturated, WaitExpires, Abort
<1>2. CASE SkipBlocked \/ Drained
  BY <1>2, <1>l, <1>c DEF SkipBlocked, Drained, leave, Reasons
<1>3. CASE LaunchDone
  <2>1. CASE running = {} /\ pending # {}
    <3>1. ready = {}
      BY <1>3, <2>1, FS_EmptySet DEF LaunchDone, mayLaunch
    <3>2. raised' = "TaskError" /\ UNCHANGED <<deps, results, future>>
      BY <1>3, <2>1 DEF LaunchDone, leave, pool
    <3>3. bad # {} /\ (disordered \/ \E t \in Task : unserved(t))
      BY <1>3, <2>1, <3>1, DeadlockHasCause DEF LaunchDone
    <3> QED BY <3>2, <3>3 DEF Reasons, bad, disordered, unserved
  <2>2. CASE ~(running = {} /\ pending # {})
    BY <1>3, <1>l, <2>2 DEF LaunchDone
  <2> QED BY <2>1, <2>2
<1>4. CASE Collect
  BY <1>4, <1>l DEF Collect, leave, Reasons, TypeOK
<1> QED
  BY <1>1, <1>2, <1>3, <1>4, NotQuiet

StatusInv ==
    Books /\ Told /\ Accounted /\ Causes /\ LaunchPass /\ Reasons /\ StatusTruthful

LEMMA StatusKept == ASSUME StatusInv, [Next]_vars PROVE StatusTruthful'
<1> USE DEF StatusInv, Books, plan, launch, tokens, verdict
<1>c. clock \in Nat /\ clock' \in Nat /\ runDeadline \in Nat
  <2>1. TypeOK'
    BY BooksKept
  <2> QED BY <2>1 DEF TypeOK, Never
<1>r. Reasons'
  BY ReasonsKept
<1>t. raised' = "TaskError" =>
          \/ (\E t \in Task : \E d \in deps[t] : d > t)'
          \/ (\E t \in Task : results[t] = "timeout" /\ future[t] = "none")'
  BY <1>r DEF Reasons, disordered, unserved
<1>1. CASE pc' # "over"
  <2>1. status' = "none"
    BY <1>1, BooksKept DEF Exit
  <2> QED BY <1>1, <1>t, <2>1 DEF StatusTruthful
<1>2. CASE Quiet /\ pc' = "over"
  <2>1. pc = "over" /\ UNCHANGED <<status, results, deps, runDeadline>> /\ clock' >= clock
        /\ \A t \in Task : answer[t] = "budget" => answer'[t] = "budget"
    BY <1>2, QuietIs
  <2> QED BY <1>c, <1>t, <2>1 DEF StatusTruthful
<1>3. CASE Drained /\ pc' = "over"
  <2>1. /\ pc = "drained" /\ UNCHANGED results
        /\ status' = IF \E t \in Task : results[t] \in {"failed", "timeout"}
                        THEN "failed" ELSE "success"
    BY <1>3 DEF Drained, leave
  <2>2. \A t \in Task : results[t] \in {"failed", "timeout", "skipped", "success"}
    BY <2>1 DEF Accounted, Causes, Sets, TypeOK, Terminal, Unsuccessful
  <2>3. status' = "success" => \A t \in Task : results[t] = "success"
    BY <2>1, <2>2 DEF Causes, bad
  <2> QED BY <1>t, <2>1, <2>2, <2>3 DEF StatusTruthful, Terminal, Unsuccessful
<1>4. CASE Abort
  <2>1. /\ pc = "abort" /\ raised # "none" /\ status' = runStatus
        /\ UNCHANGED <<raised, answer, clock, runDeadline>>
        /\ \A t \in Task : results'[t] =
              IF t \in running \cup pending THEN "cancelled" ELSE results[t]
    BY <1>4 DEF Abort, finish, Exit
  <2>2. \A t \in Task : results'[t] \in Terminal \/ answer[t] = "budget"
    BY <2>1 DEF Accounted, TypeOK, Terminal, Unsuccessful
  <2>3. raised \in {"RunTimeout", "BudgetExceeded", "TaskError"}
    BY <2>1 DEF TypeOK
  <2>4. /\ raised = "RunTimeout" <=> status' = "timeout"
        /\ raised = "BudgetExceeded" <=> status' = "cancelled"
        /\ raised = "TaskError" <=> status' = "failed"
        /\ status' # "success"
    BY <2>1, <2>3 DEF runStatus
  <2>5. raised = "TaskError" => bad' # {}
    BY <1>r, <2>1 DEF Reasons
  <2> QED BY <1>r, <1>t, <2>1, <2>2, <2>4, <2>5 DEF StatusTruthful, Reasons, bad
<1>5. CASE SkipBlocked \/ LaunchNext \/ LaunchSaturated \/ LaunchDone \/ Collect
           \/ WaitExpires
  <2>1. pc' # "over"
    BY <1>5 DEF SkipBlocked, LaunchNext, LaunchSaturated, LaunchDone, Collect,
                WaitExpires, leave
  <2> QED BY <1>1, <2>1
<1> QED
  BY <1>1, <1>2, <1>3, <1>4, <1>5, NotQuiet

(* The status of a run is true to its results and to the clock, every task  *)
(* is accounted for, and a deadlock is reported only for a plan that names  *)
(* a task before its dependency or on a pool that was saturated             *)
(* (scheduler.py:75-82, :206-209, :362-366).                                *)
THEOREM StatusIsTruthful == Spec => []StatusTruthful
<1>1. Init => StatusInv
  <2> SUFFICES ASSUME Init PROVE StatusInv
    OBVIOUS
  <2>1. Books
    BY BooksInit
  <2>2. Told /\ Accounted /\ Causes /\ LaunchPass /\ Reasons /\ StatusTruthful
    BY DEF Init, Told, Accounted, Causes, LaunchPass, Reasons, StatusTruthful
  <2> QED BY <2>1, <2>2 DEF StatusInv
<1>2. StatusInv /\ [Next]_vars => StatusInv'
  BY BooksKept, ToldKept, AccountedKept, CausesKept, LaunchPassKept, ReasonsKept,
     StatusKept DEF StatusInv
<1>3. StatusInv => StatusTruthful
  BY DEF StatusInv
<1> QED
  BY <1>1, <1>2, <1>3, PTL DEF Spec
=============================================================================
