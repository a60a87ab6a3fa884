---------------------------- MODULE Diagnostics ----------------------------
(***************************************************************************)
(* What an operator is told of the recovery runs of one plugin: the events *)
(* RecoveryManager.run emits (recovery/manager.ts), the RunRegistry and    *)
(* the health that are derived from them (diagnostics.ts), and the guard   *)
(* that lets one run at a time use a manager and its Supervisor            *)
(* (recovery/single-flight.ts).                                            *)
(*                                                                         *)
(* Events are delivered synchronously, so what a run emits between two     *)
(* awaits arrives at once; runs interleave where one awaits its Supervisor *)
(* or the delay of a retry.  What happens inside a run, and in which order *)
(* its decisions are tried, is Recovery's matter.                          *)
(***************************************************************************)
EXTENDS Naturals, Sequences, FiniteSets

CONSTANTS
    Runs,         (* calls of RecoveryManager.run                           *)
    idOf,         (* options.runId of each                                  *)
    managerOf,    (* the manager it is called on                            *)
    MaxRuns,      (* capacity of the registry                               *)
    MaxAttempts   (* the policy of the managers                             *)

ASSUME MaxAssumption == MaxRuns \in Nat \ {0} /\ MaxAttempts \in Nat \ {0}

VARIABLES
    phase,      (* where each run is                                        *)
    attempts,   (* its attempts so far                                      *)
    failures,   (* the number of failures it recorded                       *)
    active,     (* the managers whose #active is set                        *)
    registry,   (* RunRegistry.#runs in the order of the Map                *)
    counts,     (* MetricsCollector: recoveries started, and ended each way *)
    since       (* history: the ids started since the run started           *)

vars == <<phase, attempts, failures, active, registry, counts, since>>

Statuses == {"completed", "failed", "cancelled", "timeout"}
Awaiting == {"running", "delay"}
Phases == {"idle", "refused"} \cup Awaiting \cup Statuses
Inspection == [id : {idOf[r] : r \in Runs}, status : {"running"} \cup Statuses,
               attempts : Nat, failures : Nat]

Init ==
    /\ phase = [r \in Runs |-> "idle"]
    /\ attempts = [r \in Runs |-> 0] /\ failures = [r \in Runs |-> 0]
    /\ active = {} /\ registry = <<>>
    /\ counts = [kind \in {"started"} \cup Statuses |-> 0]
    /\ since = [r \in Runs |-> {}]

-----------------------------------------------------------------------------
(* RunRegistry, and what an event does to it.                               *)
max(a, b) == IF a < b THEN b ELSE a

trim_newest(reg) ==                                           \* mutant
    IF Len(reg) > MaxRuns THEN Append(SubSeq(reg, 1, MaxRuns - 1), reg[Len(reg)])
                          ELSE reg
trim(reg) == IF Len(reg) > MaxRuns THEN Tail(reg) ELSE reg

(* Map.delete; an id is in it once at most.                                 *)
delete(reg, id) ==
    LET i == CHOOSE i \in DOMAIN reg : reg[i].id = id IN
    IF \E k \in DOMAIN reg : reg[k].id = id
    THEN [j \in 1 .. Len(reg) - 1 |-> reg[IF j < i THEN j ELSE j + 1]] ELSE reg

(* A run id that is known to have finished is not started again.            *)
start(reg, id) ==
    IF \E i \in DOMAIN reg : reg[i].id = id /\ reg[i].status # "running" THEN reg
    ELSE trim(Append(delete(reg, id),
                     [id |-> id, status |-> "running", attempts |-> 0, failures |-> 0]))

updated(entry, event) ==
    CASE event.type = "attempt" ->
            [entry EXCEPT !.attempts = max(@, event.attempt)]
      [] event.type = "failure" ->
            [entry EXCEPT !.failures = @ + 1, !.attempts = max(@, event.attempt)]
      [] event.type = "finished" ->
            [entry EXCEPT !.status = event.status, !.attempts = event.attempt]

(* #consume: every other event is for a run that is known and not finished. *)
consume(reg, event) ==
    IF event.type = "started" THEN start(reg, event.id)
    ELSE [i \in DOMAIN reg |->
             IF reg[i].id = event.id /\ reg[i].status = "running"
                THEN updated(reg[i], event) ELSE reg[i]]

count(metrics, event) ==
    CASE event.type = "started"  -> [metrics EXCEPT !["started"] = @ + 1]
      [] event.type = "finished" -> [metrics EXCEPT ![event.status] = @ + 1]
      [] OTHER -> metrics

(* RuntimeDiagnostics.ingest: what is known after an event                  *)
now == [registry |-> registry, counts |-> counts]
ingest(known, event) ==
    [registry |-> consume(known.registry, event), counts |-> count(known.counts, event)]

running == {i \in DOMAIN registry : registry[i].status = "running"}
failing == \E i \in running : registry[i].failures > 0

health ==
    IF failing THEN "unhealthy"
    ELSE IF running # {} \/ counts["failed"] > 0 \/ counts["timeout"] > 0
         THEN "degraded" ELSE "healthy"

-----------------------------------------------------------------------------
(* What a run emits before its next await, and where that leaves it.        *)
started(r) == [type |-> "started", id |-> idOf[r]]
attempt(r, n) == [type |-> "attempt", id |-> idOf[r], attempt |-> n]
failure(r, n) == [type |-> "failure", id |-> idOf[r], attempt |-> n]
finished(r, n, status) ==
    [type |-> "finished", id |-> idOf[r], attempt |-> n, status |-> status]

emit(r, known, n, f, next) ==
    /\ registry' = known.registry /\ counts' = known.counts
    /\ attempts' = [attempts EXCEPT ![r] = n]
    /\ failures' = [failures EXCEPT ![r] = f]
    /\ phase' = [phase EXCEPT ![r] = next]
    /\ active' = IF next \in Awaiting THEN active \cup {managerOf[r]}
                                      ELSE active \ {managerOf[r]}

cancels_silently(r, known) ==                                 \* mutant
    emit(r, known, attempts[r], failures[r], "cancelled")
(* The top of the loop finds the signal aborted ...                         *)
cancels(r, known) ==
    emit(r, ingest(known, finished(r, attempts[r], "cancelled")),
         attempts[r], failures[r], "cancelled")

(* ... or begins an attempt, which fails at once if the plan is not valid   *)
(* or has no agent.                                                         *)
tries(r, known, f) ==
    LET n == attempts[r] + 1
        tried == ingest(known, attempt(r, n))
    IN  /\ n <= MaxAttempts
        /\ \/ emit(r, tried, n, f, "running")
           \/ emit(r, ingest(ingest(tried, failure(r, n)), finished(r, n, "failed")),
                   n, f + 1, "failed")

Begin(r) ==
    /\ phase[r] = "idle" /\ managerOf[r] \notin active
    /\ LET known == ingest(now, started(r))
       IN  cancels(r, known) \/ tries(r, known, 0)
    /\ since' = [q \in Runs |-> IF phase[q] = "idle" THEN {}
                                ELSE since[q] \cup {idOf[r]}]

(* SingleFlightRecoveryManager.run throws before anything is emitted.       *)
Refuse(r) ==
    /\ phase[r] = "idle" /\ managerOf[r] \in active
    /\ phase' = [phase EXCEPT ![r] = "refused"]
    /\ UNCHANGED <<attempts, failures, active, registry, counts, since>>

(* supervisor.run comes back: the run is completed, or a failure is noted   *)
(* and it waits, goes on with another plan, or gives up.                    *)
Returns(r) ==
    /\ phase[r] = "running"
    /\ LET n == attempts[r]
           f == failures[r] + 1
           failed == ingest(now, failure(r, n))
       IN  \/ emit(r, ingest(now, finished(r, n, "completed")), n, failures[r], "completed")
           \/ n < MaxAttempts /\ emit(r, failed, n, f, "delay")
           \/ tries(r, failed, f)
           \/ \E status \in Statuses \ {"completed"} :
                 emit(r, ingest(failed, finished(r, n, status)), n, f, status)
    /\ UNCHANGED since

DelayOver(r) ==
    /\ phase[r] = "delay"
    /\ cancels(r, now) \/ tries(r, now, failures[r])
    /\ UNCHANGED since

Quiet ==
    /\ \A r \in Runs : phase[r] \notin {"idle"} \cup Awaiting
    /\ UNCHANGED vars

Next ==
    \/ \E r \in Runs : Begin(r) \/ Refuse(r) \/ Returns(r) \/ DelayOver(r)
    \/ Quiet

Spec == Init /\ [][Next]_vars

-----------------------------------------------------------------------------
(* Every variable has its type. *)
TypeOK ==
    /\ phase \in [Runs -> Phases]
    /\ attempts \in [Runs -> 0 .. MaxAttempts] /\ failures \in [Runs -> Nat]
    /\ active \subseteq {managerOf[r] : r \in Runs}
    /\ registry \in Seq(Inspection) /\ Len(registry) <= MaxRuns
    /\ counts \in [{"started"} \cup Statuses -> Nat]

isActive(r) == phase[r] \in Awaiting
begun(r) == phase[r] \notin {"idle", "refused"}
(* A run the registry has no reason to know badly: no other run that was    *)
(* begun has its id, and fewer than MaxRuns ids came after it.              *)
isKnown(r) ==
    /\ begun(r)
    /\ \A q \in Runs \ {r} : begun(q) => idOf[q] # idOf[r]
    /\ Cardinality(since[r]) < MaxRuns

(* What inspect() tells of a run is true at every moment, whatever runs     *)
(* beside it, unless its id was used again or it was dropped for newer runs *)
(* (diagnostics.ts:44-76, docs/adr/0007, lines 10-14).                      *)
InspectRight ==
    \A r \in Runs : isKnown(r) =>
        \E i \in DOMAIN registry :
            registry[i] = [id |-> idOf[r],
                           status |-> IF isActive(r) THEN "running" ELSE phase[r],
                           attempts |-> attempts[r], failures |-> failures[r]]

(* Nothing is listed as running that is not: an entry that was dropped,     *)
(* displaced or shared is never left behind as running once the runs of its *)
(* id are over, and the metrics agree.  A manager, whose Supervisor has one *)
(* lifecycle, has one run at a time (diagnostics.ts:48, :52, :74,           *)
(* single-flight.ts:5-11).                                                  *)
NoGhostRun ==
    /\ TypeOK
    /\ \A r, q \in Runs :
          isActive(r) /\ isActive(q) /\ managerOf[r] = managerOf[q] => r = q
    /\ \A i \in running : \E r \in Runs : isActive(r) /\ idOf[r] = registry[i].id
    /\ counts["started"] = counts["completed"] + counts["failed"] + counts["cancelled"]
                           + counts["timeout"] + Cardinality({r \in Runs : isActive(r)})

(* Health is "unhealthy" exactly while a run that is going on has a failure,*)
(* and "healthy" only while none is going on, history notwithstanding, as   *)
(* long as all the runs that are going on are known                         *)
(* (docs/r19-health-severity-contract.md:11-13).                            *)
HealthRight ==
    (\A r \in Runs : isActive(r) => isKnown(r)) =>
        /\ health = "unhealthy" <=> \E r \in Runs : isActive(r) /\ failures[r] > 0
        /\ health = "healthy" => \A r \in Runs : ~isActive(r)

(* So an operator who asks at any moment is told the truth of the runs that *)
(* are known, one by one and together (diagnostics.ts:124-143).             *)
OperatorTold == InspectRight /\ HealthRight
=============================================================================
