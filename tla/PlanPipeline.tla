---------------------------- MODULE PlanPipeline ----------------------------
(***************************************************************************)
(* What the supervisor strategy makes of the supervisor's answer: entries  *)
(* of a JSON plan become tasks (supervisor.py), the plan is validated      *)
(* (runtime/task.py, runtime/dependency.py), repaired a limited number of  *)
(* times and routed to the workers.                                        *)
(*                                                                         *)
(* The name "a_r1" that a reused id gets is <<"a", 1>>: an id is a         *)
(* sequence that begins with the name it was given.  An entry is           *)
(* [id, blank, deps, agent, caps], id <<>> and agent NoName when missing,  *)
(* blank when it has no description; a task has no blank, its deps are a   *)
(* set, and the placeholder of the instructions is no dependency.          *)
(***************************************************************************)
EXTENDS Naturals, Sequences, SequencesExt, FiniteSets

CONSTANTS
    NoName,
    CapsOf,        (* the capabilities of each registered agent             *)
    MaxRepairs     (* max_repair_attempts                                   *)

(* The strategy leaves it at 2; at 0 nothing would be repaired.             *)
ASSUME PipelineAssumption == MaxRepairs \in Nat \ {0}

(* SelectSeq, of the members of a set, in a form that can be proved about:  *)
(* its elements, and those of the other sequences here, come one by one.    *)
keep(s, S) ==
    LET kept[n \in 0 .. Len(s)] ==
            IF n = 0 THEN <<>>
            ELSE IF s[n] \in S THEN Append(kept[n - 1], s[n]) ELSE kept[n - 1]
    IN  kept[Len(s)]

numbered(i) == <<"task", i>>
idsOf(tasks) == {tasks[i].id : i \in DOMAIN tasks}

(* The first of id, id_rN, id_rN_rN, ... that is not used, for N used ids.  *)
unused(id, used) ==
    LET tagged(n) == id \o [k \in 1 .. n |-> Cardinality(used)]
        n == CHOOSE m \in 0 .. Cardinality(used) :
                /\ tagged(m) \notin used
                /\ \A k \in 0 .. m - 1 : tagged(k) \in used
    IN  tagged(n)

taskOf(e, n, used) ==
    [id |-> unused(IF e.id = <<>> THEN numbered(n) ELSE e.id, used),
     deps |-> e.deps, agent |-> e.agent, caps |-> e.caps]

(* _tasks_from_json: entries without a description are skipped.             *)
tasksFromJson(entries) ==
    LET tasks[n \in 0 .. Len(entries)] ==
            IF n = 0 THEN <<>>
            ELSE IF entries[n].blank THEN tasks[n - 1]
            ELSE Append(tasks[n - 1], taskOf(entries[n], n, idsOf(tasks[n - 1])))
    IN  tasks[Len(entries)]

(* _tasks_from_lines: without lines the prompt is the only task.            *)
tasksFromLines(n) ==
    [i \in 1 .. (IF n = 0 THEN 1 ELSE n) |->
        [id |-> numbered(i), deps |-> {}, agent |-> NoName, caps |-> {}]]

(* parse_plan: an answer is [entries, lines], its JSON entries (none when   *)
(* it is not JSON) and its number of lines.                                 *)
parsed(answer) ==
    LET tasks == tasksFromJson(answer.entries) IN
    IF tasks = <<>> THEN tasksFromLines(answer.lines) ELSE tasks

-----------------------------------------------------------------------------
(* topological_order: how many tasks come into the order, layer by layer.   *)
orderable(tasks) ==
    LET layers[n \in 0 .. Len(tasks)] ==
            IF n = 0 THEN {}
            ELSE {i \in DOMAIN tasks :
                    \A d \in tasks[i].deps :
                       \E j \in layers[n - 1] : tasks[j].id = d}
    IN  layers[Len(tasks)]

(* TaskPlan.__init__ and validate *)
wellFormed(tasks) ==
    /\ Cardinality(idsOf(tasks)) = Len(tasks)
    /\ \A i \in DOMAIN tasks :
          tasks[i].deps \subseteq idsOf(tasks) \ {tasks[i].id}
    /\ orderable(tasks) = DOMAIN tasks

knownCaps(workers) == UNION {CapsOf[w] : w \in ToSet(workers)}

valid(tasks, workers) ==
    /\ wellFormed(tasks)
    /\ \A i \in DOMAIN tasks :
          /\ tasks[i].agent \in ToSet(workers) \cup {NoName}
          /\ tasks[i].caps \subseteq knownCaps(workers)

-----------------------------------------------------------------------------
(* WorkerRouter.assign, with the cursor it leaves: the worker asked for,    *)
(* else the next of those with the capabilities, else the next of all.      *)
assign(task, workers, cursor) ==
    LET able == keep(workers, {w \in ToSet(workers) : task.caps \subseteq CapsOf[w]})
        pool == IF task.caps # {} /\ able # <<>> THEN able ELSE workers
    IN  IF task.agent \in ToSet(workers)
        THEN [agent |-> task.agent, cursor |-> cursor]
        ELSE [agent |-> pool[(cursor % Len(pool)) + 1], cursor |-> cursor + 1]

routedOne(work, n, workers) ==
    LET a == assign(work.tasks[n], workers, work.cursor) IN
    [tasks |-> [work.tasks EXCEPT ![n].agent = a.agent], cursor |-> a.cursor]

(* _route_agents                                                            *)
routed(work, workers) ==
    LET route[n \in 0 .. Len(work.tasks)] ==
            IF n = 0 THEN work ELSE routedOne(route[n - 1], n, workers)
    IN  route[Len(work.tasks)]

supported(task, workers) == [task EXCEPT !.caps = @ \cap knownCaps(workers)]

(* mutant: a repair that also drops the dependencies it cannot resolve *)
repaired_dropsDeps(work, workers) ==
    LET w == routed(work, workers) IN
    [w EXCEPT !.tasks = [i \in DOMAIN w.tasks |->
        [supported(w.tasks[i], workers) EXCEPT !.deps = @ \cap idsOf(w.tasks)]]]

(* _repair_tasks: a task is routed by the capabilities it still has, then   *)
(* loses those that no worker has.                                          *)
repaired(work, workers) ==
    LET w == routed(work, workers) IN
    [w EXCEPT !.tasks = [i \in DOMAIN w.tasks |-> supported(w.tasks[i], workers)]]

(* _validate_and_repair, without the dependency fallback, which the         *)
(* strategy does not ask for: the routed tasks, or <<>> where it raises.    *)
pipeline(tasks, workers) ==
    LET attempt[n \in 0 .. MaxRepairs] ==
            IF n = 0 THEN [tasks |-> tasks, cursor |-> 0]
            ELSE IF valid(attempt[n - 1].tasks, workers) THEN attempt[n - 1]
            ELSE repaired(attempt[n - 1], workers)
        last == attempt[MaxRepairs]
    IN  IF valid(last.tasks, workers) THEN routed(last, workers).tasks ELSE <<>>

-----------------------------------------------------------------------------
(* A plan that can be carried out: every dependency is a task, and in every *)
(* set of tasks one can go before the others.                               *)
Sound(tasks) ==
    /\ \A i \in DOMAIN tasks : tasks[i].deps \subseteq idsOf(tasks)
    /\ \A S \in SUBSET (DOMAIN tasks) \ {{}} :
          \E i \in S : \A j \in S : tasks[j].id \notin tasks[i].deps

(* The tasks carried out are those of the plan, as they were asked for.     *)
SameTasks(tasks, done) ==
    /\ DOMAIN done = DOMAIN tasks
    /\ \A i \in DOMAIN tasks : done[i].id = tasks[i].id /\ done[i].deps = tasks[i].deps

(* Who gets a task: the worker asked for, else one with its capabilities if *)
(* there is one; after a repair, any worker (supervisor.py:4-5, :12-16).    *)
RoutedRight(tasks, done, workers) ==
    \A i \in DOMAIN tasks :
       LET t == tasks[i] IN
       /\ done[i].agent \in ToSet(workers)
       /\ t.agent \in ToSet(workers) => done[i].agent = t.agent
       /\ (/\ valid(tasks, workers) /\ t.agent = NoName
           /\ \E w \in ToSet(workers) : t.caps \subseteq CapsOf[w])
          => t.caps \subseteq CapsOf[done[i].agent]

PlanCarriedOut(tasks, done, workers) ==
    IF done = <<>> THEN ~Sound(tasks)
    ELSE Sound(tasks) /\ SameTasks(tasks, done) /\ RoutedRight(tasks, done, workers)
=============================================================================
