-------------------------- MODULE GraphValidation --------------------------
(***************************************************************************)
(* The judgement whether a set of tasks is a DAG, as an iterative depth-   *)
(* first search with three colours: TaskGraph.validate (graph.ts) and,     *)
(* with `strict' FALSE, PlanValidator.validate (planner/validator.ts),     *)
(* which collects its errors and searches the declared graph all the same. *)
(*                                                                         *)
(* The order in which dependsOn lists the dependencies of a task is left   *)
(* open: a frame holds the ones it has not looked at yet.                  *)
(***************************************************************************)
EXTENDS Naturals, Sequences, FiniteSets

CONSTANTS
    N,        (* number of tasks, in insertion order                        *)
    Missing   (* the id of no task                                          *)

Task == 1..N

VARIABLES
    deps,     (* dependsOn of each task                                     *)
    strict,   (* the first problem is thrown                                *)
    pc,       (* "check", "search" or "done"                                *)
    cursor,   (* the task the loop over the tasks is at                     *)
    color,    (* the colour of each task                                    *)
    stack,    (* frames: [id |-> task, left |-> dependencies to look at]    *)
    errors,   (* the codes of what was found                                *)
    cycle     (* the cycle reported, or <<>>                                *)

vars == <<deps, strict, pc, cursor, color, stack, errors, cycle>>

Colors == {"white", "gray", "black"}
Codes == {"self-dependency", "missing-dependency", "cycle"}
Frame == [id : Task, left : SUBSET (Task \cup {Missing})]

Init ==
    /\ deps \in [Task -> SUBSET (Task \cup {Missing})]
    /\ strict \in BOOLEAN
    /\ pc = "check" /\ cursor = 1
    /\ color = [t \in Task |-> "white"]
    /\ stack = <<>> /\ errors = {} /\ cycle = <<>>

(* The codes a task earns for itself.                                       *)
badDeps(t) ==
    {code \in {"self-dependency", "missing-dependency"} :
        \/ code = "self-dependency" /\ t \in deps[t]
        \/ code = "missing-dependency" /\ Missing \in deps[t]}

-----------------------------------------------------------------------------
CheckTask ==
    /\ pc = "check" /\ cursor <= N
    /\ IF strict /\ badDeps(cursor) # {}
          THEN /\ \E code \in badDeps(cursor) : errors' = {code}
               /\ pc' = "done" /\ UNCHANGED cursor
          ELSE /\ errors' = errors \cup badDeps(cursor)
               /\ cursor' = cursor + 1 /\ UNCHANGED pc
    /\ UNCHANGED <<deps, strict, color, stack, cycle>>

CheckDone ==
    /\ pc = "check" /\ cursor > N
    /\ pc' = "search" /\ cursor' = 1
    /\ UNCHANGED <<deps, strict, color, stack, errors, cycle>>

-----------------------------------------------------------------------------
path == [i \in DOMAIN stack |-> stack[i].id]
top == stack[Len(stack)]
enter(t, frames) == Append(frames, [id |-> t, left |-> deps[t]])

Root ==
    /\ pc = "search" /\ stack = <<>> /\ cursor <= N
    /\ cursor' = cursor + 1
    /\ IF color[cursor] = "white"
          THEN /\ color' = [color EXCEPT ![cursor] = "gray"]
               /\ stack' = enter(cursor, stack)
          ELSE UNCHANGED <<color, stack>>
    /\ UNCHANGED <<deps, strict, pc, errors, cycle>>

(* The frame on top takes up one more dependency: what becomes of it.       *)
consumed(dep) == [stack EXCEPT ![Len(stack)].left = @ \ {dep}]

onPath(dep) == dep \in Task /\ color[dep] = "gray" /\ dep # top.id
isNew(dep) == dep \in Task /\ color[dep] = "white"

reported(dep) ==
    LET start == CHOOSE i \in DOMAIN path : path[i] = dep
    IN  Append(SubSeq(path, start, Len(path)), dep)

FindCycle ==
    /\ pc = "search" /\ stack # <<>>
    /\ \E dep \in top.left :
          /\ onPath(dep)
          /\ cycle' = reported(dep)
    /\ errors' = errors \cup {"cycle"}
    /\ pc' = "done"
    /\ UNCHANGED <<deps, strict, cursor, color, stack>>

(* mutant: two colours, a task is done with as soon as it is entered *)
Descend_twoColors ==
    /\ pc = "search" /\ stack # <<>>
    /\ \E dep \in top.left :
          /\ isNew(dep)
          /\ color' = [color EXCEPT ![dep] = "black"]
          /\ stack' = enter(dep, consumed(dep))
    /\ UNCHANGED <<deps, strict, pc, cursor, errors, cycle>>

Descend ==
    /\ pc = "search" /\ stack # <<>>
    /\ \E dep \in top.left :
          /\ isNew(dep)
          /\ color' = [color EXCEPT ![dep] = "gray"]
          /\ stack' = enter(dep, consumed(dep))
    /\ UNCHANGED <<deps, strict, pc, cursor, errors, cycle>>

(* A task done with, an unknown one, or the task itself.                    *)
PassOver ==
    /\ pc = "search" /\ stack # <<>>
    /\ \E dep \in top.left :
          /\ ~onPath(dep) /\ ~isNew(dep)
          /\ stack' = consumed(dep)
    /\ UNCHANGED <<deps, strict, pc, cursor, color, errors, cycle>>

Leave ==
    /\ pc = "search" /\ stack # <<>> /\ top.left = {}
    /\ color' = [color EXCEPT ![top.id] = "black"]
    /\ stack' = SubSeq(stack, 1, Len(stack) - 1)
    /\ UNCHANGED <<deps, strict, pc, cursor, errors, cycle>>

SearchDone ==
    /\ pc = "search" /\ stack = <<>> /\ cursor > N
    /\ pc' = "done"
    /\ UNCHANGED <<deps, strict, cursor, color, stack, errors, cycle>>

Search == Root \/ FindCycle \/ Descend \/ PassOver \/ Leave \/ SearchDone
Next == CheckTask \/ CheckDone \/ Search

Spec == Init /\ [][Next]_vars

-----------------------------------------------------------------------------
(* Every variable has its type; no task is on the path twice.               *)
TypeOK ==
    /\ deps \in [Task -> SUBSET (Task \cup {Missing})]
    /\ strict \in BOOLEAN /\ pc \in {"check", "search", "done"}
    /\ cursor \in 1 .. N + 1
    /\ color \in [Task -> Colors]
    /\ stack \in Seq(Frame) /\ Len(stack) <= N
    /\ errors \subseteq Codes /\ cycle \in Seq(Task)

(* What the search must decide: the tasks can be ranked, every dependency   *)
(* below what depends on it.                                                *)
IsDag ==
    \E rank \in [Task -> Task] :
        \A t \in Task : \A d \in deps[t] : d \in Task /\ rank[d] < rank[t]

(* A graph is accepted exactly when it is a DAG of known tasks: nothing     *)
(* cyclic gets to the scheduler, and no diamond is taken for a cycle.  The  *)
(* cycle that is reported is one: it starts where it ends, each task        *)
(* depends on the next, and no task is named twice (graph.ts:4-8, :100-103, *)
(* :132-135).                                                               *)
VerdictRight ==
    /\ TypeOK
    /\ pc = "done" => (errors = {} <=> IsDag)
    /\ cycle # <<>> =>
        /\ Len(cycle) > 2 /\ cycle[1] = cycle[Len(cycle)]
        /\ \A i \in 1 .. Len(cycle) - 1 : cycle[i + 1] \in deps[cycle[i]]
        /\ \A i, j \in 2 .. Len(cycle) : cycle[i] = cycle[j] => i = j
=============================================================================
