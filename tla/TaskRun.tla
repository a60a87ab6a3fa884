------------------------------ MODULE TaskRun ------------------------------
(***************************************************************************)
(* What a run of a task graph promises its caller, with nothing of how a   *)
(* scheduler keeps it: no loop, no passes, no local sets, no wake-ups.     *)
(* Tasks begin when their dependencies completed, an agent works on one of *)
(* them at a time, a failure reaches every dependent, a stop reaches every *)
(* task, and the run resolves only when all of them are terminal.          *)
(***************************************************************************)
EXTENDS Naturals, FiniteSets

CONSTANTS N, Agents, Concurrency, Graphs

Task == 1..N
Outcomes == {"completed", "failed", "cancelled"}

VARIABLES
    deps,     (* what each task depends on                                  *)
    agentOf,  (* the agent each task is for                                 *)
    status,   (* "pending", "running" or an outcome                         *)
    phase     (* "open", "closing" (stopped), "resolved" or "failed"        *)

vars == <<deps, agentOf, status, phase>>

Running == {t \in Task : status[t] = "running"}
Terminal(t) == status[t] \in Outcomes

Init ==
    /\ deps \in Graphs
    /\ agentOf \in [Task -> Agents]
    /\ status = [t \in Task |-> "pending"]
    /\ phase = "open"

Become(t, s) ==
    /\ status' = [status EXCEPT ![t] = s]
    /\ UNCHANGED <<deps, agentOf, phase>>

Begin(t) ==
    /\ phase = "open" /\ status[t] = "pending"
    /\ \A d \in deps[t] : status[d] = "completed"
    /\ \A u \in Running : agentOf[u] # agentOf[t]
    /\ Cardinality(Running) < Concurrency
    /\ Become(t, "running")

End(t, outcome) ==
    /\ phase = "open" /\ status[t] = "running"
    /\ Become(t, outcome)

Skip(t) ==
    /\ phase = "open" /\ status[t] = "pending"
    /\ \E d \in deps[t] : status[d] \in {"failed", "cancelled"}
    /\ Become(t, "cancelled")

Drop(t) ==
    /\ phase = "closing" /\ ~Terminal(t)
    /\ Become(t, "cancelled")

Move(from, to) ==
    /\ phase \in from /\ phase' = to
    /\ UNCHANGED <<deps, agentOf, status>>

Stop == Move({"open"}, "closing")
Resolve == (\A t \in Task : Terminal(t)) /\ Move({"open", "closing"}, "resolved")

(* The run may also reject, leaving tasks unresolved, but only with nothing *)
(* running and nothing that could begin.                                    *)
Fail ==
    /\ Running = {}
    /\ \A t \in Task : status[t] = "pending" =>
          \E d \in deps[t] : status[d] # "completed"
    /\ Move({"open"}, "failed")

Next ==
    \/ \E t \in Task :
          \/ Begin(t) \/ Skip(t) \/ Drop(t)
          \/ \E outcome \in Outcomes : End(t, outcome)
    \/ Stop \/ Resolve \/ Fail

Spec == Init /\ [][Next]_vars
=============================================================================
