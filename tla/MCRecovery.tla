----------------------------- MODULE MCRecovery -----------------------------
(* Instances of Recovery: every plan of N tasks, in every order of          *)
(* declaration, and one with a cycle.                                       *)
EXTENDS Recovery

CONSTANTS x, y

TwoAgents == <<x, y>>
OneAgent == <<x>>

Sorted(g) == \E rank \in [Task -> Task] :
                 \A t \in Task : \A d \in g[t] : rank[d] < rank[t]
Dags == {g \in [Task -> SUBSET Task] : Sorted(g)}
Ring == [t \in Task |-> {(t % N) + 1}]
AllPlans == Dags \cup {Ring}
=============================================================================
