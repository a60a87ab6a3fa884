-------------------------- MODULE MCTaskScheduler --------------------------
(* Instances of TaskScheduler: every acyclic plan of N tasks, in every      *)
(* order, and the plans that name dependencies first; timeouts of one tick  *)
(* or none, which as the plans come in every order may as well ascend.      *)
EXTENDS TaskScheduler

AllPlans ==
    {g \in [Task -> SUBSET Task] :
        \E rank \in [Task -> Task] :
            \A t \in Task : \A d \in g[t] : rank[d] < rank[t]}
OrderedPlans == {g \in [Task -> SUBSET Task] : \A t \in Task : g[t] \subseteq 1 .. t - 1}
Ascending ==
    {f \in [Task -> {1, Never}] : \A t, u \in Task : t <= u => f[t] <= f[u]}
=============================================================================
