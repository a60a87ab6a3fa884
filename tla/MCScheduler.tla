---------------------------- MODULE MCScheduler ----------------------------
(* Instances of Scheduler: every dependency graph over N tasks, in every    *)
(* order of declaration, with every way of sharing agents between tasks:    *)
(* agents being alike, one numbering of each partition stands for all.      *)
EXTENDS Scheduler

AllDags == {g \in [Task -> SUBSET Task] : Acyclic(g)}
Partitions == {f \in [Task -> Agents] :
                  \A t \in Task : f[t] = 1 \/ \E u \in 1 .. t - 1 : f[t] <= f[u] + 1}
=============================================================================
