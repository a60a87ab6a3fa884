---------------------------- MODULE MCNativeRun ----------------------------
(* Instances of NativeRun: every graph over N tasks in every order of       *)
(* declaration, with every way of sharing agents between tasks: agents being*)
(* alike, one numbering of each partition stands for all.                   *)
EXTENDS NativeRun

AllGraphs == [Task -> SUBSET Task]
Partitions == {f \in [Task -> Agents] :
                  \A t \in Task : f[t] = 1 \/ \E u \in 1 .. t - 1 : f[t] <= f[u] + 1}
=============================================================================
