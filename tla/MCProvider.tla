----------------------------- MODULE MCProvider -----------------------------
(* Instances of Provider; threads and keys are interchangeable. *)
EXTENDS Provider, TLC

Interchangeable == Permutations(Threads) \cup Permutations(Keys)
=============================================================================
