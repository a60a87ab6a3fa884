-------------------------- MODULE MCAdapterServer --------------------------
(* Instances of AdapterServer: threads and session ids are interchangeable. *)
EXTENDS AdapterServer, TLC

Interchangeable == Permutations(Threads) \cup Permutations(Ids)
=============================================================================
