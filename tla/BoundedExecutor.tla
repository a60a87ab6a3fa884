-------------------------- MODULE BoundedExecutor --------------------------
(***************************************************************************)
(* The worker pool all runs of a Python process share                      *)
(* (runtime/executor.py): a thread pool behind a counting gate.  A job     *)
(* takes a slot when it is submitted and gives it back when its callable   *)
(* ends, or when its future is cancelled before a worker picked it up.     *)
(*                                                                         *)
(* Jobs are those of the run under study; what other runs keep busy is     *)
(* only counted.                                                           *)
(***************************************************************************)
EXTENDS Naturals, FiniteSets

CONSTANTS
    Jobs,
    Workers       (* max_workers(): threads, and slots of the gate          *)

VARIABLES
    slots,        (* value of the semaphore                                 *)
    future,       (* the state of each job's future                         *)
    others        (* slots, each with its worker, that other runs hold      *)

(* A job is "returning" from the release of its slot to the moment its      *)
(* future is done.                                                          *)
FutureStates == {"none", "queued", "executing", "returning", "done", "cancelled"}
inState(S) == {j \in Jobs : future[j] \in S}
idleWorkers == Workers - others - Cardinality(inState({"executing", "returning"}))

PoolInit ==
    /\ others = 0 /\ slots = Workers
    /\ future = [j \in Jobs |-> "none"]

(* submit within the time it may wait for a slot; without one it raises     *)
(* PoolSaturated.                                                           *)
saturated == slots = 0
submit(j) ==
    /\ slots > 0
    /\ slots' = slots - 1
    /\ future' = [future EXCEPT ![j] = "queued"]
    /\ UNCHANGED others

cancelAll_leaksSlot(S) ==                                     \* mutant
    /\ future' = [j \in Jobs |-> IF j \in S /\ future[j] = "queued"
                                    THEN "cancelled" ELSE future[j]]
    /\ UNCHANGED <<slots, others>>

(* future.cancel() on each of S: only what is still queued is cancelled.    *)
cancelAll(S) ==
    LET dropped == S \cap inState({"queued"}) IN
    /\ future' = [j \in Jobs |-> IF j \in dropped THEN "cancelled" ELSE future[j]]
    /\ slots' = slots + Cardinality(dropped)
    /\ UNCHANGED others

-----------------------------------------------------------------------------
(* A worker picks the job up ... *)
StartJob(j) ==
    /\ future[j] = "queued" /\ idleWorkers > 0
    /\ future' = [future EXCEPT ![j] = "executing"]
    /\ UNCHANGED <<slots, others>>

(* ... its callable ends and the slot is released ...                       *)
ReleaseSlot(j) ==
    /\ future[j] = "executing"
    /\ future' = [future EXCEPT ![j] = "returning"]
    /\ slots' = slots + 1
    /\ UNCHANGED others

(* ... and the future is done.                                              *)
CompleteJob(j) ==
    /\ future[j] = "returning"
    /\ future' = [future EXCEPT ![j] = "done"]
    /\ UNCHANGED <<slots, others>>

OtherJob ==
    /\ \/ slots > 0 /\ idleWorkers > 0 /\ others' = others + 1 /\ slots' = slots - 1
       \/ others > 0 /\ others' = others - 1 /\ slots' = slots + 1
    /\ UNCHANGED future

-----------------------------------------------------------------------------
PoolTypeOK ==
    /\ slots \in Nat /\ others \in Nat
    /\ future \in [Jobs -> FutureStates]

(* Every slot is free or held by exactly one job that has not ended: none   *)
(* leaks, none is released twice (executor.py:79-93).                       *)
SlotsBalanced ==
    slots + others + Cardinality(inState({"queued", "executing"})) = Workers
=============================================================================
