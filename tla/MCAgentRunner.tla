--------------------------- MODULE MCAgentRunner ---------------------------
(* An instance of AgentRunner: two calls that one run makes to its agent,   *)
(* and one of the next run.                                                 *)
EXTENDS AgentRunner

TwoRuns == [c \in Calls |-> (c + 1) \div 2]
=============================================================================
