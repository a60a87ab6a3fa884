---------------------------- MODULE MCAgentCalls ----------------------------
(* Instances of AgentCalls: an agent and all agents, called one after the  *)
(* other, and a plan with two tasks of one agent before another call of it; *)
(* a budget that runs out by calls, and by tokens when a call is charged    *)
(* for another.                                                             *)
EXTENDS AgentCalls

one == [how |-> "one", places |-> {1}, agentOf |-> [i \in Places |-> i]]
all == [how |-> "all", places |-> Places, agentOf |-> [i \in Places |-> i]]
tasks == [how |-> "tasks", places |-> Places, agentOf |-> [i \in Places |-> 1]]

MCStrategies == {<<one, all>>, <<all, one>>, <<tasks, one>>}
MCSaturated == {<<all>>}
MCBudgets == {[max_calls |-> 2, max_tokens |-> 2]}
=============================================================================
