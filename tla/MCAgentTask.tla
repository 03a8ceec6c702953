------------------------------ MODULE MCAgentTask ------------------------------
\* An instance of AgentTask for TLC: an agent that is resumed once and whose
\* first task asks for two approvals.
EXTENDS AgentTask

CONSTANTS first, second, r1, r2

TwoTasks == {first, second}
TwoRequests == {r1, r2}
FirstAsks == [r \in Request |-> first]
=============================================================================
