------------------------------ MODULE MCAgentLoop ------------------------------
\* An instance of AgentLoop for TLC: one steer, runs of a few steps, and
\* compactions that preserve two messages.
EXTENDS AgentLoop

CONSTANT s1

OneSteer == {s1}
ShortTail == {2}
=============================================================================
