---------------------------- MODULE MCDagExecutor ----------------------------
\* Instances of DagExecutor for TLC.
EXTENDS DagExecutor

CONSTANTS w1, w2

MCWorkers == {w1, w2}

\* 1 and 2 are roots, 3 needs both.
Join == <<{}, {}, {1, 2}>>
\* 1 <- 2 <- 3.
Chain == <<{}, {1}, {2}>>

OnlyFirst == {1}
=============================================================================
