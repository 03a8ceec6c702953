------------------------------ MODULE MCBashTask ------------------------------
\* Instances of BashTask for TLC.
EXTENDS BashTask, TLC

CONSTANTS t1, t2

One == {t1}
Two == {t1, t2}

TaskSymmetry == Permutations(Two)
=============================================================================
