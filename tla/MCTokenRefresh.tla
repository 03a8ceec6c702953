--------------------------- MODULE MCTokenRefresh ---------------------------
\* Instances of TokenRefresh for TLC.
EXTENDS TokenRefresh, TLC

CONSTANTS p1, p2, t1, t2

Both == {p1, p2}

\* Two programs over one credentials file, one turn in each.
Two == {t1, t2}
Homes == (t1 :> p1) @@ (t2 :> p2)
=============================================================================
