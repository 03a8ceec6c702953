-------------------------- MODULE MCSessionServer --------------------------
\* Instances of SessionServer for TLC.
EXTENDS SessionServer, TLC

CONSTANTS r1, r2, r3

\* Prompts and plans overlap, and a third request gets between them.
Mixed == (r1 :> {"prompt", "plan"}) @@ (r2 :> {"async", "plan"})
         @@ (r3 :> {"create", "list", "clear", "delete"})
TurnPair == (r1 :> {"prompt", "plan"}) @@ (r2 :> {"clear", "delete"})

ThreeRequests == {r1, r2, r3}
TwoRequests == {r1, r2}
=============================================================================
