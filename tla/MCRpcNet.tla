------------------------------ MODULE MCRpcNet ------------------------------
\* Instances of RpcNet for TLC.
EXTENDS RpcNet, TLC

CONSTANTS c1, c2, t1, t2

\* One client is shared by two threads; another wants the only place.
TwoClients == {c1, c2}
TwoCallers == {t1, t2}
Shared == (t1 :> c1) @@ (t2 :> c1)
Other == {c2}
FewCalls == (t1 :> 1) @@ (t2 :> 1)
=============================================================================
