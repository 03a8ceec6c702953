----------------------------- MODULE AtLeastOnce -----------------------------
(***************************************************************************)
(* What the notification queue promises: a notification is due at every    *)
(* sink once it is published, is acknowledged by a sink only after it was  *)
(* shown there, stays acknowledged, and is acknowledged in the end.  It    *)
(* may be shown more than once.                                            *)
(***************************************************************************)
CONSTANTS Note, Sink

VARIABLES due, shown, acked

vars == <<due, shown, acked>>

Delivery == Note \X Sink

Init == due = {} /\ shown = {} /\ acked = {}

Publish(n) ==
  /\ due' = due \cup {<<n, s>> : s \in Sink}
  /\ UNCHANGED <<shown, acked>>

Show(d) ==
  /\ d \in due
  /\ shown' = shown \cup {d}
  /\ UNCHANGED <<due, acked>>

Ack(D) ==
  /\ D \subseteq shown
  /\ acked' = acked \cup D
  /\ UNCHANGED <<due, shown>>

Next ==
  \/ \E n \in Note : Publish(n)
  \/ \E d \in Delivery : Show(d)
  \/ \E D \in SUBSET Delivery : Ack(D)

Spec == Init /\ [][Next]_vars

\* Every delivery that is due is made, and every one that was made is
\* acknowledged.
Served ==
  \A d \in Delivery :
    /\ WF_vars(Show(d))
    /\ WF_vars(\E D \in SUBSET Delivery : d \in D /\ Ack(D))

FairSpec == Spec /\ Served
=============================================================================
