------------------------- MODULE Notifications_proofs -------------------------
(***************************************************************************)
(* Theorems about Notifications, for any set of notifications, any limits  *)
(* and any number of crashes and failures.  The inductive invariant says   *)
(* of the notification a delivery is at what its handler has done with it, *)
(* and that a notification without delivery.json is in no batch.           *)
(***************************************************************************)
EXTENDS Notifications, TLAPS

---------------------------------------------------------------------------
\* The order of events.

\* Two published notifications come one after the other.
LEMMA EventsAreOrdered ==
  ASSUME NEW m \in ToSet(events), NEW n \in ToSet(events), m # n, TypeOK
  PROVE  Before(m, n) \/ Before(n, m)
<1>1. PICK i \in DOMAIN events : events[i] = m
  BY DEF ToSet
<1>2. PICK j \in DOMAIN events : events[j] = n
  BY DEF ToSet
<1>3. i \in Nat /\ j \in Nat
  BY DEF TypeOK
<1>4. i < j \/ j < i
  BY <1>1, <1>2, <1>3
<1>. QED  BY <1>1, <1>2, <1>4 DEF Before

\* So a delivery is at one notification at most.
LEMMA OneIsCurrent ==
  ASSUME NEW s \in Sink, NEW m \in Note, NEW n \in Note, TypeOK,
         batch[s] \subseteq ToSet(events), Current(s, m), Current(s, n)
  PROVE  m = n
<1>1. m \in ToSet(events) /\ n \in ToSet(events)
  BY DEF Current
<1>2. ~Before(m, n) /\ ~Before(n, m)
  BY DEF Current
<1>. QED  BY <1>1, <1>2, EventsAreOrdered

---------------------------------------------------------------------------
\* Type correctness.

LEMMA ReleasedType ==
  ASSUME NEW state \in SinkState
  PROVE  Released(state) \in SinkState
BY DEF Released, SinkState

LEMMA RecoveredType ==
  ASSUME TypeOK
  PROVE  Recovered \in [Note -> [Sink -> SinkState]]
<1>1. \A n \in Note, s \in Sink : delivery[n][s] \in SinkState
  BY DEF TypeOK
<1>. QED  BY <1>1, ReleasedType DEF Recovered

LEMMA AckedByType ==
  ASSUME NEW d \in [Sink -> SinkState], NEW s \in Sink
  PROVE  AckedBy(d, s) \in [Sink -> SinkState]
BY DEF AckedBy, SinkState

LEMMA ClaimsAreEvents ==
  ASSUME NEW s \in Sink
  PROVE  ClaimFor(s) \subseteq {n \in ToSet(events) : Recovered[n][s] = "pending"}
BY DEF ClaimFor

LEMMA EventsAreNotes ==
  ASSUME TypeOK
  PROVE  ToSet(events) \subseteq Note
BY DEF TypeOK, ToSet

\* The variables of the model's bounds stay in theirs.
LEMMA TypeInit == Init => TypeOK
BY NotificationsAssumption DEF Init, TypeOK, Sink, SinkState

LEMMA AdvanceType ==
  ASSUME TypeOK, NEW s \in Sink, NEW n \in Note, Advance(s, n)
  PROVE  /\ batch' \in [Sink -> SUBSET Note]
         /\ busy' \in {"nothing", "publish"} \cup Sink
         /\ pc' \in [Sink -> {"idle", "handle", "store", "ack"}]
BY DEF Advance, TypeOK

LEMMA TypeStep == TypeOK /\ [Next]_vars => TypeOK'
<1>. SUFFICES ASSUME TypeOK, [Next]_vars PROVE TypeOK'
  OBVIOUS
<1>. USE DEF files, loop, outside, bounds
<1>0. CASE UNCHANGED vars
  BY <1>0 DEF vars, TypeOK
<1>1. ASSUME NEW n \in Note, Publish(n) PROVE TypeOK'
  <2>1. events' \in Seq(Note)
    BY <1>1 DEF Publish, TypeOK
  <2>. QED  BY <1>1, <2>1 DEF Publish, TypeOK
<1>2. CASE PublishDelivery
  <2>1. [s \in Sink |-> "pending"] \in [Sink -> SinkState]
    BY DEF SinkState
  <2>2. delivery' \in [Note -> [Sink -> SinkState]]
    BY <1>2, <2>1 DEF PublishDelivery, TypeOK
  <2>. QED  BY <1>2, <2>2 DEF PublishDelivery, TypeOK
<1>3. ASSUME NEW s \in Sink, Claim(s) PROVE TypeOK'
  <2>1. ClaimFor(s) \subseteq Note
    BY ClaimsAreEvents, EventsAreNotes
  <2>2. delivery' \in [Note -> [Sink -> SinkState]]
    <3>1. \A n \in Note : [Recovered[n] EXCEPT ![s] =
            IF n \in ClaimFor(s) THEN "claimed" ELSE @] \in [Sink -> SinkState]
      BY RecoveredType DEF SinkState
    <3>2. delivery' = [n \in Note |-> [Recovered[n] EXCEPT ![s] =
            IF n \in ClaimFor(s) THEN "claimed" ELSE @]]
      BY <1>3 DEF Claim
    <3>. QED  BY <3>1, <3>2
  <2>3. batch' \in [Sink -> SUBSET Note]
    BY <1>3, <2>1 DEF Claim, TypeOK
  <2>4. busy' \in {"nothing", "publish"} \cup Sink /\ pc' \in [Sink -> {"idle", "handle", "store", "ack"}]
    BY <1>3 DEF Claim, TypeOK
  <2>. QED  BY <1>3, <2>2, <2>3, <2>4 DEF Claim, TypeOK
<1>4. ASSUME NEW n \in Note, NEW s \in Sink, Ack(s, n) PROVE TypeOK'
  <2>1. delivery' \in [Note -> [Sink -> SinkState]]
    <3>1. AckedBy(delivery[n], s) \in [Sink -> SinkState]
      BY AckedByType DEF TypeOK
    <3>. QED  BY <1>4, <3>1 DEF Ack, TypeOK
  <2>2. Advance(s, n)
    BY <1>4 DEF Ack
  <2>. QED  BY <1>4, <2>1, <2>2, AdvanceType DEF Ack, TypeOK
<1>5. ASSUME NEW n \in Note, NEW s \in Sink, HandlerRaises(s, n) PROVE TypeOK'
  <2>1. Advance(s, n)
    BY <1>5 DEF HandlerRaises
  <2>2. failures' \in 0..MaxFailures
    BY <1>5, NotificationsAssumption DEF HandlerRaises, TypeOK
  <2>. QED  BY <1>5, <2>1, <2>2, AdvanceType DEF HandlerRaises, TypeOK
<1>6. ASSUME NEW n \in Note, WireSends(n) PROVE TypeOK'
  <2>1. CASE HandlerRaises("wire", n)
    BY <2>1, <1>5 DEF Sink
  <2>2. ASSUME ~HandlerRaises("wire", n) PROVE TypeOK'
    <3>1. /\ sent' = [sent EXCEPT ![n] = @ + 1]
          /\ pc' = [pc EXCEPT !["wire"] = "ack"]
          /\ UNCHANGED <<files, started, busy, batch, history, stored, bounds>>
      BY <1>6, <2>2 DEF WireSends
    <3>2. sent' \in [Note -> Nat]
      BY <3>1 DEF TypeOK
    <3>3. pc' \in [Sink -> {"idle", "handle", "store", "ack"}]
      BY <3>1 DEF TypeOK
    <3>. QED  BY <3>1, <3>2, <3>3 DEF TypeOK
  <2>. QED  BY <2>1, <2>2
<1>7. ASSUME NEW n \in Note, LlmAppends(n) PROVE TypeOK'
  <2>1. history' \in [Note -> Nat]
    BY <1>7 DEF LlmAppends, TypeOK
  <2>2. pc' \in [Sink -> {"idle", "handle", "store", "ack"}]
    BY <1>7 DEF LlmAppends, TypeOK
  <2>. QED  BY <1>7, <2>1, <2>2 DEF LlmAppends, TypeOK
<1>8. ASSUME NEW n \in Note, LlmStores(n) PROVE TypeOK'
  <2>1. stored' \in [Note -> Nat]
    BY <1>8 DEF LlmStores, Store, TypeOK
  <2>2. pc' \in [Sink -> {"idle", "handle", "store", "ack"}]
    BY <1>8 DEF LlmStores, TypeOK
  <2>. QED  BY <1>8, <2>1, <2>2 DEF LlmStores, TypeOK
<1>9. ASSUME NEW n \in Note, LlmCancelled(n) PROVE TypeOK'
  <2>1. stored' \in [Note -> Nat]
    BY <1>9 DEF LlmCancelled, Store, TypeOK
  <2>2. pc' \in [Sink -> {"idle", "handle", "store", "ack"}] /\ batch' \in [Sink -> SUBSET Note]
    BY <1>9 DEF LlmCancelled, TypeOK
  <2>3. failures' \in 0..MaxFailures
    BY <1>9, NotificationsAssumption DEF LlmCancelled, TypeOK
  <2>. QED  BY <1>9, <2>1, <2>2, <2>3 DEF LlmCancelled, TypeOK
<1>10. ASSUME NEW n \in Note, NEW s \in Sink, Age(n, s) PROVE TypeOK'
  <2>1. delivery' \in [Note -> [Sink -> SinkState]]
    BY <1>10 DEF Age, TypeOK, SinkState
  <2>. QED  BY <1>10, <2>1 DEF Age, TypeOK
<1>11. CASE Crash
  <2>1. crashes' \in 0..MaxCrashes
    BY <1>11, NotificationsAssumption DEF Crash, TypeOK
  <2>. QED  BY <1>11, <2>1 DEF Crash, TypeOK
<1>12. CASE Restart
  <2>1. delivery' \in [Note -> [Sink -> SinkState]]
    <3>1. \A n \in Note : RestoredFrom(n, Recovered[n]) \in [Sink -> SinkState]
      BY RecoveredType, AckedByType DEF RestoredFrom, Sink
    <3>. QED  BY <1>12, <3>1 DEF Restart
  <2>. QED  BY <1>12, <2>1 DEF Restart, TypeOK
<1>. QED
  BY <1>0, <1>1, <1>2, <1>3, <1>4, <1>5, <1>6, <1>7, <1>8, <1>9, <1>10, <1>11, <1>12
  DEF Next, WireStep, LlmStep, LlmFault, WireAcks, LlmAcks, LlmStoreRaises, Sink

\* Every state of the queue is well typed.
THEOREM Typing == Spec => []TypeOK
BY TypeInit, TypeStep, PTL DEF Spec

---------------------------------------------------------------------------
\* What the steps do to the deliveries.

\* No delivery begins to exist or becomes acked, and none ceases to.
SameStanding ==
  \A n \in Note, s \in Sink :
    /\ delivery'[n][s] = "none" <=> delivery[n][s] = "none"
    /\ delivery'[n][s] = "acked" <=> delivery[n][s] = "acked"

LEMMA RecoverKeepsStanding ==
  ASSUME TypeOK, NEW n \in Note, NEW s \in Sink
  PROVE  /\ Recovered[n][s] = "none" <=> delivery[n][s] = "none"
         /\ Recovered[n][s] = "acked" <=> delivery[n][s] = "acked"
         /\ Recovered[n][s] = "pending" <=> delivery[n][s] \in {"pending", "stale"}
BY DEF TypeOK, Recovered, Released, SinkState

LEMMA ClaimKeepsStanding ==
  ASSUME TypeOK, NEW s \in Sink, Claim(s)
  PROVE  SameStanding /\ \A n \in ClaimFor(s) : delivery'[n][s] = "claimed"
<1>1. delivery' = [n \in Note |-> [Recovered[n] EXCEPT ![s] =
            IF n \in ClaimFor(s) THEN "claimed" ELSE @]]
  BY DEF Claim
<1>2. \A n \in Note : Recovered[n] \in [Sink -> SinkState]
  BY RecoveredType
<1>3. ASSUME NEW n \in Note, NEW x \in Sink
      PROVE  delivery'[n][x] = IF x = s /\ n \in ClaimFor(s) THEN "claimed" ELSE Recovered[n][x]
  BY <1>1, <1>2
<1>4. \A n \in ClaimFor(s) : n \in Note /\ Recovered[n][s] = "pending"
  BY ClaimsAreEvents, EventsAreNotes
<1>. QED  BY <1>3, <1>4, RecoverKeepsStanding DEF SameStanding

LEMMA AgeKeepsStanding ==
  ASSUME TypeOK, NEW n \in Note, NEW s \in Sink, Age(n, s)
  PROVE  SameStanding
BY DEF Age, TypeOK, SameStanding

LEMMA AckAcks ==
  ASSUME TypeOK, NEW n \in Note, NEW s \in Sink, Ack(s, n)
  PROVE  \A m \in Note, x \in Sink :
           /\ delivery'[m][x] = "none" <=> delivery[m][x] = "none"
           /\ delivery'[m][x] = "acked" <=>
                \/ delivery[m][x] = "acked"
                \/ m = n /\ x = s /\ delivery[n][s] # "none"
BY DEF Ack, AckedBy, TypeOK

LEMMA RestartAcks ==
  ASSUME TypeOK, Restart
  PROVE  \A m \in Note, x \in Sink :
           /\ delivery'[m][x] = "none" <=> delivery[m][x] = "none"
           /\ delivery'[m][x] = "acked" <=>
                \/ delivery[m][x] = "acked"
                \/ x = "llm" /\ stored[m] > 0 /\ delivery[m][x] # "none"
<1>. SUFFICES ASSUME NEW m \in Note, NEW x \in Sink
     PROVE  /\ delivery'[m][x] = "none" <=> delivery[m][x] = "none"
            /\ delivery'[m][x] = "acked" <=>
                 \/ delivery[m][x] = "acked"
                 \/ x = "llm" /\ stored[m] > 0 /\ delivery[m][x] # "none"
  OBVIOUS
<1>1. delivery'[m] = IF stored[m] > 0 THEN AckedBy(Recovered[m], "llm") ELSE Recovered[m]
  BY DEF Restart, RestoredFrom
<1>2. Recovered[m] \in [Sink -> SinkState]
  BY RecoveredType
<1>3. AckedBy(Recovered[m], "llm")[x] =
        IF x = "llm" /\ Recovered[m][x] # "none" THEN "acked" ELSE Recovered[m][x]
  BY <1>2 DEF AckedBy
<1>. QED  BY <1>1, <1>3, RecoverKeepsStanding

LEMMA PublishDeliveryCreates ==
  ASSUME TypeOK, PublishDelivery, NEW l \in Note, l = Last(events)
  PROVE  \A m \in Note, x \in Sink :
           delivery'[m][x] = IF m = l THEN "pending" ELSE delivery[m][x]
BY DEF PublishDelivery, TypeOK

---------------------------------------------------------------------------
\* The inductive invariant.

\* Only what has a delivery.json is ever in a batch.
InBatch ==
  \A s \in Sink : \A n \in batch[s] : n \in ToSet(events) /\ delivery[n][s] # "none"

\* delivery.json comes after event.json, and while it is due there is none.
EventFirst ==
  /\ \A n \in Note, s \in Sink : n \notin ToSet(events) => delivery[n][s] = "none"
  /\ busy = "publish" =>
       events # <<>> /\ \A s \in Sink : delivery[Last(events)][s] = "none"

\* What the handler has done with the notification a delivery is at.
Handling ==
  \A n \in Note :
    /\ Current("llm", n) /\ pc["llm"] \in {"store", "ack"} => history[n] > 0
    /\ Current("llm", n) /\ pc["llm"] = "ack" => stored[n] > 0
    /\ Current("wire", n) /\ pc["wire"] = "ack" => sent[n] > 0

\* A process that has died handles nothing.
Stopped == ~started => busy = "nothing" /\ \A s \in Sink : pc[s] = "idle"

IInv == TypeOK /\ InBatch /\ EventFirst /\ Handling /\ Stopped /\ AckedIsSafe

LEMMA InvInit == Init => IInv
<1>. SUFFICES ASSUME Init PROVE IInv
  OBVIOUS
<1>1. TypeOK
  BY TypeInit
<1>2. InBatch /\ EventFirst /\ Handling /\ Stopped /\ AckedIsSafe
  BY DEF Init, InBatch, EventFirst, Handling, Stopped, AckedIsSafe, Sink, WasShown
<1>. QED  BY <1>1, <1>2 DEF IInv

\* The events only grow.
Grows == events' = events \/ \E x \in Note : x \notin ToSet(events) /\ events' = Append(events, x)

LEMMA EventsGrow ==
  ASSUME TypeOK, Grows
  PROVE  /\ ToSet(events) \subseteq ToSet(events)'
         /\ \A m, n \in Note : Before(m, n) => Before(m, n)'
<1>1. CASE events' = events
  BY <1>1 DEF Before, ToSet
<1>2. ASSUME NEW x \in Note, events' = Append(events, x)
      PROVE  /\ ToSet(events) \subseteq ToSet(events)'
             /\ \A m, n \in Note : Before(m, n) => Before(m, n)'
  <2>1. /\ DOMAIN events \subseteq DOMAIN events'
        /\ \A i \in DOMAIN events : events'[i] = events[i]
    BY <1>2 DEF TypeOK
  <2>. QED  BY <2>1 DEF Before, ToSet
<1>. QED  BY <1>1, <1>2 DEF Grows

LEMMA NextGrows ==
  ASSUME TypeOK, [Next]_vars
  PROVE  Grows
BY DEF Next, vars, files, Publish, Known, PublishDelivery, Claim, WireStep, WireSends, WireAcks,
  LlmStep, LlmAppends, LlmStores, LlmAcks, LlmFault, LlmStoreRaises, LlmCancelled,
  HandlerRaises, Ack, Age, Crash, Restart, Grows

LEMMA CurrentKept ==
  ASSUME TypeOK, Grows, NEW s \in Sink, batch'[s] = batch[s], NEW n \in Note, Current(s, n)'
  PROVE  Current(s, n)
<1>1. n \in batch[s] /\ \A m \in batch[s] : ~Before(m, n)'
  BY DEF Current
<1>2. batch[s] \subseteq Note
  BY DEF TypeOK
<1>. QED  BY <1>1, <1>2, EventsGrow DEF Current

---------------------------------------------------------------------------
\* Every step keeps the invariant.  First: what is in a batch keeps existing.

LEMMA NoneVanishes ==
  ASSUME TypeOK, EventFirst, [Next]_vars
  PROVE  \A m \in Note, x \in Sink : delivery[m][x] # "none" => delivery'[m][x] # "none"
<1>1. CASE delivery' = delivery
  BY <1>1
<1>2. CASE PublishDelivery
  <2>1. Last(events) \in Note
    BY <1>2 DEF PublishDelivery, EventFirst, TypeOK, Last
  <2>. QED  BY <1>2, <2>1, PublishDeliveryCreates
<1>3. ASSUME NEW s \in Sink, Claim(s)
      PROVE  \A m \in Note, x \in Sink : delivery[m][x] # "none" => delivery'[m][x] # "none"
  BY <1>3, ClaimKeepsStanding DEF SameStanding
<1>4. ASSUME NEW n \in Note, NEW s \in Sink, Age(n, s)
      PROVE  \A m \in Note, x \in Sink : delivery[m][x] # "none" => delivery'[m][x] # "none"
  BY <1>4, AgeKeepsStanding DEF SameStanding
<1>5. ASSUME NEW n \in Note, NEW s \in Sink, Ack(s, n)
      PROVE  \A m \in Note, x \in Sink : delivery[m][x] # "none" => delivery'[m][x] # "none"
  BY <1>5, AckAcks
<1>6. CASE Restart
  BY <1>6, RestartAcks
<1>. QED
  BY <1>1, <1>2, <1>3, <1>4, <1>5, <1>6
  DEF Next, vars, files, Publish, WireStep, WireSends, WireAcks, LlmStep, LlmAppends, LlmStores,
    LlmAcks, LlmFault, LlmStoreRaises, LlmCancelled, HandlerRaises, Crash, Sink

\* How the batches change.
LEMMA BatchesShrink ==
  ASSUME TypeOK, [Next]_vars, NEW s \in Sink
  PROVE  batch'[s] \subseteq batch[s] \/ (Claim(s) /\ batch'[s] = ClaimFor(s))
<1>1. CASE batch' = batch
  BY <1>1
<1>2. ASSUME NEW x \in Sink, Claim(x)
      PROVE  batch'[s] \subseteq batch[s] \/ (Claim(s) /\ batch'[s] = ClaimFor(s))
  <2>1. batch' = [batch EXCEPT ![x] = ClaimFor(x)]
    BY <1>2 DEF Claim
  <2>. QED  BY <1>2, <2>1 DEF TypeOK
<1>3. ASSUME NEW x \in Sink, NEW n \in Note, Advance(x, n)
      PROVE  batch'[s] \subseteq batch[s]
  BY <1>3 DEF Advance, TypeOK
<1>4. ASSUME NEW n \in Note, LlmCancelled(n)
      PROVE  batch'[s] \subseteq batch[s]
  BY <1>4 DEF LlmCancelled, TypeOK
<1>5. CASE Crash
  BY <1>5 DEF Crash
<1>. QED
  BY <1>1, <1>2, <1>3, <1>4, <1>5
  DEF Next, vars, loop, Publish, PublishDelivery, WireStep, WireSends, WireAcks, LlmStep,
    LlmAppends, LlmStores, LlmAcks, LlmFault, LlmStoreRaises, HandlerRaises, Ack, Age,
    Restart, Sink

LEMMA InBatchStep ==
  ASSUME IInv, [Next]_vars
  PROVE  InBatch'
<1>. USE DEF IInv
<1>. SUFFICES ASSUME NEW s \in Sink, NEW n \in batch'[s]
     PROVE  n \in ToSet(events)' /\ delivery'[n][s] # "none"
  BY DEF InBatch
<1>1. ToSet(events) \subseteq ToSet(events)' /\ ToSet(events) \subseteq Note
  BY NextGrows, EventsGrow, EventsAreNotes
<1>2. CASE batch'[s] \subseteq batch[s]
  <2>1. n \in ToSet(events) /\ delivery[n][s] # "none"
    BY <1>2 DEF InBatch
  <2>. QED  BY <1>1, <2>1, NoneVanishes
<1>3. CASE Claim(s) /\ batch'[s] = ClaimFor(s)
  <2>1. n \in ToSet(events)
    BY <1>3, ClaimsAreEvents
  <2>2. delivery'[n][s] = "claimed"
    BY <1>3, ClaimKeepsStanding
  <2>. QED  BY <1>1, <2>1, <2>2
<1>. QED  BY <1>2, <1>3, BatchesShrink

\* What is not published has no deliveries.
LEMMA EventFirstStep ==
  ASSUME IInv, [Next]_vars
  PROVE  EventFirst'
<1>. USE DEF IInv
<1>0. Grows
  BY NextGrows
<1>1. ASSUME SameStanding, events' = events, busy' = "publish" => busy = "publish"
      PROVE  EventFirst'
  <2>1. \A n \in Note, s \in Sink : n \notin ToSet(events)' => delivery'[n][s] = "none"
    BY <1>1 DEF EventFirst, SameStanding, ToSet
  <2>2. ASSUME busy' = "publish"
        PROVE  events' # <<>> /\ \A s \in Sink : delivery'[Last(events')][s] = "none"
    <3>1. events # <<>> /\ Last(events) \in Note
      BY <1>1, <2>2 DEF EventFirst, TypeOK, Last
    <3>. QED  BY <1>1, <2>2, <3>1 DEF EventFirst, SameStanding
  <2>. QED  BY <2>1, <2>2 DEF EventFirst
<1>2. CASE UNCHANGED vars
  BY <1>2, <1>1 DEF vars, files, loop, SameStanding
<1>3. ASSUME NEW n \in Note, Publish(n) PROVE EventFirst'
  <2>1. /\ n \notin ToSet(events)
        /\ events' = Append(events, n)
        /\ delivery' = delivery
    BY <1>3 DEF Publish, Known
  <2>2. ToSet(events) \subseteq ToSet(events)'
    BY <1>0, EventsGrow
  <2>3. events' # <<>> /\ Last(events') = n
    BY <2>1 DEF TypeOK, Last
  <2>. QED  BY <2>1, <2>2, <2>3 DEF EventFirst
<1>4. CASE PublishDelivery
  <2>1. events' = events /\ busy' = "nothing" /\ Last(events) \in ToSet(events)
    BY <1>4 DEF PublishDelivery, EventFirst, TypeOK, Last, ToSet
  <2>2. \A n \in Note, s \in Sink : n # Last(events) => delivery'[n][s] = delivery[n][s]
    BY <1>4, <2>1, EventsAreNotes, PublishDeliveryCreates
  <2>. QED  BY <2>1, <2>2 DEF EventFirst, ToSet
<1>5. ASSUME NEW s \in Sink, Claim(s) PROVE EventFirst'
  <2>1. events' = events /\ (busy' = "publish" => busy = "publish")
    BY <1>5 DEF Claim, Sink
  <2>. QED  BY <1>1, <1>5, <2>1, ClaimKeepsStanding
<1>6. ASSUME NEW n \in Note, NEW s \in Sink, Ack(s, n) PROVE EventFirst'
  <2>1. events' = events /\ busy' # "publish"
    BY <1>6 DEF Ack, Advance, Sink
  <2>. QED  BY <1>6, <2>1, AckAcks DEF EventFirst, ToSet
<1>7. ASSUME NEW n \in Note, NEW s \in Sink, HandlerRaises(s, n) PROVE EventFirst'
  <2>1. events' = events /\ delivery' = delivery /\ busy' # "publish"
    BY <1>7 DEF HandlerRaises, Advance, files, Sink
  <2>. QED  BY <1>1, <2>1 DEF SameStanding
<1>8. ASSUME NEW n \in Note, NEW s \in Sink, Age(n, s) PROVE EventFirst'
  <2>1. events' = events /\ busy' = busy
    BY <1>8 DEF Age, loop
  <2>. QED  BY <1>1, <1>8, <2>1, AgeKeepsStanding
<1>9. CASE Restart
  <2>1. events' = events /\ busy' = busy
    BY <1>9 DEF Restart
  <2>2. \A m \in Note, x \in Sink : delivery'[m][x] = "none" <=> delivery[m][x] = "none"
    BY <1>9, RestartAcks
  <2>3. ASSUME busy' = "publish"
        PROVE  events' # <<>> /\ \A s \in Sink : delivery'[Last(events')][s] = "none"
    <3>1. events # <<>> /\ Last(events) \in Note
      BY <2>1, <2>3 DEF EventFirst, TypeOK, Last
    <3>. QED  BY <2>1, <2>2, <2>3, <3>1 DEF EventFirst
  <2>. QED  BY <2>1, <2>2, <2>3 DEF EventFirst, ToSet
<1>10. ASSUME UNCHANGED files, busy' = "publish" => busy = "publish" PROVE EventFirst'
  BY <1>10, <1>1 DEF files, SameStanding
<1>11. ASSUME NEW n \in Note, WireSends(n) \/ LlmAppends(n) \/ LlmStores(n) \/ LlmCancelled(n)
       PROVE  EventFirst'
  BY <1>11, <1>10, <1>7 DEF WireSends, LlmAppends, LlmStores, LlmCancelled, Sink
<1>12. CASE Crash
  BY <1>12, <1>10 DEF Crash
<1>. QED
  BY <1>2, <1>3, <1>4, <1>5, <1>6, <1>7, <1>8, <1>9, <1>11, <1>12
  DEF Next, WireStep, LlmStep, LlmFault, WireAcks, LlmAcks, LlmStoreRaises, Sink

LEMMA StoppedStep ==
  ASSUME IInv, [Next]_vars
  PROVE  Stopped'
<1>. USE DEF IInv
<1>1. ASSUME NEW n \in Note, NEW s \in Sink, Advance(s, n), started' = started, started PROVE Stopped'
  BY <1>1 DEF Stopped
<1>2. ASSUME started' PROVE Stopped'
  BY <1>2 DEF Stopped
<1>3. CASE Crash
  BY <1>3 DEF Crash, Stopped
<1>4. CASE started' = started /\ UNCHANGED <<busy, pc>>
  BY <1>4 DEF Stopped
<1>5. ASSUME started PROVE started' \/ Crash
  BY <1>5 DEF Next, vars, loop, Publish, PublishDelivery, Claim, WireStep, WireSends, WireAcks,
    LlmStep, LlmAppends, LlmStores, LlmAcks, LlmFault, LlmStoreRaises, LlmCancelled,
    HandlerRaises, Ack, Age, Restart
<1>6. ASSUME ~started PROVE started' \/ (started' = started /\ UNCHANGED <<busy, pc>>)
  BY <1>6 DEF Stopped, Next, vars, loop, Free, Publish, PublishDelivery, Claim, WireStep, WireSends,
    WireAcks, LlmStep, LlmAppends, LlmStores, LlmAcks, LlmFault, LlmStoreRaises, LlmCancelled,
    HandlerRaises, Ack, Age, Crash, Restart, Sink
<1>. QED  BY <1>2, <1>3, <1>4, <1>5, <1>6

\* What the handler has done is not undone while the notification is current.
LEMMA HandlingStep ==
  ASSUME IInv, [Next]_vars
  PROVE  Handling'
<1>. USE DEF IInv
<1>. DEFINE Llm == \A n \in Note :
              /\ Current("llm", n)' /\ pc'["llm"] \in {"store", "ack"} => history'[n] > 0
              /\ Current("llm", n)' /\ pc'["llm"] = "ack" => stored'[n] > 0
            Wire == \A n \in Note :
              Current("wire", n)' /\ pc'["wire"] = "ack" => sent'[n] > 0
<1>0. Llm /\ Wire => Handling'
  BY DEF Handling
<1>1. Grows /\ Sink = {"llm", "wire"}
  BY NextGrows DEF Sink
<1>2. ASSUME batch'["llm"] = batch["llm"], pc'["llm"] = pc["llm"], UNCHANGED <<history, stored>>
      PROVE  Llm
  BY <1>1, <1>2, CurrentKept DEF Handling
<1>3. ASSUME batch'["wire"] = batch["wire"], pc'["wire"] = pc["wire"], UNCHANGED sent
      PROVE  Wire
  BY <1>1, <1>3, CurrentKept DEF Handling
<1>4. ASSUME pc'["llm"] \notin {"store", "ack"} PROVE Llm
  BY <1>4
<1>5. ASSUME pc'["wire"] # "ack" PROVE Wire
  BY <1>5
<1>. HIDE DEF Llm, Wire
<1>6. CASE UNCHANGED <<pc, batch, outside>>
  BY <1>0, <1>2, <1>3, <1>6 DEF outside
<1>7. ASSUME NEW s \in Sink, Claim(s) PROVE Handling'
  <2>1. /\ batch' = [batch EXCEPT ![s] = ClaimFor(s)]
        /\ pc[s] = "idle"
        /\ pc' = pc \/ pc' = [pc EXCEPT ![s] = "handle"]
        /\ UNCHANGED outside
    BY <1>7 DEF Claim
  <2>2. \A x \in Sink : x # s => batch'[x] = batch[x] /\ pc'[x] = pc[x]
    BY <2>1 DEF TypeOK
  <2>3. pc'[s] \in {"idle", "handle"}
    BY <2>1 DEF TypeOK
  <2>. QED  BY <1>0, <1>1, <1>2, <1>3, <1>4, <1>5, <2>1, <2>2, <2>3 DEF outside
<1>8. ASSUME NEW s \in Sink, NEW n \in Note, Advance(s, n), UNCHANGED outside PROVE Handling'
  <2>1. \A x \in Sink : x # s => batch'[x] = batch[x] /\ pc'[x] = pc[x]
    BY <1>8 DEF Advance, TypeOK
  <2>2. pc'[s] \in {"idle", "handle"}
    BY <1>8 DEF Advance, TypeOK
  <2>. QED  BY <1>0, <1>1, <1>2, <1>3, <1>4, <1>5, <1>8, <2>1, <2>2 DEF outside
<1>9. ASSUME NEW s \in Sink, NEW n \in Note, batch' = batch, Current(s, n)
      PROVE  \A m \in Note : Current(s, m)' => m = n
  <2>1. batch[s] \subseteq ToSet(events)
    BY DEF InBatch
  <2>. QED  BY <1>1, <1>9, <2>1, CurrentKept, OneIsCurrent
<1>10. ASSUME NEW n \in Note, Current("wire", n), WireSends(n) PROVE Handling'
  <2>1. CASE HandlerRaises("wire", n)
    BY <1>8, <2>1, <1>1 DEF HandlerRaises
  <2>2. ASSUME ~HandlerRaises("wire", n) PROVE Handling'
    <3>1. /\ sent' = [sent EXCEPT ![n] = @ + 1]
          /\ pc' = [pc EXCEPT !["wire"] = "ack"]
          /\ UNCHANGED <<batch, history, stored>>
      BY <1>10, <2>2 DEF WireSends
    <3>2. pc'["llm"] = pc["llm"] /\ sent'[n] > 0
      BY <3>1, <1>1 DEF TypeOK
    <3>3. Llm
      BY <1>2, <3>1, <3>2
    <3>4. Wire
      BY <1>1, <1>9, <1>10, <3>1, <3>2 DEF Wire
    <3>. QED  BY <1>0, <3>3, <3>4
  <2>. QED  BY <2>1, <2>2
<1>11. ASSUME NEW n \in Note, Current("llm", n), LlmAppends(n) PROVE Handling'
  <2>1. /\ history' = [history EXCEPT ![n] = @ + 1]
        /\ pc' = [pc EXCEPT !["llm"] = "store"]
        /\ UNCHANGED <<batch, stored, sent>>
    BY <1>11 DEF LlmAppends
  <2>2. pc'["wire"] = pc["wire"] /\ pc'["llm"] = "store" /\ history'[n] > 0
    BY <2>1, <1>1 DEF TypeOK
  <2>3. Llm
    BY <1>1, <1>9, <1>11, <2>1, <2>2 DEF Llm
  <2>. QED  BY <1>0, <1>3, <2>1, <2>2, <2>3
<1>12. ASSUME NEW n \in Note, Current("llm", n), LlmStores(n) PROVE Handling'
  <2>1. /\ stored' = [stored EXCEPT ![n] = @ + 1]
        /\ pc["llm"] = "store"
        /\ pc' = [pc EXCEPT !["llm"] = "ack"]
        /\ UNCHANGED <<batch, history, sent>>
    BY <1>12 DEF LlmStores, Store
  <2>2. pc'["wire"] = pc["wire"] /\ stored'[n] > 0
    BY <2>1, <1>1 DEF TypeOK
  <2>3. history'[n] > 0
    BY <1>12, <2>1 DEF Handling
  <2>4. Llm
    BY <1>1, <1>9, <1>12, <2>1, <2>2, <2>3 DEF Llm
  <2>. QED  BY <1>0, <1>3, <2>1, <2>2, <2>4
<1>13. ASSUME NEW n \in Note, LlmCancelled(n) PROVE Handling'
  <2>1. /\ pc' = [pc EXCEPT !["llm"] = "idle"]
        /\ batch' = [batch EXCEPT !["llm"] = {}]
        /\ UNCHANGED sent
    BY <1>13 DEF LlmCancelled
  <2>2. pc'["llm"] = "idle" /\ pc'["wire"] = pc["wire"] /\ batch'["wire"] = batch["wire"]
    BY <2>1, <1>1 DEF TypeOK
  <2>. QED  BY <1>0, <1>3, <1>4, <2>1, <2>2
<1>14. CASE Crash
  <2>1. pc'["llm"] = "idle" /\ pc'["wire"] = "idle"
    BY <1>14, <1>1 DEF Crash
  <2>. QED  BY <1>0, <1>4, <1>5, <2>1
<1>15. CASE Restart
  <2>1. pc' = pc /\ \A s \in Sink : pc[s] = "idle"
    BY <1>15 DEF Restart, Stopped
  <2>. QED  BY <1>0, <1>1, <1>4, <1>5, <2>1
<1>. QED
  BY <1>6, <1>7, <1>8, <1>10, <1>11, <1>12, <1>13, <1>14, <1>15
  DEF Next, vars, loop, Publish, PublishDelivery, Age, WireStep, LlmStep, LlmFault, WireAcks,
    LlmAcks, LlmStoreRaises, HandlerRaises, Ack, Sink

\* What is acked was shown.
LEMMA AckedStep ==
  ASSUME IInv, [Next]_vars
  PROVE  AckedIsSafe'
<1>. USE DEF IInv
<1>1. ASSUME \A n \in Note, s \in Sink : delivery'[n][s] = "acked" => delivery[n][s] = "acked",
             \A n \in Note : (stored[n] > 0 => stored'[n] > 0) /\ (sent[n] > 0 => sent'[n] > 0),
             started' => started /\ \A n \in Note : history[n] > 0 => history'[n] > 0
      PROVE  AckedIsSafe'
  BY <1>1 DEF AckedIsSafe, WasShown, Sink
<1>2. ASSUME SameStanding, UNCHANGED <<outside, started>> PROVE AckedIsSafe'
  BY <1>1, <1>2 DEF SameStanding, outside
<1>3. ASSUME UNCHANGED <<delivery, outside, started>> PROVE AckedIsSafe'
  BY <1>2, <1>3 DEF SameStanding
<1>4. CASE PublishDelivery
  <2>1. Last(events) \in Note
    BY <1>4 DEF PublishDelivery, EventFirst, TypeOK, Last
  <2>2. \A n \in Note, s \in Sink : delivery'[n][s] = "acked" => delivery[n][s] = "acked"
    BY <1>4, <2>1, PublishDeliveryCreates
  <2>. QED  BY <1>1, <1>4, <2>2 DEF PublishDelivery, outside
<1>5. ASSUME NEW s \in Sink, Claim(s) PROVE AckedIsSafe'
  BY <1>2, <1>5, ClaimKeepsStanding DEF Claim
<1>6. ASSUME NEW n \in Note, NEW s \in Sink, Age(n, s) PROVE AckedIsSafe'
  BY <1>2, <1>6, AgeKeepsStanding DEF Age, loop
<1>7. ASSUME NEW s \in Sink, NEW n \in Note, Current(s, n), Ack(s, n), pc[s] = "ack"
      PROVE  AckedIsSafe'
  <2>1. WasShown(n, s) /\ (s = "llm" => history[n] > 0)
    BY <1>7 DEF Handling, WasShown, Sink
  <2>2. \A m \in Note, x \in Sink : delivery'[m][x] = "acked" =>
          delivery[m][x] = "acked" \/ (m = n /\ x = s)
    BY <1>7, AckAcks
  <2>3. UNCHANGED <<outside, started>>
    BY <1>7 DEF Ack
  <2>. QED  BY <2>1, <2>2, <2>3 DEF AckedIsSafe, WasShown, Sink, outside
<1>8. ASSUME NEW s \in Sink, NEW n \in Note, HandlerRaises(s, n) PROVE AckedIsSafe'
  BY <1>3, <1>8 DEF HandlerRaises, files
<1>9. ASSUME NEW n \in Note, WireSends(n) PROVE AckedIsSafe'
  <2>1. CASE HandlerRaises("wire", n)
    BY <2>1, <1>8 DEF Sink
  <2>2. ASSUME ~HandlerRaises("wire", n) PROVE AckedIsSafe'
    <3>1. /\ sent' = [sent EXCEPT ![n] = @ + 1]
          /\ UNCHANGED <<delivery, started, history, stored>>
      BY <1>9, <2>2 DEF WireSends, files
    <3>2. \A m \in Note : sent[m] > 0 => sent'[m] > 0
      BY <3>1 DEF TypeOK
    <3>. QED  BY <1>1, <3>1, <3>2
  <2>. QED  BY <2>1, <2>2
<1>10. ASSUME NEW n \in Note, LlmAppends(n) PROVE AckedIsSafe'
  <2>1. /\ history' = [history EXCEPT ![n] = @ + 1]
        /\ UNCHANGED <<delivery, started, sent, stored>>
    BY <1>10 DEF LlmAppends, files
  <2>2. \A m \in Note : history[m] > 0 => history'[m] > 0
    BY <2>1 DEF TypeOK
  <2>. QED  BY <1>1, <2>1, <2>2
<1>11. ASSUME NEW n \in Note, LlmStores(n) \/ LlmCancelled(n) PROVE AckedIsSafe'
  <2>1. /\ stored' = stored \/ stored' = [stored EXCEPT ![n] = @ + 1]
        /\ UNCHANGED <<delivery, started, sent, history>>
    BY <1>11 DEF LlmStores, LlmCancelled, Store, files
  <2>2. ASSUME NEW m \in Note, stored[m] > 0 PROVE stored'[m] > 0
    <3>1. CASE stored' = stored
      BY <2>2, <3>1
    <3>2. CASE stored' = [stored EXCEPT ![n] = @ + 1]
      BY <2>2, <3>2 DEF TypeOK
    <3>. QED  BY <2>1, <3>1, <3>2
  <2>. QED  BY <1>1, <2>1, <2>2
<1>12. CASE Crash
  BY <1>1, <1>12 DEF Crash, files
<1>13. CASE Restart
  <2>1. UNCHANGED <<stored, sent>> /\ history' = stored
    BY <1>13 DEF Restart
  <2>2. \A n \in Note, s \in Sink : delivery'[n][s] = "acked" =>
          delivery[n][s] = "acked" \/ (s = "llm" /\ stored[n] > 0)
    BY <1>13, RestartAcks
  <2>3. \A n \in Note, s \in Sink : delivery'[n][s] = "acked" => WasShown(n, s)
    BY <2>2 DEF AckedIsSafe, WasShown
  <2>4. \A n \in Note, s \in Sink : WasShown(n, s) => WasShown(n, s)'
    BY <2>1 DEF WasShown
  <2>5. \A n \in Note : delivery'[n]["llm"] = "acked" => history'[n] > 0
    BY <2>1, <2>3 DEF WasShown, Sink
  <2>. QED  BY <2>3, <2>4, <2>5 DEF AckedIsSafe
<1>. QED
  BY <1>3, <1>4, <1>5, <1>6, <1>7, <1>8, <1>9, <1>10, <1>11, <1>12, <1>13
  DEF Next, vars, files, loop, Publish, WireStep, LlmStep, LlmFault, WireAcks, LlmAcks,
    LlmStoreRaises, Sink

LEMMA InvStep == IInv /\ [Next]_vars => IInv'
BY TypeStep, InBatchStep, EventFirstStep, StoppedStep, HandlingStep, AckedStep DEF IInv

\* A notification is acknowledged only once nothing can take it away.
THEOREM AcksAreSafe == Spec => []AckedIsSafe
<1>1. IInv => AckedIsSafe
  BY DEF IInv
<1>. QED  BY InvInit, InvStep, <1>1, PTL DEF Spec

---------------------------------------------------------------------------
\* No copy stays twice in the context.

\* The handler has appended the notification the delivery to the model is at.
InHand(n) == Current("llm", n) /\ pc["llm"] \in {"store", "ack"}

\* What is in the context is acked, or the delivery is at it and will ack it; the
\* rest of a batch is not in the context.
Copies ==
  \A n \in Note :
    /\ history[n] <= 1
    /\ history[n] > 0 => delivery[n]["llm"] = "acked" \/ InHand(n)
    /\ n \in batch["llm"] /\ ~InHand(n) => history[n] = 0

\* The file of the context is no further than the context, and has only what is due,
\* so that a restart acks all that it brings back.
Files ==
  \A n \in Note :
    /\ stored[n] <= 1
    /\ started => stored[n] <= history[n]
    /\ InHand(n) /\ pc["llm"] = "store" => stored[n] = 0
    /\ stored[n] > 0 => delivery[n]["llm"] # "none"

\* A process that has died left its batch behind.
Emptied == ~started => batch["llm"] = {}

OInv == Emptied /\ (failures = 0 => Copies /\ Files)

LEMMA OnceInit == Init => OInv
BY DEF Init, OInv, Emptied, Copies, Files, InHand

\* What is published meanwhile does not change which notification is next.
LEMMA CurrentStays ==
  ASSUME TypeOK, InBatch, Grows, NEW s \in Sink, batch'[s] = batch[s], NEW n \in Note
  PROVE  Current(s, n)' <=> Current(s, n)
<1>1. Current(s, n)' => Current(s, n)
  BY CurrentKept
<1>2. ASSUME NEW m \in batch[s], n \in batch[s], Before(m, n)' PROVE Before(m, n)
  <2>1. m \in ToSet(events) /\ n \in ToSet(events)
    BY <1>2 DEF InBatch
  <2>2. CASE events' = events
    BY <1>2, <2>2 DEF Before
  <2>3. ASSUME NEW x \in Note, x \notin ToSet(events), events' = Append(events, x)
        PROVE  Before(m, n)
    <3>1. PICK i, j \in DOMAIN events' : i < j /\ events'[i] = m /\ events'[j] = n
      BY <1>2 DEF Before
    <3>2. DOMAIN events' = 1..(Len(events) + 1) /\ DOMAIN events = 1..Len(events)
      BY <2>3 DEF TypeOK
    <3>3. events'[Len(events) + 1] = x /\ \A k \in DOMAIN events : events'[k] = events[k]
      <4>1. events \in Seq(Note)
        BY DEF TypeOK
      <4>. QED  BY <2>3, <4>1, <3>2
    <3>4. Len(events) \in Nat
      BY DEF TypeOK
    <3>5. j \in DOMAIN events
      BY <2>1, <2>3, <3>1, <3>2, <3>3, <3>4
    <3>6. i \in DOMAIN events
      BY <3>1, <3>2, <3>4, <3>5
    <3>. QED  BY <3>1, <3>3, <3>5, <3>6 DEF Before
  <2>. QED  BY <2>2, <2>3 DEF Grows
<1>. QED  BY <1>1, <1>2 DEF Current

LEMMA EmptiedStep ==
  ASSUME IInv, Emptied, [Next]_vars
  PROVE  Emptied'
<1>. USE DEF IInv
<1>1. CASE started'
  BY <1>1 DEF Emptied
<1>2. CASE Crash
  BY <1>2 DEF Crash, Emptied, Sink
<1>3. CASE ~started' /\ ~Crash
  <2>1. ~started
    BY <1>3 DEF Next, vars, loop, Publish, PublishDelivery, Claim, WireStep, WireSends, WireAcks,
      LlmStep, LlmAppends, LlmStores, LlmAcks, LlmFault, LlmStoreRaises, LlmCancelled,
      HandlerRaises, Ack, Age, Restart
  <2>2. busy = "nothing" /\ pc["llm"] = "idle" /\ pc["wire"] = "idle"
    BY <2>1 DEF Stopped, Sink
  <2>3. batch' = batch
    BY <1>3, <2>1, <2>2 DEF Next, vars, loop, Publish, PublishDelivery, Claim, WireStep, WireSends,
      WireAcks, LlmStep, LlmAppends, LlmStores, LlmAcks, LlmFault, LlmStoreRaises, LlmCancelled,
      Free, Age, Restart
  <2>. QED  BY <2>1, <2>3 DEF Emptied
<1>. QED  BY <1>1, <1>2, <1>3

\* A step that leaves the delivery to the model alone.
LEMMA OthersKeepCopies ==
  ASSUME IInv, Copies, Files, Grows, batch'["llm"] = batch["llm"], pc'["llm"] = pc["llm"],
         UNCHANGED <<history, stored, started>>,
         \A n \in Note : /\ delivery[n]["llm"] = "acked" => delivery'[n]["llm"] = "acked"
                         /\ delivery[n]["llm"] # "none" => delivery'[n]["llm"] # "none"
  PROVE  Copies' /\ Files'
<1>1. \A n \in Note : InHand(n)' <=> InHand(n)
  BY CurrentStays DEF IInv, InHand, Sink
<1>. QED  BY <1>1 DEF Copies, Files

\* The delivery is at the notification it has in hand and at no other.
LEMMA OneInHand ==
  ASSUME IInv, NEW m \in Note, NEW n \in Note, Current("llm", m), InHand(n)
  PROVE  m = n
<1>1. batch["llm"] \subseteq ToSet(events)
  BY DEF IInv, InBatch, Sink
<1>. QED  BY <1>1, OneIsCurrent DEF IInv, InHand, Sink

\* The steps of the delivery to the model.
LEMMA ClaimKeepsCopies ==
  ASSUME IInv, Copies, Files, Claim("llm")
  PROVE  Copies' /\ Files'
<1>. USE DEF IInv
<1>1. "llm" \in Sink
  BY DEF Sink
<1>2. pc["llm"] = "idle" /\ \A n \in Note : ~InHand(n)
  BY DEF Claim, InHand
<1>3. pc'["llm"] \in {"idle", "handle"} /\ \A n \in Note : ~InHand(n)'
  BY <1>1, <1>2 DEF Claim, InHand, TypeOK
<1>4. UNCHANGED <<history, stored, started>> /\ batch'["llm"] = ClaimFor("llm")
  BY <1>1 DEF Claim, outside, TypeOK
<1>5. SameStanding
  BY <1>1, ClaimKeepsStanding
<1>6. \A n \in Note : history[n] > 0 => delivery[n]["llm"] = "acked"
  BY <1>2 DEF Copies
<1>7. ASSUME NEW n \in Note, n \in ClaimFor("llm") PROVE history[n] = 0
  <2>1. Recovered[n]["llm"] = "pending"
    BY <1>1, <1>7, ClaimsAreEvents
  <2>2. delivery[n]["llm"] # "acked"
    BY <1>1, <2>1, RecoverKeepsStanding
  <2>. QED  BY <1>6, <2>2 DEF TypeOK
<1>8. Copies'
  BY <1>1, <1>3, <1>4, <1>5, <1>6, <1>7 DEF Copies, SameStanding
<1>9. Files'
  BY <1>1, <1>3, <1>4, <1>5 DEF Files, SameStanding
<1>. QED  BY <1>8, <1>9

LEMMA AppendKeepsCopies ==
  ASSUME IInv, Copies, Files, NEW n \in Note, Current("llm", n), LlmAppends(n)
  PROVE  Copies' /\ Files'
<1>. USE DEF IInv
<1>1. /\ pc["llm"] = "handle" /\ pc'["llm"] = "store" /\ batch' = batch
      /\ history' = [history EXCEPT ![n] = @ + 1]
      /\ UNCHANGED <<events, delivery, stored, started>>
  BY DEF LlmAppends, files, TypeOK, Sink
<1>2. n \in batch["llm"] /\ \A m \in Note : ~InHand(m)
  BY <1>1 DEF Current, InHand
<1>3. \A m \in Note : Current("llm", m)' <=> Current("llm", m)
  BY <1>1 DEF Current, Before
<1>4. \A m \in Note : InHand(m)' <=> m = n
  <2>1. InHand(n)'
    BY <1>1, <1>3 DEF InHand
  <2>2. \A m \in Note : Current("llm", m) => m = n
    <3>1. batch["llm"] \subseteq ToSet(events)
      BY DEF InBatch, Sink
    <3>. QED  BY <3>1, OneIsCurrent DEF Sink
  <2>. QED  BY <1>3, <2>1, <2>2 DEF InHand
<1>5. (history[n] = 0 /\ stored[n] = 0) \/ ~started
  BY <1>2 DEF Copies, Files, TypeOK
<1>6. started
  BY <1>1 DEF Stopped, Sink
<1>7. history'[n] = 1 /\ \A m \in Note : m # n => history'[m] = history[m]
  BY <1>1, <1>5, <1>6 DEF TypeOK
<1>8. Copies'
  BY <1>1, <1>2, <1>4, <1>7 DEF Copies
<1>9. Files'
  BY <1>1, <1>4, <1>5, <1>6, <1>7 DEF Files
<1>. QED  BY <1>8, <1>9

LEMMA StoreKeepsCopies ==
  ASSUME IInv, Copies, Files, NEW n \in Note, Current("llm", n), LlmStores(n)
  PROVE  Copies' /\ Files'
<1>. USE DEF IInv
<1>1. /\ pc["llm"] = "store" /\ pc'["llm"] = "ack" /\ batch' = batch
      /\ stored' = [stored EXCEPT ![n] = @ + 1]
      /\ UNCHANGED <<events, delivery, history, started>>
  BY DEF LlmStores, Store, files, TypeOK, Sink
<1>2. \A m \in Note : Current("llm", m)' <=> Current("llm", m)
  BY <1>1 DEF Current, Before
<1>3. InHand(n) /\ \A m \in Note : InHand(m)' <=> InHand(m)
  BY <1>1, <1>2 DEF InHand
<1>4. stored[n] = 0 /\ history[n] > 0
  BY <1>1, <1>3 DEF Files, Handling
<1>5. delivery[n]["llm"] # "none"
  BY DEF InBatch, Current, Sink
<1>6. stored'[n] = 1 /\ \A m \in Note : m # n => stored'[m] = stored[m]
  BY <1>1, <1>4 DEF TypeOK
<1>7. Copies'
  BY <1>1, <1>3 DEF Copies
<1>8. Files'
  BY <1>1, <1>3, <1>4, <1>5, <1>6 DEF Files, TypeOK
<1>. QED  BY <1>7, <1>8

LEMMA AckKeepsCopies ==
  ASSUME IInv, Copies, Files, NEW n \in Note, Current("llm", n), LlmAcks(n)
  PROVE  Copies' /\ Files'
<1>. USE DEF IInv
<1>1. /\ pc["llm"] = "ack" /\ pc'["llm"] \in {"idle", "handle"}
      /\ batch'["llm"] = batch["llm"] \ {n} /\ UNCHANGED <<history, stored, started>>
  BY DEF LlmAcks, Ack, Advance, outside, TypeOK, Sink
<1>2. InHand(n) /\ \A m \in Note : InHand(m) => m = n
  BY <1>1, OneInHand DEF InHand
<1>3. \A m \in Note : ~InHand(m)'
  BY <1>1 DEF InHand
<1>4. delivery[n]["llm"] # "none"
  BY DEF InBatch, Current, Sink
<1>5. \A m \in Note : /\ delivery'[m]["llm"] = "none" <=> delivery[m]["llm"] = "none"
                      /\ delivery'[m]["llm"] = "acked" <=> delivery[m]["llm"] = "acked" \/ m = n
  BY <1>4, AckAcks DEF LlmAcks, Sink
<1>6. Copies'
  BY <1>1, <1>2, <1>3, <1>5 DEF Copies
<1>7. Files'
  BY <1>1, <1>3, <1>5 DEF Files
<1>. QED  BY <1>6, <1>7

\* A death and the restart after it: the context is what its file has.
LEMMA CrashKeepsCopies ==
  ASSUME IInv, Copies, Files, Crash
  PROVE  Copies' /\ Files'
<1>1. /\ history' = [n \in Note |-> 0] /\ ~started' /\ UNCHANGED <<delivery, stored>>
      /\ pc'["llm"] = "idle"
  BY DEF Crash, files, Sink
<1>. QED  BY <1>1 DEF Copies, Files, InHand

LEMMA RestartKeepsCopies ==
  ASSUME IInv, Emptied, Copies, Files, Restart
  PROVE  Copies' /\ Files'
<1>. USE DEF IInv
<1>1. /\ history' = stored /\ UNCHANGED stored /\ batch'["llm"] = {} /\ pc'["llm"] = "idle"
  BY DEF Restart, Emptied, Stopped, Sink
<1>2. \A n \in Note :
        /\ delivery'[n]["llm"] = "none" <=> delivery[n]["llm"] = "none"
        /\ stored[n] > 0 /\ delivery[n]["llm"] # "none" => delivery'[n]["llm"] = "acked"
  BY RestartAcks DEF Sink
<1>. QED  BY <1>1, <1>2 DEF Copies, Files, InHand, TypeOK

LEMMA OnceStep == IInv /\ OInv /\ [Next]_vars => OInv'
<1>. SUFFICES ASSUME IInv, OInv, [Next]_vars, failures' = 0 PROVE Copies' /\ Files'
  BY EmptiedStep DEF OInv
<1>. USE DEF IInv
<1>1. failures = 0
  BY DEF Next, vars, bounds, Publish, PublishDelivery, Claim, WireStep, WireSends, WireAcks,
    LlmStep, LlmAppends, LlmStores, LlmAcks, LlmFault, LlmStoreRaises, LlmCancelled,
    HandlerRaises, Ack, Age, Crash, Restart, TypeOK
<1>2. Copies /\ Files /\ Emptied /\ Grows
  BY <1>1, NextGrows DEF OInv
<1>3. \A n \in Note, s \in Sink : ~HandlerRaises(s, n)
  BY <1>1 DEF HandlerRaises
<1>4. ASSUME UNCHANGED <<batch, pc, history, stored, started, delivery>> PROVE Copies' /\ Files'
  BY <1>2, <1>4, OthersKeepCopies
<1>5. CASE PublishDelivery
  <2>1. PICK l \in Note : l = Last(events)
    BY <1>5 DEF PublishDelivery, EventFirst, TypeOK, Last
  <2>2. \A m \in Note : delivery'[m]["llm"] = IF m = l THEN "pending" ELSE delivery[m]["llm"]
    BY <1>5, <2>1, PublishDeliveryCreates DEF Sink
  <2>3. delivery[l]["llm"] = "none"
    BY <1>5, <2>1 DEF PublishDelivery, EventFirst, Sink
  <2>. QED  BY <1>2, <1>5, <2>2, <2>3, OthersKeepCopies DEF PublishDelivery, outside
<1>6. CASE Claim("wire")
  <2>1. batch'["llm"] = batch["llm"] /\ pc'["llm"] = pc["llm"]
    BY <1>6 DEF Claim, TypeOK, Sink
  <2>2. SameStanding
    BY <1>6, ClaimKeepsStanding DEF Sink
  <2>. QED  BY <1>2, <1>6, <2>1, <2>2, OthersKeepCopies DEF Claim, SameStanding, outside, Sink
<1>7. ASSUME NEW n \in Note, WireSends(n) PROVE Copies' /\ Files'
  <2>1. UNCHANGED <<batch, history, stored, started, delivery>>
        /\ pc' = [pc EXCEPT !["wire"] = "ack"]
    BY <1>3, <1>7 DEF WireSends, files, Sink
  <2>2. pc'["llm"] = pc["llm"]
    BY <2>1 DEF TypeOK, Sink
  <2>. QED  BY <1>2, <2>1, <2>2, OthersKeepCopies
<1>8. ASSUME NEW n \in Note, WireAcks(n) PROVE Copies' /\ Files'
  <2>1. batch'["llm"] = batch["llm"] /\ pc'["llm"] = pc["llm"]
    BY <1>8 DEF WireAcks, Ack, Advance, TypeOK, Sink
  <2>2. \A m \in Note : /\ delivery'[m]["llm"] = "none" <=> delivery[m]["llm"] = "none"
                        /\ delivery[m]["llm"] = "acked" => delivery'[m]["llm"] = "acked"
    BY <1>8, AckAcks DEF WireAcks, Sink
  <2>. QED  BY <1>2, <1>8, <2>1, <2>2, OthersKeepCopies DEF WireAcks, Ack, outside
<1>9. ASSUME NEW n \in Note, NEW s \in Sink, Age(n, s) PROVE Copies' /\ Files'
  <2>1. SameStanding
    BY <1>9, AgeKeepsStanding
  <2>. QED  BY <1>2, <1>9, <2>1, OthersKeepCopies DEF Age, SameStanding, loop, outside, Sink
<1>10. \A n \in Note : ~LlmStoreRaises(n) /\ ~LlmCancelled(n)
  BY <1>1, <1>3 DEF LlmStoreRaises, LlmCancelled, Sink
<1>. QED
  BY <1>2, <1>4, <1>5, <1>6, <1>7, <1>8, <1>9, <1>10, ClaimKeepsCopies, AppendKeepsCopies,
    StoreKeepsCopies, AckKeepsCopies, CrashKeepsCopies, RestartKeepsCopies
  DEF Next, vars, files, loop, outside, Publish, WireStep, LlmStep, LlmFault, Sink

\* As long as no turn is cancelled and no write fails, the model is told each thing
\* at most once, whatever crashes and stale claims there are.
THEOREM CopiesAreOne == Spec => []OneCopy
<1>1. IInv /\ OInv => OneCopy
  BY DEF OInv, Copies, OneCopy
<1>. QED  BY InvInit, InvStep, OnceInit, OnceStep, <1>1, PTL DEF Spec

---------------------------------------------------------------------------
\* The queue implements the promise.

\* The mapped variables, delivery by delivery.
LEMMA Mapped ==
  /\ \A n \in Note, s \in Sink : <<n, s>> \in Due <=> delivery[n][s] # "none"
  /\ \A n \in Note, s \in Sink : <<n, s>> \in Acked <=> delivery[n][s] = "acked"
  /\ \A n \in Note, s \in Sink : <<n, s>> \in Shown <=> WasShown(n, s)
  /\ Due \subseteq Note \X Sink /\ Acked \subseteq Note \X Sink /\ Shown \subseteq Note \X Sink
BY DEF Due, Acked, Shown

LEMMA MappedNext ==
  /\ \A n \in Note, s \in Sink : <<n, s>> \in Due' <=> delivery'[n][s] # "none"
  /\ \A n \in Note, s \in Sink : <<n, s>> \in Acked' <=> delivery'[n][s] = "acked"
  /\ \A n \in Note, s \in Sink : <<n, s>> \in Shown' <=> WasShown(n, s)'
  /\ Due' \subseteq Note \X Sink /\ Acked' \subseteq Note \X Sink /\ Shown' \subseteq Note \X Sink
BY DEF Due, Acked, Shown

LEMMA SetsOfPairs ==
  ASSUME NEW A, NEW B, A \subseteq Note \X Sink, B \subseteq Note \X Sink,
         \A n \in Note, s \in Sink : <<n, s>> \in A <=> <<n, s>> \in B
  PROVE  A = B
<1>1. \A d \in Note \X Sink : d \in A <=> d \in B
  OBVIOUS
<1>. QED  BY <1>1

LEMMA PromiseInit == Init => Promise!Init
<1>. SUFFICES ASSUME Init PROVE Due = {} /\ Shown = {} /\ Acked = {}
  BY DEF Promise!Init
<1>. QED  BY DEF Init, Due, Shown, Acked, WasShown, Sink

LEMMA StandingIsAStutter ==
  ASSUME SameStanding, UNCHANGED <<stored, sent>>
  PROVE  UNCHANGED Promise!vars
<1>1. \A d \in Note \X Sink : d[1] \in Note /\ d[2] \in Sink
  OBVIOUS
<1>2. Due' = Due
  BY <1>1 DEF Due, SameStanding
<1>3. Acked' = Acked
  BY <1>1 DEF Acked, SameStanding
<1>4. Shown' = Shown
  BY DEF Shown, WasShown
<1>. QED  BY <1>2, <1>3, <1>4 DEF Promise!vars

LEMMA ShowIsAShow ==
  ASSUME TypeOK, NEW n \in Note, NEW s \in Sink, delivery[n][s] # "none", UNCHANGED delivery,
         \A m \in Note, x \in Sink : WasShown(m, x)' <=> WasShown(m, x) \/ (m = n /\ x = s)
  PROVE  Promise!Next
<1>1. Due' = Due /\ Acked' = Acked
  BY DEF Due, Acked
<1>2. <<n, s>> \in Due
  BY Mapped
<1>3. Shown' = Shown \cup {<<n, s>>}
  <2>1. \A m \in Note, x \in Sink : <<m, x>> \in Shown' <=> <<m, x>> \in Shown \cup {<<n, s>>}
    BY Mapped, MappedNext
  <2>. QED  BY <2>1, Mapped, MappedNext, SetsOfPairs
<1>4. Promise!Show(<<n, s>>)
  BY <1>1, <1>2, <1>3 DEF Promise!Show
<1>. QED  BY <1>4 DEF Promise!Next, Promise!Delivery

LEMMA AckIsAnAck ==
  ASSUME NEW D \in SUBSET (Note \X Sink), UNCHANGED <<stored, sent>>,
         \A d \in D : WasShown(d[1], d[2]),
         \A m \in Note, x \in Sink :
           /\ delivery'[m][x] = "none" <=> delivery[m][x] = "none"
           /\ delivery'[m][x] = "acked" <=> delivery[m][x] = "acked" \/ <<m, x>> \in D
  PROVE  Promise!Next
<1>1. Shown' = Shown
  BY DEF Shown, WasShown
<1>2. Due' = Due
  BY Mapped, MappedNext, SetsOfPairs
<1>3. Acked' = Acked \cup D
  <2>1. \A m \in Note, x \in Sink : <<m, x>> \in Acked' <=> <<m, x>> \in Acked \cup D
    BY Mapped, MappedNext
  <2>. QED  BY <2>1, Mapped, MappedNext, SetsOfPairs
<1>4. D \subseteq Shown
  BY DEF Shown
<1>5. Promise!Ack(D)
  BY <1>1, <1>2, <1>3, <1>4 DEF Promise!Ack
<1>. QED  BY <1>5 DEF Promise!Next, Promise!Delivery

LEMMA PromiseStep == IInv /\ [Next]_vars => [Promise!Next]_Promise!vars
<1>. SUFFICES ASSUME IInv, [Next]_vars PROVE Promise!Next \/ UNCHANGED Promise!vars
  OBVIOUS
<1>. USE DEF IInv
<1>1. ASSUME UNCHANGED <<delivery, stored, sent>> PROVE UNCHANGED Promise!vars
  BY <1>1, StandingIsAStutter DEF SameStanding
<1>2. CASE PublishDelivery
  <2>1. PICK l \in Note : l = Last(events)
    BY <1>2 DEF PublishDelivery, EventFirst, TypeOK, Last
  <2>2. \A s \in Sink : delivery[l][s] = "none"
    BY <1>2, <2>1 DEF PublishDelivery, EventFirst
  <2>3. \A m \in Note, x \in Sink :
          delivery'[m][x] = IF m = l THEN "pending" ELSE delivery[m][x]
    BY <1>2, <2>1, PublishDeliveryCreates
  <2>4. Due' = Due \cup {<<l, s>> : s \in Sink}
    <3>0. \A m \in Note, x \in Sink : <<m, x>> \in {<<l, s>> : s \in Sink} <=> m = l
      OBVIOUS
    <3>1. \A m \in Note, x \in Sink :
            <<m, x>> \in Due' <=> <<m, x>> \in Due \cup {<<l, s>> : s \in Sink}
      <4>. SUFFICES ASSUME NEW m \in Note, NEW x \in Sink
           PROVE  <<m, x>> \in Due' <=> <<m, x>> \in Due \/ m = l
        BY <3>0
      <4>1. delivery'[m][x] # "none" <=> delivery[m][x] # "none" \/ m = l
        BY <2>3
      <4>. QED  BY <4>1, Mapped, MappedNext
    <3>. QED  BY <3>1, Mapped, MappedNext, SetsOfPairs
  <2>5. Acked' = Acked
    <3>1. \A m \in Note, x \in Sink : <<m, x>> \in Acked' <=> <<m, x>> \in Acked
      <4>. SUFFICES ASSUME NEW m \in Note, NEW x \in Sink
           PROVE  <<m, x>> \in Acked' <=> <<m, x>> \in Acked
        OBVIOUS
      <4>1. delivery'[m][x] = "acked" <=> delivery[m][x] = "acked"
        BY <2>2, <2>3
      <4>. QED  BY <4>1, Mapped, MappedNext
    <3>. QED  BY <3>1, Mapped, MappedNext, SetsOfPairs
  <2>6. Shown' = Shown
    BY <1>2 DEF PublishDelivery, outside, Shown, WasShown
  <2>7. Promise!Publish(l)
    BY <2>4, <2>5, <2>6 DEF Promise!Publish
  <2>. QED  BY <2>7 DEF Promise!Next
<1>3. ASSUME NEW s \in Sink, Claim(s) PROVE UNCHANGED Promise!vars
  BY <1>3, ClaimKeepsStanding, StandingIsAStutter DEF Claim, outside
<1>4. ASSUME NEW n \in Note, NEW s \in Sink, Age(n, s) PROVE UNCHANGED Promise!vars
  BY <1>4, AgeKeepsStanding, StandingIsAStutter DEF Age, outside
<1>5. ASSUME NEW s \in Sink, NEW n \in Note, Current(s, n), Ack(s, n), pc[s] = "ack"
      PROVE  Promise!Next
  <2>1. delivery[n][s] # "none"
    BY <1>5 DEF InBatch, Current
  <2>2. WasShown(n, s)
    BY <1>5 DEF Handling, WasShown, Sink
  <2>3. \A m \in Note, x \in Sink :
          /\ delivery'[m][x] = "none" <=> delivery[m][x] = "none"
          /\ delivery'[m][x] = "acked" <=> delivery[m][x] = "acked" \/ <<m, x>> \in {<<n, s>>}
    BY <1>5, <2>1, AckAcks
  <2>4. UNCHANGED <<stored, sent>>
    BY <1>5 DEF Ack, outside
  <2>5. {<<n, s>>} \in SUBSET (Note \X Sink) /\ \A d \in {<<n, s>>} : WasShown(d[1], d[2])
    BY <2>2
  <2>. QED  BY <2>3, <2>4, <2>5, AckIsAnAck
<1>6. ASSUME NEW s \in Sink, NEW n \in Note, HandlerRaises(s, n) PROVE UNCHANGED Promise!vars
  BY <1>1, <1>6 DEF HandlerRaises, files, outside
<1>7. ASSUME NEW n \in Note, Current("wire", n), WireSends(n)
      PROVE  Promise!Next \/ UNCHANGED Promise!vars
  <2>1. CASE HandlerRaises("wire", n)
    BY <2>1, <1>6 DEF Sink
  <2>2. ASSUME ~HandlerRaises("wire", n) PROVE Promise!Next
    <3>1. sent' = [sent EXCEPT ![n] = @ + 1] /\ UNCHANGED <<delivery, stored>>
      BY <1>7, <2>2 DEF WireSends, files
    <3>2. \A m \in Note, x \in Sink : WasShown(m, x)' <=> WasShown(m, x) \/ (m = n /\ x = "wire")
      BY <3>1 DEF WasShown, TypeOK, Sink
    <3>3. "wire" \in Sink /\ delivery[n]["wire"] # "none"
      BY <1>7 DEF InBatch, Current, Sink
    <3>. QED  BY <3>1, <3>2, <3>3, ShowIsAShow
  <2>. QED  BY <2>1, <2>2
<1>8. ASSUME NEW n \in Note, Current("llm", n), UNCHANGED <<delivery, sent>>, Store(n)
      PROVE  Promise!Next
  <2>1. \A m \in Note, x \in Sink : WasShown(m, x)' <=> WasShown(m, x) \/ (m = n /\ x = "llm")
    BY <1>8 DEF Store, WasShown, TypeOK, Sink
  <2>2. "llm" \in Sink /\ delivery[n]["llm"] # "none"
    BY <1>8 DEF InBatch, Current, Sink
  <2>. QED  BY <1>8, <2>1, <2>2, ShowIsAShow
<1>9. ASSUME NEW n \in Note, Current("llm", n), LlmStores(n) \/ LlmCancelled(n)
      PROVE  Promise!Next \/ UNCHANGED Promise!vars
  BY <1>1, <1>8, <1>9 DEF LlmStores, LlmCancelled, files
<1>10. CASE Restart
  <2>. DEFINE D == {d \in Note \X Sink : /\ d[2] = "llm"
                                         /\ stored[d[1]] > 0
                                         /\ delivery[d[1]]["llm"] # "none"}
  <2>1. D \in SUBSET (Note \X Sink) /\ \A d \in D : WasShown(d[1], d[2])
    BY DEF WasShown
  <2>2. \A m \in Note, x \in Sink :
          <<m, x>> \in D <=> x = "llm" /\ stored[m] > 0 /\ delivery[m][x] # "none"
    OBVIOUS
  <2>3. UNCHANGED <<stored, sent>>
    BY <1>10 DEF Restart
  <2>. HIDE DEF D
  <2>4. \A m \in Note, x \in Sink :
          /\ delivery'[m][x] = "none" <=> delivery[m][x] = "none"
          /\ delivery'[m][x] = "acked" <=> delivery[m][x] = "acked" \/ <<m, x>> \in D
    BY <1>10, <2>2, RestartAcks
  <2>. QED  BY <2>1, <2>3, <2>4, AckIsAnAck
<1>. QED
  BY <1>1, <1>2, <1>3, <1>4, <1>5, <1>6, <1>7, <1>9, <1>10
  DEF Next, vars, files, outside, Publish, WireStep, LlmStep, LlmFault, WireAcks, LlmAcks,
    LlmStoreRaises, LlmAppends, Crash, Sink

\* Leaving its fairness aside, the queue implements AtLeastOnce: nothing is
\* acknowledged that was not shown, and what is acknowledged stays so.
THEOREM KeepsPromiseSafely == Spec => Promise!Spec
BY InvInit, InvStep, PromiseInit, PromiseStep, PTL DEF Spec, Promise!Spec
=============================================================================
