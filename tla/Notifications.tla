---------------------------- MODULE Notifications ----------------------------
(***************************************************************************)
(* The notification queue of a session: NotificationManager and its store, *)
(* and the two deliveries of the CLI process, to the model's context (llm) *)
(* and to the user interface (wire).                                       *)
(*                                                                         *)
(* All code runs in one event loop, so a stretch of code without an await  *)
(* is not interleaved with another; busy says which one is under way.  It  *)
(* is cut into several steps all the same, because the process may die     *)
(* between two writes of files.                                            *)
(***************************************************************************)
EXTENDS Integers, Sequences, FiniteSets, SequencesExt

CONSTANTS
  Note,         \* notifications, one per dedupe key
  LlmLimit,     \* limit of deliver_pending for the llm sink
  WireLimit,    \* and for the wire sink
  MaxCrashes,   \* bound: deaths of the process
  MaxFailures   \* bound: handlers that raise or are cancelled

ASSUME NotificationsAssumption ==
  /\ LlmLimit \in Nat \ {0}
  /\ WireLimit \in Nat \ {0}
  /\ MaxCrashes \in Nat
  /\ MaxFailures \in Nat

VARIABLES
  events,    \* the notifications with an event.json, by created_at
  delivery,  \* delivery.json: the state of each sink; "none": there is no file
  started,   \* is the process running?
  busy,      \* the stretch of code that is under way
  pc,        \* where deliver_pending is, per sink
  batch,     \* the claimed notifications it has still to handle, oldest first
  history,   \* how often each notification is in the context
  stored,    \* and in the file of the context
  sent,      \* how often it was put on the wire
  crashes,   \* deaths of the process so far
  failures   \* handlers that raised or were cancelled so far

files == <<events, delivery>>
loop == <<started, busy, pc, batch>>
outside == <<history, stored, sent>>
bounds == <<crashes, failures>>
vars == <<files, loop, outside, bounds>>

Sink == {"llm", "wire"}
Limit == [llm |-> LlmLimit, wire |-> WireLimit]

\* stale: claimed longer ago than claim_stale_after_ms.
SinkState == {"none", "pending", "claimed", "stale", "acked"}

TypeOK ==
  /\ events \in Seq(Note)
  /\ delivery \in [Note -> [Sink -> SinkState]]
  /\ started \in BOOLEAN
  /\ busy \in {"nothing", "publish"} \cup Sink
  /\ pc \in [Sink -> {"idle", "handle", "store", "ack"}]
  /\ batch \in [Sink -> SUBSET Note]
  /\ history \in [Note -> Nat]
  /\ stored \in [Note -> Nat]
  /\ sent \in [Note -> Nat]
  /\ crashes \in 0..MaxCrashes
  /\ failures \in 0..MaxFailures

Init ==
  /\ events = <<>>
  /\ delivery = [n \in Note |-> [s \in Sink |-> "none"]]
  /\ started = TRUE
  /\ busy = "nothing"
  /\ pc = [s \in Sink |-> "idle"]
  /\ batch = [s \in Sink |-> {}]
  /\ history = [n \in Note |-> 0]
  /\ stored = [n \in Note |-> 0]
  /\ sent = [n \in Note |-> 0]
  /\ crashes = 0
  /\ failures = 0

\* No other stretch of code is under way.
Free == started /\ busy = "nothing"

---------------------------------------------------------------------------
\* find_by_dedupe_key
Known(n) == n \in ToSet(events)

\* publish of a new notification: create_notification writes event.json ...
Publish(n) ==
  /\ Free
  /\ ~Known(n)
  /\ events' = Append(events, n)
  /\ busy' = "publish"
  /\ UNCHANGED <<delivery, started, pc, batch, outside, bounds>>

\* ... and then delivery.json.
PublishDelivery ==
  /\ busy = "publish"
  /\ delivery' = [delivery EXCEPT ![Last(events)] = [s \in Sink |-> "pending"]]
  /\ busy' = "nothing"
  /\ UNCHANGED <<events, started, pc, batch, outside, bounds>>

---------------------------------------------------------------------------
\* Fault: a stale claim is given up rather than released.
GivenUp(state) == IF state = "stale" THEN "claimed" ELSE state
\* recover, for one sink of one notification.
Released(state) == IF state = "stale" THEN "pending" ELSE state

Recovered == [n \in Note |-> [s \in Sink |-> Released(delivery[n][s])]]

\* Is the event of m older than that of n?
Before(m, n) ==
  \E i, j \in DOMAIN events : i < j /\ events[i] = m /\ events[j] = n

\* The notifications claim_for_sink takes: the oldest first, at most limit, and
\* none that another delivery has claimed.
ClaimFor(s) ==
  LET open == {n \in ToSet(events) : Recovered[n][s] = "pending"}
  IN {n \in open : Cardinality({m \in open : Before(m, n)}) < Limit[s]}

\* deliver_pending up to its loop: claim_for_sink, which begins with recover.
Claim(s) ==
  /\ Free
  /\ pc[s] = "idle"
  /\ batch' = [batch EXCEPT ![s] = ClaimFor(s)]
  /\ delivery' = [n \in Note |->
       [Recovered[n] EXCEPT ![s] = IF n \in ClaimFor(s) THEN "claimed" ELSE @]]
  /\ IF ClaimFor(s) = {}
     THEN UNCHANGED <<busy, pc>>
     ELSE busy' = s /\ pc' = [pc EXCEPT ![s] = "handle"]
  /\ UNCHANGED <<events, started, outside, bounds>>

\* The notification deliver_pending(s) is at.
Current(s, n) == n \in batch[s] /\ \A m \in batch[s] : ~Before(m, n)

\* On to the next notification of the batch, in the same stretch of code.
Advance(s, n) ==
  /\ batch' = [batch EXCEPT ![s] = @ \ {n}]
  /\ IF batch[s] = {n}
     THEN busy' = "nothing" /\ pc' = [pc EXCEPT ![s] = "idle"]
     ELSE busy' = s /\ pc' = [pc EXCEPT ![s] = "handle"]

\* What ack writes: the delivery as it is, with the sink acked if it has one.
AckedBy(d, s) == [d EXCEPT ![s] = IF @ = "none" THEN @ ELSE "acked"]

Ack(s, n) ==
  /\ delivery' = [delivery EXCEPT ![n] = AckedBy(@, s)]
  /\ Advance(s, n)
  /\ UNCHANGED <<events, started, outside, bounds>>

\* The handler raises: the notification stays claimed.
HandlerRaises(s, n) ==
  /\ failures < MaxFailures
  /\ failures' = failures + 1
  /\ Advance(s, n)
  /\ UNCHANGED <<files, started, outside, crashes>>

\* _send_notification.  It has no await: nothing runs between it and the ack.
WireSends(n) ==
  /\ busy = "wire"
  /\ pc["wire"] = "handle"
  /\ \/ /\ sent' = [sent EXCEPT ![n] = @ + 1]
        /\ pc' = [pc EXCEPT !["wire"] = "ack"]
        /\ UNCHANGED <<files, started, busy, batch, history, stored, bounds>>
     \/ HandlerRaises("wire", n)

WireAcks(n) ==
  /\ busy = "wire"
  /\ pc["wire"] = "ack"
  /\ Ack("wire", n)

\* _append_notification: append_message changes the history and then awaits the
\* write of the file; other code runs meanwhile.
LlmAppends(n) ==
  /\ busy = "llm"
  /\ pc["llm"] = "handle"
  /\ history' = [history EXCEPT ![n] = @ + 1]
  /\ pc' = [pc EXCEPT !["llm"] = "store"]
  /\ busy' = "nothing"
  /\ UNCHANGED <<files, started, batch, stored, sent, bounds>>

Store(n) == stored' = [stored EXCEPT ![n] = @ + 1]

\* The thread that writes the file is done.
LlmStores(n) ==
  /\ pc["llm"] = "store"
  /\ Store(n)
  /\ pc' = [pc EXCEPT !["llm"] = "ack"]
  /\ UNCHANGED <<files, started, busy, batch, history, sent, bounds>>

\* The write fails, in spite of which the history keeps the message.
LlmStoreRaises(n) ==
  /\ Free
  /\ pc["llm"] = "store"
  /\ HandlerRaises("llm", n)

LlmAcks(n) ==
  /\ Free
  /\ pc["llm"] = "ack"
  /\ Ack("llm", n)

\* The turn is cancelled in the await: neither this notification nor the rest of
\* the batch is acked.  The thread may or may not finish its write.
LlmCancelled(n) ==
  /\ Free
  /\ failures < MaxFailures
  /\ pc["llm"] \in {"store", "ack"}
  /\ UNCHANGED stored \/ (pc["llm"] = "store" /\ Store(n))
  /\ failures' = failures + 1
  /\ pc' = [pc EXCEPT !["llm"] = "idle"]
  /\ batch' = [batch EXCEPT !["llm"] = {}]
  /\ UNCHANGED <<files, started, busy, history, sent, crashes>>

---------------------------------------------------------------------------
\* Time passes over a claim.
Age(n, s) ==
  /\ delivery[n][s] = "claimed"
  /\ delivery' = [delivery EXCEPT ![n][s] = "stale"]
  /\ UNCHANGED <<events, loop, outside, bounds>>

Crash ==
  /\ started
  /\ crashes < MaxCrashes
  /\ crashes' = crashes + 1
  /\ started' = FALSE
  /\ busy' = "nothing"
  /\ pc' = [s \in Sink |-> "idle"]
  /\ batch' = [s \in Sink |-> {}]
  /\ history' = [n \in Note |-> 0]
  /\ UNCHANGED <<files, stored, sent, failures>>

\* Fault: what the restored context already shows is not acked.
RestoredAsIs(n, d) == d
\* Fault: what was claimed is taken for shown.
RestoredFromClaims(n, d) == IF d["llm"] = "claimed" THEN AckedBy(d, "llm") ELSE d
\* ack_ids("llm", extract_notification_ids(context.history)), for one of them.
RestoredFrom(n, d) == IF stored[n] > 0 THEN AckedBy(d, "llm") ELSE d

\* The session is opened again: recover, and ack_ids of the restored history.
Restart ==
  /\ ~started
  /\ started' = TRUE
  /\ history' = stored
  /\ delivery' = [n \in Note |-> RestoredFrom(n, Recovered[n])]
  /\ UNCHANGED <<events, busy, pc, batch, stored, sent, bounds>>

WireStep == \E n \in Note : Current("wire", n) /\ (WireSends(n) \/ WireAcks(n))
LlmStep ==
  \E n \in Note : Current("llm", n) /\ (LlmAppends(n) \/ LlmStores(n) \/ LlmAcks(n))
LlmFault ==
  \E n \in Note : Current("llm", n) /\ (LlmStoreRaises(n) \/ LlmCancelled(n))

Next ==
  \/ \E n \in Note : Publish(n)
  \/ PublishDelivery
  \/ \E s \in Sink : Claim(s)
  \/ WireStep
  \/ LlmStep \/ LlmFault
  \/ \E n \in Note, s \in Sink : Age(n, s)
  \/ Crash \/ Restart

Spec == Init /\ [][Next]_vars

\* The session is opened again after a crash, turns and the wire pump go on, and
\* a claim grows old.  Crashes and failures are finitely many.
Fairness ==
  /\ WF_vars(PublishDelivery)
  /\ \A s \in Sink : WF_vars(Claim(s))
  /\ WF_vars(WireStep) /\ WF_vars(LlmStep)
  /\ \A n \in Note, s \in Sink : WF_vars(Age(n, s))
  /\ WF_vars(Restart)

FairSpec == Spec /\ Fairness

---------------------------------------------------------------------------
\* Shown at the sink for good: to the model once the file of the context has it.
WasShown(n, s) == IF s = "llm" THEN stored[n] > 0 ELSE sent[n] > 0

\* A notification is acknowledged only when nothing can take it away any more:
\* for the model when the file of the context has it, and the context that is in
\* use does too; for the user interface when it was put on the wire.
AckedIsSafe ==
  \A n \in Note :
    /\ \A s \in Sink : delivery[n][s] = "acked" => WasShown(n, s)
    /\ delivery[n]["llm"] = "acked" /\ started => history[n] > 0

\* The model is not told the same thing twice, through crashes and stale claims,
\* as long as no turn is cancelled and no write of the context fails.
OneCopy == failures = 0 => \A n \in Note : history[n] <= 1

\* The promise of the queue, with a delivery due from the moment delivery.json
\* exists.
Due == {d \in Note \X Sink : delivery[d[1]][d[2]] # "none"}
Shown == {d \in Note \X Sink : WasShown(d[1], d[2])}
Acked == {d \in Note \X Sink : delivery[d[1]][d[2]] = "acked"}

Promise == INSTANCE AtLeastOnce WITH due <- Due, shown <- Shown, acked <- Acked

\* The queue keeps the promise.
KeepsPromise == Promise!FairSpec
=============================================================================
