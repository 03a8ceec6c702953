--------------------------- MODULE SessionServer ---------------------------
(***************************************************************************)
(* The session manager of `kimix serve' (kimix.server.session_manager) over *)
(* the SDK sessions it drives (kimi_agent_sdk._session), for one session   *)
(* id.  Requests run as tasks of one event loop: an action is what a task  *)
(* does between two awaits.                                                *)
(*                                                                         *)
(* An entry of the manager, and an SDK session, bear the name of the       *)
(* request that made them.  `told' is the cancel event of a run, `event'   *)
(* the _cancel_event of an SDK session: the run whose event it holds.      *)
(***************************************************************************)
EXTENDS Naturals

CONSTANTS Req,           \* the requests that clients send
          Sends,         \* bound: what each of them may be
          None,
          MaxRestarts,   \* max_session_restarts of the loop control
          MaxAttempts    \* attempts at a plan (three in the code)

ASSUME NoneIsNoRequest == None \notin Req
ASSUME SendsKinds == Sends \in [Req -> SUBSET {"create", "list", "prompt", "async", "clear",
                                               "delete", "plan"}]
ASSUME LimitsAreCounts == MaxRestarts \in Nat /\ MaxAttempts \in Nat \ {0}

Kind == {"none", "create", "list", "prompt", "async", "run", "clear", "delete", "plan"}

\* where a request awaits
Place == {"idle", "making", "listed", "opening", "task", "waiting", "running",
          "restarting", "clearing", "closing", "removing", "done",
          "p_task", "p_open", "p_run", "p_sleep", "p_confirm", "p_close"}

\* the places between the first event of a turn and its last
Turn == {"waiting", "running", "restarting", "p_open", "p_run", "p_sleep", "p_confirm", "p_close"}

VARIABLES
  disk,       \* the session's directory exists
  born,       \* the id has been given to a session
  reg,        \* the entry in _sessions
  sdkOf, status, psess, ptask, ask, fb,    \* fields of an entry
  closed, event,                           \* fields of an SDK session
  told,       \* runs whose cancel event is set
  cancelled,  \* planner tasks with a CancelledError on its way
  heard,      \* plans whose confirm event is set
  pc, kind, ent, on, left,                 \* a request: place, entry, SDK session, tries left
  last,       \* the last event on the bus
  stop,       \* history: runs and plans that an abort, a clear or a delete meant to stop
  astray      \* history: the manager lost track of a run: a session was opened for an
              \* entry that had one or was gone, a clear took the event of a run that
              \* began meanwhile, or a run that was to stop was restarted

files   == <<disk, born>>
entry   == <<sdkOf, status, psess, ptask, ask, fb>>
sdk     == <<closed, event>>
signals == <<told, cancelled, heard>>
request == <<pc, kind, ent, on, left>>
history == <<stop, astray>>
vars    == <<files, reg, entry, sdk, signals, request, last, history>>

\* The variables have their types.
TypeOK ==
  /\ disk \in BOOLEAN /\ born \in BOOLEAN /\ astray \in BOOLEAN
  /\ reg \in Req \cup {None}
  /\ status \in [Req -> {"idle", "busy"}] /\ fb \in [Req -> {"none", "accept", "revise"}]
  /\ \A f \in {sdkOf, psess, ptask, ask, event, ent, on} : f \in [Req -> Req \cup {None}]
  /\ closed \in [Req -> BOOLEAN]
  /\ \A s \in {told, cancelled, heard, stop} : s \subseteq Req
  /\ pc \in [Req -> Place] /\ kind \in [Req -> Kind] /\ left \in [Req -> Nat]
  /\ last \in {"none", "part", "busy", "idle", "deleted"}

\* A session of an earlier server that is on disk, or an id nobody has yet.
Init ==
  /\ disk \in BOOLEAN /\ born = disk /\ reg = None
  /\ sdkOf = [r \in Req |-> None] /\ status = [r \in Req |-> "idle"]
  /\ psess = [r \in Req |-> None] /\ ptask = [r \in Req |-> None]
  /\ ask = [r \in Req |-> None] /\ fb = [r \in Req |-> "none"]
  /\ closed = [r \in Req |-> FALSE] /\ event = [r \in Req |-> None]
  /\ told = {} /\ cancelled = {} /\ heard = {}
  /\ pc = [r \in Req |-> "idle"] /\ kind = [r \in Req |-> "none"]
  /\ ent = [r \in Req |-> None] /\ on = [r \in Req |-> None]
  /\ left = [r \in Req |-> 0] /\ last = "none"
  /\ stop = {} /\ astray = FALSE

-----------------------------------------------------------------------------
(* Helpers.                                                                *)

Goto(r, place) == pc' = [pc EXCEPT ![r] = place]

\* _set_status
SetStatus(e, s) == status' = [status EXCEPT ![e] = s] /\ last' = s

\* the run that session s would cancel
RunOf(s) == IF s # None /\ event[s] # None THEN {event[s]} ELSE {}

\* Fault: session.idle is published before the last parts are flushed.
IdleThenParts(e) == status' = [status EXCEPT ![e] = "idle"] /\ last' = "part"

\* the `finally' of a turn: the parts that are left, then idle, the last event
Finish(e) == SetStatus(e, "idle")

\* the cancel event of a run is set
Tell(runs) == told' = told \cup runs /\ stop' = stop \cup runs

\* SDK session s gives request r a new cancel event, to run it when there is a permit
NewRun(r, s) == event' = [event EXCEPT ![s] = r] /\ told' = told \ {r}

-----------------------------------------------------------------------------
(* From a request to its entry, and from the entry to its SDK session.     *)

\* prompt, up to the first await of the SDK session: a closed or a running
\* session raises, and the turn ends at once
Begin(r, e, s) ==
  /\ ent' = [ent EXCEPT ![r] = e] /\ on' = [on EXCEPT ![r] = s]
  /\ \/ /\ closed[s] \/ event[s] # None
        /\ Finish(e) /\ Goto(r, "done") /\ UNCHANGED <<event, told, left>>
     \/ /\ ~closed[s] /\ event[s] = None
        /\ NewRun(r, s) /\ Goto(r, "waiting")
        /\ status' = [status EXCEPT ![e] = "busy"] /\ last' = "part"
        /\ left' = [left EXCEPT ![r] = MaxRestarts]

\* prompt_async leaves the rest to a task of its own
Serve(r, k, e, s) ==
  \/ /\ k = "async" /\ Goto(r, "task")
     /\ UNCHANGED <<ent, on, left, status, event, told, last>>
  \/ k \in {"prompt", "run"} /\ Begin(r, e, s)

\* ValueError, or KeyError if e is None: the task of prompt_async reports idle
GiveUp(r, k, e) ==
  /\ Goto(r, "done")
  /\ IF k = "run" /\ e # None THEN SetStatus(e, "idle") ELSE UNCHANGED <<status, last>>
  /\ UNCHANGED <<ent, on, left, event, told>>

\* _ensure_sdk_session, up to its first await
Ensure(r, k, e) ==
  /\ \/ sdkOf[e] # None /\ Serve(r, k, e, sdkOf[e])
     \/ /\ sdkOf[e] = None /\ disk
        /\ Goto(r, "opening") /\ ent' = [ent EXCEPT ![r] = e]
        /\ UNCHANGED <<on, left, status, event, told, last>>
     \/ sdkOf[e] = None /\ ~disk /\ GiveUp(r, k, e)
  /\ UNCHANGED <<files, sdkOf, psess, ptask, ask, fb, closed, cancelled, heard, history>>

\* the restored session is stored in the entry, whatever the entry holds now
Opened(r) ==
  LET e == ent[r] IN
  /\ pc[r] = "opening"
  /\ disk' = TRUE /\ sdkOf' = [sdkOf EXCEPT ![e] = r]
  /\ astray' = (astray \/ sdkOf[e] # None \/ reg # e)
  /\ Serve(r, kind[r], e, r)
  /\ UNCHANGED <<born, reg, psess, ptask, ask, fb, closed, cancelled, heard, kind, stop>>

OpenFails(r) ==
  /\ pc[r] = "opening" /\ GiveUp(r, kind[r], reg)
  /\ UNCHANGED <<files, reg, sdkOf, psess, ptask, ask, fb, closed, cancelled, heard, kind,
                 history>>

\* close_session_async of a popped entry, up to its first await
Close(s) ==
  /\ closed' = [closed EXCEPT ![s] = TRUE]
  /\ IF closed[s] THEN UNCHANGED <<told, stop>> ELSE Tell(RunOf(s))

\* delete_session after the pop of entry e
Pop(r, e) ==
  /\ reg' = None
  /\ \/ /\ sdkOf[e] # None /\ Close(sdkOf[e]) /\ Goto(r, "closing") /\ UNCHANGED last
     \/ /\ sdkOf[e] = None /\ Goto(r, IF disk THEN "removing" ELSE "done")
        /\ last' = IF disk THEN last ELSE "deleted"
        /\ UNCHANGED <<closed, told, stop>>
  /\ UNCHANGED <<files, entry, event, cancelled, heard, ent, on, left, astray>>

\* plan_async: the planner's task is made and stored; it runs later
Schedule(r, e) ==
  /\ ptask' = [ptask EXCEPT ![e] = r] /\ ent' = [ent EXCEPT ![r] = e] /\ Goto(r, "p_task")
  /\ UNCHANGED <<files, sdkOf, status, psess, ask, fb, sdk, signals, on, left, last, history>>

\* what a request of kind k does with the entry e it has found or restored
Use(r, k, e) ==
  \/ k \in {"prompt", "async", "run"} /\ reg' = e /\ Ensure(r, k, e)
  \/ k = "plan" /\ reg' = e /\ Schedule(r, e)
  \/ k = "delete" /\ Pop(r, e)
  \/ /\ k = "list" /\ reg' = e /\ Goto(r, "done")
     /\ UNCHANGED <<files, entry, sdk, signals, ent, on, left, last, history>>

\* _get_entry_or_restore (list_sessions: in any case) lists what is on disk
Look(r, k) ==
  \/ reg # None /\ k # "list" /\ Use(r, k, reg)
  \/ /\ reg = None \/ k = "list"
     /\ Goto(r, IF disk THEN "listed" ELSE "done")
     /\ UNCHANGED <<files, reg, entry, sdk, signals, ent, on, left, last, history>>

Called(r, k) ==
  /\ pc[r] = "idle" /\ k \in Sends[r] \ {"create", "clear"}
  /\ kind' = [kind EXCEPT ![r] = k] /\ Look(r, k)

\* the task of prompt_async begins: prompt looks everything up again
Started(r) == pc[r] = "task" /\ kind' = [kind EXCEPT ![r] = "run"] /\ Look(r, "run")

\* what was on disk before the await is registered, unless the id is known
Listed(r) ==
  /\ pc[r] = "listed" /\ Use(r, kind[r], IF reg = None THEN r ELSE reg)
  /\ UNCHANGED kind

-----------------------------------------------------------------------------
(* create_session, delete_session and clear_session.                       *)

Create(r) ==
  /\ pc[r] = "idle" /\ "create" \in Sends[r] /\ ~born /\ born' = TRUE /\ disk' = TRUE
  /\ Goto(r, "making") /\ kind' = [kind EXCEPT ![r] = "create"]
  /\ UNCHANGED <<reg, entry, sdk, signals, ent, on, left, last, history>>

Created(r) ==
  /\ pc[r] = "making" /\ Goto(r, "done")
  /\ reg' = r /\ sdkOf' = [sdkOf EXCEPT ![r] = r]
  /\ astray' = (astray \/ reg # None)
  /\ UNCHANGED <<files, status, psess, ptask, ask, fb, sdk, signals, kind, ent, on, left,
                 last, stop>>

\* the SDK session is closed: the directory is looked for
Closed(r) ==
  /\ pc[r] = "closing"
  /\ Goto(r, IF disk THEN "removing" ELSE "done")
  /\ last' = IF disk THEN last ELSE "deleted"
  /\ UNCHANGED <<files, reg, entry, sdk, signals, kind, ent, on, left, history>>

Removed(r) ==
  /\ pc[r] = "removing" /\ Goto(r, "done") /\ disk' = FALSE /\ last' = "deleted"
  /\ UNCHANGED <<born, reg, entry, sdk, signals, kind, ent, on, left, history>>

\* clear_session and Session.clear, up to its first await
Clear(r) ==
  /\ pc[r] = "idle" /\ "clear" \in Sends[r] /\ kind' = [kind EXCEPT ![r] = "clear"]
  /\ LET open == {s \in Req : reg # None /\ sdkOf[reg] = s /\ ~closed[s]} IN
     \/ open = {} /\ Goto(r, "done") /\ UNCHANGED <<told, stop, on>>
     \/ \E s \in open : /\ Tell(RunOf(s)) /\ Goto(r, "clearing")
                       /\ on' = [on EXCEPT ![r] = s]
  /\ UNCHANGED <<files, reg, entry, sdk, cancelled, heard, ent, left, last, astray>>

\* the session is made anew, its directory too
Cleared(r) ==
  /\ pc[r] = "clearing" /\ Goto(r, "done")
  /\ disk' = TRUE
  /\ event' = [event EXCEPT ![on[r]] = None] /\ closed' = [closed EXCEPT ![on[r]] = FALSE]
  /\ astray' = (astray \/ ~(RunOf(on[r]) \subseteq stop))
  /\ UNCHANGED <<born, reg, entry, signals, kind, ent, on, left, last, stop>>

-----------------------------------------------------------------------------
(* A prompt that runs: Session.prompt and KimiCLI.run.                     *)

\* The permit is granted: five runs of the process have one, those of other
\* sessions included, and a run that waits for its own does not hear its event.
Granted(r) ==
  /\ pc[r] = "waiting" /\ Goto(r, "running")
  /\ UNCHANGED <<files, reg, entry, sdk, signals, kind, ent, on, left, last, history>>

Emits(r) ==
  /\ pc[r] \in {"running", "p_run"} /\ last' = "part"
  /\ UNCHANGED <<files, reg, entry, sdk, signals, request, history>>

\* Fault: the end of a run clears the event of the session, whoever's it is.
FreedAnyway(r) == [event EXCEPT ![on[r]] = None]

\* the cancel event of the session once run r has ended
Freed(r) == [event EXCEPT ![on[r]] = IF @ = r THEN None ELSE @]

\* the run ends, by itself, by an error, or by RunCancelled if it was told
RunEnds(r) ==
  /\ pc[r] \in {"running", "restarting"} /\ Goto(r, "done")
  /\ event' = Freed(r) /\ Finish(ent[r])
  /\ UNCHANGED <<files, reg, sdkOf, psess, ptask, ask, fb, closed, signals, kind, ent, on, left,
                 history>>

\* SessionRestartRequired; _restart of a closed session does nothing
RunBreaks(r) ==
  LET s == on[r] IN
  /\ pc[r] = "running" /\ left[r] > 0 /\ left' = [left EXCEPT ![r] = @ - 1]
  /\ last' = "part"
  /\ \/ /\ closed[s] /\ NewRun(r, s) /\ astray' = (astray \/ r \in stop) /\ Goto(r, "waiting")
     \/ /\ ~closed[s] /\ told' = told \cup RunOf(s) /\ Goto(r, "restarting")
        /\ UNCHANGED <<event, astray>>
  /\ UNCHANGED <<files, reg, entry, closed, cancelled, heard, kind, ent, on, stop>>

\* the session is made anew and the loop runs the same input with a new event
Restarted(r) ==
  /\ pc[r] = "restarting" /\ Goto(r, "waiting")
  /\ disk' = TRUE /\ NewRun(r, on[r]) /\ closed' = [closed EXCEPT ![on[r]] = FALSE]
  /\ astray' = (astray \/ r \in stop)
  /\ UNCHANGED <<born, reg, entry, cancelled, heard, kind, ent, on, left, last, stop>>

\* the run hears its cancel event
RunStops(r) == r \in told /\ pc[r] = "running" /\ RunEnds(r)

-----------------------------------------------------------------------------
(* abort_session.                                                          *)

\* Fault: only the manager's own event is set, which no run waits for.
NoRun(e) == {}

\* the run that an abort tells to stop
Current(e) == RunOf(sdkOf[e])

\* the planner session that an abort tells to stop, while it runs
Planner(e) == {r \in Req : psess[e] = r /\ pc[r] = "p_run"}

\* the planner task that an abort cancels
Task(e) == {r \in Req : ptask[e] = r /\ pc[r] # "done"}

Abort ==
  /\ reg # None
  /\ told' = told \cup Current(reg) \cup Planner(reg)
  /\ cancelled' = cancelled \cup Task(reg)
  /\ stop' = stop \cup RunOf(sdkOf[reg]) \cup Planner(reg) \cup Task(reg)
  /\ SetStatus(reg, "idle")
  /\ UNCHANGED <<files, reg, sdkOf, psess, ptask, ask, fb, sdk, heard, request, astray>>

-----------------------------------------------------------------------------
(* The planner's task.                                                     *)

\* what only the planner's steps leave alone
PlanFrame == UNCHANGED <<files, reg, sdkOf, sdk, kind, ent, on, history>>

\* a task that was cancelled before it began never runs
PlanStarts(r) ==
  /\ pc[r] = "p_task"
  /\ IF r \in cancelled
     THEN Goto(r, "done") /\ UNCHANGED <<status, last>>
     ELSE Goto(r, "p_open") /\ SetStatus(ent[r], "busy")
  /\ UNCHANGED <<psess, ptask, ask, fb, signals, left>> /\ PlanFrame

\* the planner runs an attempt, with a cancel event of its own
Attempt(r, n) ==
  /\ Goto(r, "p_run") /\ left' = [left EXCEPT ![r] = n] /\ told' = told \ {r}

\* the `finally' of the plan, up to the close of the planner session
PlanFinal(r) ==
  /\ Goto(r, "p_close") /\ last' = "part" /\ cancelled' = cancelled \ {r}

\* no planner session, nothing to close: idle follows at once
PlanOver(r) ==
  /\ Goto(r, "done") /\ Finish(ent[r])
  /\ psess' = [psess EXCEPT ![ent[r]] = None] /\ ptask' = [ptask EXCEPT ![ent[r]] = None]

PlanOpened(r) ==
  /\ pc[r] = "p_open" /\ r \notin cancelled
  /\ psess' = [psess EXCEPT ![ent[r]] = r] /\ Attempt(r, MaxAttempts - 1)
  /\ UNCHANGED <<status, ptask, ask, fb, cancelled, heard, last>> /\ PlanFrame

PlanOpenFails(r) ==
  /\ pc[r] = "p_open" /\ PlanOver(r) /\ cancelled' = cancelled \ {r}
  /\ UNCHANGED <<ask, fb, told, heard, left>> /\ PlanFrame

\* an attempt raises.  RunCancelled is caught here like any error: if the
\* session was told to stop it replaces the CancelledError of the task
PlanFails(r) ==
  /\ pc[r] = "p_run" /\ (r \notin cancelled \/ r \in told)
  /\ IF left[r] = 0 THEN PlanFinal(r)
     ELSE Goto(r, "p_sleep") /\ cancelled' = cancelled \ {r} /\ UNCHANGED last
  /\ UNCHANGED <<status, psess, ptask, ask, fb, told, heard, left>> /\ PlanFrame

\* the CancelledError of the task arrives
PlanCancelled(r) ==
  /\ pc[r] \in {"p_run", "p_sleep", "p_confirm"} /\ r \in cancelled
  /\ PlanFinal(r)
  /\ UNCHANGED <<status, psess, ptask, ask, fb, told, heard, left>> /\ PlanFrame

PlanWakes(r) ==
  /\ pc[r] = "p_sleep" /\ r \notin cancelled /\ Attempt(r, left[r] - 1)
  /\ UNCHANGED <<status, psess, ptask, ask, fb, cancelled, heard, last>> /\ PlanFrame

\* the attempt ends without a plan: the next one, or the end
PlanMissing(r) ==
  /\ pc[r] = "p_run" /\ r \notin cancelled \cup told
  /\ IF left[r] = 0 THEN PlanFinal(r) /\ UNCHANGED <<left, told>>
     ELSE Attempt(r, left[r] - 1) /\ UNCHANGED <<cancelled, last>>
  /\ UNCHANGED <<status, psess, ptask, ask, fb, heard>> /\ PlanFrame

\* the attempt ends with a plan: the user is asked
PlanWritten(r) ==
  /\ pc[r] = "p_run" /\ r \notin cancelled \cup told
  /\ Goto(r, "p_confirm") /\ last' = "part"
  /\ ask' = [ask EXCEPT ![ent[r]] = r] /\ fb' = [fb EXCEPT ![ent[r]] = "none"]
  /\ heard' = heard \ {r}
  /\ UNCHANGED <<status, psess, ptask, told, cancelled, left>> /\ PlanFrame

\* confirm_plan_async
Confirm(answer) ==
  /\ reg # None /\ ask[reg] # None
  /\ fb' = [fb EXCEPT ![reg] = answer] /\ heard' = heard \cup {ask[reg]}
  /\ UNCHANGED <<files, reg, sdkOf, status, psess, ptask, ask, sdk, told, cancelled, request,
                 last, history>>

\* the wait ends, by the answer or after five minutes.  The event is then
\* read from the entry, where a second plan may have put its own
PlanAnswered(r, timeout) ==
  LET e == ent[r] IN
  LET answered == ask[e] # None /\ ask[e] \in heard
      answer   == IF timeout THEN "none" ELSE fb[e] IN
  /\ pc[r] = "p_confirm" /\ r \notin cancelled /\ (timeout \/ r \in heard)
  /\ ask' = [ask EXCEPT ![e] = None]
  /\ fb' = [fb EXCEPT ![e] = IF timeout \/ answered THEN "none" ELSE @]
  /\ IF answered /\ answer = "revise" /\ left[r] > 0
     THEN Attempt(r, left[r] - 1) /\ UNCHANGED <<cancelled, last>>
     ELSE PlanFinal(r) /\ UNCHANGED <<left, told>>
  /\ UNCHANGED <<status, psess, ptask, heard>> /\ PlanFrame

\* the planner session is closed; a task cancelled here skips the rest
PlanClosed(r) ==
  /\ pc[r] = "p_close"
  /\ IF r \in cancelled
     THEN Goto(r, "done") /\ UNCHANGED <<status, psess, ptask, last>>
     ELSE PlanOver(r)
  /\ UNCHANGED <<ask, fb, signals, left>> /\ PlanFrame

-----------------------------------------------------------------------------
(* The specification.                                                      *)

RestartEnds(r) == Restarted(r) \/ (pc[r] = "restarting" /\ RunEnds(r))

Lookup(r)  == \/ \E k \in Sends[r] : Called(r, k)
              \/ Started(r) \/ Listed(r) \/ Opened(r) \/ OpenFails(r)
Change(r)  == Create(r) \/ Created(r) \/ Closed(r) \/ Removed(r) \/ Clear(r) \/ Cleared(r)
Prompt(r)  == Granted(r) \/ Emits(r) \/ RunEnds(r) \/ RunBreaks(r) \/ Restarted(r)
Plan(r)    == \/ PlanStarts(r) \/ PlanOpened(r) \/ PlanOpenFails(r) \/ PlanFails(r)
              \/ PlanCancelled(r) \/ PlanWakes(r) \/ PlanMissing(r) \/ PlanWritten(r)
              \/ PlanAnswered(r, TRUE) \/ PlanAnswered(r, FALSE) \/ PlanClosed(r)

Next ==
  \/ \E r \in Req : Lookup(r) \/ Change(r) \/ Prompt(r) \/ Plan(r)
  \/ Abort
  \/ Confirm("accept") \/ Confirm("revise")

\* A run that was told stops, a restart ends; no run ends by itself for sure, so
\* that no permit is sure to be granted either.
Fairness == \A r \in Req : WF_vars(RunStops(r)) /\ WF_vars(RestartEnds(r))

Spec == Init /\ [][Next]_vars /\ Fairness

-----------------------------------------------------------------------------
(* Properties.                                                             *)

\* When no turn is open the last event a client saw of the session is not a
\* part of a message, and the session's status is idle: however prompts, plans,
\* aborts and deletes overlap, no client stays `busy' for ever.
EndsIdle ==
  (\A r \in Req : pc[r] \notin Turn) =>
    /\ last \in {"none", "idle", "deleted"}
    /\ reg # None => status[reg] = "idle"

\* the prompts that run, or are about to, and that nobody has stopped
Going == {r \in Req : pc[r] \in {"waiting", "running", "restarting"} /\ r \notin stop}

\* Every prompt that runs and was not stopped can be: it runs on the session
\* of the registered entry, under the event that `cancel' sets.  So there is
\* one at most, and none once the session is deleted.  (Not after one of the
\* races that `astray' notes.)
AbortReaches ==
  ~astray => \A r \in Going : reg # None /\ sdkOf[reg] = on[r] /\ event[on[r]] = r

\* A prompt that runs and was to stop ends, even if the model never answers;
\* one that was to stop before it had its permit ends once it runs.  (Not if a
\* restart gave it a new event.  And while other runs keep the permits for
\* ever, an abort does nothing for a prompt that waits for one.)
AbortEnds == \A r \in Req : (pc[r] = "running" /\ r \in stop) ~> (pc[r] = "done" \/ astray)

\* What was to stop begins no other attempt.  The code does not keep this.
NoAttemptAfterAbort ==
  [][\A r \in stop : ~(/\ pc[r] \in {"restarting", "p_sleep"}
                       /\ pc'[r] \in {"waiting", "p_run"})]_vars
=============================================================================
