------------------------------- MODULE BashTask -------------------------------
(***************************************************************************)
(* Background bash tasks: the BackgroundTaskManager of the root CLI        *)
(* process and one detached worker process per task, which share the files *)
(* runtime.json and control.json of the task and no lock.  Every read and  *)
(* every write of a file is a step of its own; what a process does between *)
(* a read and the write that follows it is based on the copy it holds.     *)
(***************************************************************************)
EXTENDS Integers, FiniteSets

CONSTANTS
  Task,         \* task ids
  MaxRunning,   \* config.background.max_running_tasks
  MaxKills,     \* bound: kill requests per task
  MaxRestarts,  \* bound: deaths of the CLI process
  MaxBeats,     \* bound: heartbeats per worker
  Stalls        \* may a live worker miss its heartbeats (a suspended machine)?

ASSUME BashTaskAssumption ==
  /\ MaxRunning \in Nat \ {0}
  /\ MaxKills \in Nat
  /\ MaxRestarts \in Nat
  /\ MaxBeats \in Nat
  /\ Stalls \in BOOLEAN

VARIABLES
  runtime,   \* runtime.json of each task
  progress,  \* is its last sign of progress recent?  "unwritten": there is no file
  kills,     \* kill requests recorded in control.json
  killedAt,  \* history: where the worker was at the first of them
  worker,    \* where each worker process is
  copy,      \* the runtime record the worker holds between a read and a write
  beating,   \* the worker's heartbeat loop
  beats,     \* heartbeats so far
  killSent,  \* kill_sent_at is set
  timedOut,  \* timed_out of the worker
  child,     \* the command
  mgr,       \* what the manager is in the middle of
  mcopy,     \* the runtime record the manager holds
  restarts,  \* deaths of the CLI process so far
  published  \* the terminal reasons notified for each task

files == <<runtime, progress, kills, killedAt>>
workerVars == <<worker, copy, beating, beats, killSent, timedOut, child>>
mgrVars == <<mgr, mcopy, restarts, published>>
vars == <<files, workerVars, mgrVars>>

Terminal == {"completed", "failed", "killed", "lost"}
Status == {"absent", "created", "starting", "running"} \cup Terminal
Reason == Terminal \cup {"timed_out"}

\* TaskRuntime: the fields a reader acts on.
Runtime == [status: Status, pid: BOOLEAN, child: BOOLEAN,
            finished: BOOLEAN, timedOut: BOOLEAN]

Absent == [status |-> "absent", pid |-> FALSE, child |-> FALSE,
           finished |-> FALSE, timedOut |-> FALSE]
NewRuntime == [Absent EXCEPT !.status = "created"]

IsTerminal(r) == r.status \in Terminal

\* Where a worker is.  none: not launched.  waiting, grace: the command runs,
\* before and after its timeout.  exited: it returned.  dead: it was killed.
WorkerPlace ==
  {"none", "start", "starting", "control", "stop", "spawn", "spawned",
   "mark", "waiting", "grace", "ended", "verdict", "failing", "fail",
   "exited", "dead"}
Launched(t) == worker[t] \notin {"none", "exited", "dead"}
Gone(t) == worker[t] \in {"exited", "dead"}
Supervising(t) == worker[t] \in {"waiting", "grace"} /\ beating[t] # "write"
Alive(t) == child[t] \in {"alive", "terminating"}

\* What the manager is in the middle of: create_bash_task after create_task,
\* before its second read and before its write; kill before write_control, with
\* what it knows of the child; recover before its second read and its write.
MgrState ==
  [op: {"idle"}] \cup
  [op: {"launch", "reread", "write", "recheck", "settle"}, task: Task] \cup
  [op: {"kill"}, task: Task, child: BOOLEAN]

TypeOK ==
  /\ runtime \in [Task -> Runtime]
  /\ progress \in [Task -> {"recent", "stale", "unwritten"}]
  /\ kills \in [Task -> Nat]
  /\ killedAt \in [Task -> {"never", "before_check", "before_exit", "after_exit"}]
  /\ worker \in [Task -> WorkerPlace]
  /\ copy \in [Task -> Runtime]
  /\ beating \in [Task -> {"sleep", "write", "stopped"}]
  /\ beats \in [Task -> 0..MaxBeats]
  /\ killSent \in [Task -> BOOLEAN]
  /\ timedOut \in [Task -> BOOLEAN]
  /\ child \in [Task -> {"none", "alive", "terminating", "ok", "bad"}]
  /\ mgr \in MgrState
  /\ mcopy \in Runtime
  /\ restarts \in 0..MaxRestarts
  /\ published \in [Task -> SUBSET Reason]

Init ==
  /\ runtime = [t \in Task |-> Absent]
  /\ progress = [t \in Task |-> "unwritten"]
  /\ kills = [t \in Task |-> 0]
  /\ killedAt = [t \in Task |-> "never"]
  /\ worker = [t \in Task |-> "none"]
  /\ copy = [t \in Task |-> Absent]
  /\ beating = [t \in Task |-> "sleep"]
  /\ beats = [t \in Task |-> 0]
  /\ killSent = [t \in Task |-> FALSE]
  /\ timedOut = [t \in Task |-> FALSE]
  /\ child = [t \in Task |-> "none"]
  /\ mgr = [op |-> "idle"]
  /\ mcopy = Absent
  /\ restarts = 0
  /\ published = [t \in Task |-> {}]

Idle == [op |-> "idle"]

\* write_runtime: the whole record replaces the file.  A record that is not
\* terminal carries a new heartbeat_at, started_at or updated_at.
WriteRuntime(t, r) ==
  /\ runtime' = [runtime EXCEPT ![t] = r]
  /\ progress' = [progress EXCEPT ![t] = IF IsTerminal(r) THEN @ ELSE "recent"]

Finished(r, status) == [r EXCEPT !.status = status, !.finished = TRUE]

---------------------------------------------------------------------------
(* The worker process: run_background_task_worker. *)

\* The step of the worker that runs before its command does.
Goto(t, from, to) ==
  /\ worker[t] = from
  /\ worker' = [worker EXCEPT ![t] = to]

\* runtime = store.read_runtime(task_id)
WorkerReads(t) ==
  /\ Goto(t, "start", "starting")
  /\ copy' = [copy EXCEPT ![t] = runtime[t]]
  /\ UNCHANGED <<files, beating, beats, killSent, timedOut, child, mgrVars>>

WorkerStarting(t) ==
  /\ Goto(t, "starting", "control")
  /\ copy' = [copy EXCEPT ![t] = [@ EXCEPT !.status = "starting", !.pid = TRUE]]
  /\ WriteRuntime(t, copy'[t])
  /\ UNCHANGED <<kills, killedAt, beating, beats, killSent, timedOut, child, mgrVars>>

\* kill_requested_at is not None
KillRequestSeen(t) == kills[t] > 0

\* control = store.read_control(task_id)
WorkerChecksControl(t) ==
  /\ Goto(t, "control", IF KillRequestSeen(t) THEN "stop" ELSE "spawn")
  /\ UNCHANGED <<files, copy, beating, beats, killSent, timedOut, child, mgrVars>>

\* Killed before the command started.
WorkerStops(t) ==
  /\ Goto(t, "stop", "exited")
  /\ WriteRuntime(t, Finished(copy[t], "killed"))
  /\ UNCHANGED <<kills, killedAt, copy, beating, beats, killSent, timedOut, child, mgrVars>>

\* create_subprocess_exec starts the command, or raises.
WorkerSpawns(t) ==
  /\ \/ /\ Goto(t, "spawn", "spawned")
        /\ child' = [child EXCEPT ![t] = "alive"]
     \/ /\ Goto(t, "spawn", "failing")
        /\ UNCHANGED child
  /\ UNCHANGED <<files, copy, beating, beats, killSent, timedOut, mgrVars>>

\* The except branch: read, then write "failed".
WorkerFailing(t) ==
  /\ Goto(t, "failing", "fail")
  /\ copy' = [copy EXCEPT ![t] = runtime[t]]
  /\ UNCHANGED <<files, beating, beats, killSent, timedOut, child, mgrVars>>

WorkerFails(t) ==
  /\ Goto(t, "fail", "exited")
  /\ WriteRuntime(t, Finished(copy[t], "failed"))
  /\ UNCHANGED <<kills, killedAt, copy, beating, beats, killSent, timedOut, child, mgrVars>>

\* The command runs: read, then write "running" whatever was read.
WorkerRereads(t) ==
  /\ Goto(t, "spawned", "mark")
  /\ copy' = [copy EXCEPT ![t] = runtime[t]]
  /\ UNCHANGED <<files, beating, beats, killSent, timedOut, child, mgrVars>>

WorkerMarksRunning(t) ==
  /\ Goto(t, "mark", "waiting")
  /\ WriteRuntime(t, [copy[t] EXCEPT !.status = "running", !.child = TRUE])
  /\ UNCHANGED <<kills, killedAt, copy, beating, beats, killSent, timedOut, child, mgrVars>>

\* _heartbeat_loop: read; return for good if the record is finished.
HeartbeatReads(t) ==
  /\ Supervising(t)
  /\ beating[t] = "sleep"
  /\ beats[t] < MaxBeats
  /\ IF runtime[t].finished
     THEN /\ beating' = [beating EXCEPT ![t] = "stopped"]
          /\ UNCHANGED <<copy, beats>>
     ELSE /\ beating' = [beating EXCEPT ![t] = "write"]
          /\ copy' = [copy EXCEPT ![t] = runtime[t]]
          /\ beats' = [beats EXCEPT ![t] = @ + 1]
  /\ UNCHANGED <<files, worker, killSent, timedOut, child, mgrVars>>

HeartbeatWrites(t) ==
  /\ worker[t] \in {"waiting", "grace"}
  /\ beating[t] = "write"
  /\ beating' = [beating EXCEPT ![t] = "sleep"]
  /\ WriteRuntime(t, copy[t])
  /\ UNCHANGED <<kills, killedAt, worker, copy, beats, killSent, timedOut, child, mgrVars>>

\* Fault: SIGTERM is sent even when SIGKILL is asked for.
TerminateGently(t, force) ==
  /\ killSent' = [killSent EXCEPT ![t] = TRUE]
  /\ child' = [child EXCEPT ![t] = IF @ = "alive" THEN "terminating" ELSE @]
\* _terminate_process: SIGKILL ends the process group, SIGTERM need not.  The
\* time of the first signal is kept in kill_sent_at.
Terminate(t, force) ==
  /\ killSent' = [killSent EXCEPT ![t] = TRUE]
  /\ child' = [child EXCEPT ![t] = IF ~Alive(t) THEN @
                                   ELSE IF force THEN "bad" ELSE "terminating"]

\* _control_loop: the first poll that sees the request sends SIGTERM; polls
\* within the grace period repeat it; a poll after it sends SIGKILL.
ControlPoll(t) ==
  /\ Supervising(t)
  /\ kills[t] > 0
  /\ Alive(t)
  /\ Terminate(t, FALSE) \/ (killSent[t] /\ Terminate(t, TRUE))
  /\ UNCHANGED <<files, worker, copy, beating, beats, timedOut, mgrVars>>

\* wait_for(process.wait(), timeout=spec.timeout_s) times out: SIGTERM.
WorkerTimesOut(t) ==
  /\ Supervising(t)
  /\ Goto(t, "waiting", "grace")
  /\ timedOut' = [timedOut EXCEPT ![t] = TRUE]
  /\ Terminate(t, FALSE)
  /\ UNCHANGED <<files, copy, beating, beats, mgrVars>>

\* The grace period after it ends: SIGKILL.
GraceEnds(t) ==
  /\ Supervising(t)
  /\ worker[t] = "grace"
  /\ Alive(t)
  /\ Terminate(t, TRUE)
  /\ UNCHANGED <<files, worker, copy, beating, beats, timedOut, mgrVars>>

\* process.wait() returns; the finally block cancels both loops.
WorkerSeesExit(t) ==
  /\ Supervising(t)
  /\ child[t] \in {"ok", "bad"}
  /\ worker' = [worker EXCEPT ![t] = "ended"]
  /\ UNCHANGED <<files, copy, beating, beats, killSent, timedOut, child, mgrVars>>

\* Fault: the exit code is looked at before the kill request.
VerdictByExitCode(t) ==
  IF timedOut[t] THEN "failed"
  ELSE IF child[t] = "ok" THEN "completed"
  ELSE IF kills[t] > 0 THEN "killed" ELSE "failed"
\* The final status, decided on the control file as it is now.
Verdict(t) ==
  IF timedOut[t] THEN "failed"
  ELSE IF kills[t] > 0 THEN "killed"
  ELSE IF child[t] = "ok" THEN "completed" ELSE "failed"

\* control = store.read_control(task_id), and the record that follows from it:
\* last_known_runtime, the copy written when the command began, plus the verdict.
WorkerDecides(t) ==
  /\ Goto(t, "ended", "verdict")
  /\ copy' = [copy EXCEPT ![t] =
       [status |-> Verdict(t), pid |-> TRUE, child |-> TRUE,
        finished |-> TRUE, timedOut |-> timedOut[t]]]
  /\ UNCHANGED <<files, beating, beats, killSent, timedOut, child, mgrVars>>

WorkerReports(t) ==
  /\ Goto(t, "verdict", "exited")
  /\ WriteRuntime(t, copy[t])
  /\ UNCHANGED <<kills, killedAt, copy, beating, beats, killSent, timedOut, child, mgrVars>>

WorkerStep(t) ==
  \/ WorkerReads(t) \/ WorkerStarting(t) \/ WorkerChecksControl(t)
  \/ WorkerStops(t) \/ WorkerSpawns(t) \/ WorkerFailing(t) \/ WorkerFails(t)
  \/ WorkerRereads(t) \/ WorkerMarksRunning(t)
  \/ HeartbeatWrites(t)
  \/ WorkerSeesExit(t) \/ WorkerDecides(t) \/ WorkerReports(t)

\* The worker process dies; its command goes on unsupervised.
WorkerDies(t) ==
  /\ Launched(t)
  /\ worker' = [worker EXCEPT ![t] = "dead"]
  /\ UNCHANGED <<files, copy, beating, beats, killSent, timedOut, child, mgrVars>>

\* The command ends, with exit code 0 or not.
CommandExits(t) ==
  /\ Alive(t)
  /\ \E result \in {"ok", "bad"} : child' = [child EXCEPT ![t] = result]
  /\ UNCHANGED <<files, worker, copy, beating, beats, killSent, timedOut, mgrVars>>

---------------------------------------------------------------------------
(* The manager in the CLI process.  Its methods are synchronous: one runs at a *)
(* time, but the workers write between any two of its file operations.         *)

Active == {t \in Task : runtime[t].status \notin Terminal \cup {"absent"}}

\* Fault: tasks whose command has not started are not counted.
FewRunning == Cardinality({t \in Task : runtime[t].status = "running"}) < MaxRunning
\* _active_task_count() < max_running_tasks
RoomForOne == Cardinality(Active) < MaxRunning

\* create_bash_task up to store.create_task.
Create(t) ==
  /\ mgr = Idle
  /\ runtime[t].status = "absent"
  /\ RoomForOne
  /\ WriteRuntime(t, NewRuntime)
  /\ mgr' = [op |-> "launch", task |-> t]
  /\ UNCHANGED <<kills, killedAt, workerVars, mcopy, restarts, published>>

\* The CLI dies inside create_task, when spec.json exists and runtime.json does
\* not: read_runtime then returns a new TaskRuntime, with updated_at = now, on
\* every call.
CreateTorn(t) ==
  /\ mgr = Idle
  /\ restarts < MaxRestarts
  /\ runtime[t].status = "absent"
  /\ RoomForOne
  /\ runtime' = [runtime EXCEPT ![t] = NewRuntime]
  /\ restarts' = restarts + 1
  /\ UNCHANGED <<progress, kills, killedAt, workerVars, mgr, mcopy, published>>

\* _launch_worker starts a process, or raises and the task is marked failed.
Launch(t) ==
  /\ mgr = [op |-> "launch", task |-> t]
  /\ \/ /\ worker' = [worker EXCEPT ![t] = "start"]
        /\ mgr' = [op |-> "reread", task |-> t]
        /\ UNCHANGED <<runtime, progress>>
     \/ /\ WriteRuntime(t, Finished(runtime[t], "failed"))
        /\ mgr' = Idle
        /\ UNCHANGED worker
  /\ UNCHANGED <<kills, killedAt, copy, beating, beats, killSent, timedOut, child,
                 mcopy, restarts, published>>

\* The worker has not come to writing it yet.
NotYetTaken(r) ==
  /\ ~r.finished
  /\ r.status = "created" \/ (r.status = "starting" /\ ~r.pid)

\* The second read_runtime of create_bash_task.
CreateRereads(t) ==
  /\ mgr = [op |-> "reread", task |-> t]
  /\ mcopy' = runtime[t]
  /\ mgr' = IF NotYetTaken(runtime[t]) THEN [op |-> "write", task |-> t] ELSE Idle
  /\ UNCHANGED <<files, workerVars, restarts, published>>

CreateMarksStarting(t) ==
  /\ mgr = [op |-> "write", task |-> t]
  /\ WriteRuntime(t, [mcopy EXCEPT !.status = "starting", !.pid = TRUE])
  /\ mgr' = Idle
  /\ UNCHANGED <<kills, killedAt, workerVars, mcopy, restarts, published>>

\* kill: the view it reads decides whether it goes on and whom it signals.
Kill(t) ==
  /\ mgr = Idle
  /\ kills[t] < MaxKills
  /\ runtime[t].status \notin Terminal \cup {"absent"}
  /\ mgr' = [op |-> "kill", task |-> t, child |-> runtime[t].child]
  /\ UNCHANGED <<files, workerVars, mcopy, restarts, published>>

\* write_control, then _best_effort_kill.
KillRequested(t) ==
  /\ mgr.op = "kill"
  /\ mgr.task = t
  /\ kills' = [kills EXCEPT ![t] = @ + 1]
  /\ killedAt' = [killedAt EXCEPT ![t] =
       IF @ # "never" THEN @
       ELSE IF worker[t] \in {"none", "start", "starting", "control"} THEN "before_check"
       ELSE IF worker[t] \in {"spawn", "spawned", "mark", "waiting", "grace"}
               /\ child[t] \notin {"ok", "bad"} THEN "before_exit"
       ELSE "after_exit"]
  /\ child' = [child EXCEPT ![t] = IF mgr.child /\ @ = "alive" THEN "terminating" ELSE @]
  /\ mgr' = Idle
  /\ UNCHANGED <<runtime, progress, worker, copy, beating, beats, killSent, timedOut,
                 mcopy, restarts, published>>

\* Fault: a task counts as stale whatever its last sign of progress.
NotTerminal(t) == t \in Active
\* Fault: a stale task is settled even if it has just ended.
OnlyStale(t) == progress[t] = "stale"
\* recover looks at a view: not terminal and without recent progress.
Lapsed(t) == t \in Active /\ progress[t] = "stale"

Recover(t) ==
  /\ mgr = Idle
  /\ Lapsed(t)
  /\ mgr' = [op |-> "recheck", task |-> t]
  /\ UNCHANGED <<files, workerVars, mcopy, restarts, published>>

\* "Re-read runtime to narrow the race window with the worker process."
RecoverRereads(t) ==
  /\ mgr = [op |-> "recheck", task |-> t]
  /\ mcopy' = runtime[t]
  /\ mgr' = IF Lapsed(t) THEN [op |-> "settle", task |-> t] ELSE Idle
  /\ UNCHANGED <<files, workerVars, restarts, published>>

\* A stale task is killed if a kill was requested, lost otherwise.
RecoverSettles(t) ==
  /\ mgr = [op |-> "settle", task |-> t]
  /\ WriteRuntime(t, Finished(mcopy, IF kills[t] > 0 THEN "killed" ELSE "lost"))
  /\ mgr' = Idle
  /\ UNCHANGED <<kills, killedAt, workerVars, mcopy, restarts, published>>

\* terminal_reason, the part of the dedupe key that is not the task id.
TerminalReason(r) == IF r.timedOut THEN "timed_out" ELSE r.status

\* Fault: nothing is published of a task that timed out.
InTime(r) == IsTerminal(r) /\ ~r.timedOut
\* is_terminal_status(view.runtime.status)
Publishable(r) == IsTerminal(r)

\* publish_terminal_notifications, for one task; NotificationManager.publish
\* returns the existing notification when the dedupe key is known.
Publish(t) ==
  /\ mgr = Idle
  /\ Publishable(runtime[t])
  /\ TerminalReason(runtime[t]) \notin published[t]
  /\ published' = [published EXCEPT ![t] = @ \cup {TerminalReason(runtime[t])}]
  /\ UNCHANGED <<files, workerVars, mgr, mcopy, restarts>>

MgrStep(t) ==
  \/ Launch(t) \/ CreateRereads(t) \/ CreateMarksStarting(t)
  \/ KillRequested(t) \/ RecoverRereads(t) \/ RecoverSettles(t)

\* The CLI process dies and another one opens the session.
CliDies ==
  /\ restarts < MaxRestarts
  /\ mgr # Idle
  /\ restarts' = restarts + 1
  /\ mgr' = Idle
  /\ UNCHANGED <<files, workerVars, mcopy, published>>

Creating(t) == mgr \in [op: {"launch", "reread", "write"}, task: {t}]

\* worker_stale_after_ms pass without a sign of progress from the task.
Expire(t) ==
  /\ progress[t] = "recent"
  /\ Stalls \/ (~Launched(t) /\ ~Creating(t))
  /\ progress' = [progress EXCEPT ![t] = "stale"]
  /\ UNCHANGED <<runtime, kills, killedAt, workerVars, mgrVars>>

TaskStep(t) ==
  \/ WorkerStep(t) \/ HeartbeatReads(t) \/ ControlPoll(t)
  \/ WorkerTimesOut(t) \/ GraceEnds(t)
  \/ WorkerDies(t) \/ CommandExits(t) \/ Expire(t)
  \/ Create(t) \/ CreateTorn(t) \/ Kill(t) \/ Recover(t) \/ Publish(t)
  \/ MgrStep(t)

Next == (\E t \in Task : TaskStep(t)) \/ CliDies

Spec == Init /\ [][Next]_vars

\* A worker runs, its timeouts expire and SIGKILL ends the command; the manager
\* ends what it begins and is asked to reconcile again and again.  Nothing makes
\* the command end by itself, and a worker need not survive.
Fairness ==
  \A t \in Task :
    /\ WF_vars(WorkerStep(t)) /\ WF_vars(ControlPoll(t))
    /\ WF_vars(WorkerTimesOut(t)) /\ WF_vars(GraceEnds(t))
    /\ WF_vars(MgrStep(t)) /\ WF_vars(Expire(t))
    /\ WF_vars(Recover(t)) /\ WF_vars(Publish(t))

FairSpec == Spec /\ Fairness

---------------------------------------------------------------------------
\* "completed", in the record or in a notification, is only ever said of a task
\* whose command ended by itself with exit code 0, within its timeout, and whose
\* first kill request, if any, came after that.
CompletedIsEarned ==
  \A t \in Task :
    (runtime[t].status = "completed" \/ "completed" \in published[t]) =>
      /\ child[t] = "ok"
      /\ ~timedOut[t]
      /\ killedAt[t] \in {"never", "after_exit"}

\* When the kill request is on disk before the worker looks for it, the command
\* never starts.
KilledBeforeStart ==
  \A t \in Task : killedAt[t] = "before_check" => child[t] = "none"

\* "lost" is only said of a task that no worker process supervises.  (Where live
\* workers do not miss their heartbeats.)
LostMeansGone ==
  \A t \in Task : runtime[t].status = "lost" => ~Launched(t)

\* A user is told at most one outcome of a task, through every restart of the
\* CLI.  (Where live workers do not miss their heartbeats.)
OneNotification == \A t \in Task : Cardinality(published[t]) <= 1

\* No more tasks are active than max_running_tasks.
ActiveBound == Cardinality(Active) <= MaxRunning

\* Once the worker is gone and create_bash_task is over, a terminal record is
\* final: no recover, in this CLI process or the next, changes it.  While
\* create_bash_task is at work its last write may put the record of a worker that
\* was quicker than its second look back to starting.
VerdictStable ==
  [][\A t \in Task :
       (Gone(t) /\ ~Creating(t) /\ IsTerminal(runtime[t])) =>
         runtime'[t] = runtime[t]]_vars

\* A command that is asked to die does die, even one that ignores SIGTERM,
\* unless its worker dies first.
KillEnds ==
  \A t \in Task :
    (kills[t] > 0 /\ Alive(t)) ~> (~Alive(t) \/ worker[t] = "dead")

\* Every task whose record was written once ends up for good in a terminal state
\* that has been notified, whichever of the two processes dies, whenever.
Settles ==
  \A t \in Task :
    (progress[t] # "unwritten") ~>
      [](IsTerminal(runtime[t]) /\ TerminalReason(runtime[t]) \in published[t])
=============================================================================
