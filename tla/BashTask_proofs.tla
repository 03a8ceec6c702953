---------------------------- MODULE BashTask_proofs ----------------------------
(***************************************************************************)
(* Proofs about BashTask, for every set of tasks, every limit, every       *)
(* number of kills, restarts and heartbeats.                               *)
(***************************************************************************)
EXTENDS BashTask, FiniteSetTheorems, TLAPS

---------------------------------------------------------------------------
\* The records the code derives from a record are records.
LEMMA RuntimeRecords ==
  /\ Absent \in Runtime
  /\ NewRuntime \in Runtime
  /\ \A r \in Runtime : \A s \in Terminal : Finished(r, s) \in Runtime
  /\ \A r \in Runtime : [r EXCEPT !.status = "starting", !.pid = TRUE] \in Runtime
  /\ \A r \in Runtime : [r EXCEPT !.status = "running", !.child = TRUE] \in Runtime
  /\ \A s \in Status : \A b \in BOOLEAN :
       [status |-> s, pid |-> TRUE, child |-> TRUE, finished |-> TRUE, timedOut |-> b] \in Runtime
  BY DEF Absent, NewRuntime, Runtime, Status, Terminal, Finished

LEMMA OpenRecords ==
  ASSUME NEW r \in Runtime
  PROVE  /\ ~IsTerminal([r EXCEPT !.status = "starting", !.pid = TRUE])
         /\ ~IsTerminal([r EXCEPT !.status = "running", !.child = TRUE])
<1>1. [r EXCEPT !.status = "starting", !.pid = TRUE].status = "starting"
  BY DEF Runtime
<1>2. [r EXCEPT !.status = "running", !.child = TRUE].status = "running"
  BY DEF Runtime
<1> QED BY <1>1, <1>2 DEF IsTerminal, Terminal

\* write_runtime of a record keeps the two files well typed.
LEMMA WriteTyped ==
  ASSUME TypeOK, NEW t \in Task, NEW r \in Runtime, WriteRuntime(t, r)
  PROVE  /\ runtime' \in [Task -> Runtime]
         /\ progress' \in [Task -> {"recent", "stale", "unwritten"}]
<1>1. runtime' \in [Task -> Runtime]
  BY DEF TypeOK, WriteRuntime
<1>2. progress' \in [Task -> {"recent", "stale", "unwritten"}]
  BY DEF TypeOK, WriteRuntime
<1> QED BY <1>1, <1>2

LEMMA InitTyped == Init => TypeOK
<1> USE BashTaskAssumption
<1> SUFFICES ASSUME Init PROVE TypeOK
  OBVIOUS
<1>1. [op |-> "idle"] \in MgrState
  BY DEF MgrState
<1>2. worker \in [Task -> WorkerPlace] /\ killedAt \in
        [Task -> {"never", "before_check", "before_exit", "after_exit"}]
  BY DEF Init, WorkerPlace
<1>3. runtime \in [Task -> Runtime] /\ copy \in [Task -> Runtime] /\ mcopy \in Runtime
  BY RuntimeRecords DEF Init
<1>4. kills \in [Task -> Nat] /\ beats \in [Task -> 0..MaxBeats] /\ restarts \in 0..MaxRestarts
  <2>1. 0 \in Nat /\ 0 \in 0..MaxBeats /\ 0 \in 0..MaxRestarts
    BY DEF BashTaskAssumption
  <2> QED BY <2>1 DEF Init
<1>5. killSent \in [Task -> BOOLEAN] /\ timedOut \in [Task -> BOOLEAN]
  BY DEF Init
<1>6. published \in [Task -> SUBSET Reason]
  BY DEF Init
<1> QED BY <1>1, <1>2, <1>3, <1>4, <1>5, <1>6 DEF Init, TypeOK

\* The steps of a worker and of its command.
LEMMA WorkerTyped ==
  ASSUME TypeOK, NEW t \in Task, WorkerStep(t)
  PROVE  TypeOK'
<1> USE BashTaskAssumption
<1>1. CASE WorkerReads(t)
  BY <1>1 DEF WorkerReads, Goto, TypeOK, files, mgrVars, WorkerPlace
<1>2. CASE WorkerStarting(t)
  <2>1. copy'[t] \in Runtime /\ copy' \in [Task -> Runtime]
    BY <1>2, RuntimeRecords DEF WorkerStarting, TypeOK
  <2>2. WriteRuntime(t, copy'[t])
    BY <1>2 DEF WorkerStarting
  <2> QED BY <1>2, <2>1, <2>2, WriteTyped DEF WorkerStarting, Goto, TypeOK, mgrVars, WorkerPlace
<1>3. CASE WorkerChecksControl(t)
  BY <1>3 DEF WorkerChecksControl, Goto, TypeOK, files, mgrVars, WorkerPlace
<1>4. CASE WorkerStops(t)
  <2>1. Finished(copy[t], "killed") \in Runtime
    BY RuntimeRecords DEF TypeOK, Terminal
  <2>2. WriteRuntime(t, Finished(copy[t], "killed"))
    BY <1>4 DEF WorkerStops
  <2> QED BY <1>4, <2>1, <2>2, WriteTyped DEF WorkerStops, Goto, TypeOK, mgrVars, WorkerPlace
<1>5. CASE WorkerSpawns(t)
  BY <1>5 DEF WorkerSpawns, Goto, TypeOK, files, mgrVars, WorkerPlace
<1>6. CASE WorkerFailing(t)
  BY <1>6 DEF WorkerFailing, Goto, TypeOK, files, mgrVars, WorkerPlace
<1>7. CASE WorkerFails(t)
  <2>1. Finished(copy[t], "failed") \in Runtime
    BY RuntimeRecords DEF TypeOK, Terminal
  <2>2. WriteRuntime(t, Finished(copy[t], "failed"))
    BY <1>7 DEF WorkerFails
  <2> QED BY <1>7, <2>1, <2>2, WriteTyped DEF WorkerFails, Goto, TypeOK, mgrVars, WorkerPlace
<1>8. CASE WorkerRereads(t)
  BY <1>8 DEF WorkerRereads, Goto, TypeOK, files, mgrVars, WorkerPlace
<1>9. CASE WorkerMarksRunning(t)
  <2>1. [copy[t] EXCEPT !.status = "running", !.child = TRUE] \in Runtime
    BY RuntimeRecords DEF TypeOK
  <2>2. WriteRuntime(t, [copy[t] EXCEPT !.status = "running", !.child = TRUE])
    BY <1>9 DEF WorkerMarksRunning
  <2> QED BY <1>9, <2>1, <2>2, WriteTyped DEF WorkerMarksRunning, Goto, TypeOK, mgrVars, WorkerPlace
<1>10. CASE HeartbeatWrites(t)
  <2>1. copy[t] \in Runtime
    BY DEF TypeOK
  <2>2. WriteRuntime(t, copy[t])
    BY <1>10 DEF HeartbeatWrites
  <2> QED BY <1>10, <2>1, <2>2, WriteTyped DEF HeartbeatWrites, TypeOK, mgrVars
<1>11. CASE WorkerSeesExit(t)
  BY <1>11 DEF WorkerSeesExit, TypeOK, files, mgrVars, WorkerPlace
<1>12. CASE WorkerDecides(t)
  <2>1. Verdict(t) \in Status /\ timedOut[t] \in BOOLEAN
    BY DEF Verdict, Status, Terminal, TypeOK
  <2>2. copy' \in [Task -> Runtime]
    BY <1>12, <2>1, RuntimeRecords DEF WorkerDecides, TypeOK
  <2> QED BY <1>12, <2>2 DEF WorkerDecides, Goto, TypeOK, files, mgrVars, WorkerPlace
<1>13. CASE WorkerReports(t)
  <2>1. copy[t] \in Runtime
    BY DEF TypeOK
  <2>2. WriteRuntime(t, copy[t])
    BY <1>13 DEF WorkerReports
  <2> QED BY <1>13, <2>1, <2>2, WriteTyped DEF WorkerReports, Goto, TypeOK, mgrVars, WorkerPlace
<1> QED BY <1>1, <1>2, <1>3, <1>4, <1>5, <1>6, <1>7, <1>8, <1>9, <1>10,
           <1>11, <1>12, <1>13 DEF WorkerStep

\* The heartbeat, the control loop, the timeouts, the command and the clock.
LEMMA AroundTyped ==
  ASSUME TypeOK, NEW t \in Task,
         \/ HeartbeatReads(t) \/ ControlPoll(t) \/ WorkerTimesOut(t) \/ GraceEnds(t)
         \/ WorkerDies(t) \/ CommandExits(t) \/ Expire(t)
  PROVE  TypeOK'
<1> USE BashTaskAssumption
<1>1. CASE HeartbeatReads(t)
  BY <1>1 DEF HeartbeatReads, TypeOK, files, mgrVars
<1>2. CASE ControlPoll(t)
  BY <1>2 DEF ControlPoll, Alive, Terminate, TypeOK, files, mgrVars
<1>3. CASE WorkerTimesOut(t)
  BY <1>3 DEF WorkerTimesOut, Goto, Alive, Terminate, TypeOK, files, mgrVars, WorkerPlace
<1>4. CASE GraceEnds(t)
  BY <1>4 DEF GraceEnds, Alive, Terminate, TypeOK, files, mgrVars
<1>5. CASE WorkerDies(t)
  BY <1>5 DEF WorkerDies, TypeOK, files, mgrVars, WorkerPlace
<1>6. CASE CommandExits(t)
  BY <1>6 DEF CommandExits, TypeOK, files, mgrVars
<1>7. CASE Expire(t)
  BY <1>7 DEF Expire, TypeOK, workerVars, mgrVars
<1> QED BY <1>1, <1>2, <1>3, <1>4, <1>5, <1>6, <1>7

\* The steps of the manager.
LEMMA ManagerTyped ==
  ASSUME TypeOK, NEW t \in Task,
         \/ Create(t) \/ CreateTorn(t) \/ Kill(t) \/ Recover(t) \/ Publish(t) \/ MgrStep(t)
  PROVE  TypeOK'
<1> USE BashTaskAssumption
<1> DEFINE Op == {"launch", "reread", "write", "recheck", "settle"}
<1>a. \A op \in Op : [op |-> op, task |-> t] \in MgrState
  BY DEF MgrState
<1>b. Idle \in MgrState
  BY DEF MgrState, Idle
<1>1. CASE Create(t)
  <2>1. WriteRuntime(t, NewRuntime) /\ mgr' \in MgrState
    BY <1>1, <1>a DEF Create
  <2> QED BY <1>1, <2>1, WriteTyped, RuntimeRecords DEF Create, TypeOK, workerVars
<1>2. CASE CreateTorn(t)
  <2>1. runtime' \in [Task -> Runtime]
    BY <1>2, RuntimeRecords DEF CreateTorn, TypeOK
  <2>2. restarts' \in 0..MaxRestarts
    BY <1>2 DEF CreateTorn, TypeOK
  <2> QED BY <1>2, <2>1, <2>2 DEF CreateTorn, TypeOK, workerVars
<1>3. CASE Kill(t)
  <2>1. runtime[t].child \in BOOLEAN
    BY DEF TypeOK, Runtime
  <2>2. mgr' \in MgrState
    BY <1>3, <2>1 DEF Kill, MgrState
  <2> QED BY <1>3, <2>2 DEF Kill, TypeOK, files, workerVars
<1>4. CASE Recover(t)
  <2>1. mgr' \in MgrState
    BY <1>4, <1>a DEF Recover
  <2> QED BY <1>4, <2>1 DEF Recover, TypeOK, files, workerVars
<1>5. CASE Publish(t)
  <2>1. TerminalReason(runtime[t]) \in Reason
    BY <1>5 DEF Publish, Publishable, IsTerminal, TerminalReason, Reason
  <2> QED BY <1>5, <2>1 DEF Publish, TypeOK, files, workerVars
<1>6. CASE Launch(t)
  <2>1. CASE worker' = [worker EXCEPT ![t] = "start"] /\ mgr' = [op |-> "reread", task |-> t]
             /\ UNCHANGED <<runtime, progress>>
    <3>1. mgr' \in MgrState
      BY <2>1, <1>a
    <3> QED BY <1>6, <2>1, <3>1 DEF Launch, TypeOK, WorkerPlace
  <2>2. CASE WriteRuntime(t, Finished(runtime[t], "failed")) /\ mgr' = Idle /\ UNCHANGED worker
    <3>1. Finished(runtime[t], "failed") \in Runtime
      BY RuntimeRecords DEF TypeOK, Terminal
    <3> QED BY <1>6, <2>2, <3>1, <1>b, WriteTyped DEF Launch, TypeOK
  <2> QED BY <1>6, <2>1, <2>2 DEF Launch
<1>7. CASE CreateRereads(t)
  <2>1. mgr' \in MgrState
    BY <1>7, <1>a, <1>b DEF CreateRereads
  <2> QED BY <1>7, <2>1 DEF CreateRereads, TypeOK, files, workerVars
<1>8. CASE CreateMarksStarting(t)
  <2>1. [mcopy EXCEPT !.status = "starting", !.pid = TRUE] \in Runtime
    BY RuntimeRecords DEF TypeOK
  <2>2. WriteRuntime(t, [mcopy EXCEPT !.status = "starting", !.pid = TRUE])
    BY <1>8 DEF CreateMarksStarting
  <2>3. mgr' \in MgrState
    BY <1>8, <1>b DEF CreateMarksStarting
  <2> QED BY <1>8, <2>1, <2>2, <2>3, WriteTyped
          DEF CreateMarksStarting, TypeOK, workerVars
<1>9. CASE KillRequested(t)
  <2>1. kills' \in [Task -> Nat]
    BY <1>9 DEF KillRequested, TypeOK
  <2>2. killedAt' \in [Task -> {"never", "before_check", "before_exit", "after_exit"}]
    BY <1>9 DEF KillRequested, TypeOK
  <2>3. child' \in [Task -> {"none", "alive", "terminating", "ok", "bad"}]
    BY <1>9 DEF KillRequested, TypeOK
  <2>4. mgr' \in MgrState
    BY <1>9, <1>b DEF KillRequested
  <2> QED BY <1>9, <2>1, <2>2, <2>3, <2>4 DEF KillRequested, TypeOK
<1>10. CASE RecoverRereads(t)
  <2>1. mgr' \in MgrState
    BY <1>10, <1>a, <1>b DEF RecoverRereads
  <2> QED BY <1>10, <2>1 DEF RecoverRereads, TypeOK, files, workerVars
<1>11. CASE RecoverSettles(t)
  <2>1. Finished(mcopy, IF kills[t] > 0 THEN "killed" ELSE "lost") \in Runtime
    BY RuntimeRecords DEF TypeOK, Terminal
  <2>2. WriteRuntime(t, Finished(mcopy, IF kills[t] > 0 THEN "killed" ELSE "lost"))
    BY <1>11 DEF RecoverSettles
  <2>3. mgr' \in MgrState
    BY <1>11, <1>b DEF RecoverSettles
  <2> QED BY <1>11, <2>1, <2>2, <2>3, WriteTyped
          DEF RecoverSettles, TypeOK, workerVars
<1> QED BY <1>1, <1>2, <1>3, <1>4, <1>5, <1>6, <1>7, <1>8, <1>9, <1>10, <1>11
        DEF MgrStep

LEMMA NextTyped == TypeOK /\ [Next]_vars => TypeOK'
<1> SUFFICES ASSUME TypeOK, [Next]_vars PROVE TypeOK'
  OBVIOUS
<1>1. CASE UNCHANGED vars
  BY <1>1 DEF TypeOK, vars, files, workerVars, mgrVars
<1>2. CASE CliDies
  <2>1. mgr' \in MgrState /\ restarts' \in 0..MaxRestarts
    BY <1>2, BashTaskAssumption DEF CliDies, Idle, TypeOK, MgrState
  <2> QED BY <1>2, <2>1 DEF CliDies, TypeOK, files, workerVars
<1> QED BY <1>1, <1>2, WorkerTyped, AroundTyped, ManagerTyped DEF Next, TaskStep

\* Every state of the manager and of the workers is well typed.
THEOREM Typing == Spec => []TypeOK
<1>1. Init => TypeOK
  BY InitTyped
<1>2. TypeOK /\ [Next]_vars => TypeOK'
  BY NextTyped
<1> QED BY <1>1, <1>2, PTL DEF Spec

---------------------------------------------------------------------------
(* completed is earned, and a command killed in time never starts. *)

\* A kill request in control.json dates from some point of the worker's life.
KillsDated == \A t \in Task : kills[t] = 0 => killedAt[t] = "never"

\* No command exists before the spawn.
NoEarlyCommand ==
  \A t \in Task :
    worker[t] \in {"none", "start", "starting", "control", "stop", "spawn", "failing", "fail"}
      => child[t] = "none"

\* A worker whose kill request was there in time does not get past the check.
CheckStops ==
  \A t \in Task : killedAt[t] = "before_check" =>
    /\ worker[t] \in {"none", "start", "starting", "control", "stop", "exited", "dead"}
    /\ child[t] = "none"

\* Whoever says completed, be it only the worker's own copy of the record, does
\* so after the verdict of the worker, and the verdict was right.
SaysCompleted(t) ==
  \/ runtime[t].status = "completed"
  \/ copy[t].status = "completed"
  \/ "completed" \in published[t]
EarnedByVerdict ==
  \A t \in Task : SaysCompleted(t) =>
    /\ worker[t] \in {"verdict", "exited", "dead"}
    /\ child[t] = "ok"
    /\ ~timedOut[t]
    /\ killedAt[t] \in {"never", "after_exit"}

\* Each task is launched at most once.
LaunchedOnce ==
  \A t \in Task :
       /\ mgr = [op |-> "launch", task |-> t] =>
            worker[t] = "none" /\ runtime[t].status # "absent"
       /\ runtime[t].status = "absent" => worker[t] = "none"
       /\ copy[t].status = "absent" => worker[t] \in {"none", "start", "dead"}

Honest == KillsDated /\ NoEarlyCommand /\ CheckStops /\ EarnedByVerdict /\ LaunchedOnce

LEMMA InitHonest == Init => Honest
  BY DEF Init, Absent, Honest, KillsDated, NoEarlyCommand, CheckStops, EarnedByVerdict,
         SaysCompleted, LaunchedOnce

\* What write_runtime does to the statuses.
LEMMA Written ==
  ASSUME TypeOK, NEW t \in Task, NEW r \in Runtime, WriteRuntime(t, r)
  PROVE  \A u \in Task : runtime'[u] = IF u = t THEN r ELSE runtime[u]
  BY DEF TypeOK, WriteRuntime

LEMMA FinishedStatus ==
  ASSUME NEW r \in Runtime, NEW s \in Terminal
  PROVE  Finished(r, s) \in Runtime /\ Finished(r, s).status = s
  BY DEF Finished, Runtime, Terminal, Status

LEMMA WorkerHonest ==
  ASSUME TypeOK, Honest, NEW s \in Task, WorkerStep(s)
  PROVE  Honest'
<1> USE DEF Honest, KillsDated, NoEarlyCommand, CheckStops, EarnedByVerdict,
            SaysCompleted, LaunchedOnce
<1>1. CASE WorkerReads(s)
  BY <1>1 DEF WorkerReads, Goto, TypeOK, files, mgrVars
<1>2. CASE WorkerStarting(s)
  <2> DEFINE r == [copy[s] EXCEPT !.status = "starting", !.pid = TRUE]
  <2>1. r \in Runtime /\ r.status = "starting"
    BY RuntimeRecords DEF TypeOK, Runtime
  <2>2. copy' = [copy EXCEPT ![s] = r] /\ WriteRuntime(s, r)
    BY <1>2 DEF WorkerStarting, TypeOK
  <2> HIDE DEF r
  <2>3. \A u \in Task : runtime'[u] = IF u = s THEN r ELSE runtime[u]
    BY <2>1, <2>2, Written
  <2> QED BY <1>2, <2>1, <2>2, <2>3 DEF WorkerStarting, Goto, TypeOK, mgrVars
<1>3. CASE WorkerChecksControl(s)
  BY <1>3 DEF WorkerChecksControl, KillRequestSeen, Goto, TypeOK, files, mgrVars
<1>4. CASE WorkerStops(s)
  <2>1. \A u \in Task : runtime'[u].status = IF u = s THEN "killed" ELSE runtime[u].status
    BY <1>4, FinishedStatus, Written DEF WorkerStops, TypeOK, Terminal
  <2>2. worker[s] = "stop" /\ worker' = [worker EXCEPT ![s] = "exited"]
        /\ UNCHANGED <<kills, killedAt, copy, timedOut, child, mgr, published>>
    BY <1>4 DEF WorkerStops, Goto, mgrVars
  <2> QED BY <2>1, <2>2 DEF TypeOK
<1>5. CASE WorkerSpawns(s)
  <2>1. worker[s] = "spawn" /\ UNCHANGED <<files, copy, timedOut, mgr, published>>
    BY <1>5 DEF WorkerSpawns, Goto, mgrVars
  <2>2. CASE worker' = [worker EXCEPT ![s] = "spawned"] /\ child' = [child EXCEPT ![s] = "alive"]
    BY <2>1, <2>2 DEF TypeOK, files
  <2>3. CASE worker' = [worker EXCEPT ![s] = "failing"] /\ UNCHANGED child
    BY <2>1, <2>3 DEF TypeOK, files
  <2> QED BY <1>5, <2>2, <2>3 DEF WorkerSpawns, Goto
<1>6. CASE WorkerFailing(s)
  BY <1>6 DEF WorkerFailing, Goto, TypeOK, files, mgrVars
<1>7. CASE WorkerFails(s)
  <2>1. \A u \in Task : runtime'[u].status = IF u = s THEN "failed" ELSE runtime[u].status
    BY <1>7, FinishedStatus, Written DEF WorkerFails, TypeOK, Terminal
  <2> QED BY <1>7, <2>1 DEF WorkerFails, Goto, TypeOK, mgrVars
<1>8. CASE WorkerRereads(s)
  BY <1>8 DEF WorkerRereads, Goto, TypeOK, files, mgrVars
<1>9. CASE WorkerMarksRunning(s)
  <2> DEFINE r == [copy[s] EXCEPT !.status = "running", !.child = TRUE]
  <2>1. r \in Runtime /\ r.status = "running"
    BY RuntimeRecords DEF TypeOK, Runtime
  <2>2. WriteRuntime(s, r)
    BY <1>9 DEF WorkerMarksRunning
  <2> HIDE DEF r
  <2>3. \A u \in Task : runtime'[u] = IF u = s THEN r ELSE runtime[u]
    BY <2>1, <2>2, Written
  <2> QED BY <1>9, <2>1, <2>3 DEF WorkerMarksRunning, Goto, TypeOK, mgrVars
<1>10. CASE HeartbeatWrites(s)
  <2>1. \A u \in Task : runtime'[u] = IF u = s THEN copy[s] ELSE runtime[u]
    BY <1>10, Written DEF HeartbeatWrites, TypeOK
  <2> QED BY <1>10, <2>1 DEF HeartbeatWrites, TypeOK, mgrVars
<1>11. CASE WorkerSeesExit(s)
  BY <1>11 DEF WorkerSeesExit, Supervising, TypeOK, files, mgrVars
<1>12. CASE WorkerDecides(s)
  <2>1. Verdict(s) = "completed" => child[s] = "ok" /\ ~timedOut[s] /\ kills[s] = 0
    BY DEF Verdict, TypeOK
  <2>2. Verdict(s) # "absent"
    BY DEF Verdict
  <2>3. \A u \in Task : copy'[u].status = IF u = s THEN Verdict(s) ELSE copy[u].status
    BY <1>12 DEF WorkerDecides, TypeOK
  <2> HIDE DEF SaysCompleted
  <2>4. worker[s] = "ended" /\ worker' = [worker EXCEPT ![s] = "verdict"]
        /\ UNCHANGED <<runtime, kills, killedAt, timedOut, child, mgr, published>>
    BY <1>12 DEF WorkerDecides, Goto, files, mgrVars
  <2> QED BY <2>1, <2>2, <2>3, <2>4 DEF TypeOK, SaysCompleted
<1>13. CASE WorkerReports(s)
  <2>1. \A u \in Task : runtime'[u] = IF u = s THEN copy[s] ELSE runtime[u]
    BY <1>13, Written DEF WorkerReports, TypeOK
  <2> QED BY <1>13, <2>1 DEF WorkerReports, Goto, TypeOK, mgrVars
<1> QED BY <1>1, <1>2, <1>3, <1>4, <1>5, <1>6, <1>7, <1>8, <1>9, <1>10,
           <1>11, <1>12, <1>13 DEF WorkerStep

LEMMA AroundHonest ==
  ASSUME TypeOK, Honest, NEW s \in Task,
         \/ HeartbeatReads(s) \/ ControlPoll(s) \/ WorkerTimesOut(s) \/ GraceEnds(s)
         \/ WorkerDies(s) \/ CommandExits(s) \/ Expire(s)
  PROVE  Honest'
<1> USE DEF Honest, KillsDated, NoEarlyCommand, CheckStops, EarnedByVerdict,
            SaysCompleted, LaunchedOnce
<1>1. CASE HeartbeatReads(s)
  BY <1>1 DEF HeartbeatReads, Supervising, TypeOK, files, mgrVars
<1>2. CASE ControlPoll(s)
  BY <1>2 DEF ControlPoll, Supervising, Alive, Terminate, TypeOK, files, mgrVars
<1>3. CASE WorkerTimesOut(s)
  BY <1>3 DEF WorkerTimesOut, Goto, Alive, Terminate, TypeOK, files, mgrVars
<1>4. CASE GraceEnds(s)
  BY <1>4 DEF GraceEnds, Alive, Terminate, TypeOK, files, mgrVars
<1>5. CASE WorkerDies(s)
  BY <1>5 DEF WorkerDies, Launched, TypeOK, files, mgrVars
<1>6. CASE CommandExits(s)
  BY <1>6 DEF CommandExits, Alive, TypeOK, files, mgrVars
<1>7. CASE Expire(s)
  BY <1>7 DEF Expire, TypeOK, workerVars, mgrVars
<1> QED BY <1>1, <1>2, <1>3, <1>4, <1>5, <1>6, <1>7

LEMMA ManagerHonest ==
  ASSUME TypeOK, Honest, NEW s \in Task,
         \/ Create(s) \/ CreateTorn(s) \/ Kill(s) \/ Recover(s) \/ Publish(s) \/ MgrStep(s)
  PROVE  Honest'
<1> USE DEF Honest, KillsDated, NoEarlyCommand, CheckStops, EarnedByVerdict,
            SaysCompleted, LaunchedOnce
<1>0. NewRuntime \in Runtime /\ NewRuntime.status = "created"
  BY RuntimeRecords DEF NewRuntime, Absent
<1>1. CASE Create(s)
  <2>1. \A u \in Task : runtime'[u] = IF u = s THEN NewRuntime ELSE runtime[u]
    BY <1>0, <1>1, Written DEF Create
  <2> QED BY <1>0, <1>1, <2>1 DEF Create, TypeOK, workerVars
<1>2. CASE CreateTorn(s)
  BY <1>0, <1>2 DEF CreateTorn, TypeOK, workerVars, Idle
<1>3. CASE Kill(s)
  BY <1>3 DEF Kill, TypeOK, files, workerVars
<1>4. CASE Recover(s)
  BY <1>4 DEF Recover, TypeOK, files, workerVars
<1>5. CASE Publish(s)
  <2>1. TerminalReason(runtime[s]) = "completed" => runtime[s].status = "completed"
    BY DEF TerminalReason
  <2> QED BY <1>5, <2>1 DEF Publish, TypeOK, files, workerVars
<1>6. CASE Launch(s)
  <2>1. CASE worker' = [worker EXCEPT ![s] = "start"] /\ mgr' = [op |-> "reread", task |-> s]
             /\ UNCHANGED <<runtime, progress>>
    BY <1>6, <2>1 DEF Launch, TypeOK
  <2>2. CASE WriteRuntime(s, Finished(runtime[s], "failed")) /\ mgr' = Idle /\ UNCHANGED worker
    <3>1. \A u \in Task : runtime'[u].status = IF u = s THEN "failed" ELSE runtime[u].status
      BY <2>2, FinishedStatus, Written DEF TypeOK, Terminal
    <3> QED BY <1>6, <2>2, <3>1 DEF Launch, TypeOK, Idle
  <2> QED BY <1>6, <2>1, <2>2 DEF Launch
<1>7. CASE CreateRereads(s)
  BY <1>7 DEF CreateRereads, TypeOK, files, workerVars, Idle
<1>8. CASE CreateMarksStarting(s)
  <2> DEFINE r == [mcopy EXCEPT !.status = "starting", !.pid = TRUE]
  <2>1. r \in Runtime /\ r.status = "starting"
    BY RuntimeRecords DEF TypeOK, Runtime
  <2>2. WriteRuntime(s, r)
    BY <1>8 DEF CreateMarksStarting
  <2> HIDE DEF r
  <2>3. \A u \in Task : runtime'[u] = IF u = s THEN r ELSE runtime[u]
    BY <2>1, <2>2, Written
  <2> QED BY <1>8, <2>1, <2>3 DEF CreateMarksStarting, TypeOK, workerVars, Idle
<1>9. CASE KillRequested(s)
  BY <1>9 DEF KillRequested, TypeOK, Idle
<1>10. CASE RecoverRereads(s)
  BY <1>10 DEF RecoverRereads, TypeOK, files, workerVars, Idle
<1>11. CASE RecoverSettles(s)
  <2> DEFINE v == IF kills[s] > 0 THEN "killed" ELSE "lost"
  <2>1. v \in Terminal /\ v # "completed" /\ v # "absent"
    BY DEF Terminal
  <2>2. WriteRuntime(s, Finished(mcopy, v))
    BY <1>11 DEF RecoverSettles
  <2> HIDE DEF v
  <2>3. \A u \in Task : runtime'[u].status = IF u = s THEN v ELSE runtime[u].status
    BY <2>1, <2>2, FinishedStatus, Written DEF TypeOK
  <2> QED BY <1>11, <2>1, <2>3 DEF RecoverSettles, TypeOK, workerVars, Idle
<1> QED BY <1>1, <1>2, <1>3, <1>4, <1>5, <1>6, <1>7, <1>8, <1>9, <1>10, <1>11
        DEF MgrStep

LEMMA NextHonest == TypeOK /\ Honest /\ [Next]_vars => Honest'
<1> SUFFICES ASSUME TypeOK, Honest, [Next]_vars PROVE Honest'
  OBVIOUS
<1> USE DEF Honest, KillsDated, NoEarlyCommand, CheckStops, EarnedByVerdict,
            SaysCompleted, LaunchedOnce
<1>1. CASE UNCHANGED vars
  BY <1>1 DEF vars, files, workerVars, mgrVars
<1>2. CASE CliDies
  BY <1>2 DEF CliDies, Idle, files, workerVars
<1> QED BY <1>1, <1>2, WorkerHonest, AroundHonest, ManagerHonest DEF Next, TaskStep

\* completed is only ever said of a task whose command succeeded in time with no
\* kill request before its end.
THEOREM CompletionsAreEarned == Spec => []CompletedIsEarned
<1>1. Init => TypeOK /\ Honest
  BY InitTyped, InitHonest
<1>2. (TypeOK /\ Honest) /\ [Next]_vars => (TypeOK /\ Honest)'
  BY NextTyped, NextHonest
<1>3. Honest => CompletedIsEarned
  BY DEF Honest, EarnedByVerdict, SaysCompleted, CompletedIsEarned
<1> QED BY <1>1, <1>2, <1>3, PTL DEF Spec

\* A kill request that is there when the worker looks keeps the command from
\* starting.
THEOREM EarlyKillsWin == Spec => []KilledBeforeStart
<1>1. Init => TypeOK /\ Honest
  BY InitTyped, InitHonest
<1>2. (TypeOK /\ Honest) /\ [Next]_vars => (TypeOK /\ Honest)'
  BY NextTyped, NextHonest
<1>3. Honest => KilledBeforeStart
  BY DEF Honest, CheckStops, KilledBeforeStart
<1> QED BY <1>1, <1>2, <1>3, PTL DEF Spec

---------------------------------------------------------------------------
(* Where live workers do not miss their heartbeats. *)

\* A task is stale only if no worker supervises it and none is being started.
StaleIsDead ==
  \A t \in Task : progress[t] = "stale" => ~Launched(t) /\ ~Creating(t)

\* recover only settles a task that is stale and not terminal.
SettleIsNeeded ==
  \A t \in Task : mgr = [op |-> "settle", task |-> t] =>
    /\ progress[t] = "stale" /\ ~IsTerminal(runtime[t])
    /\ runtime[t].status # "absent"

\* The record of a task with a worker is not terminal, nor is the copy the worker
\* holds before its verdict.
LiveIsOpen ==
  \A t \in Task :
    /\ Launched(t) => /\ ~IsTerminal(runtime[t])
                      /\ worker[t] # "verdict" => ~IsTerminal(copy[t])
    /\ worker[t] = "none" => ~IsTerminal(copy[t])
    /\ mgr = [op |-> "launch", task |-> t] => ~IsTerminal(runtime[t])

Timely == StaleIsDead /\ SettleIsNeeded /\ LiveIsOpen

\* What write_runtime does to the two files.
LEMMA WrittenBoth ==
  ASSUME TypeOK, NEW t \in Task, NEW r \in Runtime, WriteRuntime(t, r)
  PROVE  /\ \A u \in Task : u # t => runtime'[u] = runtime[u] /\ progress'[u] = progress[u]
         /\ runtime'[t] = r
         /\ ~IsTerminal(r) => progress'[t] = "recent"
         /\ IsTerminal(r) => progress'[t] = progress[t]
<1>1. \A u \in Task : progress'[u] =
        IF u = t THEN (IF IsTerminal(r) THEN progress[t] ELSE "recent") ELSE progress[u]
  BY DEF TypeOK, WriteRuntime
<1>2. \A u \in Task : runtime'[u] = IF u = t THEN r ELSE runtime[u]
  BY Written
<1> QED BY <1>1, <1>2

LEMMA InitTimely == Init => Timely
  BY DEF Init, Absent, IsTerminal, Terminal, Launched, Creating, Timely, StaleIsDead,
         SettleIsNeeded, LiveIsOpen

\* A worker step that writes no file and reads or keeps the worker's copy.
LEMMA QuietWorkerTimely ==
  ASSUME TypeOK, Timely, NEW s \in Task, Launched(s),
         \A u \in Task : u # s => worker'[u] = worker[u] /\ copy'[u] = copy[u],
         worker'[s] = "verdict" \/ ~IsTerminal(copy'[s]) \/ worker'[s] \in {"exited", "dead"},
         worker'[s] # "none", UNCHANGED <<files, mgr>>
  PROVE  Timely'
  BY DEF Timely, StaleIsDead, SettleIsNeeded, LiveIsOpen, Launched, Creating, IsTerminal, files

\* A worker step that writes the record r.
LEMMA WritingWorkerTimely ==
  ASSUME TypeOK, Honest, Timely, NEW s \in Task, Launched(s),
         NEW r \in Runtime, WriteRuntime(s, r),
         \A u \in Task : u # s => worker'[u] = worker[u] /\ copy'[u] = copy[u],
         \/ worker'[s] = "exited"
         \/ worker'[s] # "none" /\ ~IsTerminal(r) /\ ~IsTerminal(copy'[s]),
         UNCHANGED mgr
  PROVE  Timely'
<1>1. /\ \A u \in Task : u # s => runtime'[u] = runtime[u] /\ progress'[u] = progress[u]
      /\ runtime'[s] = r
      /\ ~IsTerminal(r) => progress'[s] = "recent"
      /\ IsTerminal(r) => progress'[s] = progress[s]
  BY WrittenBoth
<1>2. progress[s] # "stale" /\ mgr # [op |-> "settle", task |-> s]
      /\ progress'[s] # "stale"
  BY <1>1 DEF Timely, StaleIsDead, SettleIsNeeded
<1>3. StaleIsDead'
  BY <1>1, <1>2 DEF Timely, StaleIsDead, Launched, Creating
<1>4. SettleIsNeeded'
  BY <1>1, <1>2 DEF Timely, SettleIsNeeded, IsTerminal
<1>5. LiveIsOpen'
  <2> SUFFICES ASSUME NEW u \in Task
               PROVE  /\ Launched(u)' => /\ ~IsTerminal(runtime[u])'
                                         /\ worker'[u] # "verdict" => ~IsTerminal(copy[u])'
                      /\ worker'[u] = "none" => ~IsTerminal(copy[u])'
                      /\ mgr' = [op |-> "launch", task |-> u] => ~IsTerminal(runtime[u])'
    BY DEF LiveIsOpen
  <2>1. CASE u # s
    BY <1>1, <2>1 DEF Timely, LiveIsOpen, Launched, IsTerminal
  <2>2. CASE u = s
    <3>1. mgr # [op |-> "launch", task |-> s]
      BY DEF Honest, LaunchedOnce, Launched
    <3> QED BY <1>1, <2>2, <3>1 DEF Launched, IsTerminal
  <2> QED BY <2>1, <2>2
<1> QED BY <1>3, <1>4, <1>5 DEF Timely

LEMMA WorkerTimely ==
  ASSUME TypeOK, Honest, Timely, NEW s \in Task, WorkerStep(s)
  PROVE  Timely'
<1>0. ~IsTerminal(copy[s]) \/ worker[s] = "verdict" \/ ~Launched(s)
  BY DEF Timely, LiveIsOpen
<1>1. CASE WorkerReads(s)
  <2>1. Launched(s)
    BY <1>1 DEF WorkerReads, Goto, Launched
  <2>2. ~IsTerminal(runtime[s])
    BY <2>1 DEF Timely, LiveIsOpen
  <2> QED BY <1>1, <2>1, <2>2, QuietWorkerTimely
          DEF WorkerReads, Goto, TypeOK, IsTerminal, mgrVars
<1>2. CASE WorkerStarting(s)
  <2> DEFINE r == [copy[s] EXCEPT !.status = "starting", !.pid = TRUE]
  <2>1. r \in Runtime /\ ~IsTerminal(r)
    BY RuntimeRecords, OpenRecords DEF TypeOK
  <2>2. copy' = [copy EXCEPT ![s] = r] /\ WriteRuntime(s, r) /\ copy'[s] = r
    BY <1>2 DEF WorkerStarting, TypeOK
  <2>3. Launched(s)
    BY <1>2 DEF WorkerStarting, Goto, Launched
  <2> HIDE DEF r
  <2>4. /\ \A u \in Task : u # s => worker'[u] = worker[u] /\ copy'[u] = copy[u]
        /\ worker'[s] # "none" /\ ~IsTerminal(copy'[s]) /\ UNCHANGED mgr
    BY <1>2, <2>1, <2>2 DEF WorkerStarting, Goto, TypeOK, mgrVars
  <2> QED BY <2>1, <2>2, <2>3, <2>4, WritingWorkerTimely
<1>3. CASE WorkerChecksControl(s)
  <2>1. Launched(s)
    BY <1>3 DEF WorkerChecksControl, Goto, Launched
  <2> QED BY <1>0, <1>3, <2>1, QuietWorkerTimely
          DEF WorkerChecksControl, Goto, TypeOK, mgrVars
<1>4. CASE WorkerStops(s)
  <2>1. Finished(copy[s], "killed") \in Runtime
    BY RuntimeRecords DEF TypeOK, Terminal
  <2>2. Launched(s)
    BY <1>4 DEF WorkerStops, Goto, Launched
  <2> QED BY <1>4, <2>1, <2>2, WritingWorkerTimely DEF WorkerStops, Goto, TypeOK, mgrVars
<1>5. CASE WorkerSpawns(s)
  <2>1. Launched(s) /\ worker[s] # "verdict" /\ worker'[s] \in {"spawned", "failing"}
        /\ \A u \in Task : u # s => worker'[u] = worker[u]
    BY <1>5 DEF WorkerSpawns, Goto, Launched, TypeOK
  <2>2. UNCHANGED <<files, copy, mgr>>
    BY <1>5 DEF WorkerSpawns, mgrVars
  <2> QED BY <1>0, <2>1, <2>2, QuietWorkerTimely
<1>6. CASE WorkerFailing(s)
  <2>1. Launched(s)
    BY <1>6 DEF WorkerFailing, Goto, Launched
  <2>2. ~IsTerminal(runtime[s])
    BY <2>1 DEF Timely, LiveIsOpen
  <2> QED BY <1>6, <2>1, <2>2, QuietWorkerTimely
          DEF WorkerFailing, Goto, TypeOK, IsTerminal, mgrVars
<1>7. CASE WorkerFails(s)
  <2>1. Finished(copy[s], "failed") \in Runtime
    BY RuntimeRecords DEF TypeOK, Terminal
  <2>2. Launched(s)
    BY <1>7 DEF WorkerFails, Goto, Launched
  <2> QED BY <1>7, <2>1, <2>2, WritingWorkerTimely DEF WorkerFails, Goto, TypeOK, mgrVars
<1>8. CASE WorkerRereads(s)
  <2>1. Launched(s)
    BY <1>8 DEF WorkerRereads, Goto, Launched
  <2>2. ~IsTerminal(runtime[s])
    BY <2>1 DEF Timely, LiveIsOpen
  <2> QED BY <1>8, <2>1, <2>2, QuietWorkerTimely
          DEF WorkerRereads, Goto, TypeOK, IsTerminal, mgrVars
<1>9. CASE WorkerMarksRunning(s)
  <2> DEFINE r == [copy[s] EXCEPT !.status = "running", !.child = TRUE]
  <2>1. r \in Runtime /\ ~IsTerminal(r)
    BY RuntimeRecords, OpenRecords DEF TypeOK
  <2>2. WriteRuntime(s, r)
    BY <1>9 DEF WorkerMarksRunning
  <2>3. Launched(s) /\ worker[s] # "verdict"
    BY <1>9 DEF WorkerMarksRunning, Goto, Launched
  <2> HIDE DEF r
  <2>4. /\ \A u \in Task : u # s => worker'[u] = worker[u] /\ copy'[u] = copy[u]
        /\ worker'[s] # "none" /\ ~IsTerminal(copy'[s]) /\ UNCHANGED mgr
    BY <1>0, <1>9, <2>3 DEF WorkerMarksRunning, Goto, TypeOK, mgrVars
  <2> QED BY <2>1, <2>2, <2>3, <2>4, WritingWorkerTimely
<1>10. CASE HeartbeatWrites(s)
  <2>1. copy[s] \in Runtime /\ Launched(s) /\ worker[s] # "verdict" /\ worker[s] # "none"
    BY <1>10 DEF HeartbeatWrites, TypeOK, Launched
  <2> QED BY <1>0, <1>10, <2>1, WritingWorkerTimely DEF HeartbeatWrites, mgrVars
<1>11. CASE WorkerSeesExit(s)
  <2>1. Launched(s) /\ worker[s] # "verdict"
    BY <1>11 DEF WorkerSeesExit, Supervising, Launched
  <2> QED BY <1>0, <1>11, <2>1, QuietWorkerTimely DEF WorkerSeesExit, TypeOK, mgrVars
<1>12. CASE WorkerDecides(s)
  <2>1. Launched(s)
    BY <1>12 DEF WorkerDecides, Goto, Launched
  <2> QED BY <1>12, <2>1, QuietWorkerTimely DEF WorkerDecides, Goto, TypeOK, mgrVars
<1>13. CASE WorkerReports(s)
  <2>1. copy[s] \in Runtime /\ Launched(s)
    BY <1>13 DEF WorkerReports, Goto, TypeOK, Launched
  <2> QED BY <1>13, <2>1, WritingWorkerTimely DEF WorkerReports, Goto, TypeOK, mgrVars
<1> QED BY <1>1, <1>2, <1>3, <1>4, <1>5, <1>6, <1>7, <1>8, <1>9, <1>10,
           <1>11, <1>12, <1>13 DEF WorkerStep

LEMMA AroundTimely ==
  ASSUME TypeOK, Timely, ~Stalls, NEW s \in Task,
         \/ HeartbeatReads(s) \/ ControlPoll(s) \/ WorkerTimesOut(s) \/ GraceEnds(s)
         \/ WorkerDies(s) \/ CommandExits(s) \/ Expire(s)
  PROVE  Timely'
<1> USE DEF Timely, StaleIsDead, SettleIsNeeded, LiveIsOpen, Launched, Creating, IsTerminal
<1>1. CASE HeartbeatReads(s)
  BY <1>1 DEF HeartbeatReads, Supervising, TypeOK, files, mgrVars
<1>2. CASE ControlPoll(s)
  BY <1>2 DEF ControlPoll, files, mgrVars
<1>3. CASE WorkerTimesOut(s)
  BY <1>3 DEF WorkerTimesOut, Goto, TypeOK, files, mgrVars
<1>4. CASE GraceEnds(s)
  BY <1>4 DEF GraceEnds, files, mgrVars
<1>5. CASE WorkerDies(s)
  BY <1>5 DEF WorkerDies, TypeOK, files, mgrVars
<1>6. CASE CommandExits(s)
  BY <1>6 DEF CommandExits, files, mgrVars
<1>7. CASE Expire(s)
  BY <1>7 DEF Expire, TypeOK, workerVars, mgrVars
<1> QED BY <1>1, <1>2, <1>3, <1>4, <1>5, <1>6, <1>7

LEMMA ManagerTimely ==
  ASSUME TypeOK, Honest, Timely, NEW s \in Task,
         \/ Create(s) \/ CreateTorn(s) \/ Kill(s) \/ Recover(s) \/ Publish(s) \/ MgrStep(s)
  PROVE  Timely'
<1> USE DEF Timely, StaleIsDead, SettleIsNeeded, LiveIsOpen, Launched, Creating
<1>0. NewRuntime \in Runtime /\ ~IsTerminal(NewRuntime)
  BY RuntimeRecords DEF NewRuntime, Absent, IsTerminal, Terminal
<1>1. CASE Create(s)
  <2>1. WriteRuntime(s, NewRuntime)
    BY <1>1 DEF Create
  <2>2. /\ \A u \in Task : u # s => runtime'[u] = runtime[u] /\ progress'[u] = progress[u]
        /\ runtime'[s] = NewRuntime /\ progress'[s] = "recent"
    BY <1>0, <2>1, WrittenBoth
  <2> QED BY <1>0, <1>1, <2>2 DEF Create, workerVars, Idle, IsTerminal
<1>2. CASE CreateTorn(s)
  BY <1>0, <1>2 DEF CreateTorn, TypeOK, workerVars, Idle, IsTerminal
<1>3. CASE Kill(s)
  BY <1>3 DEF Kill, files, workerVars, IsTerminal
<1>4. CASE Recover(s)
  BY <1>4 DEF Recover, files, workerVars, IsTerminal
<1>5. CASE Publish(s)
  BY <1>5 DEF Publish, files, workerVars, IsTerminal
<1>6. CASE Launch(s)
  <2>0. progress[s] # "stale" /\ ~IsTerminal(runtime[s]) /\ worker[s] = "none"
    BY <1>6 DEF Launch, Honest, LaunchedOnce
  <2>1. CASE worker' = [worker EXCEPT ![s] = "start"] /\ mgr' = [op |-> "reread", task |-> s]
             /\ UNCHANGED <<runtime, progress>>
    <3>1. UNCHANGED copy /\ ~IsTerminal(copy[s])
      BY <1>6, <2>0 DEF Launch
    <3> QED BY <1>6, <2>0, <2>1, <3>1 DEF TypeOK, IsTerminal, Launch
  <2>2. CASE WriteRuntime(s, Finished(runtime[s], "failed")) /\ mgr' = Idle /\ UNCHANGED worker
    <3>1. Finished(runtime[s], "failed") \in Runtime
      BY RuntimeRecords DEF TypeOK, Terminal
    <3>2. /\ \A u \in Task : u # s => runtime'[u] = runtime[u] /\ progress'[u] = progress[u]
          /\ progress'[s] # "stale"
      BY <2>0, <2>2, <3>1, WrittenBoth
    <3>3. UNCHANGED copy /\ mgr' = [op |-> "idle"]
      BY <1>6, <2>2 DEF Launch, Idle
    <3> QED BY <2>0, <2>2, <3>2, <3>3 DEF IsTerminal
  <2> QED BY <1>6, <2>1, <2>2 DEF Launch
<1>7. CASE CreateRereads(s)
  BY <1>7 DEF CreateRereads, files, workerVars, Idle, IsTerminal
<1>8. CASE CreateMarksStarting(s)
  <2> DEFINE r == [mcopy EXCEPT !.status = "starting", !.pid = TRUE]
  <2>1. r \in Runtime /\ ~IsTerminal(r)
    BY RuntimeRecords, OpenRecords DEF TypeOK
  <2>2. WriteRuntime(s, r)
    BY <1>8 DEF CreateMarksStarting
  <2> HIDE DEF r
  <2>3. /\ \A u \in Task : u # s => runtime'[u] = runtime[u] /\ progress'[u] = progress[u]
        /\ runtime'[s] = r /\ progress'[s] = "recent"
    BY <2>1, <2>2, WrittenBoth
  <2> QED BY <1>8, <2>1, <2>3 DEF CreateMarksStarting, workerVars, Idle, IsTerminal
<1>9. CASE KillRequested(s)
  BY <1>9 DEF KillRequested, Idle, IsTerminal
<1>10. CASE RecoverRereads(s)
  BY <1>10 DEF RecoverRereads, Lapsed, Active, files, workerVars, Idle, IsTerminal
<1>11. CASE RecoverSettles(s)
  <2> DEFINE v == IF kills[s] > 0 THEN "killed" ELSE "lost"
  <2>1. Finished(mcopy, v) \in Runtime /\ v \in Terminal
    BY RuntimeRecords DEF TypeOK, Terminal
  <2>2. WriteRuntime(s, Finished(mcopy, v))
    BY <1>11 DEF RecoverSettles
  <2> HIDE DEF v
  <2>3. /\ \A u \in Task : u # s => runtime'[u] = runtime[u] /\ progress'[u] = progress[u]
        /\ IsTerminal(Finished(mcopy, v)) => progress'[s] = progress[s]
        /\ ~IsTerminal(Finished(mcopy, v)) => progress'[s] = "recent"
    BY <2>1, <2>2, WrittenBoth
  <2>4. ~Launched(s) /\ mgr' = [op |-> "idle"] /\ UNCHANGED <<worker, copy>>
    BY <1>11 DEF RecoverSettles, workerVars, Idle
  <2> QED BY <2>3, <2>4 DEF IsTerminal
<1> QED BY <1>1, <1>2, <1>3, <1>4, <1>5, <1>6, <1>7, <1>8, <1>9, <1>10, <1>11
        DEF MgrStep

LEMMA NextTimely == ~Stalls /\ TypeOK /\ Honest /\ Timely /\ [Next]_vars => Timely'
<1> SUFFICES ASSUME ~Stalls, TypeOK, Honest, Timely, [Next]_vars PROVE Timely'
  OBVIOUS
<1> USE DEF Timely, StaleIsDead, SettleIsNeeded, LiveIsOpen, Launched, Creating, IsTerminal
<1>1. CASE UNCHANGED vars
  BY <1>1 DEF vars, files, workerVars, mgrVars
<1>2. CASE CliDies
  BY <1>2 DEF CliDies, Idle, files, workerVars
<1> QED BY <1>1, <1>2, WorkerTimely, AroundTimely, ManagerTimely DEF Next, TaskStep

\* Where live workers do not miss their heartbeats, lost is only said of a task
\* without a worker.
THEOREM LostTasksAreGone == ASSUME ~Stalls PROVE Spec => []LostMeansGone
<1>1. Init => TypeOK /\ Honest /\ Timely
  BY InitTyped, InitHonest, InitTimely
<1>2. (TypeOK /\ Honest /\ Timely) /\ [Next]_vars => (TypeOK /\ Honest /\ Timely)'
  BY NextTyped, NextHonest, NextTimely
<1>3. Timely => LostMeansGone
  BY DEF Timely, LiveIsOpen, LostMeansGone, IsTerminal, Terminal
<1> QED BY <1>1, <1>2, <1>3, PTL DEF Spec

---------------------------------------------------------------------------
(* A settled task stays as it is. *)

Settled(t) == IsTerminal(runtime[t]) /\ ~Launched(t) /\ ~Creating(t)

\* A step on another task.
LEMMA OthersKeep ==
  ASSUME TypeOK, NEW s \in Task, NEW t \in Task, s # t,
         TaskStep(s)
  PROVE  /\ runtime'[t] = runtime[t] /\ worker'[t] = worker[t]
         /\ mgr' = mgr \/ ~Creating(t)'
         /\ published'[t] = published[t]
<1>1. CASE WorkerStep(s)
  BY <1>1 DEF WorkerStep, WorkerReads, WorkerStarting, WorkerChecksControl, WorkerStops,
       WorkerSpawns, WorkerFailing, WorkerFails, WorkerRereads, WorkerMarksRunning,
       HeartbeatWrites, WorkerSeesExit, WorkerDecides, WorkerReports, Goto, WriteRuntime,
       TypeOK, files, mgrVars
<1>2. CASE \/ HeartbeatReads(s) \/ ControlPoll(s) \/ WorkerTimesOut(s)
           \/ GraceEnds(s) \/ WorkerDies(s) \/ CommandExits(s) \/ Expire(s)
  BY <1>2 DEF HeartbeatReads, ControlPoll, WorkerTimesOut, GraceEnds, WorkerDies,
       CommandExits, Expire, Goto, TypeOK, files, workerVars, mgrVars
<1>3. CASE Create(s) \/ CreateTorn(s) \/ Kill(s) \/ Recover(s) \/ Publish(s)
  BY <1>3 DEF Create, CreateTorn, Kill, Recover, Publish, WriteRuntime, Creating, TypeOK,
       files, workerVars
<1>4. CASE MgrStep(s)
  BY <1>4 DEF MgrStep, Launch, CreateRereads, CreateMarksStarting, KillRequested,
       RecoverRereads, RecoverSettles, WriteRuntime, Creating, Idle, TypeOK, files, workerVars
<1> QED BY <1>1, <1>2, <1>3, <1>4 DEF TaskStep

\* Neither its record, nor its worker, nor the manager moves again, except that
\* its outcome may be published.
LEMMA SettledStays ==
  ASSUME TypeOK, Honest, Timely, [Next]_vars, NEW t \in Task, Settled(t)
  PROVE  /\ Settled(t)' /\ runtime'[t] = runtime[t]
         /\ published'[t] \in {published[t], published[t] \cup {TerminalReason(runtime[t])}}
<1> SUFFICES /\ runtime'[t] = runtime[t] /\ Launched(t)' = Launched(t) /\ ~Creating(t)'
             /\ published'[t] \in {published[t], published[t] \cup {TerminalReason(runtime[t])}}
  BY DEF Settled, IsTerminal
<1>1. worker[t] \in {"none", "exited", "dead"} /\ ~Creating(t) /\ runtime[t].status \in Terminal
  BY DEF Settled, Launched, IsTerminal
<1>2. runtime[t].status # "absent" /\ mgr # [op |-> "settle", task |-> t]
  BY <1>1 DEF Terminal, Timely, SettleIsNeeded, IsTerminal
<1>3. CASE UNCHANGED vars
  BY <1>1, <1>3 DEF vars, files, workerVars, mgrVars, Launched, Creating
<1>4. CASE CliDies
  BY <1>1, <1>4 DEF CliDies, Idle, files, workerVars, Launched, Creating
<1>5. ASSUME NEW s \in Task, s # t,
         TaskStep(s)
      PROVE  /\ runtime'[t] = runtime[t] /\ Launched(t)' = Launched(t) /\ ~Creating(t)'
             /\ published'[t] = published[t]
  BY <1>1, <1>5, OthersKeep DEF Launched, Creating
<1>6. CASE WorkerStep(t)
  BY <1>1, <1>6 DEF WorkerStep, WorkerReads, WorkerStarting, WorkerChecksControl, WorkerStops,
       WorkerSpawns, WorkerFailing, WorkerFails, WorkerRereads, WorkerMarksRunning,
       HeartbeatWrites, WorkerSeesExit, Supervising, WorkerDecides, WorkerReports, Goto
<1>7. CASE \/ HeartbeatReads(t) \/ ControlPoll(t) \/ WorkerTimesOut(t)
           \/ GraceEnds(t) \/ WorkerDies(t)
  BY <1>1, <1>7 DEF HeartbeatReads, ControlPoll, WorkerTimesOut, GraceEnds, WorkerDies,
       Supervising, Goto, Launched
<1>8. CASE CommandExits(t) \/ Expire(t)
  BY <1>1, <1>8 DEF CommandExits, Expire, files, workerVars, mgrVars, Launched, Creating
<1>9. CASE Create(t) \/ CreateTorn(t)
  BY <1>2, <1>9 DEF Create, CreateTorn
<1>10. CASE Kill(t) \/ Recover(t) \/ Publish(t)
  BY <1>1, <1>10 DEF Kill, Recover, Publish, files, workerVars, Launched, Creating, TypeOK
<1>11. CASE Launch(t) \/ CreateRereads(t) \/ CreateMarksStarting(t) \/ RecoverSettles(t)
  BY <1>1, <1>2, <1>11 DEF Launch, CreateRereads, CreateMarksStarting, RecoverSettles, Creating
<1>12. CASE KillRequested(t) \/ RecoverRereads(t)
  BY <1>1, <1>12 DEF KillRequested, RecoverRereads, files, workerVars, Launched, Creating, Idle
<1> QED BY <1>3, <1>4, <1>5, <1>6, <1>7, <1>8, <1>9, <1>10, <1>11, <1>12 DEF Next, TaskStep, MgrStep

\* Where live workers do not miss their heartbeats, the outcome of a task whose
\* worker is gone is final.
THEOREM VerdictsAreStable == ASSUME ~Stalls PROVE Spec => VerdictStable
<1>1. Init => TypeOK /\ Honest /\ Timely
  BY InitTyped, InitHonest, InitTimely
<1>2. (TypeOK /\ Honest /\ Timely) /\ [Next]_vars => (TypeOK /\ Honest /\ Timely)'
  BY NextTyped, NextHonest, NextTimely
<1>3. (TypeOK /\ Honest /\ Timely) /\ [Next]_vars =>
        [\A t \in Task :
           (Gone(t) /\ ~Creating(t) /\ IsTerminal(runtime[t])) => runtime'[t] = runtime[t]]_vars
  BY SettledStays DEF Settled, Gone, Launched
<1> QED BY <1>1, <1>2, <1>3, PTL DEF Spec, VerdictStable

\* Whatever was published of a task is its outcome, and the task is settled.
PublishedIsFinal ==
  \A t \in Task : published[t] # {} =>
    Settled(t) /\ published[t] = {TerminalReason(runtime[t])}

LEMMA NextPublished ==
  ASSUME TypeOK, Honest, Timely, PublishedIsFinal, [Next]_vars
  PROVE  PublishedIsFinal'
<1> SUFFICES ASSUME NEW t \in Task, published'[t] # {}
             PROVE  Settled(t)' /\ published'[t] = {TerminalReason(runtime'[t])}
  BY DEF PublishedIsFinal, TerminalReason
<1>1. CASE published[t] # {}
  <2>1. Settled(t) /\ published[t] = {TerminalReason(runtime[t])}
    BY <1>1 DEF PublishedIsFinal
  <2> QED BY <2>1, SettledStays
<1>2. CASE published[t] = {}
  <2>1. Publish(t)
    <3>1. CASE UNCHANGED vars
      BY <1>2, <3>1 DEF vars, mgrVars
    <3>2. CASE CliDies
      BY <1>2, <3>2 DEF CliDies
    <3> SUFFICES ASSUME ~UNCHANGED vars, ~CliDies PROVE Publish(t)
      BY <3>1, <3>2
    <3>3. PICK s \in Task : TaskStep(s)
      BY DEF Next
    <3>4. s = t
      BY <1>2, <3>3, OthersKeep
    <3>5. CASE WorkerStep(t)
      BY <1>2, <3>5 DEF WorkerStep, WorkerReads, WorkerStarting, WorkerChecksControl,
           WorkerStops, WorkerSpawns, WorkerFailing, WorkerFails, WorkerRereads,
           WorkerMarksRunning, HeartbeatWrites, WorkerSeesExit, WorkerDecides,
           WorkerReports, mgrVars
    <3>6. CASE \/ HeartbeatReads(t) \/ ControlPoll(t) \/ WorkerTimesOut(t)
               \/ GraceEnds(t) \/ WorkerDies(t) \/ CommandExits(t) \/ Expire(t)
      BY <1>2, <3>6 DEF HeartbeatReads, ControlPoll, WorkerTimesOut, GraceEnds, WorkerDies,
           CommandExits, Expire, mgrVars
    <3>7. CASE Create(t) \/ CreateTorn(t) \/ Kill(t) \/ Recover(t) \/ MgrStep(t)
      BY <1>2, <3>7 DEF Create, CreateTorn, Kill, Recover, MgrStep, Launch, CreateRereads,
           CreateMarksStarting, KillRequested, RecoverRereads, RecoverSettles
    <3> QED BY <3>3, <3>4, <3>5, <3>6, <3>7 DEF TaskStep
  <2>2. Settled(t)
    BY <2>1 DEF Publish, Publishable, Settled, Timely, LiveIsOpen, Creating, Idle
  <2>3. published'[t] = {TerminalReason(runtime[t])}
    BY <1>2, <2>1 DEF Publish, TypeOK
  <2> QED BY <2>2, <2>3, SettledStays
<1> QED BY <1>1, <1>2

\* Where live workers do not miss their heartbeats, a user is told one outcome of
\* a task at most.
THEOREM NotificationsAreUnique == ASSUME ~Stalls PROVE Spec => []OneNotification
<1> DEFINE Inv == TypeOK /\ Honest /\ Timely /\ PublishedIsFinal
<1>1. Init => Inv
  BY InitTyped, InitHonest, InitTimely DEF Init, PublishedIsFinal
<1>2. Inv /\ [Next]_vars => Inv'
  BY NextTyped, NextHonest, NextTimely, NextPublished
<1>3. PublishedIsFinal => OneNotification
  <2> SUFFICES ASSUME PublishedIsFinal, NEW t \in Task PROVE Cardinality(published[t]) <= 1
    BY DEF OneNotification
  <2>1. Cardinality({}) = 0 /\ Cardinality({TerminalReason(runtime[t])}) = 1
    BY FS_EmptySet, FS_Singleton
  <2> QED BY <2>1 DEF PublishedIsFinal
<1> QED BY <1>1, <1>2, <1>3, PTL DEF Spec

---------------------------------------------------------------------------
(* The limit. *)

Pending == {t \in Task : Creating(t)}

\* The tasks that hold a slot, with the one that is being created.
LimitKept ==
  /\ IsFiniteSet(Active \cup Pending)
  /\ Cardinality(Active \cup Pending) <= MaxRunning

\* Only create_bash_task takes a slot.
LEMMA NoNewSlot ==
  ASSUME TypeOK, Honest, Timely, [Next]_vars,
         \A s \in Task : ~Create(s) /\ ~CreateTorn(s),
         NEW t \in Task, t \notin Active \cup Pending
  PROVE  t \notin (Active \cup Pending)'
<1>1. ~Creating(t) /\ runtime[t].status \in Terminal \cup {"absent"}
  BY DEF Active, Pending
<1>2. CASE IsTerminal(runtime[t])
  <2>1. Settled(t)
    BY <1>1, <1>2 DEF Settled, Timely, LiveIsOpen
  <2>2. Settled(t)'
    BY <2>1, SettledStays
  <2> QED BY <2>2 DEF Settled, Active, Pending, IsTerminal, Creating
<1>3. CASE runtime[t].status = "absent"
  <2>1. worker[t] = "none" /\ mgr # [op |-> "settle", task |-> t]
    BY <1>3 DEF Honest, LaunchedOnce, Timely, SettleIsNeeded
  <2>2. runtime'[t] = runtime[t] /\ ~Creating(t)'
    <3>1. CASE UNCHANGED vars
      BY <1>1, <3>1 DEF vars, files, mgrVars, Creating
    <3>2. CASE CliDies
      BY <1>1, <3>2 DEF CliDies, Idle, files, Creating
    <3> SUFFICES ASSUME ~UNCHANGED vars, ~CliDies PROVE runtime'[t] = runtime[t] /\ ~Creating(t)'
      BY <3>1, <3>2
    <3>3. PICK s \in Task : TaskStep(s)
      BY DEF Next
    <3>a. ~Create(s) /\ ~CreateTorn(s)
      OBVIOUS
    <3>4. CASE s # t
      BY <1>1, <3>3, <3>4, OthersKeep DEF Creating
    <3>5. CASE s = t /\ WorkerStep(t)
      BY <2>1, <3>5 DEF WorkerStep, WorkerReads, WorkerStarting, WorkerChecksControl,
           WorkerStops, WorkerSpawns, WorkerFailing, WorkerFails, WorkerRereads,
           WorkerMarksRunning, HeartbeatWrites, WorkerSeesExit, Supervising,
           WorkerDecides, WorkerReports, Goto
    <3>6. CASE /\ s = t
               /\ \/ HeartbeatReads(t) \/ ControlPoll(t) \/ WorkerTimesOut(t)
                  \/ GraceEnds(t) \/ WorkerDies(t) \/ CommandExits(t) \/ Expire(t)
      BY <1>1, <3>6 DEF HeartbeatReads, ControlPoll, WorkerTimesOut, GraceEnds, WorkerDies,
           CommandExits, Expire, files, mgrVars, Creating
    <3>7. CASE s = t /\ (Kill(t) \/ Recover(t) \/ Publish(t))
      BY <1>1, <3>7 DEF Kill, Recover, Publish, files, Creating
    <3>8. CASE s = t /\ (Launch(t) \/ CreateRereads(t) \/ CreateMarksStarting(t) \/ RecoverSettles(t))
      BY <1>1, <2>1, <3>8 DEF Launch, CreateRereads, CreateMarksStarting, RecoverSettles, Creating
    <3>9. CASE s = t /\ (KillRequested(t) \/ RecoverRereads(t))
      BY <1>1, <3>9 DEF KillRequested, RecoverRereads, files, Creating, Idle
    <3> QED BY <3>3, <3>a, <3>4, <3>5, <3>6, <3>7, <3>8, <3>9 DEF TaskStep, MgrStep
  <2> QED BY <1>3, <2>2 DEF Active, Pending, Creating
<1> QED BY <1>1, <1>2, <1>3 DEF IsTerminal

LEMMA NextLimit ==
  ASSUME TypeOK, Honest, Timely, LimitKept, [Next]_vars
  PROVE  LimitKept'
<1> DEFINE S == Active \cup Pending
<1> USE BashTaskAssumption
<1>1. CASE \A s \in Task : ~Create(s) /\ ~CreateTorn(s)
  <2>1. S' \subseteq S
    <3>1. ASSUME NEW t \in Task, t \notin S PROVE t \notin S'
      BY <1>1, <3>1, NoNewSlot
    <3>2. S' \subseteq Task
      BY DEF Active, Pending
    <3> QED BY <3>1, <3>2
  <2> HIDE DEF S
  <2>2. IsFiniteSet(S) /\ Cardinality(S) <= MaxRunning
    BY DEF LimitKept, S
  <2>3. IsFiniteSet(S') /\ Cardinality(S') <= Cardinality(S)
    BY <2>1, <2>2, FS_Subset
  <2>4. Cardinality(S) \in Nat /\ Cardinality(S') \in Nat
    BY <2>2, <2>3, FS_CardinalityType
  <2>5. Cardinality(S') <= MaxRunning
    BY <2>2, <2>3, <2>4
  <2> QED BY <2>3, <2>5 DEF LimitKept, S
<1>2. CASE \E s \in Task : Create(s) \/ CreateTorn(s)
  <2>1. PICK s \in Task : Create(s) \/ CreateTorn(s)
    BY <1>2
  <2>a. TaskStep(s)
    BY <2>1 DEF TaskStep
  <2>2. Pending = {} /\ Cardinality(Active) < MaxRunning
    BY <2>1 DEF Create, CreateTorn, RoomForOne, Pending, Creating, Idle
  <2>3. S' \subseteq Active \cup {s}
    <3>1. ASSUME NEW t \in Task, t # s PROVE runtime'[t] = runtime[t] /\ ~Creating(t)'
      <4>1. ~Creating(t)
        BY <2>2 DEF Pending
      <4> QED BY <2>a, <3>1, <4>1, OthersKeep DEF Creating
    <3> QED BY <3>1 DEF Active, Pending
  <2>4. IsFiniteSet(Active) /\ Cardinality(Active) \in Nat
    BY <2>2, FS_CardinalityType DEF LimitKept
  <2>5. IsFiniteSet(Active \cup {s}) /\ Cardinality(Active \cup {s}) \in Nat
        /\ Cardinality(Active \cup {s}) <= Cardinality(Active) + 1
    BY <2>4, FS_AddElement, FS_CardinalityType
  <2> HIDE DEF S
  <2>6. IsFiniteSet(S') /\ Cardinality(S') <= Cardinality(Active \cup {s})
    BY <2>3, <2>5, FS_Subset
  <2>7. Cardinality(S') \in Nat
    BY <2>6, FS_CardinalityType
  <2>8. Cardinality(S') <= MaxRunning
    BY <2>2, <2>4, <2>5, <2>6, <2>7
  <2> QED BY <2>6, <2>8 DEF LimitKept, S
<1> QED BY <1>1, <1>2

\* Where live workers do not miss their heartbeats, no more than
\* max_running_tasks tasks are ever active.
THEOREM LimitHolds == ASSUME ~Stalls PROVE Spec => []ActiveBound
<1> DEFINE Inv == TypeOK /\ Honest /\ Timely /\ LimitKept
<1>1. Init => Inv
  <2> SUFFICES ASSUME Init PROVE LimitKept
    BY InitTyped, InitHonest, InitTimely
  <2>1. Active \cup Pending = {}
    BY DEF Init, Absent, Active, Pending, Creating
  <2>2. Cardinality(Active \cup Pending) = 0 /\ IsFiniteSet(Active \cup Pending)
    BY <2>1, FS_EmptySet
  <2> QED BY <2>2, BashTaskAssumption DEF LimitKept
<1>2. Inv /\ [Next]_vars => Inv'
  BY NextTyped, NextHonest, NextTimely, NextLimit
<1>3. LimitKept => ActiveBound
  <2> SUFFICES ASSUME LimitKept PROVE Cardinality(Active) <= MaxRunning
    BY DEF ActiveBound
  <2>1. IsFiniteSet(Active) /\ Cardinality(Active) <= Cardinality(Active \cup Pending)
    BY FS_Subset DEF LimitKept
  <2>2. Cardinality(Active) \in Nat /\ Cardinality(Active \cup Pending) \in Nat
    BY <2>1, FS_CardinalityType DEF LimitKept
  <2> QED BY <2>1, <2>2, BashTaskAssumption DEF LimitKept
<1> QED BY <1>1, <1>2, <1>3, PTL DEF Spec
=============================================================================
