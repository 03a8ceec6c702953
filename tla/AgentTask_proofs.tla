--------------------------- MODULE AgentTask_proofs ---------------------------
(***************************************************************************)
(* Theorems about AgentTask, for any number of tasks and approvals and any *)
(* bound on crashes.  The inductive invariant says what a thread knows of  *)
(* the record it holds, that an unfinished task has a runner, and that     *)
(* only one runner is on its way into the instance or in it.               *)
(***************************************************************************)
EXTENDS AgentTask, TLAPS

\* The runner has the instance, or is about to.
Working(t) == runner[t] \in {"scheduled", "soul"}

LEMMA EventType ==
  ASSUME NEW e \in Event
  PROVE  e[1] \in Request /\ TaskOf[e[1]] \in Task
BY AgentTaskAssumption DEF Event

---------------------------------------------------------------------------
\* Type correctness.

LEMMA TypeInit == Init => TypeOK
BY AgentTaskAssumption DEF Init, TypeOK, Status, Terminal

LEMMA FinishType ==
  ASSUME TypeOK, NEW R \in SUBSET Task, NEW s \in Status, Finish(R, s)
  PROVE  status' \in [Task -> Status] /\ overlapped' \subseteq Task
BY DEF Finish, TypeOK

LEMMA MarkType ==
  ASSUME TypeOK, NEW t \in Task, NEW s \in Terminal, MarkTerminal(t, s)
  PROVE  status' \in [Task -> Status] /\ overlapped' \subseteq Task
<1>1. {t} \ {u \in Task : Ended(u)} \in SUBSET Task /\ s \in Status
  BY DEF Status
<1>2. Finish({t} \ {u \in Task : Ended(u)}, s)
  BY DEF MarkTerminal
<1>. QED  BY <1>1, <1>2, FinishType

LEMMA ResolveType ==
  ASSUME TypeOK, NEW R, Resolve(R)
  PROVE  /\ request' \in [Request -> {"none", "pending", "over"}]
         /\ handler' \in [Event -> {"none", "ready", "queued", "doomed", "read", "over"}]
BY DEF Resolve, TypeOK

LEMMA RecoverAllType ==
  ASSUME TypeOK, RecoverAll
  PROVE  /\ status' \in [Task -> Status] /\ overlapped' \subseteq Task
         /\ instance' \in {"idle", "running_background", "failed", "killed"}
<1>1. Stranded \in SUBSET Task /\ "lost" \in Status
  BY DEF Stranded, Status, Terminal
<1>. QED  BY <1>1, FinishType DEF RecoverAll, TypeOK

LEMMA TypeStep == TypeOK /\ [Next]_vars => TypeOK'
<1>. SUFFICES ASSUME TypeOK, [Next]_vars PROVE TypeOK'
  OBVIOUS
<1>. USE DEF records, runners, approvals, process
<1>0. CASE UNCHANGED vars
  BY <1>0 DEF vars, TypeOK
<1>1. ASSUME NEW t \in Task, Launch(t) PROVE TypeOK'
  BY <1>1 DEF Launch, TypeOK, Status
<1>2. ASSUME NEW t \in Task, Kill(t) PROVE TypeOK'
  <2>1. "killed" \in Terminal /\ MarkTerminal(t, "killed") /\ Resolve(PendingOf(t))
    BY <1>2 DEF Kill, Terminal
  <2>2. cancelling' \subseteq Task /\ UNCHANGED <<notes, runner, instance, raced, process>>
    BY <1>2 DEF Kill, TypeOK
  <2>. QED  BY <2>1, <2>2, MarkType, ResolveType DEF TypeOK
<1>3. CASE Recover
  BY <1>3, RecoverAllType DEF Recover, TypeOK
<1>4. ASSUME NEW t \in Task, Publish(t) PROVE TypeOK'
  BY <1>4 DEF Publish, TypeOK, Ended
<1>5. ASSUME NEW t \in Task, RunnerStarts(t) PROVE TypeOK'
  BY <1>5 DEF RunnerStarts, TypeOK, Status
<1>6. ASSUME NEW t \in Task, NeverRuns(t) PROVE TypeOK'
  BY <1>6 DEF NeverRuns, TypeOK
<1>7. ASSUME NEW r \in Request, Ask(r) PROVE TypeOK'
  BY <1>7 DEF Ask, TypeOK, Event
<1>8. ASSUME NEW r \in Request, Answer(r) PROVE TypeOK'
  BY <1>8, ResolveType DEF Answer, TypeOK
<1>9. ASSUME NEW t \in Task, NEW s \in Terminal \ {"lost"}, RunnerEnds(t, s) PROVE TypeOK'
  <2>1. status' \in [Task -> Status] /\ overlapped' \subseteq Task
    BY <1>9, MarkType DEF RunnerEnds
  <2>2. instance' \in {"idle", "running_background", "failed", "killed"}
    BY <1>9 DEF RunnerEnds, FreedAs
  <2>3. handler' \in [Event -> {"none", "ready", "queued", "doomed", "read", "over"}]
    BY <1>9 DEF RunnerEnds, TypeOK
  <2>4. /\ request' \in [Request -> {"none", "pending", "over"}]
        /\ runner' \in [Task -> {"none", "scheduled", "soul", "cleanup", "gone", "never ran"}]
    BY <1>9 DEF RunnerEnds, TypeOK, CancelsRequests
  <2>5. cancelling' \subseteq Task /\ UNCHANGED <<notes, raced, process>>
    BY <1>9 DEF RunnerEnds, TypeOK
  <2>. QED  BY <2>1, <2>2, <2>3, <2>4, <2>5 DEF TypeOK
<1>10. ASSUME NEW t \in Task, RunnerGone(t) PROVE TypeOK'
  BY <1>10 DEF RunnerGone, CancelsRequests, TypeOK
<1>11. ASSUME NEW e \in Event, HandlerStarts(e) PROVE TypeOK'
  BY <1>11, EventType DEF HandlerStarts, Move, TypeOK
<1>12. ASSUME NEW e \in Event, ThreadReads(e) \/ ThreadDropped(e) PROVE TypeOK'
  BY <1>12 DEF ThreadReads, ThreadDropped, Move, TypeOK
<1>13. ASSUME NEW e \in Event, ThreadWrites(e) PROVE TypeOK'
  BY <1>13, EventType DEF ThreadWrites, Move, TypeOK, Status
<1>14. CASE Crash
  <2>1. status' \in [Task -> Status] /\ instance' \in {"idle", "running_background", "failed", "killed"}
    BY <1>14 DEF Crash, TypeOK, Status
  <2>2. up' \in BOOLEAN /\ crashes' \in 0 .. MaxCrashes
    <3>1. crashes < MaxCrashes /\ crashes' = crashes + 1 /\ up' = FALSE
      BY <1>14 DEF Crash
    <3>2. crashes \in 0 .. MaxCrashes /\ MaxCrashes \in Nat
      BY AgentTaskAssumption DEF TypeOK
    <3>3. crashes' \in 0 .. MaxCrashes
      BY <3>1, <3>2
    <3>. QED  BY <3>1, <3>3
  <2>. QED  BY <1>14, <2>1, <2>2 DEF Crash, TypeOK
<1>15. CASE Restart
  BY <1>15, RecoverAllType DEF Restart, TypeOK
<1>. QED  BY <1>0, <1>1, <1>2, <1>3, <1>4, <1>5, <1>6, <1>7, <1>8, <1>9, <1>10, <1>11, <1>12,
             <1>13, <1>14, <1>15 DEF Next, Progress, Runs, Handles

\* The variables stay what they are declared to be.
THEOREM Typing == Spec => []TypeOK
BY TypeInit, TypeStep, PTL DEF Spec

---------------------------------------------------------------------------
\* The inductive invariant.

\* A task without a record has no runner.
Known == \A t \in Task : status[t] = "absent" => runner[t] = "none"

\* There are no events before the runner has subscribed.
Silent ==
  \A e \in Event : runner[TaskOf[e[1]]] \in {"none", "scheduled"} => handler[e] = "none"

\* Nothing runs between a death and the next start.
Down == ~up => \A t \in Task : ~Live(t)

\* A thread holds the record of a task that has not ended since it read it.
CopiesAgree ==
  \A e \in Event : handler[e] = "read" =>
    TaskOf[e[1]] \in overlapped \/ ~Ended(TaskOf[e[1]])

\* A task whose runner is cancelled or cleans up has ended.
OnTheWayOut(t) == t \in cancelling \/ runner[t] = "cleanup"
WayOutEnded == \A t \in Task \ overlapped : OnTheWayOut(t) => Ended(t)

\* A task that has not ended has a runner.
Accounted == up => \A t \in Task \ overlapped : Active(t) => Live(t)

\* The instance is marked for a runner that will set it back, or never ran.
MarkedFor ==
  \/ instance # "running_background"
  \/ crashes > 0
  \/ \E t \in Task : Working(t) \/ runner[t] = "never ran"

\* One runner works, and the instance is marked for it.
OneWorks ==
  overlapped = {} =>
    \A t \in Task : Working(t) =>
      instance = "running_background" /\ \A u \in Task : Working(u) => u = t

IInv ==
  /\ TypeOK
  /\ Known
  /\ Silent
  /\ Down
  /\ CopiesAgree
  /\ WayOutEnded
  /\ Accounted
  /\ MarkedFor
  /\ OneWorks
  /\ OneOutcome
  /\ NotLostWhileLive
  /\ NoOrphanRequests

LEMMA InitInv == Init => IInv
<1>. SUFFICES ASSUME Init PROVE IInv
  OBVIOUS
<1>1. TypeOK
  BY TypeInit
<1>2. \A e \in Event : e[1] \in Request /\ TaskOf[e[1]] \in Task
  BY EventType
<1>3. Known /\ Silent /\ Down /\ CopiesAgree /\ WayOutEnded
  BY <1>2 DEF Init, Known, Silent, Down, CopiesAgree, WayOutEnded, OnTheWayOut, Live
<1>4. Accounted /\ MarkedFor /\ OneWorks /\ OneOutcome /\ NotLostWhileLive
  BY DEF Init, Accounted, Active, MarkedFor, OneWorks, Working, OneOutcome, NotLostWhileLive, Live
<1>5. NoOrphanRequests
  BY DEF Init, NoOrphanRequests, PendingOf
<1>. QED  BY <1>1, <1>3, <1>4, <1>5 DEF IInv

---------------------------------------------------------------------------
\* Status, and the events that carry it.

\* What the end of some tasks does to every task.
LEMMA Finished ==
  ASSUME TypeOK, NEW R \in SUBSET Task, NEW s \in Terminal, Finish(R, s), NEW t \in Task
  PROVE  /\ t \in R => status'[t] = s /\ Ended(t)'
         /\ t \notin R => status'[t] = status[t]
         /\ t \in overlapped => t \in overlapped'
         /\ \A e \in Event : t \in R /\ TaskOf[e[1]] = t /\ handler[e] = "read" => t \in overlapped'
<1>1. \A e \in Event : TaskOf[e[1]] = t /\ handler[e] = "read" => e \in In(t, {"read"})
  BY DEF In, Handlers
<1>. QED  BY <1>1 DEF Finish, TypeOK, Ended

LEMMA Marked ==
  ASSUME TypeOK, NEW t \in Task, NEW s \in Terminal, MarkTerminal(t, s), NEW u \in Task
  PROVE  /\ Ended(u) => status'[u] = status[u]
         /\ u # t => status'[u] = status[u]
         /\ Ended(t)'
         /\ status'[u] = status[u] \/ status'[u] = s
         /\ u \in overlapped => u \in overlapped'
         /\ \A e \in Event : status'[u] # status[u] /\ TaskOf[e[1]] = u /\ handler[e] = "read"
                               => u \in overlapped'
<1>. DEFINE R == {t} \ {v \in Task : Ended(v)}
<1>1. R \in SUBSET Task /\ Finish(R, s)
  BY DEF MarkTerminal
<1>2. u \in R => u = t /\ ~Ended(u)
  OBVIOUS
<1>3. t \in R \/ Ended(t)
  OBVIOUS
<1>4. t \notin R => status'[t] = status[t]
  BY <1>1, Finished
<1>5. Ended(t)'
  BY <1>1, <1>3, <1>4, Finished DEF Ended
<1>. QED  BY <1>1, <1>2, <1>5, Finished

LEMMA Recovered ==
  ASSUME TypeOK, RecoverAll, NEW u \in Task
  PROVE  /\ status'[u] = status[u] \/ (status'[u] = "lost" /\ Active(u) /\ ~Live(u))
         /\ Active(u) /\ ~Live(u) => Ended(u)'
         /\ u \in overlapped => u \in overlapped'
         /\ \A e \in Event : status'[u] # status[u] /\ TaskOf[e[1]] = u /\ handler[e] = "read"
                               => u \in overlapped'
<1>1. Stranded \in SUBSET Task /\ "lost" \in Terminal /\ Finish(Stranded, "lost")
  BY DEF Stranded, Terminal, RecoverAll
<1>2. u \in Stranded <=> Active(u) /\ ~Live(u)
  BY DEF Stranded
<1>. QED  BY <1>1, <1>2, Finished

\* What the history notes stays noted.
LEMMA HistoryGrows == [Next]_vars => overlapped \subseteq overlapped' /\ raced \subseteq raced'
BY DEF vars, records, runners, approvals, process, Next, Progress, Runs, Handles, Launch, Kill,
   Recover, RecoverAll, Finish, MarkTerminal, Publish, RunnerStarts, NeverRuns, RunnerGone, RunnerEnds,
   Ask, Answer, HandlerStarts, ThreadReads, ThreadDropped, ThreadWrites, Crash, Restart

---------------------------------------------------------------------------
\* Every step keeps each part of the invariant.

LEMMA KnownStep == IInv /\ [Next]_vars => Known'
<1>. SUFFICES ASSUME IInv, [Next]_vars, NEW u \in Task, status'[u] = "absent" PROVE runner'[u] = "none"
  BY DEF Known
<1>. USE DEF IInv, records, runners, approvals, process
<1>a. "absent" \notin Terminal
  BY DEF Terminal
<1>0. CASE UNCHANGED vars
  BY <1>0 DEF vars, Known
<1>1. ASSUME NEW t \in Task, Launch(t) PROVE runner'[u] = "none"
  BY <1>1 DEF Launch, TypeOK, Known
<1>2. ASSUME NEW t \in Task, Kill(t) PROVE runner'[u] = "none"
  BY <1>2, <1>a, Marked DEF Kill, Known, Terminal
<1>3. CASE Recover \/ Restart
  BY <1>3, Recovered DEF Recover, Restart, Known
<1>4. ASSUME NEW t \in Task, Publish(t) \/ NeverRuns(t) \/ RunnerGone(t) PROVE runner'[u] = "none"
  BY <1>4 DEF Publish, NeverRuns, RunnerGone, TypeOK, Known
<1>5. ASSUME NEW t \in Task, RunnerStarts(t) PROVE runner'[u] = "none"
  BY <1>5 DEF RunnerStarts, TypeOK, Known, Ended, Terminal
<1>6. ASSUME NEW r \in Request, Ask(r) \/ Answer(r) PROVE runner'[u] = "none"
  BY <1>6 DEF Ask, Answer, Known
<1>7. ASSUME NEW t \in Task, NEW s \in Terminal \ {"lost"}, RunnerEnds(t, s) PROVE runner'[u] = "none"
  <2>1. s \in Terminal /\ s # "absent" /\ MarkTerminal(t, s)
    BY <1>7, <1>a DEF RunnerEnds
  <2>2. status[u] = "absent"
    BY <2>1, Marked
  <2>3. runner[u] = "none"
    BY <2>2 DEF Known
  <2>4. runner[t] = "soul" /\ (u # t => runner'[u] = runner[u])
    BY <1>7 DEF RunnerEnds, TypeOK
  <2>. QED  BY <2>3, <2>4
<1>8. ASSUME NEW e \in Event, Handles(e) PROVE runner'[u] = "none"
  BY <1>8, EventType DEF Handles, HandlerStarts, ThreadReads, ThreadDropped, ThreadWrites, TypeOK, Known
<1>9. CASE Crash
  BY <1>9 DEF Crash, TypeOK, Known, Live
<1>. QED  BY <1>0, <1>1, <1>2, <1>3, <1>4, <1>5, <1>6, <1>7, <1>8, <1>9 DEF Next, Progress, Runs

LEMMA SilentStep == IInv /\ [Next]_vars => Silent'
<1>. SUFFICES ASSUME IInv, [Next]_vars, NEW f \in Event, runner'[TaskOf[f[1]]] \in {"none", "scheduled"}
              PROVE handler'[f] = "none"
  BY DEF Silent
<1>. USE DEF IInv, records, runners, approvals, process
<1>a. f[1] \in Request /\ TaskOf[f[1]] \in Task
  BY EventType
<1>0. CASE UNCHANGED vars
  BY <1>0 DEF vars, Silent
<1>1. ASSUME NEW t \in Task, Launch(t) PROVE handler'[f] = "none"
  BY <1>1, <1>a DEF Launch, TypeOK, Known, Silent
<1>2. ASSUME NEW R, Resolve(R), runner' = runner PROVE handler'[f] = "none"
  BY <1>2, <1>a DEF Resolve, Subscribed, TypeOK, Silent
<1>3. CASE Recover \/ Restart
  BY <1>3 DEF Recover, Restart, Silent
<1>4. ASSUME NEW t \in Task, Publish(t) \/ NeverRuns(t) \/ RunnerGone(t) \/ RunnerStarts(t)
      PROVE handler'[f] = "none"
  BY <1>4, <1>a DEF Publish, NeverRuns, RunnerGone, RunnerStarts, TypeOK, Silent
<1>5. ASSUME NEW t \in Task, Kill(t) PROVE handler'[f] = "none"
  BY <1>2, <1>5 DEF Kill
<1>6. ASSUME NEW r \in Request, Answer(r) PROVE handler'[f] = "none"
  BY <1>2, <1>6 DEF Answer
<1>7. ASSUME NEW r \in Request, Ask(r) PROVE handler'[f] = "none"
  <2>1. runner[TaskOf[r]] = "soul" /\ runner' = runner
    BY <1>7 DEF Ask
  <2>2. f # <<r, "created">>
    BY <2>1
  <2>3. handler'[f] = handler[f]
    BY <1>7, <2>2 DEF Ask, TypeOK
  <2>. QED  BY <1>a, <2>1, <2>3 DEF Silent
<1>8. ASSUME NEW t \in Task, NEW s \in Terminal \ {"lost"}, RunnerEnds(t, s) PROVE handler'[f] = "none"
  <2>1. runner[TaskOf[f[1]]] \in {"none", "scheduled"}
    BY <1>8, <1>a DEF RunnerEnds, TypeOK
  <2>2. handler[f] = "none"
    BY <2>1 DEF Silent
  <2>. QED  BY <1>8, <2>2 DEF RunnerEnds, In, TypeOK
<1>9. ASSUME NEW e \in Event, Handles(e) PROVE handler'[f] = "none"
  BY <1>9 DEF Handles, HandlerStarts, ThreadReads, ThreadDropped, ThreadWrites, Move, TypeOK, Silent
<1>10. CASE Crash
  BY <1>10, <1>a DEF Crash, TypeOK, Silent, Live
<1>. QED  BY <1>0, <1>1, <1>3, <1>4, <1>5, <1>6, <1>7, <1>8, <1>9, <1>10 DEF Next, Progress, Runs

LEMMA DownStep == IInv /\ [Next]_vars => Down'
<1>. SUFFICES ASSUME IInv, [Next]_vars, ~up', NEW u \in Task PROVE Live(u)' = FALSE
  BY DEF Down, Live
<1>. USE DEF IInv, records, runners, approvals, process, Live
<1>0. CASE UNCHANGED vars
  BY <1>0 DEF vars, Down
<1>1. ASSUME NEW t \in Task, Launch(t) \/ Kill(t) \/ Publish(t) PROVE Live(u)' = FALSE
  BY <1>1 DEF Launch, Kill, Publish
<1>2. CASE Recover \/ Restart
  BY <1>2 DEF Recover, Restart
<1>3. ASSUME NEW t \in Task, RunnerStarts(t) \/ NeverRuns(t) \/ RunnerGone(t) PROVE Live(u)' = FALSE
  BY <1>3 DEF RunnerStarts, NeverRuns, RunnerGone, Down
<1>4. ASSUME NEW t \in Task, NEW s \in Terminal \ {"lost"}, RunnerEnds(t, s) PROVE Live(u)' = FALSE
  BY <1>4 DEF RunnerEnds, Down
<1>5. ASSUME NEW r \in Request, Ask(r) PROVE Live(u)' = FALSE
  BY <1>5, AgentTaskAssumption DEF Ask, Down
<1>6. ASSUME NEW r \in Request, Answer(r) PROVE Live(u)' = FALSE
  BY <1>6 DEF Answer
<1>7. ASSUME NEW e \in Event, Handles(e) PROVE Live(u)' = FALSE
  BY <1>7 DEF Handles, HandlerStarts, ThreadReads, ThreadDropped, ThreadWrites, Down
<1>8. CASE Crash
  <2>1. runner'[u] = IF Live(u) THEN "gone" ELSE runner[u]
    BY <1>8 DEF Crash
  <2>. QED  BY <2>1
<1>. QED  BY <1>0, <1>1, <1>2, <1>3, <1>4, <1>5, <1>6, <1>7, <1>8 DEF Next, Progress, Runs

\* The copy of a thread stays good until the task ends, which `overlapped` notes.
LEMMA CopiesStep == IInv /\ [Next]_vars => CopiesAgree'
<1>. SUFFICES ASSUME IInv, [Next]_vars, NEW f \in Event, handler'[f] = "read",
                     TaskOf[f[1]] \notin overlapped'
              PROVE Ended(TaskOf[f[1]])' = FALSE
  BY DEF CopiesAgree
<1>. DEFINE u == TaskOf[f[1]]
<1>. USE DEF IInv, records, runners, approvals, process
<1>a. f[1] \in Request /\ u \in Task
  BY EventType
\* Where nothing but the status of tasks that end changes.
<1>b. ASSUME handler[f] = "read", u \in overlapped => u \in overlapped',
             status'[u] # status[u] => u \in overlapped'
      PROVE Ended(u)' = FALSE
  <2>1. u \notin overlapped /\ status'[u] = status[u]
    BY <1>b
  <2>2. ~Ended(u)
    BY <1>b, <2>1 DEF CopiesAgree
  <2>. QED  BY <2>1, <2>2 DEF Ended
<1>0. CASE UNCHANGED vars
  BY <1>0, <1>b DEF vars
<1>1. ASSUME NEW t \in Task, Launch(t) PROVE Ended(u)' = FALSE
  <2>1. status'[t] = "starting" /\ (u # t => status'[u] = status[u])
    BY <1>1, <1>a DEF Launch, TypeOK
  <2>4. overlapped' = overlapped /\ handler' = handler
    BY <1>1 DEF Launch
  <2>2. CASE u = t
    BY <2>1, <2>2 DEF Ended, Terminal
  <2>3. CASE u # t
    BY <1>b, <2>1, <2>3, <2>4
  <2>. QED  BY <2>2, <2>3
<1>2. ASSUME NEW t \in Task, Kill(t) PROVE Ended(u)' = FALSE
  <2>1. "killed" \in Terminal /\ MarkTerminal(t, "killed") /\ handler[f] = "read"
    BY <1>2 DEF Kill, Resolve, Terminal
  <2>. QED  BY <1>a, <1>b, <2>1, Marked
<1>3. CASE Recover \/ Restart
  <2>1. RecoverAll /\ handler[f] = "read"
    BY <1>3 DEF Recover, Restart
  <2>. QED  BY <1>a, <1>b, <2>1, Recovered
<1>4. ASSUME NEW t \in Task, Publish(t) \/ NeverRuns(t) \/ RunnerGone(t) PROVE Ended(u)' = FALSE
  BY <1>4, <1>b DEF Publish, NeverRuns, RunnerGone
<1>5. ASSUME NEW t \in Task, RunnerStarts(t) PROVE Ended(u)' = FALSE
  <2>1. UNCHANGED <<overlapped, handler>> /\ (Ended(u) => status'[u] = status[u])
    BY <1>5, <1>a DEF RunnerStarts, TypeOK
  <2>2. ~Ended(u)
    BY <2>1 DEF CopiesAgree
  <2>3. status'[u] = status[u] \/ status'[u] = "running"
    BY <1>5, <1>a DEF RunnerStarts, TypeOK
  <2>. QED  BY <2>2, <2>3 DEF Ended, Terminal
<1>6. ASSUME NEW r \in Request, Ask(r) \/ Answer(r) PROVE Ended(u)' = FALSE
  <2>1. handler[f] = "read" /\ UNCHANGED <<status, overlapped>>
    BY <1>6 DEF Ask, Answer, Resolve, TypeOK
  <2>. QED  BY <2>1, <1>b
<1>7. ASSUME NEW t \in Task, NEW s \in Terminal \ {"lost"}, RunnerEnds(t, s) PROVE Ended(u)' = FALSE
  <2>1. handler[f] = "read"
    BY <1>7 DEF RunnerEnds, TypeOK
  <2>2. s \in Terminal /\ MarkTerminal(t, s)
    BY <1>7 DEF RunnerEnds
  <2>. QED  BY <1>a, <1>b, <2>1, <2>2, Marked
<1>8. ASSUME NEW e \in Event, HandlerStarts(e) \/ ThreadDropped(e) PROVE Ended(u)' = FALSE
  <2>1. handler[f] = "read" /\ UNCHANGED <<status, overlapped>>
    BY <1>8 DEF HandlerStarts, ThreadDropped, Move, TypeOK
  <2>. QED  BY <2>1, <1>b
<1>9. ASSUME NEW e \in Event, ThreadReads(e) PROVE Ended(u)' = FALSE
  <2>1. handler' = [handler EXCEPT ![e] = IF Ended(TaskOf[e[1]]) THEN "over" ELSE "read"]
        /\ UNCHANGED <<status, overlapped>>
    BY <1>9 DEF ThreadReads, Move, Skips
  <2>2. CASE f = e
    <3>1. ~Ended(u)
      BY <2>1, <2>2 DEF TypeOK
    <3>. QED  BY <2>1, <3>1 DEF Ended
  <2>3. CASE f # e
    BY <2>1, <2>3, <1>b DEF TypeOK
  <2>. QED  BY <2>2, <2>3
<1>10. ASSUME NEW e \in Event, ThreadWrites(e) PROVE Ended(u)' = FALSE
  <2>1. handler[f] = "read" /\ overlapped' = overlapped
    BY <1>10 DEF ThreadWrites, Move, TypeOK
  <2>2. ~Ended(u)
    BY <2>1 DEF CopiesAgree
  <2>3. status'[u] = status[u] \/ status'[u] \in {"awaiting_approval", "running"}
    BY <1>10, <1>a DEF ThreadWrites, TypeOK
  <2>. QED  BY <2>2, <2>3 DEF Ended, Terminal
<1>11. CASE Crash
  BY <1>11 DEF Crash, TypeOK
<1>. QED  BY <1>0, <1>1, <1>2, <1>3, <1>4, <1>5, <1>6, <1>7, <1>8, <1>9, <1>10, <1>11
          DEF Next, Progress, Runs, Handles

\* The record of an ended task changes only when a thread overwrites it.
LEMMA EndedStays ==
  ASSUME IInv, Next, NEW u \in Task, Ended(u), u \notin overlapped'
  PROVE  u \notin overlapped /\ status'[u] = status[u]
<1>. USE DEF IInv, records, runners, approvals, process
<1>a. status[u] # "absent" /\ ~Active(u)
  BY DEF Ended, Active, Terminal
<1>1. ASSUME NEW t \in Task, Launch(t) PROVE u \notin overlapped /\ status'[u] = status[u]
  BY <1>1, <1>a DEF Launch, TypeOK
<1>2. ASSUME NEW t \in Task, Kill(t) PROVE u \notin overlapped /\ status'[u] = status[u]
  BY <1>2, Marked DEF Kill, Terminal
<1>3. CASE Recover \/ Restart
  BY <1>3, <1>a, Recovered DEF Recover, Restart
<1>4. ASSUME NEW t \in Task, Publish(t) \/ NeverRuns(t) \/ RunnerGone(t)
      PROVE u \notin overlapped /\ status'[u] = status[u]
  BY <1>4 DEF Publish, NeverRuns, RunnerGone
<1>5. ASSUME NEW t \in Task, RunnerStarts(t) PROVE u \notin overlapped /\ status'[u] = status[u]
  BY <1>5 DEF RunnerStarts, TypeOK
<1>6. ASSUME NEW r \in Request, Ask(r) \/ Answer(r) PROVE u \notin overlapped /\ status'[u] = status[u]
  BY <1>6 DEF Ask, Answer
<1>7. ASSUME NEW t \in Task, NEW s \in Terminal \ {"lost"}, RunnerEnds(t, s)
      PROVE u \notin overlapped /\ status'[u] = status[u]
  BY <1>7, Marked DEF RunnerEnds
<1>8. ASSUME NEW e \in Event, HandlerStarts(e) \/ ThreadReads(e) \/ ThreadDropped(e)
      PROVE u \notin overlapped /\ status'[u] = status[u]
  BY <1>8 DEF HandlerStarts, ThreadReads, ThreadDropped
<1>9. ASSUME NEW e \in Event, ThreadWrites(e) PROVE u \notin overlapped /\ status'[u] = status[u]
  <2>1. handler[e] = "read" /\ overlapped' = overlapped
    BY <1>9 DEF ThreadWrites
  <2>2. TaskOf[e[1]] # u
    BY <2>1 DEF CopiesAgree
  <2>3. TaskOf[e[1]] \in Task
    BY EventType
  <2>. QED  BY <1>9, <2>1, <2>2, <2>3 DEF ThreadWrites, TypeOK
<1>10. CASE Crash
  BY <1>10, <1>a DEF Crash, TypeOK
<1>. QED  BY <1>1, <1>2, <1>3, <1>4, <1>5, <1>6, <1>7, <1>8, <1>9, <1>10
          DEF Next, Progress, Runs, Handles

LEMMA WayOutStep == IInv /\ [Next]_vars => WayOutEnded'
<1>. SUFFICES ASSUME IInv, [Next]_vars, NEW u \in Task, u \notin overlapped', OnTheWayOut(u)'
              PROVE Ended(u)'
  BY DEF WayOutEnded
<1>. USE DEF records, runners, approvals, process
<1>b. ASSUME Next, OnTheWayOut(u) PROVE Ended(u)'
  <2>2. CASE Ended(u)
    BY <1>b, <2>2, EndedStays DEF Ended
  <2>3. CASE ~Ended(u)
    <3>1. u \in overlapped
      BY <1>b, <2>3 DEF IInv, WayOutEnded
    <3>2. overlapped \subseteq overlapped'
      BY HistoryGrows
    <3>. QED  BY <3>1, <3>2
  <2>. QED  BY <2>2, <2>3
<1>0. CASE UNCHANGED vars
  BY <1>0 DEF vars, IInv, WayOutEnded, OnTheWayOut, Ended
<1>1. CASE Next /\ ~OnTheWayOut(u)
  <2>0. TypeOK
    BY DEF IInv
  <2>1. ASSUME NEW t \in Task, Kill(t) PROVE Ended(u)'
    <3>1. u = t
      BY <1>1, <2>1 DEF Kill, OnTheWayOut
    <3>. QED  BY <2>0, <2>1, <3>1, Marked DEF Kill, Terminal
  <2>2. ASSUME NEW t \in Task, NEW s \in Terminal \ {"lost"}, RunnerEnds(t, s) PROVE Ended(u)'
    <3>1. u = t
      BY <1>1, <2>0, <2>2 DEF RunnerEnds, OnTheWayOut, TypeOK
    <3>. QED  BY <2>0, <2>2, <3>1, Marked DEF RunnerEnds
  <2>3. ASSUME NEW t \in Task, Launch(t) \/ RunnerStarts(t) \/ NeverRuns(t) \/ RunnerGone(t) \/ Publish(t)
        PROVE OnTheWayOut(u)' = FALSE
    BY <1>1, <2>0, <2>3 DEF Launch, RunnerStarts, NeverRuns, RunnerGone, Publish, OnTheWayOut, TypeOK
  <2>4. ASSUME NEW e \in Event, Handles(e) PROVE OnTheWayOut(u)' = FALSE
    BY <1>1, <2>4 DEF Handles, HandlerStarts, ThreadReads, ThreadDropped, ThreadWrites, OnTheWayOut
  <2>5. ASSUME NEW r \in Request, Ask(r) \/ Answer(r) PROVE OnTheWayOut(u)' = FALSE
    BY <1>1, <2>5 DEF Ask, Answer, OnTheWayOut
  <2>6. ASSUME Recover \/ Restart PROVE OnTheWayOut(u)' = FALSE
    BY <1>1, <2>6 DEF Recover, Restart, OnTheWayOut
  <2>7. ASSUME Crash PROVE OnTheWayOut(u)' = FALSE
    BY <1>1, <2>0, <2>7 DEF Crash, OnTheWayOut, TypeOK
  <2>. QED  BY <1>1, <2>1, <2>2, <2>3, <2>4, <2>5, <2>6, <2>7 DEF Next, Progress, Runs
<1>. QED  BY <1>0, <1>1, <1>b

\* Once a task is over in the record, recovery aside, its runner may go.
LEMMA AccountedStep == IInv /\ [Next]_vars => Accounted'
<1>. SUFFICES ASSUME IInv, [Next]_vars, up', NEW u \in Task, u \notin overlapped', Active(u)'
              PROVE Live(u)'
  BY DEF Accounted
<1>. USE DEF IInv, records, runners, approvals, process
<1>a. ~Ended(u)' /\ status'[u] # "absent"
  BY DEF Active, Ended
<1>b. ASSUME Next, up PROVE ~Ended(u)
  BY <1>a, <1>b, EndedStays DEF Ended
<1>c. ASSUME up, u \notin overlapped, Active(u) PROVE Live(u)
  BY <1>c DEF Accounted
<1>0. CASE UNCHANGED vars
  BY <1>0, <1>c DEF vars, Active, Live
<1>1. ASSUME NEW t \in Task, Launch(t) PROVE Live(u)'
  <2>1. CASE u = t
    BY <1>1, <2>1 DEF Launch, TypeOK, Live
  <2>2. CASE u # t
    <3>1. status'[u] = status[u] /\ runner'[u] = runner[u] /\ UNCHANGED <<up, overlapped>>
      BY <1>1, <2>2 DEF Launch, TypeOK
    <3>. QED  BY <3>1, <1>c DEF Active, Live
  <2>. QED  BY <2>1, <2>2
<1>2. ASSUME NEW t \in Task, Kill(t) PROVE Live(u)'
  <2>1. "killed" \in Terminal /\ MarkTerminal(t, "killed") /\ UNCHANGED <<up, runner>>
    BY <1>2 DEF Kill, Terminal
  <2>2. u # t /\ status'[u] = status[u] /\ u \notin overlapped
    BY <1>a, <2>1, Marked
  <2>. QED  BY <2>1, <2>2, <1>c DEF Active, Live
<1>3. CASE Recover \/ Restart
  <2>1. RecoverAll /\ runner' = runner
    BY <1>3 DEF Recover, Restart
  <2>2. ~(Active(u) /\ ~Live(u))
    BY <1>a, <2>1, Recovered
  <2>3. status'[u] = status[u]
    BY <2>1, <2>2, Recovered
  <2>. QED  BY <2>1, <2>2, <2>3 DEF Active, Live
<1>4. ASSUME NEW t \in Task, Publish(t) PROVE Live(u)'
  BY <1>4, <1>c DEF Publish, Active, Live
<1>5. ASSUME NEW t \in Task, RunnerStarts(t) PROVE Live(u)'
  <2>1. CASE u = t
    BY <1>5, <2>1 DEF RunnerStarts, TypeOK, Live
  <2>2. CASE u # t
    <3>1. status'[u] = status[u] /\ runner'[u] = runner[u] /\ UNCHANGED <<up, overlapped>>
      BY <1>5, <2>2 DEF RunnerStarts, TypeOK
    <3>. QED  BY <3>1, <1>c DEF Active, Live
  <2>. QED  BY <2>1, <2>2
<1>6. ASSUME NEW t \in Task, NeverRuns(t) PROVE Live(u)'
  <2>1. UNCHANGED <<status, overlapped, up>> /\ t \in cancelling
    BY <1>6 DEF NeverRuns
  <2>2. u # t
    BY <1>a, <2>1 DEF WayOutEnded, OnTheWayOut, Ended
  <2>3. runner'[u] = runner[u]
    BY <1>6, <2>2 DEF NeverRuns, TypeOK
  <2>. QED  BY <2>1, <2>3, <1>c DEF Active, Live
<1>7. ASSUME NEW r \in Request, Ask(r) \/ Answer(r) PROVE Live(u)'
  BY <1>7, <1>c DEF Ask, Answer, Active, Live
<1>8. ASSUME NEW t \in Task, NEW s \in Terminal \ {"lost"}, RunnerEnds(t, s) PROVE Live(u)'
  <2>1. s \in Terminal /\ MarkTerminal(t, s) /\ up' = up
    BY <1>8 DEF RunnerEnds
  <2>2. u # t /\ status'[u] = status[u] /\ u \notin overlapped
    BY <1>a, <2>1, Marked
  <2>3. runner'[u] = runner[u]
    BY <1>8, <2>2 DEF RunnerEnds, TypeOK
  <2>. QED  BY <2>1, <2>2, <2>3, <1>c DEF Active, Live
<1>9. ASSUME NEW t \in Task, RunnerGone(t) PROVE Live(u)'
  <2>1. UNCHANGED <<status, overlapped, up>> /\ runner[t] = "cleanup"
    BY <1>9 DEF RunnerGone
  <2>2. u # t
    BY <1>a, <2>1 DEF WayOutEnded, OnTheWayOut, Ended
  <2>3. runner'[u] = runner[u]
    BY <1>9, <2>2 DEF RunnerGone, TypeOK
  <2>. QED  BY <2>1, <2>3, <1>c DEF Active, Live
<1>10. ASSUME NEW e \in Event, HandlerStarts(e) \/ ThreadReads(e) \/ ThreadDropped(e) PROVE Live(u)'
  BY <1>10, <1>c DEF HandlerStarts, ThreadReads, ThreadDropped, Active, Live
<1>11. ASSUME NEW e \in Event, ThreadWrites(e) PROVE Live(u)'
  <2>1. handler[e] = "read" /\ UNCHANGED <<up, overlapped, runner>> /\ TaskOf[e[1]] \in Task
    BY <1>11, EventType DEF ThreadWrites
  <2>2. runner[TaskOf[e[1]]] # "none"
    BY <2>1 DEF Silent
  <2>3. status[u] # "absent"
    <3>1. CASE u = TaskOf[e[1]]
      BY <2>2, <3>1 DEF Known
    <3>2. CASE u # TaskOf[e[1]]
      BY <1>11, <1>a, <2>1, <3>2 DEF ThreadWrites, TypeOK
    <3>. QED  BY <3>1, <3>2
  <2>4. Active(u)
    BY <1>11, <1>b, <2>1, <2>3 DEF Active, Ended, Next, Progress, Handles
  <2>. QED  BY <2>1, <2>4, <1>c DEF Live
<1>12. CASE Crash
  BY <1>12 DEF Crash
<1>. QED  BY <1>0, <1>1, <1>2, <1>3, <1>4, <1>5, <1>6, <1>7, <1>8, <1>9, <1>10, <1>11, <1>12
          DEF Next, Progress, Runs, Handles

LEMMA MarkedForStep == IInv /\ [Next]_vars => MarkedFor'
<1>. SUFFICES ASSUME IInv, [Next]_vars PROVE MarkedFor'
  OBVIOUS
<1>. USE DEF IInv, records, runners, approvals, process, Working
<1>a. ASSUME crashes' = crashes, runner' = runner,
             instance' = instance \/ instance' # "running_background"
      PROVE MarkedFor'
  BY <1>a DEF MarkedFor
<1>0. CASE UNCHANGED vars
  BY <1>0, <1>a DEF vars
<1>1. ASSUME NEW t \in Task, Launch(t) PROVE MarkedFor'
  <2>1. runner'[t] = "scheduled"
    BY <1>1 DEF Launch, TypeOK
  <2>. QED  BY <2>1 DEF MarkedFor
<1>2. ASSUME NEW t \in Task, Kill(t) \/ Publish(t) PROVE MarkedFor'
  BY <1>2, <1>a DEF Kill, Publish
<1>3. CASE Recover \/ Restart
  BY <1>3, <1>a DEF Recover, Restart, RecoverAll
<1>4. ASSUME NEW t \in Task, RunnerStarts(t) \/ NeverRuns(t) \/ RunnerGone(t) PROVE MarkedFor'
  <2>1. \A u \in Task : Working(u) \/ runner[u] = "never ran" =>
           runner'[u] \in {"scheduled", "soul", "never ran"}
    BY <1>4 DEF RunnerStarts, NeverRuns, RunnerGone, TypeOK
  <2>2. UNCHANGED <<crashes, instance>>
    BY <1>4 DEF RunnerStarts, NeverRuns, RunnerGone
  <2>. QED  BY <2>1, <2>2 DEF MarkedFor
<1>5. ASSUME NEW t \in Task, NEW s \in Terminal \ {"lost"}, RunnerEnds(t, s) PROVE MarkedFor'
  BY <1>5 DEF RunnerEnds, FreedAs, MarkedFor
<1>6. ASSUME NEW r \in Request, Ask(r) \/ Answer(r) PROVE MarkedFor'
  BY <1>6, <1>a DEF Ask, Answer
<1>7. ASSUME NEW e \in Event, Handles(e) PROVE MarkedFor'
  BY <1>7, <1>a DEF Handles, HandlerStarts, ThreadReads, ThreadDropped, ThreadWrites
<1>8. CASE Crash
  <2>1. crashes' = crashes + 1 /\ crashes \in 0 .. MaxCrashes /\ MaxCrashes \in Nat
    BY <1>8, AgentTaskAssumption DEF Crash, TypeOK
  <2>2. crashes' > 0
    BY <2>1
  <2>. QED  BY <2>2 DEF MarkedFor
<1>. QED  BY <1>0, <1>1, <1>2, <1>3, <1>4, <1>5, <1>6, <1>7, <1>8 DEF Next, Progress, Runs

LEMMA OneWorksStep == IInv /\ [Next]_vars => OneWorks'
<1>. SUFFICES ASSUME IInv, [Next]_vars, overlapped' = {} PROVE OneWorks'
  BY DEF OneWorks
<1>. USE DEF IInv, records, runners, approvals, process, Working
<1>a. overlapped = {}
  BY HistoryGrows
<1>b. \A t \in Task : Working(t) =>
        instance = "running_background" /\ \A u \in Task : Working(u) => u = t
  BY <1>a DEF OneWorks
<1>c. ASSUME instance' = instance, \A u \in Task : Working(u)' => Working(u) PROVE OneWorks'
  BY <1>b, <1>c DEF OneWorks
<1>0. CASE UNCHANGED vars
  BY <1>0, <1>c DEF vars
<1>1. ASSUME NEW t \in Task, Launch(t) PROVE OneWorks'
  <2>1. \A u \in Task : ~Working(u)
    BY <1>1, <1>b DEF Launch, Resumable
  <2>2. \A u \in Task : u # t => runner'[u] = runner[u]
    BY <1>1 DEF Launch, TypeOK
  <2>3. instance' = "running_background"
    BY <1>1 DEF Launch
  <2>. QED  BY <2>1, <2>2, <2>3 DEF OneWorks
<1>2. ASSUME NEW t \in Task, Kill(t) \/ Publish(t) PROVE OneWorks'
  BY <1>2, <1>c DEF Kill, Publish
<1>3. CASE Recover
  <2>1. Stranded = {}
    BY <1>3, <1>a DEF Recover, Accounted, Stranded
  <2>. QED  BY <1>3, <2>1 DEF Recover
<1>4. CASE Restart
  <2>1. \A u \in Task : ~Working(u)
    BY <1>4 DEF Restart, Down, Live
  <2>. QED  BY <1>4, <2>1 DEF Restart, OneWorks
<1>5. ASSUME NEW t \in Task, RunnerStarts(t) \/ NeverRuns(t) \/ RunnerGone(t) PROVE OneWorks'
  <2>1. \A u \in Task : Working(u)' => Working(u)
    BY <1>5 DEF RunnerStarts, NeverRuns, RunnerGone, TypeOK
  <2>. QED  BY <1>5, <2>1, <1>c DEF RunnerStarts, NeverRuns, RunnerGone
<1>6. ASSUME NEW t \in Task, NEW s \in Terminal \ {"lost"}, RunnerEnds(t, s) PROVE OneWorks'
  <2>1. \A u \in Task : Working(u) => u = t
    BY <1>6, <1>b DEF RunnerEnds
  <2>2. \A u \in Task : ~(runner'[u] \in {"scheduled", "soul"})
    <3>1. runner'[t] \in {"cleanup", "gone"} /\ \A u \in Task : u # t => runner'[u] = runner[u]
      BY <1>6 DEF RunnerEnds, TypeOK
    <3>. QED  BY <2>1, <3>1
  <2>. QED  BY <2>2 DEF OneWorks
<1>7. ASSUME NEW r \in Request, Ask(r) \/ Answer(r) PROVE OneWorks'
  BY <1>7, <1>c DEF Ask, Answer
<1>8. ASSUME NEW e \in Event, Handles(e) PROVE OneWorks'
  BY <1>8, <1>c DEF Handles, HandlerStarts, ThreadReads, ThreadDropped, ThreadWrites
<1>9. CASE Crash
  <2>1. \A u \in Task : ~(runner'[u] \in {"scheduled", "soul"})
    BY <1>9 DEF Crash, Live
  <2>. QED  BY <2>1 DEF OneWorks
<1>. QED  BY <1>0, <1>1, <1>2, <1>3, <1>4, <1>5, <1>6, <1>7, <1>8, <1>9 DEF Next, Progress, Runs

LEMMA OneOutcomeStep == IInv /\ [Next]_vars => OneOutcome'
<1>. SUFFICES ASSUME IInv, [Next]_vars, NEW u \in Task, u \notin overlapped'
              PROVE notes'[u] \subseteq {status'[u]}
  BY DEF OneOutcome
<1>. USE DEF records, runners, approvals, process
<1>0. CASE UNCHANGED vars
  BY <1>0 DEF vars, IInv, OneOutcome
<1>1. ASSUME NEW t \in Task, Publish(t) PROVE notes'[u] \subseteq {status'[u]}
  <2>1. notes[u] \subseteq {status[u]} /\ status' = status
    BY <1>1 DEF Publish, IInv, OneOutcome
  <2>2. notes'[u] = notes[u] \/ notes'[u] = notes[u] \cup {status[u]}
    BY <1>1 DEF Publish, IInv, TypeOK
  <2>. QED  BY <2>1, <2>2
<1>2. CASE Next /\ notes' = notes
  <2>0. overlapped \subseteq overlapped'
    BY HistoryGrows
  <2>1. notes[u] \subseteq {status[u]} /\ notes[u] \subseteq Terminal
    BY <2>0 DEF IInv, OneOutcome, TypeOK
  <2>2. CASE Ended(u)
    BY <1>2, <2>1, <2>2, EndedStays
  <2>3. CASE ~Ended(u)
    BY <1>2, <2>1, <2>3 DEF Ended
  <2>. QED  BY <2>2, <2>3
<1>3. Next => notes' = notes \/ \E t \in Task : Publish(t)
  BY DEF Next, Progress, Runs, Handles, Launch, Kill, Recover, RunnerStarts, NeverRuns, RunnerGone,
     RunnerEnds, Ask, Answer, HandlerStarts, ThreadReads, ThreadDropped, ThreadWrites, Crash, Restart
<1>. QED  BY <1>0, <1>1, <1>2, <1>3

LEMMA NotLostStep == IInv /\ [Next]_vars => NotLostWhileLive'
<1>. SUFFICES ASSUME IInv, [Next]_vars, NEW u \in Task, Live(u)' PROVE status'[u] # "lost"
  BY DEF NotLostWhileLive
<1>. USE DEF IInv, records, runners, approvals, process
<1>a. Live(u) => status[u] # "lost"
  BY DEF NotLostWhileLive
<1>b. "lost" \in Terminal
  BY DEF Terminal
<1>0. CASE UNCHANGED vars
  BY <1>0, <1>a DEF vars, Live
<1>1. ASSUME NEW t \in Task, Launch(t) PROVE status'[u] # "lost"
  BY <1>1, <1>a DEF Launch, TypeOK, Live
<1>2. ASSUME NEW t \in Task, Kill(t) PROVE status'[u] # "lost"
  BY <1>2, <1>a, Marked DEF Kill, Live, Terminal
<1>3. CASE Recover \/ Restart
  <2>1. RecoverAll /\ Live(u)
    BY <1>3 DEF Recover, Restart, Live
  <2>. QED  BY <2>1, <1>a, Recovered
<1>4. ASSUME NEW t \in Task, Publish(t) \/ RunnerStarts(t) \/ NeverRuns(t) \/ RunnerGone(t)
      PROVE status'[u] # "lost"
  <2>1. Live(u)
    BY <1>4 DEF Publish, RunnerStarts, NeverRuns, RunnerGone, TypeOK, Live
  <2>2. status'[u] \in {status[u], "running"}
    BY <1>4 DEF Publish, RunnerStarts, NeverRuns, RunnerGone, TypeOK
  <2>. QED  BY <2>1, <2>2, <1>a
<1>5. ASSUME NEW t \in Task, NEW s \in Terminal \ {"lost"}, RunnerEnds(t, s) PROVE status'[u] # "lost"
  <2>1. Live(u)
    BY <1>5 DEF RunnerEnds, TypeOK, Live
  <2>2. s \in Terminal /\ s # "lost" /\ MarkTerminal(t, s)
    BY <1>5 DEF RunnerEnds
  <2>3. status'[u] = status[u] \/ status'[u] = s
    BY <2>2, Marked
  <2>. QED  BY <2>1, <2>2, <2>3, <1>a
<1>6. ASSUME NEW r \in Request, Ask(r) \/ Answer(r) PROVE status'[u] # "lost"
  BY <1>6, <1>a DEF Ask, Answer, Live
<1>7. ASSUME NEW e \in Event, Handles(e) PROVE status'[u] # "lost"
  BY <1>7, <1>a DEF Handles, HandlerStarts, ThreadReads, ThreadDropped, ThreadWrites, Live, TypeOK
<1>8. CASE Crash
  BY <1>8 DEF Crash, Live, TypeOK
<1>. QED  BY <1>0, <1>1, <1>2, <1>3, <1>4, <1>5, <1>6, <1>7, <1>8 DEF Next, Progress, Runs

LEMMA NoOrphanStep == IInv /\ [Next]_vars => NoOrphanRequests'
<1>. SUFFICES ASSUME IInv, [Next]_vars, NEW q \in Request, runner'[TaskOf[q]] \notin {"soul", "cleanup"}
              PROVE request'[q] # "pending"
  BY DEF NoOrphanRequests, PendingOf
<1>. USE DEF IInv, records, runners, approvals, process
<1>a. TaskOf[q] \in Task
  BY AgentTaskAssumption
<1>b. runner[TaskOf[q]] \notin {"soul", "cleanup"} => request[q] # "pending"
  BY <1>a DEF NoOrphanRequests, PendingOf
<1>0. CASE UNCHANGED vars
  BY <1>0, <1>b DEF vars
<1>1. ASSUME NEW t \in Task, Launch(t) \/ Publish(t) \/ RunnerStarts(t) \/ NeverRuns(t)
      PROVE request'[q] # "pending"
  BY <1>1, <1>a, <1>b DEF Launch, Publish, RunnerStarts, NeverRuns, Known, TypeOK
<1>2. ASSUME NEW R, Resolve(R), runner' = runner PROVE request'[q] # "pending"
  BY <1>2, <1>b DEF Resolve
<1>3. ASSUME NEW t \in Task, Kill(t) PROVE request'[q] # "pending"
  BY <1>2, <1>3 DEF Kill
<1>4. ASSUME NEW r \in Request, Answer(r) PROVE request'[q] # "pending"
  BY <1>2, <1>4 DEF Answer
<1>5. ASSUME NEW r \in Request, Ask(r) PROVE request'[q] # "pending"
  BY <1>5, <1>b DEF Ask, TypeOK
<1>6. CASE Recover \/ Restart
  BY <1>6, <1>b DEF Recover, Restart
<1>7. ASSUME NEW t \in Task, runner'[t] = "gone", runner' = [runner EXCEPT ![t] = "gone"],
             CancelsRequests(t)
      PROVE request'[q] # "pending"
  <2>1. TaskOf[q] = t \/ runner'[TaskOf[q]] = runner[TaskOf[q]]
    BY <1>7, <1>a DEF TypeOK
  <2>. QED  BY <1>7, <2>1, <1>b DEF CancelsRequests, PendingOf
<1>8. ASSUME NEW t \in Task, RunnerGone(t) PROVE request'[q] # "pending"
  <2>1. runner' = [runner EXCEPT ![t] = "gone"] /\ CancelsRequests(t)
    BY <1>8 DEF RunnerGone
  <2>. QED  BY <2>1, <1>7 DEF TypeOK
<1>9. ASSUME NEW t \in Task, NEW s \in Terminal \ {"lost"}, RunnerEnds(t, s)
      PROVE request'[q] # "pending"
  <2>1. CASE runner' = [runner EXCEPT ![t] = "cleanup"] /\ UNCHANGED request
    BY <2>1, <1>a, <1>b DEF TypeOK
  <2>2. CASE runner' = [runner EXCEPT ![t] = "gone"] /\ CancelsRequests(t)
    BY <2>2, <1>7 DEF TypeOK
  <2>. QED  BY <1>9, <2>1, <2>2 DEF RunnerEnds
<1>10. ASSUME NEW e \in Event, Handles(e) PROVE request'[q] # "pending"
  BY <1>10, <1>b DEF Handles, HandlerStarts, ThreadReads, ThreadDropped, ThreadWrites
<1>11. CASE Crash
  BY <1>11 DEF Crash
<1>. QED  BY <1>0, <1>1, <1>3, <1>4, <1>5, <1>6, <1>8, <1>9, <1>10, <1>11 DEF Next, Progress, Runs

LEMMA InvStep == IInv /\ [Next]_vars => IInv'
<1>. SUFFICES ASSUME IInv, [Next]_vars PROVE IInv'
  OBVIOUS
<1>1. TypeOK'
  BY TypeStep DEF IInv
<1>2. Known' /\ Silent' /\ Down' /\ CopiesAgree' /\ WayOutEnded' /\ Accounted'
  BY KnownStep, SilentStep, DownStep, CopiesStep, WayOutStep, AccountedStep
<1>3. MarkedFor' /\ OneWorks' /\ OneOutcome' /\ NotLostWhileLive' /\ NoOrphanRequests'
  BY MarkedForStep, OneWorksStep, OneOutcomeStep, NotLostStep, NoOrphanStep
<1>. QED  BY <1>1, <1>2, <1>3 DEF IInv

LEMMA Invariance == Spec => []IInv
BY InitInv, InvStep, PTL DEF Spec

---------------------------------------------------------------------------
\* What is published of a task is one outcome, that of its record, unless a thread
\* held the record when the task ended.
THEOREM OutcomesAreOne == Spec => []OneOutcome
<1>1. IInv => OneOutcome
  BY DEF IInv
<1>. QED  BY <1>1, Invariance, PTL

\* recover never takes a task of this process for lost while its runner works.
THEOREM LiveTasksAreNotLost == Spec => []NotLostWhileLive
<1>1. IInv => NotLostWhileLive
  BY DEF IInv
<1>. QED  BY <1>1, Invariance, PTL

\* However a runner ends, run leaves no request of its task to the user.
THEOREM NoRequestIsOrphaned == Spec => []NoOrphanRequests
<1>1. IInv => NoOrphanRequests
  BY DEF IInv
<1>. QED  BY <1>1, Invariance, PTL

\* Without a crash an instance stays marked only for a runner that works or that was
\* cancelled before its first step.
THEOREM InstancesAreFreed == Spec => []InstanceFreed
<1>1. IInv => InstanceFreed
  BY DEF IInv, MarkedFor, InstanceFreed, Working, Live
<1>. QED  BY <1>1, Invariance, PTL

\* The mark that the Agent tool tests keeps a second soul out of the instance as long
\* as no thread overwrites the record of an ended task.
THEOREM SoulsAreAlone == Spec => []OneSoul
<1>1. IInv => OneSoul
  BY DEF IInv, OneWorks, OneSoul, Working
<1>. QED  BY <1>1, Invariance, PTL

---------------------------------------------------------------------------
\* The mark "awaiting approval".  Its invariant rests on IInv.

\* A handler is on its way to write the record.
Busy(e) == handler[e] \in {"queued", "doomed", "read"}

\* `raced` notes the tasks with two of them.
OneBusy ==
  \A e, f \in Event :
    Busy(e) /\ Busy(f) /\ TaskOf[e[1]] = TaskOf[f[1]] => e = f \/ TaskOf[e[1]] \in raced

\* There are no events of a request that was not made.
Unasked == \A e \in Event : request[e[1]] = "none" => handler[e] = "none"

\* The handler of an answer starts after that of its request.
InOrder ==
  \A r \in Request :
    handler[<<r, "created">>] = "ready" => handler[<<r, "resolved">>] \in {"none", "ready"}

\* While the soul runs, a request that is not pending any more was followed by its event.
Followed ==
  \A r \in Request :
    handler[<<r, "created">>] # "none" /\ runner[TaskOf[r]] = "soul" =>
      request[r] = "pending" \/ handler[<<r, "resolved">>] # "none"

\* Handlers are cancelled when the soul is out.
DoomedLate == \A e \in Event : handler[e] = "doomed" => runner[TaskOf[e[1]]] # "soul"

\* A task awaits nothing before its runner has started.
NotYet == \A t \in Task : runner[t] = "scheduled" => status[t] # "awaiting_approval"

\* The task is marked, or about to be.
MayAwait(t) ==
  status[t] = "awaiting_approval" \/ \E r \in Request : TaskOf[r] = t /\ Busy(<<r, "created">>)
\* A handler is there that looks whether the mark is due to go, or takes it away.
Clearing(r) == handler[<<r, "resolved">>] = "ready" \/ Busy(<<r, "resolved">>)
Unmarks(t) == \E r \in Request : TaskOf[r] = t /\ Clearing(r)

Watched ==
  \A t \in Task \ (raced \cup overlapped) :
    runner[t] = "soul" /\ MayAwait(t) => PendingOf(t) # {} \/ Unmarks(t)

AInv == OneBusy /\ Unasked /\ InOrder /\ Followed /\ DoomedLate /\ NotYet /\ Watched

LEMMA EventPair ==
  /\ \A e \in Event : e = <<e[1], e[2]>> /\ e[2] \in {"created", "resolved"} /\ e[1] \in Request
  /\ \A r \in Request : <<r, "created">> \in Event /\ <<r, "resolved">> \in Event
BY DEF Event

LEMMA AInit == Init => AInv
<1>. SUFFICES ASSUME Init PROVE AInv
  OBVIOUS
<1>1. OneBusy /\ DoomedLate /\ Unasked
  BY DEF Init, OneBusy, DoomedLate, Unasked, Busy
<1>2. InOrder /\ Followed
  BY EventPair DEF Init, InOrder, Followed
<1>3. NotYet /\ Watched
  BY AgentTaskAssumption DEF Init, NotYet, Watched
<1>. QED  BY <1>1, <1>2, <1>3 DEF AInv

\* What a step does to the handlers, in a form the lemmas below share.
LEMMA ResolveHandlers ==
  ASSUME TypeOK, NEW R, Resolve(R)
  PROVE  /\ \A e \in Event : Busy(e)' => Busy(e)
         /\ \A e \in Event : e[2] = "created" => handler'[e] = handler[e]
         /\ \A e \in Event : handler'[e] = handler[e] \/ handler'[e] = "ready"
BY EventPair DEF Resolve, Busy

LEMMA EndsHandlers ==
  ASSUME TypeOK, NEW t \in Task, NEW s, RunnerEnds(t, s)
  PROVE  /\ \A e \in Event : Busy(e)' => Busy(e)
         /\ \A e \in Event : handler'[e] = "ready" => handler[e] = "ready"
         /\ \A e \in Event : handler'[e] = "none" <=> handler[e] = "none"
         /\ \A e \in Event : TaskOf[e[1]] # t => handler'[e] = handler[e]
         /\ \A e \in Event : handler'[e] = "doomed" => handler[e] = "doomed" \/ TaskOf[e[1]] = t
         /\ \A e \in Event : TaskOf[e[1]] = t => handler'[e] # "ready"
BY DEF RunnerEnds, Busy, In, Handlers, TypeOK

LEMMA OneBusyStep == IInv /\ AInv /\ [Next]_vars => OneBusy'
<1>. SUFFICES ASSUME IInv, AInv, [Next]_vars, NEW e \in Event, NEW f \in Event,
                     Busy(e)', Busy(f)', TaskOf[e[1]] = TaskOf[f[1]], e # f
              PROVE TaskOf[e[1]] \in raced'
  BY DEF OneBusy
<1>. USE DEF IInv, AInv, records, runners, approvals, process
<1>a. ASSUME Busy(e), Busy(f), raced \subseteq raced' PROVE TaskOf[e[1]] \in raced'
  BY <1>a DEF OneBusy
<1>0. CASE UNCHANGED vars
  BY <1>0, <1>a DEF vars, Busy
<1>1. ASSUME NEW t \in Task, Launch(t) \/ Publish(t) \/ RunnerStarts(t) \/ NeverRuns(t) \/ RunnerGone(t)
      PROVE TaskOf[e[1]] \in raced'
  BY <1>1, <1>a DEF Launch, Publish, RunnerStarts, NeverRuns, RunnerGone, Busy
<1>2. ASSUME NEW t \in Task, Kill(t) PROVE TaskOf[e[1]] \in raced'
  BY <1>2, <1>a, ResolveHandlers DEF Kill
<1>3. ASSUME NEW r \in Request, Answer(r) PROVE TaskOf[e[1]] \in raced'
  BY <1>3, <1>a, ResolveHandlers DEF Answer
<1>4. ASSUME NEW r \in Request, Ask(r) PROVE TaskOf[e[1]] \in raced'
  BY <1>4, <1>a DEF Ask, Busy, TypeOK
<1>5. CASE Recover \/ Restart
  BY <1>5, <1>a DEF Recover, Restart, Busy
<1>6. ASSUME NEW t \in Task, NEW s \in Terminal \ {"lost"}, RunnerEnds(t, s) PROVE TaskOf[e[1]] \in raced'
  BY <1>6, <1>a, EndsHandlers DEF RunnerEnds
<1>7. ASSUME NEW g \in Event, ThreadReads(g) \/ ThreadDropped(g) \/ ThreadWrites(g)
      PROVE TaskOf[e[1]] \in raced'
  BY <1>7, <1>a DEF ThreadReads, ThreadDropped, ThreadWrites, Move, Busy, TypeOK
<1>8. ASSUME NEW g \in Event, HandlerStarts(g) PROVE TaskOf[e[1]] \in raced'
  <2>1. \A h \in Event : h # g => handler'[h] = handler[h]
    BY <1>8 DEF HandlerStarts, Move, TypeOK
  <2>2. CASE e # g /\ f # g
    BY <1>8, <1>a, <2>1, <2>2 DEF HandlerStarts, Busy
  <2>3. ASSUME NEW h \in Event, h # g, TaskOf[h[1]] = TaskOf[g[1]], Busy(h)', Busy(g)'
        PROVE TaskOf[g[1]] \in raced'
    <3>1. MarkIsDue(g)
      BY <1>8, <2>3 DEF HandlerStarts, Move, Busy, TypeOK
    <3>2. h \in In(TaskOf[g[1]], {"queued", "doomed", "read"})
      BY <2>1, <2>3 DEF In, Handlers, Busy
    <3>. QED  BY <1>8, <3>1, <3>2 DEF HandlerStarts
  <2>4. CASE e = g
    BY <2>3, <2>4
  <2>5. CASE f = g
    BY <2>3, <2>5
  <2>. QED  BY <2>2, <2>4, <2>5
<1>9. CASE Crash
  BY <1>9 DEF Crash, Busy
<1>. QED  BY <1>0, <1>1, <1>2, <1>3, <1>4, <1>5, <1>6, <1>7, <1>8, <1>9
          DEF Next, Progress, Runs, Handles

LEMMA UnaskedStep == IInv /\ AInv /\ [Next]_vars => Unasked'
<1>. SUFFICES ASSUME IInv, AInv, [Next]_vars, NEW e \in Event, request'[e[1]] = "none"
              PROVE handler'[e] = "none"
  BY DEF Unasked
<1>. USE DEF IInv, AInv, records, runners, approvals, process
<1>a. e[1] \in Request /\ (request[e[1]] = "none" => handler[e] = "none")
  BY EventPair DEF Unasked
<1>0. CASE UNCHANGED vars
  BY <1>0, <1>a DEF vars
<1>1. ASSUME NEW t \in Task, Launch(t) \/ Publish(t) \/ RunnerStarts(t) \/ NeverRuns(t)
      PROVE handler'[e] = "none"
  BY <1>1, <1>a DEF Launch, Publish, RunnerStarts, NeverRuns
<1>2. ASSUME NEW R, Resolve(R) PROVE handler'[e] = "none"
  BY <1>2, <1>a DEF Resolve
<1>3. ASSUME NEW t \in Task, Kill(t) PROVE handler'[e] = "none"
  BY <1>2, <1>3 DEF Kill
<1>4. ASSUME NEW r \in Request, Answer(r) PROVE handler'[e] = "none"
  BY <1>2, <1>4 DEF Answer
<1>5. ASSUME NEW r \in Request, Ask(r) PROVE handler'[e] = "none"
  <2>1. e[1] # r
    BY <1>5 DEF Ask, TypeOK
  <2>2. e # <<r, "created">>
    BY <2>1
  <2>. QED  BY <1>5, <1>a, <2>1, <2>2 DEF Ask, TypeOK
<1>6. CASE Recover \/ Restart
  BY <1>6, <1>a DEF Recover, Restart
<1>7. ASSUME NEW t \in Task, NEW s \in Terminal \ {"lost"}, RunnerEnds(t, s) PROVE handler'[e] = "none"
  <2>1. request'[e[1]] = request[e[1]] \/ request'[e[1]] = "over"
    BY <1>7, <1>a DEF RunnerEnds, CancelsRequests
  <2>. QED  BY <1>7, <1>a, <2>1, EndsHandlers
<1>8. ASSUME NEW t \in Task, RunnerGone(t) PROVE handler'[e] = "none"
  BY <1>8, <1>a DEF RunnerGone, CancelsRequests
<1>9. ASSUME NEW g \in Event, Handles(g) PROVE handler'[e] = "none"
  BY <1>9, <1>a DEF Handles, HandlerStarts, ThreadReads, ThreadDropped, ThreadWrites, Move, TypeOK
<1>10. CASE Crash
  BY <1>10, <1>a DEF Crash
<1>. QED  BY <1>0, <1>1, <1>3, <1>4, <1>5, <1>6, <1>7, <1>8, <1>9, <1>10 DEF Next, Progress, Runs

LEMMA InOrderStep == IInv /\ AInv /\ [Next]_vars => InOrder'
<1>. SUFFICES ASSUME IInv, AInv, [Next]_vars, NEW r \in Request, handler'[<<r, "created">>] = "ready"
              PROVE handler'[<<r, "resolved">>] \in {"none", "ready"}
  BY DEF InOrder
<1>. USE DEF IInv, AInv, records, runners, approvals, process
<1>. DEFINE c == <<r, "created">>  d == <<r, "resolved">>
<1>a. c \in Event /\ d \in Event /\ c # d /\ c[1] = r /\ d[1] = r /\ c[2] = "created" /\ d[2] = "resolved"
  BY EventPair
<1>b. handler[c] = "ready" => handler[d] \in {"none", "ready"}
  BY DEF InOrder
<1>. HIDE DEF c, d
<1>. SUFFICES ASSUME handler'[c] = "ready" PROVE handler'[d] \in {"none", "ready"}
  BY DEF c, d
<1>0. CASE UNCHANGED vars
  BY <1>0, <1>b DEF vars
<1>1. ASSUME NEW t \in Task, Launch(t) \/ Publish(t) \/ RunnerStarts(t) \/ NeverRuns(t) \/ RunnerGone(t)
      PROVE handler'[d] \in {"none", "ready"}
  BY <1>1, <1>b DEF Launch, Publish, RunnerStarts, NeverRuns, RunnerGone
<1>2. ASSUME NEW t \in Task, Kill(t) PROVE handler'[d] \in {"none", "ready"}
  BY <1>2, <1>a, <1>b, ResolveHandlers DEF Kill
<1>3. ASSUME NEW q \in Request, Answer(q) PROVE handler'[d] \in {"none", "ready"}
  BY <1>3, <1>a, <1>b, ResolveHandlers DEF Answer
<1>4. ASSUME NEW q \in Request, Ask(q) PROVE handler'[d] \in {"none", "ready"}
  <2>1. handler'[d] = handler[d]
    <3>1. d # <<q, "created">>
      BY <1>a
    <3>. QED  BY <1>4, <1>a, <3>1 DEF Ask, TypeOK
  <2>2. CASE r = q
    BY <1>4, <1>a, <2>1, <2>2 DEF Ask, Unasked
  <2>3. CASE r # q
    <3>1. c # <<q, "created">>
      BY <1>a, <2>3
    <3>. QED  BY <1>4, <1>a, <1>b, <2>1, <3>1 DEF Ask, TypeOK
  <2>. QED  BY <2>2, <2>3
<1>5. CASE Recover \/ Restart
  BY <1>5, <1>b DEF Recover, Restart
<1>6. ASSUME NEW t \in Task, NEW s \in Terminal \ {"lost"}, RunnerEnds(t, s)
      PROVE handler'[d] \in {"none", "ready"}
  BY <1>6, <1>a, <1>b, EndsHandlers
<1>7. ASSUME NEW g \in Event, ThreadReads(g) \/ ThreadDropped(g) \/ ThreadWrites(g)
      PROVE handler'[d] \in {"none", "ready"}
  BY <1>7, <1>a, <1>b DEF ThreadReads, ThreadDropped, ThreadWrites, Move, TypeOK
<1>8. ASSUME NEW g \in Event, HandlerStarts(g) PROVE handler'[d] \in {"none", "ready"}
  <2>1. c # g /\ handler[c] = "ready"
    BY <1>8, <1>a DEF HandlerStarts, Move, TypeOK
  <2>2. d # g
    BY <1>8, <1>a, <2>1 DEF HandlerStarts, c
  <2>. QED  BY <1>8, <1>a, <1>b, <2>1, <2>2 DEF HandlerStarts, Move, TypeOK
<1>9. CASE Crash
  BY <1>9, <1>a DEF Crash
<1>. QED  BY <1>0, <1>1, <1>2, <1>3, <1>4, <1>5, <1>6, <1>7, <1>8, <1>9
          DEF Next, Progress, Runs, Handles

LEMMA FollowedStep == IInv /\ AInv /\ [Next]_vars => Followed'
<1>. SUFFICES ASSUME IInv, AInv, [Next]_vars, NEW r \in Request, handler'[<<r, "created">>] # "none",
                     runner'[TaskOf[r]] = "soul"
              PROVE request'[r] = "pending" \/ handler'[<<r, "resolved">>] # "none"
  BY DEF Followed
<1>. USE DEF IInv, AInv, records, runners, approvals, process
<1>. DEFINE c == <<r, "created">>  d == <<r, "resolved">>
            Goal == request'[r] = "pending" \/ handler'[d] # "none"
<1>a. c \in Event /\ d \in Event /\ c[1] = r /\ d[1] = r /\ c[2] = "created" /\ d[2] = "resolved"
  BY EventPair
<1>b. handler[c] # "none" /\ runner[TaskOf[r]] = "soul" => request[r] = "pending" \/ handler[d] # "none"
  BY DEF Followed
<1>c. TaskOf[r] \in Task
  BY AgentTaskAssumption
<1>d. handler'[c] # "none"
  OBVIOUS
<1>. SUFFICES Goal
  OBVIOUS
<1>. HIDE DEF c, d
<1>0. CASE UNCHANGED vars
  BY <1>0, <1>b, <1>d DEF vars
<1>1. ASSUME NEW t \in Task, Launch(t) \/ Publish(t) \/ NeverRuns(t) PROVE Goal
  BY <1>1, <1>b, <1>c, <1>d DEF Launch, Publish, NeverRuns, TypeOK
<1>2. ASSUME NEW t \in Task, RunnerStarts(t) PROVE Goal
  <2>1. runner[TaskOf[r]] # "scheduled"
    BY <1>2, <1>a, <1>d DEF RunnerStarts, Silent
  <2>. QED  BY <1>2, <1>b, <1>c, <1>d, <2>1 DEF RunnerStarts, TypeOK
<1>3. ASSUME NEW R, Resolve(R), runner' = runner PROVE Goal
  <2>1. CASE r \in R
    <3>1. handler'[d] = "ready"
      BY <1>3, <1>a, <2>1 DEF Resolve, Subscribed
    <3>. QED  BY <3>1
  <2>2. CASE r \notin R
    BY <1>3, <1>a, <1>b, <1>d, <2>2 DEF Resolve
  <2>. QED  BY <2>1, <2>2
<1>4. ASSUME NEW t \in Task, Kill(t) PROVE Goal
  BY <1>3, <1>4 DEF Kill
<1>5. ASSUME NEW q \in Request, Answer(q) PROVE Goal
  BY <1>3, <1>5 DEF Answer
<1>6. ASSUME NEW q \in Request, Ask(q) PROVE Goal
  <2>1. CASE r = q
    BY <1>6, <2>1 DEF Ask, TypeOK
  <2>2. CASE r # q
    <3>1. c # <<q, "created">> /\ d # <<q, "created">>
      BY <1>a, <2>2
    <3>. QED  BY <1>6, <1>a, <1>b, <1>d, <2>2, <3>1 DEF Ask, TypeOK
  <2>. QED  BY <2>1, <2>2
<1>7. CASE Recover \/ Restart
  BY <1>7, <1>b, <1>d DEF Recover, Restart
<1>8. ASSUME NEW t \in Task, NEW s \in Terminal \ {"lost"}, RunnerEnds(t, s) PROVE Goal
  <2>1. TaskOf[r] # t /\ runner[TaskOf[r]] = "soul"
    BY <1>8, <1>c DEF RunnerEnds, TypeOK
  <2>2. request'[r] = request[r]
    BY <1>8, <2>1 DEF RunnerEnds, CancelsRequests, PendingOf
  <2>3. handler'[c] = handler[c] /\ handler'[d] = handler[d]
    BY <1>8, <1>a, <2>1, EndsHandlers
  <2>. QED  BY <1>b, <1>d, <2>1, <2>2, <2>3
<1>9. ASSUME NEW t \in Task, RunnerGone(t) PROVE Goal
  <2>1. TaskOf[r] # t /\ runner[TaskOf[r]] = "soul" /\ handler' = handler
    BY <1>9, <1>c DEF RunnerGone, TypeOK
  <2>2. request'[r] = request[r]
    BY <1>9, <2>1 DEF RunnerGone, CancelsRequests, PendingOf
  <2>. QED  BY <1>b, <1>d, <2>1, <2>2
<1>10. ASSUME NEW g \in Event, Handles(g) PROVE Goal
  <2>1. UNCHANGED <<request, runner>>
    BY <1>10 DEF Handles, HandlerStarts, ThreadReads, ThreadDropped, ThreadWrites
  <2>2. \A h \in Event : handler'[h] = "none" <=> handler[h] = "none"
    BY <1>10 DEF Handles, HandlerStarts, ThreadReads, ThreadDropped, ThreadWrites, Move, TypeOK
  <2>. QED  BY <1>a, <1>b, <1>d, <2>1, <2>2
<1>11. CASE Crash
  BY <1>11, <1>c DEF Crash, Live
<1>. QED  BY <1>0, <1>1, <1>2, <1>4, <1>5, <1>6, <1>7, <1>8, <1>9, <1>10, <1>11
          DEF Next, Progress, Runs

LEMMA DoomedLateStep == IInv /\ AInv /\ [Next]_vars => DoomedLate'
<1>. SUFFICES ASSUME IInv, AInv, [Next]_vars, NEW e \in Event, handler'[e] = "doomed"
              PROVE runner'[TaskOf[e[1]]] # "soul"
  BY DEF DoomedLate
<1>. USE DEF IInv, AInv, records, runners, approvals, process
<1>a. TaskOf[e[1]] \in Task
  BY EventType
<1>b. handler[e] = "doomed" => runner[TaskOf[e[1]]] \notin {"none", "scheduled", "soul"}
  BY DEF DoomedLate, Silent
<1>0. CASE UNCHANGED vars
  BY <1>0, <1>b DEF vars
<1>1. ASSUME NEW t \in Task, Launch(t) \/ Publish(t) \/ RunnerStarts(t) \/ NeverRuns(t) \/ RunnerGone(t)
      PROVE runner'[TaskOf[e[1]]] # "soul"
  BY <1>1, <1>a, <1>b DEF Launch, Publish, RunnerStarts, NeverRuns, RunnerGone, TypeOK
<1>2. ASSUME NEW t \in Task, Kill(t) PROVE runner'[TaskOf[e[1]]] # "soul"
  BY <1>2, <1>b, ResolveHandlers DEF Kill
<1>3. ASSUME NEW r \in Request, Answer(r) PROVE runner'[TaskOf[e[1]]] # "soul"
  BY <1>3, <1>b, ResolveHandlers DEF Answer
<1>4. ASSUME NEW r \in Request, Ask(r) PROVE runner'[TaskOf[e[1]]] # "soul"
  BY <1>4, <1>b DEF Ask, TypeOK
<1>5. CASE Recover \/ Restart
  BY <1>5, <1>b DEF Recover, Restart
<1>6. ASSUME NEW t \in Task, NEW s \in Terminal \ {"lost"}, RunnerEnds(t, s)
      PROVE runner'[TaskOf[e[1]]] # "soul"
  <2>1. handler[e] = "doomed" \/ TaskOf[e[1]] = t
    BY <1>6, EndsHandlers
  <2>. QED  BY <1>6, <1>a, <1>b, <2>1 DEF RunnerEnds, TypeOK
<1>7. ASSUME NEW g \in Event, Handles(g) PROVE runner'[TaskOf[e[1]]] # "soul"
  BY <1>7, <1>b DEF Handles, HandlerStarts, ThreadReads, ThreadDropped, ThreadWrites, Move, TypeOK
<1>8. CASE Crash
  BY <1>8 DEF Crash
<1>. QED  BY <1>0, <1>1, <1>2, <1>3, <1>4, <1>5, <1>6, <1>7, <1>8 DEF Next, Progress, Runs

LEMMA NotYetStep == IInv /\ AInv /\ [Next]_vars => NotYet'
<1>. SUFFICES ASSUME IInv, AInv, [Next]_vars, NEW u \in Task, runner'[u] = "scheduled"
              PROVE status'[u] # "awaiting_approval"
  BY DEF NotYet
<1>. USE DEF IInv, AInv, records, runners, approvals, process
<1>a. runner[u] = "scheduled" => status[u] # "awaiting_approval"
  BY DEF NotYet
<1>b. "awaiting_approval" \notin Terminal
  BY DEF Terminal
<1>0. CASE UNCHANGED vars
  BY <1>0, <1>a DEF vars
<1>1. ASSUME NEW t \in Task, Launch(t) PROVE status'[u] # "awaiting_approval"
  BY <1>1, <1>a DEF Launch, TypeOK
<1>2. ASSUME NEW t \in Task, Kill(t) PROVE status'[u] # "awaiting_approval"
  <2>1. "killed" \in Terminal /\ MarkTerminal(t, "killed") /\ runner' = runner
    BY <1>2 DEF Kill, Terminal
  <2>. QED  BY <1>a, <1>b, <2>1, Marked
<1>3. CASE Recover \/ Restart
  <2>1. RecoverAll /\ runner' = runner
    BY <1>3 DEF Recover, Restart
  <2>. QED  BY <2>1, <1>a, Recovered
<1>4. ASSUME NEW t \in Task, Publish(t) \/ RunnerStarts(t) \/ NeverRuns(t) \/ RunnerGone(t)
      PROVE status'[u] # "awaiting_approval"
  BY <1>4, <1>a DEF Publish, RunnerStarts, NeverRuns, RunnerGone, TypeOK
<1>5. ASSUME NEW t \in Task, NEW s \in Terminal \ {"lost"}, RunnerEnds(t, s)
      PROVE status'[u] # "awaiting_approval"
  <2>1. runner[u] = "scheduled"
    BY <1>5 DEF RunnerEnds, TypeOK
  <2>2. s \in Terminal /\ MarkTerminal(t, s)
    BY <1>5 DEF RunnerEnds
  <2>. QED  BY <2>1, <2>2, <1>a, <1>b, Marked
<1>6. ASSUME NEW r \in Request, Ask(r) \/ Answer(r) PROVE status'[u] # "awaiting_approval"
  BY <1>6, <1>a DEF Ask, Answer
<1>7. ASSUME NEW e \in Event, HandlerStarts(e) \/ ThreadReads(e) \/ ThreadDropped(e)
      PROVE status'[u] # "awaiting_approval"
  BY <1>7, <1>a DEF HandlerStarts, ThreadReads, ThreadDropped
<1>8. ASSUME NEW e \in Event, ThreadWrites(e) PROVE status'[u] # "awaiting_approval"
  <2>1. runner' = runner /\ TaskOf[e[1]] # u
    BY <1>8 DEF ThreadWrites, Silent
  <2>. QED  BY <1>8, <1>a, <2>1 DEF ThreadWrites, TypeOK
<1>9. CASE Crash
  BY <1>9, <1>a DEF Crash, TypeOK, Live
<1>. QED  BY <1>0, <1>1, <1>2, <1>3, <1>4, <1>5, <1>6, <1>7, <1>8, <1>9
          DEF Next, Progress, Runs, Handles

\* The mark is set or about to be only if an answer is still to come, or its handler.
LEMMA WatchedStep == IInv /\ AInv /\ [Next]_vars => Watched'
<1>. SUFFICES ASSUME IInv, AInv, [Next]_vars, NEW u \in Task, u \notin raced' \cup overlapped',
                     runner'[u] = "soul", MayAwait(u)'
              PROVE PendingOf(u)' # {} \/ Unmarks(u)'
  BY DEF Watched
<1>. USE DEF IInv, AInv, records, runners, approvals, process
<1>. DEFINE Goal == \E r \in Request : TaskOf[r] = u /\ (request'[r] = "pending" \/ Clearing(r)')
            Mine == {r \in Request : TaskOf[r] = u}
<1>g. SUFFICES Goal
  BY DEF PendingOf, Unmarks
<1>m. raced \cup overlapped \subseteq raced' \cup overlapped'
  BY HistoryGrows
<1>n. u \notin raced \cup overlapped
  BY <1>m
\* A step that does not mark the task and leaves its answers, or their handlers.
<1>f. ASSUME runner[u] = "soul", MayAwait(u),
             \A r \in Mine : Clearing(r) => Clearing(r)',
             \A r \in Mine : request[r] = "pending" => request'[r] = "pending" \/ Clearing(r)'
      PROVE Goal
  <2>1. PendingOf(u) # {} \/ Unmarks(u)
    BY <1>f, <1>n DEF Watched
  <2>2. PICK r \in Mine : request[r] = "pending" \/ Clearing(r)
    BY <2>1 DEF PendingOf, Unmarks
  <2>. QED  BY <1>f, <2>2
<1>e. \A r \in Request : /\ <<r, "created">> \in Event /\ <<r, "resolved">> \in Event
                         /\ <<r, "created">> # <<r, "resolved">>
  BY EventPair
<1>0. CASE UNCHANGED vars
  <2>1. MayAwait(u)
    BY <1>0 DEF vars, MayAwait, Busy
  <2>. QED  BY <1>0, <1>f, <2>1 DEF vars, Clearing, Busy
<1>1. ASSUME NEW t \in Task, Launch(t) \/ Publish(t) \/ NeverRuns(t) PROVE Goal
  <2>1. runner[u] = "soul" /\ UNCHANGED <<handler, request>>
    BY <1>1 DEF Launch, Publish, NeverRuns, TypeOK
  <2>2. status'[u] = status[u] \/ status'[u] = "starting"
    BY <1>1 DEF Launch, Publish, NeverRuns, TypeOK
  <2>3. MayAwait(u)
    BY <2>1, <2>2 DEF MayAwait, Busy
  <2>. QED  BY <1>f, <2>1, <2>3 DEF Clearing, Busy
<1>2. ASSUME NEW t \in Task, RunnerStarts(t) PROVE Goal
  <2>1. CASE u = t
    <3>1. \A e \in Event : TaskOf[e[1]] = u => handler'[e] = "none"
      BY <1>2, <2>1 DEF RunnerStarts, Silent
    <3>2. ~\E r \in Request : TaskOf[r] = u /\ Busy(<<r, "created">>)'
      BY <1>e, <3>1 DEF Busy
    <3>3. status'[u] # "awaiting_approval"
      BY <1>2, <2>1 DEF RunnerStarts, TypeOK, Ended, Terminal
    <3>. QED  BY <3>2, <3>3 DEF MayAwait
  <2>2. CASE u # t
    <3>1. runner[u] = "soul" /\ UNCHANGED <<handler, request>> /\ status'[u] = status[u]
      BY <1>2, <2>2 DEF RunnerStarts, TypeOK
    <3>2. MayAwait(u)
      BY <3>1 DEF MayAwait, Busy
    <3>. QED  BY <1>f, <3>1, <3>2 DEF Clearing, Busy
  <2>. QED  BY <2>1, <2>2
<1>3. ASSUME NEW R, Resolve(R), runner' = runner, status'[u] = status[u] \/ status'[u] \in Terminal
      PROVE Goal
  <2>1. \A r \in Mine : r \in R => Clearing(r)'
    BY <1>3, <1>e DEF Resolve, Subscribed, Clearing
  <2>2. \A r \in Mine : r \notin R => handler'[<<r, "resolved">>] = handler[<<r, "resolved">>]
                                     /\ request'[r] = request[r]
    BY <1>3, <1>e DEF Resolve
  <2>3. \A r \in Mine : Busy(<<r, "created">>)' => Busy(<<r, "created">>)
    BY <1>3, <1>e, ResolveHandlers
  <2>4. MayAwait(u)
    BY <1>3, <2>3 DEF MayAwait, Terminal
  <2>5. \A r \in Mine : Clearing(r) => Clearing(r)'
    BY <2>1, <2>2 DEF Clearing, Busy
  <2>. QED  BY <1>3, <1>f, <2>1, <2>2, <2>4, <2>5
<1>4. ASSUME NEW t \in Task, Kill(t) PROVE Goal
  <2>1. "killed" \in Terminal /\ MarkTerminal(t, "killed") /\ runner' = runner /\ Resolve(PendingOf(t))
    BY <1>4 DEF Kill, Terminal
  <2>2. status'[u] = status[u] \/ status'[u] \in Terminal
    BY <2>1, Marked
  <2>. QED  BY <1>3, <2>1, <2>2
<1>5. ASSUME NEW q \in Request, Answer(q) PROVE Goal
  BY <1>3, <1>5 DEF Answer
<1>6. ASSUME NEW q \in Request, Ask(q) PROVE Goal
  <2>1. CASE TaskOf[q] = u
    BY <1>6, <2>1 DEF Ask, TypeOK
  <2>2. CASE TaskOf[q] # u
    <3>1. \A r \in Mine : r # q
      BY <2>2
    <3>2. \A r \in Mine : <<r, "created">> # <<q, "created">> /\ <<r, "resolved">> # <<q, "created">>
      BY <3>1
    <3>3. \A r \in Mine : /\ handler'[<<r, "created">>] = handler[<<r, "created">>]
                          /\ handler'[<<r, "resolved">>] = handler[<<r, "resolved">>]
                          /\ request'[r] = request[r]
      BY <1>6, <1>e, <3>1, <3>2 DEF Ask, TypeOK
    <3>4. runner' = runner /\ status' = status
      BY <1>6 DEF Ask
    <3>5. MayAwait(u)
      BY <3>3, <3>4 DEF MayAwait, Busy
    <3>. QED  BY <1>f, <3>3, <3>4, <3>5 DEF Clearing, Busy
  <2>. QED  BY <2>1, <2>2
<1>7. CASE Recover \/ Restart
  <2>1. RecoverAll /\ UNCHANGED <<runner, handler, request>>
    BY <1>7 DEF Recover, Restart
  <2>2. status'[u] = status[u] \/ status'[u] = "lost"
    BY <2>1, Recovered
  <2>3. MayAwait(u)
    BY <2>1, <2>2 DEF MayAwait, Busy
  <2>. QED  BY <1>f, <2>1, <2>3 DEF Clearing, Busy
<1>8. ASSUME NEW t \in Task, u # t, runner[u] = "soul", status'[u] = status[u],
             \A e \in Event : TaskOf[e[1]] # t => handler'[e] = handler[e],
             \A r \in Request : TaskOf[r] # t => request'[r] = request[r]
      PROVE Goal
  <2>1. \A r \in Mine : /\ handler'[<<r, "created">>] = handler[<<r, "created">>]
                        /\ handler'[<<r, "resolved">>] = handler[<<r, "resolved">>]
                        /\ request'[r] = request[r]
    BY <1>8, <1>e
  <2>2. MayAwait(u)
    BY <1>8, <2>1 DEF MayAwait, Busy
  <2>. QED  BY <1>8, <1>f, <2>1, <2>2 DEF Clearing, Busy
<1>9. ASSUME NEW t \in Task, NEW s \in Terminal \ {"lost"}, RunnerEnds(t, s) PROVE Goal
  <2>1. u # t /\ runner[u] = "soul"
    BY <1>9 DEF RunnerEnds, TypeOK
  <2>2. \A r \in Request : TaskOf[r] # t => request'[r] = request[r]
    BY <1>9 DEF RunnerEnds, CancelsRequests, PendingOf
  <2>3. status'[u] = status[u]
    BY <1>9, <2>1, Marked DEF RunnerEnds
  <2>4. \A e \in Event : TaskOf[e[1]] # t => handler'[e] = handler[e]
    BY <1>9, EndsHandlers
  <2>. QED  BY <1>8, <2>1, <2>2, <2>3, <2>4
<1>10. ASSUME NEW t \in Task, RunnerGone(t) PROVE Goal
  <2>1. u # t /\ runner[u] = "soul" /\ UNCHANGED <<status, handler>>
    BY <1>10 DEF RunnerGone, TypeOK
  <2>2. \A r \in Request : TaskOf[r] # t => request'[r] = request[r]
    BY <1>10 DEF RunnerGone, CancelsRequests, PendingOf
  <2>. QED  BY <1>8, <2>1, <2>2
<1>11. ASSUME NEW g \in Event, Handles(g) PROVE Goal
  <2>. DEFINE q == g[1]
  <2>1. /\ g = <<q, g[2]>> /\ q \in Request /\ g[2] \in {"created", "resolved"}
        /\ runner' = runner /\ request' = request /\ TaskOf[q] \in Task
    BY <1>11, EventPair, EventType DEF Handles, HandlerStarts, ThreadReads, ThreadDropped, ThreadWrites
  <2>2. \A e \in Event : e # g => handler'[e] = handler[e]
    BY <1>11 DEF Handles, HandlerStarts, ThreadReads, ThreadDropped, ThreadWrites, Move, TypeOK
  <2>3. TaskOf[q] # u => status'[u] = status[u]
    BY <1>11, <2>1 DEF Handles, HandlerStarts, ThreadReads, ThreadDropped, ThreadWrites, TypeOK
  <2>4. CASE TaskOf[q] # u
    <3>1. \A e \in Event : TaskOf[e[1]] # TaskOf[q] => handler'[e] = handler[e]
      BY <2>2
    <3>. QED  BY <1>8, <2>1, <2>3, <2>4, <3>1
  <2>5. CASE TaskOf[q] = u /\ HandlerStarts(g)
    <3>1. CASE g[2] = "created"
      <4>1. request[q] = "pending" \/ handler[<<q, "resolved">>] # "none"
        BY <2>1, <2>5, <3>1 DEF HandlerStarts, Followed
      <4>2. handler[<<q, "resolved">>] \in {"none", "ready"}
        BY <2>1, <2>5, <3>1 DEF HandlerStarts, InOrder
      <4>3. handler'[<<q, "resolved">>] = handler[<<q, "resolved">>]
        BY <1>e, <2>1, <2>2, <3>1
      <4>. QED  BY <2>1, <2>5, <4>1, <4>2, <4>3 DEF Clearing
    <3>2. CASE g[2] = "resolved" /\ MarkIsDue(g)
      <4>0. handler'[g] = "queued"
        BY <2>5, <3>2 DEF HandlerStarts, Move, TypeOK
      <4>1. handler'[<<q, "resolved">>] = "queued"
        BY <2>1, <3>2, <4>0
      <4>. QED  BY <2>1, <2>5, <4>1 DEF Clearing, Busy
    <3>3. CASE g[2] = "resolved" /\ ~MarkIsDue(g)
      BY <2>1, <2>5, <3>3 DEF MarkIsDue, PendingOf
    <3>. QED  BY <2>1, <3>1, <3>2, <3>3
  <2>6. CASE TaskOf[q] = u /\ ThreadDropped(g)
    BY <2>1, <2>6 DEF ThreadDropped, DoomedLate
  <2>7. CASE TaskOf[q] = u /\ ThreadReads(g)
    <3>0. status' = status /\ Busy(g)
      BY <2>7 DEF ThreadReads, Busy
    <3>1. MayAwait(u)
      BY <2>1, <2>2, <1>e, <3>0 DEF MayAwait, Busy
    <3>2. CASE ~Skips(g)
      <4>1. handler'[g] = "read"
        BY <2>7, <3>2 DEF ThreadReads, Move, TypeOK
      <4>2. \A r \in Mine : Clearing(r) => Clearing(r)'
        BY <1>e, <2>2, <4>1 DEF Clearing, Busy
      <4>. QED  BY <1>f, <2>1, <3>1, <4>2
    <3>3. CASE Skips(g)
      <4>1. status'[u] # "awaiting_approval"
        BY <2>7, <3>0, <3>3 DEF Skips, Ended, Terminal
      <4>2. handler'[g] = "over"
        BY <2>7, <3>3 DEF ThreadReads, Move, TypeOK
      <4>3. PICK r \in Mine : Busy(<<r, "created">>)'
        BY <4>1 DEF MayAwait
      <4>4. <<r, "created">> # g
        BY <4>2, <4>3 DEF Busy
      <4>5. Busy(<<r, "created">>)
        BY <1>e, <2>2, <4>3, <4>4 DEF Busy
      <4>6. TaskOf[<<r, "created">>[1]] = TaskOf[g[1]] /\ TaskOf[g[1]] = u
        BY <2>7
      <4>. QED  BY <1>e, <1>n, <3>0, <4>4, <4>5, <4>6 DEF OneBusy
    <3>. QED  BY <3>2, <3>3
  <2>8. CASE TaskOf[q] = u /\ ThreadWrites(g)
    <3>0. Busy(g) /\ handler'[g] = "over"
      BY <2>8 DEF ThreadWrites, Move, Busy, TypeOK
    <3>1. CASE g[2] = "created"
      <4>1. MayAwait(u)
        BY <2>1, <2>8, <3>0, <3>1 DEF MayAwait
      <4>2. \A r \in Mine : <<r, "resolved">> # g
        BY <3>1
      <4>3. \A r \in Mine : Clearing(r) => Clearing(r)'
        BY <1>e, <2>2, <4>2 DEF Clearing, Busy
      <4>. QED  BY <1>f, <2>1, <4>1, <4>3
    <3>2. CASE g[2] = "resolved"
      <4>1. status'[u] = "running"
        BY <2>8, <3>2 DEF ThreadWrites, TypeOK
      <4>2. PICK r \in Mine : Busy(<<r, "created">>)'
        BY <4>1 DEF MayAwait
      <4>3. <<r, "created">> # g
        BY <3>0, <4>2 DEF Busy
      <4>4. Busy(<<r, "created">>)
        BY <1>e, <2>2, <4>2, <4>3 DEF Busy
      <4>5. TaskOf[<<r, "created">>[1]] = TaskOf[g[1]] /\ TaskOf[g[1]] = u
        BY <2>8
      <4>. QED  BY <1>e, <1>n, <3>0, <4>3, <4>4, <4>5 DEF OneBusy
    <3>. QED  BY <2>1, <3>1, <3>2
  <2>. QED  BY <1>11, <2>4, <2>5, <2>6, <2>7, <2>8 DEF Handles
<1>12. CASE Crash
  BY <1>12 DEF Crash, Live
<1>. QED  BY <1>0, <1>1, <1>2, <1>4, <1>5, <1>6, <1>7, <1>9, <1>10, <1>11, <1>12
          DEF Next, Progress, Runs

LEMMA AwaitingHolds == IInv /\ AInv => AwaitingIsTrue
<1>. SUFFICES ASSUME IInv, AInv, NEW t \in Task \ (raced \cup overlapped), up,
                     status[t] = "awaiting_approval", In(t, {"ready", "queued", "doomed", "read"}) = {}
              PROVE PendingOf(t) # {}
  BY DEF AwaitingIsTrue
<1>. USE DEF IInv, AInv
<1>1. Active(t) /\ ~Ended(t)
  BY DEF Active, Ended, Terminal
<1>2. Live(t)
  BY <1>1 DEF Accounted
<1>3. runner[t] = "soul"
  BY <1>1, <1>2 DEF Live, NotYet, WayOutEnded, OnTheWayOut
<1>4. ~Unmarks(t)
  <2>1. \A r \in Request : TaskOf[r] = t =>
          handler[<<r, "resolved">>] \notin {"ready", "queued", "doomed", "read"}
    BY EventPair DEF In, Handlers
  <2>. QED  BY <2>1 DEF Unmarks, Clearing, Busy
<1>. QED  BY <1>3, <1>4 DEF Watched, MayAwait

\* A record that awaits an approval is right once its handlers have run, for every
\* task of which no two handlers overlapped.
THEOREM AwaitingMarksAreTrue == Spec => []AwaitingIsTrue
<1>1. Init => IInv /\ AInv
  BY InitInv, AInit
<1>2. IInv /\ AInv /\ [Next]_vars => (IInv /\ AInv)'
  <2>. SUFFICES ASSUME IInv, AInv, [Next]_vars PROVE IInv' /\ AInv'
    OBVIOUS
  <2>1. IInv'
    BY InvStep
  <2>2. OneBusy' /\ Unasked' /\ InOrder' /\ Followed' /\ DoomedLate' /\ NotYet' /\ Watched'
    BY OneBusyStep, UnaskedStep, InOrderStep, FollowedStep, DoomedLateStep, NotYetStep, WatchedStep
  <2>. QED  BY <2>1, <2>2 DEF AInv
<1>. QED  BY <1>1, <1>2, AwaitingHolds, PTL DEF Spec
=============================================================================
