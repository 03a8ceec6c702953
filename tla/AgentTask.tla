------------------------------- MODULE AgentTask -------------------------------
(***************************************************************************)
(* Background agents: the tasks that BackgroundAgentRunner runs in the     *)
(* process of the CLI for one subagent instance, their records, the        *)
(* approvals their tools ask for, and kill, recover and the publication of *)
(* what became of them.  The runner and the manager share an event loop;   *)
(* the two marks that follow an approval run in threads, where reading and *)
(* writing the record are two steps.                                       *)
(***************************************************************************)
EXTENDS Naturals, FiniteSets

CONSTANTS
  Task,        \* tasks the instance is launched or resumed for
  Request,     \* approvals their tools ask for
  TaskOf,      \* request -> task
  MaxCrashes   \* bound on the times the process dies

ASSUME AgentTaskAssumption ==
  /\ TaskOf \in [Request -> Task]
  /\ MaxCrashes \in Nat

\* An approval runtime event is handled by an asyncio task of its own.
Event == Request \X {"created", "resolved"}

VARIABLES
  up,          \* the process runs and has recovered
  crashes,     \* how often it died
  status,      \* task -> status in its record; a timeout is a failure
  runner,      \* task -> where its runner is
  cancelling,  \* the tasks whose runner is about to get a cancellation
  instance,    \* status of the subagent instance
  request,     \* request -> what the approval runtime knows of it
  handler,     \* event -> where its handler is
  notes,       \* task -> terminal reasons published for it
  overlapped,  \* history: tasks that ended while a thread held a copy of the record
  raced        \* history: tasks two handlers of which overlapped

records == <<status, notes, overlapped>>
runners == <<runner, cancelling, instance>>
approvals == <<request, handler, raced>>
process == <<up, crashes>>
vars == <<records, runners, approvals, process>>

Terminal == {"completed", "failed", "killed", "lost"}
Status == {"absent", "starting", "running", "awaiting_approval"} \cup Terminal
Ended(t) == status[t] \in Terminal
Active(t) == status[t] \notin Terminal \cup {"absent"}

\* _live_agent_tasks
Live(t) == runner[t] \in {"scheduled", "soul", "cleanup"}
Handlers(t) == {e \in Event : TaskOf[e[1]] = t}
In(t, places) == {e \in Handlers(t) : handler[e] \in places}

TypeOK ==
  /\ up \in BOOLEAN
  /\ crashes \in 0 .. MaxCrashes
  /\ status \in [Task -> Status]
  /\ runner \in [Task -> {"none", "scheduled", "soul", "cleanup", "gone", "never ran"}]
  /\ cancelling \subseteq Task
  /\ instance \in {"idle", "running_background", "failed", "killed"}
  /\ request \in [Request -> {"none", "pending", "over"}]
  /\ handler \in [Event -> {"none", "ready", "queued", "doomed", "read", "over"}]
  /\ notes \in [Task -> SUBSET Terminal]
  /\ overlapped \subseteq Task
  /\ raced \subseteq Task

Init ==
  /\ up = TRUE
  /\ crashes = 0
  /\ status = [t \in Task |-> "absent"]
  /\ runner = [t \in Task |-> "none"]
  /\ cancelling = {}
  /\ instance = "idle"
  /\ request = [r \in Request |-> "none"]
  /\ handler = [e \in Event |-> "none"]
  /\ notes = [t \in Task |-> {}]
  /\ overlapped = {}
  /\ raced = {}

---------------------------------------------------------------------------
\* The marks of the manager made in the event loop: read, test, write.

\* The tasks R, none of which has ended, end with the status s.
Finish(R, s) ==
  /\ status' = [t \in Task |-> IF t \in R THEN s ELSE status[t]]
  /\ overlapped' = overlapped \cup {t \in R : In(t, {"read"}) # {}}

\* _mark_task_completed, _failed, _timed_out and _killed: nothing when it has ended
MarkTerminal(t, s) == Finish({t} \ {u \in Task : Ended(u)}, s)

\* The requests R are cancelled or answered.  A runner that is subscribed gets
\* an event for each of them.
Subscribed(t) == runner[t] \in {"soul", "cleanup"}
Resolve(R) ==
  /\ request' = [r \in Request |-> IF r \in R THEN "over" ELSE request[r]]
  /\ handler' = [e \in Event |->
       IF e[1] \in R /\ e[2] = "resolved" /\ Subscribed(TaskOf[e[1]])
       THEN "ready" ELSE handler[e]]

PendingOf(t) == {r \in Request : TaskOf[r] = t /\ request[r] = "pending"}

---------------------------------------------------------------------------
\* The Agent tool and the manager.

\* Fault: an instance is free as soon as the record of its task has ended.
NoTaskActive == \A t \in Task : ~Active(t)
\* The instance may be resumed.
Resumable == instance # "running_background"

\* The Agent tool marks the instance and create_agent_task writes the record and
\* schedules the runner.
Launch(t) ==
  /\ up
  /\ status[t] = "absent"
  /\ Resumable
  /\ instance' = "running_background"
  /\ status' = [status EXCEPT ![t] = "starting"]
  /\ runner' = [runner EXCEPT ![t] = "scheduled"]
  /\ UNCHANGED <<notes, overlapped, cancelling, approvals, process>>

\* kill
Kill(t) ==
  /\ up
  /\ Active(t)
  /\ MarkTerminal(t, "killed")
  /\ Resolve(PendingOf(t))
  /\ cancelling' = IF runner[t] \in {"scheduled", "soul"} THEN cancelling \cup {t}
                                                          ELSE cancelling
  /\ UNCHANGED <<notes, runner, instance, raced, process>>

\* Fault: a task that never reported is taken to be on its way.
OnlyRunning == {t \in Task : status[t] \in {"running", "awaiting_approval"} /\ ~Live(t)}
\* The tasks recover finds to have no runner.
Stranded == {t \in Task : Active(t) /\ ~Live(t)}

RecoverAll ==
  /\ Finish(Stranded, "lost")
  /\ instance' = IF Stranded # {} /\ instance = "running_background" THEN "failed" ELSE instance

\* recover, called before every claim of notifications
Recover ==
  /\ up
  /\ Stranded # {}
  /\ RecoverAll
  /\ UNCHANGED <<notes, runner, cancelling, approvals, process>>

\* publish_terminal_notifications; what was published under its key is not again
Publish(t) ==
  /\ up
  /\ Ended(t)
  /\ status[t] \notin notes[t]
  /\ notes' = [notes EXCEPT ![t] = @ \cup {status[t]}]
  /\ UNCHANGED <<status, overlapped, runners, approvals, process>>

---------------------------------------------------------------------------
\* BackgroundAgentRunner.run

\* The first step of the runner: it subscribes and marks the task running.
RunnerStarts(t) ==
  /\ runner[t] = "scheduled"
  /\ t \notin cancelling
  /\ runner' = [runner EXCEPT ![t] = "soul"]
  /\ status' = IF Ended(t) THEN status ELSE [status EXCEPT ![t] = "running"]
  /\ UNCHANGED <<notes, overlapped, cancelling, instance, approvals, process>>

\* Cancelled before its first step, the body of run is never entered; the done
\* callback forgets the task.
NeverRuns(t) ==
  /\ runner[t] = "scheduled"
  /\ t \in cancelling
  /\ runner' = [runner EXCEPT ![t] = "never ran"]
  /\ cancelling' = cancelling \ {t}
  /\ UNCHANGED <<records, instance, approvals, process>>

\* A tool of the agent asks, and create_request publishes it.
Ask(r) ==
  /\ runner[TaskOf[r]] = "soul"
  /\ request[r] = "none"
  /\ request' = [request EXCEPT ![r] = "pending"]
  /\ handler' = [handler EXCEPT ![<<r, "created">>] = "ready"]
  /\ UNCHANGED <<raced, records, runners, process>>

\* The user answers.
Answer(r) ==
  /\ up
  /\ request[r] = "pending"
  /\ Resolve({r})
  /\ UNCHANGED <<raced, records, runners, process>>

\* Fault: the instance is left to the next recover.
NotFreed(s) == instance
\* What the runner makes of the instance.
FreedAs(s) == CASE s = "completed" -> "idle"
                [] s = "killed" -> "killed"
                [] OTHER -> "failed"

\* Fault: the requests are left to their observers.
LeavesRequests(t) == UNCHANGED request
\* cancel_by_source of the finally clause, after unsubscribe
CancelsRequests(t) ==
  request' = [r \in Request |-> IF r \in PendingOf(t) THEN "over" ELSE request[r]]

\* The soul is done, or the runner gets a timeout or a cancellation.  The finally
\* clause cancels the handlers: one that has not begun never does, one whose
\* thread has not begun may still slip in, one that has read goes on.  With no
\* handler to wait for the runner is gone at once.
RunnerEnds(t, s) ==
  /\ runner[t] = "soul"
  /\ s = "killed" \/ t \notin cancelling
  /\ MarkTerminal(t, s)
  /\ instance' = FreedAs(s)
  /\ handler' = [e \in Event |-> CASE e \in In(t, {"ready"}) -> "over"
                                   [] e \in In(t, {"queued"}) -> "doomed"
                                   [] OTHER -> handler[e]]
  /\ \/ /\ In(t, {"ready", "queued", "read"}) # {}
        /\ runner' = [runner EXCEPT ![t] = "cleanup"]
        /\ UNCHANGED request
     \/ /\ In(t, {"ready", "queued", "read"}) = {}
        /\ runner' = [runner EXCEPT ![t] = "gone"]
        /\ CancelsRequests(t)
  /\ cancelling' = cancelling \ {t}
  /\ UNCHANGED <<notes, raced, process>>

\* The rest of the finally clause, when the cancelled handlers are out of the queue.
RunnerGone(t) ==
  /\ runner[t] = "cleanup"
  /\ In(t, {"doomed"}) = {}
  /\ runner' = [runner EXCEPT ![t] = "gone"]
  /\ CancelsRequests(t)
  /\ UNCHANGED <<records, cancelling, instance, handler, raced, process>>

---------------------------------------------------------------------------
\* _apply_approval_runtime_event

Move(e, place) == handler' = [handler EXCEPT ![e] = place]

\* Fault: the test is the wrong way round.
MarkIsLate(e) == e[2] = "created" \/ PendingOf(TaskOf[e[1]]) # {}
\* The mark is due: always for a new request, and for a resolved one when no
\* request of the task is left.
MarkIsDue(e) == e[2] = "created" \/ PendingOf(TaskOf[e[1]]) = {}

\* The handlers start in the order of their events; the order of two requests
\* makes no difference to what follows.
HandlerStarts(e) ==
  /\ handler[e] = "ready"
  /\ e[2] = "resolved" => handler[<<e[1], "created">>] # "ready"
  /\ Move(e, IF MarkIsDue(e) THEN "queued" ELSE "over")
  /\ raced' = IF MarkIsDue(e) /\ In(TaskOf[e[1]], {"queued", "doomed", "read"}) # {}
              THEN raced \cup {TaskOf[e[1]]} ELSE raced
  /\ UNCHANGED <<request, records, runners, process>>

\* Fault: what the thread has read is not looked at.
NeverSkips(e) == FALSE
\* The thread reads a terminal status.
Skips(e) == Ended(TaskOf[e[1]])

\* The thread reads the record: nothing is to be done when the task has ended.
ThreadReads(e) ==
  /\ handler[e] \in {"queued", "doomed"}
  /\ Move(e, IF Skips(e) THEN "over" ELSE "read")
  /\ UNCHANGED <<request, raced, records, runners, process>>

\* The thread never begins: its future was cancelled in the queue.
ThreadDropped(e) ==
  /\ handler[e] = "doomed"
  /\ Move(e, "over")
  /\ UNCHANGED <<request, raced, records, runners, process>>

\* The thread writes the record it has read with a new status:
\* _mark_task_awaiting_approval or _mark_task_running.
ThreadWrites(e) ==
  /\ handler[e] = "read"
  /\ Move(e, "over")
  /\ status' = [status EXCEPT ![TaskOf[e[1]]] =
                  IF e[2] = "created" THEN "awaiting_approval" ELSE "running"]
  /\ UNCHANGED <<request, raced, notes, overlapped, runners, process>>

---------------------------------------------------------------------------
\* The process dies, possibly in the middle of a launch, when the instance is
\* marked and the record may have been written.
Crash ==
  /\ crashes < MaxCrashes
  /\ crashes' = crashes + 1
  /\ up' = FALSE
  /\ \/ UNCHANGED <<status, instance>>
     \/ \E t \in Task :
          /\ up /\ status[t] = "absent" /\ Resumable
          /\ instance' = "running_background"
          /\ status' \in {status, [status EXCEPT ![t] = "starting"]}
  /\ runner' = [t \in Task |-> IF Live(t) THEN "gone" ELSE runner[t]]
  /\ request' = [r \in Request |-> IF request[r] = "pending" THEN "over" ELSE request[r]]
  /\ handler' = [e \in Event |-> IF handler[e] = "none" THEN "none" ELSE "over"]
  /\ cancelling' = {}
  /\ UNCHANGED <<notes, overlapped, raced>>

\* The next start of the session recovers before anything else.
Restart ==
  /\ ~up
  /\ up' = TRUE
  /\ RecoverAll
  /\ UNCHANGED <<notes, runner, cancelling, approvals, crashes>>

Runs(t) == \/ RunnerStarts(t) \/ NeverRuns(t) \/ RunnerGone(t)
           \/ \E s \in Terminal \ {"lost"} : RunnerEnds(t, s)
Handles(e) == HandlerStarts(e) \/ ThreadReads(e) \/ ThreadDropped(e) \/ ThreadWrites(e)

\* What goes on by itself: the loop and the threads, the timer of wait_for, which
\* ends a soul that does not, the recovery and the publication before each claim
\* of notifications, and the next start of a session that died.
Progress ==
  \/ \E t \in Task : Publish(t) \/ Runs(t)
  \/ \E e \in Event : Handles(e)
  \/ Recover \/ Restart

Next ==
  \/ Progress
  \/ \E t \in Task : Launch(t) \/ Kill(t)
  \/ \E r \in Request : Ask(r) \/ Answer(r)
  \/ Crash

Spec == Init /\ [][Next]_vars

\* No more than that something goes on while something can.
FairSpec == Spec /\ WF_vars(Progress)

---------------------------------------------------------------------------
\* What is said of a task is said once, and its record agrees, unless it ended
\* while a thread held a copy of its record.
OneOutcome ==
  \A t \in Task : t \notin overlapped => notes[t] \subseteq {status[t]}

\* A task whose runner works in this process is never taken for lost.
NotLostWhileLive == \A t \in Task : Live(t) => status[t] # "lost"

\* Whatever ends a runner, no request of its task is left for the user to answer.
NoOrphanRequests ==
  \A t \in Task : runner[t] \notin {"soul", "cleanup"} => PendingOf(t) = {}

\* An instance is marked running only while a task of it runs, except when the
\* runner was cancelled before its first step or the process has died.
InstanceFreed ==
  \/ instance # "running_background"
  \/ crashes > 0
  \/ \E t \in Task : Live(t) \/ runner[t] = "never ran"

\* Two souls never work on the context of the instance at once, unless a record
\* was overwritten after its end.
OneSoul ==
  overlapped = {} => \A t, u \in Task : runner[t] = "soul" /\ runner[u] = "soul" => t = u

\* The record says that the user is waited for only if that is so, once the
\* handlers have run, unless two of them overlapped.
AwaitingIsTrue ==
  \A t \in Task \ (raced \cup overlapped) :
    (up /\ status[t] = "awaiting_approval" /\ In(t, {"ready", "queued", "doomed", "read"}) = {})
      => PendingOf(t) # {}

\* Every task ends, and the user is told how.
Settles ==
  \A t \in Task : (status[t] # "absent") ~> (Ended(t) /\ status[t] \in notes[t])
=============================================================================
