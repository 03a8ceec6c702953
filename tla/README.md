# A TLA+ model of Kimi-CLI-X

Paths are relative to the repository root. `kimi_cli/` abbreviates
`kimi-cli/src/kimi_cli/`, `kimix/` abbreviates `src/kimix/`.

## 1. Inventory of the system

| Component | State it keeps | Operations | What is hard |
|---|---|---|---|
| Background tasks (`kimi_cli/background/`) | per task four JSON files (spec, runtime, control, consumer) and an output log; in the CLI process the dictionary of live agent tasks and a completion event; in each worker process its last copy of the runtime record | create bash or agent task, kill, kill all, recover, publish terminal notifications, wait; worker start, spawn, heartbeat, control poll, timeout, final write | two processes read, modify and write one file without a lock; a worker can die or stall; heartbeats expire; a kill may come before, during or after the command; approval updates run in threads |
| Notifications (`kimi_cli/notifications/`) | per event an event file and a delivery file with one state per sink (pending, claimed, acked) | publish with dedupe key, recover, claim, deliver, ack, ack_ids | crash between two files, between handling and ack, claims that go stale under a slow handler |
| Approvals (`kimi_cli/approval_runtime/`, `kimi_cli/soul/approval.py`) | requests with a status, shared waiter futures and their counts, subscribers, session auto-approve set | create, wait, resolve, cancel, cancel by source, approve for session | an answer, a timeout, a cancellation of the waiter and the end of the source race for one future |
| DAG executor (`kimix/dag/`) | results, errors, submitted, finished_count, one event | add_node, add_edge, validate, execute, cancel | `_submit_ready` runs in several threads without the lock; failures and cancellation must still reach every node |
| Agent loop (`kimi_cli/soul/kimisoul.py`, `steer.py`, `context.py`) | message history, steer queue and wake event, counters of the turn, compaction in flight | run, step, tool execution, grow context, compaction, gates, steer, cancel | a step is cancelled while its context write is shielded; steers arrive between any two awaits |
| Wire (`kimi_cli/wire/`) | soul-side and UI-side broadcast queues, merge buffer, recorder | send, flush, shutdown, serve JSON-RPC | merging must not reorder; shutdown while messages are buffered |
| Hooks (`kimi_cli/hooks/`) | registered hooks, pending wire hook handles | trigger in parallel, resolve | fail-open under timeout; late resolution |
| Subagents (`kimi_cli/subagents/`) | instance records with a status | create, run, update, resume | status updates from several tasks; two runs of one instance |
| OAuth (`kimi_cli/auth/oauth.py`) | token files, rejected-token tombstones, in-process lock, cross-process lock file, the provider's key | load, save, refresh, ensure fresh, login, logout | refresh-token rotation raced by several processes; an answer that is lost after the server has acted; the cancel at the end of a turn; a lock that is only tried |
| RPC over TCP (`kimix/network/`) | sockets, one pending event and one last answer per client; in the server the table of clients, a pool of threads, one lock | call, connect, disconnect, accept, serve, kick, stop | calls carry no id; a late answer meets the next call; `send` holds the server's lock while a client does not read; stop races accept |
| HTTP server (`kimix/server/`) | entries of sessions with their SDK session, status, planner and question; the event bus | create, list, restore, prompt, prompt_async, plan, confirm, abort, clear, delete | every request overlaps every other at its awaits; delete or abort while a prompt runs or a plan waits |
| SDK session (`src/kimi_agent_sdk/`) | current CLI instance, cancel event, closed flag | prompt, cancel, clear, close, restart | close, clear and cancel racing a prompt; bounded restarts that replace the cancel event |
| Background streams (`kimix/tools/background/`) | thread, bounded queue, output buffer | put, get output, wait, stop | bounded put against stop |
| Toolset, tools, prompts, LLM providers, UIs, build scripts | mostly data and I/O | | outside the model, see section 7 |

Interactions. The agent loop calls tools; tools ask the approval runtime and launch
background tasks; background tasks publish notifications when they end; the loop
delivers notifications into the context at the start of each step and the wire pump
delivers them to the user interface. The approval runtime tells its subscribers, one of
which is the runner of every background agent. Steers and cancellations reach the loop
from the UI, from tools of other agents and from the SDK. The HTTP server drives SDK sessions,
each of which runs a soul. Every model request sends the access token that the OAuth
manager keeps fresh. The manager of background
tasks and each worker process meet only in the files of the task.

All code of the CLI process runs in one asyncio event loop, except the marks of the
approval handlers (`asyncio.to_thread`), the threads of the DAG pool and the network. In
the modules an action is what the code does between two awaits, or between two accesses
to a file that another process, or a crash, may see apart.

## 2. Modules

| Module | Models | Checked by | Proved in |
|---|---|---|---|
| `DagExecutor` | one call of `Executor.execute` | `DagJoin`, `DagChain` | `DagExecutor_proofs` |
| `BashTask` | store, worker process and manager of bash tasks | `BashSafety`, `BashStalls` | `BashTask_proofs` |
| `Notifications` | notification queue, delivery to context and wire, crashes | `NotifyFaults` | `Notifications_proofs` |
| `AtLeastOnce` | what the queue promises; abstract specification of `Notifications` | as `KeepsPromise` in `NotifyFaults` | `KeepsPromiseSafely` |
| `Approvals` | approval runtime and `Approval.request` | `Approvals` | `Approvals_proofs` |
| `AgentTask` | background runs of a subagent instance | `AgentTask` | `AgentTask_proofs` |
| `AgentLoop` | the soul's turn: steps, steers, gates, compaction, cancellation | `AgentLoop` | `AgentLoop_proofs` |
| `TokenRefresh` | refresh of a rotating login by the processes of one user | `TokenRefresh` | `TokenRefresh_proofs` |
| `SessionServer` | session manager of `kimix serve` over SDK sessions, for one session id | `Sessions`, `AbortLost` | `Servers_proofs` |
| `RpcNet` | JSON-RPC client and group server over TCP | `RpcCalls` | `Servers_proofs` |

`MC*` modules only give values to constants. `PROJECT.json` maps every definition to the
lines it stands for.

### DagExecutor

A node is a number in insertion order, and `submitted` is claimed in that order as the
code's loop does. A thread is a stack of activations, innermost first, because
`add_done_callback` runs `_on_done` at once when the future is already done: a scan frame
holds the `done_nodes` snapshot, the position in the loop and what `_submit_ready` does
next (`Check`, `Abort`, `Submit`, `SubmitRejected`, `AddDoneCallback`); an `_on_done` frame
records the outcome under the lock and counts it (`Record`, `Count`). `Take` and `Finish`
are the pool's threads. The test `name in submitted` is unlocked, so two threads may pass
it for one node; the model does this too. Retries of a task are one attempt that may fail.

### BashTask

`runtime` and `kills` are `runtime.json` and `control.json`; `copy` and `mcopy` are what
the worker and the manager hold between reading and writing them, so each
read-modify-write is two actions. `progress` says whether the last sign of life
is recent; `Expire` makes it stale, at any time if `Stalls`, else only when nobody beats.
The worker walks through the places of `run_background_task_worker`, with heartbeat,
control poll and timeout beside it. `WorkerDies` and `CliDies` are crashes. Write errors
and corrupted files are not modelled.

### Notifications

One action per file write: `Publish` writes `event.json`, `PublishDelivery` writes
`delivery.json`, and the process may die between. `deliver_pending` is cut at its awaits
and at its writes: recover and claim (`Claim`, which begins with a recover of both
sinks), the handler (the context's history, then its file; or the wire), and the ack. A
handler may raise (`MaxFailures`). `Age` makes a claim stale at any moment, which stands
for handlers slower than the limit. `Restart` restores the context and acknowledges what
it contains. The `shell` sink is a default target nobody delivers to in this code; the
model has the two sinks that are served. `before_claim` (reconcile) publishes, which is
an action of its own here. Corrupted files are not modelled.

### Approvals

`waiters`, `counts` and `future` are the runtime's dictionaries and futures; `holds` says
whose future an observer awaits. `Ask`, `Resolve`, `Cancel`, `CancelBySource`, timeouts
and cancellations of a waiter interleave at awaits; an observer whose future is done runs
when the loop wakes it (`Woken`). `session` is the auto-approve set: `Approve for session`
widens it when the asking call runs again, and resolves what is pending for the action.
Timeouts and shared observers are used by tests of this repository rather than by its
callers; they are part of the runtime's interface, so they are modelled. `yolo` and `afk` modes
return before anything is asked and are left out.

### AgentTask

One subagent instance, launched and resumed in several background tasks. The soul of
a task is a box that asks for approvals and ends. `handler` is where each approval
event's handler is: it decides in the event loop, then its thread reads the record
(`ThreadReads`) and writes it (`ThreadWrites`), and a cancelled handler cannot stop a
thread that has begun (`ThreadDropped` only before). Kill, the end of the soul, a timeout
(folded into "failed") and the death of the process compete. Not modelled: the limit of
tasks (it is in `BashTask`), output files, the marks of the runner in the loop's own
thread as two steps (they do not await).

### AgentLoop

`main` is where the coroutine of `run` awaits, `step` the task it races against the wake
event, `growing` the shielded writes of `_grow_context`, which outlive their step, and
`comp` a compaction in flight with its caller (the loop, an overflow in the step, or the
compact tool). The history is a sequence of messages that say who wrote them: `user`,
`reason` (of a Stop hook), `call`, `result`, `text`, `empty`, `gate`, `nudge`, `steer`,
`summary`. `when` records what became of the push of a steer. `Check` and `Push` are two actions because `push` may run in
another thread than the loop. `Interrupted`, `Cancel` and `CancelStep` are the two ways a
step is cancelled. `Resolve` holds the gates in the order of the code. `LoopCloses` is the end of the
`asyncio.run` of a prompt, which drops the writes that are left.

A compaction is cut at its awaits. `Prepares` is `SimpleCompaction.prepare`: the tail to
preserve begins at a balanced cut (`Cuts`, `LastCut`), the first message is put before it
unless that would part a call from its result (`Preserved`), and a history with an orphan
result cannot be split (`Readable`). The depth of the tail, fixed or adaptive in the code, is
any number of `Depths`. There are three outcomes: a summary before what is preserved; a copy
of the history, when all of it is preserved; and, with too few messages, the list of the
history itself (`live`). `Summed` is the check that the history has not changed, `Retries` and
`Changed` what follows if it has, then come the export, `Clears` and `Rebuilt`, which appends
to whatever the context holds by now. A `live` list has been emptied by `Clears`, so that
`Rebuilt` appends what is left in it: nothing, or the late result of a cancelled step once
more. `wiped` notes this, and `torn` the steps whose late result came after the split.

Simplifications: storage writes succeed and keep the order of their calls; a retry of the
model is part of `asking`; the notifications and injections at the start of a step are left out
(`Notifications` has the first); one compaction by tool in a step; D-Mail is left out with
the revert to a checkpoint because no code of the repository sends one; slash commands,
ralph loops and flows are left out; the message about active tasks after a compaction is left
out (it would be one more `user` message); the soul is the root's.

### TokenRefresh

The processes of a user (`Proc`) share `disk`, the credentials file, and `flock`, the lock
file; the tasks of a process share `mutex` (the asyncio lock), `key` (the access token the
provider sends) and the tombstone of a rejected refresh token. A pair of tokens is its number
in the order of issue, and the server accepts those in `live`: a refresh takes the old one out
and puts the new one in. `ensure_fresh` is cut at its awaits and at its four reads of the
file: `Ensure` (first read, `_refresh_tokens` entered), `Prefer` (second read), `Recheck` (the
lock is granted, third read), `Contended` and `Locked` (an attempt at the lock file, and the
read under it), the request (`Rotates`, `Rejects`, `Unreachable`, `AnswerLost`, `Retry`,
`Fails`), and what is made of its answer (`Save`, `SaveFails`, `Refused`). `AnswerLost` is the
case that makes rotation hard: the server has replaced the token and the program does not
know. `Cancel` is the end of a turn, which cancels the refresh wherever it waits. `Restart` is
a death of the process and its next start. `Login`, `Logout`, `Expire` and `Cool` (the
tombstone's retry time) come at any moment. `lost`, `bare` and `ousted` are history variables
for the properties: the code has no counterpart of them.

Left out: the device flow and discovery (what they end in is `Login`), the keyring that an
old version wrote, several refs in one configuration, `resolve_api_key` and the
`_access_tokens` cache, which only it reads.

### SessionServer

One session id, and requests that overlap on it. An action is what a request does between two
awaits. An entry of the manager and an SDK session bear the name of the request that made
them; `event[s]` is the `_cancel_event` of the SDK session `s`, and `told` the runs whose
event is set. `Called` is the first step of a request, in which it finds the entry, restores
it from disk or is refused; `Opened` and `OpenFails` end the await for an SDK session;
`RunBreaks` and `Restarted` are the restart loop of the SDK; the `p_` places are those of
`plan_async`, with its attempts, its sleep between them and its question to the user. `Abort`
and `Confirm` do not await and are one action each. `stop` and `astray` are history variables:
who was meant to stop, and whether the manager lost track of a run (a second SDK session
opened for one entry, a clear that took the event of a run that began meanwhile, a restart of
a run that was to stop). The code has these races; the properties say what holds outside them,
and `AbortLost` shows the last of them.

A prompt of the SDK has its cancel event before it has one of the five permits of its process
and listens to the event only once it runs: it is at "waiting" until `Granted`, which no
fairness drives, because five other prompts, of this session id or of others, may go on for
ever. The permits are not counted for the same reason.

Left out: slash commands other than the clear, compact, export, search, the ralph loop, the
SSE queues. The
entry has a `_cancel_event` of its own, which nothing ever sets to an event, so that an abort
reaches a run only through the SDK session (`Current`).

### RpcNet

Threads that call, a receive thread per client, and in the server the accept thread, a pool of
`Workers` threads that serve one connection each, and the thread that stops it. A connection
bears its client's name. A message on `up` or `down` is the call it was made for, which only
the properties look at: the code has no ids. `down` holds `Buf` answers; `Replied` waits for
room with the lock of the server held, `Stalls` is the socket's timeout, after which half a
message is on the wire (`Part`) and the framing of the client is `torn`: what it then reads
may be anything. `ClientGone` and `ServerGone` are what one end sees of the other. `Kicks` is
`disconnect_client`; the steps of `stop` are `Stop`, `StopClears`, `StopCloses`, `StopJoins`.
`clean` is a history variable: no other call was under way on the connection.

Left out: a second `connect` of one client object, the server of a single client
(`tcp_server.py`), `broadcast` (a loop of sends), a stop before the accept thread is up, the
bytes of a frame, the WebSocket bridge. The functions that the server calls, and its handlers
of connections, are assumed to return and to be able to serialise what they return: a result
that cannot be serialised raises at `rpc_server.py:114` and is never answered. A frame over the
size limit loses the framing like a torn one, and a torn stream may also find its framing again
or end the receive thread. None of the three adds a behaviour that a property tells from those
of the model: a call without an answer, and a client that may read anything, are there.

## 3. What the runs check

| Run | Instance | What it shows |
|---|---|---|
| `DagJoin` | two roots, one may fail, a node that needs both, two pool threads, cancel | `StartsAfterResults`, and under fairness `Returns` and `FailurePropagates`, through every double submission |
| `DagChain` | chain of three, the first fails | finding: the abort of the second is never seen by a scan, `execute` hangs |
| `BashSafety` | two tasks, one slot, a kill each, a CLI crash, no stalls | outcomes are final and told once; lost means gone; the limit holds |
| `BashStalls` | one task, two kills, a crash, two heartbeats, stalls | completed is earned, a kill ends the command, the task settles |
| `NotifyFaults` | two notifications, a crash, a handler that fails | an ack is backed by the file or the wire, no copy stays twice in the context, `AtLeastOnce` is implemented, liveness included |
| `Approvals` | three requests, two of one action, two of one turn, a second observer, timeouts | nobody is forgotten, only approved calls go ahead, decisions are final, everybody is answered |
| `AgentTask` | launch and resume, two approvals, a crash | one outcome, no orphan request, the instance is freed, one soul, the awaiting mark is true, tasks settle |
| `AgentLoop` | two runs of up to two turns of two steps, a steer, compactions that preserve two messages | steps stay whole, no steer is skipped, the context is not lost, turns end on a text, runs end |
| `TokenRefresh` | two processes, two tokens, two attempts at lock and request, a crash, login, logout | nobody is left with a spent token, a save hits the token it replaces, rejections have a cause, calls end, every process catches up with the file |
| `Sessions` | a prompt or plan, an async prompt or plan, and a create, list, clear or delete, with aborts and answers | the last event is idle, an abort reaches the run, what runs and was told to stop ends |
| `AbortLost` | a prompt or plan and a clear or delete | finding: a run that restarts, or a plan between two attempts, goes on after it was told to stop |
| `RpcCalls` | two threads on one client, a second client, one pool thread, buffers of one | a clean call gets its own answer or none, the registry is true, calls and stop end |

The type invariants are not in the runs: they are theorems of all modules (`Typing`, and
`NetTyping` for `RpcNet`).

Bounds. The instances are the smallest in which the races of section 4 happen: two parties for
one slot, one file or one future and a third to be misled; one crash, because every state
before it can be the one it hits and recovery is the same code each time. In `AgentLoop` two
steps are enough for the write of a cancelled step to meet the next one, each gate has one
round, so that both its answers occur, and the second turn (of the Stop hook or of a second
run) begins after at most `MaxBefore` = 1 step, which bounds only the length of the history. A
compaction preserves two messages: then the history has too few, exactly as many, or more; the
boundary falls before a call, between a call and its result or behind both; and the first
message is in the tail, before it, or summarised. The proofs are for any depths. In
`TokenRefresh` two tokens are a rotation, a crash or lost answer and a fresh login in one
history; two attempts stand for the six at the lock file and the three at the request, since
every attempt after the first is like the second. Two tasks in one process (a turn and a
subagent) are covered by the proofs, which hold for any tasks; the run has one task per
process because its liveness needs it (see fairness). In `Sessions` the third request gets
between two turns; two restarts or four attempts at a plan repeat the same steps. In
`RpcCalls` one message fills a buffer, so a client that stops reading stalls the server, and
one pool thread makes the second client wait. `MaxKills`, `MaxRestarts` (of `BashTask`),
`MaxBeats`, `MaxCrashes`, `MaxFailures`, `MaxRuns`, `MaxBefore`, `MaxToken`, `Sends`, `Calls`,
`Stays` and the one compaction by tool in a step are the bounds of the models that the code
does not have. Deadlock is not checked: every instance ends, when its tasks, requests, runs or
crashes are used up.

Fairness. Threads that can run do run (DAG pool, workers, the manager's loop, which reconciles
on every step and on every poll of the waiting tools). An event loop runs every coroutine that
is ready: `WF(Woken(o))` per observer, and one `WF(Progress)` in `AgentTask` and `AgentLoop`,
where nothing the loop can do is repeated for ever, so that fairness of the whole is fairness
of each. Nobody is assumed to prompt, answer, kill, steer or cancel unless the property says
so. In `AgentLoop` fairness covers the model and the tools: `RunEnds` says that the loop adds
no endless behaviour of its own to requests that end, which the client's timeouts and the
tools' own limits are for. `Claim` and `Restart` are fair in `Notifications` because promises
are kept only to a session that is resumed. In `TokenRefresh` a task that can run is run, a
request is answered or times out, and the timer of `refreshing` calls again; `Recheck` is
strongly fair because an `asyncio.Lock` serves its waiters in turn. Cancels are free, and two
tasks of one process could keep each other from their step by cancelling and beginning for
ever, which weak fairness allows and an event loop does not: hence one task per process in the
run. In `SessionServer` only the end of a run that was told to stop (`RunStops`: `run_soul`
cancels the soul's task) and of a restart is fair: a model need not answer, and a prompt need
not get its permit, so that `AbortEnds` speaks of runs past it. In `RpcNet` the
callers, the threads of the server and `stop` are scheduled; a client's receive thread is not,
because its process may hang, so that `CallsEnd` and `StopEnds` rest on the timeouts of the
code.

## 4. Findings

* `DagChain`: a failure in a chain of three hangs `execute` (`kimix/dag/executor.py:92`).
* `AbortLost`: `_restart` drops the cancel event, so an abort, clear or close that comes while
  it awaits is forgotten, and a plan between two attempts does not look at one
  (`kimi_agent_sdk/_session.py:282`).

Met while modelling and noted with the hazards, each reproduced by adding the formula that
forbids it:

* a compaction of a history with fewer messages than are to be preserved loses the
  conversation, with no cancellation and no error: `SimpleCompaction.prepare` returns the list of
  the history itself, `Context.clear` empties it, and what `compact_context` then appends is the
  empty list (`kimi_cli/soul/compaction.py:486`, `context.py:866`, `kimisoul.py:2408`;
  `Remembered` without `~wiped`: a first turn that is compacted before its first step asks the
  model with an empty context);
* two threads may submit a root twice, `finished_count` then reaches `len(dag)` one node early and
  a result is missing (`kimix/dag/executor.py:94`; with roots 1 and 2 and a node 3 on 2:
  `main = "returned" /\ Failed = {} => results = Node`);
* a crash between `event.json` and `delivery.json` silences the event for good
  (`kimi_cli/notifications/store.py:59`; every event leads to an ack of the model);
* the thread of an approval mark revives a finished record, recover takes it for lost and
  frees an instance that the next task works on, and a third resume joins it
  (`kimi_cli/background/agent_runner.py:207`; three tasks, at most one runner at `"soul"`);
* the verification gate's nudge is a reminder and is stripped before the model reads it
  (`kimi_cli/soul/kimisoul.py:1544` and `:1817`; a step that asks after a nudge has it in its
  history);
* a result of a cancelled step that a compaction lets in without its call, or before it, leaves
  an unbalanced history, on which every later compaction raises
  (`kimi_cli/soul/tool_pairing.py:51`; `Readable(history)` in every state);
* an aborted prompt that waits for one of the five permits does not end until it gets one
  (`kimi_agent_sdk/_session.py:835`; `AbortEnds` from `pc[r] \in {"waiting", "running"}`).

The models exclude by a condition what the code does not promise or does not do:
`VerdictStable` excludes the moment in which `create_bash_task` writes `starting` over a
worker's record (`manager.py:196`), four properties of `BashTask` and their theorems assume
that a live worker does not miss its heartbeats (`~Stalls`), `Settles` of `BashTask` excludes
a directory with no `runtime.json`, `Remembered` excludes a cancellation between the clear and
the summary of a compaction (`lost`) and the emptied list above (`wiped`), `NoSteerSkipped`
begins where the loop does, `StepsAreWhole` lets a late result of a cancelled step come
anywhere and holds until such a list is put back (it may hold a late result), and asks for no
late result that came after the split of a compaction (`torn`), `OneCopy` speaks of the
context, as the wire may show a notification twice, `DiskIsGood`, `SavesOverItsOwn` and
`RejectionsHaveCause` except what was lost with its holder, sent without the lock file or
taken off the disk from outside (`lost`, `bare`, `ousted`), `AbortReaches` and `AbortEnds`
what `astray` notes, `AbortEnds` a wait for a permit, and `AnswersAreOwn` calls that overlap
others on one client, whose answers the code mixes up.

## 5. Proofs

Checked by TLAPS for every value of the constants that satisfies the module's named
assumption.

* `DagExecutor_proofs`: `Typing`, `TasksStartAfterResults`, `AbortsHaveCauses`. The invariant
  `IInv` adds `FramesOK` (the snapshot of every activation on every stack is a subset of what is
  done, and every callback belongs to a future that exists) and `RunningOK` (a worker runs
  a future that was submitted, or none). Outcomes only grow, so the snapshots
  stay true (`FrameKept`).
* `BashTask_proofs`: `CompletionsAreEarned` and `EarlyKillsWin` from `Honest` (the copies that
  the two processes hold say no more than the place of the worker allows), stalls included.
  `LostTasksAreGone`, `VerdictsAreStable`, `NotificationsAreUnique` and `LimitHolds` from
  `Timely` in addition (a stale record, or a settle in progress, means that the worker is
  gone), which needs `~Stalls`.
* `Notifications_proofs`: `Typing`, `AcksAreSafe`, and `KeepsPromiseSafely`: `Spec` implements the
  safety part of `AtLeastOnce`. `IInv` says what each place of a delivery knows: what is in a
  batch was claimed and exists (`InBatch`, `EventFirst`), what is being acknowledged was
  handled (`Handling`), and a stopped process is nowhere (`Stopped`). `CopiesAreOne` adds
  `OInv`: what is in the context is acked or is the one notification in hand (`InHand`,
  `Copies`), the file of the context is no further than the context and holds only what is
  due, so that a restart acks all it brings back (`Files`), and a dead process left its batch
  behind (`Emptied`).
* `Approvals_proofs`: `NobodyIsForgotten`, `OnlyApprovedToolsRun`, `PromptsAreNeeded`,
  `DecisionsAreFinal`. `IInv` ties the futures to the dictionaries: an open future is
  registered for its pending request and counted once for each observer that holds it
  (`HoldsOne`, `Registered`, `Held`, `Counted`), and every response was given by the user
  (`Asked`, `Given`).
* `AgentTask_proofs`: `Typing`, `OutcomesAreOne`, `LiveTasksAreNotLost`,
  `NoRequestIsOrphaned`, `InstancesAreFreed`, `SoulsAreAlone`. `IInv` says that a thread holds
  the record of a task that has not ended since it read it, unless `overlapped` notes it
  (`CopiesAgree`), that a task that has not ended has a runner (`Accounted`, which needs
  `WayOutEnded`: a cancelled runner's task has ended), and that one runner works and the
  instance is marked for it (`OneWorks`). Recovery then finds nothing while a soul works,
  which is why the mark cannot be taken from it. `AwaitingMarksAreTrue` adds `AInv`: of a task
  that is not in `raced` one handler at a time is on its way (`OneBusy`), the handler of an
  answer starts after that of its request (`InOrder`), and a mark that is set or about to be
  has a pending request or a handler that will clear it (`Watched`).
* `AgentLoop_proofs`: `SteersAreHeard` from `OpenAreQueued` (while the loop works, a steer that
  came in time and is not in the history is in the queue) and `NoneIsOpen` (after the last look
  at the queue there is none): every good end passes the look, every other end is not a good one.
  `Typing` from who waits for whom: a step's task exists only while the loop races it, a
  compaction for an overflow only while its step waits, and a write in flight belongs to the
  current step or to one that was cut, so that only such a write dies with the event loop.
  The invariant of the other three is `HInv`. `StepsStayWhole` from `Whole`: at most one write
  goes on that was not cut (`OneWrite`), and nothing follows the call whose result it still owes
  but late results of cut steps (`Due`), so that every call has its result or waits for it at the
  end (`CallsAnswered`, `ResultsFollow`, `CutsWritten`). Across a compaction this is kept because
  what it holds could itself be such a history (`Carries`, over lists that are `Sound`) and only
  late results enter the context it cleared (`OnlyLate`): a list that is sound stays so up to
  a cut (`PrefixIsSound`), from a cut on (`TailIsSound`), and with its first message before that
  tail (`PreservedIsSound`, where `NoResultAtCut` says that a cut parts no call from its result).
  The last needs that the first message is no call (`Headed`: something else comes before any
  call), which after a cancellation between clear and summary rests on what the next turn puts
  into the context first (`Grounded`, and `WakeMeans` for a steer that interrupts). `Shaped` has
  the types of the lists. `UserIsRemembered` from `HeardUser`, which begins with the turn and not
  with its first step. All of these, `Remains`, hold until a compaction puts back the list it
  emptied (`wiped \/ Remains`). `TurnsEndOnText` from `OnText` (a step that returns a text leaves
  it as the last thing said, and nothing said follows before the turn ends on it). A step moves
  the history in one of a few ways (`Moves`: it appends, strips reminders, clears or rebuilds),
  which the lemmas about it share. The strip of reminders is written with ranks (`Kept`, `Rank`,
  `Stripped`) and not with `SelectSeq`, which is recursive; `StrippedKeepsOrder` is the lemma
  about it: what is kept is kept in its order, and nothing else is.
* `TokenRefresh_proofs`: `NobodyIsStranded`, `OwnTokenOnly`, `TombstonesAreTrue`,
  `NoNeedlessRejection`, for any processes, tasks in them and attempts. The invariant says who
  may know what: a pair that a task holds and the server still takes is on disk (`InHand`), an
  answer is known to its task alone and has spent its pair (`InFlight`), and what is sent was
  compared with the file under the lock file, or is noted (`Compared`).
* `Servers_proofs`, one module as both are servers of kimix: of `SessionServer`, `LastWordIsIdle`
  from `Owed` (if the last event is a part or busy, a turn is open that will publish idle),
  `AbortsReach` and `OnePromptGoes` from `Reached` (unless `astray`, whoever runs and was not
  stopped holds the event of the SDK session of the registered entry), which needs `Known` (who
  may hold which entry and session at which place) and `Planners`. Of `RpcNet`, `OwnAnswers` from
  `CleanIsAlone` (whatever is on the connection of a clean call, in the server's hand or
  answered, is of this call: `Alone`) and `RegistryIsServed` from who is where between accept and
  the end of a loop (`Accepting`, `Queueing`, `Attended`) and from what each step of `stop` has
  found and left (`Halting`).

Only model-checked: everything under fairness (`Returns`, `FailurePropagates`, `KillEnds`, all
`Settles`, `Answered`, `RunEnds`, both `CallsEnd`, `CatchesUp`, `AbortEnds`, `StopEnds`, and
of `KeepsPromise` the fairness of `AtLeastOnce`), because liveness is outside the prover's
reach. Every safety invariant and action property of a run that passes is a theorem.

## 6. How to run

In this directory: `tlc -config DagJoin.cfg MCDagExecutor` and likewise for the other runs
(the table in section 2 and `PROJECT.json` name the module of each), `tlapm
DagExecutor_proofs.tla` and likewise for the other proof modules. The longest runs are
`TokenRefresh`, `Sessions`, `AgentLoop` and `RpcCalls`, between one and three minutes on two
workers.

## 7. Not modelled

`PROJECT.json` lists every component with the reason. In short:

* Data: wire messages, prompts, what a summary says, what pruning selects, tool output,
  parsers and retrieval. The properties here do not depend on it, and pure functions are
  covered by unit tests.
* I/O behind choices of the models: LLM providers and their retries, the file system layer,
  SQLite and JSONL storage, subprocesses of hooks, the native extension, the user interfaces.
* State that would deserve a module: the queues of the wire and the requests pending when
  its client disconnects, the status of foreground subagents, the bounded buffers of
  background streams, and `add_edge` with its undo. The order of the modules above is the order in
  which a fault of the component reaches the user; these come next.
* Composition. `BashTask` and `AgentTask` both end in `publish`, whose promise `Notifications`
  keeps: `published` and `notes` are what is given to `Publish`. The three are not run
  together: the interface is one call, and the product of their states is out of TLC's reach.
