----------------------------- MODULE AgentLoop -----------------------------
\* One soul's agent loop: KimiSoul.run, _turn, _agent_loop, _step, _grow_context
\* and compact_context (kimi_cli/soul/kimisoul.py), with the steers pushed at it
\* (steer.py) and the cancellation of a run (soul/__init__.py, run_soul).
\*
\* The coroutine of run() is `main`; the task of the step it races against the
\* wake event is `step`; a write of the step's messages outlives the step, because
\* it is shielded, and is a member of `growing`; a compaction in flight is `comp`.
\* An action is what one of them does between two awaits.
\*
\* The model's messages say who wrote them, not what they say.  The LLM, the tools
\* and the hooks are choices.  Storage writes succeed and keep the order of the
\* calls, so the file is not kept apart from the history.
EXTENDS Naturals, Sequences, FiniteSets

CONSTANTS Steers,         \* messages somebody pushes at the soul while it may be running
          MaxSteps,       \* loop_control.max_steps_per_turn
          Continuations,  \* _MAX_TEXT_BLOCK_CONTINUATION_ROUNDS
          Recoveries,     \* _MAX_LOOP_RECOVERY_ROUNDS
          Nudges,         \* loop_control.verification_gate_max_nudges
          Overflows,      \* loop_control.context_overflow_retries
          StopHooks,      \* is a Stop hook configured that may block the end of a turn?
          Depths,         \* how many messages of user and model a compaction may preserve
          MaxRuns,        \* bound: runs of the soul
          MaxBefore       \* bound: steps before the last turn begins

ASSUME NumbersAssumption ==
    /\ {MaxSteps, Continuations, Recoveries, Nudges, Overflows, MaxRuns, MaxBefore} \subseteq Nat
    /\ Depths \subseteq Nat
    /\ StopHooks \in BOOLEAN

VARIABLES main,     \* where run() awaits
          step,     \* [id, at, out]: the task of the current step and what it returned
          growing,  \* [id, left]: writes of finished replies, with the messages still to append
          comp,     \* [at, by, before, again, messages, live]: the compaction in flight, and
                    \* what it is to put into the context: `messages', or, if `live', whatever
                    \* the list of the history holds by then
          history,  \* context.history
          queue,    \* _steer_queue
          wake,     \* _steer_wake_event
          active,   \* _run_active
          used,     \* the counters of the turn: steps, rounds of each gate, overflow retries
          runs,     \* runs so far
          when,     \* for each steer, what became of its push and when it was queued
          seen,     \* steers that entered the history
          cut,      \* steps whose write was still going on when they were cancelled
          torn,     \* those of them whose write died with its event loop, or put the result
                    \* into a context that a compaction was about to clear or had cleared
          lost,     \* a cancellation hit a compaction after it had cleared the context
          wiped,    \* a compaction put back the list that it had emptied
          outcome   \* how the last turn ended

loop    == <<main, active, used, runs, outcome>>
context == <<history, growing, comp>>
steers  == <<queue, wake, when, seen>>
ghosts  == <<cut, torn, lost, wiped>>
vars    == <<loop, step, context, steers, ghosts>>

----------------------------------------------------------------------------
\* The values of the variables

Places == {"idle", "opening", "entering", "ready", "compacting", "starting", "racing",
           "injecting", "ended"}
Counters == [steps : Nat, continued : Nat, recovered : Nat, nudged : Nat, overflown : Nat,
             compacted : BOOLEAN, hooked : BOOLEAN]
Outs == {"none", "more", "text", "empty", "rejected", "repeat", "error"}

NoStep == [step EXCEPT !.at = "none", !.out = "none"]
NoComp == [at |-> "no", by |-> "loop", before |-> <<>>, again |-> FALSE,
           messages |-> <<>>, live |-> FALSE]
Fresh  == [steps |-> 0, continued |-> 0, recovered |-> 0, nudged |-> 0, overflown |-> 0,
           compacted |-> FALSE, hooked |-> FALSE]

Init == /\ main = "idle" /\ active = FALSE /\ used = Fresh /\ runs = 0 /\ outcome = "none"
        /\ step = [id |-> 0, at |-> "none", out |-> "none"]
        /\ history = <<>> /\ growing = {} /\ comp = NoComp
        /\ queue = <<>> /\ wake = FALSE /\ when = [s \in Steers |-> "new"] /\ seen = {}
        /\ cut = {} /\ torn = {} /\ lost = FALSE /\ wiped = FALSE

Append1(kind, id) == Append(history, <<kind, id>>)

----------------------------------------------------------------------------
\* Beginning and ending a run

\* run(): a new queue and a new event for the loop of this run.
Run == /\ main = "idle" /\ runs < MaxRuns /\ step.id <= MaxBefore
       /\ main' = "opening" /\ active' = TRUE /\ runs' = runs + 1
       /\ used' = Fresh /\ outcome' = "none"
       /\ queue' = <<>> /\ wake' = FALSE
       /\ when' = [s \in Steers |-> IF when[s] = "loop" /\ s \notin seen THEN "dropped" ELSE when[s]]
       /\ UNCHANGED <<step, context, seen, ghosts>>

\* The end of run(), normal or not: the finally clause.
Leave(how) == main' = "idle" /\ active' = FALSE /\ outcome' = how /\ used' = Fresh

\* A hook blocked the prompt.
Blocked == /\ main = "opening" /\ Leave("blocked")
           /\ UNCHANGED <<runs, step, context, steers, ghosts>>

\* _turn: the user's message enters the history.
Turn == /\ main = "opening"
        /\ main' = "entering" /\ history' = Append1("user", runs)
        /\ UNCHANGED <<active, used, runs, outcome, step, growing, comp, steers, ghosts>>

\* _agent_loop begins: steers of an earlier turn are stale.
Enter == /\ main = "entering"
         /\ main' = "ready" /\ used' = [Fresh EXCEPT !.hooked = used.hooked]
         /\ queue' = <<>> /\ wake' = FALSE
         /\ UNCHANGED <<active, runs, outcome, step, context, when, seen, ghosts>>

\* The turn returned; a Stop hook may send the soul into one more turn, for which its
\* reason is the message.
StopHook == /\ StopHooks /\ main = "ended" /\ ~used.hooked /\ step.id <= MaxBefore
            /\ main' = "entering" /\ used' = [used EXCEPT !.hooked = TRUE]
            /\ history' = Append1("reason", runs)
            /\ UNCHANGED <<active, runs, outcome, step, growing, comp, steers, ghosts>>

Return == /\ main = "ended" /\ Leave(outcome)
          /\ UNCHANGED <<runs, step, context, steers, ghosts>>

\* An exception that the loop does not handle ends the run.
Fail == Leave("failed")

----------------------------------------------------------------------------
\* The steps of the loop

\* A compaction begins, for one of its three callers.
Compact(caller) == [NoComp EXCEPT !.at = "preparing", !.by = caller]

\* The step guard and the decision to compact first.
Guard == /\ main = "ready"
         /\ IF used.steps < MaxSteps
            THEN /\ used' = [used EXCEPT !.steps = @ + 1]
                 /\ \/ main' = "starting" /\ comp' = comp
                    \/ main' = "compacting" /\ comp' = Compact("loop")
                 /\ UNCHANGED <<active, outcome>>
            ELSE Fail /\ UNCHANGED comp
         /\ UNCHANGED <<runs, step, history, growing, steers, ghosts>>

\* After the checkpoint: the wake event is reset and the step's task begins.
Spawn == /\ main = "starting"
         /\ main' = "racing" /\ wake' = FALSE
         /\ step' = [id |-> step.id + 1, at |-> "preparing", out |-> "none"]
         /\ used' = [used EXCEPT !.overflown = 0, !.compacted = FALSE]
         /\ UNCHANGED <<active, runs, outcome, context, queue, when, seen, ghosts>>

\* The step task is cancelled, by an interruption or with the run.  The write of
\* its messages, if it has begun, goes on; a compaction in it does not.
Unfinished == {g.id : g \in growing}
\* Fault: the write is a part of the step and dies with it.
Unshielded(writes) == {g \in writes : g.id # step.id}
Shielded(writes) == writes
CancelStep == /\ step' = NoStep
              /\ growing' = Shielded(growing)
              /\ cut' = IF step.at = "growing" /\ step.id \in Unfinished
                        THEN cut \cup {step.id} ELSE cut
              /\ comp' = NoComp
              /\ lost' = (lost \/ comp.at = "cleared") /\ wiped' = wiped

\* The wake event fired first.
Interrupted == /\ main = "racing" /\ wake /\ step.at # "done"
               /\ CancelStep /\ main' = "injecting"
               /\ UNCHANGED <<active, used, runs, outcome, history, steers, torn>>

\* cancel_event: run_soul cancels the task of run(), wherever it awaits.
Cancel == /\ main # "idle"
          /\ CancelStep /\ Leave("cancelled")
          /\ UNCHANGED <<runs, history, steers, torn>>

\* _consume_pending_steers: one steer after another, with a write between two.
Inject == /\ main = "injecting" /\ queue # <<>>
          /\ history' = Append1("steer", Head(queue)) /\ queue' = Tail(queue)
          /\ seen' = seen \cup {Head(queue)}
          /\ UNCHANGED <<loop, step, growing, comp, wake, when, ghosts>>

\* The model cannot take this kind of content.
Refuse == /\ main = "injecting" /\ queue # <<>>
          /\ queue' = Tail(queue) /\ Fail
          /\ UNCHANGED <<runs, step, context, wake, when, seen, ghosts>>

Injected == /\ main = "injecting" /\ queue = <<>> /\ main' = "ready"
            /\ UNCHANGED <<active, used, runs, outcome, step, context, steers, ghosts>>

----------------------------------------------------------------------------
\* What a finished step means for the turn

Finished(outs) == main = "racing" /\ step.at = "done" /\ step.out \in outs

\* The step failed for good.
StepFailed == /\ Finished({"error"}) /\ Fail /\ step' = NoStep
              /\ UNCHANGED <<runs, context, steers, ghosts>>

\* Steers are taken before anything else is decided; without a stop reason the loop goes on.
\* Fault: what the step returned is decided without a look at the queue.
Deaf == FALSE
HearsFirst == queue # <<>>
Continues == /\ Finished(Outs \ {"error", "none"})
             /\ step.out = "more" \/ HearsFirst
             /\ main' = "injecting" /\ step' = NoStep
             /\ UNCHANGED <<active, used, runs, outcome, context, steers, ghosts>>

Stops(outs) == Finished(outs) /\ ~HearsFirst

\* A gate appends a message of its own and asks for another step.
Again(counter, kind) ==
    /\ used' = [used EXCEPT ![counter] = @ + 1]
    /\ history' = Append1(kind, step.id)
    /\ main' = "ready" /\ step' = NoStep
    /\ UNCHANGED <<active, runs, outcome, growing, comp, steers, ghosts>>

\* The turn ends; `said` is a text the loop makes up when the model gave none.
End(how, said) ==
    /\ main' = "ended" /\ outcome' = how /\ history' = history \o said
    /\ step' = NoStep /\ used' = [Fresh EXCEPT !.hooked = used.hooked]
    /\ UNCHANGED <<active, runs, growing, comp, steers, ghosts>>

\* Fault: the loop gives up silently.
Silence == <<>>
Fallback == <<<<"text", step.id>>>>

\* The verification gate, asked before any end without tool calls; its message is
\* a system reminder.
Nudge == Stops({"text", "empty"}) /\ used.nudged < Nudges /\ Again("nudged", "nudge")

\* The tools repeat themselves.
Recover   == Stops({"repeat"}) /\ used.recovered < Recoveries /\ Again("recovered", "gate")
GivesUp   == Stops({"repeat"}) /\ used.recovered >= Recoveries /\ End("answered", Fallback)

\* The reply has no text to end on.
Continue  == Stops({"empty"}) /\ used.continued < Continuations /\ Again("continued", "gate")
MakesUp   == Stops({"empty"}) /\ used.continued >= Continuations /\ End("answered", Fallback)

Answers   == Stops({"text"}) /\ End("answered", <<>>)
Rejected  == Stops({"rejected"}) /\ End("rejected", <<>>)

Resolve == Nudge \/ Recover \/ GivesUp \/ Continue \/ MakesUp \/ Answers \/ Rejected

----------------------------------------------------------------------------
\* The step's task

\* _step removes the system reminders of earlier steps from the history before it
\* asks the model: position k gets the k-th message that is none.
Reminders == {"nudge"}
Kept(messages) == {i \in DOMAIN messages : messages[i][1] \notin Reminders}
Rank(places, i) == Cardinality({j \in places : j <= i})
Stripped(messages) ==
    [k \in 1..Cardinality(Kept(messages)) |->
        messages[CHOOSE i \in Kept(messages) : Rank(Kept(messages), i) = k]]
Asks == /\ main = "racing" /\ step.at = "preparing"
        /\ step' = [step EXCEPT !.at = "asking"]
        /\ history' = Stripped(history)
        /\ UNCHANGED <<loop, growing, comp, steers, ghosts>>

Asking == main = "racing" /\ step.at = "asking"

\* The model replies with tool calls.
Calls == /\ Asking /\ step' = [step EXCEPT !.at = "calling"]
         /\ UNCHANGED <<loop, context, steers, ghosts>>

\* _grow_context runs up to its first await when the step shields it: the reply is
\* in the history, `left` is still to come.
Grow(reply, left, out) ==
    /\ history' = Append1(reply, step.id)
    /\ growing' = growing \cup {[id |-> step.id, left |-> left]}
    /\ step' = [step EXCEPT !.at = "growing", !.out = out]
    /\ UNCHANGED <<loop, comp, steers, ghosts>>

\* The model replies without tool calls.
Replies == Asking /\ \E kind \in {"text", "empty"} : Grow(kind, <<>>, kind)

\* All tools have answered.
Results == <<<<"result", step.id>>>>
ToolsDone == /\ main = "racing" /\ step.at = "calling" /\ comp.at = "no"
             /\ \E out \in {"more", "rejected", "repeat"} : Grow("call", Results, out)

\* The model cannot take a result of this kind: nothing is written.
ResultsRefused == /\ main = "racing" /\ step.at = "calling" /\ comp.at = "no"
                  /\ step' = [step EXCEPT !.at = "done", !.out = "error"]
                  /\ UNCHANGED <<loop, context, steers, ghosts>>

\* The second append of a write, and the end of a write.  Once a compaction has taken
\* what it preserves, a result that comes is erased or ends up before its call.
GrowOn(g) == /\ g.left # <<>>
             /\ history' = history \o g.left
             /\ growing' = (growing \ {g}) \cup {[g EXCEPT !.left = <<>>]}
             /\ torn' = IF comp.at \in {"exporting", "cleared"} THEN torn \cup {g.id} ELSE torn
             /\ UNCHANGED <<loop, step, comp, steers, cut, lost, wiped>>
GrowEnd(g) == /\ g.left = <<>>
              /\ growing' = growing \ {g}
              /\ UNCHANGED <<loop, step, comp, history, steers, ghosts>>

\* The write is done and the step returns.
Grown == /\ main = "racing" /\ step.at = "growing" /\ step.id \notin Unfinished
         /\ step' = [step EXCEPT !.at = "done"]
         /\ UNCHANGED <<loop, context, steers, ghosts>>

\* The model only thinks, whatever is retried: nothing is written.
ThinkOnly == /\ Asking /\ step' = [step EXCEPT !.at = "done", !.out = "empty"]
             /\ UNCHANGED <<loop, context, steers, ghosts>>

\* Retries are exhausted, or the error is not one to retry.
Broken == /\ Asking /\ step' = [step EXCEPT !.at = "done", !.out = "error"]
          /\ UNCHANGED <<loop, context, steers, ghosts>>

\* The request does not fit in the model's context window.
Overflow == /\ Asking /\ used.overflown < Overflows
            /\ step' = [step EXCEPT !.at = "compacting"]
            /\ comp' = Compact("overflow")
            /\ UNCHANGED <<loop, history, growing, steers, ghosts>>

\* The model calls the compact tool (bound: once in a step).
CompactTool == /\ main = "racing" /\ step.at = "calling" /\ comp.at = "no" /\ ~used.compacted
               /\ comp' = Compact("tool")
               /\ used' = [used EXCEPT !.compacted = TRUE]
               /\ UNCHANGED <<main, active, runs, outcome, step, history, growing, steers, ghosts>>

----------------------------------------------------------------------------
\* compact_context

\* tool_pairing.py: a cut is a place where no call waits for its result, or the end.
CallsTo(messages, n)   == {i \in 1..n : messages[i][1] = "call"}
ResultsTo(messages, n) == {i \in 1..n : messages[i][1] = "result"}
Pending(messages, n) == Cardinality(CallsTo(messages, n)) - Cardinality(ResultsTo(messages, n))
Readable(messages) == \A n \in 0..Len(messages) : Pending(messages, n) >= 0
Cuts(messages) == {n \in 0..Len(messages) : Pending(messages, n) = 0} \cup {Len(messages)}
LastCut(messages, n) ==
    CHOOSE c \in Cuts(messages) : c <= n /\ \A d \in Cuts(messages) : d <= n => d <= c

\* SimpleCompaction.prepare: the last `depth' messages of the user and the model are
\* preserved, from a cut on, and the first message is.
Turns(messages) == {i \in DOMAIN messages : messages[i][1] # "result"}
Enough(messages, depth) == depth > 0 /\ Cardinality(Turns(messages)) >= depth
Boundary(messages, depth) ==
    CHOOSE n \in 0..Len(messages) : /\ n + 1 \in Turns(messages)
                                    /\ Cardinality({i \in Turns(messages) : i > n}) = depth
From(messages, n) == SubSeq(messages, n + 1, Len(messages))
\* The first message is not put before the tail when a call would be left without its
\* result in what is summarised: the tail then begins at an earlier cut.
Preserved(messages, depth) ==
    LET n == LastCut(messages, Boundary(messages, depth))
    IN  IF \E i \in (n + 1)..Len(messages) : messages[i] = messages[1]
        THEN From(messages, n)
        ELSE IF n - 1 \in Cuts(messages)
             THEN <<messages[1]>> \o From(messages, n)
             ELSE From(messages, LastCut(messages, n - 1))

\* The history is split.  With too few messages the result is the list of the history
\* itself, with nothing to summarise a copy of it; the model is asked in neither case.
Prepares ==
    /\ comp.at = "preparing"
    /\ \E depth \in Depths :
          \/ /\ ~Enough(history, depth)
             /\ comp' = [comp EXCEPT !.at = "exporting", !.live = TRUE]
          \/ /\ Enough(history, depth) /\ Readable(history)
             /\ LET kept == Preserved(history, depth)
                IN  comp' = IF kept = history
                            THEN [comp EXCEPT !.at = "exporting", !.messages = kept]
                            ELSE [comp EXCEPT !.at = "summing", !.before = history,
                                      !.messages = <<<<"summary", step.id>>>> \o kept]
    /\ UNCHANGED <<loop, step, history, growing, steers, ghosts>>

\* The summary is there and the history it was made from has not changed.
Summed == /\ comp.at = "summing" /\ history = comp.before
          /\ comp' = [comp EXCEPT !.at = "exporting", !.before = <<>>]
          /\ UNCHANGED <<loop, step, history, growing, steers, ghosts>>

\* The history is exported; then the context is cleared, whatever it holds by now.
Clears == /\ comp.at = "exporting"
          /\ comp' = [comp EXCEPT !.at = "cleared"] /\ history' = <<>>
          /\ UNCHANGED <<loop, step, growing, steers, ghosts>>

\* The history changed meanwhile.  A request for the summary is retried with the history
\* of now; a summary of the old one is made once more, then it is an error.
Anew(again) == [Compact(comp.by) EXCEPT !.again = again]
Retries == /\ comp.at = "summing" /\ history # comp.before
           /\ comp' = Anew(comp.again)
           /\ UNCHANGED <<loop, step, history, growing, steers, ghosts>>
Changed == /\ comp.at = "summing" /\ history # comp.before /\ ~comp.again
           /\ comp' = Anew(TRUE)
           /\ UNCHANGED <<loop, step, history, growing, steers, ghosts>>

\* The summary and what is preserved are appended to what is in the context by now (of
\* the list that was emptied nothing is left), and the caller goes on: the loop to its
\* step, the step to a request that fits, the tool to its answer.
\* Fault: a compaction for an overflow is not counted.
Uncounted == used.overflown
Spent == used.overflown + 1
Rebuilt == /\ comp.at = "cleared"
           /\ history' = history \o (IF comp.live THEN history ELSE comp.messages)
           /\ comp' = NoComp /\ wiped' = (wiped \/ comp.live)
           /\ \/ comp.by = "loop" /\ main' = "starting" /\ UNCHANGED <<used, step>>
              \/ /\ comp.by = "overflow"
                 /\ step' = [step EXCEPT !.at = "preparing"]
                 /\ used' = [used EXCEPT !.overflown = Spent]
                 /\ UNCHANGED main
              \/ comp.by = "tool" /\ UNCHANGED <<main, used, step>>
           /\ UNCHANGED <<active, outcome, runs, growing, steers, cut, torn, lost>>

\* The history cannot be split, the model fails to summarise, or the history changed
\* twice: an error for the loop and for the step, a result like any other for the tool.
\* Fault: the context is cleared before the summary is sure.
FailsLate == comp.at \in {"preparing", "summing", "cleared"}
MayFail == comp.at \in {"preparing", "summing"}
CompactFails == /\ MayFail
                /\ comp' = NoComp
                /\ \/ comp.by = "loop" /\ Fail /\ UNCHANGED step
                   \/ /\ comp.by = "overflow"
                      /\ step' = [step EXCEPT !.at = "done", !.out = "error"]
                      /\ UNCHANGED <<main, active, outcome, used>>
                   \/ comp.by = "tool" /\ UNCHANGED <<main, active, outcome, used, step>>
                /\ UNCHANGED <<runs, history, growing, steers, ghosts>>

----------------------------------------------------------------------------
\* Steers and the event loop

\* push: is the soul running?  If not, the steer is queued and False returned.
Check(s) == /\ when[s] = "new"
            /\ IF active THEN when' = [when EXCEPT ![s] = "checked"] /\ queue' = queue
                         ELSE when' = [when EXCEPT ![s] = "refused"] /\ queue' = Append(queue, s)
            /\ UNCHANGED <<loop, step, context, wake, seen, ghosts>>

\* request_steer, on the soul's own loop; push then returns True.
Moment == CASE main \in {"opening", "entering"} -> "early"
            [] main = "ended"                   -> "late"
            [] main = "idle"                    -> "gone"
            [] OTHER                            -> "loop"
Push(s) == /\ when[s] = "checked"
           /\ when' = [when EXCEPT ![s] = Moment]
           /\ queue' = Append(queue, s) /\ wake' = TRUE
           /\ UNCHANGED <<loop, step, context, seen, ghosts>>

\* Between two runs the event loop may be closed, and with it the writes that are left.
LoopCloses == /\ main = "idle" /\ growing # {}
              /\ growing' = {} /\ torn' = torn \cup Unfinished
              /\ UNCHANGED <<loop, step, history, comp, steers, cut, lost, wiped>>

----------------------------------------------------------------------------
StepTask == Asks \/ Calls \/ Replies \/ ToolsDone \/ ResultsRefused \/ Grown \/ ThinkOnly
            \/ Broken \/ Overflow \/ CompactTool
Loop == Run \/ Blocked \/ Turn \/ Enter \/ StopHook \/ Return \/ Guard \/ Spawn \/ Interrupted
        \/ Cancel \/ Inject \/ Refuse \/ Injected \/ StepFailed \/ Continues \/ Resolve
Writes == \E g \in growing : GrowOn(g) \/ GrowEnd(g)
Compaction == Prepares \/ Summed \/ Retries \/ Clears \/ Changed \/ Rebuilt \/ CompactFails
Pushes == \E s \in Steers : Check(s) \/ Push(s)

Next == Loop \/ StepTask \/ Writes \/ Compaction \/ Pushes \/ LoopCloses
Spec == Init /\ [][Next]_vars

\* The event loop, the model, the tools, the hooks and the disk answer; nobody has
\* to prompt, to steer or to cancel.
Progress == \/ Turn \/ Enter \/ Return \/ Guard \/ Spawn \/ Interrupted \/ Inject \/ Injected
            \/ StepFailed \/ Continues \/ Resolve \/ StepTask \/ Writes \/ Compaction
FairSpec == Spec /\ WF_vars(Progress)

----------------------------------------------------------------------------
\* Properties

Outcomes == {"none", "blocked", "answered", "rejected", "failed", "cancelled"}

\* The variables have their types, and run() is active exactly when it has not
\* returned.
TypeOK ==
    /\ main \in Places /\ active = (main # "idle") /\ outcome \in Outcomes
    /\ used \in Counters /\ runs \in 0..MaxRuns
    /\ step.id \in Nat /\ step.out \in Outs
    /\ step.at \in {"none", "preparing", "asking", "calling", "growing", "compacting", "done"}
    /\ (step.at # "none") => main = "racing"
    /\ queue \in Seq(Steers) /\ wake \in BOOLEAN /\ lost \in BOOLEAN /\ wiped \in BOOLEAN
    /\ when \in [Steers -> {"new", "refused", "checked", "early", "loop", "late", "gone", "dropped"}]
    /\ seen \subseteq Steers /\ torn \subseteq cut
    /\ comp.at \in {"no", "preparing", "summing", "exporting", "cleared"}

Kind(i) == history[i][1]
Id(i)   == history[i][2]

\* A provider refuses a history in which a call is not followed by its result.  The
\* messages of a step stay together in the history when nobody cancelled the step
\* in the middle of its write, whatever compactions, steers and gates go on (a late
\* result of a step that was cancelled may come between): no compaction summarises one
\* and preserves the other, at any depth and with the first message put before the tail
\* (SimpleCompaction.prepare).  And a cancelled write still ends, unless its event loop
\* is closed or its result comes when a compaction has taken what it preserves
\* (asyncio.shield around _grow_context).  All this does not hold once a compaction has
\* put back the list it emptied: the context may then begin with a call.
Late(m) == m[1] = "result" /\ m[2] \in cut
Follows(i, j) == i < j /\ \A k \in (i + 1)..(j - 1) : Late(history[k])
StepsAreWhole ==
    ~wiped => \A i \in DOMAIN history :
        LET call == <<"call", Id(i)>>  result == <<"result", Id(i)>>
        IN  /\ history[i] = call /\ Id(i) \notin cut \cup Unfinished =>
                   \E j \in DOMAIN history : Follows(i, j) /\ history[j] = result
            /\ history[i] = result /\ ~Late(history[i]) =>
                   \E j \in DOMAIN history : Follows(j, i) /\ history[j] = call
            /\ history[i] = call /\ Id(i) \in cut \ (torn \cup Unfinished) =>
                   \E j \in DOMAIN history : i < j /\ history[j] = result

\* A steer that arrives while the loop is at work (an earlier one is discarded as
\* stale, a later one finds nobody) is in the history by the time the turn ends
\* well: no interruption, compaction or gate lets one slip through
\* (_consume_pending_steers before every end of a turn).
NoSteerSkipped ==
    (main \in {"ended", "idle"} /\ outcome \in {"answered", "rejected"}) =>
        \A s \in Steers : when[s] = "loop" => s \in seen

\* A soul that has heard its user never has an empty context to go on with: the first
\* message is preserved or summarised, late results and a failure of the model do not
\* matter (the order in compact_context).  Two things break it: a cancellation in the
\* moment between clear and the summary, and a compaction with too few messages to
\* preserve, which puts back the list that it has just emptied.
Recalls == \E i \in DOMAIN history : Kind(i) \in {"user", "summary"}
Remembered == (step.id > 0 /\ comp.at # "cleared" /\ ~lost /\ ~wiped) => Recalls

\* A turn that ends well ends on a text for the user, also when the last steps were
\* empty, repeated themselves or were compacted (the gates of _agent_loop).
Said == {i \in DOMAIN history : Kind(i) \in {"call", "text", "empty"}}
EndsOnText ==
    (main = "ended" /\ outcome = "answered") =>
        \E i \in Said : Kind(i) = "text" /\ \A j \in Said : j <= i

\* A run ends, whatever the model replies and however often its context overflows:
\* the steps, the rounds of the gates and the overflow retries are bounded.
RunEnds == (main # "idle") ~> (main = "idle")

============================================================================
