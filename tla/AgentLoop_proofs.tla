--------------------------- MODULE AgentLoop_proofs ---------------------------
\* What is proved of AgentLoop for any steers, any limits and any number of runs:
\* run() is active exactly while it has not returned, no steer that reaches the loop
\* is skipped by a turn that ends well, the messages of a step stay together in the
\* history, the user's words are not lost, and a turn that ends well ends on a text.
EXTENDS AgentLoop, FiniteSetTheorems, TLAPS

----------------------------------------------------------------------------
\* The loop is at work: a steer that arrives now is for this turn.
Working == main \notin {"opening", "entering", "ended", "idle"}

Good == {"answered", "rejected"}

\* Steers that arrived while the loop was at work and are not in the history yet.
Open == {s \in Steers : when[s] = "loop" /\ s \notin seen}

Queued(s) == \E i \in 1..Len(queue) : queue[i] = s

\* The queue holds the open steers as long as the loop works, and there are none
\* once it has looked at the queue for the last time.
OpenAreQueued == Working => \A s \in Open : Queued(s)
NoneIsOpen    == main \in {"opening", "entering", "ended"} => Open = {}
GoodMeansNone == (main = "idle" /\ outcome \in Good) => Open = {}

Moments == {"new", "refused", "checked", "early", "loop", "late", "gone", "dropped"}

Typed == /\ main \in Places
         /\ active = (main # "idle")
         /\ queue \in Seq(Steers)
         /\ when \in [Steers -> Moments]

\* A compaction of the loop is in flight only while the loop waits for it, so that
\* its end leads from a working loop to a working loop.
LoopWaits == (comp.at # "no" /\ comp.by = "loop") => main = "compacting"

IInv == Typed /\ LoopWaits /\ OpenAreQueued /\ NoneIsOpen /\ GoodMeansNone

USE DEF Places

----------------------------------------------------------------------------
\* A step that moves a working loop to a working place, and touches no steer, keeps
\* the invariant.
LEMMA StaysAtWork ==
    ASSUME IInv, Working, Working', main' \in Places, active' = active, UNCHANGED steers, LoopWaits'
    PROVE  IInv'
BY DEF IInv, Typed, Working, OpenAreQueued, NoneIsOpen, GoodMeansNone, Open, Queued, steers

\* A step that does not touch the place, the outcome or a steer keeps it too.
LEMMA StaysInPlace ==
    ASSUME IInv, UNCHANGED <<main, active, outcome>>, UNCHANGED steers, LoopWaits'
    PROVE  IInv'
BY DEF IInv, Typed, Working, OpenAreQueued, NoneIsOpen, GoodMeansNone, Open, Queued, steers

\* A run that does not end well may end anywhere.
LEMMA EndsBadly ==
    ASSUME IInv, NEW how, how \notin Good, Leave(how), UNCHANGED <<when, seen>>,
           queue' \in Seq(Steers), LoopWaits'
    PROVE  IInv'
BY DEF IInv, Typed, Working, OpenAreQueued, NoneIsOpen, GoodMeansNone, Leave

\* A decision to end finds the queue empty, so that no steer is open.
LEMMA EmptyMeansNone ==
    ASSUME IInv, Working, ~HearsFirst
    PROVE  Open = {}
<1>1. queue = <<>>  BY DEF HearsFirst
<1>2. ASSUME NEW s \in Open PROVE FALSE
  <2>1. PICK i \in 1..Len(queue) : queue[i] = s  BY <1>2 DEF IInv, OpenAreQueued, Queued
  <2> QED  BY <1>1, <2>1
<1> QED  BY <1>2

----------------------------------------------------------------------------
LEMMA Initially == Init => IInv
<1> SUFFICES ASSUME Init PROVE IInv  OBVIOUS
<1>1. Open = {}  BY DEF Init, Open
<1>2. queue \in Seq(Steers)  BY DEF Init
<1> QED  BY <1>1, <1>2 DEF Init, IInv, Typed, Moments, LoopWaits, NoComp, Working, OpenAreQueued,
                           NoneIsOpen, GoodMeansNone, Good

\* The beginning of a run drops what is open, and the first look at the queue comes
\* before any steer can be one of the loop.
LEMMA Begins == ASSUME IInv, Run \/ Turn \/ Enter \/ StopHook PROVE IInv'
<1>1. CASE Run
  <2> USE <1>1 DEF Run
  <2>1. Open' = {}  BY DEF Open, IInv, Typed
  <2>2. Typed'
    <3>1. when' \in [Steers -> Moments]  BY DEF IInv, Typed, Moments
    <3>2. queue' \in Seq(Steers)  OBVIOUS
    <3> QED  BY <3>1, <3>2 DEF IInv, Typed
  <2>3. LoopWaits'  BY DEF IInv, LoopWaits, context
  <2> QED  BY <2>1, <2>2, <2>3 DEF IInv, OpenAreQueued, Working, NoneIsOpen, GoodMeansNone
<1>2. CASE Turn \/ StopHook
  <2>1. main \in {"opening", "ended"} /\ main' = "entering" /\ active' = active /\ comp' = comp
        /\ UNCHANGED steers
    BY <1>2 DEF Turn, StopHook
  <2>2. LoopWaits'  BY <2>1 DEF IInv, LoopWaits
  <2> QED  BY <2>1, <2>2 DEF IInv, Typed, OpenAreQueued, Working, NoneIsOpen, GoodMeansNone, Open, steers
<1>3. CASE Enter
  <2>1. Open = {} /\ Open' = Open  BY <1>3 DEF Enter, IInv, NoneIsOpen, Open
  <2>2. LoopWaits'  BY <1>3 DEF Enter, IInv, LoopWaits, context
  <2>3. Typed'  BY <1>3 DEF Enter, IInv, Typed
  <2> QED  BY <1>3, <2>1, <2>2, <2>3 DEF Enter, IInv, OpenAreQueued, NoneIsOpen, GoodMeansNone
<1> QED  BY <1>1, <1>2, <1>3

\* The ends of a run.  Only Return keeps a good outcome, and it finds no open steer.
LEMMA Ends == ASSUME IInv, Blocked \/ Return \/ Cancel \/ Refuse \/ StepFailed PROVE IInv'
<1>1. CASE Blocked
  <2>1. LoopWaits'  BY <1>1 DEF Blocked, Leave, IInv, LoopWaits, context
  <2> QED  BY <1>1, <2>1, EndsBadly DEF Blocked, Good, steers, IInv, Typed
<1>2. CASE Return
  <2>1. Open = {} /\ Open' = Open  BY <1>2 DEF Return, IInv, NoneIsOpen, Open, steers
  <2>2. LoopWaits'  BY <1>2 DEF Return, Leave, IInv, LoopWaits, context
  <2> QED  BY <1>2, <2>1, <2>2 DEF Return, Leave, IInv, Typed, OpenAreQueued, Working, NoneIsOpen,
                                   GoodMeansNone, steers
<1>3. CASE Cancel
  <2>1. LoopWaits'  BY <1>3 DEF Cancel, CancelStep, NoComp, LoopWaits
  <2> QED  BY <1>3, <2>1, EndsBadly DEF Cancel, Good, steers, IInv, Typed
<1>4. CASE Refuse
  <2>1. LoopWaits'  BY <1>4 DEF Refuse, Fail, Leave, IInv, LoopWaits, context
  <2>2. queue' \in Seq(Steers)  BY <1>4 DEF Refuse, IInv, Typed
  <2> QED  BY <1>4, <2>1, <2>2, EndsBadly DEF Refuse, Fail, Good
<1>5. CASE StepFailed
  <2>1. LoopWaits'  BY <1>5 DEF StepFailed, Finished, Fail, Leave, IInv, LoopWaits, context
  <2> QED  BY <1>5, <2>1, EndsBadly DEF StepFailed, Fail, Good, steers, IInv, Typed
<1> QED  BY <1>1, <1>2, <1>3, <1>4, <1>5

\* The guard, the start of a step and its interruption.
LEMMA Steps == ASSUME IInv, Guard \/ Spawn \/ Interrupted \/ Injected \/ Continues PROVE IInv'
<1>1. CASE Guard
  <2>1. CASE used.steps < MaxSteps /\ comp' = comp /\ main' = "starting"
    <3>1. LoopWaits'  BY <1>1, <2>1 DEF Guard, IInv, LoopWaits
    <3> QED  BY <1>1, <2>1, <3>1, StaysAtWork DEF Guard, Working
  <2>2. CASE used.steps < MaxSteps /\ main' = "compacting"
    <3>1. LoopWaits'  BY <2>2 DEF LoopWaits
    <3> QED  BY <1>1, <2>2, <3>1, StaysAtWork DEF Guard, Working
  <2>3. CASE ~(used.steps < MaxSteps)
    <3>1. Fail /\ comp' = comp /\ main = "ready" /\ UNCHANGED steers  BY <1>1, <2>3 DEF Guard
    <3>2. LoopWaits'  BY <3>1 DEF IInv, LoopWaits, Fail, Leave
    <3> QED  BY <3>1, <3>2, EndsBadly DEF Fail, Good, steers, IInv, Typed
  <2> QED  BY <1>1, <2>1, <2>2, <2>3 DEF Guard
<1>2. CASE Spawn
  <2>1. Working /\ Working' /\ LoopWaits'  BY <1>2 DEF Spawn, Working, IInv, LoopWaits, context
  <2> QED  BY <1>2, <2>1 DEF Spawn, IInv, Typed, OpenAreQueued, NoneIsOpen, GoodMeansNone, Open, Queued, Working
<1>3. CASE Interrupted
  <2>1. LoopWaits'  BY <1>3 DEF Interrupted, CancelStep, NoComp, LoopWaits
  <2> QED  BY <1>3, <2>1, StaysAtWork DEF Interrupted, Working
<1>4. CASE Injected
  <2>1. LoopWaits'  BY <1>4 DEF Injected, IInv, LoopWaits, context
  <2> QED  BY <1>4, <2>1, StaysAtWork DEF Injected, Working
<1>5. CASE Continues
  <2>1. LoopWaits'  BY <1>5 DEF Continues, Finished, IInv, LoopWaits, context
  <2> QED  BY <1>5, <2>1, StaysAtWork DEF Continues, Finished, Working
<1> QED  BY <1>1, <1>2, <1>3, <1>4, <1>5

\* A steer that is injected is no longer open, and the others keep their place.
LEMMA Injects == ASSUME IInv, Inject PROVE IInv'
<1> USE DEF Inject
<1>0. main = "injecting" /\ main' = main /\ active' = active /\ outcome' = outcome  BY DEF loop
<1>1. queue \in Seq(Steers) /\ queue # <<>>  BY DEF IInv, Typed
<1>2. Typed'  BY <1>0, <1>1 DEF IInv, Typed
<1>3. LoopWaits'  BY <1>0 DEF IInv, LoopWaits
<1>4. ASSUME NEW s \in Open' PROVE Queued(s)'
  <2>1. s \in Open /\ s # Head(queue)  BY <1>4 DEF Open
  <2>2. PICK i \in 1..Len(queue) : queue[i] = s  BY <1>0, <2>1 DEF IInv, OpenAreQueued, Working, Queued
  <2>3. i # 1  BY <1>1, <2>1, <2>2
  <2>4. i - 1 \in 1..Len(queue') /\ queue'[i - 1] = s  BY <1>1, <2>2, <2>3
  <2> QED  BY <2>4 DEF Queued
<1> QED  BY <1>0, <1>2, <1>3, <1>4 DEF IInv, OpenAreQueued, NoneIsOpen, GoodMeansNone

\* What a finished step may lead to: another step, or an end that has looked.
LEMMA Resolves == ASSUME IInv, Resolve PROVE IInv'
<1>1. ASSUME NEW outs, NEW counter, NEW kind, Stops(outs), Again(counter, kind) PROVE IInv'
  <2>1. main = "racing" /\ main' = "ready" /\ comp' = comp /\ active' = active /\ UNCHANGED steers
    BY <1>1 DEF Stops, Finished, Again
  <2>2. LoopWaits'  BY <2>1 DEF IInv, LoopWaits
  <2> QED  BY <2>1, <2>2, StaysAtWork DEF Working
<1>2. ASSUME NEW outs, NEW how, NEW said, Stops(outs), End(how, said) PROVE IInv'
  <2>1. main = "racing" /\ main' = "ended" /\ comp' = comp /\ active' = active /\ UNCHANGED steers /\ ~HearsFirst
    BY <1>2 DEF Stops, Finished, End
  <2>2. LoopWaits'  BY <2>1 DEF IInv, LoopWaits
  <2>3. Open = {} /\ Open' = Open  BY <2>1, EmptyMeansNone DEF Working, Open, steers
  <2> QED  BY <2>1, <2>2, <2>3 DEF IInv, Typed, OpenAreQueued, Working, NoneIsOpen, GoodMeansNone, steers
<1> QED  BY <1>1, <1>2 DEF Resolve, Nudge, Recover, GivesUp, Continue, MakesUp, Answers, Rejected

\* The step's own task and the writes do not touch the loop or a steer.
LEMMA Tasks == ASSUME IInv, StepTask \/ Writes PROVE IInv'
<1>1. CASE Writes
  <2>1. UNCHANGED loop /\ UNCHANGED steers /\ comp' = comp  BY <1>1 DEF Writes, GrowOn, GrowEnd
  <2> QED  BY <2>1, StaysInPlace DEF loop, IInv, LoopWaits
<1>2. CASE Overflow
  <2>1. UNCHANGED loop /\ UNCHANGED steers /\ comp'.by = "overflow"  BY <1>2 DEF Overflow, Compact, NoComp
  <2> QED  BY <2>1, StaysInPlace DEF loop, LoopWaits
<1>3. CASE CompactTool
  <2>1. UNCHANGED <<main, active, outcome>> /\ UNCHANGED steers /\ comp'.by = "tool"
    BY <1>3 DEF CompactTool, Compact, NoComp
  <2> QED  BY <2>1, StaysInPlace DEF LoopWaits
<1>4. CASE Asks \/ Calls \/ Replies \/ ToolsDone \/ ResultsRefused \/ Grown \/ ThinkOnly \/ Broken
  <2>1. UNCHANGED loop /\ UNCHANGED steers /\ comp' = comp
    BY <1>4 DEF Asks, Calls, Replies, ToolsDone, ResultsRefused, Grown, ThinkOnly, Broken, Grow, context
  <2> QED  BY <2>1, StaysInPlace DEF loop, IInv, LoopWaits
<1> QED  BY <1>1, <1>2, <1>3, <1>4 DEF StepTask

\* A compaction that ends leads a waiting loop to its step, or to a failed end.
LEMMA Compacts == ASSUME IInv, Compaction PROVE IInv'
<1>1. CASE Prepares \/ Summed \/ Retries \/ Clears \/ Changed
  <2>1. UNCHANGED loop /\ UNCHANGED steers  BY <1>1 DEF Prepares, Summed, Retries, Clears, Changed
  <2>2. LoopWaits'
    <3>1. CASE Summed  BY <2>1, <3>1 DEF Summed, IInv, LoopWaits, loop
    <3>2. CASE Retries  BY <2>1, <3>2 DEF Retries, Anew, Compact, NoComp, IInv, LoopWaits, loop
    <3>3. CASE Clears  BY <2>1, <3>3 DEF Clears, IInv, LoopWaits, loop
    <3>4. CASE Changed  BY <2>1, <3>4 DEF Changed, Anew, Compact, NoComp, IInv, LoopWaits, loop
    <3>5. CASE Prepares
      <4>1. comp.at # "no"  BY <3>5 DEF Prepares
      <4>2. comp'.by = comp.by
        <5>1. PICK depth \in Depths :
                \/ comp' = [comp EXCEPT !.at = "exporting", !.live = TRUE]
                \/ comp' = [comp EXCEPT !.at = "exporting", !.messages = Preserved(history, depth)]
                \/ comp' = [comp EXCEPT !.at = "summing", !.before = history,
                               !.messages = <<<<"summary", step.id>>>> \o Preserved(history, depth)]
          BY <3>5 DEF Prepares
        <5>2. CASE comp' = [comp EXCEPT !.at = "exporting", !.live = TRUE]  BY <5>2
        <5>3. CASE comp' = [comp EXCEPT !.at = "exporting", !.messages = Preserved(history, depth)]  BY <5>3
        <5>4. CASE comp' = [comp EXCEPT !.at = "summing", !.before = history,
                               !.messages = <<<<"summary", step.id>>>> \o Preserved(history, depth)]
          BY <5>4
        <5> QED  BY <5>1, <5>2, <5>3, <5>4
      <4> QED  BY <2>1, <4>1, <4>2 DEF IInv, LoopWaits, loop
    <3> QED  BY <1>1, <3>1, <3>2, <3>3, <3>4, <3>5
  <2> QED  BY <2>1, <2>2, StaysInPlace DEF loop
<1>2. CASE Rebuilt
  <2>1. LoopWaits' /\ UNCHANGED steers /\ active' = active /\ outcome' = outcome
    BY <1>2 DEF Rebuilt, NoComp, LoopWaits
  <2>2. CASE comp.by = "loop" /\ main' = "starting"
    <3>1. main = "compacting"  BY <1>2, <2>2 DEF Rebuilt, IInv, LoopWaits
    <3> QED  BY <2>1, <2>2, <3>1, StaysAtWork DEF Working
  <2>3. CASE main' = main  BY <2>1, <2>3, StaysInPlace
  <2> QED  BY <1>2, <2>2, <2>3 DEF Rebuilt
<1>3. CASE CompactFails
  <2>1. LoopWaits' /\ UNCHANGED steers  BY <1>3 DEF CompactFails, NoComp, LoopWaits
  <2>2. CASE Fail  BY <2>1, <2>2, EndsBadly DEF Fail, Good, steers, IInv, Typed
  <2>3. CASE UNCHANGED <<main, active, outcome>>  BY <2>1, <2>3, StaysInPlace
  <2> QED  BY <1>3, <2>2, <2>3 DEF CompactFails
<1> QED  BY <1>1, <1>2, <1>3 DEF Compaction

\* A push that finds the loop at work puts its steer in the queue; any other is not
\* one of the loop.
LEMMA Pushing == ASSUME IInv, NEW s \in Steers, Check(s) \/ Push(s) PROVE IInv'
<1>0. UNCHANGED <<main, active, outcome, comp, seen>>  BY DEF Check, Push, loop, context
<1>1. LoopWaits'  BY <1>0 DEF IInv, LoopWaits
<1>2. Typed'
  <2>1. Moment \in Moments  BY DEF Moment, Moments
  <2>2. when' \in [Steers -> Moments]  BY <2>1 DEF Check, Push, IInv, Typed, Moments
  <2>3. queue' \in Seq(Steers)  BY DEF Check, Push, IInv, Typed
  <2> QED  BY <1>0, <2>2, <2>3 DEF IInv, Typed
<1>3. \A t \in Steers : Queued(t) => Queued(t)'
  <2> SUFFICES ASSUME NEW t \in Steers, NEW i \in 1..Len(queue), queue[i] = t PROVE Queued(t)'
    BY DEF Queued
  <2>1. i \in 1..Len(queue') /\ queue'[i] = t  BY DEF Check, Push, IInv, Typed
  <2> QED  BY <2>1 DEF Queued
<1>4. CASE Check(s)
  <2>1. Open' \subseteq Open  BY <1>0, <1>4 DEF Check, Open, IInv, Typed
  <2> QED  BY <1>0, <1>1, <1>2, <1>3, <2>1 DEF IInv, OpenAreQueued, Working, NoneIsOpen, GoodMeansNone, Open
<1>5. CASE Push(s) /\ ~Working
  <2>1. Moment # "loop"  BY <1>5 DEF Moment, Working
  <2>2. Open' \subseteq Open  BY <1>0, <1>5, <2>1 DEF Push, Open, IInv, Typed
  <2> QED  BY <1>0, <1>1, <1>2, <1>5, <2>2 DEF IInv, OpenAreQueued, Working, NoneIsOpen, GoodMeansNone
<1>6. CASE Push(s) /\ Working
  <2>1. Open' \subseteq Open \cup {s}  BY <1>0, <1>6 DEF Push, Open, IInv, Typed
  <2>2. Queued(s)'
    <3>1. queue' = Append(queue, s) /\ queue \in Seq(Steers)  BY <1>6 DEF Push, IInv, Typed
    <3>2. Len(queue) + 1 \in 1..Len(queue') /\ queue'[Len(queue) + 1] = s  BY <3>1
    <3> QED  BY <3>2 DEF Queued
  <2>3. \A t \in Open' : Queued(t)'
    BY <1>3, <1>6, <2>1, <2>2 DEF IInv, OpenAreQueued, Open
  <2> QED  BY <1>0, <1>1, <1>2, <1>6, <2>3 DEF IInv, OpenAreQueued, Working, NoneIsOpen, GoodMeansNone
<1> QED  BY <1>4, <1>5, <1>6

LEMMA Inductive == IInv /\ [Next]_vars => IInv'
<1> SUFFICES ASSUME IInv, [Next]_vars PROVE IInv'  OBVIOUS
<1>1. CASE Loop
  BY <1>1, Begins, Ends, Steps, Injects, Resolves DEF Loop
<1>2. CASE StepTask \/ Writes  BY <1>2, Tasks
<1>3. CASE Compaction  BY <1>3, Compacts
<1>4. CASE Pushes  BY <1>4, Pushing DEF Pushes
<1>5. CASE LoopCloses
  <2>1. UNCHANGED loop /\ UNCHANGED steers /\ comp' = comp  BY <1>5 DEF LoopCloses
  <2> QED  BY <2>1, StaysInPlace DEF loop, IInv, LoopWaits
<1>6. CASE UNCHANGED vars
  <2>1. UNCHANGED loop /\ UNCHANGED steers /\ comp' = comp  BY <1>6 DEF vars, context
  <2> QED  BY <2>1, StaysInPlace DEF loop, IInv, LoopWaits
<1> QED  BY <1>1, <1>2, <1>3, <1>4, <1>5, <1>6 DEF Next

----------------------------------------------------------------------------
(* Types.  They rest on who waits for whom: a step's task exists only while the  *)
(* loop races it, a compaction for an overflow only while its step waits, and    *)
(* every write belongs to the current step or to one that was cut.               *)

StepPlaces == {"none", "preparing", "asking", "calling", "growing", "compacting", "done"}
Lefts == {<<>>} \cup {<<<<"result", i>>>> : i \in Nat}

\* A compaction is in flight only while its caller waits for it.
CallerWaits == comp.at # "no" => \/ comp.by = "loop" /\ main = "compacting"
                                 \/ comp.by = "overflow" /\ step.at = "compacting"
                                 \/ comp.by = "tool" /\ step.at = "calling"
CompShape == comp = [at |-> comp.at, by |-> comp.by, before |-> comp.before, again |-> comp.again,
                     messages |-> comp.messages, live |-> comp.live]

LoopTypes == /\ main \in Places /\ active = (main # "idle") /\ outcome \in Outcomes
             /\ used \in Counters /\ runs \in 0..MaxRuns
StepTypes == /\ step \in [id : Nat, at : StepPlaces, out : Outs]
             /\ (step.at # "none") => main = "racing"
CompTypes == /\ CompShape
             /\ comp.at \in {"no", "preparing", "summing", "exporting", "cleared"}
             /\ CallerWaits
SteerTypes == /\ queue \in Seq(Steers) /\ wake \in BOOLEAN
              /\ when \in [Steers -> Moments] /\ seen \subseteq Steers
GhostTypes == torn \subseteq cut /\ lost \in BOOLEAN /\ wiped \in BOOLEAN
WriteTypes == /\ growing \subseteq [id : Nat, left : Lefts]
              /\ \A g \in growing : g.id \in cut \/ (step.at = "growing" /\ g.id = step.id)

TInv == LoopTypes /\ StepTypes /\ CompTypes /\ SteerTypes /\ GhostTypes /\ WriteTypes

LEMMA FreshCounts == Fresh \in Counters /\ \A b \in BOOLEAN : [Fresh EXCEPT !.hooked = b] \in Counters
BY DEF Fresh, Counters

LEMMA SomeRuns == MaxRuns \in Nat
BY NumbersAssumption

LEMMA TypesBegin == Init => TInv
<1> SUFFICES ASSUME Init PROVE TInv  OBVIOUS
<1>1. LoopTypes
  <2>1. main \in Places /\ active = (main # "idle")  BY DEF Init
  <2>2. used \in Counters  BY FreshCounts DEF Init
  <2>3. runs \in 0..MaxRuns /\ outcome \in Outcomes  BY SomeRuns DEF Init, Outcomes
  <2> QED  BY <2>1, <2>2, <2>3 DEF LoopTypes
<1>2. StepTypes /\ CompTypes /\ GhostTypes /\ WriteTypes
  BY DEF Init, StepTypes, CompTypes, CompShape, GhostTypes, WriteTypes, NoComp, CallerWaits, StepPlaces, Outs
<1>3. SteerTypes
  <2>1. queue \in Seq(Steers)  BY DEF Init
  <2>2. wake \in BOOLEAN /\ seen \subseteq Steers  BY DEF Init
  <2>3. when \in [Steers -> Moments]  BY DEF Init, Moments
  <2> QED  BY <2>1, <2>2, <2>3 DEF SteerTypes
<1> QED  BY <1>1, <1>2, <1>3 DEF TInv

\* The coroutine of run().
LEMMA TypesOfLoop == ASSUME TInv, Loop PROVE TInv'
<1> USE DEF TInv
<1>1. CASE Run
  <2>1. LoopTypes'
    <3>1. main' \in Places /\ active' = (main' # "idle") /\ outcome' \in Outcomes  BY <1>1 DEF Run, Outcomes
    <3>2. used' \in Counters  BY <1>1, FreshCounts DEF Run
    <3>3. runs' \in 0..MaxRuns  BY <1>1, SomeRuns DEF Run, LoopTypes
    <3> QED  BY <3>1, <3>2, <3>3 DEF LoopTypes
  <2>2. StepTypes' /\ CompTypes' /\ GhostTypes' /\ WriteTypes'
    BY <1>1 DEF Run, LoopTypes, StepTypes, CompTypes, CompShape, GhostTypes, WriteTypes, context, ghosts, CallerWaits
  <2>3. SteerTypes'
    <3>1. queue' \in Seq(Steers)  BY <1>1 DEF Run
    <3>2. wake' \in BOOLEAN /\ seen' \subseteq Steers  BY <1>1 DEF Run, SteerTypes
    <3>3. when' \in [Steers -> Moments]  BY <1>1 DEF Run, Moments, SteerTypes
    <3> QED  BY <3>1, <3>2, <3>3 DEF SteerTypes
  <2> QED  BY <2>1, <2>2, <2>3
<1>2. CASE Turn \/ Enter \/ StopHook
  <2>1. /\ main \in {"opening", "entering", "ended"} /\ main' \in {"entering", "ready"} /\ active' = active
        /\ UNCHANGED <<runs, outcome, step, growing, comp, when, seen, ghosts>>
        /\ queue' \in {queue, <<>>} /\ wake' \in {wake, FALSE}
    BY <1>2 DEF Turn, Enter, StopHook, context, steers
  <2>2. used' \in Counters
    <3>1. used.hooked \in BOOLEAN  BY DEF LoopTypes, Counters
    <3>2. CASE Turn  BY <3>2 DEF Turn, LoopTypes
    <3>3. CASE Enter  BY <3>1, <3>3, FreshCounts DEF Enter
    <3>4. CASE StopHook  BY <3>4 DEF StopHook, LoopTypes, Counters
    <3> QED  BY <1>2, <3>2, <3>3, <3>4
  <2>3. LoopTypes'
    <3>1. active' = (main' # "idle")  BY <2>1 DEF LoopTypes
    <3>2. main' \in Places  BY <2>1
    <3> QED  BY <2>1, <2>2, <3>1, <3>2 DEF LoopTypes
  <2>4. StepTypes' /\ CompTypes' /\ GhostTypes' /\ WriteTypes'
    BY <2>1 DEF StepTypes, CompTypes, CompShape, GhostTypes, WriteTypes, ghosts, CallerWaits
  <2>5. SteerTypes'
    <3>1. queue' \in Seq(Steers)
      <4>1. <<>> \in Seq(Steers)  OBVIOUS
      <4> QED  BY <2>1, <4>1 DEF SteerTypes
    <3>2. wake' \in BOOLEAN  BY <2>1 DEF SteerTypes
    <3> QED  BY <2>1, <3>1, <3>2 DEF SteerTypes
  <2> QED  BY <2>3, <2>4, <2>5
<1>3. CASE Blocked \/ Return
  <2>1. /\ Leave(outcome) \/ Leave("blocked")
        /\ main # "racing" /\ main # "compacting"
        /\ UNCHANGED <<runs, step, context, steers, ghosts>>
    BY <1>3 DEF Blocked, Return
  <2>2. LoopTypes'
    BY <2>1, FreshCounts DEF Leave, LoopTypes, Outcomes
  <2>3. StepTypes' /\ CompTypes' /\ GhostTypes' /\ WriteTypes' /\ SteerTypes'
    BY <2>1 DEF Leave, StepTypes, CompTypes, CompShape, GhostTypes, WriteTypes, SteerTypes, context, ghosts, steers, CallerWaits
  <2> QED  BY <2>2, <2>3
<1>4. CASE Guard
  <2>1. main = "ready" /\ UNCHANGED <<runs, step, history, growing, steers, ghosts>>  BY <1>4 DEF Guard
  <2>2. LoopTypes' /\ StepTypes' /\ CompTypes'
    <3>1. CASE used.steps < MaxSteps
      <4>1. /\ main' \in {"starting", "compacting"} /\ UNCHANGED <<active, outcome>>
            /\ used' = [used EXCEPT !.steps = @ + 1]
        BY <1>4, <3>1 DEF Guard
      <4>2. used' \in Counters  BY <4>1 DEF LoopTypes, Counters
      <4>3. LoopTypes'  BY <2>1, <4>1, <4>2 DEF LoopTypes
      <4>4. StepTypes'  BY <2>1, <4>1 DEF StepTypes
      <4>5. CompTypes'  BY <1>4, <2>1, <3>1 DEF Guard, Compact, NoComp, CompTypes, CompShape, CallerWaits
      <4> QED  BY <4>3, <4>4, <4>5
    <3>2. CASE ~(used.steps < MaxSteps)
      <4>1. Fail /\ comp' = comp  BY <1>4, <3>2 DEF Guard
      <4>2. LoopTypes'  BY <2>1, <4>1, FreshCounts DEF Fail, Leave, LoopTypes, Outcomes
      <4> QED  BY <2>1, <4>1, <4>2 DEF Fail, Leave, StepTypes, CompTypes, CompShape, CallerWaits
    <3> QED  BY <3>1, <3>2
  <2>3. GhostTypes' /\ WriteTypes' /\ SteerTypes'
    BY <2>1 DEF GhostTypes, WriteTypes, SteerTypes, ghosts, steers
  <2> QED  BY <2>2, <2>3
<1>5. CASE Spawn
  <2>1. LoopTypes'
    <3>1. used' \in Counters  BY <1>5 DEF Spawn, LoopTypes, Counters
    <3> QED  BY <1>5, <3>1 DEF Spawn, LoopTypes
  <2>2. StepTypes' /\ CompTypes' /\ GhostTypes' /\ WriteTypes'
    BY <1>5 DEF Spawn, StepTypes, CompTypes, CompShape, GhostTypes, WriteTypes, context, ghosts, CallerWaits, StepPlaces, Outs
  <2>3. SteerTypes'  BY <1>5 DEF Spawn, SteerTypes
  <2> QED  BY <2>1, <2>2, <2>3
<1>6. CASE Interrupted \/ Cancel
  <2>1. CancelStep /\ UNCHANGED <<runs, history, steers, torn>>  BY <1>6 DEF Interrupted, Cancel
  <2>2. LoopTypes'
    <3>1. CASE Interrupted  BY <3>1 DEF Interrupted, LoopTypes
    <3>2. CASE Cancel  BY <3>2, FreshCounts DEF Cancel, Leave, LoopTypes, Outcomes
    <3> QED  BY <1>6, <3>1, <3>2
  <2>3. StepTypes' /\ CompTypes'
    BY <2>1 DEF CancelStep, NoStep, NoComp, StepTypes, CompTypes, CompShape, CallerWaits, StepPlaces, Outs
  <2>4. GhostTypes'
    <3>1. torn' \subseteq cut'  BY <2>1 DEF CancelStep, GhostTypes
    <3>2. lost' \in BOOLEAN  BY <2>1 DEF CancelStep, GhostTypes
    <3>3. wiped' \in BOOLEAN  BY <2>1 DEF CancelStep, GhostTypes
    <3> QED  BY <3>1, <3>2, <3>3 DEF GhostTypes
  <2>5. WriteTypes'
    <3>1. growing' = growing  BY <2>1 DEF CancelStep, Shielded
    <3>2. ASSUME NEW g \in growing PROVE g.id \in cut'
      <4>1. CASE g.id \in cut  BY <2>1, <4>1 DEF CancelStep
      <4>2. CASE step.at = "growing" /\ g.id = step.id
        <5>1. step.id \in Unfinished  BY <3>2, <4>2 DEF Unfinished
        <5> QED  BY <2>1, <4>2, <5>1 DEF CancelStep
      <4> QED  BY <3>2, <4>1, <4>2 DEF WriteTypes
    <3> QED  BY <3>1, <3>2 DEF WriteTypes
  <2>6. SteerTypes'  BY <2>1 DEF SteerTypes, steers
  <2> QED  BY <2>2, <2>3, <2>4, <2>5, <2>6
<1>7. CASE Inject \/ Refuse
  <2>1. /\ main = "injecting" /\ queue # <<>> /\ queue' = Tail(queue)
        /\ UNCHANGED <<runs, step, growing, comp, wake, when, ghosts>>
    BY <1>7 DEF Inject, Refuse, loop, context
  <2>2. LoopTypes'
    <3>1. CASE Inject  BY <3>1 DEF Inject, loop, LoopTypes
    <3>2. CASE Refuse  BY <3>2, FreshCounts DEF Refuse, Fail, Leave, LoopTypes, Outcomes
    <3> QED  BY <1>7, <3>1, <3>2
  <2>3. StepTypes' /\ CompTypes' /\ GhostTypes' /\ WriteTypes'
    <3>1. main' \in {"injecting", "idle"}  BY <1>7, <2>1 DEF Inject, loop, Refuse, Fail, Leave
    <3> QED  BY <2>1, <3>1 DEF StepTypes, CompTypes, CompShape, GhostTypes, WriteTypes, ghosts, CallerWaits
  <2>4. SteerTypes'
    <3>1. queue \in Seq(Steers)  BY DEF SteerTypes
    <3>2. Head(queue) \in Steers /\ queue' \in Seq(Steers)  BY <2>1, <3>1
    <3>3. seen' \subseteq Steers  BY <1>7, <3>2 DEF Inject, Refuse, SteerTypes
    <3> QED  BY <2>1, <3>2, <3>3 DEF SteerTypes
  <2> QED  BY <2>2, <2>3, <2>4
<1>8. CASE Injected \/ Continues
  <2>1. /\ main' \in {"ready", "injecting"} /\ step' \in {step, NoStep} /\ step'.at = "none"
        /\ step.at \in {"none", "done"} /\ main \in {"injecting", "racing"}
        /\ UNCHANGED <<active, used, runs, outcome, context, steers, ghosts>>
    BY <1>8 DEF Injected, Continues, Finished, NoStep, StepTypes
  <2>2. LoopTypes'  BY <2>1 DEF LoopTypes
  <2>3. StepTypes' /\ CompTypes' /\ GhostTypes' /\ WriteTypes' /\ SteerTypes'
    BY <2>1 DEF NoStep, StepTypes, CompTypes, CompShape, GhostTypes, WriteTypes, SteerTypes, context, ghosts, steers,
                CallerWaits, StepPlaces, Outs
  <2> QED  BY <2>2, <2>3
<1>9. CASE StepFailed
  <2>1. LoopTypes'  BY <1>9, FreshCounts DEF StepFailed, Finished, Fail, Leave, LoopTypes, Outcomes
  <2>2. StepTypes' /\ CompTypes' /\ GhostTypes' /\ WriteTypes' /\ SteerTypes'
    BY <1>9 DEF StepFailed, Finished, NoStep, StepTypes, CompTypes, CompShape, GhostTypes, WriteTypes, SteerTypes,
                context, ghosts, steers, CallerWaits, StepPlaces, Outs
  <2> QED  BY <2>1, <2>2
<1>10. CASE Resolve
  <2>1. /\ main = "racing" /\ step.at = "done" /\ main' \in {"ready", "ended"} /\ step' = NoStep
        /\ UNCHANGED <<active, runs, growing, comp, steers, ghosts>>
        /\ outcome' \in {outcome, "answered", "rejected"}
    BY <1>10 DEF Resolve, Nudge, Recover, GivesUp, Continue, MakesUp, Answers, Rejected, Stops, Finished, Again, End
  <2>2. used' \in Counters
    <3>1. used \in Counters /\ used.hooked \in BOOLEAN  BY DEF LoopTypes, Counters
    <3>2. CASE Nudge  BY <3>1, <3>2 DEF Nudge, Again, Counters
    <3>3. CASE Recover  BY <3>1, <3>3 DEF Recover, Again, Counters
    <3>4. CASE Continue  BY <3>1, <3>4 DEF Continue, Again, Counters
    <3>5. CASE GivesUp \/ MakesUp \/ Answers \/ Rejected
      BY <3>1, <3>5, FreshCounts DEF GivesUp, MakesUp, Answers, Rejected, End
    <3> QED  BY <1>10, <3>2, <3>3, <3>4, <3>5 DEF Resolve
  <2>3. LoopTypes'  BY <2>1, <2>2 DEF LoopTypes, Outcomes
  <2>4. StepTypes' /\ CompTypes' /\ GhostTypes' /\ WriteTypes' /\ SteerTypes'
    BY <2>1 DEF NoStep, StepTypes, CompTypes, CompShape, GhostTypes, WriteTypes, SteerTypes, ghosts, steers,
                CallerWaits, StepPlaces, Outs
  <2> QED  BY <2>3, <2>4
<1> QED  BY <1>1, <1>2, <1>3, <1>4, <1>5, <1>6, <1>7, <1>8, <1>9, <1>10 DEF Loop

\* The step's task, the writes, a compaction, a push and the end of the event loop.
LEMMA TypesOfTask == ASSUME TInv, StepTask PROVE TInv'
<1> USE DEF TInv
<1>1. main = "racing" /\ UNCHANGED <<main, active, runs, outcome, steers, ghosts>>
  BY DEF StepTask, Asks, Calls, Asking, Replies, ToolsDone, ResultsRefused, Grown, ThinkOnly, Broken, Overflow,
         CompactTool, Grow, loop
<1>2. SteerTypes' /\ GhostTypes'  BY <1>1 DEF SteerTypes, GhostTypes, steers, ghosts
<1>3. CASE CompactTool
  <2>1. used' \in Counters  BY <1>3 DEF CompactTool, LoopTypes, Counters
  <2>2. LoopTypes'  BY <1>1, <2>1 DEF LoopTypes
  <2>3. StepTypes' /\ CompTypes' /\ WriteTypes'
    BY <1>1, <1>3 DEF CompactTool, Compact, NoComp, StepTypes, CompTypes, CompShape, WriteTypes, CallerWaits, ghosts
  <2> QED  BY <1>2, <2>2, <2>3
<1>4. CASE ~CompactTool
  <2>1. LoopTypes'
    <3>1. UNCHANGED loop
      BY <1>4 DEF StepTask, Asks, Calls, Replies, ToolsDone, ResultsRefused, Grown, ThinkOnly, Broken, Overflow, Grow
    <3> QED  BY <3>1 DEF LoopTypes, loop
  <2>2. CASE Asks \/ Calls \/ ResultsRefused \/ Grown \/ ThinkOnly \/ Broken
    <3>1. /\ UNCHANGED <<growing, comp>> /\ step.at \notin {"none", "compacting"}
          /\ step'.at \notin {"none", "compacting"} /\ step'.id = step.id
          /\ step' \in [id : Nat, at : StepPlaces, out : Outs]
      BY <2>2 DEF Asks, Calls, Asking, ResultsRefused, Grown, ThinkOnly, Broken, context, StepTypes, StepPlaces, Outs
    <3>2. step.at # "growing" \/ step.id \notin Unfinished
      BY <2>2 DEF Asks, Calls, Asking, ResultsRefused, Grown, ThinkOnly, Broken
    <3>3. comp.at = "no"
      BY <2>2 DEF Asks, Calls, Asking, ResultsRefused, Grown, ThinkOnly, Broken, CompTypes, CallerWaits, StepTypes
    <3>4. StepTypes' /\ CompTypes'  BY <1>1, <3>1, <3>3 DEF StepTypes, CompTypes, CompShape, CallerWaits
    <3>5. WriteTypes'  BY <1>1, <3>1, <3>2 DEF WriteTypes, Unfinished, ghosts
    <3> QED  BY <1>2, <2>1, <3>4, <3>5
  <2>3. CASE Overflow
    BY <1>1, <1>2, <2>1, <2>3 DEF Overflow, Compact, NoComp, Asking, StepTypes, CompTypes, CompShape, WriteTypes, CallerWaits, StepPlaces, ghosts
  <2>4. CASE Replies \/ ToolsDone
    <3>1. PICK reply \in {"text", "empty", "call"}, left \in Lefts, out \in Outs :
            Grow(reply, left, out) /\ step.at \in {"asking", "calling"}
      BY <2>4 DEF Replies, Asking, ToolsDone, Lefts, Results, Outs, StepTypes
    <3>0. comp.at = "no"
      BY <1>1, <2>4 DEF Replies, Asking, ToolsDone, CompTypes, CallerWaits, StepTypes
    <3>2. StepTypes'  BY <1>1, <3>1 DEF Grow, StepTypes, StepPlaces
    <3>3. CompTypes'  BY <1>1, <3>0, <3>1 DEF Grow, StepTypes, CompTypes, CompShape, CallerWaits
    <3>4. WriteTypes'  BY <1>1, <3>1 DEF Grow, StepTypes, WriteTypes, ghosts
    <3> QED  BY <1>2, <2>1, <3>2, <3>3, <3>4
  <2> QED  BY <1>4, <2>2, <2>3, <2>4 DEF StepTask
<1> QED  BY <1>3, <1>4

LEMMA TypesOfWrites == ASSUME TInv, Writes \/ LoopCloses PROVE TInv'
<1> USE DEF TInv
<1>1. UNCHANGED <<loop, step, comp, steers, cut, lost, wiped>>  BY DEF Writes, GrowOn, GrowEnd, LoopCloses, ghosts
<1>2. LoopTypes' /\ StepTypes' /\ CompTypes' /\ SteerTypes'
  BY <1>1 DEF LoopTypes, StepTypes, CompTypes, CompShape, SteerTypes, CallerWaits, loop, steers
<1>3. CASE Writes
  <2>1. PICK g \in growing : GrowOn(g) \/ GrowEnd(g)  BY <1>3 DEF Writes
  <2>2. \A h \in growing' : h \in [id : Nat, left : Lefts] /\ \E w \in growing : w.id = h.id
    <3>1. [g EXCEPT !.left = <<>>] \in [id : Nat, left : Lefts] /\ [g EXCEPT !.left = <<>>].id = g.id
      BY DEF WriteTypes, Lefts
    <3> QED  BY <2>1, <3>1 DEF GrowOn, GrowEnd, WriteTypes
  <2>3. torn' \subseteq cut
    <3>1. CASE comp.at = "no"  BY <2>1, <3>1 DEF GrowOn, GrowEnd, ghosts, GhostTypes
    <3>2. CASE comp.at # "no"
      <4>1. step.at # "growing"  BY <3>2 DEF CompTypes, CallerWaits, StepTypes
      <4>2. g.id \in cut  BY <4>1 DEF WriteTypes
      <4> QED  BY <2>1, <4>2 DEF GrowOn, GrowEnd, ghosts, GhostTypes
    <3> QED  BY <3>1, <3>2
  <2> QED  BY <1>1, <1>2, <2>2, <2>3 DEF WriteTypes, GhostTypes
<1>4. CASE LoopCloses
  <2>1. step.at = "none"  BY <1>4 DEF LoopCloses, StepTypes
  <2>2. Unfinished \subseteq cut  BY <2>1 DEF Unfinished, WriteTypes
  <2> QED  BY <1>1, <1>2, <1>4, <2>2 DEF LoopCloses, WriteTypes, GhostTypes
<1> QED  BY <1>3, <1>4

\* What a preparation leaves in comp: the list itself, a copy of it, or a summary and
\* what is preserved.
LEMMA Prepared ==
    ASSUME Prepares, CompShape
    PROVE  /\ comp'.by = comp.by
           /\ CompShape'
           /\ \/ comp'.at = "exporting" /\ comp'.live
              \/ /\ comp'.at = "exporting" /\ comp'.live = comp.live
                 /\ comp'.messages = history
              \/ /\ comp'.at = "summing" /\ comp'.live = comp.live /\ comp'.before = history
                 /\ \E depth \in Depths : /\ Enough(history, depth) /\ Readable(history)
                                          /\ comp'.messages = <<<<"summary", step.id>>>> \o Preserved(history, depth)
<1>1. PICK depth \in Depths :
          \/ /\ ~Enough(history, depth)
             /\ comp' = [comp EXCEPT !.at = "exporting", !.live = TRUE]
          \/ /\ Enough(history, depth) /\ Readable(history)
             /\ comp' = IF Preserved(history, depth) = history
                        THEN [comp EXCEPT !.at = "exporting", !.messages = Preserved(history, depth)]
                        ELSE [comp EXCEPT !.at = "summing", !.before = history,
                                  !.messages = <<<<"summary", step.id>>>> \o Preserved(history, depth)]
  BY DEF Prepares
<1>2. CASE comp' = [comp EXCEPT !.at = "exporting", !.live = TRUE]  BY <1>2 DEF CompShape
<1>3. CASE comp' = [comp EXCEPT !.at = "exporting", !.messages = history]  BY <1>3 DEF CompShape
<1>4. CASE /\ Enough(history, depth) /\ Readable(history)
           /\ comp' = [comp EXCEPT !.at = "summing", !.before = history,
                           !.messages = <<<<"summary", step.id>>>> \o Preserved(history, depth)]
  BY <1>4 DEF CompShape
<1> QED  BY <1>1, <1>2, <1>3, <1>4

LEMMA TypesOfCompaction == ASSUME TInv, Compaction PROVE TInv'
<1> USE DEF TInv
<1>1. /\ comp.at # "no" /\ UNCHANGED <<runs, growing, steers, cut, torn, lost>>
      /\ (comp.by = "overflow") => step.at = "compacting"
  BY DEF Compaction, Prepares, Summed, Retries, Clears, Changed, Rebuilt, CompactFails, MayFail, CompTypes,
         CallerWaits, loop, ghosts
<1>2. SteerTypes' /\ GhostTypes'
  <2>1. wiped' \in BOOLEAN
    <3>1. CASE Rebuilt  BY <3>1 DEF Rebuilt, GhostTypes
    <3>2. CASE ~Rebuilt
      BY <3>2 DEF Compaction, Prepares, Summed, Retries, Clears, Changed, CompactFails, ghosts, GhostTypes
    <3> QED  BY <3>1, <3>2
  <2> QED  BY <1>1, <2>1 DEF SteerTypes, GhostTypes, steers
<1>3. CASE Prepares \/ Summed \/ Retries \/ Clears \/ Changed
  <2>1. UNCHANGED <<loop, step>> /\ comp'.by = comp.by
        /\ comp'.at \in {"preparing", "summing", "exporting", "cleared"}
        /\ CompShape'
    <3>1. CASE Prepares  BY <3>1, Prepared DEF Prepares, CompTypes
    <3>2. CASE Summed  BY <3>2 DEF Summed, CompTypes, CompShape
    <3>3. CASE Clears  BY <3>3 DEF Clears, CompTypes, CompShape
    <3>4. CASE Retries \/ Changed  BY <3>4 DEF Retries, Changed, Anew, Compact, NoComp, CompTypes, CompShape
    <3> QED  BY <1>3, <3>1, <3>2, <3>3, <3>4
  <2>2. LoopTypes' /\ StepTypes' /\ WriteTypes'
    BY <1>1, <2>1 DEF LoopTypes, StepTypes, WriteTypes, loop
  <2>3. CompTypes'  BY <1>1, <2>1 DEF CompTypes, CompShape, CallerWaits, loop
  <2> QED  BY <1>2, <2>2, <2>3
<1>4. CASE Rebuilt \/ CompactFails
  <2>1. comp' = NoComp  BY <1>4 DEF Rebuilt, CompactFails
  <2>2. CompTypes'  BY <2>1 DEF CompTypes, CompShape, NoComp, CallerWaits
  <2>3. CASE comp.by = "loop" /\ UNCHANGED step
             /\ \/ main' = "starting" /\ UNCHANGED <<active, outcome, used>>
                \/ Fail
    <3>1. main = "compacting" /\ step.at = "none"  BY <1>1, <2>3 DEF CompTypes, CompShape, CallerWaits, StepTypes
    <3>2. LoopTypes'  BY <1>1, <2>3, <3>1, FreshCounts DEF LoopTypes, Fail, Leave, Outcomes
    <3>3. StepTypes' /\ WriteTypes'  BY <1>1, <2>3, <3>1 DEF StepTypes, WriteTypes, ghosts
    <3> QED  BY <1>2, <2>2, <3>2, <3>3
  <2>4. CASE comp.by = "overflow" /\ UNCHANGED <<main, active, outcome>>
             /\ used' \in {used, [used EXCEPT !.overflown = Spent]}
             /\ step' \in {[step EXCEPT !.at = "preparing"], [step EXCEPT !.at = "done", !.out = "error"]}
    <3>1. used' \in Counters  BY <2>4 DEF LoopTypes, Counters, Spent
    <3>2. LoopTypes'  BY <1>1, <2>4, <3>1 DEF LoopTypes
    <3>3. StepTypes' /\ WriteTypes'  BY <1>1, <2>4 DEF StepTypes, WriteTypes, StepPlaces, Outs, ghosts
    <3> QED  BY <1>2, <2>2, <3>2, <3>3
  <2>5. CASE UNCHANGED <<main, active, outcome, used, step>>
    BY <1>1, <1>2, <2>2, <2>5 DEF LoopTypes, StepTypes, WriteTypes, ghosts
  <2> QED  BY <1>4, <2>3, <2>4, <2>5 DEF Rebuilt, CompactFails
<1> QED  BY <1>3, <1>4 DEF Compaction

LEMMA TypesOfPushes == ASSUME TInv, NEW s \in Steers, Check(s) \/ Push(s) PROVE TInv'
<1> USE DEF TInv
<1>1. UNCHANGED <<loop, step, context, seen, ghosts>> /\ wake' \in {wake, TRUE}  BY DEF Check, Push
<1>2. LoopTypes' /\ StepTypes' /\ CompTypes' /\ GhostTypes' /\ WriteTypes'
  BY <1>1 DEF LoopTypes, StepTypes, CompTypes, CompShape, GhostTypes, WriteTypes, CallerWaits, loop, context, ghosts
<1>3. when' \in [Steers -> Moments]
  <2>1. Moment \in Moments  BY DEF Moment, Moments
  <2> QED  BY <2>1 DEF Check, Push, SteerTypes, Moments
<1>4. queue' \in Seq(Steers)  BY DEF Check, Push, SteerTypes
<1>5. wake' \in BOOLEAN  BY <1>1 DEF SteerTypes
<1> QED  BY <1>1, <1>2, <1>3, <1>4, <1>5 DEF SteerTypes

LEMMA TypesStay == TInv /\ [Next]_vars => TInv'
<1> SUFFICES ASSUME TInv, [Next]_vars PROVE TInv'  OBVIOUS
<1>1. CASE UNCHANGED vars
  BY <1>1 DEF vars, TInv, LoopTypes, StepTypes, CompTypes, CompShape, SteerTypes, GhostTypes, WriteTypes, CallerWaits,
              loop, context, steers, ghosts
<1> QED  BY <1>1, TypesOfLoop, TypesOfTask, TypesOfWrites, TypesOfCompaction, TypesOfPushes DEF Next, Pushes

\* run() is marked active from its first to its last step, whoever ends it (the
\* finally clause of run); a step's task exists only while the loop races it; only
\* the write of a step that was cut dies with its event loop.
THEOREM Typing == Spec => []TypeOK
<1>1. TInv => TypeOK
  BY DEF TInv, TypeOK, LoopTypes, StepTypes, CompTypes, SteerTypes, GhostTypes, StepPlaces, Moments
<1> QED  BY <1>1, TypesBegin, TypesStay, PTL DEF Spec

\* A steer that arrives while the loop is at work is in the history by the time the
\* turn ends well, for any number of steers and whatever interrupts, compacts or
\* cancels the steps (_consume_pending_steers before every end of a turn).
THEOREM SteersAreHeard == Spec => []NoSteerSkipped
<1>1. IInv => NoSteerSkipped
  BY DEF IInv, NoSteerSkipped, NoneIsOpen, GoodMeansNone, Open, Good
<1> QED  BY <1>1, Initially, Inductive, PTL DEF Spec

----------------------------------------------------------------------------
(* The history.  A write that is not cut belongs to the step the loop races, and *)
(* nothing else is appended before it ends; so what a cancelled step still       *)
(* appends is late, and the messages of every other step stay together.          *)

Kinds   == {"user", "reason", "call", "result", "text", "empty", "gate", "nudge", "steer", "summary"}
Message == Kinds \X (Nat \cup Steers)

CallAt(i)   == <<"call", Id(i)>>
ResultAt(i) == <<"result", Id(i)>>

\* Only late results come after position i.
AtEnd(i) == \A k \in (i + 1)..Len(history) : Late(history[k])

\* The steps that were cut are earlier than the current one, a write has nothing
\* left but the results of its own step, and at most one write is not cut.
CutIsPast == \A c \in cut : c \in Nat /\ c <= step.id /\ (step.at # "none" => c # step.id)
OneWrite  == /\ \A g \in growing : g.left \in {<<>>, <<<<"result", g.id>>>>}
             /\ \A g, h \in growing : g.id \notin cut /\ h.id \notin cut => g = h

\* The call whose result a write has still to append is at the end.
Due == \A g \in growing : g.id \notin cut /\ g.left # <<>> =>
           \E i \in DOMAIN history : history[i] = <<"call", g.id>> /\ AtEnd(i)

\* Every call has its result or is the one whose result is being written.
Answered(i) == \E j \in DOMAIN history : Follows(i, j) /\ history[j] = ResultAt(i)
Awaited(i)  == AtEnd(i) /\ \E g \in growing : g.id = Id(i) /\ g.left # <<>>
CallsAnswered == \A i \in DOMAIN history :
    history[i] = CallAt(i) /\ Id(i) \notin cut => Answered(i) \/ Awaited(i)

\* Every result that is not late has its call.
ResultsFollow == \A i \in DOMAIN history :
    history[i] = ResultAt(i) /\ Id(i) \notin cut =>
        \E j \in DOMAIN history : Follows(j, i) /\ history[j] = CallAt(i)

\* A write that was cut has appended its result or will, if its event loop lives.
CutsWritten == \A i \in DOMAIN history :
    history[i] = CallAt(i) /\ Id(i) \in cut \ torn =>
        \/ \E j \in DOMAIN history : i < j /\ history[j] = ResultAt(i)
        \/ \E g \in growing : g.id = Id(i) /\ g.left # <<>>

\* What a write has still to append.
Owed == {g.id : g \in {h \in growing : h.left # <<>>}}

\* A step that returns a text leaves it as the last thing said.
TextLast == \E i \in Said : Kind(i) = "text" /\ \A j \in Said : j <= i
HasText == \/ main = "racing" /\ step.at \in {"growing", "done"} /\ step.out = "text"
           \/ main = "ended" /\ outcome = "answered"
OnText == HasText => TextLast

----------------------------------------------------------------------------
(* Who waits for a compaction, and which steps were cut.                         *)

LEMMA CutsBegin == Init => CutIsPast
BY DEF Init, CutIsPast

\* Between steps and outside of a compaction of the loop none is in flight.
LEMMA NoneInFlight ==
    ASSUME TInv, main # "compacting", step.at \notin {"compacting", "calling"}
    PROVE  comp.at = "no"
BY DEF TInv, CompTypes, CallerWaits

\* While one is, the loop is at work on a turn and no step writes.
LEMMA SomeoneWaits ==
    ASSUME TInv, comp.at # "no"
    PROVE  main \in {"compacting", "racing"} /\ step.at \in {"none", "compacting", "calling"}
BY DEF TInv, CompTypes, CallerWaits, StepTypes

\* Only the current step is ever cut, and it ends by that.
LEMMA CutsStay == TInv /\ CutIsPast /\ [Next]_vars => CutIsPast'
<1> SUFFICES ASSUME TInv, CutIsPast, [Next]_vars PROVE CutIsPast'  OBVIOUS
<1>0. step \in [id : Nat, at : StepPlaces, out : Outs]  BY DEF TInv, StepTypes
<1>1. CASE Spawn
  <2>1. step.at = "none" /\ step.id \in Nat  BY <1>1 DEF Spawn, TInv, StepTypes
  <2>2. step'.id = step.id + 1 /\ cut' = cut  BY <1>1 DEF Spawn, ghosts
  <2> QED  BY <2>1, <2>2 DEF CutIsPast
<1>2. CASE Interrupted \/ Cancel
  <2>1. CancelStep  BY <1>2 DEF Interrupted, Cancel
  <2>2. step'.at = "none" /\ step'.id = step.id /\ step.id \in Nat  BY <1>0, <2>1 DEF CancelStep, NoStep
  <2>3. cut' \subseteq cut \cup {step.id}  BY <2>1 DEF CancelStep
  <2> QED  BY <2>2, <2>3 DEF CutIsPast
<1>3. CASE StepFailed \/ Continues \/ Resolve
  <2>1. cut' = cut /\ step'.at = "none" /\ step'.id = step.id
    BY <1>0, <1>3 DEF StepFailed, Continues, Resolve, Nudge, Recover, GivesUp, Continue, MakesUp, Answers, Rejected,
                      Again, End, NoStep, ghosts
  <2> QED  BY <2>1 DEF CutIsPast
<1>4. CASE Run \/ Blocked \/ Turn \/ Enter \/ StopHook \/ Return \/ Guard \/ Inject \/ Refuse \/ Injected
           \/ Writes \/ Pushes \/ LoopCloses \/ UNCHANGED vars
  <2>1. UNCHANGED <<step, cut>>
    BY <1>4 DEF Run, Blocked, Turn, Enter, StopHook, Return, Guard, Inject, Refuse, Injected, Writes, GrowOn,
                GrowEnd, Pushes, Check, Push, LoopCloses, vars, ghosts
  <2> QED  BY <2>1 DEF CutIsPast
<1>5. CASE StepTask
  <2>1. cut' = cut /\ step.at # "none" /\ step'.id = step.id
    BY <1>0, <1>5 DEF StepTask, Asks, Calls, Asking, Replies, ToolsDone, ResultsRefused, Grown, ThinkOnly, Broken,
                      Overflow, CompactTool, Grow, ghosts
  <2> QED  BY <2>1 DEF CutIsPast
<1>6. CASE Compaction
  <2>1. cut' = cut
    BY <1>6 DEF Compaction, Prepares, Summed, Retries, Clears, Changed, Rebuilt, CompactFails, ghosts
  <2>2. step' = step \/ (step.at # "none" /\ step'.id = step.id)
    <3>1. CASE Rebuilt \/ CompactFails
      <4>1. comp.at # "no"  BY <3>1 DEF Rebuilt, CompactFails, MayFail
      <4>2. comp.by = "overflow" => step.at = "compacting"  BY <4>1 DEF TInv, CompTypes, CallerWaits
      <4> QED  BY <1>0, <3>1, <4>2 DEF Rebuilt, CompactFails
    <3>2. CASE Prepares \/ Summed \/ Retries \/ Clears \/ Changed
      BY <3>2 DEF Prepares, Summed, Retries, Clears, Changed
    <3> QED  BY <1>6, <3>1, <3>2 DEF Compaction
  <2> QED  BY <2>1, <2>2 DEF CutIsPast
<1> QED  BY <1>1, <1>2, <1>3, <1>4, <1>5, <1>6 DEF Next, Loop

----------------------------------------------------------------------------
(* Stripped keeps the messages that are no reminders, and their order.           *)

\* `from` says where each position of the stripped sequence comes from.
KeepsOrder(messages, stripped, from) ==
    /\ from \in [DOMAIN stripped -> DOMAIN messages]
    /\ \A k \in DOMAIN stripped : stripped[k] = messages[from[k]]
    /\ \A k, l \in DOMAIN stripped : k < l <=> from[k] < from[l]
    /\ \A i \in DOMAIN messages : messages[i][1] \notin Reminders =>
           \E k \in DOMAIN stripped : from[k] = i

\* The rank of a position among some of them is its place there.
LEMMA RanksArePlaces ==
    ASSUME NEW n \in Nat, NEW kept, kept \subseteq 1..n
    PROVE  /\ Cardinality(kept) \in Nat
           /\ \A i \in kept : Rank(kept, i) \in 1..Cardinality(kept)
           /\ \A i, j \in kept : i < j => Rank(kept, i) < Rank(kept, j)
           /\ \A k \in 1..Cardinality(kept) : \E i \in kept : Rank(kept, i) = k
<1> DEFINE Upto(i) == {j \in kept : j <= i}
<1>1. IsFiniteSet(kept) /\ Cardinality(kept) \in Nat
  <2>1. IsFiniteSet(1..n)  BY FS_Interval
  <2>2. IsFiniteSet(kept)  BY <2>1, FS_Subset
  <2> QED  BY <2>2, FS_CardinalityType
<1>2. \A i \in kept : i \in Int  OBVIOUS
<1>3. \A i, j : j \in Upto(i) <=> j \in kept /\ j <= i  OBVIOUS
<1>4. \A i \in kept : Rank(kept, i) = Cardinality(Upto(i))  BY DEF Rank
<1> HIDE DEF Upto
<1>5. ASSUME NEW i \in kept
      PROVE  IsFiniteSet(Upto(i)) /\ Cardinality(Upto(i)) \in 1..Cardinality(kept)
  <2>1. Upto(i) \subseteq kept /\ i \in Upto(i)  BY <1>2, <1>3
  <2>2. IsFiniteSet(Upto(i)) /\ Cardinality(Upto(i)) <= Cardinality(kept)  BY <1>1, <2>1, FS_Subset
  <2>3. Cardinality(Upto(i)) \in Nat  BY <2>2, FS_CardinalityType
  <2>4. Cardinality(Upto(i)) # 0  BY <2>1, <2>2, FS_EmptySet
  <2> QED  BY <1>1, <2>2, <2>3, <2>4
<1>6. ASSUME NEW i \in kept, NEW j \in kept, i < j
      PROVE  Rank(kept, i) < Rank(kept, j)
  <2>1. Upto(i) \subseteq Upto(j)
    <3> SUFFICES ASSUME NEW k \in Upto(i) PROVE k \in Upto(j)  OBVIOUS
    <3>1. k \in kept /\ k <= i  BY <1>3
    <3>2. k \in Int /\ i \in Int /\ j \in Int  BY <1>2, <3>1
    <3>3. k <= j  BY <1>6, <3>1, <3>2
    <3> QED  BY <1>3, <3>1, <3>3
  <2>2. Upto(i) # Upto(j)
    <3>1. j \in Upto(j) /\ j \notin Upto(i)  BY <1>2, <1>3, <1>6
    <3> QED  BY <3>1
  <2>3. Cardinality(Upto(i)) <= Cardinality(Upto(j)) /\ Cardinality(Upto(i)) # Cardinality(Upto(j))
    BY <1>5, <2>1, <2>2, FS_Subset
  <2> QED  BY <1>4, <1>5, <2>3
<1>7. \A i \in kept : Rank(kept, i) \in 1..Cardinality(kept)  BY <1>4, <1>5
<1>8. \A k \in 1..Cardinality(kept) : \E i \in kept : Rank(kept, i) = k
  <2> DEFINE rank == [i \in kept |-> Rank(kept, i)]
  <2>1. rank \in [kept -> 1..Cardinality(kept)] /\ \A i \in kept : rank[i] = Rank(kept, i)  BY <1>7
  <2> HIDE DEF rank
  <2>2. ASSUME NEW i \in kept, NEW j \in kept, rank[i] = rank[j] PROVE i = j
    <3>1. ~(i < j) /\ ~(j < i)  BY <1>6, <1>7, <2>1, <2>2
    <3> QED  BY <1>2, <3>1
  <2>3. rank \in Injection(kept, 1..Cardinality(kept))  BY <2>1, <2>2 DEF Injection, IsInjective
  <2>4. IsFiniteSet(1..Cardinality(kept)) /\ Cardinality(1..Cardinality(kept)) = Cardinality(kept)
    BY <1>1, FS_Interval
  <2>5. rank \in Surjection(kept, 1..Cardinality(kept))  BY <2>3, <2>4, FS_Injection
  <2> QED  BY <2>1, <2>5 DEF Surjection
<1> QED  BY <1>1, <1>6, <1>7, <1>8

\* So the messages that are kept are all there, in the order they had.
LEMMA StrippedKeepsOrder ==
    ASSUME NEW M, NEW messages \in Seq(M)
    PROVE  Stripped(messages) \in Seq(M) /\ \E from : KeepsOrder(messages, Stripped(messages), from)
<1> DEFINE kept == Kept(messages)
           from == [k \in 1..Cardinality(kept) |-> CHOOSE i \in kept : Rank(kept, i) = k]
<1>1. /\ Len(messages) \in Nat /\ DOMAIN messages = 1..Len(messages)
      /\ \A i \in 1..Len(messages) : messages[i] \in M
  OBVIOUS
<1>2. \A i : i \in kept <=> i \in 1..Len(messages) /\ messages[i][1] \notin Reminders
  BY <1>1 DEF Kept
<1>3. Stripped(messages) = [k \in 1..Cardinality(kept) |-> messages[from[k]]]
  BY DEF Stripped
<1>4. /\ \A k \in 1..Cardinality(kept) : from[k] = CHOOSE i \in kept : Rank(kept, i) = k
      /\ DOMAIN from = 1..Cardinality(kept) /\ from = [k \in DOMAIN from |-> from[k]]
  OBVIOUS
<1> HIDE DEF kept, from
<1>5. /\ Cardinality(kept) \in Nat
      /\ \A i \in kept : Rank(kept, i) \in 1..Cardinality(kept)
      /\ \A i, j \in kept : i < j => Rank(kept, i) < Rank(kept, j)
      /\ \A k \in 1..Cardinality(kept) : \E i \in kept : Rank(kept, i) = k
  <2>1. kept \subseteq 1..Len(messages)  BY <1>2
  <2> QED  BY <1>1, <2>1, RanksArePlaces
<1>6. \A k \in 1..Cardinality(kept) :
          from[k] \in kept /\ from[k] \in 1..Len(messages) /\ Rank(kept, from[k]) = k
  BY <1>2, <1>4, <1>5
<1>7. Stripped(messages) \in Seq(M) /\ DOMAIN Stripped(messages) = 1..Cardinality(kept)
  BY <1>1, <1>3, <1>5, <1>6
<1>8. from \in [1..Cardinality(kept) -> DOMAIN messages]  BY <1>1, <1>4, <1>6
<1>9. ASSUME NEW k \in 1..Cardinality(kept), NEW l \in 1..Cardinality(kept)
      PROVE  k < l <=> from[k] < from[l]
  <2>1. from[k] < from[l] => k < l  BY <1>5, <1>6
  <2>2. from[l] < from[k] => l < k  BY <1>5, <1>6
  <2>3. from[k] \in Int /\ from[l] \in Int /\ k \in Int /\ l \in Int  BY <1>6
  <2>4. from[k] = from[l] => k = l  BY <1>6
  <2> QED  BY <2>1, <2>2, <2>3, <2>4
<1>10. \A i \in DOMAIN messages : messages[i][1] \notin Reminders =>
          \E k \in 1..Cardinality(kept) : from[k] = i
  <2> SUFFICES ASSUME NEW i \in kept PROVE \E k \in 1..Cardinality(kept) : from[k] = i
    BY <1>1, <1>2
  <2>1. PICK k \in 1..Cardinality(kept) : k = Rank(kept, i)  BY <1>5
  <2>2. from[k] \in kept /\ Rank(kept, from[k]) = Rank(kept, i)  BY <1>6, <2>1
  <2>3. ~(from[k] < i) /\ ~(i < from[k])  BY <1>5, <2>2
  <2>4. from[k] \in Int /\ i \in Int  BY <1>2, <2>2
  <2> QED  BY <2>3, <2>4
<1>11. KeepsOrder(messages, Stripped(messages), from)
  BY <1>3, <1>7, <1>8, <1>9, <1>10 DEF KeepsOrder
<1> QED  BY <1>7, <1>11

----------------------------------------------------------------------------
(* What a compaction preserves.  A list of messages is sound for the steps `c'   *)
(* that were cut and the steps `x' that are owed no result, when it could be the *)
(* history of a soul that is not writing.                                        *)

IsLate(m, c) == m[1] = "result" /\ m[2] \in c
Between(s, c, i, j) == i < j /\ \A k \in (i + 1)..(j - 1) : IsLate(s[k], c)

SoundCalls(s, c) == \A i \in DOMAIN s : s[i][1] = "call" /\ s[i][2] \notin c =>
    \E j \in DOMAIN s : Between(s, c, i, j) /\ s[j] = <<"result", s[i][2]>>
SoundResults(s, c) == \A i \in DOMAIN s : s[i][1] = "result" /\ s[i][2] \notin c =>
    \E j \in DOMAIN s : Between(s, c, j, i) /\ s[j] = <<"call", s[i][2]>>
SoundCuts(s, c, x) == \A i \in DOMAIN s : s[i][1] = "call" /\ s[i][2] \in c \ x =>
    \E j \in DOMAIN s : i < j /\ s[j] = <<"result", s[i][2]>>
Sound(s, c, x) == SoundCalls(s, c) /\ SoundResults(s, c) /\ SoundCuts(s, c, x)

\* A list that follows messages which are no calls and no results but late ones.
LEMMA PrefixIsSound ==
    ASSUME NEW p \in Seq(Message), NEW s \in Seq(Message), NEW c, NEW x, Sound(s, c, x),
           \A k \in DOMAIN p : p[k][1] # "call" /\ (p[k][1] = "result" => p[k][2] \in c)
    PROVE  p \o s \in Seq(Message) /\ Sound(p \o s, c, x)
<1> DEFINE t == p \o s
<1> PICK n \in Nat : n = Len(p)  OBVIOUS
<1>1. /\ t \in Seq(Message) /\ DOMAIN t = 1..(n + Len(s)) /\ Len(s) \in Nat
      /\ DOMAIN s = 1..Len(s) /\ DOMAIN p = 1..n
      /\ \A k \in 1..n : t[k] = p[k]
      /\ \A k \in 1..Len(s) : t[n + k] = s[k]
  OBVIOUS
<1> HIDE DEF t
<1>2. ASSUME NEW k \in DOMAIN t, k \notin DOMAIN p
      PROVE  k - n \in DOMAIN s /\ t[k] = s[k - n]
  <2>1. k - n \in 1..Len(s) /\ k = n + (k - n)  BY <1>1, <1>2
  <2> QED  BY <1>1, <2>1
<1>3. ASSUME NEW i \in DOMAIN s, NEW j \in DOMAIN s, Between(s, c, i, j)
      PROVE  Between(t, c, n + i, n + j)
  <2>1. i \in Int /\ j \in Int /\ i < j /\ 1 <= i /\ j <= Len(s)  BY <1>1, <1>3 DEF Between
  <2>2. ASSUME NEW k \in (n + i + 1)..(n + j - 1) PROVE IsLate(t[k], c)
    <3>1. k - n \in (i + 1)..(j - 1) /\ k - n \in 1..Len(s) /\ k = n + (k - n)  BY <2>1
    <3>2. t[k] = s[k - n]  BY <1>1, <3>1
    <3> QED  BY <1>3, <3>1, <3>2 DEF Between
  <2> QED  BY <2>1, <2>2 DEF Between
<1>4. \A k \in DOMAIN t : t[k][1] = "call" \/ (t[k][1] = "result" /\ t[k][2] \notin c) => k \notin DOMAIN p
  BY <1>1
<1>5. SoundCalls(t, c)
  <2> SUFFICES ASSUME NEW k \in DOMAIN t, t[k][1] = "call", t[k][2] \notin c
               PROVE  \E l \in DOMAIN t : Between(t, c, k, l) /\ t[l] = <<"result", t[k][2]>>
    BY DEF SoundCalls
  <2>1. k - n \in DOMAIN s /\ t[k] = s[k - n] /\ n + (k - n) = k  BY <1>1, <1>2, <1>4
  <2>2. PICK j \in DOMAIN s : Between(s, c, k - n, j) /\ s[j] = <<"result", s[k - n][2]>>
    BY <2>1 DEF Sound, SoundCalls
  <2>3. Between(t, c, n + (k - n), n + j)  BY <1>3, <2>1, <2>2
  <2>4. t[n + j] = s[j] /\ n + j \in DOMAIN t  BY <1>1
  <2> QED  BY <2>1, <2>2, <2>3, <2>4
<1>6. SoundResults(t, c)
  <2> SUFFICES ASSUME NEW k \in DOMAIN t, t[k][1] = "result", t[k][2] \notin c
               PROVE  \E l \in DOMAIN t : Between(t, c, l, k) /\ t[l] = <<"call", t[k][2]>>
    BY DEF SoundResults
  <2>1. k - n \in DOMAIN s /\ t[k] = s[k - n] /\ n + (k - n) = k  BY <1>1, <1>2, <1>4
  <2>2. PICK j \in DOMAIN s : Between(s, c, j, k - n) /\ s[j] = <<"call", s[k - n][2]>>
    BY <2>1 DEF Sound, SoundResults
  <2>3. Between(t, c, n + j, n + (k - n))  BY <1>3, <2>1, <2>2
  <2>4. t[n + j] = s[j] /\ n + j \in DOMAIN t  BY <1>1
  <2> QED  BY <2>1, <2>2, <2>3, <2>4
<1>7. SoundCuts(t, c, x)
  <2> SUFFICES ASSUME NEW k \in DOMAIN t, t[k][1] = "call", t[k][2] \in c \ x
               PROVE  \E l \in DOMAIN t : k < l /\ t[l] = <<"result", t[k][2]>>
    BY DEF SoundCuts
  <2>1. k - n \in DOMAIN s /\ t[k] = s[k - n] /\ k \in Int  BY <1>1, <1>2, <1>4
  <2>2. PICK j \in DOMAIN s : k - n < j /\ s[j] = <<"result", s[k - n][2]>>
    BY <2>1 DEF Sound, SoundCuts
  <2>3. k < n + j /\ t[n + j] = s[j] /\ n + j \in DOMAIN t  BY <1>1, <2>1, <2>2
  <2> QED  BY <2>1, <2>2, <2>3
<1> QED  BY <1>1, <1>5, <1>6, <1>7 DEF Sound, t

\* A tail of it, unless a result is the first message there: what stands between a
\* call and its result are results, so that one of them would be the first.
LEMMA TailIsSound ==
    ASSUME NEW s \in Seq(Message), NEW c, NEW x, Sound(s, c, x), NEW n \in 0..Len(s),
           n < Len(s) => s[n + 1][1] # "result"
    PROVE  From(s, n) \in Seq(Message) /\ Sound(From(s, n), c, x)
<1> DEFINE t == From(s, n)
<1>1. /\ t \in Seq(Message) /\ DOMAIN t = 1..(Len(s) - n) /\ Len(s) \in Nat /\ n \in Nat
      /\ DOMAIN s = 1..Len(s)
      /\ \A k \in 1..(Len(s) - n) : t[k] = s[n + k]
  BY DEF From
<1> HIDE DEF t
<1>2. ASSUME NEW k \in DOMAIN t PROVE n + k \in DOMAIN s /\ t[k] = s[n + k] /\ k \in Int
  BY <1>1
<1>3. ASSUME NEW i \in DOMAIN s, i > n PROVE i - n \in DOMAIN t /\ t[i - n] = s[i] /\ n + (i - n) = i
  <2>1. i - n \in 1..(Len(s) - n) /\ n + (i - n) = i  BY <1>1, <1>3
  <2> QED  BY <1>1, <2>1
<1>4. ASSUME NEW k \in DOMAIN t, NEW l \in DOMAIN t, Between(s, c, n + k, n + l)
      PROVE  Between(t, c, k, l)
  <2>1. k \in 1..(Len(s) - n) /\ l \in 1..(Len(s) - n) /\ k < l  BY <1>1, <1>4 DEF Between
  <2>2. ASSUME NEW m \in (k + 1)..(l - 1) PROVE IsLate(t[m], c)
    <3>1. n + m \in (n + k + 1)..(n + l - 1) /\ m \in 1..(Len(s) - n)  BY <1>1, <2>1
    <3> QED  BY <1>1, <1>4, <3>1 DEF Between
  <2> QED  BY <2>1, <2>2 DEF Between
<1>5. SoundCalls(t, c)
  <2> SUFFICES ASSUME NEW k \in DOMAIN t, t[k][1] = "call", t[k][2] \notin c
               PROVE  \E l \in DOMAIN t : Between(t, c, k, l) /\ t[l] = <<"result", t[k][2]>>
    BY DEF SoundCalls
  <2>1. n + k \in DOMAIN s /\ t[k] = s[n + k] /\ k \in Int /\ k > 0  BY <1>1, <1>2
  <2>2. PICK j \in DOMAIN s : Between(s, c, n + k, j) /\ s[j] = <<"result", s[n + k][2]>>
    BY <2>1 DEF Sound, SoundCalls
  <2>3. j > n  BY <1>1, <2>1, <2>2 DEF Between
  <2> QED  BY <1>3, <1>4, <2>1, <2>2, <2>3
<1>6. SoundResults(t, c)
  <2> SUFFICES ASSUME NEW k \in DOMAIN t, t[k][1] = "result", t[k][2] \notin c
               PROVE  \E l \in DOMAIN t : Between(t, c, l, k) /\ t[l] = <<"call", t[k][2]>>
    BY DEF SoundResults
  <2>1. n + k \in DOMAIN s /\ t[k] = s[n + k] /\ k \in Int /\ k > 0  BY <1>1, <1>2
  <2>2. PICK j \in DOMAIN s : Between(s, c, j, n + k) /\ s[j] = <<"call", s[n + k][2]>>
    BY <2>1 DEF Sound, SoundResults
  <2>3. j > n
    <3> SUFFICES ASSUME j <= n PROVE FALSE  BY <1>1, <2>2
    <3>1. n < Len(s)  BY <1>1, <2>1
    <3>2. n + 1 = n + k \/ n + 1 \in (j + 1)..(n + k - 1)  BY <1>1, <2>1
    <3>3. s[n + 1][1] = "result"  BY <2>1, <2>2, <3>2 DEF Between, IsLate
    <3> QED  BY <3>1, <3>3
  <2> QED  BY <1>3, <1>4, <2>1, <2>2, <2>3
<1>7. SoundCuts(t, c, x)
  <2> SUFFICES ASSUME NEW k \in DOMAIN t, t[k][1] = "call", t[k][2] \in c \ x
               PROVE  \E l \in DOMAIN t : k < l /\ t[l] = <<"result", t[k][2]>>
    BY DEF SoundCuts
  <2>1. n + k \in DOMAIN s /\ t[k] = s[n + k] /\ k \in Int /\ k > 0  BY <1>1, <1>2
  <2>2. PICK j \in DOMAIN s : n + k < j /\ s[j] = <<"result", s[n + k][2]>>
    BY <2>1 DEF Sound, SoundCuts
  <2>3. j > n /\ j - n > k  BY <1>1, <2>1, <2>2
  <2> QED  BY <1>3, <2>1, <2>2, <2>3
<1> QED  BY <1>1, <1>5, <1>6, <1>7 DEF Sound, t

\* A result after a place where no call waits for one has no call at all, so that a
\* history that can be split has none there.
LEMMA NoResultAtCut ==
    ASSUME NEW s \in Seq(Message), Readable(s), NEW n \in 0..Len(s), n < Len(s), Pending(s, n) = 0
    PROVE  s[n + 1][1] # "result"
<1> SUFFICES ASSUME s[n + 1][1] = "result" PROVE FALSE  OBVIOUS
<1>1. n \in Nat /\ n + 1 \in 0..Len(s) /\ Len(s) \in Nat  OBVIOUS
<1>2. /\ CallsTo(s, n + 1) = CallsTo(s, n)
      /\ ResultsTo(s, n + 1) = ResultsTo(s, n) \cup {n + 1} /\ n + 1 \notin ResultsTo(s, n)
  BY <1>1 DEF CallsTo, ResultsTo
<1>3. IsFiniteSet(CallsTo(s, n)) /\ IsFiniteSet(ResultsTo(s, n))
  <2>1. CallsTo(s, n) \subseteq 1..n /\ ResultsTo(s, n) \subseteq 1..n  BY DEF CallsTo, ResultsTo
  <2>2. IsFiniteSet(1..n)  BY <1>1, FS_Interval
  <2> QED  BY <2>1, <2>2, FS_Subset
<1>4. Cardinality(ResultsTo(s, n + 1)) = Cardinality(ResultsTo(s, n)) + 1  BY <1>2, <1>3, FS_AddElement
<1>5. Cardinality(CallsTo(s, n)) \in Nat /\ Cardinality(ResultsTo(s, n)) \in Nat
  BY <1>3, FS_CardinalityType
<1>6. Pending(s, n + 1) = 0 - 1  BY <1>2, <1>4, <1>5 DEF Pending
<1>7. Pending(s, n + 1) >= 0  BY <1>1 DEF Readable
<1> QED  BY <1>6, <1>7

\* The last of some places up to n.
LEMMA LastPlace ==
    ASSUME NEW n \in Nat, NEW places, places \subseteq 0..n, 0 \in places
    PROVE  \E c \in places : \A d \in places : d <= c
<1> DEFINE kept == {i \in 1..(n + 1) : i - 1 \in places}
<1>1. kept \subseteq 1..(n + 1) /\ n + 1 \in Nat  OBVIOUS
<1>2. 1 \in kept /\ \A c \in places : c + 1 \in kept  OBVIOUS
<1>3. \A i \in kept : i - 1 \in places /\ i \in Int  OBVIOUS
<1> HIDE DEF kept
<1>4. /\ Cardinality(kept) \in Nat
      /\ \A i \in kept : Rank(kept, i) \in 1..Cardinality(kept)
      /\ \A i, j \in kept : i < j => Rank(kept, i) < Rank(kept, j)
      /\ \A k \in 1..Cardinality(kept) : \E i \in kept : Rank(kept, i) = k
  BY <1>1, RanksArePlaces
<1>5. Cardinality(kept) \in 1..Cardinality(kept)  BY <1>2, <1>4
<1>6. PICK i \in kept : Rank(kept, i) = Cardinality(kept)  BY <1>4, <1>5
<1>7. ASSUME NEW d \in places PROVE d <= i - 1
  <2>1. d + 1 \in kept /\ d \in Int  BY <1>2
  <2>2. ~(i < d + 1)  BY <1>4, <1>6, <2>1
  <2> QED  BY <1>3, <2>1, <2>2
<1> QED  BY <1>3, <1>7

LEMMA LastCutIsCut ==
    ASSUME NEW s \in Seq(Message), NEW n \in Nat
    PROVE  LastCut(s, n) \in Cuts(s) /\ LastCut(s, n) <= n
<1> DEFINE places == {c \in Cuts(s) : c <= n}
<1>1. 0 \in places /\ places \subseteq 0..n
  <2>1. Len(s) \in Nat  OBVIOUS
  <2>2. CallsTo(s, 0) = {} /\ ResultsTo(s, 0) = {}  BY DEF CallsTo, ResultsTo
  <2>3. Cardinality(CallsTo(s, 0)) = 0 /\ Cardinality(ResultsTo(s, 0)) = 0  BY <2>2, FS_EmptySet
  <2>4. Pending(s, 0) = 0  BY <2>3 DEF Pending
  <2> QED  BY <2>1, <2>4 DEF Cuts
<1>2. \E c \in places : \A d \in places : d <= c  BY <1>1, LastPlace
<1>3. \A c : c \in places <=> c \in Cuts(s) /\ c <= n  OBVIOUS
<1> HIDE DEF places
<1>4. PICK c \in places : \A d \in places : d <= c  BY <1>2
<1>5. c \in Cuts(s) /\ c <= n /\ \A d \in Cuts(s) : d <= n => d <= c  BY <1>3, <1>4
<1> QED  BY <1>5 DEF LastCut

\* When there are enough messages of user and model, there is a place before the
\* last `depth' of them.
LEMMA BoundaryIsThere ==
    ASSUME NEW s \in Seq(Message), NEW depth \in Nat, Enough(s, depth)
    PROVE  Boundary(s, depth) \in 0..Len(s) /\ s # <<>>
<1> DEFINE turns == Turns(s)
<1>1. turns \subseteq 1..Len(s) /\ Len(s) \in Nat /\ DOMAIN s = 1..Len(s)  BY DEF Turns
<1>2. depth > 0 /\ Cardinality(turns) >= depth  BY DEF Enough
<1>3. IsFiniteSet(turns)
  <2>1. IsFiniteSet(1..Len(s))  BY <1>1, FS_Interval
  <2> QED  BY <1>1, <2>1, FS_Subset
<1> HIDE DEF turns
<1>4. /\ Cardinality(turns) \in Nat
      /\ \A k \in 1..Cardinality(turns) : \E i \in turns : Rank(turns, i) = k
  BY <1>1, RanksArePlaces
<1>5. PICK i \in turns : Rank(turns, i) = Cardinality(turns) - depth + 1
  <2>1. Cardinality(turns) - depth + 1 \in 1..Cardinality(turns)  BY <1>2, <1>4
  <2> QED  BY <1>4, <2>1
<1>6. i - 1 \in 0..Len(s) /\ (i - 1) + 1 = i /\ i \in Int  BY <1>1
<1>7. Cardinality({j \in turns : j > i - 1}) = depth
  <2> DEFINE upto == {j \in turns : j <= i}  after == turns \ upto  from == {j \in turns : j > i - 1}
  <2>1. upto \subseteq turns /\ Cardinality(upto) = Cardinality(turns) - depth + 1  BY <1>5 DEF Rank
  <2>2. \A j : j \in after <=> j \in turns /\ ~(j <= i)  OBVIOUS
  <2>3. \A j : j \in from <=> j \in turns /\ j > i - 1  OBVIOUS
  <2> HIDE DEF from
  <2>4. IsFiniteSet(after) /\ Cardinality(after) = Cardinality(turns) - Cardinality(turns \cap upto)
    BY <1>3, FS_Difference
  <2> HIDE DEF upto
  <2>5. turns \cap upto = upto  BY <2>1
  <2> HIDE DEF after
  <2>6. Cardinality(after) = depth - 1
    <3>1. Cardinality(after) = Cardinality(turns) - (Cardinality(turns) - depth + 1)  BY <2>1, <2>4, <2>5
    <3> QED  BY <1>4, <3>1
  <2>7. from = after \cup {i} /\ i \notin after
    <3>1. \A j \in turns : j \in Int  BY <1>1
    <3>2. \A j \in turns : j > i - 1 <=> ~(j <= i) \/ j = i  BY <1>6, <3>1
    <3>3. \A j : j \in from <=> j \in after \cup {i}  BY <2>2, <2>3, <3>2
    <3> QED  BY <1>6, <2>2, <3>3
  <2>8. Cardinality(after \cup {i}) = Cardinality(after) + 1  BY <2>4, <2>7, FS_AddElement
  <2>9. Cardinality(from) = depth  BY <2>6, <2>7, <2>8
  <2> QED  BY <2>9 DEF from
<1>8. \E n \in 0..Len(s) : n + 1 \in Turns(s) /\ Cardinality({j \in Turns(s) : j > n}) = depth
  BY <1>6, <1>7 DEF turns
<1>9. s # <<>>  BY <1>1, <1>6
<1> QED  BY <1>8, <1>9 DEF Boundary

\* What is preserved is a tail from a cut on, with the first message before it or not.
LEMMA PreservedParts ==
    ASSUME NEW s \in Seq(Message), NEW depth \in Nat, Enough(s, depth)
    PROVE  \E n \in Cuts(s) : \/ Preserved(s, depth) = From(s, n)
                              \/ Preserved(s, depth) = <<s[1]>> \o From(s, n)
<1> DEFINE n == LastCut(s, Boundary(s, depth))
<1>1. Boundary(s, depth) \in Nat /\ s # <<>> /\ Len(s) \in Nat  BY BoundaryIsThere
<1>2. n \in Cuts(s)  BY <1>1, LastCutIsCut
<1>3. CASE \E i \in (n + 1)..Len(s) : s[i] = s[1]  BY <1>2, <1>3 DEF Preserved
<1>4. CASE ~(\E i \in (n + 1)..Len(s) : s[i] = s[1]) /\ n - 1 \in Cuts(s)  BY <1>2, <1>4 DEF Preserved
<1>5. CASE ~(\E i \in (n + 1)..Len(s) : s[i] = s[1]) /\ n - 1 \notin Cuts(s)
  <2>1. n \in 0..Len(s)  BY <1>1, <1>2 DEF Cuts
  <2>2. n # 0
    <3> SUFFICES ASSUME n = 0 PROVE FALSE  OBVIOUS
    <3>1. 1 \in (n + 1)..Len(s)  BY <1>1
    <3> QED  BY <1>5, <3>1
  <2>3. n - 1 \in Nat  BY <2>1, <2>2
  <2>4. LastCut(s, n - 1) \in Cuts(s)  BY <2>3, LastCutIsCut
  <2>5. Preserved(s, depth) = From(s, LastCut(s, n - 1))  BY <1>5 DEF Preserved
  <2> QED  BY <2>4, <2>5
<1> QED  BY <1>3, <1>4, <1>5

LEMMA JoinIsSeq == ASSUME NEW M, NEW p \in Seq(M), NEW q \in Seq(M) PROVE p \o q \in Seq(M)
OBVIOUS

LEMMA PreservedIsSeq ==
    ASSUME NEW s \in Seq(Message), NEW depth \in Nat, Enough(s, depth)
    PROVE  Preserved(s, depth) \in Seq(Message)
<1>1. PICK n \in Cuts(s) : \/ Preserved(s, depth) = From(s, n)
                           \/ Preserved(s, depth) = <<s[1]>> \o From(s, n)
  BY PreservedParts
<1>2. n \in 0..Len(s) /\ s # <<>>  BY BoundaryIsThere DEF Cuts
<1>3. From(s, n) \in Seq(Message)  BY <1>2 DEF From
<1>4. s[1] \in Message  BY <1>2
<1>5. <<s[1]>> \in Seq(Message)  BY <1>4
<1>6. <<s[1]>> \o From(s, n) \in Seq(Message)  BY <1>3, <1>5, JoinIsSeq
<1> QED  BY <1>1, <1>3, <1>6

\* It is sound when the history is, and does not begin with a call.
LEMMA PreservedIsSound ==
    ASSUME NEW s \in Seq(Message), NEW depth \in Nat, Enough(s, depth), Readable(s),
           NEW c, NEW x, Sound(s, c, x), s[1][1] # "call"
    PROVE  Sound(Preserved(s, depth), c, x)
<1>1. PICK n \in Cuts(s) : \/ Preserved(s, depth) = From(s, n)
                           \/ Preserved(s, depth) = <<s[1]>> \o From(s, n)
  BY PreservedParts
<1>2. n \in 0..Len(s) /\ s # <<>>  BY BoundaryIsThere DEF Cuts
<1>3. n < Len(s) => s[n + 1][1] # "result"
  <2>1. n < Len(s) => Pending(s, n) = 0  BY <1>2 DEF Cuts
  <2> QED  BY <1>2, <2>1, NoResultAtCut
<1>4. From(s, n) \in Seq(Message) /\ Sound(From(s, n), c, x)  BY <1>2, <1>3, TailIsSound
<1>5. 1 \in DOMAIN s /\ s[1] \in Message  BY <1>2
<1>6. s[1][1] = "result" => s[1][2] \in c
  <2> SUFFICES ASSUME s[1][1] = "result", s[1][2] \notin c PROVE FALSE  OBVIOUS
  <2>1. PICK j \in DOMAIN s : Between(s, c, j, 1)  BY <1>5 DEF Sound, SoundResults
  <2>2. j \in Int /\ j >= 1 /\ j < 1  BY <2>1 DEF Between
  <2> QED  BY <2>2
<1>7. <<s[1]>> \in Seq(Message) /\ DOMAIN <<s[1]>> = {1} /\ <<s[1]>>[1] = s[1]  BY <1>5
<1>8. \A k \in DOMAIN <<s[1]>> : <<s[1]>>[k][1] # "call" /\ (<<s[1]>>[k][1] = "result" => <<s[1]>>[k][2] \in c)
  BY <1>6, <1>7
<1>9. Sound(<<s[1]>> \o From(s, n), c, x)  BY <1>4, <1>7, <1>8, PrefixIsSound
<1> QED  BY <1>1, <1>4, <1>9

----------------------------------------------------------------------------
(* What a list of messages has, and what stands at its head.                     *)

\* A list has a message of some kind, which no system reminder is.
Has(s, kinds) == \E i \in DOMAIN s : s[i][1] \in kinds

\* The kinds of messages that can begin a list without a call coming to its head.
Firm  == Kinds \ ({"call"} \cup Reminders)
Roots == {"user", "summary"}

\* Every call has one of them before it.
Headed(s) == \A i \in DOMAIN s : s[i][1] = "call" => \E j \in 1..(i - 1) : s[j][1] \in Firm

LEMMA HasAppended ==
    ASSUME NEW s \in Seq(Message), NEW kinds, NEW m \in Message, Has(s, kinds) \/ m[1] \in kinds
    PROVE  Has(Append(s, m), kinds)
<1>1. /\ DOMAIN s = 1..Len(s) /\ Len(s) \in Nat /\ DOMAIN Append(s, m) = 1..(Len(s) + 1)
      /\ \A i \in DOMAIN s : Append(s, m)[i] = s[i]
      /\ Append(s, m)[Len(s) + 1] = m
  OBVIOUS
<1>2. CASE Has(s, kinds)
  <2>1. PICK i \in DOMAIN s : s[i][1] \in kinds  BY <1>2 DEF Has
  <2>2. i \in DOMAIN Append(s, m) /\ Append(s, m)[i] = s[i]  BY <1>1
  <2> QED  BY <2>1, <2>2 DEF Has
<1>3. CASE m[1] \in kinds
  <2>1. Len(s) + 1 \in DOMAIN Append(s, m)  BY <1>1
  <2> QED  BY <1>1, <1>3, <2>1 DEF Has
<1> QED  BY <1>2, <1>3

LEMMA HasStripped ==
    ASSUME NEW s \in Seq(Message), NEW kinds, kinds \cap Reminders = {}, Has(s, kinds)
    PROVE  Has(Stripped(s), kinds)
<1>1. PICK from : KeepsOrder(s, Stripped(s), from)  BY StrippedKeepsOrder
<1>2. PICK i \in DOMAIN s : s[i][1] \in kinds  BY DEF Has
<1>3. s[i][1] \notin Reminders  BY <1>2
<1>4. PICK k \in DOMAIN Stripped(s) : from[k] = i  BY <1>1, <1>3 DEF KeepsOrder
<1>5. Stripped(s)[k] = s[i]  BY <1>1, <1>4 DEF KeepsOrder
<1> QED  BY <1>2, <1>5 DEF Has

\* One list after another.
LEMMA Joined ==
    ASSUME NEW p \in Seq(Message), NEW s \in Seq(Message)
    PROVE  /\ Len(p) \in Nat /\ Len(s) \in Nat /\ DOMAIN p = 1..Len(p) /\ DOMAIN s = 1..Len(s)
           /\ DOMAIN (p \o s) = 1..(Len(p) + Len(s)) /\ p \o s \in Seq(Message)
           /\ \A i \in 1..Len(p) : (p \o s)[i] = p[i]
           /\ \A i \in 1..Len(s) : (p \o s)[Len(p) + i] = s[i]
OBVIOUS

LEMMA HasJoined ==
    ASSUME NEW p \in Seq(Message), NEW s \in Seq(Message), NEW kinds, Has(p, kinds) \/ Has(s, kinds)
    PROVE  Has(p \o s, kinds)
<1>1. CASE Has(p, kinds)
  <2>1. PICK i \in DOMAIN p : p[i][1] \in kinds  BY <1>1 DEF Has
  <2>2. i \in DOMAIN (p \o s) /\ (p \o s)[i] = p[i]  BY Joined
  <2> QED  BY <2>1, <2>2 DEF Has
<1>2. CASE Has(s, kinds)
  <2>1. PICK i \in DOMAIN s : s[i][1] \in kinds  BY <1>2 DEF Has
  <2>2. Len(p) + i \in DOMAIN (p \o s) /\ (p \o s)[Len(p) + i] = s[i]  BY Joined
  <2> QED  BY <2>1, <2>2 DEF Has
<1> QED  BY <1>1, <1>2

LEMMA HeadedAppended ==
    ASSUME NEW s \in Seq(Message), NEW m \in Message, Headed(s), m[1] = "call" => Has(s, Firm)
    PROVE  Headed(Append(s, m))
<1> DEFINE t == Append(s, m)
<1>1. /\ DOMAIN s = 1..Len(s) /\ Len(s) \in Nat /\ DOMAIN t = 1..(Len(s) + 1)
      /\ \A i \in DOMAIN s : t[i] = s[i]
      /\ t[Len(s) + 1] = m
  OBVIOUS
<1> HIDE DEF t
<1>2. ASSUME NEW i \in DOMAIN t, t[i][1] = "call" PROVE \E j \in 1..(i - 1) : t[j][1] \in Firm
  <2>1. CASE i \in DOMAIN s
    <3>1. PICK j \in 1..(i - 1) : s[j][1] \in Firm  BY <1>1, <1>2, <2>1 DEF Headed
    <3>2. j \in DOMAIN s  BY <1>1, <2>1
    <3> QED  BY <1>1, <3>1, <3>2
  <2>2. CASE i = Len(s) + 1
    <3>1. PICK j \in DOMAIN s : s[j][1] \in Firm  BY <1>1, <1>2, <2>2 DEF Has
    <3>2. j \in 1..(i - 1)  BY <1>1, <2>2
    <3> QED  BY <1>1, <3>1, <3>2
  <2> QED  BY <1>1, <2>1, <2>2
<1> QED  BY <1>2 DEF Headed, t

LEMMA HeadedStripped ==
    ASSUME NEW s \in Seq(Message), Headed(s)
    PROVE  Headed(Stripped(s))
<1>1. PICK from : KeepsOrder(s, Stripped(s), from)  BY StrippedKeepsOrder
<1>2. DOMAIN s = 1..Len(s) /\ DOMAIN Stripped(s) = 1..Len(Stripped(s)) /\ Len(s) \in Nat /\ Len(Stripped(s)) \in Nat
  BY StrippedKeepsOrder
<1>3. ASSUME NEW k \in DOMAIN Stripped(s), Stripped(s)[k][1] = "call"
      PROVE  \E l \in 1..(k - 1) : Stripped(s)[l][1] \in Firm
  <2>1. from[k] \in DOMAIN s /\ s[from[k]] = Stripped(s)[k]  BY <1>1 DEF KeepsOrder
  <2>2. PICK j \in 1..(from[k] - 1) : s[j][1] \in Firm  BY <1>3, <2>1 DEF Headed
  <2>3. j \in DOMAIN s /\ j < from[k]  BY <1>2, <2>1
  <2>4. s[j][1] \notin Reminders  BY <2>2 DEF Firm
  <2>5. PICK l \in DOMAIN Stripped(s) : from[l] = j  BY <1>1, <2>3, <2>4 DEF KeepsOrder
  <2>6. l < k /\ Stripped(s)[l] = s[j]  BY <1>1, <2>3, <2>5 DEF KeepsOrder
  <2>7. l \in 1..(k - 1)  BY <1>2, <2>6
  <2> QED  BY <2>2, <2>6, <2>7
<1> QED  BY <1>3 DEF Headed

\* Before a list that is headed, messages that are no calls; before any other, one that
\* is firm.
LEMMA HeadedJoined ==
    ASSUME NEW p \in Seq(Message), NEW s \in Seq(Message),
           \A k \in DOMAIN p : p[k][1] # "call", Headed(s) \/ Has(p, Firm)
    PROVE  Headed(p \o s)
<1> DEFINE t == p \o s
<1>1. /\ Len(p) \in Nat /\ Len(s) \in Nat /\ DOMAIN p = 1..Len(p) /\ DOMAIN s = 1..Len(s)
      /\ DOMAIN t = 1..(Len(p) + Len(s))
      /\ \A i \in 1..Len(p) : t[i] = p[i]
      /\ \A i \in 1..Len(s) : t[Len(p) + i] = s[i]
  BY Joined
<1> HIDE DEF t
<1>2. ASSUME NEW k \in DOMAIN t, t[k][1] = "call" PROVE \E l \in 1..(k - 1) : t[l][1] \in Firm
  <2>1. k \notin 1..Len(p)  BY <1>1, <1>2
  <2>2. k - Len(p) \in 1..Len(s) /\ Len(p) + (k - Len(p)) = k  BY <1>1, <2>1
  <2>3. t[k] = s[k - Len(p)]  BY <1>1, <2>2
  <2>4. CASE Headed(s)
    <3>1. PICK j \in 1..(k - Len(p) - 1) : s[j][1] \in Firm  BY <1>1, <1>2, <2>2, <2>3, <2>4 DEF Headed
    <3>2. j \in 1..Len(s) /\ Len(p) + j \in 1..(k - 1)  BY <1>1, <2>2
    <3> QED  BY <1>1, <3>1, <3>2
  <2>5. CASE Has(p, Firm)
    <3>1. PICK j \in DOMAIN p : p[j][1] \in Firm  BY <2>5 DEF Has
    <3>2. j \in 1..(k - 1) /\ t[j] = p[j]  BY <1>1, <2>2
    <3> QED  BY <3>1, <3>2
  <2> QED  BY <2>4, <2>5
<1> QED  BY <1>2 DEF Headed, t

\* A list that is headed does not begin with a call.
LEMMA HeadedFirst == ASSUME NEW s \in Seq(Message), s # <<>>, Headed(s) PROVE s[1][1] # "call"
<1>1. 1 \in DOMAIN s  OBVIOUS
<1>2. ~ \E j \in 1..(1 - 1) : s[j][1] \in Firm  OBVIOUS
<1> QED  BY <1>1, <1>2 DEF Headed

----------------------------------------------------------------------------
(* What is true of the history and of the compaction in flight, as long as no    *)
(* compaction has put back the list that it emptied.                             *)

Whole == Due /\ CallsAnswered /\ ResultsFollow /\ CutsWritten

AllCut == \A g \in growing : g.id \in cut

\* The compaction in flight has a list of messages to put into the context.
Holding == comp.at \in {"exporting", "cleared"} /\ ~comp.live

\* The lists are lists of messages, and what is to follow a summary is what is
\* preserved of the history it is made from.
CarriesList == Holding => comp.messages \in Seq(Message)
Splits == comp.at = "summing" =>
    /\ comp.before \in Seq(Message)
    /\ \E depth \in Depths, id \in Nat :
          /\ Enough(comp.before, depth) /\ Readable(comp.before)
          /\ comp.messages = <<<<"summary", id>>>> \o Preserved(comp.before, depth)
Shaped == history \in Seq(Message) /\ OneWrite /\ CarriesList /\ Splits

\* That list could be the history of a soul that is not writing.
Carries == Holding => /\ Sound(comp.messages, cut, torn \cup Owed)
                      /\ Headed(comp.messages) /\ Has(comp.messages, Firm)
                      /\ lost \/ Has(comp.messages, Roots)

\* Only late results enter a context that was cleared.
OnlyLate == comp.at = "cleared" => \A k \in DOMAIN history : Late(history[k])

\* A soul at work on a turn has something in its context before any call.
AtWork == main \notin {"idle", "opening"}
Grounded == AtWork /\ comp.at # "cleared" =>
                Has(history, Firm) \/ (main = "injecting" /\ queue # <<>>)
WakeMeans == main = "racing" /\ wake => queue # <<>>

\* The user was heard, or a summary stands for it.
Begun == AtWork \/ step.id > 0
HeardUser == Begun /\ comp.at # "cleared" /\ ~lost => Has(history, Roots)

Remains == Whole /\ Headed(history) /\ Carries /\ OnlyLate /\ Grounded /\ HeardUser

----------------------------------------------------------------------------
(* How the history moves.                                                        *)

\* Outside of a step that writes, every write going on is late.
LEMMA WritesAreLate == ASSUME TInv, step.at # "growing" PROVE AllCut
BY DEF TInv, WriteTypes, AllCut

LEMMA RunsAreNumbers == TInv => runs \in Nat
<1> SUFFICES ASSUME TInv PROVE runs \in Nat  OBVIOUS
<1>1. runs \in 0..MaxRuns  BY DEF TInv, LoopTypes
<1> QED  BY <1>1, SomeRuns

\* While a compaction is in flight, every write going on is late.
LEMMA CompactsLate == ASSUME TInv, comp.at # "no" PROVE AllCut
BY SomeoneWaits, WritesAreLate

\* The loop and the step do not touch a compaction in flight, but by cancelling it.
LEMMA InFlight ==
    ASSUME TInv, Loop \/ StepTask
    PROVE  /\ comp'.at \in {"no", "preparing", comp.at}
           /\ comp'.at \notin {"no", "preparing"} => comp' = comp
           /\ comp.at = "no" => comp'.at \in {"no", "preparing"}
           /\ comp.at # "no" => Interrupted \/ Cancel \/ comp' = comp
<1>1. CASE Guard
  <2>1. comp.at = "no"  BY <1>1, NoneInFlight DEF Guard, TInv, StepTypes
  <2> QED  BY <1>1, <2>1 DEF Guard, Compact, NoComp
<1>2. CASE Interrupted \/ Cancel
  <2>1. CancelStep  BY <1>2 DEF Interrupted, Cancel
  <2> QED  BY <1>2, <2>1 DEF CancelStep, NoComp
<1>3. CASE Overflow
  <2>1. comp.at = "no"  BY <1>3, NoneInFlight DEF Overflow, Asking
  <2> QED  BY <1>3, <2>1 DEF Overflow, Compact, NoComp
<1>4. CASE CompactTool
  BY <1>4 DEF CompactTool, Compact, NoComp
<1>5. CASE \/ Run \/ Blocked \/ Turn \/ Enter \/ StopHook \/ Return \/ Spawn \/ Inject \/ Refuse \/ Injected
           \/ StepFailed \/ Continues \/ Resolve
           \/ Asks \/ Calls \/ Replies \/ ToolsDone \/ ResultsRefused \/ Grown \/ ThinkOnly \/ Broken
  <2>1. comp' = comp
    BY <1>5 DEF Run, Blocked, Turn, Enter, StopHook, Return, Spawn, Inject, Refuse, Injected, StepFailed, Continues,
                Resolve, Nudge, Recover, GivesUp, Continue, MakesUp, Answers, Rejected, Again, End,
                Asks, Calls, Replies, ToolsDone, ResultsRefused, Grown, ThinkOnly, Broken, Grow, context
  <2> QED  BY <2>1
<1> QED  BY <1>1, <1>2, <1>3, <1>4, <1>5 DEF Loop, StepTask

\* A write that goes on appends one result, that of its step.
LEMMA GrownBy ==
    ASSUME TInv, Shaped, NEW g \in growing, GrowOn(g)
    PROVE  /\ g.id \in Nat /\ g.left = <<<<"result", g.id>>>> /\ <<"result", g.id>> \in Message
           /\ history' = Append(history, <<"result", g.id>>)
<1>1. g.left = <<<<"result", g.id>>>> /\ g.id \in Nat  BY DEF GrowOn, Shaped, OneWrite, TInv, WriteTypes
<1>2. <<"result", g.id>> \in Message  BY <1>1 DEF Message, Kinds
<1>3. history' = history \o <<<<"result", g.id>>>> /\ history \in Seq(Message)  BY <1>1 DEF GrowOn, Shaped
<1> QED  BY <1>1, <1>2, <1>3

\* One message is appended, the reminders are removed, or a compaction clears the
\* context or puts its list into it; while one is in flight, only late results come.
Appends == \E m \in Message : /\ history' = Append(history, m)
                              /\ m[1] = "call" => main = "racing"
                              /\ comp.at # "no" => m[1] = "result" /\ m[2] \in cut
Strips  == history' = Stripped(history) /\ comp.at = "no"
Moved   == history' = history \/ Appends \/ Strips \/ Clears \/ Rebuilt

LEMMA MovesOfLoop == ASSUME TInv, Shaped, Loop PROVE history' = history \/ Appends
<1>1. CASE Turn \/ StopHook \/ Inject
  <2>1. comp.at = "no"
    <3>1. main \notin {"compacting", "racing"}  BY <1>1 DEF Turn, StopHook, Inject
    <3> QED  BY <3>1, NoneInFlight DEF TInv, StepTypes
  <2>2. CASE Turn \/ StopHook
    <3>1. PICK kind \in {"user", "reason"} : history' = Append(history, <<kind, runs>>)
      BY <2>2 DEF Turn, StopHook, Append1
    <3>2. <<kind, runs>> \in Message  BY RunsAreNumbers DEF Message, Kinds
    <3> QED  BY <2>1, <3>1, <3>2 DEF Appends
  <2>3. CASE Inject
    <3>1. queue \in Seq(Steers) /\ queue # <<>>  BY <2>3 DEF Inject, TInv, SteerTypes
    <3>2. Head(queue) \in Steers  BY <3>1
    <3>3. <<"steer", Head(queue)>> \in Message  BY <3>2 DEF Message, Kinds
    <3> QED  BY <2>1, <2>3, <3>3 DEF Inject, Append1, Appends
  <2> QED  BY <1>1, <2>2, <2>3
<1>2. CASE Resolve
  <2>1. main = "racing" /\ step.at = "done" /\ step.id \in Nat /\ history \in Seq(Message)
    BY <1>2 DEF Resolve, Nudge, Recover, GivesUp, Continue, MakesUp, Answers, Rejected, Stops, Finished,
                TInv, StepTypes, Shaped
  <2>2. comp.at = "no"  BY <2>1, NoneInFlight
  <2>3. CASE Nudge \/ Recover \/ Continue
    <3>1. PICK kind \in {"nudge", "gate"} : history' = Append(history, <<kind, step.id>>)
      BY <2>3 DEF Nudge, Recover, Continue, Again, Append1
    <3>2. <<kind, step.id>> \in Message  BY <2>1 DEF Message, Kinds
    <3> QED  BY <2>2, <3>1, <3>2 DEF Appends
  <2>4. CASE GivesUp \/ MakesUp
    <3>1. history' = history \o <<<<"text", step.id>>>>  BY <2>4 DEF GivesUp, MakesUp, End, Fallback
    <3>2. <<"text", step.id>> \in Message  BY <2>1 DEF Message, Kinds
    <3>3. history' = Append(history, <<"text", step.id>>)  BY <2>1, <3>1, <3>2
    <3> QED  BY <2>2, <3>2, <3>3 DEF Appends
  <2>5. CASE Answers \/ Rejected
    <3>1. history' = history \o <<>>  BY <2>5 DEF Answers, Rejected, End
    <3> QED  BY <2>1, <3>1
  <2> QED  BY <1>2, <2>3, <2>4, <2>5 DEF Resolve
<1>3. CASE \/ Run \/ Blocked \/ Enter \/ Return \/ Guard \/ Spawn \/ Interrupted \/ Cancel \/ Refuse \/ Injected
           \/ StepFailed \/ Continues
  BY <1>3 DEF Run, Blocked, Enter, Return, Guard, Spawn, Interrupted, Cancel, Refuse, Injected, StepFailed,
              Continues, context
<1> QED  BY <1>1, <1>2, <1>3 DEF Loop

LEMMA MovesOfTask == ASSUME TInv, Shaped, StepTask PROVE history' = history \/ Appends \/ Strips
<1>1. CASE Asks
  <2>1. step.at = "preparing" /\ main = "racing" /\ history' = Stripped(history)  BY <1>1 DEF Asks
  <2> QED  BY <2>1, NoneInFlight DEF Strips
<1>2. CASE Replies \/ ToolsDone
  <2>1. main = "racing" /\ step.at \in {"asking", "calling"} /\ (step.at = "calling" => comp.at = "no")
    BY <1>2 DEF Replies, ToolsDone, Asking
  <2>2. comp.at = "no"  BY <2>1, NoneInFlight
  <2>3. PICK kind \in {"text", "empty", "call"} : history' = Append(history, <<kind, step.id>>)
    BY <1>2 DEF Replies, ToolsDone, Grow, Append1
  <2>4. <<kind, step.id>> \in Message  BY <2>3 DEF Message, Kinds, TInv, StepTypes
  <2> QED  BY <2>1, <2>2, <2>3, <2>4 DEF Appends
<1>3. CASE Calls \/ ResultsRefused \/ Grown \/ ThinkOnly \/ Broken \/ Overflow \/ CompactTool
  BY <1>3 DEF Calls, ResultsRefused, Grown, ThinkOnly, Broken, Overflow, CompactTool, context
<1> QED  BY <1>1, <1>2, <1>3 DEF StepTask

LEMMA MovesOfWrites == ASSUME TInv, Shaped, Writes PROVE history' = history \/ Appends
<1>1. PICK g \in growing : GrowOn(g) \/ GrowEnd(g)  BY DEF Writes
<1>2. CASE GrowOn(g)
  <2>1. /\ <<"result", g.id>> \in Message /\ history' = Append(history, <<"result", g.id>>)
    BY <1>2, GrownBy
  <2>2. comp.at # "no" => g.id \in cut  BY CompactsLate DEF AllCut
  <2> QED  BY <2>1, <2>2 DEF Appends
<1>3. CASE GrowEnd(g)  BY <1>3 DEF GrowEnd
<1> QED  BY <1>1, <1>2, <1>3

LEMMA Moves == ASSUME TInv, Shaped, [Next]_vars PROVE Moved
<1>1. CASE Pushes \/ LoopCloses \/ UNCHANGED vars
  BY <1>1 DEF Moved, Pushes, Check, Push, LoopCloses, vars, context
<1>2. CASE Compaction
  BY <1>2 DEF Moved, Compaction, Prepares, Summed, Retries, Changed, CompactFails
<1> QED  BY <1>1, <1>2, MovesOfLoop, MovesOfTask, MovesOfWrites DEF Next, Moved

\* At most one write is not cut, that of the current step.
LEMMA OneWriteStays == ASSUME TInv, CutIsPast, OneWrite, [Next]_vars PROVE OneWrite'
<1>0. growing \subseteq [id : Nat, left : Lefts]  BY DEF TInv, WriteTypes
<1>1. CASE Interrupted \/ Cancel
  <2>1. growing' = growing /\ cut \subseteq cut'
    BY <1>1 DEF Interrupted, Cancel, CancelStep, Shielded
  <2> QED  BY <2>1 DEF OneWrite
<1>2. CASE Replies \/ ToolsDone
  <2>1. step.at \in {"asking", "calling"} /\ step.id \in Nat
    BY <1>2 DEF Replies, ToolsDone, Asking, TInv, StepTypes
  <2>2. AllCut  BY <2>1, WritesAreLate
  <2>3. PICK left \in {<<>>, <<<<"result", step.id>>>>} :
            growing' = growing \cup {[id |-> step.id, left |-> left]} /\ cut' = cut
    BY <1>2 DEF Replies, ToolsDone, Results, Grow, ghosts
  <2> DEFINE new == [id |-> step.id, left |-> left]
  <2>4. new.id = step.id /\ new.left = left /\ growing' = growing \cup {new}  BY <2>3
  <2> HIDE DEF new
  <2>5. \A g \in growing' : g.left \in {<<>>, <<<<"result", g.id>>>>}  BY <2>3, <2>4 DEF OneWrite
  <2>6. \A g \in growing' : g.id \notin cut' => g = new  BY <2>2, <2>3, <2>4 DEF AllCut
  <2> QED  BY <2>5, <2>6 DEF OneWrite
<1>3. CASE Writes
  <2>1. PICK g \in growing : GrowOn(g) \/ GrowEnd(g)  BY <1>3 DEF Writes
  <2>2. CASE GrowEnd(g)
    <3>1. growing' \subseteq growing /\ cut' = cut  BY <2>2 DEF GrowEnd, ghosts
    <3> QED  BY <3>1 DEF OneWrite
  <2>3. CASE GrowOn(g)
    <3> DEFINE new == [g EXCEPT !.left = <<>>]
    <3>1. growing' = (growing \ {g}) \cup {new} /\ new.id = g.id /\ new.left = <<>> /\ cut' = cut
      BY <1>0, <2>3 DEF GrowOn
    <3> HIDE DEF new
    <3>2. \A h \in growing' : h.left \in {<<>>, <<<<"result", h.id>>>>}  BY <3>1 DEF OneWrite
    <3>3. ASSUME NEW h \in growing', NEW f \in growing', h.id \notin cut, f.id \notin cut PROVE h = f
      <4>1. h \in growing \ {g} \/ h = new  BY <3>1
      <4>2. f \in growing \ {g} \/ f = new  BY <3>1
      <4> QED  BY <3>1, <3>3, <4>1, <4>2 DEF OneWrite
    <3> QED  BY <3>1, <3>2, <3>3 DEF OneWrite
  <2> QED  BY <2>1, <2>2, <2>3
<1>4. CASE LoopCloses
  <2>1. growing' = {}  BY <1>4 DEF LoopCloses
  <2> QED  BY <2>1 DEF OneWrite
<1>5. CASE \/ Run \/ Blocked \/ Turn \/ Enter \/ StopHook \/ Return \/ Guard \/ Spawn \/ Inject \/ Refuse \/ Injected
           \/ StepFailed \/ Continues \/ Resolve
           \/ Asks \/ Calls \/ ResultsRefused \/ Grown \/ ThinkOnly \/ Broken \/ Overflow \/ CompactTool
           \/ Compaction \/ Pushes \/ UNCHANGED vars
  <2>1. CASE \/ Run \/ Blocked \/ Turn \/ Enter \/ StopHook \/ Return \/ Guard \/ Spawn \/ Inject \/ Refuse \/ Injected
             \/ StepFailed \/ Continues \/ Resolve
    BY <2>1 DEF OneWrite, Run, Blocked, Turn, Enter, StopHook, Return, Guard, Spawn, Inject, Refuse, Injected,
                StepFailed, Continues, Resolve, Nudge, Recover, GivesUp, Continue, MakesUp, Answers, Rejected,
                Again, End, context, ghosts
  <2>2. CASE Asks \/ Calls \/ ResultsRefused \/ Grown \/ ThinkOnly \/ Broken \/ Overflow \/ CompactTool
    BY <2>2 DEF OneWrite, Asks, Calls, ResultsRefused, Grown, ThinkOnly, Broken, Overflow, CompactTool, context, ghosts
  <2>3. CASE Compaction \/ Pushes \/ UNCHANGED vars
    BY <2>3 DEF OneWrite, Compaction, Prepares, Summed, Retries, Clears, Changed, Rebuilt, CompactFails, Pushes,
                Check, Push, vars, context, ghosts
  <2> QED  BY <1>5, <2>1, <2>2, <2>3
<1> QED  BY <1>1, <1>2, <1>3, <1>4, <1>5 DEF Next, Loop, StepTask

\* Outside of compact_context the compaction in flight stays as it is, or there is
\* none or one that has not begun to split the history.
LEMMA CompMoves ==
    ASSUME TInv, [Next]_vars
    PROVE  \/ comp' = comp \/ comp'.at \in {"no", "preparing"}
           \/ Prepares \/ Summed \/ Clears
<1>1. CASE Loop \/ StepTask  BY <1>1, InFlight
<1>2. CASE Compaction
  <2>1. CASE Retries \/ Changed
    <3>1. PICK again : comp' = Anew(again)  BY <2>1 DEF Retries, Changed
    <3> QED  BY <3>1 DEF Anew, Compact, NoComp
  <2>2. CASE Rebuilt \/ CompactFails  BY <2>2 DEF Rebuilt, CompactFails, NoComp
  <2> QED  BY <1>2, <2>1, <2>2 DEF Compaction
<1>3. CASE Writes \/ Pushes \/ LoopCloses \/ UNCHANGED vars
  BY <1>3 DEF Writes, GrowOn, GrowEnd, Pushes, Check, Push, LoopCloses, vars, context
<1> QED  BY <1>1, <1>2, <1>3 DEF Next

LEMMA ShapedBegins == Init => Shaped
<1> SUFFICES ASSUME Init PROVE Shaped  OBVIOUS
<1>1. history = <<>> /\ growing = {} /\ history \in Seq(Message) /\ comp.at = "no"  BY DEF Init, NoComp
<1> QED  BY <1>1 DEF Shaped, OneWrite, CarriesList, Holding, Splits

LEMMA ShapedStays == ASSUME TInv, CutIsPast, Shaped, [Next]_vars PROVE Shaped'
<1> USE DEF Shaped
<1>1. OneWrite'  BY OneWriteStays
<1>2. history' \in Seq(Message)
  <2>1. CASE history' = history  BY <2>1
  <2>2. CASE Appends
    <3>1. PICK m \in Message : history' = Append(history, m)  BY <2>2 DEF Appends
    <3> QED  BY <3>1
  <2>3. CASE Strips  BY <2>3, StrippedKeepsOrder DEF Strips
  <2>4. CASE Clears
    <3>1. history' = <<>>  BY <2>4 DEF Clears
    <3> QED  BY <3>1
  <2>5. CASE Rebuilt
    <3>1. PICK list : history' = history \o list /\ list = IF comp.live THEN history ELSE comp.messages
      BY <2>5 DEF Rebuilt
    <3>2. list \in Seq(Message)  BY <2>5, <3>1 DEF CarriesList, Holding, Rebuilt
    <3> QED  BY <3>1, <3>2, JoinIsSeq
  <2> QED  BY <2>1, <2>2, <2>3, <2>4, <2>5, Moves DEF Moved
<1>3. CarriesList' /\ Splits'
  <2>1. CASE comp' = comp  BY <2>1 DEF CarriesList, Splits, Holding
  <2>2. CASE comp'.at \in {"no", "preparing"}  BY <2>2 DEF CarriesList, Splits, Holding
  <2>3. CASE Prepares
    <3>1. CompShape /\ step.id \in Nat  BY DEF TInv, CompTypes, StepTypes
    <3>2. CASE comp'.at = "exporting" /\ (comp'.live \/ comp'.messages = history)
      BY <3>2 DEF CarriesList, Splits, Holding
    <3>3. CASE /\ comp'.at = "summing" /\ comp'.before = history
               /\ \E depth \in Depths : /\ Enough(history, depth) /\ Readable(history)
                                        /\ comp'.messages = <<<<"summary", step.id>>>> \o Preserved(history, depth)
      BY <3>1, <3>3 DEF CarriesList, Splits, Holding
    <3> QED  BY <2>3, <3>1, <3>2, <3>3, Prepared
  <2>4. CASE Summed
    <3>1. comp.at = "summing" /\ comp'.at = "exporting" /\ comp'.messages = comp.messages
      BY <2>4 DEF Summed, TInv, CompTypes, CompShape
    <3>2. PICK depth \in Depths, id \in Nat :
              /\ Enough(comp.before, depth)
              /\ comp.messages = <<<<"summary", id>>>> \o Preserved(comp.before, depth)
      BY <3>1 DEF Splits
    <3>3. depth \in Nat /\ comp.before \in Seq(Message)  BY <3>1, NumbersAssumption DEF Splits
    <3>4. Preserved(comp.before, depth) \in Seq(Message)  BY <3>2, <3>3, PreservedIsSeq
    <3>5. <<"summary", id>> \in Message  BY DEF Message, Kinds
    <3>6. <<<<"summary", id>>>> \in Seq(Message)  BY <3>5
    <3>7. comp.messages \in Seq(Message)  BY <3>2, <3>4, <3>6, JoinIsSeq
    <3> QED  BY <3>1, <3>7 DEF CarriesList, Splits
  <2>5. CASE Clears
    <3>1. comp.at = "exporting" /\ comp'.at = "cleared" /\ comp'.messages = comp.messages /\ comp'.live = comp.live
      BY <2>5 DEF Clears, TInv, CompTypes, CompShape
    <3> QED  BY <3>1 DEF CarriesList, Splits, Holding
  <2> QED  BY <2>1, <2>2, <2>3, <2>4, <2>5, CompMoves
<1> QED  BY <1>1, <1>2, <1>3

----------------------------------------------------------------------------
(* The messages of a step stay together, by the kind of step that is taken.      *)

\* What is in the history stays where it is when a message is appended.
LEMMA Appended ==
    ASSUME NEW M, history \in Seq(M), NEW m \in M, history' = Append(history, m)
    PROVE  /\ history' \in Seq(M) /\ Len(history') = Len(history) + 1 /\ Len(history) \in Nat
           /\ DOMAIN history = 1..Len(history) /\ DOMAIN history' = 1..(Len(history) + 1)
           /\ \A i \in DOMAIN history : history'[i] = history[i]
           /\ history'[Len(history) + 1] = m
OBVIOUS

\* What follows a message still follows it, when only later steps are cut.
LEMMA StillFollows ==
    ASSUME history \in Seq(Message), cut \subseteq cut',
           history' = history \/ \E m \in Message : history' = Append(history, m),
           NEW i \in DOMAIN history, NEW j \in DOMAIN history, Follows(i, j)
    PROVE  Follows(i, j)'
<1>1. \A k \in DOMAIN history : history'[k] = history[k]  BY Appended
<1>2. i \in Nat /\ j \in 1..Len(history) /\ DOMAIN history = 1..Len(history) /\ i \in 1..Len(history)  OBVIOUS
<1>3. ASSUME NEW k \in (i + 1)..(j - 1) PROVE Late(history[k])'
  <2>1. k \in DOMAIN history /\ Late(history[k])  BY <1>2 DEF Follows
  <2> QED  BY <1>1, <2>1 DEF Late
<1> QED  BY <1>3 DEF Follows

\* Nothing that matters changes.
LEMMA WholeQuiet == ASSUME Shaped, Whole, UNCHANGED <<history, growing, cut, torn>> PROVE Whole'
BY DEF Whole, Due, CallsAnswered, ResultsFollow, CutsWritten, Answered, Awaited, AtEnd, Follows,
       Late, CallAt, ResultAt, Id

\* A message that is neither a call nor a result, while no write is going on but late ones.
LEMMA WholeAdds ==
    ASSUME Shaped, Whole, AllCut, NEW m \in Message, m[1] \notin {"call", "result"},
           history' = Append(history, m), UNCHANGED <<growing, cut, torn>>
    PROVE  Whole'
<1> USE DEF Whole, Shaped
<1>1. /\ history' \in Seq(Message) /\ Len(history) \in Nat
      /\ DOMAIN history = 1..Len(history) /\ DOMAIN history' = 1..(Len(history) + 1)
      /\ \A i \in DOMAIN history : history'[i] = history[i]
      /\ history'[Len(history) + 1] = m
  BY Appended
<1>2. \A i, j \in DOMAIN history : Follows(i, j) => Follows(i, j)'  BY StillFollows
<1>3. \A i \in DOMAIN history' : history'[i][1] \in {"call", "result"} => i \in DOMAIN history
  BY <1>1
<1>4. Due'  BY DEF AllCut, Due
<1>5. CallsAnswered'
  <2> SUFFICES ASSUME NEW i \in DOMAIN history', history'[i] = CallAt(i)', Id(i)' \notin cut'
               PROVE  Answered(i)'
    BY DEF CallsAnswered
  <2>1. i \in DOMAIN history /\ history[i] = CallAt(i) /\ Id(i) = Id(i)' /\ ResultAt(i)' = ResultAt(i)
    BY <1>1, <1>3 DEF CallAt, ResultAt, Id
  <2>2. Answered(i)  BY <2>1 DEF CallsAnswered, Awaited, AllCut
  <2>3. PICK j \in DOMAIN history : Follows(i, j) /\ history[j] = ResultAt(i)  BY <2>2 DEF Answered
  <2> QED  BY <1>1, <1>2, <2>1, <2>3 DEF Answered
<1>6. ResultsFollow'
  <2> SUFFICES ASSUME NEW i \in DOMAIN history', history'[i] = ResultAt(i)', Id(i)' \notin cut'
               PROVE  \E j \in DOMAIN history' : Follows(j, i)' /\ history'[j] = CallAt(i)'
    BY DEF ResultsFollow
  <2>1. i \in DOMAIN history /\ history[i] = ResultAt(i) /\ Id(i) = Id(i)' /\ CallAt(i)' = CallAt(i)
    BY <1>1, <1>3 DEF CallAt, ResultAt, Id
  <2>2. PICK j \in DOMAIN history : Follows(j, i) /\ history[j] = CallAt(i)  BY <2>1 DEF ResultsFollow
  <2> QED  BY <1>1, <1>2, <2>1, <2>2
<1>7. CutsWritten'
  <2> SUFFICES ASSUME NEW i \in DOMAIN history', history'[i] = CallAt(i)', Id(i)' \in cut' \ torn',
                      ~ \E g \in growing' : g.id = Id(i)' /\ g.left # <<>>
               PROVE  \E j \in DOMAIN history' : i < j /\ history'[j] = ResultAt(i)'
    BY DEF CutsWritten
  <2>1. i \in DOMAIN history /\ history[i] = CallAt(i) /\ Id(i) = Id(i)' /\ ResultAt(i)' = ResultAt(i)
    BY <1>1, <1>3 DEF CallAt, ResultAt, Id
  <2>2. PICK j \in DOMAIN history : i < j /\ history[j] = ResultAt(i)  BY <2>1 DEF CutsWritten
  <2> QED  BY <1>1, <2>1, <2>2
<1> QED  BY <1>1, <1>4, <1>5, <1>6, <1>7

\* The reply of a step enters the history, and with a call the write of its results begins.
LEMMA WholeGrow ==
    ASSUME Shaped, Whole, AllCut, NEW id \in Nat, id \notin cut, NEW reply, NEW left,
           (reply \in {"text", "empty"} /\ left = <<>>) \/ (reply = "call" /\ left = <<<<"result", id>>>>),
           history' = Append(history, <<reply, id>>),
           growing' = growing \cup {[id |-> id, left |-> left]}, UNCHANGED <<cut, torn>>
    PROVE  Whole'
<1> USE DEF Whole, Shaped
<1> DEFINE m == <<reply, id>>  new == [id |-> id, left |-> left]
<1> PICK n \in Nat : n = Len(history) + 1  OBVIOUS
<1>0. m \in Message /\ reply \in {"text", "empty", "call"} /\ left \in {<<>>, <<<<"result", id>>>>}
      /\ (left # <<>> => reply = "call") /\ (reply = "call" => left # <<>>)
  <2>1. CASE reply \in {"text", "empty"} /\ left = <<>>  BY <2>1 DEF Message, Kinds
  <2>2. CASE reply = "call" /\ left = <<<<"result", id>>>>  BY <2>2 DEF Message, Kinds
  <2> QED  BY <2>1, <2>2
<1>1. /\ history' \in Seq(Message) /\ Len(history) \in Nat
      /\ DOMAIN history = 1..Len(history) /\ DOMAIN history' = 1..n /\ Len(history') = n
      /\ \A i \in DOMAIN history : history'[i] = history[i]
      /\ history'[n] = m
  BY <1>0, Appended
<1>2. \A i, j \in DOMAIN history : Follows(i, j) => Follows(i, j)'  BY <1>0, StillFollows
<1>3. new.id = id /\ new.left = left /\ growing' = growing \cup {new} /\ m[1] = reply /\ m[2] = id  OBVIOUS
<1> HIDE DEF new, m
<1>5. Due'
  <2> SUFFICES ASSUME left # <<>>
               PROVE  \E i \in DOMAIN history' : history'[i] = <<"call", id>> /\ AtEnd(i)'
    BY <1>3 DEF AllCut, Due
  <2>1. n \in DOMAIN history' /\ history'[n] = <<"call", id>>  BY <1>0, <1>1 DEF m
  <2>2. AtEnd(n)'  BY <1>1 DEF AtEnd
  <2> QED  BY <2>1, <2>2
<1>6. CallsAnswered'
  <2> SUFFICES ASSUME NEW i \in DOMAIN history', history'[i] = CallAt(i)', Id(i)' \notin cut'
               PROVE  Answered(i)' \/ Awaited(i)'
    BY DEF CallsAnswered
  <2>1. CASE i = n
    <3>1. Id(i)' = id /\ reply = "call"  BY <1>1, <1>3, <2>1 DEF Id, CallAt
    <3>2. AtEnd(i)'  BY <1>1, <2>1 DEF AtEnd
    <3> QED  BY <1>0, <1>3, <3>1, <3>2 DEF Awaited
  <2>2. CASE i \in DOMAIN history
    <3>1. history[i] = CallAt(i) /\ Id(i) = Id(i)' /\ ResultAt(i)' = ResultAt(i)
      BY <1>1, <2>2 DEF CallAt, ResultAt, Id
    <3>2. Answered(i)  BY <2>2, <3>1 DEF CallsAnswered, Awaited, AllCut
    <3>3. PICK j \in DOMAIN history : Follows(i, j) /\ history[j] = ResultAt(i)  BY <3>2 DEF Answered
    <3> QED  BY <1>1, <1>2, <2>2, <3>1, <3>3 DEF Answered
  <2> QED  BY <1>1, <2>1, <2>2
<1>7. ResultsFollow'
  <2> SUFFICES ASSUME NEW i \in DOMAIN history', history'[i] = ResultAt(i)', Id(i)' \notin cut'
               PROVE  \E j \in DOMAIN history' : Follows(j, i)' /\ history'[j] = CallAt(i)'
    BY DEF ResultsFollow
  <2>1. i # n  BY <1>0, <1>1, <1>3 DEF ResultAt
  <2>2. i \in DOMAIN history /\ history[i] = ResultAt(i) /\ Id(i) = Id(i)' /\ CallAt(i)' = CallAt(i)
    BY <1>1, <2>1 DEF CallAt, ResultAt, Id
  <2>3. PICK j \in DOMAIN history : Follows(j, i) /\ history[j] = CallAt(i)  BY <2>2 DEF ResultsFollow
  <2> QED  BY <1>1, <1>2, <2>2, <2>3
<1>8. CutsWritten'
  <2> SUFFICES ASSUME NEW i \in DOMAIN history', history'[i] = CallAt(i)', Id(i)' \in cut' \ torn',
                      ~ \E g \in growing' : g.id = Id(i)' /\ g.left # <<>>
               PROVE  \E j \in DOMAIN history' : i < j /\ history'[j] = ResultAt(i)'
    BY DEF CutsWritten
  <2>1. i # n  BY <1>1, <1>3 DEF Id
  <2>2. i \in DOMAIN history /\ history[i] = CallAt(i) /\ Id(i) = Id(i)' /\ ResultAt(i)' = ResultAt(i)
    BY <1>1, <2>1 DEF CallAt, ResultAt, Id
  <2>3. \A g \in growing : ~(g.id = Id(i) /\ g.left # <<>>)  BY <1>3, <2>2
  <2>4. PICK j \in DOMAIN history : i < j /\ history[j] = ResultAt(i)  BY <2>2, <2>3 DEF CutsWritten
  <2> QED  BY <1>1, <2>2, <2>4
<1> QED  BY <1>5, <1>6, <1>7, <1>8

\* A write appends its result: late when its step was cut, next to its call when not.
LEMMA WholeGrowOn ==
    ASSUME Shaped, Whole, growing \subseteq [id : Nat, left : Lefts], NEW g \in growing, GrowOn(g)
    PROVE  Whole'
<1> USE DEF Whole, Shaped
<1> DEFINE m == <<"result", g.id>>  new == [g EXCEPT !.left = <<>>]
<1> PICK n \in Nat : n = Len(history) + 1  OBVIOUS
<1>0. g.left # <<>> /\ g.left = <<m>> /\ g.id \in Nat  BY DEF GrowOn, OneWrite
<1>1. /\ growing' = (growing \ {g}) \cup {new} /\ new.id = g.id /\ new.left = <<>>
      /\ cut' = cut /\ torn \subseteq torn' /\ history' = history \o <<m>>
  BY <1>0 DEF GrowOn, ghosts
<1>2. m \in Message /\ m[1] = "result" /\ m[2] = g.id  BY <1>0 DEF Message, Kinds
<1> HIDE DEF new
<1>3. history' = Append(history, m)  BY <1>1, <1>2
<1>4. /\ history' \in Seq(Message) /\ Len(history) \in Nat
      /\ DOMAIN history = 1..Len(history) /\ DOMAIN history' = 1..n /\ Len(history') = n
      /\ \A i \in DOMAIN history : history'[i] = history[i]
      /\ history'[n] = m
  BY <1>2, <1>3, Appended
<1>5. \A i, j \in DOMAIN history : Follows(i, j) => Follows(i, j)'  BY <1>1, <1>2, <1>3, StillFollows
<1>6. \A i \in DOMAIN history : AtEnd(i) => Follows(i, n)'
  <2> SUFFICES ASSUME NEW i \in DOMAIN history, AtEnd(i) PROVE Follows(i, n)'  OBVIOUS
  <2>1. ASSUME NEW k \in (i + 1)..(n - 1) PROVE Late(history[k])'
    <3>1. k \in DOMAIN history /\ k \in (i + 1)..Len(history)  BY <1>4
    <3> QED  BY <1>1, <1>4, <3>1 DEF AtEnd, Late
  <2> QED  BY <1>4, <2>1 DEF Follows
<1>7. \A i \in DOMAIN history : AtEnd(i) /\ g.id \in cut => AtEnd(i)'
  <2> SUFFICES ASSUME NEW i \in DOMAIN history, AtEnd(i), g.id \in cut,
                      NEW k \in (i + 1)..Len(history')
               PROVE  Late(history[k])'
    BY DEF AtEnd
  <2>1. CASE k = n  BY <1>1, <1>2, <1>4, <2>1 DEF Late
  <2>2. CASE k \in (i + 1)..Len(history)
    <3>1. k \in DOMAIN history  BY <1>4, <2>2
    <3> QED  BY <1>1, <1>4, <2>2, <3>1 DEF AtEnd, Late
  <2> QED  BY <1>4, <2>1, <2>2
<1>8. \A h \in growing' : h.left # <<>> => h \in growing /\ h # g  BY <1>1
<1>9. \A h \in growing : h # g => h \in growing'  BY <1>1
<1>11. Due'
  <2> SUFFICES ASSUME NEW h \in growing', h.id \notin cut, h.left # <<>>
               PROVE  \E i \in DOMAIN history' : history'[i] = <<"call", h.id>> /\ AtEnd(i)'
    BY <1>1 DEF Due
  <2>1. h \in growing /\ h # g  BY <1>8
  <2>2. g.id \in cut  BY <2>1 DEF OneWrite
  <2>3. PICK i \in DOMAIN history : history[i] = <<"call", h.id>> /\ AtEnd(i)  BY <2>1 DEF Due
  <2> QED  BY <1>4, <1>7, <2>2, <2>3
<1>12. CallsAnswered'
  <2> SUFFICES ASSUME NEW i \in DOMAIN history', history'[i] = CallAt(i)', Id(i)' \notin cut'
               PROVE  Answered(i)' \/ Awaited(i)'
    BY DEF CallsAnswered
  <2>1. i # n  BY <1>2, <1>4 DEF CallAt
  <2>2. /\ i \in DOMAIN history /\ history[i] = CallAt(i) /\ Id(i) = Id(i)'
        /\ ResultAt(i)' = ResultAt(i) /\ Id(i) \notin cut
    BY <1>1, <1>4, <2>1 DEF CallAt, ResultAt, Id
  <2>3. CASE Answered(i)
    <3>1. PICK j \in DOMAIN history : Follows(i, j) /\ history[j] = ResultAt(i)  BY <2>3 DEF Answered
    <3> QED  BY <1>4, <1>5, <2>2, <3>1 DEF Answered
  <2>4. CASE Awaited(i)
    <3>1. PICK h \in growing : h.id = Id(i) /\ h.left # <<>>  BY <2>4 DEF Awaited
    <3>2. CASE h = g
      <4>1. Follows(i, n)'  BY <1>6, <2>2, <2>4 DEF Awaited
      <4>2. history'[n] = ResultAt(i)'  BY <1>4, <2>2, <3>1, <3>2 DEF ResultAt
      <4> QED  BY <1>4, <4>1, <4>2 DEF Answered
    <3>3. CASE h # g
      <4>1. g.id \in cut  BY <2>2, <3>1, <3>3 DEF OneWrite
      <4>2. AtEnd(i)'  BY <1>7, <2>2, <2>4, <4>1 DEF Awaited
      <4> QED  BY <1>9, <2>2, <3>1, <3>3, <4>2 DEF Awaited
    <3> QED  BY <3>2, <3>3
  <2> QED  BY <2>2, <2>3, <2>4 DEF CallsAnswered
<1>13. ResultsFollow'
  <2> SUFFICES ASSUME NEW i \in DOMAIN history', history'[i] = ResultAt(i)', Id(i)' \notin cut'
               PROVE  \E j \in DOMAIN history' : Follows(j, i)' /\ history'[j] = CallAt(i)'
    BY DEF ResultsFollow
  <2>1. CASE i = n
    <3>1. Id(i)' = g.id  BY <1>2, <1>4, <2>1 DEF Id
    <3>2. g.id \notin cut  BY <1>1, <3>1
    <3>3. PICK j \in DOMAIN history : history[j] = <<"call", g.id>> /\ AtEnd(j)  BY <1>0, <3>2 DEF Due
    <3>4. Follows(j, i)' /\ history'[j] = CallAt(i)'  BY <1>4, <1>6, <2>1, <3>1, <3>3 DEF CallAt
    <3> QED  BY <1>4, <3>4
  <2>2. CASE i \in DOMAIN history
    <3>1. history[i] = ResultAt(i) /\ Id(i) = Id(i)' /\ CallAt(i)' = CallAt(i)
      BY <1>4, <2>2 DEF CallAt, ResultAt, Id
    <3>2. PICK j \in DOMAIN history : Follows(j, i) /\ history[j] = CallAt(i)
      BY <1>1, <2>2, <3>1 DEF ResultsFollow
    <3> QED  BY <1>4, <1>5, <2>2, <3>1, <3>2
  <2> QED  BY <1>4, <2>1, <2>2
<1>14. CutsWritten'
  <2> SUFFICES ASSUME NEW i \in DOMAIN history', history'[i] = CallAt(i)', Id(i)' \in cut' \ torn',
                      ~ \E h \in growing' : h.id = Id(i)' /\ h.left # <<>>
               PROVE  \E j \in DOMAIN history' : i < j /\ history'[j] = ResultAt(i)'
    BY DEF CutsWritten
  <2>1. i # n  BY <1>2, <1>4 DEF CallAt
  <2>2. /\ i \in DOMAIN history /\ history[i] = CallAt(i) /\ Id(i) = Id(i)'
        /\ ResultAt(i)' = ResultAt(i) /\ Id(i) \in cut \ torn
    BY <1>1, <1>4, <2>1 DEF CallAt, ResultAt, Id
  <2>3. CASE \E j \in DOMAIN history : i < j /\ history[j] = ResultAt(i)  BY <1>4, <2>2, <2>3
  <2>4. CASE \E h \in growing : h.id = Id(i) /\ h.left # <<>>
    <3>1. g.id = Id(i)  BY <1>9, <2>2, <2>4
    <3>2. history'[n] = ResultAt(i)' /\ i < n /\ n \in DOMAIN history'  BY <1>4, <2>2, <3>1 DEF ResultAt
    <3> QED  BY <3>2
  <2> QED  BY <2>2, <2>3, <2>4 DEF CutsWritten
<1> QED  BY <1>11, <1>12, <1>13, <1>14

\* A write that has nothing left ends.
LEMMA WholeGrowEnd == ASSUME Shaped, Whole, NEW g \in growing, GrowEnd(g) PROVE Whole'
<1> USE DEF Whole, Shaped
<1>1. /\ UNCHANGED <<history, cut, torn>> /\ growing' \subseteq growing
      /\ \A h \in growing : h.left # <<>> => h \in growing'
  BY DEF GrowEnd, ghosts
<1>2. Due' /\ ResultsFollow'
  BY <1>1 DEF Due, ResultsFollow, AtEnd, Follows, Late, CallAt, ResultAt, Id
<1>3. CallsAnswered'
  BY <1>1 DEF CallsAnswered, Answered, Awaited, AtEnd, Follows, Late, CallAt, ResultAt, Id
<1>4. CutsWritten'  BY <1>1 DEF CutsWritten, CallAt, ResultAt, Id
<1> QED  BY <1>1, <1>2, <1>3, <1>4

\* The step is cancelled, in the middle of its write or not: a call whose result is
\* awaited is from now on a call of a step that was cut.
LEMMA WholeCuts ==
    ASSUME Shaped, Whole, UNCHANGED <<history, growing, torn>>, cut \subseteq cut'
    PROVE  Whole'
<1> USE DEF Whole, Shaped
<1>1. \A i, j \in DOMAIN history : Follows(i, j) => Follows(i, j)'  BY StillFollows
<1>2. \A i \in DOMAIN history : AtEnd(i) => AtEnd(i)'
  <2> SUFFICES ASSUME NEW i \in DOMAIN history, NEW k \in (i + 1)..Len(history), Late(history[k])
               PROVE  Late(history[k])'
    BY DEF AtEnd
  <2> QED  BY DEF Late
<1>3. \A i : CallAt(i)' = CallAt(i) /\ ResultAt(i)' = ResultAt(i) /\ Id(i)' = Id(i)
  BY DEF CallAt, ResultAt, Id
<1>5. Due'  BY <1>2 DEF Due
<1>6. CallsAnswered'  BY <1>1, <1>2, <1>3 DEF CallsAnswered, Answered, Awaited
<1>7. ResultsFollow'  BY <1>1, <1>3 DEF ResultsFollow
<1>8. CutsWritten'
  <2> SUFFICES ASSUME NEW i \in DOMAIN history, history[i] = CallAt(i), Id(i) \notin torn
               PROVE  \/ \E j \in DOMAIN history : i < j /\ history[j] = ResultAt(i)
                      \/ \E g \in growing : g.id = Id(i) /\ g.left # <<>>
    BY <1>3 DEF CutsWritten
  <2>1. CASE Id(i) \in cut  BY <2>1 DEF CutsWritten
  <2>2. CASE Id(i) \notin cut  BY <2>2 DEF CallsAnswered, Answered, Awaited, Follows
  <2> QED  BY <2>1, <2>2
<1> QED  BY <1>5, <1>6, <1>7, <1>8

\* The event loop closes on the late writes that are left.
LEMMA WholeCloses ==
    ASSUME Shaped, Whole, AllCut, UNCHANGED <<history, cut>>, growing' = {}, torn' = torn \cup Unfinished
    PROVE  Whole'
<1> USE DEF Whole, Shaped
<1>1. Due'  BY DEF Due
<1>2. CallsAnswered'
  BY DEF CallsAnswered, Answered, Awaited, AllCut, AtEnd, Follows, Late, CallAt, ResultAt, Id
<1>3. ResultsFollow'  BY DEF ResultsFollow, Follows, Late, CallAt, ResultAt, Id
<1>4. CutsWritten'  BY DEF CutsWritten, Unfinished, CallAt, ResultAt, Id
<1> QED  BY <1>1, <1>2, <1>3, <1>4

\* The reminders are removed.  What stands between two messages that stay, and
\* stays, stood between them before.
LEMMA WholeStrips ==
    ASSUME Shaped, Whole, AllCut, history' = Stripped(history), UNCHANGED <<growing, cut, torn>>
    PROVE  Whole'
<1> USE DEF Whole, Shaped
<1>1. history' \in Seq(Message) /\ \E from : KeepsOrder(history, history', from)  BY StrippedKeepsOrder
<1>2. PICK from : KeepsOrder(history, history', from)  BY <1>1
<1>3. /\ DOMAIN history = 1..Len(history) /\ DOMAIN history' = 1..Len(history')
      /\ Len(history) \in Nat /\ Len(history') \in Nat
  BY <1>1
<1>4. \A k \in DOMAIN history' : from[k] \in DOMAIN history /\ history'[k] = history[from[k]]
  BY <1>2 DEF KeepsOrder
<1>5. \A k, l \in DOMAIN history' : k < l <=> from[k] < from[l]  BY <1>2 DEF KeepsOrder
<1>6. \A i \in DOMAIN history : history[i][1] \notin Reminders => \E k \in DOMAIN history' : from[k] = i
  BY <1>2 DEF KeepsOrder
<1>7. ASSUME NEW k \in DOMAIN history', NEW l \in DOMAIN history', Follows(from[k], from[l])
      PROVE  Follows(k, l)'
  <2>1. k < l  BY <1>5, <1>7 DEF Follows
  <2>2. ASSUME NEW m \in (k + 1)..(l - 1) PROVE Late(history[m])'
    <3>1. m \in DOMAIN history' /\ k < m /\ m < l  BY <1>3
    <3>2. from[k] < from[m] /\ from[m] < from[l]  BY <1>5, <3>1
    <3>3. from[k] \in Int /\ from[m] \in Int /\ from[l] \in Int  BY <1>3, <1>4, <3>1
    <3>4. from[m] \in (from[k] + 1)..(from[l] - 1)  BY <3>2, <3>3
    <3>5. Late(history[from[m]])  BY <1>7, <3>4 DEF Follows
    <3> QED  BY <1>4, <3>1, <3>5 DEF Late
  <2> QED  BY <2>1, <2>2 DEF Follows
<1>8. \A k \in DOMAIN history' : /\ Id(k)' = Id(from[k]) /\ CallAt(k)' = CallAt(from[k])
                                 /\ ResultAt(k)' = ResultAt(from[k])
  BY <1>4 DEF CallAt, ResultAt, Id
<1>9. \A i, j \in DOMAIN history : history[j] = ResultAt(i) \/ history[j] = CallAt(i) =>
          \E k \in DOMAIN history' : from[k] = j
  <2> SUFFICES ASSUME NEW i \in DOMAIN history, NEW j \in DOMAIN history,
                      history[j] = ResultAt(i) \/ history[j] = CallAt(i)
               PROVE  history[j][1] \notin Reminders
    BY <1>6
  <2> QED  BY DEF ResultAt, CallAt, Reminders
<1>10. Due'  BY DEF Due, AllCut
<1>11. CallsAnswered'
  <2> SUFFICES ASSUME NEW k \in DOMAIN history', history'[k] = CallAt(k)', Id(k)' \notin cut'
               PROVE  Answered(k)'
    BY DEF CallsAnswered
  <2>1. from[k] \in DOMAIN history /\ history[from[k]] = CallAt(from[k]) /\ Id(from[k]) \notin cut
    BY <1>4, <1>8
  <2>2. Answered(from[k])  BY <2>1 DEF CallsAnswered, Awaited, AllCut
  <2>3. PICK j \in DOMAIN history : Follows(from[k], j) /\ history[j] = ResultAt(from[k])
    BY <2>2 DEF Answered
  <2>4. PICK l \in DOMAIN history' : from[l] = j  BY <1>9, <2>1, <2>3
  <2>5. Follows(k, l)' /\ history'[l] = ResultAt(k)'  BY <1>4, <1>7, <1>8, <2>3, <2>4
  <2> QED  BY <2>5 DEF Answered
<1>12. ResultsFollow'
  <2> SUFFICES ASSUME NEW k \in DOMAIN history', history'[k] = ResultAt(k)', Id(k)' \notin cut'
               PROVE  \E l \in DOMAIN history' : Follows(l, k)' /\ history'[l] = CallAt(k)'
    BY DEF ResultsFollow
  <2>1. from[k] \in DOMAIN history /\ history[from[k]] = ResultAt(from[k]) /\ Id(from[k]) \notin cut
    BY <1>4, <1>8
  <2>2. PICK j \in DOMAIN history : Follows(j, from[k]) /\ history[j] = CallAt(from[k])
    BY <2>1 DEF ResultsFollow
  <2>3. PICK l \in DOMAIN history' : from[l] = j  BY <1>9, <2>1, <2>2
  <2> QED  BY <1>4, <1>7, <1>8, <2>2, <2>3
<1>13. CutsWritten'
  <2> SUFFICES ASSUME NEW k \in DOMAIN history', history'[k] = CallAt(k)', Id(k)' \in cut' \ torn',
                      ~ \E g \in growing' : g.id = Id(k)' /\ g.left # <<>>
               PROVE  \E l \in DOMAIN history' : k < l /\ history'[l] = ResultAt(k)'
    BY DEF CutsWritten
  <2>1. from[k] \in DOMAIN history /\ history[from[k]] = CallAt(from[k]) /\ Id(from[k]) \in cut \ torn
    BY <1>4, <1>8
  <2>2. PICK j \in DOMAIN history : from[k] < j /\ history[j] = ResultAt(from[k])
    BY <1>8, <2>1 DEF CutsWritten
  <2>3. PICK l \in DOMAIN history' : from[l] = j  BY <1>9, <2>1, <2>2
  <2> QED  BY <1>4, <1>5, <1>8, <2>2, <2>3
<1> QED  BY <1>1, <1>10, <1>11, <1>12, <1>13

\* The context is cleared; what a write that is not late has yet to append would
\* have lost its call.
LEMMA WholeClears ==
    ASSUME Shaped, Whole, AllCut, history' = <<>>, UNCHANGED <<growing, cut, torn>>
    PROVE  Whole'
BY DEF Whole, AllCut, Due, CallsAnswered, ResultsFollow, CutsWritten

\* A history to which only late writes are under way is sound, and the other way round.
LEMMA SoundWhenWhole == ASSUME Shaped, Whole, AllCut PROVE Sound(history, cut, torn \cup Owed)
<1> USE DEF Whole, Shaped
<1>1. \A m \in Message : m = <<m[1], m[2]>>  BY DEF Message
<1>2. \A i \in DOMAIN history : history[i] \in Message  OBVIOUS
<1>3. \A i, j : Follows(i, j) => Between(history, cut, i, j)  BY DEF Follows, Between, Late, IsLate
<1>4. SoundCalls(history, cut)
  <2> SUFFICES ASSUME NEW i \in DOMAIN history, history[i][1] = "call", history[i][2] \notin cut
               PROVE  \E j \in DOMAIN history : Between(history, cut, i, j) /\ history[j] = <<"result", history[i][2]>>
    BY DEF SoundCalls
  <2>1. history[i] = CallAt(i) /\ Id(i) = history[i][2]  BY <1>1, <1>2 DEF CallAt, Id
  <2>2. Answered(i)  BY <2>1 DEF CallsAnswered, Awaited, AllCut
  <2> QED  BY <1>3, <2>1, <2>2 DEF Answered, ResultAt
<1>5. SoundResults(history, cut)
  <2> SUFFICES ASSUME NEW i \in DOMAIN history, history[i][1] = "result", history[i][2] \notin cut
               PROVE  \E j \in DOMAIN history : Between(history, cut, j, i) /\ history[j] = <<"call", history[i][2]>>
    BY DEF SoundResults
  <2>1. history[i] = ResultAt(i) /\ Id(i) = history[i][2]  BY <1>1, <1>2 DEF ResultAt, Id
  <2> QED  BY <1>3, <2>1 DEF ResultsFollow, CallAt
<1>6. SoundCuts(history, cut, torn \cup Owed)
  <2> SUFFICES ASSUME NEW i \in DOMAIN history, history[i][1] = "call", history[i][2] \in cut \ (torn \cup Owed)
               PROVE  \E j \in DOMAIN history : i < j /\ history[j] = <<"result", history[i][2]>>
    BY DEF SoundCuts
  <2>1. history[i] = CallAt(i) /\ Id(i) = history[i][2]  BY <1>1, <1>2 DEF CallAt, Id
  <2>2. ~ \E g \in growing : g.id = Id(i) /\ g.left # <<>>  BY <2>1 DEF Owed
  <2> QED  BY <2>1, <2>2 DEF CutsWritten, ResultAt
<1> QED  BY <1>4, <1>5, <1>6 DEF Sound

LEMMA WholeWhenSound ==
    ASSUME AllCut, history' \in Seq(Message), Sound(history', cut, torn \cup Owed), UNCHANGED <<growing, cut, torn>>
    PROVE  Whole'
<1>1. \A i, j : Between(history', cut, i, j) => Follows(i, j)'  BY DEF Follows, Between, Late, IsLate
<1>2. Due'  BY DEF Due, AllCut
<1>3. CallsAnswered'
  <2> SUFFICES ASSUME NEW i \in DOMAIN history', history'[i] = CallAt(i)', Id(i)' \notin cut'
               PROVE  Answered(i)'
    BY DEF CallsAnswered
  <2>1. history'[i][1] = "call" /\ history'[i][2] = Id(i)'  BY DEF CallAt, Id
  <2>2. PICK j \in DOMAIN history' : Between(history', cut, i, j) /\ history'[j] = <<"result", history'[i][2]>>
    BY <2>1 DEF Sound, SoundCalls
  <2> QED  BY <1>1, <2>1, <2>2 DEF Answered, ResultAt
<1>4. ResultsFollow'
  <2> SUFFICES ASSUME NEW i \in DOMAIN history', history'[i] = ResultAt(i)', Id(i)' \notin cut'
               PROVE  \E j \in DOMAIN history' : Follows(j, i)' /\ history'[j] = CallAt(i)'
    BY DEF ResultsFollow
  <2>1. history'[i][1] = "result" /\ history'[i][2] = Id(i)'  BY DEF ResultAt, Id
  <2>2. PICK j \in DOMAIN history' : Between(history', cut, j, i) /\ history'[j] = <<"call", history'[i][2]>>
    BY <2>1 DEF Sound, SoundResults
  <2> QED  BY <1>1, <2>1, <2>2 DEF CallAt
<1>5. CutsWritten'
  <2> SUFFICES ASSUME NEW i \in DOMAIN history', history'[i] = CallAt(i)', Id(i)' \in cut' \ torn',
                      ~ \E g \in growing' : g.id = Id(i)' /\ g.left # <<>>
               PROVE  \E j \in DOMAIN history' : i < j /\ history'[j] = ResultAt(i)'
    BY DEF CutsWritten
  <2>1. history'[i][1] = "call" /\ history'[i][2] = Id(i)'  BY DEF CallAt, Id
  <2>2. Id(i)' \in cut \ (torn \cup Owed)  BY DEF Owed
  <2> QED  BY <2>1, <2>2 DEF Sound, SoundCuts, ResultAt
<1> QED  BY <1>2, <1>3, <1>4, <1>5 DEF Whole

LEMMA WholeBegins == Init => Whole
<1> SUFFICES ASSUME Init PROVE Whole  OBVIOUS
<1>1. history = <<>> /\ growing = {}  BY DEF Init
<1> QED  BY <1>1 DEF Whole, Due, CallsAnswered, ResultsFollow, CutsWritten

LEMMA WholeOfLoop == ASSUME TInv, Shaped, Whole, Loop PROVE Whole'
<1>1. CASE Run \/ Blocked \/ Enter \/ Return \/ Guard \/ Spawn \/ Refuse \/ Injected \/ StepFailed \/ Continues
  <2>1. UNCHANGED <<history, growing, cut, torn>>
    BY <1>1 DEF Run, Blocked, Enter, Return, Guard, Spawn, Refuse, Injected, StepFailed, Continues, context, ghosts
  <2> QED  BY <2>1, WholeQuiet
<1>2. CASE Turn \/ StopHook \/ Inject
  <2>1. AllCut
    <3>1. main # "racing"  BY <1>2 DEF Turn, StopHook, Inject
    <3> QED  BY <3>1, WritesAreLate DEF TInv, StepTypes
  <2>2. UNCHANGED <<growing, cut, torn>>  BY <1>2 DEF Turn, StopHook, Inject, ghosts
  <2>3. CASE Turn \/ StopHook
    <3>1. PICK kind \in {"user", "reason"} : history' = Append(history, <<kind, runs>>)
      BY <2>3 DEF Turn, StopHook, Append1
    <3>2. <<kind, runs>> \in Message  BY RunsAreNumbers DEF Message, Kinds
    <3> QED  BY <2>1, <2>2, <3>1, <3>2, WholeAdds
  <2>4. CASE Inject
    <3>1. queue \in Seq(Steers) /\ queue # <<>>  BY <2>4 DEF Inject, TInv, SteerTypes
    <3>2. Head(queue) \in Steers  BY <3>1
    <3>3. <<"steer", Head(queue)>> \in Message  BY <3>2 DEF Message, Kinds
    <3>4. history' = Append(history, <<"steer", Head(queue)>>)  BY <2>4 DEF Inject, Append1
    <3> QED  BY <2>1, <2>2, <3>3, <3>4, WholeAdds
  <2> QED  BY <1>2, <2>3, <2>4
<1>3. CASE Interrupted \/ Cancel
  <2>1. CancelStep /\ UNCHANGED <<history, torn>>  BY <1>3 DEF Interrupted, Cancel
  <2>2. growing' = growing /\ cut \subseteq cut'  BY <2>1 DEF CancelStep, Shielded
  <2> QED  BY <2>1, <2>2, WholeCuts
<1>4. CASE Resolve
  <2>1. step.at = "done" /\ UNCHANGED <<growing, cut, torn>>
    BY <1>4 DEF Resolve, Nudge, Recover, GivesUp, Continue, MakesUp, Answers, Rejected, Stops, Finished, Again, End, ghosts
  <2>2. AllCut  BY <2>1, WritesAreLate
  <2>3. step.id \in Nat  BY DEF TInv, StepTypes
  <2>4. CASE Nudge \/ Recover \/ Continue
    <3>1. PICK kind \in {"nudge", "gate"} : history' = Append(history, <<kind, step.id>>)
      BY <2>4 DEF Nudge, Recover, Continue, Again, Append1
    <3>2. <<kind, step.id>> \in Message  BY <2>3, <3>1 DEF Message, Kinds
    <3> QED  BY <2>1, <2>2, <3>1, <3>2, WholeAdds
  <2>5. CASE GivesUp \/ MakesUp
    <3>1. history' = history \o <<<<"text", step.id>>>>  BY <2>5 DEF GivesUp, MakesUp, End, Fallback
    <3>2. <<"text", step.id>> \in Message /\ history \in Seq(Message)  BY <2>3 DEF Message, Kinds, Shaped
    <3>3. history' = Append(history, <<"text", step.id>>)  BY <3>1, <3>2
    <3> QED  BY <2>1, <2>2, <3>2, <3>3, WholeAdds
  <2>6. CASE Answers \/ Rejected
    <3>1. history' = history \o <<>>  BY <2>6 DEF Answers, Rejected, End
    <3>2. history' = history  BY <3>1 DEF Shaped
    <3> QED  BY <2>1, <3>2, WholeQuiet
  <2> QED  BY <1>4, <2>4, <2>5, <2>6 DEF Resolve
<1> QED  BY <1>1, <1>2, <1>3, <1>4 DEF Loop

LEMMA WholeOfTask == ASSUME TInv, CutIsPast, Shaped, Whole, StepTask PROVE Whole'
<1>1. CASE Calls \/ ResultsRefused \/ Grown \/ ThinkOnly \/ Broken \/ Overflow \/ CompactTool
  <2>1. UNCHANGED <<history, growing, cut, torn>>
    BY <1>1 DEF Calls, ResultsRefused, Grown, ThinkOnly, Broken, Overflow, CompactTool, context, ghosts
  <2> QED  BY <2>1, WholeQuiet
<1>2. CASE Asks
  <2>1. step.at = "preparing" /\ history' = Stripped(history) /\ UNCHANGED <<growing, cut, torn>>
    BY <1>2 DEF Asks, ghosts
  <2>2. AllCut  BY <2>1, WritesAreLate
  <2> QED  BY <2>1, <2>2, WholeStrips
<1>3. CASE Replies \/ ToolsDone
  <2>1. step.at \in {"asking", "calling"} /\ step.id \in Nat
    BY <1>3 DEF Replies, ToolsDone, Asking, TInv, StepTypes
  <2>2. AllCut /\ step.id \notin cut  BY <2>1, WritesAreLate DEF CutIsPast
  <2>3. PICK id \in Nat : id = step.id  BY <2>1
  <2>4. PICK reply, left, out :
            /\ (reply \in {"text", "empty"} /\ left = <<>>) \/ (reply = "call" /\ left = <<<<"result", id>>>>)
            /\ Grow(reply, left, out)
    <3>1. CASE Replies
      <4>1. PICK kind \in {"text", "empty"} : Grow(kind, <<>>, kind)  BY <3>1 DEF Replies
      <4> QED  BY <4>1
    <3>2. CASE ToolsDone
      <4>1. PICK out : Grow("call", <<<<"result", id>>>>, out)  BY <2>3, <3>2 DEF ToolsDone, Results
      <4> QED  BY <4>1
    <3> QED  BY <1>3, <3>1, <3>2
  <2>5. /\ history' = Append(history, <<reply, id>>)
        /\ growing' = growing \cup {[id |-> id, left |-> left]}
        /\ UNCHANGED <<cut, torn>>
    BY <2>3, <2>4 DEF Grow, Append1, ghosts
  <2>6. AllCut /\ id \notin cut  BY <2>2, <2>3
  <2> QED  BY <2>4, <2>5, <2>6, WholeGrow
<1> QED  BY <1>1, <1>2, <1>3 DEF StepTask

LEMMA WholeOfCompaction ==
    ASSUME TInv, Shaped, Whole, Carries, OnlyLate, Compaction, ~wiped'
    PROVE  Whole'
<1>1. CASE Prepares \/ Summed \/ Retries \/ Changed \/ CompactFails
  <2>1. UNCHANGED <<history, growing, cut, torn>>
    BY <1>1 DEF Prepares, Summed, Retries, Changed, CompactFails, ghosts
  <2> QED  BY <2>1, WholeQuiet
<1>2. CASE Clears
  <2>1. comp.at # "no" /\ history' = <<>> /\ UNCHANGED <<growing, cut, torn>>  BY <1>2 DEF Clears, ghosts
  <2> QED  BY <2>1, CompactsLate, WholeClears
<1>3. CASE Rebuilt
  <2>1. /\ comp.at = "cleared" /\ ~comp.live /\ history' = history \o comp.messages
        /\ UNCHANGED <<growing, cut, torn>>
    BY <1>3 DEF Rebuilt
  <2>2. AllCut  BY <2>1, CompactsLate
  <2>3. history \in Seq(Message) /\ comp.messages \in Seq(Message) /\ Sound(comp.messages, cut, torn \cup Owed)
    BY <2>1 DEF Shaped, CarriesList, Carries, Holding
  <2>4. \A k \in DOMAIN history : history[k][1] # "call" /\ (history[k][1] = "result" => history[k][2] \in cut)
    BY <2>1 DEF OnlyLate, Late
  <2>5. history' \in Seq(Message) /\ Sound(history', cut, torn \cup Owed)
    BY <2>1, <2>3, <2>4, PrefixIsSound
  <2> QED  BY <2>1, <2>2, <2>5, WholeWhenSound
<1> QED  BY <1>1, <1>2, <1>3 DEF Compaction

LEMMA WholeStays ==
    ASSUME TInv, CutIsPast, Shaped, Whole, Carries, OnlyLate, [Next]_vars, ~wiped'
    PROVE  Whole'
<1>1. CASE Writes
  <2>1. PICK g \in growing : GrowOn(g) \/ GrowEnd(g)  BY <1>1 DEF Writes
  <2> QED  BY <2>1, WholeGrowOn, WholeGrowEnd DEF TInv, WriteTypes
<1>2. CASE LoopCloses
  <2>1. AllCut
    <3>1. main # "racing"  BY <1>2 DEF LoopCloses
    <3> QED  BY <3>1, WritesAreLate DEF TInv, StepTypes
  <2> QED  BY <1>2, <2>1, WholeCloses DEF LoopCloses
<1>3. CASE Pushes \/ UNCHANGED vars
  <2>1. UNCHANGED <<history, growing, cut, torn>>
    BY <1>3 DEF Pushes, Check, Push, vars, context, ghosts
  <2> QED  BY <2>1, WholeQuiet
<1> QED  BY <1>1, <1>2, <1>3, WholeOfLoop, WholeOfTask, WholeOfCompaction DEF Next

----------------------------------------------------------------------------
(* What a compaction in flight carries, and what is in the context meanwhile.    *)

\* Only a cancellation of the step cuts a step, or loses what a compaction carries.
LEMMA OnlyCancelCuts ==
    ASSUME [Next]_vars
    PROVE  ((Interrupted \/ Cancel) /\ CancelStep) \/ UNCHANGED <<cut, lost>>
<1>1. CASE Interrupted \/ Cancel  BY <1>1 DEF Interrupted, Cancel
<1>2. CASE \/ Run \/ Blocked \/ Turn \/ Enter \/ StopHook \/ Return \/ Guard \/ Spawn \/ Inject \/ Refuse \/ Injected
           \/ StepFailed \/ Continues \/ Resolve
  BY <1>2 DEF Run, Blocked, Turn, Enter, StopHook, Return, Guard, Spawn, Inject, Refuse, Injected, StepFailed,
              Continues, Resolve, Nudge, Recover, GivesUp, Continue, MakesUp, Answers, Rejected, Again, End, ghosts
<1>3. CASE StepTask
  BY <1>3 DEF StepTask, Asks, Calls, Asking, Replies, ToolsDone, ResultsRefused, Grown, ThinkOnly, Broken, Overflow,
              CompactTool, Grow, ghosts
<1>4. CASE Writes \/ Pushes \/ LoopCloses \/ UNCHANGED vars
  BY <1>4 DEF Writes, GrowOn, GrowEnd, Pushes, Check, Push, LoopCloses, vars, ghosts
<1>5. CASE Compaction
  BY <1>5 DEF Compaction, Prepares, Summed, Retries, Clears, Changed, Rebuilt, CompactFails, ghosts
<1> QED  BY <1>1, <1>2, <1>3, <1>4, <1>5 DEF Next, Loop

\* Once wiped, always wiped.
LEMMA WipedStays == ASSUME [Next]_vars, wiped PROVE wiped'
<1>1. CASE \/ Run \/ Blocked \/ Turn \/ Enter \/ StopHook \/ Return \/ Guard \/ Spawn \/ Inject \/ Refuse \/ Injected
           \/ StepFailed \/ Continues \/ Resolve \/ Interrupted \/ Cancel
  BY <1>1 DEF Run, Blocked, Turn, Enter, StopHook, Return, Guard, Spawn, Inject, Refuse, Injected, StepFailed,
              Continues, Resolve, Nudge, Recover, GivesUp, Continue, MakesUp, Answers, Rejected, Again, End,
              Interrupted, Cancel, CancelStep, ghosts
<1>2. CASE StepTask
  BY <1>2 DEF StepTask, Asks, Calls, Asking, Replies, ToolsDone, ResultsRefused, Grown, ThinkOnly, Broken, Overflow,
              CompactTool, Grow, ghosts
<1>3. CASE Writes \/ Pushes \/ LoopCloses \/ UNCHANGED vars
  BY <1>3 DEF Writes, GrowOn, GrowEnd, Pushes, Check, Push, LoopCloses, vars, ghosts
<1>4. CASE Compaction
  BY <1>4 DEF Compaction, Prepares, Summed, Retries, Clears, Changed, Rebuilt, CompactFails, ghosts
<1> QED  BY <1>1, <1>2, <1>3, <1>4 DEF Next, Loop

\* A call whose result is owed is torn when the result comes during a compaction.
LEMMA OwedStays ==
    ASSUME TInv, [Next]_vars, comp.at \in {"exporting", "cleared"}, comp' = comp
    PROVE  torn \cup Owed \subseteq torn' \cup Owed'
<1>1. CASE Writes
  <2>1. PICK g \in growing : GrowOn(g) \/ GrowEnd(g)  BY <1>1 DEF Writes
  <2>2. CASE GrowOn(g)
    <3>1. /\ torn' = torn \cup {g.id}
          /\ \A h \in growing : h # g => h \in growing'
      BY <2>2 DEF GrowOn
    <3> QED  BY <3>1 DEF Owed
  <2>3. CASE GrowEnd(g)
    <3>1. torn' = torn /\ g.left = <<>> /\ growing' = growing \ {g}  BY <2>3 DEF GrowEnd, ghosts
    <3> QED  BY <3>1 DEF Owed
  <2> QED  BY <2>1, <2>2, <2>3
<1>2. CASE LoopCloses  BY <1>2 DEF LoopCloses, Owed, Unfinished
<1>3. CASE ~Writes /\ ~LoopCloses
  <2>1. torn' = torn /\ growing \subseteq growing'
    <3>1. CASE \/ Run \/ Blocked \/ Turn \/ Enter \/ StopHook \/ Return \/ Guard \/ Spawn \/ Inject \/ Refuse
               \/ Injected \/ StepFailed \/ Continues \/ Resolve \/ Interrupted \/ Cancel
      BY <3>1 DEF Run, Blocked, Turn, Enter, StopHook, Return, Guard, Spawn, Inject, Refuse, Injected, StepFailed,
                  Continues, Resolve, Nudge, Recover, GivesUp, Continue, MakesUp, Answers, Rejected, Again, End,
                  Interrupted, Cancel, CancelStep, Shielded, context, ghosts
    <3>2. CASE StepTask
      BY <3>2 DEF StepTask, Asks, Calls, Asking, Replies, ToolsDone, ResultsRefused, Grown, ThinkOnly, Broken,
                  Overflow, CompactTool, Grow, context, ghosts
    <3>3. CASE Pushes \/ UNCHANGED vars  BY <3>3 DEF Pushes, Check, Push, vars, context, ghosts
    <3>4. CASE Compaction
      BY <3>4 DEF Compaction, Prepares, Summed, Retries, Clears, Changed, Rebuilt, CompactFails, ghosts
    <3> QED  BY <1>3, <3>1, <3>2, <3>3, <3>4 DEF Next, Loop
  <2> QED  BY <2>1 DEF Owed
<1> QED  BY <1>1, <1>2, <1>3

LEMMA SoundMore == ASSUME NEW s, NEW c, NEW x, NEW y, Sound(s, c, x), x \subseteq y PROVE Sound(s, c, y)
BY DEF Sound, SoundCuts

LEMMA CarriesStays ==
    ASSUME TInv, Shaped, Carries, Whole, Headed(history), Grounded, HeardUser, [Next]_vars
    PROVE  Carries'
<1>0. CompShape  BY DEF TInv, CompTypes
<1>1. CASE comp' = comp
  <2> SUFFICES ASSUME Holding
               PROVE  /\ Sound(comp.messages, cut', torn' \cup Owed')
                      /\ Headed(comp.messages) /\ Has(comp.messages, Firm)
                      /\ lost' \/ Has(comp.messages, Roots)
    BY <1>1 DEF Carries, Holding
  <2>1. UNCHANGED <<cut, lost>>
    <3>1. ~CancelStep  BY <1>1 DEF CancelStep, NoComp, Holding
    <3> QED  BY <3>1, OnlyCancelCuts
  <2>2. torn \cup Owed \subseteq torn' \cup Owed'  BY <1>1, OwedStays DEF Holding
  <2>3. Sound(comp.messages, cut, torn' \cup Owed')  BY <2>2, SoundMore DEF Carries
  <2> QED  BY <2>1, <2>3 DEF Carries
<1>2. CASE comp'.at \in {"no", "preparing"}  BY <1>2 DEF Carries, Holding
<1>3. CASE Prepares \/ Summed
  <2>1. comp.at \in {"preparing", "summing"} /\ UNCHANGED <<history, growing, cut, torn, lost>>
    BY <1>3 DEF Prepares, Summed, ghosts
  <2>2. AtWork /\ main # "injecting"  BY <2>1, SomeoneWaits DEF AtWork
  <2>3. Has(history, Firm)  BY <2>1, <2>2 DEF Grounded
  <2>4. lost \/ Has(history, Roots)  BY <2>1, <2>2 DEF HeardUser, Begun
  <2>5. AllCut  BY <2>1, CompactsLate
  <2>6. Sound(history, cut, torn \cup Owed)  BY <2>5, SoundWhenWhole
  <2>7. Owed' = Owed  BY <2>1 DEF Owed
  <2>8. CASE Prepares
    <3>1. CASE comp'.at = "summing" \/ comp'.live  BY <3>1 DEF Carries, Holding
    <3>2. CASE comp'.at = "exporting" /\ comp'.messages = history
      BY <2>1, <2>3, <2>4, <2>6, <2>7, <3>2 DEF Carries
    <3> QED  BY <1>0, <2>8, <3>1, <3>2, Prepared
  <2>9. CASE Summed
    <3>1. comp.at = "summing" /\ comp.before = history /\ comp'.messages = comp.messages
      BY <1>0, <2>9 DEF Summed, CompShape
    <3>2. PICK depth \in Depths, id \in Nat :
              /\ Enough(history, depth) /\ Readable(history)
              /\ comp.messages = <<<<"summary", id>>>> \o Preserved(history, depth)
      BY <3>1 DEF Shaped, Splits
    <3>3. depth \in Nat /\ history \in Seq(Message)  BY NumbersAssumption DEF Shaped
    <3> DEFINE kept == Preserved(history, depth)  head == <<<<"summary", id>>>>
    <3>4. kept \in Seq(Message)  BY <3>2, <3>3, PreservedIsSeq
    <3>5. history # <<>>  BY <2>3, <3>3 DEF Has
    <3>6. history[1][1] # "call"  BY <3>3, <3>5, HeadedFirst
    <3>7. Sound(kept, cut, torn \cup Owed)  BY <2>6, <3>2, <3>3, <3>6, PreservedIsSound
    <3>8. <<"summary", id>> \in Message  BY DEF Message, Kinds
    <3>9. head \in Seq(Message) /\ DOMAIN head = {1} /\ head[1][1] = "summary"  BY <3>8
    <3> HIDE DEF kept, head
    <3>10. Sound(head \o kept, cut, torn \cup Owed)
      <4>1. \A k \in DOMAIN head : head[k][1] # "call" /\ (head[k][1] = "result" => head[k][2] \in cut)  BY <3>9
      <4> QED  BY <3>4, <3>7, <3>9, <4>1, PrefixIsSound
    <3>11. Has(head, Firm) /\ Has(head, Roots)  BY <3>9 DEF Has, Firm, Kinds, Reminders, Roots
    <3>12. Headed(head \o kept)
      <4>1. \A k \in DOMAIN head : head[k][1] # "call"  BY <3>9
      <4> QED  BY <3>4, <3>9, <3>11, <4>1, HeadedJoined
    <3>13. Has(head \o kept, Firm) /\ Has(head \o kept, Roots)  BY <3>4, <3>9, <3>11, HasJoined
    <3>14. comp'.messages = head \o kept  BY <3>1, <3>2 DEF head, kept
    <3> QED  BY <2>1, <2>7, <3>10, <3>12, <3>13, <3>14 DEF Carries
  <2> QED  BY <1>3, <2>8, <2>9
<1>4. CASE Clears
  <2>1. /\ comp.at = "exporting" /\ comp'.messages = comp.messages /\ comp'.live = comp.live
        /\ UNCHANGED <<growing, cut, torn, lost>>
    BY <1>0, <1>4 DEF Clears, CompShape, ghosts
  <2>2. Owed' = Owed /\ (Holding' => Holding)  BY <2>1 DEF Owed, Holding
  <2> QED  BY <2>1, <2>2 DEF Carries
<1> QED  BY <1>1, <1>2, <1>3, <1>4, CompMoves

LEMMA OnlyLateStays == ASSUME TInv, Shaped, OnlyLate, [Next]_vars PROVE OnlyLate'
<1> SUFFICES ASSUME comp'.at = "cleared" PROVE \A k \in DOMAIN history' : Late(history[k])'
  BY DEF OnlyLate
<1>0. CompShape  BY DEF TInv, CompTypes
<1>1. CASE comp' = comp
  <2>1. cut' = cut
    <3>1. ~CancelStep  BY DEF CancelStep, NoComp
    <3> QED  BY <3>1, OnlyCancelCuts
  <2>2. \A k \in DOMAIN history : Late(history[k])  BY <1>1 DEF OnlyLate
  <2>3. CASE history' = history  BY <2>1, <2>2, <2>3 DEF Late
  <2>4. CASE Appends
    <3>1. PICK m \in Message : history' = Append(history, m) /\ m[1] = "result" /\ m[2] \in cut
      BY <1>1, <2>4 DEF Appends
    <3>2. /\ Len(history) \in Nat /\ DOMAIN history = 1..Len(history)
          /\ DOMAIN history' = 1..(Len(history) + 1) /\ history'[Len(history) + 1] = m
          /\ \A i \in DOMAIN history : history'[i] = history[i]
      BY <3>1, Appended DEF Shaped
    <3>3. ASSUME NEW k \in DOMAIN history' PROVE Late(history[k])'
      <4>1. CASE k \in DOMAIN history  BY <2>1, <2>2, <3>2, <4>1 DEF Late
      <4>2. CASE k = Len(history) + 1  BY <2>1, <3>1, <3>2, <4>2 DEF Late
      <4> QED  BY <3>2, <4>1, <4>2
    <3> QED  BY <3>3
  <2>5. ~Strips /\ ~Clears /\ ~Rebuilt  BY <1>1 DEF Strips, Clears, Rebuilt, NoComp
  <2> QED  BY <2>3, <2>4, <2>5, Moves DEF Moved
<1>2. CASE Prepares  BY <1>0, <1>2, Prepared
<1>3. CASE Summed  BY <1>0, <1>3 DEF Summed, CompShape
<1>4. CASE Clears
  <2>1. history' = <<>>  BY <1>4 DEF Clears
  <2> QED  BY <2>1
<1> QED  BY <1>1, <1>2, <1>3, <1>4, CompMoves

\* What is in the history stays there while it grows or is stripped of reminders.
LEMMA HasStays ==
    ASSUME Shaped, NEW kinds, kinds \cap Reminders = {}, Has(history, kinds),
           history' = history \/ Appends \/ Strips
    PROVE  Has(history', kinds)
<1>1. CASE Appends
  <2>1. PICK m \in Message : history' = Append(history, m)  BY <1>1 DEF Appends
  <2> QED  BY <2>1, HasAppended DEF Shaped
<1>2. CASE Strips  BY <1>2, HasStripped DEF Strips, Shaped
<1> QED  BY <1>1, <1>2

LEMMA HeadedStays ==
    ASSUME TInv, Shaped, Headed(history), Carries, OnlyLate, Grounded, [Next]_vars, ~wiped'
    PROVE  Headed(history')
<1>1. CASE history' = history  BY <1>1
<1>2. CASE Appends
  <2>1. PICK m \in Message : /\ history' = Append(history, m)
                             /\ m[1] = "call" => main = "racing"
                             /\ comp.at # "no" => m[1] = "result"
    BY <1>2 DEF Appends
  <2>2. m[1] = "call" => Has(history, Firm)  BY <2>1 DEF Grounded, AtWork
  <2> QED  BY <2>1, <2>2, HeadedAppended DEF Shaped
<1>3. CASE Strips  BY <1>3, HeadedStripped DEF Strips, Shaped
<1>4. CASE Clears
  <2>1. history' = <<>>  BY <1>4 DEF Clears
  <2> QED  BY <2>1 DEF Headed
<1>5. CASE Rebuilt
  <2>1. comp.at = "cleared" /\ ~comp.live /\ history' = history \o comp.messages  BY <1>5 DEF Rebuilt
  <2>2. history \in Seq(Message) /\ comp.messages \in Seq(Message) /\ Headed(comp.messages)
    BY <2>1 DEF Shaped, CarriesList, Carries, Holding
  <2>3. \A k \in DOMAIN history : history[k][1] # "call"  BY <2>1 DEF OnlyLate, Late
  <2> QED  BY <2>1, <2>2, <2>3, HeadedJoined
<1> QED  BY <1>1, <1>2, <1>3, <1>4, <1>5, Moves DEF Moved

\* A compaction puts back what it took.
LEMMA HasRebuilt ==
    ASSUME Shaped, Carries, Rebuilt, ~wiped'
    PROVE  Has(history', Firm) /\ (lost \/ Has(history', Roots))
<1>1. comp.at = "cleared" /\ ~comp.live /\ history' = history \o comp.messages  BY DEF Rebuilt
<1>2. /\ history \in Seq(Message) /\ comp.messages \in Seq(Message) /\ Has(comp.messages, Firm)
      /\ lost \/ Has(comp.messages, Roots)
  BY <1>1 DEF Shaped, CarriesList, Carries, Holding
<1> QED  BY <1>1, <1>2, HasJoined

\* Outside of a turn nothing is in flight, and a wake-up means a steer.
LEMMA Pausing == ASSUME TInv, ~AtWork PROVE comp.at = "no" /\ step.at = "none"
BY SomeoneWaits DEF AtWork, TInv, StepTypes

LEMMA WakeMeansStays == ASSUME TInv, WakeMeans, [Next]_vars PROVE WakeMeans'
<1>0. queue \in Seq(Steers)  BY DEF TInv, SteerTypes
<1>1. CASE Pushes
  <2>1. PICK s \in Steers : Check(s) \/ Push(s)  BY <1>1 DEF Pushes
  <2>2. CASE queue' = queue /\ wake' = wake /\ main' = main  BY <2>2 DEF WakeMeans
  <2>3. CASE queue' = Append(queue, s)
    <3>1. queue' # <<>>  BY <1>0, <2>3
    <3> QED  BY <3>1 DEF WakeMeans
  <2> QED  BY <2>1, <2>2, <2>3 DEF Check, Push, loop
<1>2. CASE \/ Run \/ Blocked \/ Turn \/ Enter \/ StopHook \/ Return \/ Guard \/ Inject \/ Refuse \/ Injected
           \/ StepFailed \/ Continues \/ Resolve \/ Interrupted \/ Cancel
  <2>1. main' # "racing"
    BY <1>2 DEF Run, Blocked, Turn, Enter, StopHook, Return, Guard, Inject, Refuse, Injected, StepFailed, Continues,
                Resolve, Nudge, Recover, GivesUp, Continue, MakesUp, Answers, Rejected, Again, End, Interrupted,
                Cancel, Fail, Leave, loop
  <2> QED  BY <2>1 DEF WakeMeans
<1>3. CASE Spawn  BY <1>3 DEF Spawn, WakeMeans
<1>4. CASE StepTask \/ Writes \/ LoopCloses \/ UNCHANGED vars
  <2>1. UNCHANGED <<main, queue, wake>>
    BY <1>4 DEF StepTask, Asks, Calls, Asking, Replies, ToolsDone, ResultsRefused, Grown, ThinkOnly, Broken,
                Overflow, CompactTool, Grow, Writes, GrowOn, GrowEnd, LoopCloses, vars, loop, steers
  <2> QED  BY <2>1 DEF WakeMeans
<1>5. CASE Compaction
  <2>1. main' \in {main, "starting", "idle"} /\ UNCHANGED <<queue, wake>>
    BY <1>5 DEF Compaction, Prepares, Summed, Retries, Clears, Changed, Rebuilt, CompactFails, Fail, Leave, loop, steers
  <2> QED  BY <2>1 DEF WakeMeans
<1> QED  BY <1>1, <1>2, <1>3, <1>4, <1>5 DEF Next, Loop

LEMMA GroundedStays ==
    ASSUME TInv, Shaped, Carries, Grounded, WakeMeans, [Next]_vars, ~wiped'
    PROVE  Grounded'
<1> SUFFICES ASSUME AtWork', comp'.at # "cleared", ~(main' = "injecting" /\ queue' # <<>>)
             PROVE  Has(history', Firm)
  BY DEF Grounded
<1>0. Firm \cap Reminders = {}  BY DEF Firm
<1>1. CASE Rebuilt  BY <1>1, HasRebuilt
<1>2. CASE Turn \/ Inject
  <2>1. \E m \in Message : history' = Append(history, m) /\ m[1] \in {"user", "steer"}
    <3>1. CASE Turn
      <4>1. <<"user", runs>> \in Message  BY RunsAreNumbers DEF Message, Kinds
      <4> QED  BY <3>1, <4>1 DEF Turn, Append1
    <3>2. CASE Inject
      <4>1. queue \in Seq(Steers) /\ queue # <<>>  BY <3>2 DEF Inject, TInv, SteerTypes
      <4>2. Head(queue) \in Steers  BY <4>1
      <4>3. <<"steer", Head(queue)>> \in Message  BY <4>2 DEF Message, Kinds
      <4> QED  BY <3>2, <4>3 DEF Inject, Append1
    <3> QED  BY <1>2, <3>1, <3>2
  <2>2. PICK m \in Message : history' = Append(history, m) /\ m[1] \in {"user", "steer"}  BY <2>1
  <2>3. m[1] \in Firm  BY <2>2 DEF Firm, Kinds, Reminders
  <2> QED  BY <2>2, <2>3, HasAppended DEF Shaped
<1>3. CASE ~Rebuilt /\ Has(history, Firm)
  <2>1. ~Clears  BY DEF Clears, TInv, CompTypes, CompShape
  <2> QED  BY <1>0, <1>3, <2>1, Moves, HasStays DEF Moved
<1>4. CASE ~Rebuilt /\ ~Turn /\ ~Inject /\ ~Has(history, Firm)
  <2>1. AtWork /\ comp.at # "cleared" => main = "injecting" /\ queue # <<>>  BY <1>4 DEF Grounded
  <2>2. CASE Run \/ Blocked \/ Return \/ Refuse \/ StepFailed \/ Cancel
    BY <2>2 DEF Run, Blocked, Return, Refuse, StepFailed, Cancel, Fail, Leave, AtWork
  <2>3. CASE Enter \/ StopHook \/ Guard \/ Spawn \/ Injected \/ Continues \/ Resolve
    <3>1. /\ main \in {"entering", "ended", "ready", "starting", "racing", "injecting"}
          /\ main = "injecting" => queue = <<>>
          /\ main = "racing" => step.at = "done"
      BY <2>3 DEF Enter, StopHook, Guard, Spawn, Injected, Continues, Resolve, Nudge, Recover, GivesUp, Continue,
                  MakesUp, Answers, Rejected, Stops, Finished
    <3>2. comp.at = "no"  BY <3>1, NoneInFlight DEF TInv, StepTypes
    <3> QED  BY <2>1, <3>1, <3>2 DEF AtWork
  <2>4. CASE Interrupted
    <3>1. main = "racing" /\ wake /\ main' = "injecting" /\ queue' = queue  BY <2>4 DEF Interrupted, steers
    <3> QED  BY <3>1 DEF WakeMeans
  <2>5. CASE StepTask /\ ~Interrupted /\ ~Cancel
    <3>1. main = "racing"
      BY <2>5 DEF StepTask, Asks, Calls, Asking, Replies, ToolsDone, ResultsRefused, Grown, ThinkOnly, Broken,
                  Overflow, CompactTool
    <3>2. comp.at = "cleared"  BY <2>1, <3>1 DEF AtWork
    <3> QED  BY <2>5, <3>2, InFlight
  <2>6. CASE Writes \/ Pushes \/ LoopCloses \/ UNCHANGED vars
    <3>1. UNCHANGED <<main, comp>> /\ (queue # <<>> => queue' # <<>>)
      <4>1. queue \in Seq(Steers)  BY DEF TInv, SteerTypes
      <4>2. CASE Pushes  BY <4>1, <4>2 DEF Pushes, Check, Push, loop, context
      <4>3. CASE Writes \/ LoopCloses \/ UNCHANGED vars
        BY <4>3 DEF Writes, GrowOn, GrowEnd, LoopCloses, vars, loop, context, steers
      <4> QED  BY <2>6, <4>2, <4>3
    <3> QED  BY <2>1, <3>1 DEF AtWork
  <2>7. CASE Compaction
    <3>1. comp.at \in {"preparing", "summing", "exporting"}
      BY <1>4, <2>7 DEF Compaction, Prepares, Summed, Retries, Clears, Changed, CompactFails, MayFail
    <3>2. main \in {"compacting", "racing"}  BY <3>1, SomeoneWaits
    <3> QED  BY <2>1, <3>1, <3>2 DEF AtWork
  <2> QED  BY <1>4, <2>2, <2>3, <2>4, <2>5, <2>6, <2>7 DEF Next, Loop
<1> QED  BY <1>1, <1>2, <1>3, <1>4

\* A turn begins with the user.
LEMMA BegunBefore == ASSUME TInv, [Next]_vars, ~Turn, Begun' PROVE Begun
<1> SUFFICES ASSUME ~AtWork PROVE Begun  BY DEF Begun
<1>0. comp.at = "no" /\ step.at = "none" /\ main \in {"idle", "opening"}  BY Pausing DEF AtWork
<1>1. CASE Run \/ Blocked
  BY <1>1 DEF Run, Blocked, Leave, Begun, AtWork
<1>2. CASE Cancel
  <2>1. main' = "idle" /\ step'.id = step.id
    BY <1>2 DEF Cancel, CancelStep, NoStep, Leave, TInv, StepTypes
  <2> QED  BY <2>1 DEF Begun, AtWork
<1>3. CASE Writes \/ Pushes \/ LoopCloses \/ UNCHANGED vars
  BY <1>3 DEF Writes, GrowOn, GrowEnd, Pushes, Check, Push, LoopCloses, vars, loop, Begun, AtWork
<1>4. CASE Compaction
  BY <1>0, <1>4 DEF Compaction, Prepares, Summed, Retries, Clears, Changed, Rebuilt, CompactFails, MayFail
<1>5. CASE StepTask
  BY <1>0, <1>5 DEF StepTask, Asks, Calls, Asking, Replies, ToolsDone, ResultsRefused, Grown, ThinkOnly, Broken,
                    Overflow, CompactTool
<1>6. CASE Enter \/ StopHook \/ Return \/ Guard \/ Spawn \/ Interrupted \/ Inject \/ Refuse \/ Injected \/ StepFailed
           \/ Continues \/ Resolve
  BY <1>0, <1>6 DEF Enter, StopHook, Return, Guard, Spawn, Interrupted, Inject, Refuse, Injected, StepFailed,
                    Continues, Resolve, Nudge, Recover, GivesUp, Continue, MakesUp, Answers, Rejected, Stops, Finished
<1> QED  BY <1>1, <1>2, <1>3, <1>4, <1>5, <1>6 DEF Next, Loop

\* What was cleared stays so until it is rebuilt or lost.
LEMMA ClearedUntil ==
    ASSUME TInv, [Next]_vars, comp.at = "cleared", comp'.at # "cleared"
    PROVE  Rebuilt \/ lost'
<1>1. CASE Loop \/ StepTask
  <2>1. CancelStep  BY <1>1, InFlight DEF Interrupted, Cancel
  <2> QED  BY <2>1 DEF CancelStep
<1>2. CASE Compaction
  BY <1>2 DEF Compaction, Prepares, Summed, Retries, Clears, Changed, CompactFails, MayFail
<1>3. CASE Writes \/ Pushes \/ LoopCloses \/ UNCHANGED vars
  BY <1>3 DEF Writes, GrowOn, GrowEnd, Pushes, Check, Push, LoopCloses, vars, context
<1> QED  BY <1>1, <1>2, <1>3 DEF Next

LEMMA HeardUserStays ==
    ASSUME TInv, Shaped, Carries, HeardUser, [Next]_vars, ~wiped'
    PROVE  HeardUser'
<1> SUFFICES ASSUME Begun', comp'.at # "cleared", ~lost' PROVE Has(history', Roots)
  BY DEF HeardUser
<1>0. Roots \cap Reminders = {}  BY DEF Roots, Reminders
<1>1. ~lost
  <2>1. CASE CancelStep  BY <2>1 DEF CancelStep
  <2> QED  BY <2>1, OnlyCancelCuts
<1>2. CASE Rebuilt  BY <1>1, <1>2, HasRebuilt
<1>3. CASE Turn
  <2>1. <<"user", runs>> \in Message  BY RunsAreNumbers DEF Message, Kinds
  <2>2. history' = Append(history, <<"user", runs>>)  BY <1>3 DEF Turn, Append1
  <2> QED  BY <2>1, <2>2, HasAppended DEF Shaped, Roots
<1>4. CASE ~Rebuilt /\ ~Turn
  <2>1. Begun  BY <1>4, BegunBefore
  <2>2. comp.at # "cleared"  BY <1>4, ClearedUntil
  <2>3. Has(history, Roots)  BY <1>1, <2>1, <2>2 DEF HeardUser
  <2>4. ~Clears  BY DEF Clears, TInv, CompTypes, CompShape
  <2> QED  BY <1>0, <1>4, <2>3, <2>4, Moves, HasStays DEF Moved
<1> QED  BY <1>2, <1>3, <1>4

\* All of it stays, as long as nothing was wiped.
LEMMA RemainsStays ==
    ASSUME TInv, CutIsPast, Shaped, WakeMeans, wiped \/ Remains, [Next]_vars
    PROVE  wiped' \/ Remains'
<1> SUFFICES ASSUME ~wiped' PROVE Remains'  OBVIOUS
<1>1. Remains  BY WipedStays
<1> USE DEF Remains
<1>2. Whole'  BY <1>1, WholeStays
<1>3. Headed(history')  BY <1>1, HeadedStays
<1>4. Carries'  BY <1>1, CarriesStays
<1>5. OnlyLate'  BY <1>1, OnlyLateStays
<1>6. Grounded'  BY <1>1, GroundedStays
<1>7. HeardUser'  BY <1>1, HeardUserStays
<1> QED  BY <1>2, <1>3, <1>4, <1>5, <1>6, <1>7

\* The writes that are not cut are those of calls still awaited, so that what the
\* steps wrote is whole whenever nothing of it is under way.
LEMMA WholeMeansWhole == wiped \/ Whole => StepsAreWhole
<1> SUFFICES ASSUME ~wiped, Whole, NEW i \in DOMAIN history
             PROVE  LET call == <<"call", Id(i)>>  result == <<"result", Id(i)>>
                    IN  /\ history[i] = call /\ Id(i) \notin cut \cup Unfinished =>
                               \E j \in DOMAIN history : Follows(i, j) /\ history[j] = result
                        /\ history[i] = result /\ ~Late(history[i]) =>
                               \E j \in DOMAIN history : Follows(j, i) /\ history[j] = call
                        /\ history[i] = call /\ Id(i) \in cut \ (torn \cup Unfinished) =>
                               \E j \in DOMAIN history : i < j /\ history[j] = result
  BY DEF StepsAreWhole
<1>1. ASSUME history[i] = CallAt(i), Id(i) \notin cut \cup Unfinished
      PROVE  \E j \in DOMAIN history : Follows(i, j) /\ history[j] = ResultAt(i)
  BY <1>1 DEF Whole, CallsAnswered, Answered, Awaited, Unfinished
<1>2. ASSUME history[i] = ResultAt(i), ~Late(history[i])
      PROVE  \E j \in DOMAIN history : Follows(j, i) /\ history[j] = CallAt(i)
  <2>1. Id(i) \notin cut  BY <1>2 DEF Late, ResultAt, Id
  <2> QED  BY <1>2, <2>1 DEF Whole, ResultsFollow
<1>3. ASSUME history[i] = CallAt(i), Id(i) \in cut \ (torn \cup Unfinished)
      PROVE  \E j \in DOMAIN history : i < j /\ history[j] = ResultAt(i)
  BY <1>3 DEF Whole, CutsWritten, Unfinished
<1> QED  BY <1>1, <1>2, <1>3 DEF CallAt, ResultAt

----------------------------------------------------------------------------
(* A turn ends on a text.                                                        *)

\* The last thing said is not changed by messages that say nothing.
LEMMA TextStays ==
    ASSUME history \in Seq(Message), TextLast,
           \/ history' = history
           \/ \E m \in Message : m[1] \notin {"call", "text", "empty"} /\ history' = Append(history, m)
    PROVE  TextLast'
<1>1. /\ \A i \in DOMAIN history : i \in DOMAIN history' /\ history'[i] = history[i]
      /\ \A i \in DOMAIN history' : history'[i][1] \in {"call", "text", "empty"} => i \in DOMAIN history
  <2>1. CASE history' = history  BY <2>1
  <2>2. CASE \E m \in Message : m[1] \notin {"call", "text", "empty"} /\ history' = Append(history, m)
    <3>1. PICK m \in Message : m[1] \notin {"call", "text", "empty"} /\ history' = Append(history, m)
      BY <2>2
    <3>2. /\ Len(history) \in Nat /\ DOMAIN history = 1..Len(history)
          /\ DOMAIN history' = 1..(Len(history) + 1) /\ history'[Len(history) + 1] = m
          /\ \A i \in DOMAIN history : history'[i] = history[i]
      BY <3>1, Appended
    <3>3. \A i \in DOMAIN history' : i = Len(history) + 1 \/ i \in DOMAIN history  BY <3>2
    <3>4. \A i \in DOMAIN history : i \in DOMAIN history'  BY <3>2
    <3>5. history'[Len(history) + 1] = m /\ \A i \in DOMAIN history : history'[i] = history[i]  BY <3>2
    <3> QED  BY <3>1, <3>3, <3>4, <3>5
  <2> QED  BY <2>1, <2>2
<1>2. Said' = Said  BY <1>1 DEF Said, Kind
<1> QED  BY <1>1, <1>2 DEF TextLast, Said, Kind

\* A text that is appended is the last thing said.
LEMMA TextNow ==
    ASSUME history \in Seq(Message), NEW m \in Message, m[1] = "text", history' = Append(history, m)
    PROVE  TextLast'
<1>1. /\ Len(history) \in Nat /\ DOMAIN history' = 1..(Len(history) + 1)
      /\ history'[Len(history) + 1] = m
  BY Appended
<1> PICK n \in Nat : n = Len(history) + 1  BY <1>1
<1>2. n \in Said' /\ Kind(n)' = "text" /\ \A j \in Said' : j <= n  BY <1>1 DEF Said, Kind
<1> QED  BY <1>2 DEF TextLast

LEMMA TextOfLoop == ASSUME TInv, Shaped, OnText, Loop PROVE OnText'
<1> USE DEF Shaped
<1>1. CASE Run \/ Blocked \/ Turn \/ Enter \/ StopHook \/ Return \/ Guard \/ Interrupted \/ Cancel \/ Inject
           \/ Refuse \/ Injected \/ StepFailed \/ Continues
  <2>1. main' \notin {"racing", "ended"}
    BY <1>1 DEF Run, Blocked, Turn, Enter, StopHook, Return, Guard, Interrupted, Cancel, Inject, Refuse,
                Injected, StepFailed, Continues, Fail, Leave, loop
  <2> QED  BY <2>1 DEF OnText, HasText
<1>2. CASE Spawn
  <2>1. main' = "racing" /\ step'.at = "preparing"  BY <1>2 DEF Spawn
  <2> QED  BY <2>1 DEF OnText, HasText
<1>3. CASE Nudge \/ Recover \/ Continue
  <2>1. main' = "ready"  BY <1>3 DEF Nudge, Recover, Continue, Again
  <2> QED  BY <2>1 DEF OnText, HasText
<1>4. CASE Rejected
  <2>1. main' = "ended" /\ outcome' = "rejected"  BY <1>4 DEF Rejected, End
  <2> QED  BY <2>1 DEF OnText, HasText
<1>5. CASE Answers
  <2>1. main = "racing" /\ step.at = "done" /\ step.out = "text"  BY <1>5 DEF Answers, Stops, Finished
  <2>2. TextLast  BY <2>1 DEF OnText, HasText
  <2>3. history' = history \o <<>>  BY <1>5 DEF Answers, End
  <2>4. history' = history  BY <2>3
  <2> QED  BY <2>2, <2>4, TextStays DEF OnText
<1>6. CASE GivesUp \/ MakesUp
  <2>1. history' = history \o <<<<"text", step.id>>>>  BY <1>6 DEF GivesUp, MakesUp, End, Fallback
  <2>2. <<"text", step.id>> \in Message  BY DEF Message, Kinds, TInv, StepTypes
  <2>3. history' = Append(history, <<"text", step.id>>)  BY <2>1, <2>2
  <2> QED  BY <2>2, <2>3, TextNow DEF OnText
<1> QED  BY <1>1, <1>2, <1>3, <1>4, <1>5, <1>6 DEF Loop, Resolve

LEMMA TextOfTask == ASSUME TInv, Shaped, OnText, StepTask PROVE OnText'
<1> USE DEF Shaped
<1>0. main = "racing" /\ main' = "racing"
  BY DEF StepTask, Asks, Calls, Asking, Replies, ToolsDone, ResultsRefused, Grown, ThinkOnly, Broken, Overflow,
         CompactTool, Grow, loop
<1>1. CASE Asks \/ Calls \/ ResultsRefused \/ ThinkOnly \/ Broken \/ Overflow \/ CompactTool
  <2>1. step'.at \in {"asking", "calling", "compacting"} \/ step'.out \in {"error", "empty"}
    BY <1>1 DEF Asks, Calls, ResultsRefused, ThinkOnly, Broken, Overflow, CompactTool, TInv, StepTypes
  <2> QED  BY <1>0, <2>1 DEF OnText, HasText
<1>2. CASE ToolsDone
  <2>1. step'.out \in {"more", "rejected", "repeat"}  BY <1>2 DEF ToolsDone, Grow, TInv, StepTypes
  <2> QED  BY <1>0, <2>1 DEF OnText, HasText
<1>3. CASE Replies
  <2>1. PICK kind \in {"text", "empty"} : Grow(kind, <<>>, kind)  BY <1>3 DEF Replies
  <2>2. step'.out = kind /\ history' = Append(history, <<kind, step.id>>)
    BY <2>1 DEF Grow, Append1, TInv, StepTypes
  <2>3. CASE kind = "empty"  BY <1>0, <2>2, <2>3 DEF OnText, HasText
  <2>4. CASE kind = "text"
    <3>1. <<"text", step.id>> \in Message  BY DEF Message, Kinds, TInv, StepTypes
    <3> QED  BY <2>2, <2>4, <3>1, TextNow DEF OnText
  <2> QED  BY <2>3, <2>4
<1>4. CASE Grown
  <2>1. step.at = "growing" /\ step'.out = step.out /\ history' = history
    BY <1>4 DEF Grown, context, TInv, StepTypes
  <2> QED  BY <1>0, <2>1, TextStays DEF OnText, HasText
<1> QED  BY <1>1, <1>2, <1>3, <1>4 DEF StepTask

\* No compaction is in flight while a step has its text or its turn has ended.
LEMMA TextOfCompaction == ASSUME TInv, OnText, Compaction PROVE OnText'
<1>1. comp.at # "no"
  BY DEF Compaction, Prepares, Summed, Retries, Clears, Changed, Rebuilt, CompactFails, MayFail
<1>2. CASE Prepares \/ Summed \/ Retries \/ Clears \/ Changed
  <2>1. UNCHANGED <<main, outcome, step>>  BY <1>2 DEF Prepares, Summed, Retries, Clears, Changed, loop
  <2> QED  BY <1>1, <2>1, SomeoneWaits DEF OnText, HasText, TInv, StepTypes
<1>3. CASE Rebuilt
  <2>1. \/ main' = "starting"
        \/ main' = main /\ outcome' = outcome /\ step'.at \in {"preparing", step.at}
    BY <1>3 DEF Rebuilt, TInv, StepTypes
  <2> QED  BY <1>1, <2>1, SomeoneWaits DEF OnText, HasText, TInv, StepTypes
<1>4. CASE CompactFails
  <2>1. \/ main' = "idle"
        \/ main' = main /\ outcome' = outcome /\ (step'.out = "error" \/ step' = step)
    BY <1>4 DEF CompactFails, Fail, Leave, TInv, StepTypes
  <2> QED  BY <1>1, <2>1, SomeoneWaits DEF OnText, HasText, TInv, StepTypes
<1> QED  BY <1>2, <1>3, <1>4 DEF Compaction

LEMMA TextOfWrites == ASSUME TInv, Shaped, OnText, Writes PROVE OnText'
<1> USE DEF Shaped
<1>1. PICK g \in growing : GrowOn(g) \/ GrowEnd(g)  BY DEF Writes
<1>2. UNCHANGED <<main, outcome, step>>  BY <1>1 DEF GrowOn, GrowEnd, loop
<1>3. \/ history' = history
      \/ \E m \in Message : m[1] \notin {"call", "text", "empty"} /\ history' = Append(history, m)
  <2>1. CASE GrowOn(g)
    <3>1. <<"result", g.id>> \in Message /\ history' = Append(history, <<"result", g.id>>)  BY <2>1, GrownBy
    <3> QED  BY <3>1
  <2>2. CASE GrowEnd(g)  BY <2>2 DEF GrowEnd
  <2> QED  BY <1>1, <2>1, <2>2
<1>4. TextLast => TextLast'  BY <1>3, TextStays
<1> QED  BY <1>2, <1>4 DEF OnText, HasText

LEMMA TextStaysLast == TInv /\ Shaped /\ OnText /\ [Next]_vars => OnText'
<1> SUFFICES ASSUME TInv, Shaped, OnText, [Next]_vars PROVE OnText'  OBVIOUS
<1>1. CASE Pushes \/ LoopCloses \/ UNCHANGED vars
  <2>1. UNCHANGED <<main, outcome, step, history>>
    BY <1>1 DEF Pushes, Check, Push, LoopCloses, vars, loop, context
  <2> QED  BY <2>1 DEF OnText, HasText, TextLast, Said, Kind
<1> QED  BY <1>1, TextOfLoop, TextOfTask, TextOfCompaction, TextOfWrites DEF Next

\* The invariants of the history, together.
HInv == TInv /\ CutIsPast /\ Shaped /\ WakeMeans /\ (wiped \/ Remains) /\ OnText

LEMMA HistoryBegins == Init => HInv
<1> SUFFICES ASSUME Init PROVE HInv  OBVIOUS
<1>1. history = <<>> /\ comp.at = "no" /\ main = "idle" /\ step.id = 0  BY DEF Init, NoComp
<1>2. OnText /\ WakeMeans  BY <1>1 DEF OnText, HasText, WakeMeans
<1>3. Remains
  <2>1. Headed(history)  BY <1>1 DEF Headed
  <2>2. Carries /\ OnlyLate /\ Grounded /\ HeardUser
    BY <1>1 DEF Carries, Holding, OnlyLate, Grounded, HeardUser, Begun, AtWork
  <2> QED  BY <2>1, <2>2, WholeBegins DEF Remains
<1> QED  BY <1>2, <1>3, TypesBegin, CutsBegin, ShapedBegins DEF HInv

LEMMA HistoryStays == HInv /\ [Next]_vars => HInv'
<1> SUFFICES ASSUME HInv, [Next]_vars PROVE HInv'  OBVIOUS
<1> USE DEF HInv
<1>1. TInv' /\ CutIsPast'  BY TypesStay, CutsStay
<1>2. Shaped' /\ WakeMeans'  BY ShapedStays, WakeMeansStays
<1>3. wiped' \/ Remains'  BY RemainsStays
<1>4. OnText'  BY TextStaysLast
<1> QED  BY <1>1, <1>2, <1>3, <1>4

\* The messages of a step stay together in the history and a call has its result,
\* for any number of steps, writes that outlive their step, steers and compactions
\* that preserve any number of messages: SimpleCompaction.prepare cuts the history
\* where no call waits, and puts the first message before the tail only when that is
\* none; asyncio.shield keeps the write of a cancelled step going.  It ends where a
\* compaction puts back the list that it emptied.
THEOREM StepsStayWhole == Spec => []StepsAreWhole
<1>1. HInv => StepsAreWhole  BY WholeMeansWhole DEF HInv, Remains
<1> QED  BY <1>1, HistoryBegins, HistoryStays, PTL DEF Spec

\* A soul that has taken a step has its user's words, or the summary that stands for
\* them, in its context, whatever a compaction preserves: the first message and the
\* tail, the whole history, or the tail alone (compact_context clears only when the
\* summary is there).  The exceptions are those of Remembered: a cancellation between
\* the clearing and the summary, and a compaction that puts back the list it emptied.
THEOREM UserIsRemembered == Spec => []Remembered
<1>1. HInv => Remembered
  <2> SUFFICES ASSUME HInv, step.id > 0, comp.at # "cleared", ~lost, ~wiped PROVE Recalls
    BY DEF Remembered
  <2>1. Has(history, Roots)  BY DEF HInv, Remains, HeardUser, Begun
  <2> QED  BY <2>1 DEF Has, Roots, Recalls, Kind
<1> QED  BY <1>1, HistoryBegins, HistoryStays, PTL DEF Spec

\* A turn that ends well ends on a text, through any number of rounds of the gates
\* and with the late results of cut steps in between (the ends of _agent_loop).
THEOREM TurnsEndOnText == Spec => []EndsOnText
<1>1. HInv => EndsOnText  BY DEF HInv, OnText, HasText, TextLast, EndsOnText
<1> QED  BY <1>1, HistoryBegins, HistoryStays, PTL DEF Spec

============================================================================
