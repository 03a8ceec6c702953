------------------------------ MODULE DagExecutor ------------------------------
(***************************************************************************)
(* One call of kimix.dag.executor.Executor.execute: the calling thread and *)
(* the threads of a ThreadPoolExecutor share results, errors, submitted    *)
(* and finished_count.  _submit_ready and _on_done run without a common    *)
(* lock, in whichever thread completes a future - or, when a future is     *)
(* already done as add_done_callback is called on it, nested inside the    *)
(* scan of the thread that submitted it.  A thread is therefore a stack of *)
(* activations, innermost first.                                           *)
(***************************************************************************)
EXTENDS Integers, Sequences, FiniteSets

CONSTANTS
  N,          \* len(dag); nodes are numbered in the insertion order of dag.nodes
  Deps,       \* node -> TaskNode.dependencies
  Worker,     \* the threads of the pool (max_workers)
  Main,       \* the thread that calls execute
  CanFail,    \* the nodes whose callable may raise on every attempt
  CanCancel   \* may somebody call Context.cancel?

Node == 1..N
Thread == Worker \cup {Main}

ASSUME DagAssumption ==
  /\ N \in Nat
  /\ Deps \in [Node -> SUBSET Node]
  /\ CanFail \subseteq Node
  /\ CanCancel \in BOOLEAN
  /\ Main \notin Worker

VARIABLES
  results,    \* nodes with a result
  errors,     \* node -> "none", "task" (it raised) or "dependency" (DependencyError)
  submitted,  \* nodes some scan has claimed
  finished,   \* finished_count
  allDone,    \* all_done.is_set()
  cancelled,  \* ctx.cancelled
  futures,    \* the futures of the pool, in order of submission
  running,    \* worker -> the future it runs, 0 when none
  stack,      \* thread -> its activations of _submit_ready and _on_done
  main        \* where the calling thread is

vars == <<results, errors, submitted, finished, allDone, cancelled,
          futures, running, stack, main>>

Failed == {n \in Node : errors[n] # "none"}
Done == results \cup Failed

\* Fault: the failed dependencies are not looked for.
NoFailed(n) == {}
\* [d for d in node.dependencies if d in errors]
FailedDeps(n) == Deps[n] \cap Failed

\* Fault: off by one.
AllButOne(count) == count > N
\* The test of finished_count that sets all_done.
AllFinished(count) == count >= N

\* An activation of _submit_ready: the node it looks at, done_nodes as read
\* when it began, what it does next.  future is the one it has just submitted.
ScanFrame == [kind: {"scan"}, at: 1..(N + 1), done: SUBSET Node,
              pc: {"check", "claim", "callback"}, future: Nat]
\* An activation of _on_done.
DoneFrame == [kind: {"done"}, future: Nat, pc: {"record", "count"}]
Frame == ScanFrame \cup DoneFrame
Future == [node: Node, state: {"queued", "running", "done"},
           ok: BOOLEAN, callback: BOOLEAN]

TypeOK ==
  /\ results \subseteq Node
  /\ errors \in [Node -> {"none", "task", "dependency"}]
  /\ submitted \subseteq Node
  /\ finished \in Nat
  /\ allDone \in BOOLEAN
  /\ cancelled \in BOOLEAN
  /\ futures \in Seq(Future)
  /\ running \in [Worker -> Nat]
  /\ stack \in [Thread -> Seq(Frame)]
  /\ main \in {"scan", "wait", "shutdown", "returned"}

NewScan(done) == [kind |-> "scan", at |-> 1, done |-> done, pc |-> "check", future |-> 0]
NewDone(f) == [kind |-> "done", future |-> f, pc |-> "record"]

Push(t, frame) == stack' = [stack EXCEPT ![t] = <<frame>> \o @]
Pop(t) == stack' = [stack EXCEPT ![t] = Tail(@)]
Replace(t, frame) == stack' = [stack EXCEPT ![t] = <<frame>> \o Tail(@)]

\* The innermost activation of t is of _submit_ready and at step pc.
Scanning(t, pc) ==
  /\ stack[t] # <<>>
  /\ Head(stack[t]).kind = "scan"
  /\ Head(stack[t]).pc = pc
Completing(t, pc) ==
  /\ stack[t] # <<>>
  /\ Head(stack[t]).kind = "done"
  /\ Head(stack[t]).pc = pc

Init ==
  /\ results = {}
  /\ errors = [n \in Node |-> "none"]
  /\ submitted = {}
  /\ finished = 0
  /\ allDone = FALSE
  /\ cancelled \in {FALSE, CanCancel}
  /\ futures = <<>>
  /\ running = [w \in Worker |-> 0]
  /\ stack = [t \in Thread |-> IF t = Main THEN <<NewScan({})>> ELSE <<>>]
  /\ main = "scan"

Shutdown == main \in {"shutdown", "returned"}

---------------------------------------------------------------------------
\* Fault: one finished dependency is enough.
SkipsUnlessOne(frame) ==
  \/ frame.at \in submitted
  \/ Deps[frame.at] # {} /\ Deps[frame.at] \cap frame.done = {}
\* for name, node in dag.nodes.items(): the two tests that skip a node.
Skips(frame) ==
  \/ frame.at \in submitted
  \/ ~(Deps[frame.at] \subseteq frame.done)

Check(t) ==
  /\ Scanning(t, "check")
  /\ LET f == Head(stack[t]) IN
     \/ /\ f.at > N
        /\ Pop(t)
     \/ /\ f.at <= N
        /\ Skips(f)
        /\ Replace(t, [f EXCEPT !.at = @ + 1])
     \/ /\ f.at <= N
        /\ ~Skips(f)
        /\ Replace(t, [f EXCEPT !.pc = "claim"])
  /\ UNCHANGED <<results, errors, submitted, finished, allDone, cancelled,
                 futures, running, main>>

\* The claimed node has a failed dependency: it gets a DependencyError here.
Abort(t) ==
  /\ Scanning(t, "claim")
  /\ LET f == Head(stack[t]) IN
     /\ FailedDeps(f.at) # {}
     /\ submitted' = submitted \cup {f.at}
     /\ errors' = [errors EXCEPT ![f.at] = "dependency"]
     /\ Replace(t, [f EXCEPT !.at = @ + 1, !.pc = "check"])
  /\ finished' = finished + 1
  /\ allDone' = (allDone \/ AllFinished(finished'))
  /\ UNCHANGED <<results, cancelled, futures, running, main>>

\* pool.submit.
Submit(t) ==
  /\ Scanning(t, "claim")
  /\ ~Shutdown
  /\ LET f == Head(stack[t]) IN
     /\ FailedDeps(f.at) = {}
     /\ submitted' = submitted \cup {f.at}
     /\ futures' = Append(futures, [node |-> f.at, state |-> "queued",
                                    ok |-> FALSE, callback |-> FALSE])
     /\ Replace(t, [f EXCEPT !.pc = "callback", !.future = Len(futures) + 1])
  /\ UNCHANGED <<results, errors, finished, allDone, cancelled, running, main>>

\* pool.submit after pool.shutdown raises RuntimeError; the future whose
\* callback was running logs it and drops the activation.
SubmitRejected(t) ==
  /\ Scanning(t, "claim")
  /\ Shutdown
  /\ FailedDeps(Head(stack[t]).at) = {}
  /\ submitted' = submitted \cup {Head(stack[t]).at}
  /\ Pop(t)
  /\ UNCHANGED <<results, errors, finished, allDone, cancelled, futures,
                 running, main>>

\* future.add_done_callback: called at once, in this thread, when it is done.
AddDoneCallback(t) ==
  /\ Scanning(t, "callback")
  /\ LET f == Head(stack[t])
         next == [f EXCEPT !.at = @ + 1, !.pc = "check", !.future = 0]
     IN \/ /\ futures[f.future].state = "done"
           /\ stack' = [stack EXCEPT ![t] = <<NewDone(f.future), next>> \o Tail(@)]
           /\ UNCHANGED futures
        \/ /\ futures[f.future].state # "done"
           /\ futures' = [futures EXCEPT ![f.future].callback = TRUE]
           /\ Replace(t, next)
  /\ UNCHANGED <<results, errors, submitted, finished, allDone, cancelled,
                 running, main>>

---------------------------------------------------------------------------
\* An idle pool thread takes the oldest queued future.
Take(w) ==
  /\ running[w] = 0
  /\ stack[w] = <<>>
  /\ \E f \in 1..Len(futures) :
       /\ futures[f].state = "queued"
       /\ \A g \in 1..(f - 1) : futures[g].state # "queued"
       /\ futures' = [futures EXCEPT ![f].state = "running", ![f].ok = ~cancelled]
       /\ running' = [running EXCEPT ![w] = f]
  /\ UNCHANGED <<results, errors, submitted, finished, allDone, cancelled,
                 stack, main>>

\* The outcomes of _run_node.  check_cancelled raises in a context that was
\* cancelled before the future began (its ok is then FALSE already), and may or
\* may not have seen a later cancel; TaskNode.execute raises what the last of
\* its attempts raised.
Outcome(future) ==
  {ok \in BOOLEAN :
     \/ ok /\ future.ok
     \/ ~ok /\ (~future.ok \/ cancelled \/ future.node \in CanFail)}

\* The future becomes done and its callback, if registered, runs in this thread.
Finish(w) ==
  /\ running[w] # 0
  /\ stack[w] = <<>>
  /\ \E ok \in Outcome(futures[running[w]]) :
       futures' = [futures EXCEPT ![running[w]].state = "done", ![running[w]].ok = ok]
  /\ running' = [running EXCEPT ![w] = 0]
  /\ IF futures[running[w]].callback
     THEN Push(w, NewDone(running[w]))
     ELSE UNCHANGED stack
  /\ UNCHANGED <<results, errors, submitted, finished, allDone, cancelled, main>>

\* _on_done, first critical section: results[name] or errors[name].
Record(t) ==
  /\ Completing(t, "record")
  /\ LET f == Head(stack[t]).future
         n == futures[f].node
     IN \/ /\ futures[f].ok
           /\ results' = results \cup {n}
           /\ UNCHANGED errors
        \/ /\ ~futures[f].ok
           /\ errors' = [errors EXCEPT ![n] = "task"]
           /\ UNCHANGED results
  /\ Replace(t, [Head(stack[t]) EXCEPT !.pc = "count"])
  /\ UNCHANGED <<submitted, finished, allDone, cancelled, futures, running, main>>

\* _on_done, second critical section, and the scan that follows it.
Count(t) ==
  /\ Completing(t, "count")
  /\ finished' = finished + 1
  /\ \/ /\ AllFinished(finished')
        /\ allDone' = TRUE
        /\ Pop(t)
     \/ /\ ~AllFinished(finished')
        /\ UNCHANGED allDone
        /\ IF cancelled THEN Pop(t) ELSE Replace(t, NewScan(Done))
  /\ UNCHANGED <<results, errors, submitted, cancelled, futures, running, main>>

---------------------------------------------------------------------------
\* The calling thread, once its own _submit_ready has returned.
MainScanned ==
  /\ main = "scan"
  /\ stack[Main] = <<>>
  /\ allDone' = (allDone \/ AllFinished(finished))
  /\ main' = "wait"
  /\ UNCHANGED <<results, errors, submitted, finished, cancelled, futures,
                 running, stack>>

\* all_done.wait() returns and the with block calls pool.shutdown(wait=True).
MainWakes ==
  /\ main = "wait"
  /\ allDone
  /\ main' = "shutdown"
  /\ UNCHANGED <<results, errors, submitted, finished, allDone, cancelled,
                 futures, running, stack>>

\* shutdown returns when every pool thread has run out of work and ended.
Joined ==
  /\ \A w \in Worker : running[w] = 0 /\ stack[w] = <<>>
  /\ \A f \in 1..Len(futures) : futures[f].state = "done"

\* execute returns results, or raises ExecutionError when errors is not empty.
Return ==
  /\ main = "shutdown"
  /\ Joined
  /\ main' = "returned"
  /\ UNCHANGED <<results, errors, submitted, finished, allDone, cancelled,
                 futures, running, stack>>

\* Context.cancel, from any task or from outside.
Cancel ==
  /\ CanCancel
  /\ ~cancelled
  /\ main # "returned"
  /\ cancelled' = TRUE
  /\ UNCHANGED <<results, errors, submitted, finished, allDone, futures,
                 running, stack, main>>

SubmitReady(t) ==
  Check(t) \/ Abort(t) \/ Submit(t) \/ SubmitRejected(t) \/ AddDoneCallback(t)
OnDone(t) == Record(t) \/ Count(t)
ThreadStep(t) == SubmitReady(t) \/ OnDone(t)
WorkerStep(w) == Take(w) \/ Finish(w)
MainStep == MainScanned \/ MainWakes \/ Return

Next ==
  \/ \E t \in Thread : ThreadStep(t)
  \/ \E w \in Worker : WorkerStep(w)
  \/ MainStep
  \/ Cancel

Spec == Init /\ [][Next]_vars

\* Every thread is scheduled and every callable returns.
Fairness ==
  /\ \A t \in Thread : WF_vars(ThreadStep(t))
  /\ \A w \in Worker : WF_vars(WorkerStep(w))
  /\ WF_vars(MainStep)

FairSpec == Spec /\ Fairness

---------------------------------------------------------------------------
\* A task is handed to the pool only when each of its dependencies has
\* produced a result: neither a dependency that is still running nor one that
\* failed is enough, whichever thread's stale done_nodes led to the submission.
StartsAfterResults ==
  \A f \in 1..Len(futures) : Deps[futures[f].node] \subseteq results

\* A task is given a DependencyError only when one of its dependencies really
\* is in errors.
AbortHasCause ==
  \A n \in Node :
    errors[n] = "dependency" => \E d \in Deps[n] : errors[d] # "none"

\* execute returns or raises, unless the run is cancelled (then the tasks that
\* were not submitted stay so, and all_done is never set).
Returns == []~cancelled => <>(main = "returned")

\* A task with a failed dependency ends up in errors too, unless the run is
\* cancelled.
Dependent == {n \in Node : Deps[n] # {}}
FailurePropagates ==
  []~cancelled =>
    \A n \in Dependent :
      (\E d \in Deps[n] : errors[d] # "none") ~> (errors[n] # "none")
=============================================================================
