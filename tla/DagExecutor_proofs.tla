-------------------------- MODULE DagExecutor_proofs --------------------------
(***************************************************************************)
(* Proofs about DagExecutor, for every graph, every number of pool threads *)
(* and every choice of failing tasks.                                      *)
(***************************************************************************)
EXTENDS DagExecutor, TLAPS

\* What holds of each activation on a stack, when the nodes in done have an
\* outcome and there are k futures: its done_nodes are among them, and a node
\* is claimed only when its dependencies were in done_nodes.
FrameOK(frame, done, k) ==
  /\ frame.kind = "scan" => /\ frame.done \subseteq done
                            /\ frame.pc # "check" => frame.at \in Node
                            /\ frame.pc = "claim" => Deps[frame.at] \subseteq frame.done
                            /\ frame.pc = "callback" => frame.future \in 1..k
  /\ frame.kind = "done" => frame.future \in 1..k

StackOK(s, done, k) == \A i \in 1..Len(s) : FrameOK(s[i], done, k)
FramesOK == \A t \in Thread : StackOK(stack[t], Done, Len(futures))

RunningOK == \A w \in Worker : running[w] \in 0..Len(futures)

IInv == TypeOK /\ FramesOK /\ RunningOK /\ StartsAfterResults /\ AbortHasCause

---------------------------------------------------------------------------
\* An activation stays as it should while outcomes and futures grow.
LEMMA FrameKept ==
  ASSUME NEW frame \in Frame, NEW D, NEW E, NEW k \in Nat, NEW m \in Nat,
         D \subseteq E, k <= m, FrameOK(frame, D, k)
  PROVE  FrameOK(frame, E, m)
  BY DEF FrameOK

\* So does a whole stack.
LEMMA StackKept ==
  ASSUME NEW s \in Seq(Frame), NEW D, NEW E, NEW k \in Nat, NEW m \in Nat,
         D \subseteq E, k <= m, StackOK(s, D, k)
  PROVE  StackOK(s, E, m)
  BY FrameKept DEF StackOK

\* The innermost activation.
LEMMA StackTop ==
  ASSUME NEW s \in Seq(Frame), NEW D, NEW k, s # <<>>, StackOK(s, D, k)
  PROVE  /\ Head(s) \in Frame
         /\ FrameOK(Head(s), D, k)
         /\ Tail(s) \in Seq(Frame)
         /\ StackOK(Tail(s), D, k)
<1>1. 1 \in 1..Len(s) /\ Head(s) = s[1]
  OBVIOUS
<1>2. \A i \in 1..Len(Tail(s)) : i + 1 \in 1..Len(s) /\ Tail(s)[i] = s[i + 1]
  OBVIOUS
<1> QED BY <1>1, <1>2 DEF StackOK

\* Pushing an activation.
LEMMA StackPush ==
  ASSUME NEW s \in Seq(Frame), NEW f \in Frame, NEW D, NEW k,
         FrameOK(f, D, k), StackOK(s, D, k)
  PROVE  <<f>> \o s \in Seq(Frame) /\ StackOK(<<f>> \o s, D, k)
<1>1. \A i \in 1..Len(<<f>> \o s) :
         (<<f>> \o s)[i] = f \/ \E j \in 1..Len(s) : (<<f>> \o s)[i] = s[j]
  OBVIOUS
<1> QED BY <1>1 DEF StackOK

LEMMA StackPushTwo ==
  ASSUME NEW s \in Seq(Frame), NEW f \in Frame, NEW g \in Frame, NEW D, NEW k,
         FrameOK(f, D, k), FrameOK(g, D, k), StackOK(s, D, k)
  PROVE  <<f, g>> \o s \in Seq(Frame) /\ StackOK(<<f, g>> \o s, D, k)
<1>1. \A i \in 1..Len(<<f, g>> \o s) :
         \/ (<<f, g>> \o s)[i] = f
         \/ (<<f, g>> \o s)[i] = g
         \/ \E j \in 1..Len(s) : (<<f, g>> \o s)[i] = s[j]
  OBVIOUS
<1> QED BY <1>1 DEF StackOK

\* A step that changes the stack of one thread and lets outcomes and futures
\* grow.
LEMMA OneStack ==
  ASSUME NEW t \in Thread, NEW s \in Seq(Frame),
         stack \in [Thread -> Seq(Frame)], FramesOK,
         Len(futures) \in Nat, Len(futures') \in Nat,
         Done \subseteq Done', Len(futures) <= Len(futures'),
         stack' = [stack EXCEPT ![t] = s],
         StackOK(s, Done', Len(futures'))
  PROVE  stack' \in [Thread -> Seq(Frame)] /\ FramesOK'
<1>1. ASSUME NEW u \in Thread
      PROVE  StackOK(stack'[u], Done', Len(futures'))
  <2>1. CASE u = t
    BY <2>1
  <2>2. CASE u # t
    <3>1. stack'[u] = stack[u] /\ stack[u] \in Seq(Frame)
      BY <2>2
    <3>2. StackOK(stack[u], Done, Len(futures))
      BY DEF FramesOK
    <3>3. StackOK(stack[u], Done', Len(futures'))
      BY <3>1, <3>2, StackKept
    <3> QED BY <3>1, <3>3
  <2> QED BY <2>1, <2>2
<1> QED BY <1>1 DEF FramesOK

\* A step that changes no stack.
LEMMA NoStack ==
  ASSUME stack \in [Thread -> Seq(Frame)], FramesOK,
         Len(futures) \in Nat, Len(futures') \in Nat,
         Done \subseteq Done', Len(futures) <= Len(futures'),
         UNCHANGED stack
  PROVE  FramesOK'
<1>1. ASSUME NEW u \in Thread
      PROVE  StackOK(stack'[u], Done', Len(futures'))
  <2>1. stack'[u] = stack[u] /\ stack[u] \in Seq(Frame)
    OBVIOUS
  <2>2. StackOK(stack[u], Done, Len(futures))
    BY DEF FramesOK
  <2> QED BY <2>1, <2>2, StackKept
<1> QED BY <1>1 DEF FramesOK

---------------------------------------------------------------------------
\* The invariant holds when execute begins.
LEMMA InitIInv == Init => IInv
<1> SUFFICES ASSUME Init PROVE IInv
  OBVIOUS
<1> USE DagAssumption
<1>1. 1 \in 1..(N + 1)
  OBVIOUS
<1>2. NewScan({}) \in Frame
  BY <1>1 DEF NewScan, Frame, ScanFrame
<1>3. TypeOK
  <2>1. stack \in [Thread -> Seq(Frame)]
    BY <1>2 DEF Init
  <2>2. futures \in Seq(Future)
    BY DEF Init
  <2> QED BY <2>1, <2>2 DEF Init, TypeOK
<1>4. FramesOK
  BY DEF Init, FramesOK, StackOK, FrameOK, NewScan
<1>5. RunningOK /\ StartsAfterResults /\ AbortHasCause
  BY DEF Init, RunningOK, StartsAfterResults, AbortHasCause, Node
<1> QED BY <1>3, <1>4, <1>5 DEF IInv

\* What the guard of a scan step says of the innermost activation.
LEMMA ScanTop ==
  ASSUME NEW t \in Thread, NEW pc, IInv, Scanning(t, pc)
  PROVE  /\ stack[t] \in Seq(Frame) /\ stack[t] # <<>>
         /\ Head(stack[t]) \in ScanFrame /\ Head(stack[t]).pc = pc
         /\ FrameOK(Head(stack[t]), Done, Len(futures))
         /\ Tail(stack[t]) \in Seq(Frame)
         /\ StackOK(Tail(stack[t]), Done, Len(futures))
<1>1. stack[t] \in Seq(Frame) /\ StackOK(stack[t], Done, Len(futures))
  BY DEF IInv, TypeOK, FramesOK
<1>2. Head(stack[t]).kind = "scan" /\ Head(stack[t]).pc = pc /\ stack[t] # <<>>
  BY DEF Scanning
<1>3. /\ Head(stack[t]) \in Frame /\ FrameOK(Head(stack[t]), Done, Len(futures))
      /\ Tail(stack[t]) \in Seq(Frame) /\ StackOK(Tail(stack[t]), Done, Len(futures))
  BY <1>1, <1>2, StackTop
<1>4. Head(stack[t]) \in ScanFrame
  BY <1>2, <1>3 DEF Frame, DoneFrame
<1> QED BY <1>1, <1>2, <1>3, <1>4

\* The same for a step of _on_done.
LEMMA DoneTop ==
  ASSUME NEW t \in Thread, NEW pc, IInv, Completing(t, pc)
  PROVE  /\ stack[t] \in Seq(Frame) /\ stack[t] # <<>>
         /\ Head(stack[t]) \in DoneFrame /\ Head(stack[t]).pc = pc
         /\ FrameOK(Head(stack[t]), Done, Len(futures))
         /\ Tail(stack[t]) \in Seq(Frame)
         /\ StackOK(Tail(stack[t]), Done, Len(futures))
<1>1. stack[t] \in Seq(Frame) /\ StackOK(stack[t], Done, Len(futures))
  BY DEF IInv, TypeOK, FramesOK
<1>2. Head(stack[t]).kind = "done" /\ Head(stack[t]).pc = pc /\ stack[t] # <<>>
  BY DEF Completing
<1>3. /\ Head(stack[t]) \in Frame /\ FrameOK(Head(stack[t]), Done, Len(futures))
      /\ Tail(stack[t]) \in Seq(Frame) /\ StackOK(Tail(stack[t]), Done, Len(futures))
  BY <1>1, <1>2, StackTop
<1>4. Head(stack[t]) \in DoneFrame
  BY <1>2, <1>3 DEF Frame, ScanFrame
<1> QED BY <1>1, <1>2, <1>3, <1>4

\* Outcomes and futures only grow, the growth the steps below have in common.
Grows ==
  /\ Done \subseteq Done'
  /\ Len(futures) \in Nat /\ Len(futures') \in Nat /\ Len(futures) <= Len(futures')

LEMMA PopKeeps ==
  ASSUME IInv, NEW t \in Thread, stack[t] # <<>>, Grows, Pop(t)
  PROVE  stack' \in [Thread -> Seq(Frame)] /\ FramesOK'
<1> DEFINE s == Tail(stack[t])
<1>1. stack \in [Thread -> Seq(Frame)] /\ FramesOK
  BY DEF IInv, TypeOK
<1>2. StackOK(stack[t], Done, Len(futures)) /\ stack[t] \in Seq(Frame)
  BY <1>1 DEF FramesOK
<1>3. s \in Seq(Frame) /\ StackOK(s, Done, Len(futures))
  BY <1>2, StackTop
<1>4. stack' = [stack EXCEPT ![t] = s]
  BY DEF Pop
<1> HIDE DEF s
<1>5. StackOK(s, Done', Len(futures'))
  BY <1>3, StackKept DEF Grows
<1> QED BY <1>1, <1>3, <1>4, <1>5, OneStack DEF Grows

LEMMA ReplaceKeeps ==
  ASSUME IInv, NEW t \in Thread, stack[t] # <<>>, Grows,
         NEW g \in Frame, FrameOK(g, Done', Len(futures')), Replace(t, g)
  PROVE  stack' \in [Thread -> Seq(Frame)] /\ FramesOK'
<1> DEFINE r == Tail(stack[t])
           s == <<g>> \o r
<1>1. stack \in [Thread -> Seq(Frame)] /\ FramesOK
  BY DEF IInv, TypeOK
<1>2. StackOK(stack[t], Done, Len(futures)) /\ stack[t] \in Seq(Frame)
  BY <1>1 DEF FramesOK
<1>3. r \in Seq(Frame) /\ StackOK(r, Done, Len(futures))
  BY <1>2, StackTop
<1>4. stack' = [stack EXCEPT ![t] = s]
  BY DEF Replace
<1> HIDE DEF r
<1>5. StackOK(r, Done', Len(futures'))
  BY <1>3, StackKept DEF Grows
<1>6. s \in Seq(Frame) /\ StackOK(s, Done', Len(futures'))
  BY <1>3, <1>5, StackPush
<1> HIDE DEF s
<1> QED BY <1>1, <1>4, <1>6, OneStack DEF Grows

LEMMA PushKeeps ==
  ASSUME IInv, NEW t \in Thread, Grows,
         NEW g \in Frame, FrameOK(g, Done', Len(futures')), Push(t, g)
  PROVE  stack' \in [Thread -> Seq(Frame)] /\ FramesOK'
<1> DEFINE r == stack[t]
           s == <<g>> \o r
<1>1. stack \in [Thread -> Seq(Frame)] /\ FramesOK
  BY DEF IInv, TypeOK
<1>2. StackOK(r, Done, Len(futures)) /\ r \in Seq(Frame)
  BY <1>1 DEF FramesOK
<1>3. stack' = [stack EXCEPT ![t] = s]
  BY DEF Push
<1> HIDE DEF r
<1>4. StackOK(r, Done', Len(futures'))
  BY <1>2, StackKept DEF Grows
<1>5. s \in Seq(Frame) /\ StackOK(s, Done', Len(futures'))
  BY <1>2, <1>4, StackPush
<1> HIDE DEF s
<1> QED BY <1>1, <1>3, <1>5, OneStack DEF Grows

\* What a step keeps when it leaves the shared outcomes and futures alone.
LEMMA Unchanged ==
  ASSUME IInv, UNCHANGED <<results, errors, futures>>
  PROVE  Grows /\ Done' = Done /\ Len(futures') = Len(futures)
         /\ StartsAfterResults' /\ AbortHasCause'
<1>1. Len(futures) \in Nat
  BY DEF IInv, TypeOK
<1> QED BY <1>1 DEF Grows, Done, Failed, IInv, StartsAfterResults, AbortHasCause

---------------------------------------------------------------------------
LEMMA CheckStep ==
  ASSUME IInv, NEW t \in Thread, Check(t)
  PROVE  IInv'
<1> DEFINE f == Head(stack[t])
<1> USE DagAssumption
<1>1. /\ f \in ScanFrame /\ f.pc = "check" /\ FrameOK(f, Done, Len(futures))
      /\ stack[t] # <<>>
  BY ScanTop DEF Check
<1>2. Grows /\ Done' = Done /\ Len(futures') = Len(futures)
      /\ StartsAfterResults' /\ AbortHasCause'
  BY Unchanged DEF Check
<1>3. stack' \in [Thread -> Seq(Frame)] /\ FramesOK'
  <2>1. CASE Pop(t)
    BY <1>1, <1>2, <2>1, PopKeeps
  <2>2. CASE f.at <= N /\ Replace(t, [f EXCEPT !.at = @ + 1])
    <3> DEFINE g == [f EXCEPT !.at = @ + 1]
    <3>1. g \in Frame
      BY <1>1, <2>2 DEF ScanFrame, Frame
    <3>2. FrameOK(g, Done', Len(futures'))
      BY <1>1, <1>2, <2>2 DEF FrameOK, ScanFrame
    <3> HIDE DEF g
    <3> QED BY <3>1, <3>2, <2>2, <1>1, <1>2, ReplaceKeeps DEF g
  <2>3. CASE f.at <= N /\ ~Skips(f) /\ Replace(t, [f EXCEPT !.pc = "claim"])
    <3> DEFINE g == [f EXCEPT !.pc = "claim"]
    <3>1. g \in Frame
      BY <1>1, <2>3 DEF ScanFrame, Frame
    <3>2. FrameOK(g, Done', Len(futures'))
      BY <1>1, <1>2, <2>3 DEF FrameOK, ScanFrame, Skips, Node
    <3> HIDE DEF g
    <3> QED BY <3>1, <3>2, <2>3, <1>1, <1>2, ReplaceKeeps DEF g
  <2> QED BY <2>1, <2>2, <2>3 DEF Check
<1>4. TypeOK' /\ RunningOK'
  BY <1>3 DEF Check, IInv, TypeOK, RunningOK
<1> QED BY <1>2, <1>3, <1>4 DEF IInv

LEMMA AbortStep ==
  ASSUME IInv, NEW t \in Thread, Abort(t)
  PROVE  IInv'
<1> DEFINE f == Head(stack[t])
           g == [f EXCEPT !.at = @ + 1, !.pc = "check"]
<1> USE DagAssumption
<1>1. /\ f \in ScanFrame /\ f.pc = "claim" /\ FrameOK(f, Done, Len(futures))
      /\ stack[t] # <<>>
  BY ScanTop DEF Abort
<1>2. f.at \in Node /\ f.kind = "scan"
  BY <1>1 DEF FrameOK, ScanFrame
<1>3. errors' = [errors EXCEPT ![f.at] = "dependency"]
  BY DEF Abort
<1>4. errors \in [Node -> {"none", "task", "dependency"}] /\ futures' = futures
      /\ results' = results /\ Len(futures) \in Nat
  BY DEF Abort, IInv, TypeOK
<1>5. Failed \subseteq Failed'
  BY <1>2, <1>3, <1>4 DEF Failed
<1>6. Grows
  BY <1>4, <1>5 DEF Grows, Done
<1>7. stack' \in [Thread -> Seq(Frame)] /\ FramesOK'
  <2>1. g \in Frame
    <3>1. f.at + 1 \in 1..(N + 1)
      BY <1>2 DEF Node
    <3>2. g \in ScanFrame
      BY <3>1, <1>1 DEF ScanFrame
    <3> QED BY <3>2 DEF Frame
  <2>2. FrameOK(g, Done', Len(futures'))
    BY <1>1, <1>2, <1>6 DEF FrameOK, ScanFrame, Grows
  <2>3. Replace(t, g)
    BY DEF Abort
  <2> HIDE DEF g
  <2> QED BY <2>1, <2>2, <2>3, <1>1, <1>6, ReplaceKeeps
<1>8. AbortHasCause'
  <2> SUFFICES ASSUME NEW n \in Node, errors'[n] = "dependency"
               PROVE  \E d \in Deps[n] : errors'[d] # "none"
    BY DEF AbortHasCause
  <2>1. CASE n = f.at
    <3>1. PICK d \in Deps[f.at] : d \in Failed
      BY DEF Abort, FailedDeps
    <3>2. d \in Node /\ errors'[d] # "none"
      BY <3>1, <1>5 DEF Failed
    <3> QED BY <2>1, <3>1, <3>2
  <2>2. CASE n # f.at
    <3>1. errors[n] = "dependency"
      BY <1>3, <1>4, <2>2
    <3>2. PICK d \in Deps[n] : errors[d] # "none"
      BY <3>1 DEF IInv, AbortHasCause
    <3>3. d \in Node
      BY <3>2
    <3>4. errors'[d] # "none"
      BY <3>2, <3>3, <1>3, <1>4
    <3> QED BY <3>4
  <2> QED BY <2>1, <2>2
<1>9. TypeOK' /\ RunningOK' /\ StartsAfterResults'
  <2>1. errors' \in [Node -> {"none", "task", "dependency"}]
    BY <1>2, <1>3, <1>4
  <2>2. submitted' \subseteq Node
    BY <1>2 DEF Abort, IInv, TypeOK
  <2>3. finished' \in Nat /\ allDone' \in BOOLEAN
    BY DEF Abort, IInv, TypeOK, AllFinished
  <2> QED BY <2>1, <2>2, <2>3, <1>7 DEF Abort, IInv, TypeOK, RunningOK, StartsAfterResults
<1> QED BY <1>7, <1>8, <1>9 DEF IInv

LEMMA SubmitStep ==
  ASSUME IInv, NEW t \in Thread, Submit(t)
  PROVE  IInv'
<1> DEFINE f == Head(stack[t])
           new == [node |-> f.at, state |-> "queued", ok |-> FALSE, callback |-> FALSE]
           g == [f EXCEPT !.pc = "callback", !.future = Len(futures) + 1]
<1> USE DagAssumption
<1>1. /\ f \in ScanFrame /\ f.pc = "claim" /\ FrameOK(f, Done, Len(futures))
      /\ stack[t] # <<>>
  BY ScanTop DEF Submit
<1>2. f.at \in Node /\ f.kind = "scan" /\ Deps[f.at] \subseteq f.done /\ f.done \subseteq Done
  BY <1>1 DEF FrameOK, ScanFrame
<1>3. new \in Future
  BY <1>2 DEF Future
<1>4. futures \in Seq(Future) /\ futures' = Append(futures, new) /\ results' = results
      /\ errors' = errors
  BY DEF Submit, IInv, TypeOK
<1> HIDE DEF new
<1>5. /\ futures' \in Seq(Future) /\ Len(futures') = Len(futures) + 1 /\ Len(futures) \in Nat
      /\ \A i \in 1..Len(futures) : futures'[i] = futures[i]
      /\ futures'[Len(futures) + 1] = new
  BY <1>3, <1>4
<1>6. Grows /\ Done' = Done
  BY <1>4, <1>5 DEF Grows, Done, Failed
<1>7. stack' \in [Thread -> Seq(Frame)] /\ FramesOK'
  <2>1. g \in Frame
    <3>1. Len(futures) + 1 \in Nat
      BY <1>5
    <3>2. g \in ScanFrame
      BY <3>1, <1>1 DEF ScanFrame
    <3> QED BY <3>2 DEF Frame
  <2>2. FrameOK(g, Done', Len(futures'))
    BY <1>1, <1>2, <1>5, <1>6 DEF FrameOK, ScanFrame
  <2>3. Replace(t, g)
    BY DEF Submit
  <2> HIDE DEF g
  <2> QED BY <2>1, <2>2, <2>3, <1>1, <1>6, ReplaceKeeps
<1>8. StartsAfterResults'
  <2>1. Deps[f.at] \subseteq results
    <3>1. Deps[f.at] \cap Failed = {}
      BY DEF Submit, FailedDeps
    <3> QED BY <3>1, <1>2 DEF Done
  <2>2. new.node = f.at
    BY DEF new
  <2>3. ASSUME NEW i \in 1..Len(futures')
        PROVE  Deps[futures'[i].node] \subseteq results'
    <3>1. CASE i = Len(futures) + 1
      BY <3>1, <2>1, <2>2, <1>4, <1>5
    <3>2. CASE i # Len(futures) + 1
      <4>1. i \in 1..Len(futures)
        BY <3>2, <1>5
      <4> QED BY <4>1, <1>4, <1>5 DEF IInv, StartsAfterResults
    <3> QED BY <3>1, <3>2
  <2> QED BY <2>3 DEF StartsAfterResults
<1>9. TypeOK' /\ RunningOK' /\ AbortHasCause'
  <2>1. submitted' \subseteq Node
    BY <1>2 DEF Submit, IInv, TypeOK
  <2>2. RunningOK'
    BY <1>5 DEF Submit, IInv, RunningOK
  <2>3. AbortHasCause'
    BY <1>4 DEF IInv, AbortHasCause
  <2> QED BY <2>1, <2>2, <2>3, <1>5, <1>7 DEF Submit, IInv, TypeOK
<1> QED BY <1>7, <1>8, <1>9 DEF IInv

LEMMA SubmitRejectedStep ==
  ASSUME IInv, NEW t \in Thread, SubmitRejected(t)
  PROVE  IInv'
<1> USE DagAssumption
<1>1. /\ Head(stack[t]) \in ScanFrame /\ Head(stack[t]).pc = "claim"
      /\ FrameOK(Head(stack[t]), Done, Len(futures)) /\ stack[t] # <<>>
  BY ScanTop DEF SubmitRejected
<1>2. Head(stack[t]).at \in Node
  BY <1>1 DEF FrameOK, ScanFrame
<1>3. Grows /\ StartsAfterResults' /\ AbortHasCause'
  BY Unchanged DEF SubmitRejected
<1>4. stack' \in [Thread -> Seq(Frame)] /\ FramesOK'
  BY <1>1, <1>3, PopKeeps DEF SubmitRejected
<1>5. TypeOK' /\ RunningOK'
  BY <1>2, <1>4 DEF SubmitRejected, IInv, TypeOK, RunningOK
<1> QED BY <1>3, <1>4, <1>5 DEF IInv

\* Marking a future (its state, its outcome, its callback) keeps which node it
\* is for, and so everything said of the sequence.
LEMMA FutureMarked ==
  ASSUME IInv, NEW i \in 1..Len(futures), NEW new \in Future,
         new.node = futures[i].node, futures' = [futures EXCEPT ![i] = new],
         UNCHANGED <<results, errors>>
  PROVE  /\ futures' \in Seq(Future) /\ Grows /\ Done' = Done
         /\ Len(futures') = Len(futures)
         /\ StartsAfterResults' /\ AbortHasCause'
<1>1. futures \in Seq(Future)
  BY DEF IInv, TypeOK
<1>2. /\ futures' \in Seq(Future) /\ Len(futures') = Len(futures) /\ Len(futures) \in Nat
      /\ \A j \in 1..Len(futures) : futures'[j] = IF j = i THEN new ELSE futures[j]
  BY <1>1
<1>3. \A j \in 1..Len(futures') : futures'[j].node = futures[j].node
  BY <1>2
<1> QED BY <1>2, <1>3 DEF Grows, Done, Failed, IInv, StartsAfterResults, AbortHasCause

LEMMA AddDoneCallbackStep ==
  ASSUME IInv, NEW t \in Thread, AddDoneCallback(t)
  PROVE  IInv'
<1> DEFINE f == Head(stack[t])
           g == [f EXCEPT !.at = @ + 1, !.pc = "check", !.future = 0]
<1> USE DagAssumption
<1>1. /\ f \in ScanFrame /\ f.pc = "callback" /\ FrameOK(f, Done, Len(futures))
      /\ stack[t] # <<>>
      /\ Tail(stack[t]) \in Seq(Frame) /\ StackOK(Tail(stack[t]), Done, Len(futures))
  BY ScanTop DEF AddDoneCallback
<1>2. f.at \in Node /\ f.kind = "scan" /\ f.future \in 1..Len(futures) /\ f.done \subseteq Done
  BY <1>1 DEF FrameOK, ScanFrame
<1>3. g \in Frame
  <2>1. f.at + 1 \in 1..(N + 1)
    BY <1>2 DEF Node
  <2>2. g \in ScanFrame
    BY <2>1, <1>1 DEF ScanFrame
  <2> QED BY <2>2 DEF Frame
<1>4. g.kind = "scan" /\ g.pc = "check" /\ g.done = f.done
  BY <1>1 DEF ScanFrame
<1>5. \A D, k : f.done \subseteq D => FrameOK(g, D, k)
  BY <1>4 DEF FrameOK
<1>6. CASE /\ stack' = [stack EXCEPT ![t] = <<NewDone(f.future), g>> \o Tail(stack[t])]
           /\ UNCHANGED futures
  <2> DEFINE d == NewDone(f.future)
             s == <<d, g>> \o Tail(stack[t])
  <2>1. d \in Frame
    <3>1. f.future \in Nat
      BY <1>1 DEF ScanFrame
    <3> QED BY <3>1 DEF NewDone, Frame, DoneFrame
  <2>2. FrameOK(d, Done, Len(futures))
    BY <1>2 DEF NewDone, FrameOK
  <2>3. FrameOK(g, Done, Len(futures))
    BY <1>2, <1>5
  <2>4. Grows /\ Done' = Done /\ Len(futures') = Len(futures)
        /\ StartsAfterResults' /\ AbortHasCause'
    BY <1>6, Unchanged DEF AddDoneCallback
  <2> HIDE DEF d, g
  <2>5. s \in Seq(Frame) /\ StackOK(s, Done, Len(futures))
    BY <2>1, <2>2, <2>3, <1>1, <1>3, StackPushTwo
  <2>6. stack' = [stack EXCEPT ![t] = s]
    BY <1>6 DEF d
  <2> HIDE DEF s
  <2>7. stack \in [Thread -> Seq(Frame)] /\ FramesOK
    BY DEF IInv, TypeOK
  <2>8. stack' \in [Thread -> Seq(Frame)] /\ FramesOK'
    BY <2>4, <2>5, <2>6, <2>7, OneStack DEF Grows
  <2>9. TypeOK' /\ RunningOK'
    BY <1>6, <2>8 DEF AddDoneCallback, IInv, TypeOK, RunningOK
  <2> QED BY <2>4, <2>8, <2>9 DEF IInv
<1>7. CASE /\ futures' = [futures EXCEPT ![f.future].callback = TRUE]
           /\ Replace(t, g)
  <2> DEFINE new == [futures[f.future] EXCEPT !.callback = TRUE]
  <2>1. futures[f.future] \in Future
    BY <1>2 DEF IInv, TypeOK
  <2>2. new \in Future /\ new.node = futures[f.future].node
    BY <2>1 DEF Future
  <2>3. futures' = [futures EXCEPT ![f.future] = new]
    BY <1>7
  <2> HIDE DEF new, g
  <2>4. /\ futures' \in Seq(Future) /\ Grows /\ Done' = Done
        /\ Len(futures') = Len(futures)
        /\ StartsAfterResults' /\ AbortHasCause'
    BY <2>2, <2>3, <1>2, FutureMarked DEF AddDoneCallback
  <2>5. FrameOK(g, Done', Len(futures'))
    BY <1>2, <1>5, <2>4
  <2>6. stack' \in [Thread -> Seq(Frame)] /\ FramesOK'
    BY <1>1, <1>3, <1>7, <2>4, <2>5, ReplaceKeeps
  <2>7. TypeOK' /\ RunningOK'
    BY <2>4, <2>6 DEF AddDoneCallback, IInv, TypeOK, RunningOK
  <2> QED BY <2>4, <2>6, <2>7 DEF IInv
<1> QED BY <1>6, <1>7 DEF AddDoneCallback, Replace

LEMMA TakeStep ==
  ASSUME IInv, NEW w \in Worker, Take(w)
  PROVE  IInv'
<1> USE DagAssumption
<1>1. PICK f \in 1..Len(futures) :
        /\ futures' = [futures EXCEPT ![f].state = "running", ![f].ok = ~cancelled]
        /\ running' = [running EXCEPT ![w] = f]
  BY DEF Take
<1> DEFINE new == [futures[f] EXCEPT !.state = "running", !.ok = ~cancelled]
<1>2. futures[f] \in Future /\ cancelled \in BOOLEAN /\ futures \in Seq(Future)
  BY DEF IInv, TypeOK
<1>3. new \in Future /\ new.node = futures[f].node
  BY <1>2 DEF Future
<1>4. futures' = [futures EXCEPT ![f] = new]
  BY <1>1, <1>2
<1> HIDE DEF new
<1>5. /\ futures' \in Seq(Future) /\ Grows /\ Done' = Done
      /\ Len(futures') = Len(futures)
      /\ StartsAfterResults' /\ AbortHasCause'
  BY <1>3, <1>4, FutureMarked DEF Take
<1>6. FramesOK'
  BY <1>5, NoStack DEF Take, IInv, TypeOK, Grows
<1>7. running' \in [Worker -> Nat] /\ RunningOK'
  BY <1>1, <1>2, <1>5 DEF IInv, TypeOK, RunningOK
<1>8. TypeOK'
  BY <1>5, <1>7 DEF Take, IInv, TypeOK
<1> QED BY <1>5, <1>6, <1>7, <1>8 DEF IInv

LEMMA FinishStep ==
  ASSUME IInv, NEW w \in Worker, Finish(w)
  PROVE  IInv'
<1> DEFINE f == running[w]
<1> USE DagAssumption
<1>1. f \in 1..Len(futures)
  BY DEF Finish, IInv, TypeOK, RunningOK
<1>2. PICK ok \in BOOLEAN :
        futures' = [futures EXCEPT ![f].state = "done", ![f].ok = ok]
  BY DEF Finish, Outcome
<1> DEFINE new == [futures[f] EXCEPT !.state = "done", !.ok = ok]
<1>3. futures[f] \in Future /\ futures \in Seq(Future)
  BY <1>1 DEF IInv, TypeOK
<1>4. new \in Future /\ new.node = futures[f].node
  BY <1>3 DEF Future
<1>5. futures' = [futures EXCEPT ![f] = new]
  BY <1>2, <1>3
<1> HIDE DEF new
<1>6. /\ futures' \in Seq(Future) /\ Grows /\ Done' = Done
      /\ Len(futures') = Len(futures)
      /\ StartsAfterResults' /\ AbortHasCause'
  BY <1>1, <1>4, <1>5, FutureMarked DEF Finish
<1>7. stack' \in [Thread -> Seq(Frame)] /\ FramesOK'
  <2>1. CASE Push(w, NewDone(f))
    <3>1. NewDone(f) \in Frame
      BY <1>1, <1>6 DEF NewDone, Frame, DoneFrame, Grows
    <3>2. FrameOK(NewDone(f), Done', Len(futures'))
      BY <1>1, <1>6 DEF NewDone, FrameOK
    <3>3. w \in Thread
      BY DEF Thread
    <3> QED BY <1>6, <2>1, <3>1, <3>2, <3>3, PushKeeps
  <2>2. CASE UNCHANGED stack
    BY <1>6, <2>2, NoStack DEF IInv, TypeOK, Grows
  <2> QED BY <2>1, <2>2 DEF Finish
<1>8. running' \in [Worker -> Nat] /\ RunningOK'
  BY <1>6 DEF Finish, IInv, TypeOK, RunningOK, Grows
<1>9. TypeOK'
  BY <1>6, <1>7, <1>8 DEF Finish, IInv, TypeOK
<1> QED BY <1>6, <1>7, <1>8, <1>9 DEF IInv

LEMMA RecordStep ==
  ASSUME IInv, NEW t \in Thread, Record(t)
  PROVE  IInv'
<1> DEFINE d == Head(stack[t])
           n == futures[d.future].node
           g == [d EXCEPT !.pc = "count"]
<1> USE DagAssumption
<1>1. /\ d \in DoneFrame /\ d.pc = "record" /\ FrameOK(d, Done, Len(futures))
      /\ stack[t] # <<>>
  BY DoneTop DEF Record
<1>2. d.future \in 1..Len(futures) /\ d.kind = "done"
  BY <1>1 DEF FrameOK, DoneFrame
<1>3. n \in Node
  <2>1. futures[d.future] \in Future
    BY <1>2 DEF IInv, TypeOK
  <2> QED BY <2>1 DEF Future
<1>4. /\ errors \in [Node -> {"none", "task", "dependency"}] /\ futures' = futures
      /\ Len(futures) \in Nat /\ results \subseteq Node
  BY DEF Record, IInv, TypeOK
<1>5. \/ results' = results \cup {n} /\ errors' = errors
      \/ errors' = [errors EXCEPT ![n] = "task"] /\ results' = results
  BY DEF Record
<1> HIDE DEF n
<1>6. /\ results' \subseteq Node /\ results \subseteq results'
      /\ errors' \in [Node -> {"none", "task", "dependency"}]
      /\ \A m \in Node : errors[m] # "none" => errors'[m] # "none"
      /\ \A m \in Node : errors'[m] = "dependency" => errors[m] = "dependency"
  BY <1>3, <1>4, <1>5
<1>7. Grows
  <2>1. Failed \subseteq Failed'
    BY <1>6 DEF Failed
  <2>2. Done \subseteq Done'
    BY <2>1, <1>6 DEF Done
  <2>3. Len(futures') = Len(futures)
    BY <1>4
  <2> QED BY <2>2, <2>3, <1>4 DEF Grows
<1>8. stack' \in [Thread -> Seq(Frame)] /\ FramesOK'
  <2>1. g \in Frame
    BY <1>1 DEF DoneFrame, Frame
  <2>2. FrameOK(g, Done', Len(futures'))
    BY <1>1, <1>2, <1>4 DEF FrameOK, DoneFrame
  <2>3. Replace(t, g)
    BY DEF Record
  <2> HIDE DEF g
  <2> QED BY <2>1, <2>2, <2>3, <1>1, <1>7, ReplaceKeeps
<1>9. StartsAfterResults' /\ AbortHasCause'
  <2>1. StartsAfterResults'
    BY <1>4, <1>6 DEF IInv, StartsAfterResults
  <2>2. AbortHasCause'
    BY <1>6 DEF IInv, AbortHasCause
  <2> QED BY <2>1, <2>2
<1>10. TypeOK' /\ RunningOK'
  BY <1>6, <1>8 DEF Record, IInv, TypeOK, RunningOK
<1> QED BY <1>8, <1>9, <1>10 DEF IInv

LEMMA CountStep ==
  ASSUME IInv, NEW t \in Thread, Count(t)
  PROVE  IInv'
<1> USE DagAssumption
<1>1. stack[t] # <<>>
  BY DoneTop DEF Count
<1>2. Grows /\ Done' = Done /\ StartsAfterResults' /\ AbortHasCause'
  BY Unchanged DEF Count
<1>3. stack' \in [Thread -> Seq(Frame)] /\ FramesOK'
  <2>1. CASE Pop(t)
    BY <1>1, <1>2, <2>1, PopKeeps
  <2>2. CASE Replace(t, NewScan(Done))
    <3>1. Done \subseteq Node /\ 1 \in 1..(N + 1)
      BY DEF Done, Failed, IInv, TypeOK
    <3>2. NewScan(Done) \in Frame
      BY <3>1 DEF NewScan, Frame, ScanFrame
    <3>3. FrameOK(NewScan(Done), Done', Len(futures'))
      BY <1>2 DEF NewScan, FrameOK
    <3> QED BY <1>1, <1>2, <2>2, <3>2, <3>3, ReplaceKeeps
  <2> QED BY <2>1, <2>2 DEF Count
<1>4. finished' \in Nat /\ allDone' \in BOOLEAN
  <2>1. finished \in Nat /\ finished' = finished + 1 /\ allDone \in BOOLEAN
    BY DEF Count, IInv, TypeOK
  <2>2. allDone' = TRUE \/ allDone' = allDone
    BY DEF Count
  <2>3. allDone' \in BOOLEAN
    BY <2>1, <2>2
  <2> QED BY <2>1, <2>3
<1>5. TypeOK' /\ RunningOK'
  BY <1>3, <1>4 DEF Count, IInv, TypeOK, RunningOK
<1> QED BY <1>2, <1>3, <1>5 DEF IInv

\* The steps of the calling thread outside _submit_ready, and cancel.
LEMMA OtherStep ==
  ASSUME IInv, MainStep \/ Cancel \/ UNCHANGED vars
  PROVE  IInv'
<1>1. UNCHANGED <<results, errors, futures, submitted, running, stack, finished>>
  BY DEF MainStep, MainScanned, MainWakes, Return, Cancel, vars
<1>2. Grows /\ StartsAfterResults' /\ AbortHasCause'
  BY <1>1, Unchanged
<1>3. FramesOK'
  BY <1>1, <1>2, NoStack DEF IInv, TypeOK, Grows
<1>4. allDone' \in BOOLEAN /\ cancelled' \in BOOLEAN
      /\ main' \in {"scan", "wait", "shutdown", "returned"}
  BY DEF MainStep, MainScanned, MainWakes, Return, Cancel, vars, IInv, TypeOK, AllFinished
<1>5. TypeOK' /\ RunningOK'
  BY <1>1, <1>4 DEF IInv, TypeOK, RunningOK
<1> QED BY <1>2, <1>3, <1>5 DEF IInv

LEMMA NextIInv == IInv /\ [Next]_vars => IInv'
<1> SUFFICES ASSUME IInv, [Next]_vars PROVE IInv'
  OBVIOUS
<1>1. ASSUME NEW t \in Thread, ThreadStep(t) PROVE IInv'
  BY <1>1, CheckStep, AbortStep, SubmitStep, SubmitRejectedStep, AddDoneCallbackStep,
     RecordStep, CountStep DEF ThreadStep, SubmitReady, OnDone
<1>2. ASSUME NEW w \in Worker, WorkerStep(w) PROVE IInv'
  BY <1>2, TakeStep, FinishStep DEF WorkerStep
<1>3. CASE MainStep \/ Cancel \/ UNCHANGED vars
  BY <1>3, OtherStep
<1> QED BY <1>1, <1>2, <1>3 DEF Next

---------------------------------------------------------------------------
\* Every state of an execution is well typed, whatever the graph.
THEOREM Typing == Spec => []TypeOK
<1>1. IInv => TypeOK
  BY DEF IInv
<1> QED BY <1>1, InitIInv, NextIInv, PTL DEF Spec

\* In every execution of every graph, with any number of threads racing in
\* _submit_ready, a task is handed to the pool only when each of its
\* dependencies has a result.
THEOREM TasksStartAfterResults == Spec => []StartsAfterResults
<1>1. IInv => StartsAfterResults
  BY DEF IInv
<1> QED BY <1>1, InitIInv, NextIInv, PTL DEF Spec

\* In every execution of every graph a DependencyError is given only to a task
\* one of whose dependencies is in errors.
THEOREM AbortsHaveCauses == Spec => []AbortHasCause
<1>1. IInv => AbortHasCause
  BY DEF IInv
<1> QED BY <1>1, InitIInv, NextIInv, PTL DEF Spec
=============================================================================
