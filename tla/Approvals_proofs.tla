--------------------------- MODULE Approvals_proofs ---------------------------
(***************************************************************************)
(* Theorems about Approvals, for any number of requests, observers,        *)
(* actions and sources.  The inductive invariant says who shares which     *)
(* future, that the count of a request is the number of its calls under    *)
(* way, and that every approving answer goes back to one the user gave.    *)
(***************************************************************************)
EXTENDS Approvals, FiniteSetTheorems, TLAPS

Place == {"idle", "waiting", "timing out", "aborting", "done"}
UnderWay == {"waiting", "timing out", "aborting"}
Outcome == Answer \cup {"none", "open", "cancelled"}

LEMMA OfType ==
  ASSUME NEW o \in Observer
  PROVE  Of(o) \in Request
BY ApprovalsAssumption DEF Of, Observer

---------------------------------------------------------------------------
\* Type correctness.

LEMMA TypeInit == Init => TypeOK
BY DEF Init, TypeOK

LEMMA SettleType ==
  ASSUME TypeOK, NEW R \in SUBSET Request, NEW state \in {"resolved", "cancelled"},
         NEW answer \in Answer, NEW outcome \in Answer \cup {"cancelled"},
         Settle(R, state, answer, outcome)
  PROVE  /\ status' \in [Request -> {"none", "pending", "resolved", "cancelled"}]
         /\ response' \in [Request -> Answer \cup {"none"}]
         /\ waiters' \in [Request -> Observer \cup {NoOne}]
         /\ future' \in [Observer -> Answer \cup {"none", "open", "cancelled"}]
BY DEF Settle, TypeOK

LEMMA ReturnType ==
  ASSUME TypeOK, NEW o \in Observer, NEW what \in Answer \cup {"cancelled", "aborted"},
         Return(o, what)
  PROVE  /\ place' \in [Observer -> Place]
         /\ told' \in [Observer -> Answer \cup {"none", "cancelled", "aborted"}]
BY DEF Return, TypeOK, Place

LEMMA AwaitType ==
  ASSUME TypeOK, NEW o \in Observer, NEW w \in Observer, Await(o, w)
  PROVE  /\ holds' \in [Observer -> Observer \cup {NoOne}]
         /\ counts' \in [Request -> Nat]
         /\ place' \in [Observer -> Place]
<1>1. holds' \in [Observer -> Observer \cup {NoOne}]
  BY DEF Await, TypeOK
<1>2. counts' \in [Request -> Nat]
  <2>1. Of(o) \in Request /\ counts \in [Request -> Nat]
    BY OfType DEF TypeOK
  <2>2. counts' = [counts EXCEPT ![Of(o)] = counts[Of(o)] + 1]
    BY DEF Await
  <2>. QED  BY <2>1, <2>2
<1>3. place' \in [Observer -> Place]
  BY DEF Await, TypeOK, Place
<1>. QED  BY <1>1, <1>2, <1>3

LEMMA UncountType ==
  ASSUME TypeOK, NEW o \in Observer, Uncount(o)
  PROVE  counts' \in [Request -> Nat]
<1>1. Of(o) \in Request /\ counts \in [Request -> Nat]
  BY OfType DEF TypeOK
<1>2. PICK k \in Nat : k = counts[Of(o)]
  BY <1>1
<1>3. (IF k > 0 THEN k - 1 ELSE 0) \in Nat
  BY <1>2
<1>4. counts' = [counts EXCEPT ![Of(o)] = IF k > 0 THEN k - 1 ELSE 0]
  BY <1>2 DEF Uncount
<1>. QED  BY <1>1, <1>3, <1>4

LEMMA MakeFutureType ==
  ASSUME TypeOK, NEW o \in Observer, MakeFuture(o)
  PROVE  /\ waiters' \in [Request -> Observer \cup {NoOne}]
         /\ future' \in [Observer -> Answer \cup {"none", "open", "cancelled"}]
         /\ holds' \in [Observer -> Observer \cup {NoOne}]
         /\ counts' \in [Request -> Nat]
         /\ place' \in [Observer -> Place]
<1>1. Await(o, o)
  BY DEF MakeFuture
<1>. QED  BY <1>1, AwaitType, OfType DEF MakeFuture, TypeOK

\* A call under way holds a future.
HoldsOne == \A o \in Observer : place[o] \in UnderWay => holds[o] \in Observer

LEMMA CoveredType == \A r \in Request : Covered(r) \in SUBSET Request
BY DEF Covered, Pending

LEMMA TypeStep == TypeOK /\ HoldsOne /\ [Next]_vars => TypeOK'
<1>. SUFFICES ASSUME TypeOK, HoldsOne, [Next]_vars PROVE TypeOK'
  OBVIOUS
<1>. USE DEF shared, calls, Place
<1>0. CASE UNCHANGED vars
  BY <1>0 DEF vars, TypeOK
<1>1. ASSUME NEW r \in Request, Ask(r) PROVE TypeOK'
  <2>1. r \in Observer /\ MakeFuture(r)
    BY <1>1 DEF Ask, Observer
  <2>2. status' \in [Request -> {"none", "pending", "resolved", "cancelled"}]
    BY <1>1 DEF Ask, TypeOK
  <2>3. UNCHANGED <<response, told, session, given>>
    BY <1>1 DEF Ask
  <2>. QED  BY <2>1, <2>2, <2>3, MakeFutureType DEF TypeOK
<1>2. ASSUME NEW r \in Request, AskAutoApproved(r) PROVE TypeOK'
  <2>1. r \in Observer /\ Return(r, "approve") /\ UNCHANGED <<shared, counts, holds, session, given>>
    BY <1>2 DEF AskAutoApproved, Observer
  <2>. QED  BY <2>1, ReturnType DEF TypeOK, Answer
<1>3. ASSUME NEW o \in Observer, Watch(o) PROVE TypeOK'
  <2>0. Of(o) \in Request /\ UNCHANGED <<session, given>>
    BY <1>3, OfType DEF Watch
  <2>1. CASE waiters[Of(o)] # NoOne /\ Await(o, waiters[Of(o)]) /\ UNCHANGED <<shared, told>>
    <3>1. waiters[Of(o)] \in Observer
      BY <2>0, <2>1 DEF TypeOK
    <3>. QED  BY <2>0, <2>1, <3>1, AwaitType DEF TypeOK
  <2>2. CASE MakeFuture(o) /\ UNCHANGED <<status, response, told>>
    BY <2>0, <2>2, MakeFutureType DEF TypeOK
  <2>3. CASE /\ waiters[Of(o)] = NoOne
             /\ status[Of(o)] # "pending"
             /\ Return(o, IF status[Of(o)] = "cancelled" THEN "cancelled" ELSE response[Of(o)])
             /\ UNCHANGED <<shared, counts, holds>>
    <3>1. place' \in [Observer -> Place]
      BY <2>3 DEF Return, TypeOK
    <3>2. told' \in [Observer -> Answer \cup {"none", "cancelled", "aborted"}]
      BY <2>0, <2>3 DEF Return, TypeOK
    <3>. QED  BY <2>0, <2>3, <3>1, <3>2 DEF TypeOK
  <2>. QED  BY <1>3, <2>1, <2>2, <2>3 DEF Watch
<1>4. ASSUME NEW o \in Observer, Resume(o) PROVE TypeOK'
  <2>1. holds[o] \in Observer
    BY <1>4 DEF Resume, HoldsOne, UnderWay
  <2>2. future[holds[o]] \in Answer \cup {"cancelled", "aborted"}
    BY <1>4, <2>1 DEF Resume, TypeOK
  <2>3. /\ Return(o, future[holds[o]])
        /\ Uncount(o)
        /\ UNCHANGED <<holds, given>>
    BY <1>4 DEF Resume
  <2>4. CASE UNCHANGED <<shared, session>>
    BY <2>2, <2>3, <2>4, ReturnType, UncountType DEF TypeOK
  <2>5. CASE /\ o \in Request
             /\ session' = session \cup {ActionOf[o]}
             /\ Settle(Covered(o), "resolved", "approve", "approve")
    <3>1. session' \subseteq Action
      <4>1. ActionOf[o] \in Action
        BY <2>5, ApprovalsAssumption
      <4>2. session \subseteq Action
        BY DEF TypeOK
      <4>. QED  BY <2>5, <4>1, <4>2
    <3>2. Covered(o) \in SUBSET Request /\ "approve" \in Answer
      BY <2>5, CoveredType DEF Answer
    <3>. QED  BY <2>2, <2>3, <2>5, <3>1, <3>2, ReturnType, UncountType, SettleType DEF TypeOK
  <2>. QED  BY <1>4, <2>4, <2>5 DEF Resume
<1>5. ASSUME NEW o \in Observer, Timeout(o) \/ Cancel(o) PROVE TypeOK'
  <2>1. PICK x \in Place : place' = [place EXCEPT ![o] = x]
    BY <1>5 DEF Timeout, Cancel
  <2>2. place' \in [Observer -> Place]
    BY <2>1 DEF TypeOK
  <2>. QED  BY <1>5, <2>2 DEF Timeout, Cancel, TypeOK
<1>6. ASSUME NEW o \in Observer, TimedOut(o) PROVE TypeOK'
  <2>0. Return(o, "cancelled") /\ Uncount(o) /\ UNCHANGED <<holds, session, given>>
    BY <1>6 DEF TimedOut
  <2>1. CASE UNCHANGED shared
    BY <2>0, <2>1, ReturnType, UncountType DEF TypeOK
  <2>2. CASE Settle({Of(o)}, "cancelled", "reject", "cancelled")
    <3>1. {Of(o)} \in SUBSET Request
      BY OfType
    <3>2. "reject" \in Answer
      BY DEF Answer
    <3>. QED  BY <2>0, <2>2, <3>1, <3>2, SettleType, ReturnType, UncountType DEF TypeOK
  <2>3. CASE /\ status' = [status EXCEPT ![Of(o)] = "cancelled"]
             /\ response' = [response EXCEPT ![Of(o)] = "reject"]
             /\ waiters' = [waiters EXCEPT ![Of(o)] = NoOne]
             /\ UNCHANGED future
    <3>1. /\ status' \in [Request -> {"none", "pending", "resolved", "cancelled"}]
          /\ response' \in [Request -> Answer \cup {"none"}]
          /\ waiters' \in [Request -> Observer \cup {NoOne}]
      BY <2>3 DEF TypeOK, Answer
    <3>. QED  BY <2>0, <2>3, <3>1, ReturnType, UncountType DEF TypeOK
  <2>. QED  BY <1>6, <2>1, <2>2, <2>3 DEF TimedOut
<1>7. ASSUME NEW o \in Observer, Aborted(o) PROVE TypeOK'
  <2>1. Return(o, "aborted") /\ Uncount(o) /\ UNCHANGED <<status, response, future, holds, session, given>>
    BY <1>7 DEF Aborted
  <2>2. waiters' \in [Request -> Observer \cup {NoOne}]
    BY <1>7 DEF Aborted, TypeOK
  <2>. QED  BY <2>1, <2>2, ReturnType, UncountType DEF TypeOK
<1>8. ASSUME NEW r \in Request, NEW answer \in Answer, Resolve(r, answer) PROVE TypeOK'
  <2>1. given' \in [Request -> Answer \cup {"none"}]
    BY <1>8 DEF Resolve, TypeOK
  <2>2. Settle({r}, "resolved", answer, answer) /\ UNCHANGED <<counts, holds, place, told, session>>
    BY <1>8 DEF Resolve
  <2>. QED  BY <2>1, <2>2, SettleType DEF TypeOK
<1>9. ASSUME NEW s \in Source, CancelBySource(s) PROVE TypeOK'
  <2>1. {r \in Pending : SourceOf[r] = s} \in SUBSET Request /\ "reject" \in Answer
    BY DEF Pending, Answer
  <2>2. Settle({r \in Pending : SourceOf[r] = s}, "cancelled", "reject", "cancelled") /\ UNCHANGED calls
    BY <1>9 DEF CancelBySource
  <2>. QED  BY <2>1, <2>2, SettleType DEF TypeOK
<1>. QED  BY <1>0, <1>1, <1>2, <1>3, <1>4, <1>5, <1>6, <1>7, <1>8, <1>9 DEF Next, Woken

---------------------------------------------------------------------------
\* The inductive invariant.

\* What exists was asked for, and is asked for once.
Asked ==
  /\ \A r \in Request : place[r] = "idle" => status[r] = "none"
  /\ \A o \in Observer : place[o] \in UnderWay => status[Of(o)] # "none"

\* A registered future is that of a pending request, open, and was made by an
\* observer of the request.
Registered ==
  \A r \in Request : waiters[r] # NoOne =>
    /\ r \in Pending
    /\ Of(waiters[r]) = r
    /\ place[waiters[r]] # "idle"
    /\ future[waiters[r]] = "open"

\* A call holds a future of its own request.
Held ==
  \A o \in Observer : holds[o] # NoOne => Of(holds[o]) = Of(o) /\ place[holds[o]] # "idle"

\* The count of a request is the number of its calls that are under way.
Calls(r) == {o \in Observer : Of(o) = r /\ place[o] \in UnderWay}
Counted ==
  \A r \in Request : IsFiniteSet(Calls(r)) /\ counts[r] = Cardinality(Calls(r))

\* An approving answer, wherever it is kept, goes back to the user.
Given ==
  /\ \A r \in Request : status[r] \in {"none", "pending"} => given[r] = "none"
  /\ \A o \in Observer :
       /\ future[o] = "approve_for_session" => given[Of(o)] = "approve_for_session"
       /\ future[o] = "approve" => Approved(Of(o))
  /\ \A r \in Request : response[r] \in Approving => Approved(r)
  /\ \A a \in session : \E p \in Request : ActionOf[p] = a /\ given[p] = "approve_for_session"

IInv ==
  /\ TypeOK /\ HoldsOne /\ Asked /\ Registered /\ Held /\ Counted /\ Given
  /\ NoOneForgotten /\ OnlyApprovedGoAhead /\ NoNeedlessPrompt

LEMMA InvInit == Init => IInv
<1>. SUFFICES ASSUME Init PROVE IInv
  OBVIOUS
<1>1. TypeOK
  BY TypeInit
<1>2. HoldsOne /\ Asked /\ Registered /\ Held
  BY OfType DEF Init, HoldsOne, Asked, Registered, Held, UnderWay
<1>3. Counted
  <2>1. \A r \in Request : Calls(r) = {}
    BY DEF Init, Calls, UnderWay
  <2>. QED  BY <2>1, FS_EmptySet DEF Init, Counted
<1>4. Given /\ NoOneForgotten /\ OnlyApprovedGoAhead /\ NoNeedlessPrompt
  BY DEF Init, Given, NoOneForgotten, OnlyApprovedGoAhead, NoNeedlessPrompt, Pending, Approving
<1>. QED  BY <1>1, <1>2, <1>3, <1>4 DEF IInv

---------------------------------------------------------------------------
\* What the steps do to the places and holds of the calls.

\* One call changes its place, and holds what it held or, at its start, w.
Moves(o, x) == place' = [place EXCEPT ![o] = x]

LEMMA PlacesOfNext ==
  ASSUME TypeOK, HoldsOne, [Next]_vars
  PROVE  \/ UNCHANGED <<place, holds, counts>>
         \/ \E o \in Observer : /\ place[o] = "idle"
                                /\ Moves(o, "done")
                                /\ UNCHANGED <<holds, counts>>
         \/ \E o \in Observer, w \in Observer :
              /\ place[o] = "idle"
              /\ w = o \/ w = waiters[Of(o)]
              /\ Await(o, w)
         \/ \E o \in Observer : /\ place[o] \in UnderWay
                                /\ Moves(o, "done")
                                /\ Uncount(o)
                                /\ UNCHANGED holds
         \/ \E o \in Observer, x \in UnderWay : /\ place[o] = "waiting"
                                                /\ x # "waiting"
                                                /\ Moves(o, x)
                                                /\ UNCHANGED <<holds, counts>>
<1>. DEFINE Goal ==
         \/ UNCHANGED <<place, holds, counts>>
         \/ \E o \in Observer : /\ place[o] = "idle"
                                /\ Moves(o, "done")
                                /\ UNCHANGED <<holds, counts>>
         \/ \E o \in Observer, w \in Observer :
              /\ place[o] = "idle"
              /\ w = o \/ w = waiters[Of(o)]
              /\ Await(o, w)
         \/ \E o \in Observer : /\ place[o] \in UnderWay
                                /\ Moves(o, "done")
                                /\ Uncount(o)
                                /\ UNCHANGED holds
         \/ \E o \in Observer, x \in UnderWay : /\ place[o] = "waiting"
                                                /\ x # "waiting"
                                                /\ Moves(o, x)
                                                /\ UNCHANGED <<holds, counts>>
<1>1. CASE UNCHANGED vars
  BY <1>1 DEF vars, calls
<1>2. ASSUME NEW r \in Request, Ask(r) PROVE Goal
  BY <1>2 DEF Ask, MakeFuture, Observer
<1>3. ASSUME NEW r \in Request, AskAutoApproved(r) PROVE Goal
  BY <1>3 DEF AskAutoApproved, Return, Moves, Observer
<1>4. ASSUME NEW o \in Observer, Watch(o) PROVE Goal
  <2>1. CASE waiters[Of(o)] # NoOne /\ Await(o, waiters[Of(o)])
    <3>1. waiters[Of(o)] \in Observer
      BY <2>1, OfType DEF TypeOK
    <3>. QED  BY <1>4, <2>1, <3>1 DEF Watch
  <2>2. CASE MakeFuture(o)
    BY <1>4, <2>2 DEF Watch, MakeFuture
  <2>3. CASE /\ Return(o, IF status[Of(o)] = "cancelled" THEN "cancelled" ELSE response[Of(o)])
             /\ UNCHANGED <<shared, counts, holds>>
    BY <1>4, <2>3 DEF Watch, Return, Moves
  <2>. QED  BY <1>4, <2>1, <2>2, <2>3 DEF Watch
<1>5. ASSUME NEW o \in Observer, Woken(o) PROVE Goal
  <2>1. place[o] \in UnderWay /\ Moves(o, "done") /\ Uncount(o) /\ UNCHANGED holds
    BY <1>5 DEF Woken, Resume, TimedOut, Aborted, Return, Moves, UnderWay
  <2>. QED  BY <2>1
<1>6. ASSUME NEW o \in Observer, Timeout(o) \/ Cancel(o) PROVE Goal
  BY <1>6 DEF Timeout, Cancel, Moves, UnderWay
<1>7. ASSUME NEW r \in Request, NEW answer \in Answer, Resolve(r, answer) PROVE Goal
  BY <1>7 DEF Resolve
<1>8. ASSUME NEW s \in Source, CancelBySource(s) PROVE Goal
  BY <1>8 DEF CancelBySource, calls
<1>. QED  BY <1>1, <1>2, <1>3, <1>4, <1>5, <1>6, <1>7, <1>8 DEF Next

---------------------------------------------------------------------------
\* The parts of the invariant about places and holds.

LEMMA HoldsOneStep == TypeOK /\ HoldsOne /\ [Next]_vars => HoldsOne'
<1>. SUFFICES ASSUME TypeOK, HoldsOne, [Next]_vars,
                     NEW p \in Observer, place'[p] \in UnderWay
              PROVE  holds'[p] \in Observer
  BY DEF HoldsOne
<1>. USE DEF TypeOK, HoldsOne, Moves, UnderWay
<1>1. CASE UNCHANGED <<place, holds, counts>>
  BY <1>1
<1>2. CASE \E o \in Observer : Moves(o, "done") /\ UNCHANGED holds
  BY <1>2
<1>3. CASE \E o \in Observer, w \in Observer : Await(o, w)
  BY <1>3 DEF Await
<1>4. CASE \E o \in Observer, x \in UnderWay : /\ place[o] = "waiting"
                                               /\ Moves(o, x)
                                               /\ UNCHANGED holds
  BY <1>4
<1>. QED  BY <1>1, <1>2, <1>3, <1>4, PlacesOfNext

LEMMA HeldStep == TypeOK /\ HoldsOne /\ Registered /\ Held /\ [Next]_vars => Held'
<1>. SUFFICES ASSUME TypeOK, HoldsOne, Registered, Held, [Next]_vars,
                     NEW p \in Observer, holds'[p] # NoOne
              PROVE  Of(holds'[p]) = Of(p) /\ place'[holds'[p]] # "idle"
  BY DEF Held, Of
<1>0. holds'[p] \in Observer
  <2>1. CASE UNCHANGED holds
    BY <2>1 DEF TypeOK
  <2>2. CASE \E o \in Observer, w \in Observer : Await(o, w)
    <3>1. holds' \in [Observer -> Observer \cup {NoOne}]
      BY <2>2, AwaitType
    <3>. QED  BY <3>1
  <2>. QED  BY <2>1, <2>2, PlacesOfNext
<1>1. CASE UNCHANGED <<place, holds>>
  BY <1>1 DEF Held
<1>2. CASE \E o \in Observer, x \in Place \ {"idle"} : Moves(o, x) /\ UNCHANGED holds
  <2>1. PICK o \in Observer, x \in Place \ {"idle"} : Moves(o, x) /\ UNCHANGED holds
    BY <1>2
  <2>2. Of(holds[p]) = Of(p) /\ place[holds[p]] # "idle"
    BY <2>1 DEF Held
  <2>. QED  BY <1>0, <2>1, <2>2 DEF Moves, TypeOK
<1>3. CASE \E o \in Observer, w \in Observer : /\ w = o \/ w = waiters[Of(o)]
                                               /\ Await(o, w)
  <2>1. PICK o \in Observer, w \in Observer : /\ w = o \/ w = waiters[Of(o)]
                                              /\ Await(o, w)
    BY <1>3
  <2>2. w = o \/ (Of(w) = Of(o) /\ place[w] # "idle")
    BY <2>1, OfType, ApprovalsAssumption DEF Registered
  <2>3. /\ holds' = [holds EXCEPT ![o] = w]
        /\ place' = [place EXCEPT ![o] = "waiting"]
    BY <2>1 DEF Await
  <2>4. CASE p = o
    BY <2>2, <2>3, <2>4 DEF TypeOK
  <2>5. CASE p # o
    <3>1. holds'[p] = holds[p]
      BY <2>3, <2>5 DEF TypeOK
    <3>. QED  BY <1>0, <2>3, <3>1 DEF Held, TypeOK
  <2>. QED  BY <2>4, <2>5
<1>. QED  BY <1>1, <1>2, <1>3, PlacesOfNext DEF Place, UnderWay

\* The calls under way of a request, when one call moves.
LEMMA CallsStay ==
  ASSUME TypeOK, NEW o \in Observer, NEW x \in Place, Moves(o, x),
         x \in UnderWay <=> place[o] \in UnderWay, NEW r
  PROVE  Calls(r)' = Calls(r)
BY DEF Calls, Moves, TypeOK, Of

LEMMA CallsGrow ==
  ASSUME TypeOK, NEW o \in Observer, NEW x \in UnderWay, Moves(o, x),
         place[o] \notin UnderWay, NEW r
  PROVE  Calls(r)' = IF r = Of(o) THEN Calls(r) \cup {o} ELSE Calls(r)
BY DEF Calls, Moves, TypeOK, Of

LEMMA CallsShrink ==
  ASSUME TypeOK, NEW o \in Observer, NEW x \in Place \ UnderWay, Moves(o, x),
         place[o] \in UnderWay, NEW r
  PROVE  Calls(r)' = IF r = Of(o) THEN Calls(r) \ {o} ELSE Calls(r)
BY DEF Calls, Moves, TypeOK, Of

LEMMA CountedStep == TypeOK /\ HoldsOne /\ Counted /\ [Next]_vars => Counted'
<1>. SUFFICES ASSUME TypeOK, HoldsOne, Counted, [Next]_vars, NEW r \in Request
              PROVE  IsFiniteSet(Calls(r)') /\ counts'[r] = Cardinality(Calls(r)')
  BY DEF Counted
<1>0. IsFiniteSet(Calls(r)) /\ counts[r] = Cardinality(Calls(r)) /\ counts \in [Request -> Nat]
  BY DEF Counted, TypeOK
<1>1. CASE UNCHANGED <<place, holds, counts>>
  <2>1. Calls(r)' = Calls(r)
    BY <1>1 DEF Calls, Of
  <2>. QED  BY <1>0, <1>1, <2>1
<1>2. CASE \E o \in Observer, x \in Place : /\ x \in UnderWay <=> place[o] \in UnderWay
                                            /\ Moves(o, x)
                                            /\ UNCHANGED counts
  <2>1. Calls(r)' = Calls(r)
    BY <1>2, CallsStay
  <2>. QED  BY <1>0, <1>2, <2>1
<1>3. CASE \E o \in Observer, w \in Observer : place[o] = "idle" /\ Await(o, w)
  <2>1. PICK o \in Observer, w \in Observer : place[o] = "idle" /\ Await(o, w)
    BY <1>3
  <2>2. Moves(o, "waiting") /\ counts' = [counts EXCEPT ![Of(o)] = counts[Of(o)] + 1]
    BY <2>1 DEF Await, Moves
  <2>3. Calls(r)' = IF r = Of(o) THEN Calls(r) \cup {o} ELSE Calls(r)
    BY <2>1, <2>2, CallsGrow DEF UnderWay
  <2>4. CASE r # Of(o)
    BY <1>0, <2>2, <2>3, <2>4
  <2>5. CASE r = Of(o)
    <3>1. o \notin Calls(r)
      BY <2>1 DEF Calls, UnderWay
    <3>2. counts'[r] = counts[r] + 1
      BY <1>0, <2>2, <2>5
    <3>. QED  BY <1>0, <2>3, <2>5, <3>1, <3>2, FS_AddElement
  <2>. QED  BY <2>4, <2>5
<1>4. CASE \E o \in Observer : /\ place[o] \in UnderWay
                               /\ Moves(o, "done")
                               /\ Uncount(o)
  <2>1. PICK o \in Observer : /\ place[o] \in UnderWay
                              /\ Moves(o, "done")
                              /\ Uncount(o)
    BY <1>4
  <2>2. Calls(r)' = IF r = Of(o) THEN Calls(r) \ {o} ELSE Calls(r)
    BY <2>1, CallsShrink DEF UnderWay, Place
  <2>3. CASE r # Of(o)
    BY <1>0, <2>1, <2>2, <2>3 DEF Uncount
  <2>4. CASE r = Of(o)
    <3>1. o \in Calls(r)
      BY <2>1, <2>4 DEF Calls
    <3>2. /\ IsFiniteSet(Calls(r) \ {o})
          /\ Cardinality(Calls(r) \ {o}) = Cardinality(Calls(r)) - 1
      BY <1>0, <3>1, FS_RemoveElement
    <3>3. PICK k \in Nat : k = counts[r]
      BY <1>0
    <3>4. k # 0
      BY <1>0, <3>1, <3>3, FS_EmptySet
    <3>5. counts'[r] = k - 1
      <4>1. counts' = [counts EXCEPT ![r] = IF k > 0 THEN k - 1 ELSE 0]
        BY <2>1, <2>4, <3>3 DEF Uncount
      <4>. QED  BY <1>0, <3>3, <3>4, <4>1
    <3>. QED  BY <1>0, <2>2, <2>4, <3>2, <3>3, <3>5
  <2>. QED  BY <2>3, <2>4
<1>. QED  BY <1>1, <1>2, <1>3, <1>4, PlacesOfNext DEF Place, UnderWay

---------------------------------------------------------------------------
\* What the steps do to the shared futures.

\* o leaves a pending request that nobody else observes, and drops its future.
Drops(o) ==
  /\ place[o] \in UnderWay
  /\ Of(o) \in Pending
  /\ LastToLeave(o)
  /\ Moves(o, "done")
  /\ waiters' = [waiters EXCEPT ![Of(o)] = NoOne]
  /\ UNCHANGED <<future, holds, given, session>>
  /\ \/ UNCHANGED <<status, response>>
     \/ /\ status' = [status EXCEPT ![Of(o)] = "cancelled"]
        /\ response' = [response EXCEPT ![Of(o)] = "reject"]

\* o makes the future of a request that has none.
Makes(o) ==
  /\ place[o] = "idle"
  /\ waiters[Of(o)] = NoOne
  /\ MakeFuture(o)
  /\ status' = [status EXCEPT ![Of(o)] = "pending"]
  /\ UNCHANGED <<response, given, session>>
  /\ \/ status[Of(o)] = "pending"
     \/ status[Of(o)] = "none" /\ Of(o) = o /\ ActionOf[o] \notin session

\* Pending requests are decided: cancelled, covered by what was approved for the
\* session, or answered by the user.
Cause(R, answer, outcome) ==
  \/ /\ answer = "reject" /\ outcome = "cancelled"
     /\ UNCHANGED <<given, session>>
  \/ /\ answer = "approve" /\ outcome = "approve"
     /\ \E o \in Request : /\ R = Covered(o)
                           /\ place[o] = "waiting"
                           /\ future[holds[o]] = "approve_for_session"
                           /\ session' = session \cup {ActionOf[o]}
     /\ UNCHANGED given
  \/ /\ answer = outcome
     /\ \E r \in Pending : R = {r} /\ given' = [given EXCEPT ![r] = answer]
     /\ UNCHANGED session
Decides(R, state, answer, outcome) ==
  /\ R \subseteq Pending
  /\ Settle(R, state, answer, outcome)
  /\ Cause(R, answer, outcome)

LEMMA SharedOfNext ==
  ASSUME TypeOK, Asked, Registered, [Next]_vars
  PROVE  \/ UNCHANGED <<shared, given, session>>
         \/ \E o \in Observer : Makes(o)
         \/ \E o \in Observer : Drops(o)
         \/ \E R \in SUBSET Pending, state \in {"resolved", "cancelled"},
               answer \in Answer, outcome \in Answer \cup {"cancelled"} :
               Decides(R, state, answer, outcome)
<1>. DEFINE Decided == \E R \in SUBSET Pending, state \in {"resolved", "cancelled"},
               answer \in Answer, outcome \in Answer \cup {"cancelled"} :
               Decides(R, state, answer, outcome)
            Goal == \/ UNCHANGED <<shared, given, session>>
                    \/ \E o \in Observer : Makes(o)
                    \/ \E o \in Observer : Drops(o)
                    \/ Decided
<1>0. /\ {"approve", "reject"} \subseteq Answer
      /\ \A r \in Request : Covered(r) \in SUBSET Pending
      /\ \A s \in Source : {r \in Pending : SourceOf[r] = s} \in SUBSET Pending
  BY DEF Answer, Covered
<1>1. CASE UNCHANGED vars
  BY <1>1 DEF vars, calls
<1>2. ASSUME NEW r \in Request, Ask(r) PROVE Goal
  <2>1. r \in Observer /\ Of(r) = r
    BY DEF Observer, Of
  <2>2. status[r] = "none" /\ waiters[r] = NoOne
    BY <1>2, <2>1 DEF Ask, Asked, Registered, Pending
  <2>3. Makes(r)
    BY <1>2, <2>1, <2>2 DEF Ask, Makes, AutoApproved
  <2>. QED  BY <2>1, <2>3
<1>3. ASSUME NEW r \in Request, AskAutoApproved(r) PROVE Goal
  BY <1>3 DEF AskAutoApproved
<1>4. ASSUME NEW o \in Observer, Watch(o) PROVE Goal
  <2>1. CASE UNCHANGED <<shared, given, session>>
    BY <2>1
  <2>2. CASE /\ waiters[Of(o)] = NoOne
             /\ status[Of(o)] = "pending"
             /\ MakeFuture(o)
             /\ UNCHANGED <<status, response, told>>
    <3>1. status' = [status EXCEPT ![Of(o)] = "pending"]
      BY <2>2, OfType DEF TypeOK
    <3>. QED  BY <1>4, <2>2, <3>1 DEF Watch, Makes
  <2>. QED  BY <1>4, <2>1, <2>2 DEF Watch
<1>5. ASSUME NEW o \in Observer, Resume(o) PROVE Goal
  <2>1. CASE o \in Request /\ Settle(Covered(o), "resolved", "approve", "approve")
                          /\ future[holds[o]] = "approve_for_session"
                          /\ session' = session \cup {ActionOf[o]}
    <3>0. Cause(Covered(o), "approve", "approve")
      BY <1>5, <2>1 DEF Cause, Resume
    <3>1. Decides(Covered(o), "resolved", "approve", "approve")
      BY <1>0, <2>1, <3>0 DEF Decides
    <3>2. Decided
      BY <1>0, <2>1, <3>1
    <3>. QED  BY <3>2
  <2>. QED  BY <1>5, <2>1 DEF Resume
<1>6. ASSUME NEW o \in Observer, Timeout(o) \/ Cancel(o) PROVE Goal
  BY <1>6 DEF Timeout, Cancel
<1>7. ASSUME NEW o \in Observer, TimedOut(o) PROVE Goal
  <2>1. CASE UNCHANGED <<shared, given, session>>
    BY <2>1
  <2>2. CASE /\ Of(o) \in Pending
             /\ Settle({Of(o)}, "cancelled", "reject", "cancelled")
    <3>1. Decides({Of(o)}, "cancelled", "reject", "cancelled")
      BY <1>7, <2>2 DEF Decides, Cause, TimedOut
    <3>2. Decided
      BY <1>0, <2>2, <3>1
    <3>. QED  BY <3>2
  <2>3. CASE /\ Of(o) \in Pending
             /\ LastToLeave(o)
             /\ status' = [status EXCEPT ![Of(o)] = "cancelled"]
             /\ response' = [response EXCEPT ![Of(o)] = "reject"]
             /\ waiters' = [waiters EXCEPT ![Of(o)] = NoOne]
             /\ UNCHANGED future
    BY <1>7, <2>3 DEF TimedOut, Drops, Return, Moves, UnderWay
  <2>. QED  BY <1>7, <2>1, <2>2, <2>3 DEF TimedOut
<1>8. ASSUME NEW o \in Observer, Aborted(o) PROVE Goal
  <2>1. CASE DropsFuture(o)
    BY <1>8, <2>1, OfType DEF Aborted, Drops, DropsFuture, Return, Moves, UnderWay, Pending
  <2>2. CASE ~DropsFuture(o)
    BY <1>8, <2>2 DEF Aborted, shared
  <2>. QED  BY <2>1, <2>2
<1>9. ASSUME NEW r \in Request, NEW answer \in Answer, Resolve(r, answer) PROVE Goal
  <2>1. Decides({r}, "resolved", answer, answer) /\ {r} \in SUBSET Pending
    BY <1>9 DEF Resolve, Decides, Cause
  <2>2. Decided
    BY <2>1
  <2>. QED  BY <2>2
<1>10. ASSUME NEW s \in Source, CancelBySource(s) PROVE Goal
  <2>1. Decides({r \in Pending : SourceOf[r] = s}, "cancelled", "reject", "cancelled")
    BY <1>0, <1>10 DEF CancelBySource, Decides, Cause, calls
  <2>2. Decided
    BY <1>0, <2>1
  <2>. QED  BY <2>2
<1>. QED  BY <1>1, <1>2, <1>3, <1>4, <1>5, <1>6, <1>7, <1>8, <1>9, <1>10 DEF Next, Woken

\* Nobody waits for a request whose only observer leaves it.
LEMMA LastIsAlone ==
  ASSUME TypeOK, Counted, NEW o \in Observer, place[o] \in UnderWay, LastToLeave(o),
         NEW p \in Observer, place[p] \in UnderWay, Of(p) = Of(o)
  PROVE  p = o
<1>. DEFINE C == Calls(Of(o))
<1>0. Of(o) \in Request
  BY OfType
<1>1. IsFiniteSet(C) /\ counts[Of(o)] = Cardinality(C) /\ o \in C /\ p \in C
  BY <1>0 DEF Counted, Calls
<1>2. Cardinality(C) \in Nat /\ Cardinality(C) <= 1
  BY <1>0, <1>1, FS_CardinalityType DEF LastToLeave
<1>3. IsFiniteSet(C \ {o}) /\ Cardinality(C \ {o}) = Cardinality(C) - 1
  BY <1>1, FS_RemoveElement
<1>4. Cardinality(C \ {o}) = 0
  BY <1>2, <1>3, FS_CardinalityType
<1>5. C \ {o} = {}
  BY <1>3, <1>4, FS_EmptySet
<1>. QED  BY <1>1, <1>5

---------------------------------------------------------------------------
\* The parts of the invariant about the requests and their futures.

\* A call that starts makes the future or takes the one that is registered.
LEMMA StartsOfNext ==
  ASSUME TypeOK, HoldsOne, Asked, Registered, [Next]_vars,
         NEW p \in Observer, place[p] = "idle", place'[p] \in UnderWay
  PROVE  \/ Makes(p)
         \/ /\ status[Of(p)] # "none"
            /\ waiters[Of(p)] # NoOne
            /\ Await(p, waiters[Of(p)])
            /\ UNCHANGED shared
<1>. DEFINE Joins(o) == /\ status[Of(o)] # "none"
                        /\ waiters[Of(o)] # NoOne
                        /\ Await(o, waiters[Of(o)])
                        /\ UNCHANGED shared
<1>0. \A o \in Observer, x \in Place \ UnderWay : ~Moves(o, x)
  BY DEF Moves, TypeOK, UnderWay
<1>1. CASE UNCHANGED place
  BY <1>1 DEF UnderWay
<1>2. CASE \E o \in Observer : Makes(o) \/ Joins(o)
  <2>1. PICK o \in Observer : Makes(o) \/ Joins(o)
    BY <1>2
  <2>2. place' = [place EXCEPT ![o] = "waiting"]
    BY <2>1 DEF Makes, MakeFuture, Await
  <2>3. o = p
    BY <2>2 DEF TypeOK, UnderWay
  <2>. QED  BY <2>1, <2>3
<1>3. ASSUME NEW r \in Request, Ask(r) PROVE \E o \in Observer : Makes(o)
  <2>1. r \in Observer /\ Of(r) = r
    BY DEF Observer, Of
  <2>2. status[r] = "none" /\ waiters[r] = NoOne
    BY <1>3, <2>1 DEF Ask, Asked, Registered, Pending
  <2>3. Makes(r)
    BY <1>3, <2>1, <2>2 DEF Ask, Makes, AutoApproved
  <2>. QED  BY <2>1, <2>3
<1>4. ASSUME NEW r \in Request, AskAutoApproved(r) PROVE FALSE
  BY <1>0, <1>4 DEF AskAutoApproved, Return, Moves, Observer, Place, UnderWay
<1>5. ASSUME NEW o \in Observer, Watch(o) PROVE Makes(o) \/ Joins(o)
  <2>1. CASE waiters[Of(o)] # NoOne /\ Await(o, waiters[Of(o)]) /\ UNCHANGED <<shared, told>>
    BY <1>5, <2>1 DEF Watch
  <2>2. CASE /\ waiters[Of(o)] = NoOne
             /\ status[Of(o)] = "pending"
             /\ MakeFuture(o)
             /\ UNCHANGED <<status, response, told>>
    <3>1. status' = [status EXCEPT ![Of(o)] = "pending"]
      BY <2>2, OfType DEF TypeOK
    <3>. QED  BY <1>5, <2>2, <3>1 DEF Watch, Makes
  <2>3. ~Return(o, IF status[Of(o)] = "cancelled" THEN "cancelled" ELSE response[Of(o)])
    BY <1>0 DEF Return, Moves, Place, UnderWay
  <2>. QED  BY <1>5, <2>1, <2>2, <2>3 DEF Watch
<1>6. ASSUME NEW o \in Observer, Woken(o) PROVE FALSE
  BY <1>0, <1>6 DEF Woken, Resume, TimedOut, Aborted, Return, Moves, Place, UnderWay
<1>7. ASSUME NEW o \in Observer, Timeout(o) \/ Cancel(o) PROVE FALSE
  BY <1>7 DEF Timeout, Cancel, TypeOK, UnderWay
<1>8. ASSUME NEW r \in Request, NEW answer \in Answer, Resolve(r, answer) PROVE UNCHANGED place
  BY <1>8 DEF Resolve
<1>9. ASSUME NEW s \in Source, CancelBySource(s) PROVE UNCHANGED place
  BY <1>9 DEF CancelBySource, calls
<1>10. CASE UNCHANGED vars
  BY <1>1, <1>10 DEF vars, calls
<1>11. CASE Next
  <2>1. \/ \E r \in Request : Ask(r)
        \/ \E o \in Observer : Watch(o)
        \/ UNCHANGED place
    BY <1>4, <1>6, <1>7, <1>8, <1>9, <1>11 DEF Next
  <2>2. (\E o \in Observer : Makes(o) \/ Joins(o)) \/ UNCHANGED place
    BY <1>3, <1>5, <2>1
  <2>. QED  BY <1>1, <1>2, <2>2
<1>. QED  BY <1>10, <1>11

\* The status of a request never returns to "none", and leaves it only with Makes.
LEMMA StatusOfNext ==
  ASSUME TypeOK, Asked, Registered, [Next]_vars, NEW r \in Request
  PROVE  /\ status[r] # "none" => status'[r] # "none"
         /\ status'[r] # status[r] =>
              \/ status[r] = "pending" /\ status'[r] \in {"resolved", "cancelled"}
              \/ status[r] = "none" /\ status'[r] = "pending" /\ r \in Observer /\ Makes(r)
<1>1. CASE UNCHANGED shared
  BY <1>1 DEF shared
<1>2. CASE \E o \in Observer : Makes(o)
  <2>1. PICK o \in Observer : Makes(o)
    BY <1>2
  <2>2. CASE r = Of(o)
    BY <2>1, <2>2 DEF Makes, TypeOK
  <2>3. CASE r # Of(o)
    BY <2>1, <2>3 DEF Makes, TypeOK
  <2>. QED  BY <2>2, <2>3
<1>3. CASE \E o \in Observer : Drops(o)
  BY <1>3 DEF Drops, TypeOK, Pending
<1>4. CASE \E R \in SUBSET Pending, state \in {"resolved", "cancelled"},
             answer \in Answer, outcome \in Answer \cup {"cancelled"} :
             Decides(R, state, answer, outcome)
  <2>1. PICK R \in SUBSET Pending, state \in {"resolved", "cancelled"},
             answer \in Answer, outcome \in Answer \cup {"cancelled"} :
             Decides(R, state, answer, outcome)
    BY <1>4
  <2>2. status'[r] = IF r \in R THEN state ELSE status[r]
    BY <2>1 DEF Decides, Settle
  <2>3. r \in R => status[r] = "pending"
    BY DEF Pending
  <2>. QED  BY <2>2, <2>3
<1>. QED  BY <1>1, <1>2, <1>3, <1>4, SharedOfNext

LEMMA AskedStep == TypeOK /\ HoldsOne /\ Asked /\ Registered /\ [Next]_vars => Asked'
<1>. SUFFICES ASSUME TypeOK, HoldsOne, Asked, Registered, [Next]_vars PROVE Asked'
  OBVIOUS
<1>0. \A p \in Observer : place'[p] = "idle" => place[p] = "idle"
  BY PlacesOfNext DEF Moves, Await, TypeOK, UnderWay
<1>a. \A p \in Observer : place'[p] \in UnderWay => place[p] \in UnderWay \/ place[p] = "idle"
  BY PlacesOfNext DEF Moves, Await, TypeOK, UnderWay
<1>1. ASSUME NEW r \in Request, place'[r] = "idle" PROVE status'[r] = "none"
  <2>0. r \in Observer
    BY DEF Observer
  <2>1. r \in Observer /\ status[r] = "none"
    BY <1>0, <1>1, <2>0 DEF Asked
  <2>2. ~Makes(r)
    BY <1>1, <2>1 DEF Makes, MakeFuture, Await, TypeOK
  <2>. QED  BY <2>1, <2>2, StatusOfNext
<1>2. ASSUME NEW o \in Observer, place'[o] \in UnderWay PROVE status'[Of(o)] # "none"
  <2>0. Of(o) \in Request
    BY OfType
  <2>1. CASE place[o] \in UnderWay
    BY <2>0, <2>1, StatusOfNext DEF Asked
  <2>2. CASE place[o] = "idle"
    <3>1. CASE Makes(o)
      BY <2>0, <3>1 DEF Makes, TypeOK
    <3>2. CASE status[Of(o)] # "none" /\ UNCHANGED shared
      BY <3>2 DEF shared
    <3>. QED  BY <1>2, <2>2, <3>1, <3>2, StartsOfNext
  <2>. QED  BY <1>a, <1>2, <2>1, <2>2
<1>. QED  BY <1>1, <1>2 DEF Asked, Of

LEMMA RegisteredStep == TypeOK /\ HoldsOne /\ Asked /\ Registered /\ [Next]_vars => Registered'
<1>. SUFFICES ASSUME TypeOK, HoldsOne, Asked, Registered, [Next]_vars,
                     NEW r \in Request, waiters'[r] # NoOne
              PROVE  /\ status'[r] = "pending"
                     /\ Of(waiters'[r]) = r
                     /\ place'[waiters'[r]] # "idle"
                     /\ future'[waiters'[r]] = "open"
  BY DEF Registered, Pending, Of
<1>0. \A p \in Observer : place'[p] = "idle" => place[p] = "idle"
  BY PlacesOfNext DEF Moves, Await, TypeOK, UnderWay
<1>a. \A p \in Observer : Of(p) \in Request
  BY OfType
<1>b. ASSUME waiters[r] # NoOne
      PROVE  /\ status[r] = "pending" /\ waiters[r] \in Observer
             /\ Of(waiters[r]) = r
             /\ place[waiters[r]] # "idle"
             /\ place'[waiters[r]] # "idle"
             /\ future[waiters[r]] = "open"
  <2>1. /\ status[r] = "pending" /\ waiters[r] \in Observer
        /\ Of(waiters[r]) = r
        /\ place[waiters[r]] # "idle"
        /\ future[waiters[r]] = "open"
    <3>1. waiters[r] \in Observer
      BY <1>b DEF TypeOK
    <3>2. /\ r \in Pending
          /\ Of(waiters[r]) = r
          /\ place[waiters[r]] # "idle"
          /\ future[waiters[r]] = "open"
      BY <1>b DEF Registered
    <3>. QED  BY <3>1, <3>2 DEF Pending
  <2>2. place'[waiters[r]] # "idle"
    BY <1>0, <2>1
  <2>. QED  BY <2>1, <2>2
<1>1. CASE UNCHANGED shared
  BY <1>1, <1>b DEF shared
<1>2. ASSUME NEW o \in Observer, Makes(o)
      PROVE  /\ status'[r] = "pending"
             /\ Of(waiters'[r]) = r
             /\ place'[waiters'[r]] # "idle"
             /\ future'[waiters'[r]] = "open"
  <2>1. /\ status' = [status EXCEPT ![Of(o)] = "pending"]
        /\ waiters' = [waiters EXCEPT ![Of(o)] = o]
        /\ future' = [future EXCEPT ![o] = "open"]
        /\ place' = [place EXCEPT ![o] = "waiting"]
    BY <1>2 DEF Makes, MakeFuture, Await
  <2>2. CASE r = Of(o)
    BY <1>a, <2>1, <2>2 DEF TypeOK
  <2>3. CASE r # Of(o)
    <3>1. waiters'[r] = waiters[r] /\ status'[r] = status[r]
      BY <2>1, <2>3 DEF TypeOK
    <3>2. waiters[r] # o
      BY <1>2, <1>b, <3>1 DEF Makes
    <3>. QED  BY <1>b, <2>1, <3>1, <3>2 DEF TypeOK
  <2>. QED  BY <2>2, <2>3
<1>3. ASSUME NEW o \in Observer, Drops(o)
      PROVE  /\ status'[r] = "pending"
             /\ Of(waiters'[r]) = r
             /\ place'[waiters'[r]] # "idle"
             /\ future'[waiters'[r]] = "open"
  <2>1. r # Of(o) /\ waiters'[r] = waiters[r] /\ future' = future
    BY <1>3 DEF Drops, TypeOK
  <2>2. status'[r] = status[r]
    BY <1>3, <2>1 DEF Drops, TypeOK
  <2>. QED  BY <1>b, <2>1, <2>2
<1>4. ASSUME NEW R \in SUBSET Pending, NEW state \in {"resolved", "cancelled"},
             NEW answer \in Answer, NEW outcome \in Answer \cup {"cancelled"},
             Decides(R, state, answer, outcome)
      PROVE  /\ status'[r] = "pending"
             /\ Of(waiters'[r]) = r
             /\ place'[waiters'[r]] # "idle"
             /\ future'[waiters'[r]] = "open"
  <2>1. r \notin R /\ waiters'[r] = waiters[r] /\ status'[r] = status[r]
    BY <1>4 DEF Decides, Settle
  <2>2. ~ \E q \in R : waiters[q] = waiters[r]
    <3>1. SUFFICES ASSUME NEW q \in R, waiters[q] = waiters[r] PROVE FALSE
      OBVIOUS
    <3>2. q \in Request /\ Of(waiters[q]) = q
      BY <2>1, <3>1 DEF Registered, Pending
    <3>. QED  BY <1>b, <2>1, <3>1, <3>2
  <2>3. future'[waiters[r]] = future[waiters[r]]
    BY <1>4, <1>b, <2>1, <2>2 DEF Decides, Settle
  <2>. QED  BY <1>b, <2>1, <2>3
<1>. QED  BY <1>1, <1>2, <1>3, <1>4, SharedOfNext

---------------------------------------------------------------------------
\* The steps preserve the safety properties.

LEMMA NoOneForgottenStep == IInv /\ [Next]_vars => NoOneForgotten'
<1>. SUFFICES ASSUME IInv, [Next]_vars, NEW p \in Observer, place'[p] = "waiting"
              PROVE  IF status'[Of(p)] = "pending"
                     THEN holds'[p] = waiters'[Of(p)] /\ future'[holds'[p]] = "open"
                     ELSE future'[holds'[p]] # "open"
  BY OfType DEF NoOneForgotten, Pending, Of
<1>. DEFINE r == Of(p)
            Goal == IF status'[r] = "pending"
                    THEN holds'[p] = waiters'[r] /\ future'[holds'[p]] = "open"
                    ELSE future'[holds'[p]] # "open"
<1>. HIDE DEF Goal
<1>0. r \in Request /\ TypeOK /\ HoldsOne /\ Asked /\ Registered /\ Held /\ Counted /\ NoOneForgotten
  BY OfType DEF IInv
<1>1. place[p] = "waiting" \/ place[p] = "idle"
  BY <1>0, PlacesOfNext DEF Moves, Await, TypeOK, UnderWay
<1>2. CASE place[p] = "idle"
  <2>1. CASE Makes(p)
    <3>1. /\ waiters' = [waiters EXCEPT ![r] = p]
          /\ future' = [future EXCEPT ![p] = "open"]
          /\ holds' = [holds EXCEPT ![p] = p]
      BY <2>1 DEF Makes, MakeFuture, Await
    <3>2. status'[r] = "pending"
      BY <1>0, <2>1 DEF Makes, TypeOK
    <3>. QED  BY <1>0, <3>1, <3>2 DEF TypeOK, Goal
  <2>2. CASE waiters[r] # NoOne /\ Await(p, waiters[r]) /\ UNCHANGED shared
    <3>1. r \in Pending /\ future[waiters[r]] = "open"
      BY <1>0, <2>2 DEF Registered
    <3>2. holds'[p] = waiters[r]
      BY <1>0, <2>2 DEF Await, TypeOK
    <3>. QED  BY <2>2, <3>1, <3>2 DEF shared, Pending, Goal
  <2>3. place'[p] \in UnderWay
    BY DEF UnderWay
  <2>4. Makes(p) \/ (waiters[r] # NoOne /\ Await(p, waiters[r]) /\ UNCHANGED shared)
    BY <1>0, <1>2, <2>3, StartsOfNext
  <2>. QED  BY <2>1, <2>2, <2>4
<1>3. CASE place[p] = "waiting"
  <2>1. holds'[p] = holds[p]
    BY <1>0, <1>3, PlacesOfNext DEF Await, TypeOK, UnderWay
  <2>2. /\ holds[p] \in Observer /\ Of(holds[p]) = r /\ place[holds[p]] # "idle"
        /\ status[r] # "none"
    BY <1>0, <1>3, ApprovalsAssumption DEF HoldsOne, Held, Asked, UnderWay
  <2>3. IF status[r] = "pending" THEN holds[p] = waiters[r] /\ future[holds[p]] = "open"
                                 ELSE future[holds[p]] # "open"
    BY <1>0, <1>3 DEF NoOneForgotten, Pending
  <2>4. CASE UNCHANGED shared
    BY <2>1, <2>3, <2>4 DEF shared, Goal
  <2>5. ASSUME NEW o \in Observer, Makes(o) PROVE Goal
    <3>1. /\ waiters' = [waiters EXCEPT ![Of(o)] = o]
          /\ status' = [status EXCEPT ![Of(o)] = "pending"]
          /\ future' = [future EXCEPT ![o] = "open"]
          /\ place[o] = "idle" /\ waiters[Of(o)] = NoOne
          /\ status[Of(o)] \in {"none", "pending"}
      BY <2>5 DEF Makes, MakeFuture
    <3>2. Of(o) # r
      BY <2>2, <2>3, <3>1, ApprovalsAssumption
    <3>3. waiters'[r] = waiters[r] /\ status'[r] = status[r]
      BY <1>0, <3>1, <3>2 DEF TypeOK
    <3>4. future'[holds[p]] = future[holds[p]]
      BY <1>0, <2>2, <3>1 DEF TypeOK
    <3>. QED  BY <2>1, <2>3, <3>3, <3>4 DEF Goal
  <2>6. ASSUME NEW o \in Observer, Drops(o) PROVE Goal
    <3>1. Of(o) # r
      <4>1. SUFFICES ASSUME Of(o) = r PROVE FALSE
        OBVIOUS
      <4>2. place[o] \in UnderWay /\ LastToLeave(o) /\ Moves(o, "done")
        BY <2>6 DEF Drops
      <4>3. p = o
        BY <1>0, <1>3, <4>1, <4>2, LastIsAlone DEF UnderWay
      <4>. QED  BY <1>0, <4>2, <4>3 DEF Moves, TypeOK
    <3>2. waiters'[r] = waiters[r] /\ future' = future
      BY <1>0, <2>6, <3>1 DEF Drops, TypeOK
    <3>3. status'[r] = status[r]
      BY <1>0, <2>6, <3>1 DEF Drops, TypeOK
    <3>. QED  BY <2>1, <2>3, <3>2, <3>3 DEF Goal
  <2>7. ASSUME NEW R \in SUBSET Pending, NEW state \in {"resolved", "cancelled"},
               NEW answer \in Answer, NEW outcome \in Answer \cup {"cancelled"},
               Decides(R, state, answer, outcome)
        PROVE  Goal
    <3>1. /\ status'[r] = IF r \in R THEN state ELSE status[r]
          /\ waiters'[r] = IF r \in R THEN NoOne ELSE waiters[r]
          /\ future'[holds[p]] = IF future[holds[p]] = "open" /\ \E q \in R : waiters[q] = holds[p]
                                 THEN outcome ELSE future[holds[p]]
      BY <1>0, <2>2, <2>7 DEF Decides, Settle
    <3>2. outcome # "open"
      BY DEF Answer
    <3>3. CASE r \in R
      <4>1. status[r] = "pending"
        BY <1>0, <3>3 DEF Pending
      <4>2. future'[holds[p]] = outcome
        BY <2>3, <3>1, <3>3, <4>1
      <4>. QED  BY <2>1, <3>1, <3>2, <3>3, <4>2 DEF Goal
    <3>4. CASE r \notin R
      <4>1. ~ \E q \in R : waiters[q] = holds[p]
        <5>1. SUFFICES ASSUME NEW q \in R, waiters[q] = holds[p] PROVE FALSE
          OBVIOUS
        <5>2. q \in Request /\ waiters[q] # NoOne
          BY <2>2, <5>1, ApprovalsAssumption DEF Pending
        <5>3. Of(waiters[q]) = q
          BY <1>0, <5>2 DEF Registered
        <5>. QED  BY <2>2, <3>4, <5>1, <5>3
      <4>2. future'[holds[p]] = future[holds[p]]
        BY <3>1, <4>1
      <4>. QED  BY <2>1, <2>3, <3>1, <3>4, <4>2 DEF Goal
    <3>. QED  BY <3>3, <3>4
  <2>8. \/ UNCHANGED <<shared, given, session>>
        \/ \E o \in Observer : Makes(o)
        \/ \E o \in Observer : Drops(o)
        \/ \E R \in SUBSET Pending, state \in {"resolved", "cancelled"},
              answer \in Answer, outcome \in Answer \cup {"cancelled"} :
              Decides(R, state, answer, outcome)
    BY <1>0, SharedOfNext
  <2>. QED  BY <2>4, <2>5, <2>6, <2>7, <2>8 DEF Goal
<1>. QED  BY <1>1, <1>2, <1>3

\* What the user has answered stays.
LEMMA GivenOfNext ==
  ASSUME TypeOK, Asked, Registered, Given, [Next]_vars, NEW r \in Request, given[r] # "none"
  PROVE  given'[r] = given[r]
<1>1. r \notin Pending
  BY DEF Given, Pending
<1>2. CASE UNCHANGED given
  BY <1>2
<1>3. CASE \E q \in Pending, answer \in Answer : given' = [given EXCEPT ![q] = answer]
  BY <1>1, <1>3 DEF TypeOK
<1>. QED  BY <1>2, <1>3, SharedOfNext DEF Makes, Drops, Decides, Cause

LEMMA ApprovedStays ==
  ASSUME TypeOK, Asked, Registered, Given, [Next]_vars, NEW r \in Request, Approved(r)
  PROVE  Approved(r)'
<1>1. CASE given[r] \in Approving
  <2>1. given'[r] = given[r]
    BY <1>1, GivenOfNext DEF Approving
  <2>. QED  BY <1>1, <2>1 DEF Approved
<1>2. CASE \E p \in Request : ActionOf[p] = ActionOf[r] /\ given[p] = "approve_for_session"
  <2>1. PICK p \in Request : ActionOf[p] = ActionOf[r] /\ given[p] = "approve_for_session"
    BY <1>2
  <2>2. given'[p] = given[p]
    BY <2>1, GivenOfNext
  <2>. QED  BY <2>1, <2>2 DEF Approved
<1>. QED  BY <1>1, <1>2 DEF Approved

\* A call that holds "approve_for_session" holds it for its own request.
LEMMA ResumedWith ==
  ASSUME TypeOK, HoldsOne, Held, Given, NEW o \in Observer, place[o] = "waiting"
  PROVE  /\ future[holds[o]] = "approve_for_session" => given[Of(o)] = "approve_for_session"
         /\ future[holds[o]] \in Approving => Approved(Of(o))
<1>1. holds[o] \in Observer /\ Of(holds[o]) = Of(o)
  BY ApprovalsAssumption DEF HoldsOne, Held, UnderWay
<1>2. future[holds[o]] = "approve_for_session" => given[Of(o)] = "approve_for_session"
  BY <1>1 DEF Given
<1>3. future[holds[o]] = "approve" => Approved(Of(o))
  BY <1>1 DEF Given
<1>. QED  BY <1>2, <1>3 DEF Approved, Approving

LEMMA GivenStep == TypeOK /\ HoldsOne /\ Asked /\ Registered /\ Held /\ Given /\ [Next]_vars => Given'
<1>. SUFFICES ASSUME TypeOK, HoldsOne, Asked, Registered, Held, Given, [Next]_vars
              PROVE  Given'
  OBVIOUS
<1>. DEFINE Backed(r) ==
         \/ given'[r] \in Approving
         \/ \E p \in Request : ActionOf[p] = ActionOf[r] /\ given'[p] = "approve_for_session"
<1>a. \A r \in Request : Approved(r) => Backed(r)
  BY ApprovedStays DEF Approved
<1>b. \A r \in Request : given[r] # "none" => given'[r] = given[r]
  BY GivenOfNext
<1>c. /\ \A o \in Observer : Of(o) \in Request
      /\ \A o \in Request : o \in Observer /\ Of(o) = o
  BY OfType DEF Observer, Of
<1>1. ASSUME NEW r \in Request, status'[r] \in {"none", "pending"} PROVE given'[r] = "none"
  <2>1. given[r] = "none"
    BY <1>1, StatusOfNext DEF Given
  <2>2. CASE given' = given
    BY <2>1, <2>2
  <2>3. ASSUME NEW R \in SUBSET Pending, NEW state \in {"resolved", "cancelled"},
               NEW answer, NEW outcome, Decides(R, state, answer, outcome)
        PROVE  given'[r] = "none"
    <3>1. r \notin R
      BY <1>1, <2>3 DEF Decides, Settle
    <3>2. given' = given \/ \E q \in Pending : R = {q} /\ given' = [given EXCEPT ![q] = answer]
      BY <2>3 DEF Decides, Cause
    <3>. QED  BY <2>1, <3>1, <3>2 DEF TypeOK
  <2>. QED  BY <2>2, <2>3, SharedOfNext DEF Makes, Drops
<1>. HIDE DEF Backed
\* The answers in futures, responses and the session go back to the user.
<1>d. \A o \in Observer : future[o] = "approve_for_session" => given'[Of(o)] = "approve_for_session"
  BY <1>b, <1>c DEF Given
<1>g. \A o \in Observer : future[o] = "approve" => Backed(Of(o))
  BY <1>a, <1>c DEF Given
<1>e. \A r \in Request : response[r] \in Approving => Backed(r)
  BY <1>a DEF Given
<1>f. \A a \in session : \E p \in Request : ActionOf[p] = a /\ given'[p] = "approve_for_session"
  BY <1>b DEF Given
<1>. DEFINE Sessioned == \A o \in Observer :
                           future'[o] = "approve_for_session" => given'[Of(o)] = "approve_for_session"
            Futures == \A o \in Observer : future'[o] = "approve" => Backed(Of(o))
            Responses == \A r \in Request : response'[r] \in Approving => Backed(r)
            Sessions == \A a \in session' : \E p \in Request : ActionOf[p] = a /\ given'[p] = "approve_for_session"
<1>2. CASE UNCHANGED <<shared, given, session>>
  <2>1. Sessioned /\ Futures /\ Responses /\ Sessions
    BY <1>2, <1>d, <1>e, <1>f, <1>g DEF shared
  <2>. QED  BY <1>1, <2>1 DEF Given, Approved, Backed, Of
<1>3. ASSUME NEW o \in Observer, Makes(o) PROVE Sessioned /\ Futures /\ Responses /\ Sessions
  <2>1. future' = [future EXCEPT ![o] = "open"] /\ UNCHANGED <<response, session>>
    BY <1>3 DEF Makes, MakeFuture
  <2>2. \A p \in Observer : future'[p] = future[p] \/ future'[p] = "open"
    BY <2>1 DEF TypeOK
  <2>3. Sessioned
    BY <1>d, <2>2
  <2>4. Futures
    BY <1>g, <2>2
  <2>. QED  BY <1>e, <1>f, <2>1, <2>3, <2>4
<1>4. ASSUME NEW o \in Observer, Drops(o) PROVE Sessioned /\ Futures /\ Responses /\ Sessions
  <2>1. UNCHANGED <<future, session>>
    BY <1>4 DEF Drops
  <2>2. \A r \in Request : response'[r] = response[r] \/ response'[r] = "reject"
    BY <1>4 DEF Drops, TypeOK
  <2>3. Responses
    BY <1>e, <2>2 DEF Approving
  <2>. QED  BY <1>d, <1>f, <1>g, <2>1, <2>3
<1>5. ASSUME NEW R \in SUBSET Pending, NEW state \in {"resolved", "cancelled"},
             NEW answer \in Answer, NEW outcome \in Answer \cup {"cancelled"},
             Decides(R, state, answer, outcome)
      PROVE  Sessioned /\ Futures /\ Responses /\ Sessions
  <2>1. \A o \in Observer : \/ future'[o] = future[o]
                            \/ future'[o] = outcome /\ Of(o) \in R
    <3>. TAKE o \in Observer
    <3>1. CASE \E r \in R : waiters[r] = o
      <4>1. PICK r \in R : waiters[r] = o
        BY <3>1
      <4>2. r \in Request /\ waiters[r] # NoOne
        BY <4>1, ApprovalsAssumption DEF Pending
      <4>3. Of(o) = r
        BY <4>1, <4>2 DEF Registered
      <4>. QED  BY <1>5, <4>1, <4>3 DEF Decides, Settle
    <3>2. CASE ~ \E r \in R : waiters[r] = o
      <4>1. future'[o] = IF future[o] = "open" /\ \E r \in R : waiters[r] = o
                         THEN outcome ELSE future[o]
        BY <1>5 DEF Decides, Settle
      <4>2. future'[o] = future[o]
        BY <3>2, <4>1
      <4>. QED  BY <4>2
    <3>. QED  BY <3>1, <3>2
  <2>2. \A r \in Request : response'[r] = response[r] \/ (response'[r] = answer /\ r \in R)
    BY <1>5 DEF Decides, Settle
  <2>3. /\ \A r \in R : /\ answer \in Approving => Backed(r)
                        /\ outcome = "approve" => Backed(r)
                        /\ outcome = "approve_for_session" => given'[r] = "approve_for_session"
        /\ Sessions
    <3>1. CASE answer = "reject" /\ outcome = "cancelled" /\ UNCHANGED session
      BY <1>f, <3>1 DEF Approving
    <3>2. ASSUME NEW o \in Request, R = Covered(o), place[o] = "waiting",
                 future[holds[o]] = "approve_for_session",
                 session' = session \cup {ActionOf[o]}, answer = "approve", outcome = "approve"
          PROVE  (\A r \in R : Backed(r)) /\ Sessions
      <4>1. given[o] = "approve_for_session"
        BY <1>c, <3>2, ResumedWith
      <4>2. given'[o] = "approve_for_session"
        BY <1>b, <4>1
      <4>3. \A r \in R : ActionOf[o] = ActionOf[r]
        BY <3>2 DEF Covered
      <4>4. \A r \in R : Backed(r)
        BY <4>2, <4>3 DEF Backed
      <4>5. Sessions
        BY <1>f, <3>2, <4>2
      <4>. QED  BY <4>4, <4>5
    <3>3. ASSUME NEW r \in Pending, R = {r}, given' = [given EXCEPT ![r] = answer],
                 UNCHANGED session, answer = outcome
          PROVE  /\ answer \in Approving => Backed(r)
                 /\ outcome = "approve_for_session" => given'[r] = "approve_for_session"
                 /\ Sessions
      <4>1. given'[r] = answer
        BY <3>3 DEF TypeOK, Pending
      <4>. QED  BY <1>f, <3>3, <4>1 DEF Backed
    <3>4. CASE /\ answer = "approve" /\ outcome = "approve"
               /\ \E o \in Request : /\ R = Covered(o)
                                     /\ place[o] = "waiting"
                                     /\ future[holds[o]] = "approve_for_session"
                                     /\ session' = session \cup {ActionOf[o]}
      BY <3>2, <3>4
    <3>5. CASE /\ answer = outcome
               /\ \E r \in Pending : R = {r} /\ given' = [given EXCEPT ![r] = answer]
               /\ UNCHANGED session
      BY <3>3, <3>5 DEF Approving
    <3>. QED  BY <1>5, <3>1, <3>4, <3>5 DEF Decides, Cause
  <2>4. Sessioned
    BY <1>d, <2>1, <2>3
  <2>5. Futures
    BY <1>g, <2>1, <2>3
  <2>6. Responses
    BY <1>e, <2>2, <2>3
  <2>. QED  BY <2>3, <2>4, <2>5, <2>6
<1>6. CASE Sessioned /\ Futures /\ Responses /\ Sessions
  BY <1>1, <1>6 DEF Given, Approved, Backed, Of
<1>. QED  BY <1>2, <1>3, <1>4, <1>5, <1>6, SharedOfNext

LEMMA OnlyApprovedStep == IInv /\ [Next]_vars => OnlyApprovedGoAhead'
<1>. SUFFICES ASSUME IInv, [Next]_vars, NEW p \in Observer, told'[p] \in Approving
              PROVE  Approved(Of(p))
  BY ApprovedStays, OfType DEF OnlyApprovedGoAhead, IInv, Approved, Of
<1>0. TypeOK /\ HoldsOne /\ Held /\ Given /\ OnlyApprovedGoAhead /\ Of(p) \in Request
  BY OfType DEF IInv
<1>1. CASE told'[p] = told[p]
  BY <1>0, <1>1 DEF OnlyApprovedGoAhead
<1>2. ASSUME NEW o \in Observer, NEW what, Return(o, what), o # p
      PROVE  told'[p] = told[p]
  BY <1>0, <1>2 DEF Return, TypeOK
<1>3. ASSUME NEW what, Return(p, what) PROVE what \in Approving
  BY <1>0, <1>3 DEF Return, TypeOK
<1>4. ASSUME NEW r \in Request, AskAutoApproved(r) PROVE Approved(Of(p))
  <2>1. Return(r, "approve") /\ r \in Observer /\ Of(r) = r
    BY <1>4 DEF AskAutoApproved, Observer, Of
  <2>2. CASE r = p
    BY <1>0, <1>4, <2>1, <2>2 DEF AskAutoApproved, AutoApproved, Given, Approved
  <2>. QED  BY <1>1, <1>2, <2>1, <2>2
<1>5. ASSUME NEW o \in Observer, Watch(o) PROVE Approved(Of(p))
  <2>1. CASE UNCHANGED told
    BY <1>1, <2>1
  <2>2. CASE Return(o, IF status[Of(o)] = "cancelled" THEN "cancelled" ELSE response[Of(o)])
    <3>1. CASE o = p
      <4>1. (IF status[Of(p)] = "cancelled" THEN "cancelled" ELSE response[Of(p)]) \in Approving
        BY <1>3, <2>2, <3>1
      <4>2. response[Of(p)] \in Approving
        BY <4>1 DEF Approving
      <4>. QED  BY <1>0, <4>2 DEF Given
    <3>. QED  BY <1>1, <1>2, <2>2, <3>1
  <2>. QED  BY <1>5, <2>1, <2>2 DEF Watch, MakeFuture
<1>6. ASSUME NEW o \in Observer, Resume(o) PROVE Approved(Of(p))
  <2>1. Return(o, future[holds[o]]) /\ place[o] = "waiting"
    BY <1>6 DEF Resume
  <2>2. CASE o = p
    <3>1. future[holds[p]] \in Approving
      BY <1>3, <2>1, <2>2
    <3>. QED  BY <1>0, <2>1, <2>2, <3>1, ResumedWith
  <2>. QED  BY <1>1, <1>2, <2>1, <2>2
<1>7. ASSUME NEW o \in Observer, TimedOut(o) \/ Aborted(o) PROVE Approved(Of(p))
  <2>1. PICK what \in {"cancelled", "aborted"} : Return(o, what)
    BY <1>7 DEF TimedOut, Aborted
  <2>2. o # p
    BY <1>3, <2>1 DEF Approving
  <2>. QED  BY <1>1, <1>2, <2>1, <2>2
<1>8. CASE UNCHANGED told
  BY <1>1, <1>8
<1>9. UNCHANGED told \/ (\E r \in Request : AskAutoApproved(r))
       \/ \E o \in Observer : Watch(o) \/ Resume(o) \/ TimedOut(o) \/ Aborted(o)
  BY DEF Next, vars, calls, Ask, MakeFuture, Timeout, Cancel, Resolve, CancelBySource, Woken
<1>. QED  BY <1>4, <1>5, <1>6, <1>7, <1>8, <1>9

LEMMA NoNeedlessPromptStep == IInv /\ [Next]_vars => NoNeedlessPrompt'
<1>. SUFFICES ASSUME IInv, [Next]_vars, NEW r \in Request, status'[r] = "pending"
              PROVE  ActionOf[r] \notin session'
  BY DEF NoNeedlessPrompt, Pending
<1>0. TypeOK /\ Asked /\ Registered /\ NoNeedlessPrompt
  BY DEF IInv
<1>1. CASE status[r] = "pending"
  <2>1. ActionOf[r] \notin session
    BY <1>0, <1>1 DEF NoNeedlessPrompt, Pending
  <2>2. CASE UNCHANGED session
    BY <2>1, <2>2
  <2>3. ASSUME NEW R \in SUBSET Pending, NEW state \in {"resolved", "cancelled"},
               NEW answer, NEW outcome, Decides(R, state, answer, outcome)
        PROVE  ActionOf[r] \notin session'
    <3>1. r \notin R
      BY <2>3 DEF Decides, Settle
    <3>2. \/ UNCHANGED session
          \/ \E o \in Request : R = Covered(o) /\ session' = session \cup {ActionOf[o]}
      BY <2>3 DEF Decides, Cause
    <3>. QED  BY <1>1, <2>1, <3>1, <3>2 DEF Covered, Pending
  <2>. QED  BY <1>0, <2>2, <2>3, SharedOfNext DEF Makes, Drops
<1>2. CASE status[r] # "pending"
  <2>1. status[r] = "none" /\ r \in Observer /\ Makes(r)
    BY <1>0, <1>2, StatusOfNext
  <2>2. Of(r) = r
    BY DEF Of
  <2>. QED  BY <2>1, <2>2 DEF Makes
<1>. QED  BY <1>1, <1>2

LEMMA InvStep == IInv /\ [Next]_vars => IInv'
<1>. SUFFICES ASSUME IInv, [Next]_vars PROVE IInv'
  OBVIOUS
<1>1. TypeOK /\ HoldsOne /\ Asked /\ Registered /\ Held /\ Counted /\ Given
  BY DEF IInv
<1>2. TypeOK' /\ HoldsOne'
  BY <1>1, TypeStep, HoldsOneStep
<1>3. Asked' /\ Registered' /\ Held'
  BY <1>1, AskedStep, RegisteredStep, HeldStep
<1>4. Counted' /\ Given'
  BY <1>1, CountedStep, GivenStep
<1>5. NoOneForgotten' /\ OnlyApprovedGoAhead' /\ NoNeedlessPrompt'
  BY NoOneForgottenStep, OnlyApprovedStep, NoNeedlessPromptStep
<1>. QED  BY <1>2, <1>3, <1>4, <1>5 DEF IInv

---------------------------------------------------------------------------
\* The theorems.

LEMMA Invariance == Spec => []IInv
BY InvInit, InvStep, PTL DEF Spec

\* The variables of the runtime keep their types.
THEOREM Typing == Spec => []TypeOK
<1>1. IInv => TypeOK
  BY DEF IInv
<1>. QED  BY <1>1, Invariance, PTL

\* Every observer of a pending request waits for the future that resolve finds,
\* and the future of an observer of a decided request is done, so no answer,
\* timeout or cancellation leaves another observer behind.
THEOREM NobodyIsForgotten == Spec => []NoOneForgotten
<1>1. IInv => NoOneForgotten
  BY DEF IInv
<1>. QED  BY <1>1, Invariance, PTL

\* Whoever is told to go ahead, directly, through the session or through the
\* request of another call, has the user's approval.
THEOREM OnlyApprovedToolsRun == Spec => []OnlyApprovedGoAhead
<1>1. IInv => OnlyApprovedGoAhead
  BY DEF IInv
<1>. QED  BY <1>1, Invariance, PTL

\* Nothing stays pending for an action that is approved for the session.
THEOREM PromptsAreNeeded == Spec => []NoNeedlessPrompt
<1>1. IInv => NoNeedlessPrompt
  BY DEF IInv
<1>. QED  BY <1>1, Invariance, PTL

\* A resolved or cancelled request keeps its status and response.
THEOREM DecisionsAreFinal == Spec => DecidedOnce
<1>1. ASSUME IInv, [Next]_vars,
             NEW r \in Request, status[r] \in {"resolved", "cancelled"}
      PROVE  status'[r] = status[r] /\ response'[r] = response[r]
  <2>0. TypeOK /\ Asked /\ Registered /\ r \notin Pending
    BY <1>1 DEF IInv, Pending
  <2>1. status'[r] = status[r]
    BY <1>1, <2>0, StatusOfNext
  <2>2. CASE UNCHANGED response
    BY <2>1, <2>2
  <2>3. ASSUME NEW o \in Observer, Drops(o) PROVE response'[r] = response[r]
    BY <2>0, <2>3 DEF Drops, TypeOK
  <2>4. ASSUME NEW R \in SUBSET Pending, NEW state, NEW answer, NEW outcome,
               Decides(R, state, answer, outcome)
        PROVE  response'[r] = response[r]
    BY <2>0, <2>4 DEF Decides, Settle
  <2>. QED  BY <1>1, <2>0, <2>1, <2>2, <2>3, <2>4, SharedOfNext DEF shared, Makes
<1>2. IInv /\ [Next]_vars =>
        [\A r \in Request :
           status[r] \in {"resolved", "cancelled"} =>
             status'[r] = status[r] /\ response'[r] = response[r]]_vars
  BY <1>1
<1>. QED  BY <1>2, Invariance, PTL DEF Spec, DecidedOnce
=============================================================================
