------------------------------- MODULE Approvals -------------------------------
(***************************************************************************)
(* ApprovalRuntime: the requests for approval of a session, the futures    *)
(* their observers wait for, and Approval.request, through which a tool    *)
(* asks and which may widen the answer to the session.  All of it runs in  *)
(* one event loop; an action is a stretch of code between two awaits.      *)
(***************************************************************************)
EXTENDS Naturals, FiniteSets

CONSTANTS
  Request,     \* the calls of Approval.request; a request is named by its call
  Watcher,     \* further calls of wait_for_response
  Action,      \* what approve_for_session applies to
  Source,      \* the turns and background tasks that ask
  ActionOf,    \* request -> action
  SourceOf,    \* request -> source
  RequestOf,   \* watcher -> the request it waits for
  Timed,       \* the calls that have a timeout
  NoOne

Observer == Request \cup Watcher
Of(o) == IF o \in Request THEN o ELSE RequestOf[o]

ASSUME ApprovalsAssumption ==
  /\ ActionOf \in [Request -> Action]
  /\ SourceOf \in [Request -> Source]
  /\ RequestOf \in [Watcher -> Request]
  /\ Request \cap Watcher = {}
  /\ NoOne \notin Observer

VARIABLES
  status,      \* request -> its status; "none" before create_request
  response,    \* request -> its response
  waiters,     \* _waiters: request -> the observer that made the shared future
  counts,      \* _waiter_counts
  future,      \* the future an observer has made: "open" or what it holds
  holds,       \* observer -> the one whose future it awaits
  place,       \* where an observer is in its call
  told,        \* what the call returned
  session,     \* auto_approve_actions
  given        \* history: what the user has answered

shared == <<status, response, waiters, future>>
calls == <<counts, holds, place, told, session, given>>
vars == <<shared, calls>>

Answer == {"approve", "approve_for_session", "reject"}
Approving == {"approve", "approve_for_session"}

TypeOK ==
  /\ status \in [Request -> {"none", "pending", "resolved", "cancelled"}]
  /\ response \in [Request -> Answer \cup {"none"}]
  /\ waiters \in [Request -> Observer \cup {NoOne}]
  /\ counts \in [Request -> Nat]
  /\ future \in [Observer -> Answer \cup {"none", "open", "cancelled"}]
  /\ holds \in [Observer -> Observer \cup {NoOne}]
  /\ place \in [Observer -> {"idle", "waiting", "timing out", "aborting", "done"}]
  /\ told \in [Observer -> Answer \cup {"none", "cancelled", "aborted"}]
  /\ session \subseteq Action
  /\ given \in [Request -> Answer \cup {"none"}]

Init ==
  /\ status = [r \in Request |-> "none"]
  /\ response = [r \in Request |-> "none"]
  /\ waiters = [r \in Request |-> NoOne]
  /\ counts = [r \in Request |-> 0]
  /\ future = [o \in Observer |-> "none"]
  /\ holds = [o \in Observer |-> NoOne]
  /\ place = [o \in Observer |-> "idle"]
  /\ told = [o \in Observer |-> "none"]
  /\ session = {}
  /\ given = [r \in Request |-> "none"]

\* Fault: what was resolved can be resolved again.
NotCancelled == {r \in Request : status[r] \in {"pending", "resolved"}}
Pending == {r \in Request : status[r] = "pending"}

---------------------------------------------------------------------------
\* Fault: the future is popped and gets nothing.
SettleQuietly(R, state, answer, outcome) ==
  /\ status' = [r \in Request |-> IF r \in R THEN state ELSE status[r]]
  /\ response' = [r \in Request |-> IF r \in R THEN answer ELSE response[r]]
  /\ waiters' = [r \in Request |-> IF r \in R THEN NoOne ELSE waiters[r]]
  /\ UNCHANGED future
\* The requests R, all pending, get a status and a response; the shared future
\* of each is popped and gets the outcome.
Settle(R, state, answer, outcome) ==
  /\ status' = [r \in Request |-> IF r \in R THEN state ELSE status[r]]
  /\ response' = [r \in Request |-> IF r \in R THEN answer ELSE response[r]]
  /\ waiters' = [r \in Request |-> IF r \in R THEN NoOne ELSE waiters[r]]
  /\ future' = [o \in Observer |->
                  IF future[o] = "open" /\ \E r \in R : waiters[r] = o
                  THEN outcome ELSE future[o]]

\* resolve, called when the user's answer arrives.
Resolve(r, answer) ==
  /\ r \in Pending
  /\ Settle({r}, "resolved", answer, answer)
  /\ given' = [given EXCEPT ![r] = answer]
  /\ UNCHANGED <<counts, holds, place, told, session>>

\* cancel_by_source
CancelBySource(s) ==
  /\ Settle({r \in Pending : SourceOf[r] = s}, "cancelled", "reject", "cancelled")
  /\ UNCHANGED calls

---------------------------------------------------------------------------
Return(o, what) ==
  /\ place' = [place EXCEPT ![o] = "done"]
  /\ told' = [told EXCEPT ![o] = what]

\* Approval.request needs nobody's answer.
AutoApproved(r) == ActionOf[r] \in session

\* Approval.request for an action that was approved for the session.
AskAutoApproved(r) ==
  /\ place[r] = "idle"
  /\ AutoApproved(r)
  /\ Return(r, "approve")
  /\ UNCHANGED <<shared, counts, holds, session, given>>

\* The observer o waits for the shared future of its request, which w has made.
Await(o, w) ==
  /\ holds' = [holds EXCEPT ![o] = w]
  /\ counts' = [counts EXCEPT ![Of(o)] = @ + 1]
  /\ place' = [place EXCEPT ![o] = "waiting"]

\* wait_for_response makes the shared future.
MakeFuture(o) ==
  /\ waiters' = [waiters EXCEPT ![Of(o)] = o]
  /\ future' = [future EXCEPT ![o] = "open"]
  /\ Await(o, o)

\* Approval.request up to its await: create_request and wait_for_response.
Ask(r) ==
  /\ place[r] = "idle"
  /\ ~AutoApproved(r)
  /\ status' = [status EXCEPT ![r] = "pending"]
  /\ MakeFuture(r)
  /\ UNCHANGED <<response, told, session, given>>

\* wait_for_response by somebody else, of a request that exists.
Watch(o) ==
  /\ o \in Watcher
  /\ place[o] = "idle"
  /\ status[Of(o)] # "none"
  /\ \/ /\ waiters[Of(o)] # NoOne
        /\ Await(o, waiters[Of(o)])
        /\ UNCHANGED <<shared, told>>
     \/ /\ waiters[Of(o)] = NoOne
        /\ status[Of(o)] = "pending"
        /\ MakeFuture(o)
        /\ UNCHANGED <<status, response, told>>
     \/ /\ waiters[Of(o)] = NoOne
        /\ status[Of(o)] # "pending"
        /\ Return(o, IF status[Of(o)] = "cancelled" THEN "cancelled" ELSE response[Of(o)])
        /\ UNCHANGED <<shared, counts, holds>>
  /\ UNCHANGED <<session, given>>

\* Fault: every observer that leaves drops the shared future.
AnyLeaves(o) == TRUE
\* The finally of wait_for_response finds no other observer.
LastToLeave(o) == counts[Of(o)] <= 1

\* The finally of wait_for_response ...
Uncount(o) ==
  counts' = [counts EXCEPT ![Of(o)] = IF @ > 0 THEN @ - 1 ELSE 0]
\* ... which drops the shared future of a request nobody else observes.
DropsFuture(o) ==
  LastToLeave(o) /\ status[Of(o)] = "pending" /\ waiters[Of(o)] = holds[o]

\* Fault: everything that is pending is covered.
AllCovered(r) == Pending
\* list_pending, as Approval.request goes through it.
Covered(r) == {p \in Pending : ActionOf[p] = ActionOf[r]}

\* The future is done and o goes on.  With approve_for_session the call of a tool
\* approves its action and resolves what is pending of it.
Resume(o) ==
  /\ place[o] = "waiting"
  /\ future[holds[o]] \notin {"none", "open"}
  /\ Return(o, future[holds[o]])
  /\ Uncount(o)
  /\ IF o \in Request /\ future[holds[o]] = "approve_for_session"
     THEN /\ session' = session \cup {ActionOf[o]}
          /\ Settle(Covered(o), "resolved", "approve", "approve")
     ELSE UNCHANGED <<shared, session>>
  /\ UNCHANGED <<holds, given>>

\* The timer of wait_for fires, or the task of o is cancelled.  Either only
\* schedules o; what happens before o runs may still decide the request.
Timeout(o) ==
  /\ o \in Timed
  /\ place[o] = "waiting"
  /\ place' = [place EXCEPT ![o] = "timing out"]
  /\ UNCHANGED <<shared, counts, holds, told, session, given>>

Cancel(o) ==
  /\ place[o] = "waiting"
  /\ place' = [place EXCEPT ![o] = "aborting"]
  /\ UNCHANGED <<shared, counts, holds, told, session, given>>

\* except TimeoutError: _cancel_request, with the shared future popped first
\* when nobody else observes it.
TimedOut(o) ==
  /\ place[o] = "timing out"
  /\ Return(o, "cancelled")
  /\ Uncount(o)
  /\ LET r == Of(o) IN
     \/ /\ r \in Pending /\ LastToLeave(o)
        /\ status' = [status EXCEPT ![r] = "cancelled"]
        /\ response' = [response EXCEPT ![r] = "reject"]
        /\ waiters' = [waiters EXCEPT ![r] = NoOne]
        /\ UNCHANGED future
     \/ /\ r \in Pending /\ ~LastToLeave(o)
        /\ Settle({r}, "cancelled", "reject", "cancelled")
     \/ /\ r \notin Pending
        /\ UNCHANGED shared
  /\ UNCHANGED <<holds, session, given>>

\* CancelledError passes through wait_for_response: the request stays pending.
Aborted(o) ==
  /\ place[o] = "aborting"
  /\ Return(o, "aborted")
  /\ Uncount(o)
  /\ waiters' = IF DropsFuture(o) THEN [waiters EXCEPT ![Of(o)] = NoOne] ELSE waiters
  /\ UNCHANGED <<status, response, future, holds, session, given>>

Woken(o) == Resume(o) \/ TimedOut(o) \/ Aborted(o)

Next ==
  \/ \E r \in Request : Ask(r) \/ AskAutoApproved(r)
  \/ \E o \in Observer : Watch(o) \/ Woken(o) \/ Timeout(o) \/ Cancel(o)
  \/ \E r \in Request, answer \in Answer : Resolve(r, answer)
  \/ \E s \in Source : CancelBySource(s)

Spec == Init /\ [][Next]_vars

\* The event loop runs every task that is ready.
FairSpec == Spec /\ \A o \in Observer : WF_vars(Woken(o))

---------------------------------------------------------------------------
\* Nobody is forgotten: while a request is pending its observers share the
\* future that resolve will find, and once it is decided their future is done.
NoOneForgotten ==
  \A o \in Observer :
    place[o] = "waiting" =>
      IF Of(o) \in Pending THEN holds[o] = waiters[Of(o)] /\ future[holds[o]] = "open"
      ELSE future[holds[o]] # "open"

\* A tool goes ahead only with the user's approval: of its own request, or of
\* some request for the same action for the session.
Approved(r) ==
  \/ given[r] \in Approving
  \/ \E p \in Request : ActionOf[p] = ActionOf[r] /\ given[p] = "approve_for_session"
OnlyApprovedGoAhead ==
  \A o \in Observer : told[o] \in Approving => Approved(Of(o))

\* Nobody is asked about an action that is approved for the session.
NoNeedlessPrompt == \A r \in Pending : ActionOf[r] \notin session

\* A decision is final, whoever answers, cancels or times out afterwards.
DecidedOnce ==
  [][\A r \in Request :
       status[r] \in {"resolved", "cancelled"} =>
         status'[r] = status[r] /\ response'[r] = response[r]]_vars

\* Every call that waits for a decided request returns.
Answered ==
  \A o \in Observer :
    (place[o] \notin {"idle", "done"} /\ Of(o) \notin Pending) ~> (place[o] = "done")
=============================================================================
