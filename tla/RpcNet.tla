------------------------------- MODULE RpcNet -------------------------------
(***************************************************************************)
(* JSON-RPC over TCP (kimix.network): JSONRPCClient over TCPClient,        *)
(* JSONRPCServer over TcpGroupServer.  Threads that call, one receive      *)
(* thread for each client, and in the server one thread that accepts, a    *)
(* pool that serves one connection per thread, and one that stops it.      *)
(*                                                                         *)
(* A client object connects once, so a connection bears its name.  Nothing *)
(* in a message tells what call it belongs to: that a message is here the  *)
(* call it was made for is for the properties only.                        *)
(***************************************************************************)
EXTENDS Naturals, Sequences, FiniteSets

CONSTANTS Client,
          Caller,
          Of,        \* the client that a caller's thread uses
          Nobody,
          Calls,     \* bound: calls of each caller
          Stays,     \* bound: clients that nobody disconnects
          Buf,       \* messages that the buffers between two sockets hold
          Workers    \* max_workers

ASSUME OfClients == Of \in [Caller -> Client]
ASSUME BoundsAreBounds == Calls \in [Caller -> Nat] /\ Stays \subseteq Client
ASSUME SizesArePositive == Buf \in Nat \ {0} /\ Workers \in Nat \ {0}
ASSUME NobodyIsNoOne == Nobody \notin Client \cup Caller

Call == Caller \X Nat

Part       == <<Nobody, 0>>     \* half a message on the wire
Unanswered == <<Nobody, 1>>     \* a call that has not returned an answer

VARIABLES
  sock, clock, rt,      \* TCPClient: _socket is set, who holds _lock, the receive thread
  answered, answer,     \* JSONRPCClient: _pending_event, _last_response
  at, n, got, clean,    \* a caller: place, calls begun, what the last one returned;
                        \* history: nothing else was under way during its call
  up, down, torn,       \* a connection: requests, answers; its answers lost their framing
  main, acc,            \* the accept thread and the client it handles
  lock, registered, open, \* TcpGroupServer: who holds _lock in send, _clients, open sockets
  running, listening, executor, halt,      \* _running, _socket, _executor, stop()
  queue, loop, work     \* connections without a thread, receive loops, the request in hand

client == <<sock, clock, rt, answered, answer>>
caller == <<at, n, got, clean>>
wire   == <<up, down, torn>>
accept == <<main, acc>>
table  == <<lock, registered, open>>
state  == <<running, listening, executor, halt>>
pool   == <<queue, loop, work>>
netVars == <<client, caller, wire, accept, table, state, pool>>

Served == {"look", "recv", "handle", "sending", "leaving"}

NetInit ==
  /\ sock = [c \in Client |-> FALSE] /\ clock = [c \in Client |-> Nobody]
  /\ rt = [c \in Client |-> "off"]
  /\ answered = [c \in Client |-> FALSE] /\ answer = [c \in Client |-> Nobody]
  /\ at = [t \in Caller |-> "idle"] /\ n = [t \in Caller |-> 0]
  /\ got = [t \in Caller |-> Unanswered] /\ clean = [t \in Caller |-> TRUE]
  /\ up = [c \in Client |-> <<>>] /\ down = [c \in Client |-> <<>>] /\ torn = {}
  /\ main = "accept" /\ acc = Nobody
  /\ lock = Nobody /\ registered = {} /\ open = {}
  /\ running = TRUE /\ listening = TRUE /\ executor = "up" /\ halt = "no"
  /\ queue = <<>> /\ loop = [c \in Client |-> "none"] /\ work = [c \in Client |-> Nobody]

-----------------------------------------------------------------------------
(* What one end of a connection sees of the other.                         *)

\* the client's socket is closed and no recv of its thread holds it open
ClientGone(c) == ~sock[c] /\ rt[c] # "reading"

\* the server's socket is closed, or was never accepted
ServerGone(c) == IF loop[c] = "none" THEN ~listening ELSE c \notin open

Room(buffer) == Len(buffer) < Buf

-----------------------------------------------------------------------------
(* The client: connect, disconnect and the receive thread.                 *)

Connect(c) ==
  /\ rt[c] = "off" /\ listening
  /\ sock' = [sock EXCEPT ![c] = TRUE] /\ rt' = [rt EXCEPT ![c] = "reading"]
  /\ UNCHANGED <<clock, answered, answer, caller, wire, accept, table, state, pool>>

\* disconnect; it waits for the thread for two seconds at most
Disconnect(c) ==
  /\ c \notin Stays /\ sock[c] /\ clock[c] = Nobody
  /\ sock' = [sock EXCEPT ![c] = FALSE]
  /\ UNCHANGED <<clock, rt, answered, answer, caller, wire, accept, table, state, pool>>

\* a message: its answer is stored and the event set, unless the socket is
\* gone by now or the framing is lost
Receives(c) ==
  /\ rt[c] = "reading" /\ down[c] # <<>>
  /\ down' = [down EXCEPT ![c] = Tail(@)]
  /\ LET m == Head(down[c]) IN
     \/ /\ ~sock[c] /\ rt' = [rt EXCEPT ![c] = "leaving"]
        /\ UNCHANGED <<answered, answer, torn>>
     \/ /\ sock[c] /\ (m = Part \/ c \in torn) /\ torn' = torn \cup {c}
        /\ UNCHANGED <<rt, answered, answer>>
     \/ /\ sock[c] /\ m # Part /\ c \notin torn
        /\ answer' = [answer EXCEPT ![c] = m] /\ answered' = [answered EXCEPT ![c] = TRUE]
        /\ UNCHANGED <<rt, torn>>
  /\ UNCHANGED <<sock, clock, caller, up, accept, table, state, pool>>

\* the server has closed (an answer may be lost with it), or the platform wakes a
\* recv when the socket is closed under it (Linux does not)
RecvEnds(c) ==
  /\ rt[c] = "reading" /\ (~sock[c] \/ ServerGone(c))
  /\ rt' = [rt EXCEPT ![c] = "leaving"]
  /\ UNCHANGED <<sock, clock, answered, answer, caller, wire, accept, table, state, pool>>

\* _handle_disconnect
ThreadEnds(c) ==
  /\ rt[c] = "leaving" /\ clock[c] = Nobody
  /\ sock' = [sock EXCEPT ![c] = FALSE] /\ rt' = [rt EXCEPT ![c] = "done"]
  /\ down' = [down EXCEPT ![c] = <<>>]
  /\ UNCHANGED <<clock, answered, answer, caller, up, torn, accept, table, state, pool>>

-----------------------------------------------------------------------------
(* The client: call.                                                       *)

\* Fault: the event of an earlier call is left set.
LeftSet(c) == answered

\* the event after a call has begun
Unset(c) == [answered EXCEPT ![c] = FALSE]

\* nothing of another call is under way on the connection
Quiet(t, c) ==
  /\ up[c] = <<>> /\ down[c] = <<>> /\ loop[c] \notin {"handle", "sending"}
  /\ \A u \in Caller \ {t} : Of[u] = c => at[u] = "idle"

CallBegins(t) ==
  LET c == Of[t] IN
  /\ at[t] = "idle" /\ n[t] < Calls[t] /\ rt[c] # "off"
  /\ at' = [at EXCEPT ![t] = "send"] /\ n' = [n EXCEPT ![t] = @ + 1]
  /\ got' = [got EXCEPT ![t] = Unanswered]
  /\ answered' = Unset(c)
  /\ clean' = [u \in Caller |-> IF u = t THEN Quiet(t, c) ELSE clean[u] /\ Of[u] # c]
  /\ UNCHANGED <<sock, clock, rt, answer, wire, accept, table, state, pool>>

\* the thread has the lock of its client, and the socket takes the request at
\* once or makes it wait; what send returns is not looked at
SendsRequest(t) ==
  LET c == Of[t] IN
  /\ at[t] = "send" /\ clock[c] = Nobody
  /\ \/ /\ sock[c] /\ ~Room(up[c]) /\ UNCHANGED up
        /\ at' = [at EXCEPT ![t] = "sending"] /\ clock' = [clock EXCEPT ![c] = t]
     \/ /\ sock[c] /\ Room(up[c]) /\ ~ServerGone(c)
        /\ up' = [up EXCEPT ![c] = Append(@, <<t, n[t]>>)]
        /\ at' = [at EXCEPT ![t] = "wait"] /\ UNCHANGED clock
     \/ /\ ~sock[c] \/ ServerGone(c)
        /\ at' = [at EXCEPT ![t] = "wait"] /\ UNCHANGED <<clock, up>>
  /\ UNCHANGED <<sock, rt, answered, answer, n, got, clean, down, torn, accept, table, state, pool>>

\* sendall has no timeout: it waits for room, or for an error
Sent(t) ==
  LET c == Of[t] IN
  /\ at[t] = "sending"
  /\ \/ Room(up[c]) /\ ~ServerGone(c) /\ up' = [up EXCEPT ![c] = Append(@, <<t, n[t]>>)]
     \/ ServerGone(c) /\ UNCHANGED up
  /\ at' = [at EXCEPT ![t] = "wait"] /\ clock' = [clock EXCEPT ![c] = Nobody]
  /\ UNCHANGED <<sock, rt, answered, answer, n, got, clean, down, torn, accept, table, state, pool>>

\* Fault: the wait has no timeout.
NoTimeout(t) == FALSE

\* the wait for the event is over
Expires(t) == at[t] = "wait" /\ ~answered[Of[t]]

Waits(t) ==
  /\ \/ at[t] = "wait" /\ answered[Of[t]] /\ at' = [at EXCEPT ![t] = "take"]
     \/ Expires(t) /\ at' = [at EXCEPT ![t] = "idle"]
  /\ UNCHANGED <<client, n, got, clean, wire, accept, table, state, pool>>

\* the answer is taken away; a second caller that woke finds none, an error
Takes(t) ==
  LET c == Of[t] IN
  /\ at[t] = "take" /\ at' = [at EXCEPT ![t] = "idle"]
  /\ got' = [got EXCEPT ![t] = answer[c]] /\ answer' = [answer EXCEPT ![c] = Nobody]
  /\ UNCHANGED <<sock, clock, rt, answered, n, clean, wire, accept, table, state, pool>>

-----------------------------------------------------------------------------
(* The server: the accept thread.                                          *)

Accepts(c) ==
  /\ main = "accept" /\ listening /\ rt[c] # "off" /\ loop[c] = "none"
  /\ main' = "register" /\ acc' = c
  /\ loop' = [loop EXCEPT ![c] = "accepted"] /\ open' = open \cup {c}
  /\ UNCHANGED <<client, caller, wire, lock, registered, state, queue, work>>

AddsClient ==
  /\ main = "register" /\ lock = Nobody
  /\ registered' = registered \cup {acc} /\ main' = "submit"
  /\ UNCHANGED <<client, caller, wire, acc, lock, open, state, pool>>

\* an executor that is shut raises, and the thread dies with its client
Submits ==
  /\ main = "submit"
  /\ IF executor = "up"
     THEN /\ queue' = Append(queue, acc) /\ loop' = [loop EXCEPT ![acc] = "queued"]
          /\ acc' = Nobody
     ELSE UNCHANGED <<queue, loop, acc>>
  /\ main' = IF running THEN "accept" ELSE "ended"
  /\ UNCHANGED <<client, caller, wire, table, state, work>>

-----------------------------------------------------------------------------
(* The server: the receive loops and send.                                 *)

Starts ==
  /\ queue # <<>> /\ Cardinality({c \in Client : loop[c] \in Served}) < Workers
  /\ loop' = [loop EXCEPT ![Head(queue)] = "look"] /\ queue' = Tail(queue)
  /\ UNCHANGED <<client, caller, wire, accept, table, state, work>>

\* _running is tested, then the socket is looked up under the lock
Looks(c) ==
  /\ loop[c] = "look" /\ (running => lock = Nobody)
  /\ loop' = [loop EXCEPT ![c] = IF running /\ c \in registered THEN "recv" ELSE "leaving"]
  /\ UNCHANGED <<client, caller, wire, accept, table, state, queue, work>>

\* recv: its timeouts of five seconds are retried
Recvs(c) ==
  /\ loop[c] = "recv"
  /\ \/ /\ c \in open /\ up[c] # <<>> /\ loop' = [loop EXCEPT ![c] = "handle"]
        /\ work' = [work EXCEPT ![c] = Head(up[c])] /\ up' = [up EXCEPT ![c] = Tail(@)]
     \/ /\ c \notin open \/ (up[c] = <<>> /\ ClientGone(c))
        /\ loop' = [loop EXCEPT ![c] = "leaving"] /\ UNCHANGED <<work, up>>
  /\ UNCHANGED <<client, caller, down, torn, accept, table, state, queue>>

\* the function has returned: send takes the lock of the whole server, and
\* keeps it while there is no room
Replies(c) ==
  /\ loop[c] = "handle" /\ lock = Nobody
  /\ IF c \in registered \cap open /\ ~Room(down[c])
     THEN lock' = c /\ loop' = [loop EXCEPT ![c] = "sending"] /\ UNCHANGED <<work, down>>
     ELSE /\ loop' = [loop EXCEPT ![c] = "look"] /\ work' = [work EXCEPT ![c] = Nobody]
          /\ down' = IF c \in registered \cap open /\ ~ClientGone(c)
                     THEN [down EXCEPT ![c] = Append(@, work[c])] ELSE down
          /\ UNCHANGED lock
  /\ UNCHANGED <<client, caller, up, torn, accept, registered, open, state, queue>>

\* Fault: the server's sockets have no timeout.
WaitsForRoom(c) == FALSE

\* sendall runs into the timeout of the socket
Stalls(c) == ~Room(down[c])

\* sendall ends: there is room, or half a message is left, or an error
Replied(c) ==
  /\ loop[c] = "sending" /\ lock' = Nobody
  /\ loop' = [loop EXCEPT ![c] = "look"] /\ work' = [work EXCEPT ![c] = Nobody]
  /\ \/ Room(down[c]) /\ ~ClientGone(c) /\ down' = [down EXCEPT ![c] = Append(@, work[c])]
     \/ Stalls(c) /\ down' = [down EXCEPT ![c] = Append(@, Part)]
     \/ ClientGone(c) /\ UNCHANGED down
  /\ UNCHANGED <<client, caller, up, torn, accept, registered, open, state, queue>>

\* Fault: a loop that fails forgets to unregister its client.
Kept(c) == registered

\* what _handle_disconnect leaves registered
Without(c) == registered \ {c}

Leaves(c) ==
  /\ loop[c] = "leaving" /\ lock = Nobody
  /\ registered' = Without(c) /\ open' = open \ {c} /\ loop' = [loop EXCEPT ![c] = "done"]
  /\ up' = [up EXCEPT ![c] = <<>>]
  /\ UNCHANGED <<client, caller, down, torn, accept, lock, state, queue, work>>

\* disconnect_client closes the socket; the loop does the rest
Kicks(c) ==
  /\ c \in registered \ Stays /\ lock = Nobody /\ open' = open \ {c}
  /\ UNCHANGED <<client, caller, wire, accept, lock, registered, state, pool>>

-----------------------------------------------------------------------------
(* The server: stop.                                                       *)

Stop ==
  /\ halt = "no" /\ halt' = "clear" /\ running' = FALSE
  /\ UNCHANGED <<client, caller, wire, accept, table, listening, executor, pool>>

StopClears ==
  /\ halt = "clear" /\ lock = Nobody /\ halt' = "close"
  /\ open' = open \ registered /\ registered' = {}
  /\ UNCHANGED <<client, caller, wire, accept, lock, running, listening, executor, pool>>

\* no more connections, no more work for the pool
StopCloses ==
  /\ halt = "close" /\ halt' = "join" /\ listening' = FALSE /\ executor' = "shut"
  /\ main' = IF main = "accept" THEN "ended" ELSE main
  /\ UNCHANGED <<client, caller, wire, acc, table, running, pool>>

\* shutdown(wait=True): what is queued still runs
StopJoins ==
  /\ halt = "join" /\ queue = <<>> /\ \A c \in Client : loop[c] \notin Served
  /\ halt' = "done" /\ executor' = "none"
  /\ UNCHANGED <<client, caller, wire, accept, table, running, listening, pool>>

-----------------------------------------------------------------------------
(* The specification.                                                      *)

Calling(t) == SendsRequest(t) \/ Sent(t) \/ Waits(t) \/ Takes(t)
ServesClient(c) == Looks(c) \/ Recvs(c) \/ Replies(c) \/ Replied(c) \/ Leaves(c)
Stopping == StopClears \/ StopCloses \/ StopJoins

NetNext ==
  \/ \E t \in Caller : CallBegins(t) \/ Calling(t)
  \/ \E c \in Client : \/ Connect(c) \/ Disconnect(c)
                       \/ Receives(c) \/ RecvEnds(c) \/ ThreadEnds(c)
                       \/ Accepts(c) \/ ServesClient(c) \/ Kicks(c)
  \/ AddsClient \/ Submits \/ Starts \/ Stop \/ Stopping

\* The threads of the server run, and so do the callers, once they have begun.
\* A client's receive thread need not: its process may hang.
NetFairness ==
  /\ \A t \in Caller : WF_netVars(Calling(t))
  /\ \A c \in Client : WF_netVars(ServesClient(c))
  /\ WF_netVars(Starts) /\ WF_netVars(Stopping)

NetSpec == NetInit /\ [][NetNext]_netVars /\ NetFairness

-----------------------------------------------------------------------------
(* Properties.                                                             *)

\* The variables have their types.
NetTypeOK ==
  /\ sock \in [Client -> BOOLEAN] /\ clock \in [Client -> Caller \cup {Nobody}]
  /\ rt \in [Client -> {"off", "reading", "leaving", "done"}]
  /\ answered \in [Client -> BOOLEAN] /\ answer \in [Client -> Call \cup {Nobody}]
  /\ at \in [Caller -> {"idle", "send", "sending", "wait", "take"}] /\ n \in [Caller -> Nat]
  /\ got \in [Caller -> Call \cup {Nobody, Unanswered}] /\ clean \in [Caller -> BOOLEAN]
  /\ up \in [Client -> Seq(Call)] /\ down \in [Client -> Seq(Call \cup {Part})]
  /\ torn \subseteq Client
  /\ main \in {"accept", "register", "submit", "ended"} /\ acc \in Client \cup {Nobody}
  /\ lock \in Client \cup {Nobody} /\ registered \subseteq Client /\ open \subseteq Client
  /\ running \in BOOLEAN /\ listening \in BOOLEAN /\ executor \in {"up", "shut", "none"}
  /\ halt \in {"no", "clear", "close", "join", "done"}
  /\ queue \in Seq(Client)
  /\ loop \in [Client -> Served \cup {"none", "accepted", "queued", "done"}]
  /\ work \in [Client -> Call \cup {Nobody}]

\* A call that begins when nothing of an earlier one is under way on its
\* connection, and that no other call overlaps, returns its own answer or
\* none: whatever timed out before, whatever the server closed meanwhile.
AnswersAreOwn == \A t \in Caller : clean[t] => got[t] \in {Unanswered, <<t, n[t]>>}

\* A registered client has a loop that serves it or will, or the accept thread
\* is about to submit it; a client whose loop is over is closed.  After stop
\* nobody is registered but the client that was being accepted.
RegistryServed ==
  /\ \A c \in registered : loop[c] \in Served \cup {"queued"} \/ acc = c
  /\ \A c \in Client : loop[c] = "done" => c \notin registered \cup open
  /\ halt = "done" => registered \cup open \subseteq {acc}

\* A call on a connection that is served ends, with an answer or an error: no
\* client that stops reading, no kick and no stop makes it wait for ever.
CallsEnd == \A t \in Caller : (at[t] # "idle" /\ loop[Of[t]] \in Served) ~> at[t] = "idle"

\* stop returns: no client can keep a thread of the pool, or the lock.
StopEnds == halt # "no" ~> halt = "done"
=============================================================================
