---------------------------- MODULE TokenRefresh ----------------------------
(***************************************************************************)
(* OAuthManager of kimi_cli.auth.oauth: the refresh of a login whose       *)
(* refresh token the server replaces at every use.  The processes of one   *)
(* user share a credentials file and a lock file; in a process, the tasks  *)
(* that call ensure_fresh share an asyncio lock, the access token that the *)
(* provider sends and a tombstone for the refresh token that the server    *)
(* rejected.  (_access_tokens is the provider's key once more: the refresh *)
(* writes it and never reads it.)                                          *)
(*                                                                         *)
(* An action ends where the code awaits or where it reads or writes the    *)
(* file: other processes run in between.  `running' keeps the tasks of one *)
(* event loop apart between two awaits.                                    *)
(***************************************************************************)
EXTENDS Naturals

CONSTANTS Proc,          \* processes of the user: terminals, editors
          Task,          \* callers of ensure_fresh
          ProcOf,        \* the process that a task lives in
          MaxToken,      \* bound: tokens the server issues
          LockTries,     \* attempts at the lock file (six in the code)
          PostTries,     \* attempts at the request (three in the code)
          MaxCrashes,    \* bound: processes that die
          Nobody         \* the owner of a lock that is free

ASSUME ProcOfTask == ProcOf \in [Task -> Proc]
ASSUME BoundsAreCounts == /\ MaxToken \in Nat /\ MaxCrashes \in Nat
                          /\ LockTries \in Nat \ {0} /\ PostTries \in Nat \ {0}
ASSUME NobodyIsNoTask == Nobody \notin Task

Token == 1..MaxToken     \* a token pair, numbered in the order of issue
None  == 0               \* no token: no file, no cached key, no answer

VARIABLES
  disk,       \* the pair in the credentials file
  flock,      \* the holder of the lock file
  live,       \* the refresh tokens that the server accepts
  last,       \* the last pair the server issued
  stale,      \* the pairs that are close to their expiry
  key,        \* the access token that the process sends, None for the configured key
  tombstone,  \* _REJECTED_REFRESH_TOKENS, per process
  cooled,     \* its retry_after has passed
  mutex,      \* _refresh_lock, per process
  running,    \* the task that the event loop is in the middle of
  pc, tok, force, tries, reply,   \* per task: where it is and its locals
  crashes,
  lost,       \* history: pairs that were exchanged for one nobody kept
  bare,       \* history: pairs sent without the lock, or with no file to compare
  ousted      \* history: pairs a login, a logout or a later save removed

task   == <<pc, tok, force, tries, reply>>
inproc == <<key, tombstone, cooled>>
server == <<live, last, stale>>
hist   == <<lost, bare, ousted>>
vars   == <<disk, flock, server, inproc, mutex, running, task, crashes, hist>>

\* The variables have their types.
TypeOK ==
  /\ disk \in Token \cup {None} /\ flock \in Task \cup {Nobody}
  /\ live \subseteq Token /\ stale \subseteq Token /\ last \in Token \cup {None}
  /\ key \in [Proc -> Token \cup {None}]
  /\ tombstone \in [Proc -> Token \cup {None}] /\ cooled \in [Proc -> BOOLEAN]
  /\ mutex \in [Proc -> Task \cup {Nobody}] /\ running \in [Proc -> Task \cup {Nobody}]
  /\ pc \in [Task -> {"idle", "pre", "lock", "xlock", "send", "answer", "refused"}]
  /\ tok \in [Task -> Token \cup {None}] /\ force \in [Task -> BOOLEAN]
  /\ tries \in [Task -> Nat] /\ reply \in [Task -> Token \cup {None}]
  /\ crashes \in 0..MaxCrashes
  /\ lost \subseteq Token /\ bare \subseteq Token /\ ousted \subseteq Token

Init ==
  /\ disk = None /\ flock = Nobody /\ live = {} /\ last = None /\ stale = {}
  /\ key = [p \in Proc |-> None]
  /\ tombstone = [p \in Proc |-> None] /\ cooled = [p \in Proc |-> FALSE]
  /\ mutex = [p \in Proc |-> Nobody] /\ running = [p \in Proc |-> Nobody]
  /\ pc = [t \in Task |-> "idle"] /\ tok = [t \in Task |-> None]
  /\ force = [t \in Task |-> FALSE] /\ tries = [t \in Task |-> 0]
  /\ reply = [t \in Task |-> None] /\ crashes = 0
  /\ lost = {} /\ bare = {} /\ ousted = {}

-----------------------------------------------------------------------------
(* What the manager does with a pair it has read.                          *)

Fresh(n) == n \notin stale

\* _should_suppress_persisted_token
Suppressed(p, n) == n # None /\ tombstone[p] = n

\* what is left of the tombstone once it was looked up for pair n
Consulted(p, n) == IF n = None \/ tombstone[p] = n THEN tombstone[p] ELSE None

Consult(p, n) == tombstone' = [tombstone EXCEPT ![p] = Consulted(p, n)]

\* the task may run: no other task of its loop is between two awaits
MayRun(t) == running[ProcOf[t]] \in {Nobody, t}
Runs(t)   == running' = [running EXCEPT ![ProcOf[t]] = t]
Awaits(t) == running' = [running EXCEPT ![ProcOf[t]] = Nobody]

At(t, where) == pc[t] = where /\ MayRun(t)
Goto(t, where) == pc' = [pc EXCEPT ![t] = where]

\* Fault: the lock is kept when the refresh ends with an error.
KeptOnError(t) == [mutex EXCEPT ![ProcOf[t]] = IF @ = t /\ pc[t] # "send" THEN Nobody ELSE @]

\* the lock of the process after task t has left it
Released(t) == [mutex EXCEPT ![ProcOf[t]] = IF @ = t THEN Nobody ELSE @]

\* the end of _refresh_tokens: the answer is dropped, both locks are given back
Leave(t) ==
  /\ Goto(t, "idle") /\ Awaits(t)
  /\ mutex' = Released(t)
  /\ flock' = IF flock = t THEN Nobody ELSE flock
  /\ reply' = [reply EXCEPT ![t] = None] /\ tok' = [tok EXCEPT ![t] = None]
  /\ force' = [force EXCEPT ![t] = FALSE] /\ tries' = [tries EXCEPT ![t] = 0]

\* the token is rejected: the provider falls back to the configured key
Forget(p) == key' = [key EXCEPT ![p] = None]

\* another process has refreshed, or a login has come: its pair is taken over
Adopt(t, n) ==
  /\ key' = [key EXCEPT ![ProcOf[t]] = n]
  /\ tombstone' = [tombstone EXCEPT ![ProcOf[t]] = None]
  /\ UNCHANGED cooled

-----------------------------------------------------------------------------
(* ensure_fresh: the first read of the file.                               *)

\* Fault: the token that was read is not given to the provider.
KeyKept(p) == IF Suppressed(p, disk) THEN None ELSE key[p]

\* the access token of the provider after the first read
KeyRead(p) == IF Suppressed(p, disk) THEN None ELSE disk

Ensure(t, f) ==
  LET p == ProcOf[t] IN
  /\ At(t, "idle") /\ disk # None
  /\ Consult(p, disk)
  /\ key' = [key EXCEPT ![p] = KeyRead(p)]
  /\ IF Suppressed(p, disk) /\ ~cooled[p]
     THEN UNCHANGED <<pc, running, force, tok>>
     ELSE /\ Goto(t, "pre") /\ Runs(t)
          /\ force' = [force EXCEPT ![t] = f] /\ tok' = [tok EXCEPT ![t] = disk]
  /\ UNCHANGED <<disk, flock, server, cooled, mutex, tries, reply, crashes, hist>>

\* _refresh_tokens: the second read, before the lock of the process
Prefer(t) ==
  LET p == ProcOf[t] IN
  /\ At(t, "pre")
  /\ Consult(p, disk)
  /\ tok' = [tok EXCEPT ![t] = IF disk # None THEN disk ELSE @]
  /\ Goto(t, "lock")
  /\ IF mutex[p] = Nobody THEN Runs(t) ELSE Awaits(t)
  /\ UNCHANGED <<disk, flock, server, key, cooled, mutex, force, tries, reply, crashes, hist>>

\* inside the lock of the process: the third read, and three ways on
Recheck(t) ==
  LET p == ProcOf[t]
      cur == IF disk # None THEN disk ELSE tok[t]
      rested == Suppressed(p, cur) /\ ~cooled[p]
  IN
  /\ At(t, "lock") /\ mutex[p] = Nobody
  /\ IF ~force[t] /\ Fresh(cur)
     THEN Consult(p, disk) /\ UNCHANGED key /\ Leave(t)
     ELSE IF rested
     THEN Consult(p, cur) /\ Forget(p) /\ Leave(t)
     ELSE /\ Consult(p, cur)
          /\ mutex' = [mutex EXCEPT ![p] = t]
          /\ tok' = [tok EXCEPT ![t] = cur] /\ tries' = [tries EXCEPT ![t] = 0]
          /\ Goto(t, "xlock") /\ Runs(t)
          /\ UNCHANGED <<key, flock, force, reply>>
  /\ UNCHANGED <<disk, server, cooled, crashes, hist>>

\* Fault: the pair on disk is not compared with the one read before the wait.
NeedlessIfFresh(t) == disk # None /\ ~force[t] /\ Fresh(disk)

\* what is found on disk under the lock file makes the request needless
Needless(t) == disk # None /\ (disk # tok[t] \/ (~force[t] /\ Fresh(disk)))

\* the lock file is taken, and the fourth read made under it
Locked(t) ==
  /\ At(t, "xlock") /\ flock = Nobody
  /\ IF Needless(t)
     THEN Adopt(t, disk) /\ Leave(t)
     ELSE /\ flock' = t /\ Goto(t, "send") /\ Awaits(t)
          /\ tries' = [tries EXCEPT ![t] = 0]
          /\ UNCHANGED <<mutex, inproc, tok, force, reply>>
  /\ bare' = IF disk = None THEN bare \cup {tok[t]} ELSE bare
  /\ UNCHANGED <<disk, server, crashes, lost, ousted>>

\* the lock file is held by another process: wait, and in the end do without
Contended(t) ==
  /\ At(t, "xlock") /\ flock # Nobody /\ Awaits(t)
  /\ IF tries[t] + 1 < LockTries
     THEN tries' = [tries EXCEPT ![t] = @ + 1] /\ UNCHANGED <<pc, bare>>
     ELSE /\ tries' = [tries EXCEPT ![t] = 0] /\ Goto(t, "send")
          /\ bare' = bare \cup {tok[t]}
  /\ UNCHANGED <<disk, flock, server, inproc, mutex, tok, force, reply, crashes, lost, ousted>>

-----------------------------------------------------------------------------
(* The request, the server and the answer.                                 *)

Rotates(t) ==
  /\ pc[t] = "send" /\ tok[t] \in live /\ last < MaxToken
  /\ last' = last + 1
  /\ live' = (live \ {tok[t]}) \cup {last + 1}
  /\ reply' = [reply EXCEPT ![t] = last + 1] /\ Goto(t, "answer")
  /\ UNCHANGED <<disk, flock, stale, inproc, mutex, running, tok, force, tries, crashes, hist>>

\* the statuses that refresh_token takes for a rejection: 401 and 403
Unauthorized(t) == tok[t] \notin live

Rejects(t) ==
  /\ At(t, "send") /\ Unauthorized(t)
  /\ Goto(t, "refused")
  /\ UNCHANGED <<disk, flock, server, inproc, mutex, running, tok, force, tries, reply, crashes, hist>>

\* one more attempt, or the end of the refresh with the error
Retry(t) ==
  IF tries[t] + 1 < PostTries
  THEN /\ tries' = [tries EXCEPT ![t] = @ + 1] /\ Goto(t, "send") /\ Awaits(t)
       /\ reply' = [reply EXCEPT ![t] = None] /\ UNCHANGED <<mutex, flock, tok, force>>
  ELSE Leave(t)

\* no connection, or a status that allows another attempt
Unreachable(t) ==
  /\ At(t, "send") /\ Retry(t)
  /\ UNCHANGED <<disk, server, inproc, crashes, hist>>

\* any other status ends the refresh
Fails(t) ==
  /\ At(t, "send") /\ Leave(t)
  /\ UNCHANGED <<disk, server, inproc, crashes, hist>>

\* the server has answered and the answer does not arrive
AnswerLost(t) ==
  /\ At(t, "answer") /\ Retry(t) /\ lost' = lost \cup {tok[t]}
  /\ UNCHANGED <<disk, server, inproc, crashes, bare, ousted>>

\* Fault: the pair that was sent is written back instead of the new one.
SavedOld(t, n) == tok[t]

\* what a save of pair n by task t leaves in the file
Saved(t, n) == n

Save(t) ==
  /\ At(t, "answer")
  /\ disk' = Saved(t, reply[t]) /\ Adopt(t, reply[t]) /\ Leave(t)
  /\ ousted' = IF disk = tok[t] THEN ousted ELSE ousted \cup ({disk} \ {None})
  /\ UNCHANGED <<server, crashes, lost, bare>>

\* the file cannot be written: save_tokens raises after the tombstone is cleared
SaveFails(t) ==
  /\ At(t, "answer") /\ Leave(t)
  /\ tombstone' = [tombstone EXCEPT ![ProcOf[t]] = None]
  /\ lost' = lost \cup {tok[t]}
  /\ UNCHANGED <<disk, server, key, cooled, crashes, bare, ousted>>

\* the pair that a rejection is held against
Culprit(t) == tok[t]

\* Fault: the credentials file is removed when its pair is rejected.
FileRemoved(t) == None

\* what a rejection leaves in the file
AfterRejection(t) == disk

\* a second after the rejection the file is read once more
Refused(t) ==
  /\ At(t, "refused") /\ Leave(t)
  /\ IF disk # None /\ disk # tok[t]
     THEN Adopt(t, disk) /\ UNCHANGED disk
     ELSE /\ tombstone' = [tombstone EXCEPT ![ProcOf[t]] = Culprit(t)]
          /\ cooled' = [cooled EXCEPT ![ProcOf[t]] = FALSE]
          /\ Forget(ProcOf[t]) /\ disk' = AfterRejection(t)
  /\ UNCHANGED <<server, crashes, hist>>

-----------------------------------------------------------------------------
(* What happens around the refresh.                                        *)

\* the end of a turn cancels the task of `refreshing', wherever it waits
Cancel(t) ==
  /\ pc[t] # "idle" /\ running[ProcOf[t]] # t /\ Leave(t)
  /\ lost' = IF reply[t] # None THEN lost \cup {tok[t]} ELSE lost
  /\ UNCHANGED <<disk, server, inproc, crashes, bare, ousted>>

\* a process dies and is started again: _load_initial_tokens
Restart(p) ==
  LET mine == {t \in Task : ProcOf[t] = p} IN
  /\ crashes < MaxCrashes /\ crashes' = crashes + 1
  /\ \E t \in mine : pc[t] # "idle"
  /\ pc' = [t \in Task |-> IF t \in mine THEN "idle" ELSE pc[t]]
  /\ reply' = [t \in Task |-> IF t \in mine THEN None ELSE reply[t]]
  /\ lost' = lost \cup {tok[t] : t \in {u \in mine : reply[u] # None}}
  /\ flock' = IF flock \in mine THEN Nobody ELSE flock
  /\ mutex' = [mutex EXCEPT ![p] = Nobody] /\ running' = [running EXCEPT ![p] = Nobody]
  /\ key' = [key EXCEPT ![p] = disk]
  /\ tombstone' = [tombstone EXCEPT ![p] = None]
  /\ tok' = [t \in Task |-> IF t \in mine THEN None ELSE tok[t]]
  /\ force' = [t \in Task |-> IF t \in mine THEN FALSE ELSE force[t]]
  /\ tries' = [t \in Task |-> IF t \in mine THEN 0 ELSE tries[t]]
  /\ UNCHANGED <<disk, server, cooled, bare, ousted>>

\* login: a new grant, written over whatever is there; its wait for the lock
\* file ends after a second, held or not
Login ==
  /\ last < MaxToken /\ last' = last + 1
  /\ live' = live \cup {last + 1} /\ disk' = last + 1
  /\ ousted' = ousted \cup ({disk} \ {None})
  /\ UNCHANGED <<flock, stale, inproc, mutex, running, task, crashes, lost, bare>>

\* logout: the file is removed, without any lock
Logout ==
  /\ disk # None /\ disk' = None /\ ousted' = ousted \cup {disk}
  /\ UNCHANGED <<flock, server, inproc, mutex, running, task, crashes, lost, bare>>

Expire(n) ==
  /\ n <= last /\ Fresh(n) /\ stale' = stale \cup {n}
  /\ UNCHANGED <<disk, flock, live, last, inproc, mutex, running, task, crashes, hist>>

Cool(p) ==
  /\ tombstone[p] # None /\ ~cooled[p] /\ cooled' = [cooled EXCEPT ![p] = TRUE]
  /\ UNCHANGED <<disk, flock, server, key, tombstone, mutex, running, task, crashes, hist>>

-----------------------------------------------------------------------------
Local(t)  == Prefer(t) \/ Recheck(t) \/ Locked(t) \/ Contended(t) \/ Refused(t)
Answer(t) == Rejects(t) \/ Unreachable(t) \/ Fails(t) \/ Rotates(t)
Settle(t) == Save(t) \/ SaveFails(t) \/ AnswerLost(t)
Next == \/ \E t \in Task : \/ \E f \in BOOLEAN : Ensure(t, f)
                           \/ Local(t) \/ Answer(t) \/ Settle(t) \/ Cancel(t)
        \/ \E p \in Proc : Restart(p) \/ Cool(p)
        \/ \E n \in Token : Expire(n)
        \/ Login \/ Logout

\* A task that can run is run, a request is answered or times out, and the
\* timer of `refreshing' calls ensure_fresh again.  The lock of the process
\* serves its waiters in turn, which is more than weak fairness of one of them.
Fairness == \A t \in Task : /\ WF_vars(\E f \in BOOLEAN : Ensure(t, f))
                            /\ WF_vars(Local(t)) /\ SF_vars(Recheck(t))
                            /\ WF_vars(Answer(t)) /\ WF_vars(Settle(t))
Spec == Init /\ [][Next]_vars /\ Fairness

-----------------------------------------------------------------------------
(* Properties.                                                             *)

\* The file never holds a refresh token that the server has already replaced,
\* unless its successor is in the hands of a task that is about to write it, or
\* was lost with the task that had it: no order of checks, refreshes and
\* rejections of any number of processes strands the user with a spent token.
DiskIsGood ==
  disk # None => \/ disk \in live \cup lost
                 \/ \E t \in Task : pc[t] = "answer" /\ tok[t] = disk

\* A successor in flight belongs to the pair on disk, or a login, a logout or a
\* late save has taken that pair away: what save_tokens writes over is the token
\* that it replaces, and a rejection in another process has not removed it.
SavesOverItsOwn ==
  \A t \in Task : pc[t] = "answer" => disk = tok[t] \/ tok[t] \in ousted

\* A tombstone never stands for a token that the server would accept.
RejectedIsDead == \A p \in Proc : tombstone[p] \notin live

\* The server rejects a token only if its successor was lost, if it was sent
\* without the lock file or after a logout, or if it had been taken off the
\* disk: under the lock no process spends a token that another one has spent.
RejectionsHaveCause ==
  [][\A t \in Task : Rejects(t) => tok[t] \in lost \cup bare \cup ousted]_vars

\* Every call of ensure_fresh ends.
CallsEnd == \A t \in Task : (pc[t] # "idle") ~> (pc[t] = "idle")

\* When the file stops changing and holds a token that the server accepts, every
\* process comes to use it, whatever key or tombstone it had.
CatchesUp ==
  \A p \in Proc, n \in Token :
    (<>[](disk = n /\ n \in live)) => (<>[](key[p] = n))
=============================================================================
