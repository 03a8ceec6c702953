--------------------------- MODULE Servers_proofs ---------------------------
\* What is proved of the two servers of kimix.
\* First SessionServer, for any requests, restarts and attempts: the types, that the
\* last word of a session is idle, and that an abort reaches every prompt that runs.
\* Then RpcNet, for any clients, callers, buffers and sizes of the pool: the types,
\* that a call gets its own answer, and that who is registered is served.
EXTENDS SessionServer, RpcNet, TLAPS

-----------------------------------------------------------------------------
(* The inductive invariant.                                                *)

\* the type invariant, one conjunct for each variable
Types ==
  /\ disk \in BOOLEAN /\ born \in BOOLEAN /\ astray \in BOOLEAN
  /\ reg \in Req \cup {None}
  /\ status \in [Req -> {"idle", "busy"}] /\ fb \in [Req -> {"none", "accept", "revise"}]
  /\ sdkOf \in [Req -> Req \cup {None}] /\ psess \in [Req -> Req \cup {None}]
  /\ ptask \in [Req -> Req \cup {None}] /\ ask \in [Req -> Req \cup {None}]
  /\ event \in [Req -> Req \cup {None}] /\ ent \in [Req -> Req \cup {None}]
  /\ on \in [Req -> Req \cup {None}] /\ closed \in [Req -> BOOLEAN]
  /\ told \subseteq Req /\ cancelled \subseteq Req /\ heard \subseteq Req /\ stop \subseteq Req
  /\ pc \in [Req -> Place] /\ kind \in [Req -> Kind] /\ left \in [Req -> Nat]
  /\ last \in {"none", "part", "busy", "idle", "deleted"}

\* the places of a planner's task
Planning == {"p_task", "p_open", "p_run", "p_sleep", "p_confirm", "p_close"}

\* a request knows its entry and its session where it needs them, and a planner
\* that sleeps has an attempt left
Known ==
  \A r \in Req : /\ pc[r] \in Turn \cup {"opening", "p_task"} => ent[r] \in Req
                 /\ pc[r] \in {"waiting", "running", "restarting", "clearing"} => on[r] \in Req
                 /\ pc[r] = "p_sleep" => left[r] # 0

\* the planner's task that an entry holds is one of that entry
Planners ==
  \A e \in Req : ptask[e] # None => /\ pc[ptask[e]] \in Planning \cup {"done"}
                                    /\ ent[ptask[e]] = e

\* the turns that will publish idle: all open ones but a planner that is cancelled
\* while it closes its session, and its abort has published idle already
Owing == {r \in Req : pc[r] \in Turn /\ ~(pc[r] = "p_close" /\ r \in cancelled)}

\* whoever makes a client or an entry busy owes them an idle
Owed ==
  /\ last \in {"part", "busy"} => Owing # {}
  /\ \A e \in Req : status[e] = "busy" => \E r \in Owing : ent[r] = e

\* AbortReaches, and the session of such a prompt is open: a close or a clear would
\* have told it to stop
Reached ==
  ~astray => \A r \in Going : /\ reg # None /\ sdkOf[reg] = on[r]
                              /\ event[on[r]] = r /\ ~closed[on[r]]

IInv == Types /\ Known /\ Planners /\ Owed /\ Reached

USE NoneIsNoRequest DEF Place, Kind, Turn, Planning

-----------------------------------------------------------------------------
(* What leaves a part of the invariant alone.                              *)

LEMMA TypesSuffice == Types => TypeOK
BY DEF Types, TypeOK

LEMMA RunsAreRequests ==
  ASSUME Types, NEW s \in Req \cup {None} PROVE RunOf(s) \subseteq Req
BY DEF RunOf, Types

\* only the prompts themselves, their entry and their session matter to Reached
LEMMA StillReached ==
  ASSUME IInv, Types', UNCHANGED <<reg, sdkOf, event, closed, on>>, Going' \subseteq Going,
         astray => astray'
  PROVE  Reached'
BY DEF IInv, Reached, Types

\* whatever tells more runs to stop leaves fewer going
LEMMA FewerGo ==
  ASSUME IInv, pc' = pc, stop \subseteq stop' PROVE Going' \subseteq Going
BY DEF Going

-----------------------------------------------------------------------------
LEMMA Initially == Init => IInv
<1> SUFFICES ASSUME Init PROVE IInv  OBVIOUS
<1>1. Types  BY DEF Init, Types
<1>2. Known /\ Planners  BY DEF Init, Known, Planners
<1>3. Owed  BY DEF Init, Owed
<1>4. Reached  BY DEF Init, Reached, Going
<1> QED  BY <1>1, <1>2, <1>3, <1>4 DEF IInv

-----------------------------------------------------------------------------
(* From a request to its prompt.                                           *)

\* the places of a request that has not begun its work
Early == {"idle", "listed", "task", "opening"}

\* no prompt goes on, or the request joins the entry and the session of those that do
Joins(e, s) ==
  ~astray' => /\ ~astray /\ reg' = e /\ sdkOf'[e] = s
              /\ Going # {} => reg = e /\ sdkOf' = sdkOf

LEMMA Serving ==
  ASSUME IInv, NEW r \in Req, NEW k \in Kind, NEW e \in Req, NEW s \in Req,
         Serve(r, k, e, s), pc[r] \in Early, Types', Joins(e, s),
         UNCHANGED <<ptask, cancelled, closed, stop>>
  PROVE  IInv'
<1>0. Types /\ ptask' = ptask /\ cancelled' = cancelled /\ closed' = closed /\ stop' = stop
  BY DEF IInv
<1>1. CASE k = "async" /\ Goto(r, "task") /\ UNCHANGED <<ent, on, left, status, event, told, last>>
  <2> USE <1>1 DEF Goto
  <2>1. pc' = [pc EXCEPT ![r] = "task"]  OBVIOUS
  <2>2. Known'  BY <2>1, <1>0 DEF IInv, Known, Types, Early
  <2>3. Planners'  BY <2>1, <1>0 DEF IInv, Planners, Types, Early
  <2>4. Owing' = Owing  BY <2>1, <1>0 DEF Owing, Types, Early
  <2>5. Owed'  BY <2>4 DEF IInv, Owed
  <2>6. Going' \subseteq Going  BY <2>1, <1>0 DEF Going, Types
  <2>7. Reached'  BY <2>6, <1>0 DEF IInv, Reached, Joins
  <2> QED  BY <2>2, <2>3, <2>5, <2>7 DEF IInv
<1>2. CASE Begin(r, e, s)
  <2>1. ent' = [ent EXCEPT ![r] = e] /\ on' = [on EXCEPT ![r] = s]  BY <1>2 DEF Begin
  <2>2. CASE Finish(e) /\ Goto(r, "done") /\ UNCHANGED <<event, told, left>>
    <3>1. pc' = [pc EXCEPT ![r] = "done"] /\ status' = [status EXCEPT ![e] = "idle"] /\ last' = "idle"
          /\ left' = left /\ event' = event
      BY <2>2 DEF Goto, Finish, SetStatus
    <3>2. Known'  BY <3>1, <2>1, <1>0 DEF IInv, Known, Types, Early
    <3>3. Planners'  BY <3>1, <2>1, <1>0 DEF IInv, Planners, Types, Early
    <3>4. Owing' = Owing  BY <3>1, <1>0 DEF Owing, Types, Early
    <3>5. Owed'  BY <3>1, <3>4, <2>1, <1>0 DEF IInv, Owed, Types, Owing, Early
    <3>6. Going' \subseteq Going /\ r \notin Going  BY <3>1, <1>0 DEF Going, Types, Early
    <3>7. Reached'  BY <3>1, <3>6, <2>1, <1>0 DEF IInv, Reached, Joins, Types, Going
    <3> QED  BY <3>2, <3>3, <3>5, <3>7 DEF IInv
  <2>3. CASE ~closed[s] /\ event[s] = None /\ NewRun(r, s) /\ Goto(r, "waiting")
             /\ status' = [status EXCEPT ![e] = "busy"] /\ last' = "part"
             /\ left' = [left EXCEPT ![r] = MaxRestarts]
    <3>1. pc' = [pc EXCEPT ![r] = "waiting"] /\ event' = [event EXCEPT ![s] = r]
      BY <2>3 DEF Goto, NewRun
    <3>2. Known'  BY <3>1, <2>1, <2>3, <1>0 DEF IInv, Known, Types, Early
    <3>3. Planners'  BY <3>1, <2>1, <1>0 DEF IInv, Planners, Types, Early
    <3>4. Owing' = Owing \cup {r} /\ r \notin Owing  BY <3>1, <1>0 DEF Owing, Types, Early
    <3>5. Owed'  BY <2>3, <3>4, <2>1, <1>0 DEF IInv, Owed, Types, Owing
    <3>6. Going' \subseteq Going \cup {r}  BY <3>1, <1>0 DEF Going, Types
    <3>7. ASSUME ~astray' PROVE Going = {}
      <4>1. ~astray /\ (Going # {} => reg = e /\ sdkOf[e] = s)  BY <3>7 DEF Joins
      <4>2. ASSUME NEW t \in Going PROVE FALSE
        BY <4>1, <4>2, <2>3, <1>0 DEF IInv, Reached, Going
      <4> QED  BY <4>2
    <3>8. Reached'  BY <3>1, <3>6, <3>7, <2>1, <2>3, <1>0 DEF Reached, Joins, Types
    <3> QED  BY <3>2, <3>3, <3>5, <3>8 DEF IInv
  <2> QED  BY <1>2, <2>2, <2>3 DEF Begin
<1> QED  BY <1>1, <1>2 DEF Serve

LEMMA ServeTypes ==
  ASSUME Types, NEW r \in Req, NEW k \in Kind, NEW e \in Req, NEW s \in Req, Serve(r, k, e, s)
  PROVE  /\ ent' \in [Req -> Req \cup {None}] /\ on' \in [Req -> Req \cup {None}]
         /\ left' \in [Req -> Nat] /\ status' \in [Req -> {"idle", "busy"}]
         /\ event' \in [Req -> Req \cup {None}] /\ told' \subseteq Req
         /\ last' \in {"none", "part", "busy", "idle", "deleted"} /\ pc' \in [Req -> Place]
BY LimitsAreCounts DEF Serve, Begin, Types, Goto, Finish, SetStatus, NewRun

\* a request that ends before its work, or goes on to look, adds nothing to going
\* prompts; an entry may have been registered where there was none
Registers == reg' = reg \/ reg = None

LEMMA SameReached ==
  ASSUME IInv, Types', Registers, UNCHANGED <<sdkOf, event, closed, on>>, Going' \subseteq Going,
         astray => astray'
  PROVE  Reached'
BY DEF IInv, Reached, Types, Registers

LEMMA GivingUp ==
  ASSUME IInv, NEW r \in Req, NEW k \in Kind, NEW e \in Req \cup {None}, GiveUp(r, k, e),
         pc[r] \in Early, Types', Registers, UNCHANGED <<sdkOf, ptask, cancelled, closed, stop>>,
         astray' = astray
  PROVE  IInv'
<1>0. Types /\ pc' = [pc EXCEPT ![r] = "done"] /\ UNCHANGED <<ent, on, left, event, told>>
      /\ ptask' = ptask /\ cancelled' = cancelled /\ closed' = closed /\ stop' = stop /\ sdkOf' = sdkOf
  BY DEF IInv, GiveUp, Goto
<1>1. Known'  BY <1>0 DEF IInv, Known, Types, Early
<1>2. Planners'  BY <1>0 DEF IInv, Planners, Types, Early
<1>3. Owing' = Owing  BY <1>0 DEF Owing, Types, Early
<1>4. Owed'
  <2>1. CASE UNCHANGED <<status, last>>  BY <1>0, <1>3, <2>1 DEF IInv, Owed
  <2>2. CASE e # None /\ SetStatus(e, "idle")
    BY <1>0, <1>3, <2>2 DEF IInv, Owed, SetStatus, Types
  <2> QED  BY <2>1, <2>2 DEF GiveUp
<1>5. Going' \subseteq Going  BY <1>0 DEF Going, Types
<1>6. Reached'  BY <1>0, <1>5, SameReached
<1> QED  BY <1>1, <1>2, <1>4, <1>6 DEF IInv

LEMMA Ensuring ==
  ASSUME IInv, NEW r \in Req, NEW k \in Kind, NEW e \in Req, reg = e \/ reg = None, reg' = e,
         Ensure(r, k, e), pc[r] \in Early, kind' \in [Req -> Kind]
  PROVE  IInv'
<1>0. Types /\ UNCHANGED <<disk, born, sdkOf, psess, ptask, ask, fb, closed, cancelled, heard, stop, astray>>
  BY DEF IInv, Ensure, files, history
<1>1. ASSUME NEW s \in Req, s = sdkOf[e], Serve(r, k, e, s) PROVE IInv'
  <2>1. Types'  BY <1>0, <1>1, ServeTypes DEF Types
  <2>2. Joins(e, s)
    BY <1>0, <1>1 DEF Joins, IInv, Reached
  <2> QED  BY <1>0, <1>1, <2>1, <2>2, Serving
<1>2. CASE sdkOf[e] = None /\ disk /\ Goto(r, "opening") /\ ent' = [ent EXCEPT ![r] = e]
           /\ UNCHANGED <<on, left, status, event, told, last>>
  <2>0. pc' = [pc EXCEPT ![r] = "opening"]  BY <1>2 DEF Goto
  <2>1. Types'  BY <1>0, <1>2, <2>0 DEF Types
  <2>2. Known'  BY <1>0, <1>2, <2>0 DEF IInv, Known, Types, Early
  <2>3. Planners'  BY <1>0, <1>2, <2>0 DEF IInv, Planners, Types, Early
  <2>4. Owing' = Owing  BY <1>0, <2>0 DEF Owing, Types, Early
  <2>5. Owed'  BY <1>0, <1>2, <2>0, <2>4 DEF IInv, Owed, Types, Early, Owing
  <2>6. Going' \subseteq Going  BY <1>0, <2>0 DEF Going, Types
  <2>7. Reached'  BY <1>0, <1>2, <2>1, <2>6, SameReached DEF Registers
  <2> QED  BY <2>1, <2>2, <2>3, <2>5, <2>7 DEF IInv
<1>3. CASE GiveUp(r, k, e)
  <2>1. status' \in [Req -> {"idle", "busy"}] /\ last' \in {"none", "part", "busy", "idle", "deleted"}
        /\ pc' \in [Req -> Place] /\ UNCHANGED <<ent, on, left, event, told>>
    BY <1>0, <1>3 DEF GiveUp, SetStatus, Goto, Types
  <2>2. Types'  BY <1>0, <2>1 DEF Types
  <2> QED  BY <1>0, <1>3, <2>2, GivingUp DEF Registers
<1> QED  BY <1>0, <1>1, <1>2, <1>3 DEF Ensure, Types

\* a delete closes the session that runs and tells its prompt to stop
LEMMA Popping ==
  ASSUME IInv, NEW r \in Req, NEW e \in Req, reg = e \/ reg = None, Pop(r, e), pc[r] \in Early,
         kind' \in [Req -> Kind]
  PROVE  IInv'
<1>0. Types /\ reg' = None
      /\ UNCHANGED <<disk, born, sdkOf, status, psess, ptask, ask, fb, event, cancelled, heard, ent, on, left, astray>>
  BY DEF IInv, Pop, files, entry
<1>1. CASE sdkOf[e] # None /\ Close(sdkOf[e]) /\ Goto(r, "closing") /\ UNCHANGED last
  <2>0. pc' = [pc EXCEPT ![r] = "closing"] /\ closed' = [closed EXCEPT ![sdkOf[e]] = TRUE]
        /\ sdkOf[e] \in Req /\ last' = last
    BY <1>0, <1>1 DEF Goto, Close, Types
  <2>1. told' \subseteq Req /\ stop' \subseteq Req /\ stop \subseteq stop'
        /\ (~closed[sdkOf[e]] => RunOf(sdkOf[e]) \subseteq stop')
    BY <1>0, <1>1, <2>0, RunsAreRequests DEF Close, Tell, Types
  <2>2. Types'  BY <1>0, <2>0, <2>1 DEF Types
  <2>3. Known'  BY <1>0, <2>0 DEF IInv, Known, Types, Early
  <2>4. Planners'  BY <1>0, <2>0 DEF IInv, Planners, Types, Early
  <2>5. Owing' = Owing  BY <1>0, <2>0 DEF Owing, Types, Early
  <2>6. Owed'  BY <1>0, <2>0, <2>5 DEF IInv, Owed
  <2>7. Going' \subseteq Going  BY <1>0, <2>0, <2>1 DEF Going, Types
  <2>8. ASSUME ~astray', NEW t \in Going' PROVE FALSE
    <3>1. t \in Going /\ reg # None /\ sdkOf[reg] = on[t] /\ event[on[t]] = t /\ ~closed[on[t]]
      BY <1>0, <2>7, <2>8 DEF IInv, Reached
    <3>2. reg = e /\ t \in Req  BY <3>1 DEF Going
    <3>3. sdkOf[e] # None /\ event[sdkOf[e]] = t  BY <1>1, <3>1, <3>2
    <3>4. t \in RunOf(sdkOf[e])  BY <3>2, <3>3 DEF RunOf
    <3>5. t \in stop'  BY <2>1, <3>1, <3>2, <3>4
    <3> QED  BY <2>8, <3>5 DEF Going
  <2>9. Reached'  BY <2>8 DEF Reached
  <2> QED  BY <2>2, <2>3, <2>4, <2>6, <2>9 DEF IInv
<1>2. CASE sdkOf[e] = None /\ UNCHANGED <<closed, told, stop>>
  <2>0. /\ pc' = [pc EXCEPT ![r] = IF disk THEN "removing" ELSE "done"]
        /\ last' = IF disk THEN last ELSE "deleted"
    BY <1>0, <1>2 DEF Pop, Goto
  <2>1. Types'  BY <1>0, <1>2, <2>0 DEF Types
  <2>2. Known'  BY <1>0, <2>0 DEF IInv, Known, Types, Early
  <2>3. Planners'  BY <1>0, <2>0 DEF IInv, Planners, Types, Early
  <2>4. Owing' = Owing  BY <1>0, <2>0 DEF Owing, Types, Early
  <2>5. Owed'  BY <1>0, <2>0, <2>4 DEF IInv, Owed
  <2>6. Going' \subseteq Going  BY <1>0, <1>2, <2>0 DEF Going, Types
  <2>7. ASSUME ~astray', NEW t \in Going' PROVE FALSE
    <3>1. reg # None /\ sdkOf[reg] = on[t] /\ t \in Going  BY <1>0, <2>6, <2>7 DEF IInv, Reached
    <3>2. on[t] = None  BY <3>1, <1>2
    <3> QED  BY <3>1, <3>2 DEF IInv, Known, Going
  <2>8. Reached'  BY <2>7 DEF Reached
  <2> QED  BY <2>1, <2>2, <2>3, <2>5, <2>8 DEF IInv
<1> QED  BY <1>1, <1>2 DEF Pop

\* a request that only moves on, between places that no turn is in
LEMMA Moving ==
  ASSUME IInv, NEW r \in Req, NEW place \in Place, Goto(r, place),
         pc[r] \notin Turn \cup {"p_task", "done"}, place \in {"listed", "done", "making", "removing"},
         UNCHANGED <<sdkOf, status, ptask, event, ent, on, left, cancelled, closed, stop, last>>,
         Types', astray' = astray, Registers
  PROVE  IInv'
<1>0. Types /\ pc' = [pc EXCEPT ![r] = place] /\ cancelled' = cancelled /\ ent' = ent /\ on' = on
      /\ ptask' = ptask /\ left' = left /\ stop' = stop
  BY DEF IInv, Goto
<1>1. Known'  BY <1>0 DEF IInv, Known, Types
<1>2. Planners'
  <2> SUFFICES ASSUME NEW e \in Req, ptask[e] # None
               PROVE  pc'[ptask[e]] \in Planning \cup {"done"} /\ ent[ptask[e]] = e
    BY <1>0 DEF Planners
  <2>1. pc[ptask[e]] \in Planning \cup {"done"} /\ ent[ptask[e]] = e /\ ptask[e] \in Req
    BY <1>0 DEF IInv, Planners, Types
  <2>2. CASE ptask[e] = r  BY <1>0, <2>1, <2>2 DEF Types
  <2>3. CASE ptask[e] # r  BY <1>0, <2>1, <2>3 DEF Types
  <2> QED  BY <2>1, <2>2, <2>3
<1>3. Owing' = Owing  BY <1>0 DEF Owing, Types
<1>4. Owed'  BY <1>0, <1>3 DEF IInv, Owed
<1>5. Going' \subseteq Going  BY <1>0 DEF Going, Types
<1>6. Reached'  BY <1>0, <1>5, SameReached
<1> QED  BY <1>1, <1>2, <1>4, <1>6 DEF IInv

LEMMA Scheduling ==
  ASSUME IInv, NEW r \in Req, NEW e \in Req, reg = e \/ reg = None, reg' = e, Schedule(r, e),
         pc[r] \in Early, kind' \in [Req -> Kind]
  PROVE  IInv'
<1>0. Types /\ pc' = [pc EXCEPT ![r] = "p_task"] /\ ptask' = [ptask EXCEPT ![e] = r]
      /\ ent' = [ent EXCEPT ![r] = e]
      /\ UNCHANGED <<disk, born, sdkOf, status, psess, ask, fb, event, told, cancelled, heard, on, left, last, stop,
                     astray, closed>>
  BY DEF IInv, Schedule, Goto, files, sdk, signals, history
<1>1. Types'  BY <1>0 DEF Types
<1>2. Known'  BY <1>0 DEF IInv, Known, Types, Early
<1>3. Planners'  BY <1>0 DEF IInv, Planners, Types, Early
<1>4. Owing' = Owing  BY <1>0 DEF Owing, Types, Early
<1>5. Owed'  BY <1>0, <1>4 DEF IInv, Owed, Types, Early, Owing
<1>6. Going' \subseteq Going  BY <1>0 DEF Going, Types
<1>7. Reached'  BY <1>0, <1>1, <1>6, SameReached DEF Registers
<1> QED  BY <1>1, <1>2, <1>3, <1>5, <1>7 DEF IInv

LEMMA Using ==
  ASSUME IInv, NEW r \in Req, NEW k \in Kind, NEW e \in Req, reg = e \/ reg = None, Use(r, k, e),
         pc[r] \in Early, kind' \in [Req -> Kind]
  PROVE  IInv'
<1>1. CASE reg' = e /\ Ensure(r, k, e)  BY <1>1, Ensuring
<1>2. CASE reg' = e /\ Schedule(r, e)  BY <1>2, Scheduling
<1>3. CASE Pop(r, e)  BY <1>3, Popping
<1>4. CASE reg' = e /\ Goto(r, "done")
           /\ UNCHANGED <<files, entry, sdk, signals, ent, on, left, last, history>>
  <2>1. UNCHANGED <<disk, born, sdkOf, status, psess, ptask, ask, fb, closed, event, told, cancelled, heard, ent, on,
                    left, last, stop, astray>>
    BY <1>4 DEF files, entry, sdk, signals, history
  <2>2. Types'  BY <1>4, <2>1 DEF IInv, Types, Goto
  <2> QED  BY <1>4, <2>1, <2>2, Moving DEF Registers, Early
<1> QED  BY <1>1, <1>2, <1>3, <1>4 DEF Use

LEMMA Looking ==
  ASSUME IInv, NEW r \in Req, NEW k \in Kind, Look(r, k), pc[r] \in Early, kind' \in [Req -> Kind]
  PROVE  IInv'
<1>1. CASE reg # None /\ Use(r, k, reg)
  <2>1. reg \in Req  BY <1>1 DEF IInv, Types
  <2> QED  BY <1>1, <2>1, Using
<1>2. CASE Goto(r, IF disk THEN "listed" ELSE "done")
           /\ UNCHANGED <<files, reg, entry, sdk, signals, ent, on, left, last, history>>
  <2>1. UNCHANGED <<disk, born, reg, sdkOf, status, psess, ptask, ask, fb, closed, event, told, cancelled, heard,
                    ent, on, left, last, stop, astray>>
    BY <1>2 DEF files, entry, sdk, signals, history
  <2>2. Types'  BY <1>2, <2>1 DEF IInv, Types, Goto
  <2>3. (IF disk THEN "listed" ELSE "done") \in {"listed", "done"}  OBVIOUS
  <2> QED  BY <1>2, <2>1, <2>2, <2>3, Moving DEF Registers, Early
<1> QED  BY <1>1, <1>2 DEF Look

LEMMA Lookups == ASSUME IInv, NEW r \in Req, Lookup(r) PROVE IInv'
<1>0. Types  BY DEF IInv
<1>1. ASSUME NEW k \in Sends[r], Called(r, k) PROVE IInv'
  <2>1. k \in Kind  BY SendsKinds
  <2>2. kind' \in [Req -> Kind] /\ pc[r] \in Early  BY <1>0, <1>1, <2>1 DEF Called, Types, Early
  <2> QED  BY <1>1, <2>1, <2>2, Looking DEF Called
<1>2. CASE Started(r)
  <2>1. kind' \in [Req -> Kind] /\ pc[r] \in Early  BY <1>0, <1>2 DEF Started, Types, Early
  <2> QED  BY <1>2, <2>1, Looking DEF Started
<1>3. CASE Listed(r)
  <2>1. kind' \in [Req -> Kind] /\ kind[r] \in Kind /\ pc[r] \in Early  BY <1>0, <1>3 DEF Listed, Types, Early
  <2>2. PICK e \in Req : (reg = e \/ reg = None) /\ Use(r, kind[r], e)  BY <1>0, <1>3 DEF Listed, Types
  <2> QED  BY <2>1, <2>2, Using
<1>4. CASE Opened(r)
  <2> DEFINE e == ent[r]
  <2>1. e \in Req /\ kind[r] \in Kind /\ pc[r] \in Early  BY <1>0, <1>4 DEF Opened, IInv, Known, Types, Early
  <2>2. Serve(r, kind[r], e, r) /\ disk' = TRUE /\ sdkOf' = [sdkOf EXCEPT ![e] = r]
        /\ astray' = (astray \/ sdkOf[e] # None \/ reg # e)
        /\ UNCHANGED <<born, reg, psess, ptask, ask, fb, closed, cancelled, heard, kind, stop>>
    BY <1>4 DEF Opened
  <2> HIDE DEF e
  <2>3. astray' \in BOOLEAN /\ sdkOf' \in [Req -> Req \cup {None}]  BY <1>0, <2>1, <2>2 DEF Types
  <2>4. Types'  BY <1>0, <2>1, <2>2, <2>3, ServeTypes DEF Types
  <2>5. Joins(e, r)
    <3> SUFFICES ASSUME ~astray' PROVE ~astray /\ reg' = e /\ sdkOf'[e] = r /\ Going = {}
      BY DEF Joins
    <3>1. ~astray /\ sdkOf[e] = None /\ reg = e  BY <2>2
    <3>2. ASSUME NEW t \in Going PROVE FALSE
      <4>1. on[t] = None  BY <3>1, <3>2 DEF IInv, Reached
      <4> QED  BY <4>1, <3>2 DEF IInv, Known, Going
    <3> QED  BY <1>0, <2>1, <2>2, <3>1, <3>2 DEF Types
  <2> QED  BY <2>1, <2>2, <2>4, <2>5, Serving
<1>5. CASE OpenFails(r)
  <2>1. reg \in Req \cup {None} /\ kind[r] \in Kind /\ pc[r] \in Early  BY <1>0, <1>5 DEF OpenFails, Types, Early
  <2>2. GiveUp(r, kind[r], reg)
        /\ UNCHANGED <<disk, born, reg, sdkOf, psess, ptask, ask, fb, closed, cancelled, heard, kind, stop, astray>>
    BY <1>5 DEF OpenFails, files, history
  <2>3. status' \in [Req -> {"idle", "busy"}] /\ last' \in {"none", "part", "busy", "idle", "deleted"}
        /\ pc' \in [Req -> Place] /\ UNCHANGED <<ent, on, left, event, told>>
    BY <1>0, <2>1, <2>2 DEF GiveUp, SetStatus, Goto, Types
  <2>4. Types'  BY <1>0, <2>2, <2>3 DEF Types
  <2> QED  BY <2>1, <2>2, <2>4, GivingUp DEF Registers
<1> QED  BY <1>1, <1>2, <1>3, <1>4, <1>5 DEF Lookup

-----------------------------------------------------------------------------
(* create_session, delete_session and clear_session.                       *)

LEMMA Creates == ASSUME IInv, NEW r \in Req, Create(r) \/ Created(r) PROVE IInv'
<1>0. Types  BY DEF IInv
<1>1. CASE Create(r)
  <2>1. UNCHANGED <<reg, sdkOf, status, psess, ptask, ask, fb, closed, event, told, cancelled, heard, ent, on, left,
                    last, stop, astray>>
    BY <1>1 DEF Create, entry, sdk, signals, history
  <2>2. Types'  BY <1>0, <1>1, <2>1 DEF Create, Types, Goto
  <2> QED  BY <1>1, <2>1, <2>2, Moving DEF Create, Registers
<1>2. CASE Created(r)
  <2>1. /\ pc' = [pc EXCEPT ![r] = "done"] /\ pc[r] = "making" /\ reg' = r /\ sdkOf' = [sdkOf EXCEPT ![r] = r]
        /\ astray' = (astray \/ reg # None)
        /\ UNCHANGED <<disk, born, status, psess, ptask, ask, fb, closed, event, told, cancelled, heard, kind, ent, on,
                       left, last, stop>>
    BY <1>2 DEF Created, Goto, files, sdk, signals
  <2>2. Types'
    <3>1. astray' \in BOOLEAN /\ sdkOf' \in [Req -> Req \cup {None}]  BY <1>0, <2>1 DEF Types
    <3> QED  BY <1>0, <2>1, <3>1 DEF Types
  <2>3. Known'  BY <1>0, <2>1 DEF IInv, Known, Types
  <2>4. Planners'  BY <1>0, <2>1 DEF IInv, Planners, Types
  <2>5. Owing' = Owing  BY <1>0, <2>1 DEF Owing, Types
  <2>6. Owed'  BY <1>0, <2>1, <2>5 DEF IInv, Owed
  <2>7. Going' \subseteq Going  BY <1>0, <2>1 DEF Going, Types
  <2>8. Reached'  BY <2>1, <2>7 DEF IInv, Reached
  <2> QED  BY <2>2, <2>3, <2>4, <2>6, <2>8 DEF IInv
<1> QED  BY <1>1, <1>2

LEMMA Deletes == ASSUME IInv, NEW r \in Req, Closed(r) \/ Removed(r) PROVE IInv'
<1> DEFINE place == IF pc[r] = "closing" /\ disk THEN "removing" ELSE "done"
<1>0. Types  BY DEF IInv
<1>1. /\ pc' = [pc EXCEPT ![r] = place] /\ pc[r] \in {"closing", "removing"} /\ last' \in {last, "deleted"}
      /\ disk' \in BOOLEAN
      /\ UNCHANGED <<born, reg, sdkOf, status, psess, ptask, ask, fb, closed, event, told, cancelled, heard, kind, ent,
                     on, left, stop, astray>>
  BY <1>0 DEF Closed, Removed, Goto, files, entry, sdk, signals, history, Types
<1>2. place \in {"removing", "done"}  OBVIOUS
<1> HIDE DEF place
<1>3. Types'  BY <1>0, <1>1, <1>2 DEF Types
<1>4. Known'  BY <1>0, <1>1, <1>2 DEF IInv, Known, Types
<1>5. Planners'  BY <1>0, <1>1, <1>2 DEF IInv, Planners, Types
<1>6. Owing' = Owing  BY <1>0, <1>1, <1>2 DEF Owing, Types
<1>7. Owed'  BY <1>0, <1>1, <1>6 DEF IInv, Owed
<1>8. Going' \subseteq Going  BY <1>0, <1>1, <1>2 DEF Going, Types
<1>9. Reached'  BY <1>1, <1>3, <1>8, StillReached
<1> QED  BY <1>3, <1>4, <1>5, <1>7, <1>9 DEF IInv

LEMMA Clears == ASSUME IInv, NEW r \in Req, Clear(r) \/ Cleared(r) PROVE IInv'
<1>0. Types  BY DEF IInv
<1>1. CASE Clear(r)
  <2>0. /\ pc[r] = "idle" /\ kind' = [kind EXCEPT ![r] = "clear"]
        /\ UNCHANGED <<disk, born, reg, sdkOf, status, psess, ptask, ask, fb, closed, event, cancelled, heard, ent,
                       left, last, astray>>
    BY <1>1 DEF Clear, files, entry, sdk
  <2>1. CASE Goto(r, "done") /\ UNCHANGED <<told, stop, on>>
    <3>1. Types'  BY <1>0, <2>0, <2>1 DEF Types, Goto
    <3> QED  BY <2>0, <2>1, <3>1, Moving DEF Registers
  <2>2. ASSUME NEW s \in Req, Tell(RunOf(s)), Goto(r, "clearing"), on' = [on EXCEPT ![r] = s] PROVE IInv'
    <3>0. pc' = [pc EXCEPT ![r] = "clearing"]  BY <2>2 DEF Goto
    <3>1. told' \subseteq Req /\ stop' \subseteq Req /\ stop \subseteq stop'
      BY <1>0, <2>2, RunsAreRequests DEF Tell, Types
    <3>2. Types'  BY <1>0, <2>0, <2>2, <3>0, <3>1 DEF Types
    <3>3. Known'  BY <1>0, <2>0, <2>2, <3>0 DEF IInv, Known, Types
    <3>4. Planners'  BY <1>0, <2>0, <3>0 DEF IInv, Planners, Types
    <3>5. Owing' = Owing  BY <1>0, <2>0, <3>0 DEF Owing, Types
    <3>6. Owed'  BY <1>0, <2>0, <3>5 DEF IInv, Owed
    <3>7. Going' \subseteq Going /\ r \notin Going  BY <1>0, <2>0, <3>0, <3>1 DEF Going, Types
    <3>8. Reached'  BY <1>0, <2>0, <2>2, <3>7 DEF IInv, Reached, Types
    <3> QED  BY <3>2, <3>3, <3>4, <3>6, <3>8 DEF IInv
  <2> QED  BY <1>1, <2>1, <2>2 DEF Clear
<1>2. CASE Cleared(r)
  <2>0. /\ pc[r] = "clearing" /\ pc' = [pc EXCEPT ![r] = "done"] /\ disk' = TRUE
        /\ event' = [event EXCEPT ![on[r]] = None] /\ closed' = [closed EXCEPT ![on[r]] = FALSE]
        /\ astray' = (astray \/ ~(RunOf(on[r]) \subseteq stop))
        /\ UNCHANGED <<born, reg, sdkOf, status, psess, ptask, ask, fb, told, cancelled, heard, kind, ent, on, left,
                       last, stop>>
    BY <1>2 DEF Cleared, Goto, entry, signals
  <2>1. on[r] \in Req  BY <2>0 DEF IInv, Known
  <2>2. Types'
    <3>1. astray' \in BOOLEAN  BY <1>0, <2>0 DEF Types
    <3> QED  BY <1>0, <2>0, <2>1, <3>1 DEF Types
  <2>3. Known'  BY <1>0, <2>0 DEF IInv, Known, Types
  <2>4. Planners'  BY <1>0, <2>0 DEF IInv, Planners, Types
  <2>5. Owing' = Owing  BY <1>0, <2>0 DEF Owing, Types
  <2>6. Owed'  BY <1>0, <2>0, <2>5 DEF IInv, Owed
  <2>7. Going' \subseteq Going  BY <1>0, <2>0 DEF Going, Types
  <2>8. ASSUME ~astray', NEW t \in Going' PROVE on[t] # on[r]
    <3>1. t \in Going /\ t \in Req /\ event[on[t]] = t  BY <2>0, <2>7, <2>8 DEF IInv, Reached, Going
    <3>2. CASE on[t] = on[r]
      <4>1. t \in RunOf(on[r])  BY <2>1, <3>1, <3>2 DEF RunOf
      <4>2. t \in stop  BY <2>0, <2>8, <4>1
      <4> QED  BY <3>1, <4>2 DEF Going
    <3> QED  BY <3>2
  <2>9. Reached'
    <3> SUFFICES ASSUME ~astray', NEW t \in Going'
                 PROVE  /\ reg # None /\ sdkOf[reg] = on[t] /\ event'[on[t]] = t /\ ~closed'[on[t]]
      BY <2>0 DEF Reached
    <3>1. /\ reg # None /\ sdkOf[reg] = on[t] /\ event[on[t]] = t /\ ~closed[on[t]] /\ t \in Going
      BY <2>0, <2>7 DEF IInv, Reached
    <3>2. on[t] \in Req  BY <3>1 DEF IInv, Known, Going
    <3> QED  BY <1>0, <2>0, <2>1, <2>8, <3>1, <3>2 DEF Types
  <2> QED  BY <2>2, <2>3, <2>4, <2>6, <2>9 DEF IInv
<1> QED  BY <1>1, <1>2

-----------------------------------------------------------------------------
(* A prompt that runs, and abort_session.                                  *)

LEMMA Granting == ASSUME IInv, NEW r \in Req, Granted(r) PROVE IInv'
<1>0. Types  BY DEF IInv
<1>1. /\ pc[r] = "waiting" /\ pc' = [pc EXCEPT ![r] = "running"]
      /\ UNCHANGED <<disk, born, reg, sdkOf, status, psess, ptask, ask, fb, closed, event, told, cancelled, heard, kind,
                     ent, on, left, last, stop, astray>>
  BY DEF Granted, Goto, files, entry, sdk, signals, history
<1>2. Types'  BY <1>0, <1>1 DEF Types
<1>3. Known' /\ Planners'  BY <1>0, <1>1 DEF IInv, Known, Planners, Types
<1>4. Owing' = Owing  BY <1>0, <1>1 DEF Owing, Types
<1>5. Owed'  BY <1>1, <1>4 DEF IInv, Owed
<1>6. Going' \subseteq Going  BY <1>0, <1>1 DEF Going, Types
<1>7. Reached'  BY <1>1, <1>2, <1>6, StillReached
<1> QED  BY <1>2, <1>3, <1>5, <1>7 DEF IInv

LEMMA Emitting == ASSUME IInv, NEW r \in Req, Emits(r) PROVE IInv'
<1>0. Types  BY DEF IInv
<1>1. /\ pc[r] \in {"running", "p_run"} /\ last' = "part"
      /\ UNCHANGED <<disk, born, reg, sdkOf, status, psess, ptask, ask, fb, closed, event, told, cancelled, heard, kind,
                     ent, on, left, stop, astray, pc>>
  BY DEF Emits, files, entry, sdk, signals, request, history
<1>2. Types'  BY <1>0, <1>1 DEF Types
<1>3. Known' /\ Planners'  BY <1>1 DEF IInv, Known, Planners
<1>4. r \in Owing /\ Owing' = Owing  BY <1>1 DEF Owing
<1>5. Owed'  BY <1>1, <1>4 DEF IInv, Owed
<1>6. Reached'  BY <1>1, <1>2, FewerGo, StillReached
<1> QED  BY <1>2, <1>3, <1>5, <1>6 DEF IInv

\* the end of a turn that publishes idle pays what the turn owes
LEMMA Paying ==
  ASSUME IInv, NEW r \in Req, NEW e \in Req, ent[r] = e, pc' = [pc EXCEPT ![r] = "done"], Finish(e),
         ent' = ent, cancelled' \in {cancelled, cancelled \ {r}}
  PROVE  Owed'
<1>0. Types  BY DEF IInv
<1>1. \A t \in Owing : t # r => t \in Owing'  BY <1>0 DEF Owing, Types
<1> QED  BY <1>0, <1>1 DEF IInv, Owed, Finish, SetStatus, Types, Owing

LEMMA Ending == ASSUME IInv, NEW r \in Req, RunEnds(r) PROVE IInv'
<1>0. Types  BY DEF IInv
<1>1. /\ pc[r] \in {"running", "restarting"} /\ pc' = [pc EXCEPT ![r] = "done"] /\ Finish(ent[r])
      /\ status' = [status EXCEPT ![ent[r]] = "idle"] /\ last' = "idle"
      /\ event' = [event EXCEPT ![on[r]] = IF @ = r THEN None ELSE @]
      /\ UNCHANGED <<disk, born, reg, sdkOf, psess, ptask, ask, fb, closed, told, cancelled, heard, kind, ent, on, left,
                     stop, astray>>
  BY DEF RunEnds, Goto, Freed, Finish, SetStatus, files, signals, history
<1>2. ent[r] \in Req /\ on[r] \in Req  BY <1>1 DEF IInv, Known
<1>3. Types'  BY <1>0, <1>1, <1>2 DEF Types
<1>4. Known'  BY <1>0, <1>1 DEF IInv, Known, Types
<1>5. Planners'  BY <1>0, <1>1 DEF IInv, Planners, Types
<1>6. Owed'  BY <1>1, <1>2, Paying
<1>7. Going' \subseteq Going \ {r}  BY <1>0, <1>1 DEF Going, Types
<1>8. Reached'
  <2> SUFFICES ASSUME ~astray', NEW t \in Going'
               PROVE  /\ reg # None /\ sdkOf[reg] = on[t] /\ event'[on[t]] = t /\ ~closed[on[t]]
    BY <1>1 DEF Reached
  <2>1. reg # None /\ sdkOf[reg] = on[t] /\ event[on[t]] = t /\ ~closed[on[t]] /\ t # r /\ t \in Going
    BY <1>1, <1>7 DEF IInv, Reached
  <2>2. on[t] \in Req  BY <2>1 DEF IInv, Known, Going
  <2> QED  BY <1>0, <1>1, <1>2, <2>1, <2>2 DEF Types
<1> QED  BY <1>3, <1>4, <1>5, <1>6, <1>8 DEF IInv

\* a run that is given a new event, and is not one that was to stop
LEMMA Renewing ==
  ASSUME IInv, NEW r \in Req, pc[r] \in {"running", "restarting"}, NewRun(r, on[r]),
         pc' = [pc EXCEPT ![r] = "waiting"], closed' \in {closed, [closed EXCEPT ![on[r]] = FALSE]},
         astray' = (astray \/ r \in stop), UNCHANGED <<reg, sdkOf, on, stop>>
  PROVE  Reached'
<1>0. Types /\ on[r] \in Req /\ event' = [event EXCEPT ![on[r]] = r]  BY DEF IInv, Known, NewRun
<1>1. Going' \subseteq Going  BY <1>0 DEF Going, Types
<1> SUFFICES ASSUME ~astray', NEW t \in Going'
             PROVE  /\ reg # None /\ sdkOf[reg] = on[t] /\ event'[on[t]] = t /\ ~closed'[on[t]]
  BY DEF Reached
<1>2. /\ reg # None /\ sdkOf[reg] = on[t] /\ event[on[t]] = t /\ ~closed[on[t]] /\ t \in Going
  BY <1>1 DEF IInv, Reached
<1>3. on[t] \in Req  BY <1>2 DEF IInv, Known, Going
<1>4. r \in Going  BY DEF Going
<1>5. event[on[r]] = r /\ sdkOf[reg] = on[r]  BY <1>4 DEF IInv, Reached
<1>6. t = r  BY <1>2, <1>5
<1> QED  BY <1>0, <1>2, <1>3, <1>6 DEF Types

LEMMA Breaking == ASSUME IInv, NEW r \in Req, RunBreaks(r) \/ Restarted(r) PROVE IInv'
<1>0. Types  BY DEF IInv
<1>1. CASE RunBreaks(r) /\ NewRun(r, on[r])  /\ astray' = (astray \/ r \in stop) /\ Goto(r, "waiting")
  <2>0. /\ pc[r] = "running" /\ left' = [left EXCEPT ![r] = @ - 1] /\ left[r] > 0 /\ last' = "part"
        /\ event' = [event EXCEPT ![on[r]] = r] /\ told' = told \ {r} /\ pc' = [pc EXCEPT ![r] = "waiting"]
        /\ UNCHANGED <<disk, born, reg, sdkOf, status, psess, ptask, ask, fb, closed, cancelled, heard, kind, ent, on,
                       stop>>
    BY <1>1 DEF RunBreaks, NewRun, Goto, files, entry
  <2>1. on[r] \in Req  BY <2>0 DEF IInv, Known
  <2>2. Types'
    <3>1. astray' \in BOOLEAN /\ left' \in [Req -> Nat]  BY <1>0, <1>1, <2>0 DEF Types
    <3> QED  BY <1>0, <2>0, <2>1, <3>1 DEF Types
  <2>3. Known' /\ Planners'  BY <1>0, <2>0 DEF IInv, Known, Planners, Types
  <2>4. r \in Owing /\ Owing' = Owing  BY <1>0, <2>0 DEF Owing, Types
  <2>5. Owed'  BY <2>0, <2>4 DEF IInv, Owed
  <2>6. Reached'  BY <1>1, <2>0, Renewing
  <2> QED  BY <2>2, <2>3, <2>5, <2>6 DEF IInv
<1>2. CASE RunBreaks(r) /\ told' = told \cup RunOf(on[r]) /\ Goto(r, "restarting") /\ UNCHANGED <<event, astray>>
  <2>0. /\ pc[r] = "running" /\ left' = [left EXCEPT ![r] = @ - 1] /\ left[r] > 0 /\ last' = "part"
        /\ event' = event /\ pc' = [pc EXCEPT ![r] = "restarting"] /\ astray' = astray
        /\ UNCHANGED <<disk, born, reg, sdkOf, status, psess, ptask, ask, fb, closed, cancelled, heard, kind, ent, on,
                       stop>>
    BY <1>2 DEF RunBreaks, files, entry, Goto
  <2>1. on[r] \in Req  BY <2>0 DEF IInv, Known
  <2>2. Types'
    <3>1. told' \subseteq Req  BY <1>0, <1>2, <2>1, RunsAreRequests DEF Types
    <3>2. left' \in [Req -> Nat]  BY <1>0, <2>0 DEF Types
    <3> QED  BY <1>0, <2>0, <3>1, <3>2 DEF Types
  <2>3. Known' /\ Planners'  BY <1>0, <2>0 DEF IInv, Known, Planners, Types
  <2>4. r \in Owing /\ Owing' = Owing  BY <1>0, <2>0 DEF Owing, Types
  <2>5. Owed'  BY <2>0, <2>4 DEF IInv, Owed
  <2>6. Going' \subseteq Going  BY <1>0, <2>0 DEF Going, Types
  <2>7. Reached'  BY <2>0, <2>2, <2>6, StillReached
  <2> QED  BY <2>2, <2>3, <2>5, <2>7 DEF IInv
<1>3. CASE Restarted(r)
  <2>0. /\ pc[r] = "restarting" /\ pc' = [pc EXCEPT ![r] = "waiting"] /\ disk' = TRUE /\ NewRun(r, on[r])
        /\ event' = [event EXCEPT ![on[r]] = r] /\ told' = told \ {r}
        /\ closed' = [closed EXCEPT ![on[r]] = FALSE] /\ astray' = (astray \/ r \in stop)
        /\ UNCHANGED <<born, reg, sdkOf, status, psess, ptask, ask, fb, cancelled, heard, kind, ent, on, left, last,
                       stop>>
    BY <1>3 DEF Restarted, NewRun, Goto, entry
  <2>1. on[r] \in Req  BY <2>0 DEF IInv, Known
  <2>2. Types'
    <3>1. astray' \in BOOLEAN  BY <1>0, <2>0 DEF Types
    <3> QED  BY <1>0, <2>0, <2>1, <3>1 DEF Types
  <2>3. Known'  BY <1>0, <2>0 DEF IInv, Known, Types
  <2>4. Planners'  BY <1>0, <2>0 DEF IInv, Planners, Types
  <2>5. Owing' = Owing  BY <1>0, <2>0 DEF Owing, Types
  <2>6. Owed'  BY <2>0, <2>5 DEF IInv, Owed
  <2>7. Reached'  BY <2>0, Renewing
  <2> QED  BY <2>2, <2>3, <2>4, <2>6, <2>7 DEF IInv
<1> QED  BY <1>1, <1>2, <1>3 DEF RunBreaks

\* an abort excuses a planner from its idle only by publishing idle itself
LEMMA Aborting == ASSUME IInv, Abort PROVE IInv'
<1>0. Types  BY DEF IInv
<1>1. /\ reg \in Req /\ status' = [status EXCEPT ![reg] = "idle"] /\ last' = "idle"
      /\ cancelled' = cancelled \cup Task(reg)
      /\ UNCHANGED <<disk, born, reg, sdkOf, psess, ptask, ask, fb, closed, event, heard, kind, ent, on, left, pc,
                     astray>>
  BY <1>0 DEF Abort, SetStatus, files, sdk, request, Types
<1>2. told' \subseteq Req /\ stop' \subseteq Req /\ stop \subseteq stop' /\ cancelled' \subseteq Req
  <2>1. sdkOf[reg] \in Req \cup {None}  BY <1>0, <1>1 DEF Types
  <2> QED  BY <1>0, <2>1, RunsAreRequests DEF Abort, Current, Planner, Task, Types
<1>3. Types'  BY <1>0, <1>1, <1>2 DEF Types
<1>4. Known' /\ Planners'  BY <1>1 DEF IInv, Known, Planners
<1>5. \A t \in Owing : ent[t] # reg => t \in Owing'
  <2> SUFFICES ASSUME NEW t \in Owing, ent[t] # reg PROVE t \notin Task(reg)
    BY <1>1 DEF Owing
  <2> QED  BY <1>0, <1>1 DEF IInv, Planners, Task, Types, Owing
<1>6. Owed'  BY <1>0, <1>1, <1>5 DEF IInv, Owed, Types
<1>7. Reached'  BY <1>1, <1>2, <1>3, FewerGo, StillReached
<1> QED  BY <1>3, <1>4, <1>6, <1>7 DEF IInv

LEMMA Confirming == ASSUME IInv, NEW word \in {"accept", "revise"}, Confirm(word) PROVE IInv'
<1>0. Types  BY DEF IInv
<1>1. /\ fb' = [fb EXCEPT ![reg] = word] /\ heard' = heard \cup {ask[reg]} /\ reg # None /\ ask[reg] # None
      /\ UNCHANGED <<disk, born, reg, sdkOf, status, psess, ptask, ask, closed, event, told, cancelled, kind, ent, on,
                     left, last, pc, stop, astray>>
  BY DEF Confirm, files, sdk, request, history
<1>2. Types'  BY <1>0, <1>1 DEF Types
<1>3. Known' /\ Planners'  BY <1>1 DEF IInv, Known, Planners
<1>4. Owed'  BY <1>1 DEF IInv, Owed, Owing
<1>5. Reached'  BY <1>1, <1>2, FewerGo, StillReached
<1> QED  BY <1>2, <1>3, <1>4, <1>5 DEF IInv

-----------------------------------------------------------------------------
(* The planner's task.                                                     *)

\* a planner touches no prompt and keeps its entry
LEMMA PlansApart ==
  ASSUME IInv, NEW r \in Req, NEW place \in (Planning \ {"p_task"}) \cup {"done"}, PlanFrame,
         pc[r] \in Planning, pc' = [pc EXCEPT ![r] = place], Types',
         ptask' \in {ptask, [ptask EXCEPT ![ent[r]] = None]},
         \A t \in Req : t # r => left'[t] = left[t], place = "p_sleep" => left'[r] # 0
  PROVE  Known' /\ Planners' /\ Reached'
<1>0. Types /\ ent[r] \in Req
      /\ UNCHANGED <<disk, born, reg, sdkOf, closed, event, kind, ent, on, stop, astray>>
  BY DEF IInv, Known, PlanFrame, files, sdk, history
<1>1. Known'
  <2>1. ASSUME NEW t \in Req, t # r, pc[t] = "p_sleep" PROVE left'[t] # 0
    BY <1>0, <2>1 DEF IInv, Known, Types
  <2> QED  BY <1>0, <2>1 DEF IInv, Known, Types
<1>2. Planners'  BY <1>0 DEF IInv, Planners, Types
<1>3. Going' \subseteq Going  BY <1>0 DEF Going, Types
<1>4. Reached'  BY <1>0, <1>3, StillReached
<1> QED  BY <1>1, <1>2, <1>4

\* a planner that goes on, or closes its session as its own end, still owes its idle
LEMMA StillOwing ==
  ASSUME IInv, NEW r \in Req, NEW place \in Turn, pc[r] \in Turn, pc' = [pc EXCEPT ![r] = place],
         ent' = ent, status' = status, last' \in {last, "part"},
         cancelled' \in {cancelled, cancelled \ {r}}, place = "p_close" => r \notin cancelled'
  PROVE  Owed'
<1>0. Types  BY DEF IInv
<1>1. Owing \subseteq Owing' /\ r \in Owing'  BY <1>0 DEF Owing, Types
<1> QED  BY <1>0, <1>1 DEF IInv, Owed, Owing

\* what starts, or ends without owing anything
LEMMA PlanBegins == ASSUME IInv, NEW r \in Req, PlanStarts(r) PROVE IInv'
<1>0. Types /\ ent[r] \in Req /\ pc[r] = "p_task"  BY DEF IInv, Known, PlanStarts
<1>1. UNCHANGED <<disk, born, reg, sdkOf, psess, ptask, ask, fb, closed, event, told, cancelled, heard, kind, ent, on,
                  left, stop, astray>> /\ PlanFrame
  BY DEF PlanStarts, PlanFrame, files, sdk, signals, history
<1>2. CASE r \in cancelled
  <2>1. pc' = [pc EXCEPT ![r] = "done"] /\ status' = status /\ last' = last  BY <1>2 DEF PlanStarts, Goto
  <2>2. Types'  BY <1>0, <1>1, <2>1 DEF Types
  <2>3. Owing' = Owing  BY <1>0, <1>1, <2>1 DEF Owing, Types
  <2>4. Owed'  BY <1>1, <2>1, <2>3 DEF IInv, Owed
  <2> QED  BY <1>0, <1>1, <2>1, <2>2, <2>4, PlansApart DEF IInv
<1>3. CASE r \notin cancelled
  <2>1. /\ pc' = [pc EXCEPT ![r] = "p_open"] /\ status' = [status EXCEPT ![ent[r]] = "busy"]
        /\ last' = "busy"
    BY <1>3 DEF PlanStarts, Goto, SetStatus
  <2>2. Types'  BY <1>0, <1>1, <2>1 DEF Types
  <2>3. Owing' = Owing \cup {r}  BY <1>0, <1>1, <2>1 DEF Owing, Types
  <2>4. Owed'  BY <1>0, <1>1, <2>1, <2>3 DEF IInv, Owed, Types
  <2> QED  BY <1>0, <1>1, <2>1, <2>2, <2>4, PlansApart DEF IInv
<1> QED  BY <1>2, <1>3

LEMMA PlanStays ==
  ASSUME IInv, NEW r \in Req, NEW place \in Turn \cap Planning, pc[r] \in Turn \cap Planning,
         pc' = [pc EXCEPT ![r] = place], PlanFrame, ptask' = ptask, status' = status,
         last' \in {last, "part"}, cancelled' \in {cancelled, cancelled \ {r}},
         place = "p_close" => r \notin cancelled',
         left' \in [Req -> Nat], \A t \in Req : t # r => left'[t] = left[t],
         place = "p_sleep" => left'[r] # 0,
         told' \subseteq Req, heard' \subseteq Req, psess' \in [Req -> Req \cup {None}],
         ask' \in [Req -> Req \cup {None}], fb' \in [Req -> {"none", "accept", "revise"}]
  PROVE  IInv'
<1>0. UNCHANGED <<disk, born, reg, sdkOf, closed, event, kind, ent, on, stop, astray>> /\ Types
  BY DEF PlanFrame, files, sdk, history, IInv
<1>1. cancelled' \subseteq Req /\ pc' \in [Req -> Place] /\ last' \in {"none", "part", "busy", "idle", "deleted"}
  BY <1>0 DEF Types
<1>2. Types'  BY <1>0, <1>1 DEF Types
<1>3. ptask' \in {ptask, [ptask EXCEPT ![ent[r]] = None]}  OBVIOUS
<1>4. Known' /\ Planners' /\ Reached'  BY <1>2, <1>3, PlansApart
<1>5. Owed'  BY <1>0, StillOwing
<1> QED  BY <1>2, <1>4, <1>5 DEF IInv

LEMMA AttemptFacts ==
  ASSUME Types, NEW r \in Req, NEW num \in Nat, Attempt(r, num)
  PROVE  /\ pc' = [pc EXCEPT ![r] = "p_run"] /\ left' \in [Req -> Nat] /\ told' \subseteq Req
         /\ \A t \in Req : t # r => left'[t] = left[t]
BY DEF Attempt, Goto, Types

\* the steps after which a planner runs an attempt
LEMMA PlanRuns ==
  ASSUME IInv, NEW r \in Req, NEW num \in Nat, Attempt(r, num), pc[r] \in Turn \cap Planning, PlanFrame,
         UNCHANGED <<ptask, status, cancelled, last, heard>>, psess' \in [Req -> Req \cup {None}],
         ask' \in [Req -> Req \cup {None}], fb' \in [Req -> {"none", "accept", "revise"}]
  PROVE  IInv'
<1>1. Types  BY DEF IInv
<1>2. /\ pc' = [pc EXCEPT ![r] = "p_run"] /\ left' \in [Req -> Nat] /\ told' \subseteq Req
      /\ \A t \in Req : t # r => left'[t] = left[t]
  BY <1>1, AttemptFacts
<1>3. heard' \subseteq Req  BY <1>1 DEF Types
<1> QED  BY <1>2, <1>3, PlanStays

\* the steps after which it closes its session
LEMMA PlanFinishes ==
  ASSUME IInv, NEW r \in Req, PlanFinal(r), pc[r] \in Turn \cap Planning, PlanFrame,
         UNCHANGED <<ptask, status, left, told, heard, psess>>,
         ask' \in [Req -> Req \cup {None}], fb' \in [Req -> {"none", "accept", "revise"}]
  PROVE  IInv'
<1>1. Types  BY DEF IInv
<1>2. pc' = [pc EXCEPT ![r] = "p_close"] /\ last' = "part" /\ cancelled' = cancelled \ {r}
  BY DEF PlanFinal, Goto
<1>3. /\ heard' \subseteq Req /\ told' \subseteq Req /\ left' \in [Req -> Nat]
      /\ psess' \in [Req -> Req \cup {None}]
  BY <1>1 DEF Types
<1> QED  BY <1>2, <1>3, PlanStays

LEMMA PlanGoesOn ==
  ASSUME IInv, NEW r \in Req,
         \/ PlanOpened(r) \/ PlanFails(r) \/ PlanCancelled(r) \/ PlanWakes(r) \/ PlanMissing(r)
         \/ PlanWritten(r) \/ PlanAnswered(r, TRUE) \/ PlanAnswered(r, FALSE)
  PROVE  IInv'
<1>0. /\ left[r] \in Nat /\ left \in [Req -> Nat] /\ told \subseteq Req /\ heard \subseteq Req
      /\ psess \in [Req -> Req \cup {None}]
      /\ ask \in [Req -> Req \cup {None}] /\ fb \in [Req -> {"none", "accept", "revise"}]
  BY DEF IInv, Types
<1>2. CASE PlanOpened(r)
  <2>1. MaxAttempts - 1 \in Nat  BY LimitsAreCounts
  <2>2. pc[r] = "p_open" /\ psess' = [psess EXCEPT ![ent[r]] = r] /\ Attempt(r, MaxAttempts - 1)
        /\ UNCHANGED <<status, ptask, ask, fb, cancelled, heard, last>> /\ PlanFrame
    BY <1>2 DEF PlanOpened
  <2>3. psess' \in [Req -> Req \cup {None}]  BY <1>0, <2>2
  <2> QED  BY <1>0, <2>1, <2>2, <2>3, PlanRuns
<1>3. CASE PlanFails(r)
  <2>1. pc[r] = "p_run" /\ PlanFrame /\ UNCHANGED <<status, psess, ptask, ask, fb, told, heard, left>>
    BY <1>3 DEF PlanFails
  <2>2. CASE PlanFinal(r)  BY <1>0, <2>1, <2>2, PlanFinishes
  <2>3. CASE left[r] # 0 /\ Goto(r, "p_sleep") /\ cancelled' = cancelled \ {r} /\ last' = last
    <3>1. pc' = [pc EXCEPT ![r] = "p_sleep"]  BY <2>3 DEF Goto
    <3> QED  BY <1>0, <2>1, <2>3, <3>1, PlanStays
  <2> QED  BY <1>3, <2>2, <2>3 DEF PlanFails
<1>4. CASE PlanCancelled(r)
  <2>1. /\ pc[r] \in {"p_run", "p_sleep", "p_confirm"} /\ PlanFinal(r) /\ PlanFrame
        /\ UNCHANGED <<status, psess, ptask, ask, fb, told, heard, left>>
    BY <1>4 DEF PlanCancelled
  <2> QED  BY <1>0, <2>1, PlanFinishes
<1>5. CASE PlanWakes(r)
  <2>1. /\ pc[r] = "p_sleep" /\ Attempt(r, left[r] - 1) /\ PlanFrame
        /\ UNCHANGED <<status, psess, ptask, ask, fb, cancelled, heard, last>>
    BY <1>5 DEF PlanWakes
  <2>2. left[r] # 0  BY <2>1 DEF IInv, Known
  <2>3. left[r] - 1 \in Nat  BY <1>0, <2>2
  <2> QED  BY <1>0, <2>1, <2>3, PlanRuns
<1>6. CASE PlanMissing(r)
  <2>1. pc[r] = "p_run" /\ PlanFrame /\ UNCHANGED <<status, psess, ptask, ask, fb, heard>>
    BY <1>6 DEF PlanMissing
  <2>2. CASE PlanFinal(r) /\ UNCHANGED <<left, told>>  BY <1>0, <2>1, <2>2, PlanFinishes
  <2>3. CASE left[r] # 0 /\ Attempt(r, left[r] - 1) /\ UNCHANGED <<cancelled, last>>
    <3>1. left[r] - 1 \in Nat  BY <1>0, <2>3
    <3> QED  BY <1>0, <2>1, <2>3, <3>1, PlanRuns
  <2> QED  BY <1>6, <2>2, <2>3 DEF PlanMissing
<1>7. CASE PlanWritten(r)
  <2>1. /\ pc[r] = "p_run" /\ Goto(r, "p_confirm") /\ last' = "part" /\ PlanFrame
        /\ ask' = [ask EXCEPT ![ent[r]] = r] /\ fb' = [fb EXCEPT ![ent[r]] = "none"] /\ heard' = heard \ {r}
        /\ UNCHANGED <<status, psess, ptask, told, cancelled, left>>
    BY <1>7 DEF PlanWritten
  <2>2. /\ pc' = [pc EXCEPT ![r] = "p_confirm"] /\ heard' \subseteq Req
        /\ ask' \in [Req -> Req \cup {None}] /\ fb' \in [Req -> {"none", "accept", "revise"}]
    BY <1>0, <2>1 DEF Goto
  <2> QED  BY <1>0, <2>1, <2>2, PlanStays
<1>8. ASSUME NEW timeout \in BOOLEAN, PlanAnswered(r, timeout) PROVE IInv'
  <2>1. pc[r] = "p_confirm" /\ PlanFrame /\ UNCHANGED <<status, psess, ptask, heard>>
    BY <1>8 DEF PlanAnswered
  <2>2. ask' \in [Req -> Req \cup {None}] /\ fb' \in [Req -> {"none", "accept", "revise"}]
    BY <1>0, <1>8 DEF PlanAnswered
  <2>3. CASE PlanFinal(r) /\ UNCHANGED <<left, told>>  BY <1>0, <2>1, <2>2, <2>3, PlanFinishes
  <2>4. CASE left[r] > 0 /\ Attempt(r, left[r] - 1) /\ UNCHANGED <<cancelled, last>>
    <3>1. left[r] - 1 \in Nat  BY <1>0, <2>4
    <3> QED  BY <1>0, <2>1, <2>2, <2>4, <3>1, PlanRuns
  <2> QED  BY <1>8, <2>3, <2>4 DEF PlanAnswered
<1> QED  BY <1>2, <1>3, <1>4, <1>5, <1>6, <1>7, <1>8

LEMMA PlanEnds == ASSUME IInv, NEW r \in Req, PlanOpenFails(r) \/ PlanClosed(r) PROVE IInv'
<1>0. Types /\ ent[r] \in Req /\ pc[r] \in Turn \cap Planning  BY DEF IInv, Known, PlanOpenFails, PlanClosed
<1>1. UNCHANGED <<disk, born, reg, sdkOf, ask, fb, closed, event, told, heard, kind, ent, on, left, stop, astray>>
      /\ cancelled' \in {cancelled, cancelled \ {r}} /\ PlanFrame
  BY DEF PlanOpenFails, PlanClosed, PlanFrame, files, sdk, signals, history
<1>2. CASE PlanOver(r)
  <2>1. pc' = [pc EXCEPT ![r] = "done"] /\ Finish(ent[r]) /\ ptask' = [ptask EXCEPT ![ent[r]] = None]
        /\ psess' = [psess EXCEPT ![ent[r]] = None]
    BY <1>2 DEF PlanOver, Goto
  <2>2. Types'
    <3>1. status' \in [Req -> {"idle", "busy"}] /\ last' = "idle" /\ pc' \in [Req -> Place]
          /\ ptask' \in [Req -> Req \cup {None}] /\ psess' \in [Req -> Req \cup {None}] /\ cancelled' \subseteq Req
      BY <1>0, <1>1, <2>1 DEF Finish, SetStatus, Types
    <3> QED  BY <1>0, <1>1, <3>1 DEF Types
  <2>3. Owed'  BY <1>0, <1>1, <2>1, Paying
  <2> QED  BY <1>0, <1>1, <2>1, <2>2, <2>3, PlansApart DEF IInv
<1>3. CASE pc[r] = "p_close" /\ r \in cancelled /\ Goto(r, "done")
           /\ UNCHANGED <<status, psess, ptask, last, cancelled>>
  <2>1. pc' = [pc EXCEPT ![r] = "done"]  BY <1>3 DEF Goto
  <2>2. Types'  BY <1>0, <1>1, <1>3, <2>1 DEF Types
  <2>3. Owing' = Owing  BY <1>0, <1>1, <1>3, <2>1 DEF Owing, Types
  <2>4. Owed'  BY <1>1, <1>3, <2>3 DEF IInv, Owed
  <2> QED  BY <1>0, <1>1, <1>3, <2>1, <2>2, <2>4, PlansApart DEF IInv
<1> QED  BY <1>2, <1>3 DEF PlanOpenFails, PlanClosed, signals

-----------------------------------------------------------------------------
LEMMA Inductive == IInv /\ [Next]_vars => IInv'
<1> SUFFICES ASSUME IInv, [Next]_vars PROVE IInv'  OBVIOUS
<1>1. ASSUME NEW r \in Req, Lookup(r) \/ Change(r) \/ Prompt(r) \/ Plan(r) PROVE IInv'
  <2>1. CASE Lookup(r)  BY <2>1, Lookups
  <2>2. CASE Change(r)  BY <2>2, Creates, Deletes, Clears DEF Change
  <2>3. CASE Prompt(r)  BY <2>3, Granting, Emitting, Ending, Breaking DEF Prompt
  <2>4. CASE Plan(r)  BY <2>4, PlanBegins, PlanGoesOn, PlanEnds DEF Plan
  <2> QED  BY <1>1, <2>1, <2>2, <2>3, <2>4
<1>2. CASE Abort  BY <1>2, Aborting
<1>3. CASE Confirm("accept") \/ Confirm("revise")  BY <1>3, Confirming
<1>4. CASE UNCHANGED vars
  <2>1. UNCHANGED <<disk, born, reg, sdkOf, status, psess, ptask, ask, fb, closed, event, told, cancelled, heard,
                    pc, kind, ent, on, left, last, stop, astray>>
    BY <1>4 DEF vars, files, entry, sdk, signals, request, history
  <2>2. Types'  BY <2>1 DEF IInv, Types
  <2>3. Known' /\ Planners' /\ Owed'  BY <2>1 DEF IInv, Known, Planners, Owed, Owing
  <2>4. Reached'  BY <2>1, <2>2, FewerGo, StillReached
  <2> QED  BY <2>2, <2>3, <2>4 DEF IInv
<1> QED  BY <1>1, <1>2, <1>3, <1>4 DEF Next

-----------------------------------------------------------------------------
(* The theorems.                                                           *)

\* The variables of the server have their types.
THEOREM Typing == Spec => []TypeOK
<1>1. IInv => TypeOK  BY TypesSuffice DEF IInv
<1> QED  BY <1>1, Initially, Inductive, PTL DEF Spec

\* When no turn is open, the last event of the session is none of a turn and its
\* entry is idle, for any number of prompts, plans, aborts and deletes that overlap
\* (the `finally' clauses of prompt and plan_async, and abort_session).
THEOREM LastWordIsIdle == Spec => []EndsIdle
<1>1. IInv => EndsIdle
  <2> SUFFICES ASSUME IInv, \A r \in Req : pc[r] \notin Turn
               PROVE  last \in {"none", "idle", "deleted"} /\ (reg # None => status[reg] = "idle")
    BY DEF EndsIdle
  <2>1. Owing = {}  BY DEF Owing
  <2> QED  BY <2>1 DEF IInv, Owed, Types
<1> QED  BY <1>1, Initially, Inductive, PTL DEF Spec

\* Every prompt that goes on is the one that abort_session would tell, unless one
\* of the races has happened that `astray' notes.
THEOREM AbortsReach == Spec => []AbortReaches
<1>1. IInv => AbortReaches  BY DEF IInv, Reached, AbortReaches
<1> QED  BY <1>1, Initially, Inductive, PTL DEF Spec

OnePrompt == ~astray => \A r, s \in Going : r = s

\* So a session id has one prompt at a time, whatever requests overlap: the guard
\* of prompt (`a prompt is running') holds across clear, restart and delete.
THEOREM OnePromptGoes == Spec => []OnePrompt
<1>1. IInv => OnePrompt  BY DEF IInv, Reached, OnePrompt
<1> QED  BY <1>1, Initially, Inductive, PTL DEF Spec

HIDE NoneIsNoRequest DEF Place, Kind, Turn, Planning

-----------------------------------------------------------------------------
(* The RPC over TCP: its types, by the part of the system they belong to.  *)

ClientTypes ==
  /\ sock \in [Client -> BOOLEAN] /\ clock \in [Client -> Caller \cup {Nobody}]
  /\ rt \in [Client -> {"off", "reading", "leaving", "done"}]
  /\ answered \in [Client -> BOOLEAN] /\ answer \in [Client -> Call \cup {Nobody}]
CallerTypes ==
  /\ at \in [Caller -> {"idle", "send", "sending", "wait", "take"}] /\ n \in [Caller -> Nat]
  /\ got \in [Caller -> Call \cup {Nobody, Unanswered}] /\ clean \in [Caller -> BOOLEAN]
WireTypes ==
  /\ up \in [Client -> Seq(Call)] /\ down \in [Client -> Seq(Call \cup {Part})] /\ torn \subseteq Client
ServerTypes ==
  /\ main \in {"accept", "register", "submit", "ended"} /\ acc \in Client \cup {Nobody}
  /\ lock \in Client \cup {Nobody} /\ registered \subseteq Client /\ open \subseteq Client
  /\ running \in BOOLEAN /\ listening \in BOOLEAN /\ executor \in {"up", "shut", "none"}
  /\ halt \in {"no", "clear", "close", "join", "done"}
LoopPlaces == Served \cup {"none", "accepted", "queued", "done"}
PoolTypes ==
  /\ queue \in Seq(Client) /\ loop \in [Client -> LoopPlaces] /\ work \in [Client -> Call \cup {Nobody}]
  /\ \A c \in Client : loop[c] \in {"handle", "sending"} => work[c] \in Call

\* Where the accept thread is says whether it holds a client, which has no loop yet.
Accepting ==
  /\ main \in {"register", "submit"} => acc # Nobody
  /\ main = "accept" => acc = Nobody
  /\ acc # Nobody => loop[acc] = "accepted"
  /\ \A c \in Client : loop[c] = "accepted" => acc = c

\* The queue of the pool holds the clients that are queued, once.
Queueing ==
  /\ \A i \in DOMAIN queue : loop[queue[i]] = "queued"
  /\ \A i, j \in DOMAIN queue : queue[i] = queue[j] => i = j
  /\ \A c \in Client : loop[c] = "queued" => \E i \in DOMAIN queue : queue[i] = c

\* Who is registered or has an open socket is served, or will be.
Attended == \A c \in registered \cup open : loop[c] \in Served \cup {"queued", "accepted"}

\* How far stop has come.
Halting ==
  /\ running <=> halt = "no"
  /\ executor = "up" <=> halt \in {"no", "clear", "close"}
  /\ halt = "done" => queue = <<>> /\ \A c \in Client : loop[c] \notin Served

\* The call of t has its connection for itself: nobody else calls on it, and what is
\* on its way, in hand or answered is of this call.
Own(t) == <<t, n[t]>>
Alone(t) ==
  /\ \A u \in Caller \ {t} : Of[u] = Of[t] => at[u] = "idle"
  /\ \A i \in DOMAIN up[Of[t]] : up[Of[t]][i] = Own(t)
  /\ \A i \in DOMAIN down[Of[t]] : down[Of[t]][i] \in {Own(t), Part}
  /\ loop[Of[t]] \in {"handle", "sending"} => work[Of[t]] = Own(t)
  /\ at[t] # "idle" /\ answered[Of[t]] => answer[Of[t]] = Own(t)
  /\ at[t] = "take" => answered[Of[t]]
  /\ got[t] \in {Unanswered, Own(t)}
CleanIsAlone == \A t \in Caller : clean[t] => Alone(t)

NetTyped == ClientTypes /\ CallerTypes /\ WireTypes /\ ServerTypes /\ PoolTypes
NetIInv  == NetTyped /\ Accepting /\ Queueing /\ Attended /\ Halting /\ CleanIsAlone

-----------------------------------------------------------------------------
LEMMA NetBegins == NetInit => NetIInv
<1> SUFFICES ASSUME NetInit PROVE NetIInv  OBVIOUS
<1> USE DEF NetInit
<1>1. ClientTypes /\ CallerTypes /\ ServerTypes
  BY DEF ClientTypes, CallerTypes, ServerTypes
<1>2. WireTypes /\ queue \in Seq(Client)  BY DEF WireTypes
<1>3. PoolTypes  BY <1>2 DEF PoolTypes, LoopPlaces, Served
<1>4. Accepting /\ Queueing /\ Attended /\ Halting  BY DEF Accepting, Queueing, Attended, Halting, Served
<1>5. CleanIsAlone  BY OfClients DEF CleanIsAlone, Alone
<1> QED  BY <1>1, <1>2, <1>3, <1>4, <1>5 DEF NetIInv, NetTyped

-----------------------------------------------------------------------------
(* Types, one part after another.                                          *)

ByClient(c) == Connect(c) \/ Disconnect(c) \/ Receives(c) \/ RecvEnds(c) \/ ThreadEnds(c)
ByCaller(t) == CallBegins(t) \/ Calling(t)
ByAccept    == (\E c \in Client : Accepts(c)) \/ AddsClient \/ Submits
ByLoop(c)   == ServesClient(c) \/ Kicks(c)

LEMMA ClientsTyped ==
  ASSUME NetTyped, NEW c \in Client, ByClient(c)
  PROVE  ClientTypes' /\ WireTypes' /\ UNCHANGED <<caller, accept, table, state, pool, up>>
<1>0. ClientTypes /\ WireTypes  BY DEF NetTyped
<1>1. CASE Connect(c) \/ Disconnect(c) \/ RecvEnds(c)
  BY <1>0, <1>1 DEF Connect, Disconnect, RecvEnds, ClientTypes, WireTypes, wire
<1>2. CASE ThreadEnds(c)
  <2>1. <<>> \in Seq(Call \cup {Part})  OBVIOUS
  <2> QED  BY <1>0, <1>2, <2>1 DEF ThreadEnds, ClientTypes, WireTypes
<1>3. CASE Receives(c)
  <2>1. down[c] \in Seq(Call \cup {Part}) /\ down[c] # <<>>  BY <1>0, <1>3 DEF Receives, WireTypes
  <2>2. Head(down[c]) \in Call \cup {Part} /\ Tail(down[c]) \in Seq(Call \cup {Part})  BY <2>1
  <2>3. WireTypes'  BY <1>0, <1>3, <2>2 DEF Receives, WireTypes
  <2>4. ClientTypes'  BY <1>0, <1>3, <2>2 DEF Receives, ClientTypes
  <2> QED  BY <1>3, <2>3, <2>4 DEF Receives
<1> QED  BY <1>1, <1>2, <1>3 DEF ByClient, Connect, Disconnect, RecvEnds, ThreadEnds, wire

LEMMA CallersTyped ==
  ASSUME NetTyped, NEW t \in Caller, ByCaller(t)
  PROVE  ClientTypes' /\ CallerTypes' /\ WireTypes' /\ UNCHANGED <<accept, table, state, pool, down>>
<1>0. ClientTypes /\ CallerTypes /\ WireTypes /\ Of[t] \in Client  BY OfClients DEF NetTyped
<1>1. CASE CallBegins(t)
  <2>1. Quiet(t, Of[t]) \in BOOLEAN  BY DEF Quiet
  <2>2. clean' \in [Caller -> BOOLEAN]  BY <1>0, <1>1, <2>1 DEF CallBegins, CallerTypes
  <2>3. answered' \in [Client -> BOOLEAN]  BY <1>0, <1>1 DEF CallBegins, ClientTypes, Unset
  <2>4. n' \in [Caller -> Nat] /\ at' \in [Caller -> {"idle", "send", "sending", "wait", "take"}]
    BY <1>0, <1>1 DEF CallBegins, CallerTypes
  <2>5. got' \in [Caller -> Call \cup {Nobody, Unanswered}]  BY <1>0, <1>1 DEF CallBegins, CallerTypes
  <2>6. UNCHANGED <<sock, clock, rt, answer, wire>>  BY <1>1 DEF CallBegins
  <2> QED  BY <1>0, <1>1, <2>2, <2>3, <2>4, <2>5, <2>6 DEF CallBegins, ClientTypes, CallerTypes, WireTypes, wire
<1>2. ASSUME NEW c \in Client, up' = [up EXCEPT ![c] = Append(@, <<t, n[t]>>)] PROVE up' \in [Client -> Seq(Call)]
  <2>1. <<t, n[t]>> \in Call  BY <1>0 DEF CallerTypes, Call
  <2> QED  BY <1>0, <1>2, <2>1 DEF WireTypes
<1>3. CASE SendsRequest(t)
  <2>1. up' \in [Client -> Seq(Call)]  BY <1>0, <1>2, <1>3 DEF SendsRequest, WireTypes
  <2>2. clock' \in [Client -> Caller \cup {Nobody}]  BY <1>0, <1>3 DEF SendsRequest, ClientTypes
  <2>3. at' \in [Caller -> {"idle", "send", "sending", "wait", "take"}]
    BY <1>0, <1>3 DEF SendsRequest, CallerTypes
  <2> QED  BY <1>0, <1>3, <2>1, <2>2, <2>3 DEF SendsRequest, ClientTypes, CallerTypes, WireTypes
<1>4. CASE Sent(t)
  <2>1. up' \in [Client -> Seq(Call)]  BY <1>0, <1>2, <1>4 DEF Sent, WireTypes
  <2> QED  BY <1>0, <1>4, <2>1 DEF Sent, ClientTypes, CallerTypes, WireTypes
<1>5. CASE Waits(t)  BY <1>0, <1>5 DEF Waits, ClientTypes, CallerTypes, WireTypes, client, wire
<1>6. CASE Takes(t)
  <2>1. UNCHANGED <<sock, clock, rt, answered, n, clean, wire, accept, table, state, pool>>  BY <1>6 DEF Takes
  <2>2. got' \in [Caller -> Call \cup {Nobody, Unanswered}]  BY <1>0, <1>6 DEF Takes, ClientTypes, CallerTypes
  <2>3. answer' \in [Client -> Call \cup {Nobody}]  BY <1>0, <1>6 DEF Takes, ClientTypes
  <2>4. at' \in [Caller -> {"idle", "send", "sending", "wait", "take"}]  BY <1>0, <1>6 DEF Takes, CallerTypes
  <2> QED  BY <1>0, <2>1, <2>2, <2>3, <2>4 DEF ClientTypes, CallerTypes, WireTypes, wire
<1> QED  BY <1>1, <1>3, <1>4, <1>5, <1>6 DEF ByCaller, Calling

LEMMA AcceptTyped ==
  ASSUME NetTyped, Accepting, ByAccept
  PROVE  ServerTypes' /\ PoolTypes' /\ UNCHANGED <<client, caller, wire, state, work>>
<1>0. ServerTypes /\ PoolTypes  BY DEF NetTyped
<1>1. CASE \E c \in Client : Accepts(c)
  <2>1. PICK c \in Client : Accepts(c)  BY <1>1
  <2>2. loop' \in [Client -> LoopPlaces]  BY <1>0, <2>1 DEF Accepts, PoolTypes, LoopPlaces
  <2>3. PoolTypes'  BY <1>0, <2>1, <2>2 DEF Accepts, PoolTypes
  <2>4. ServerTypes'  BY <1>0, <2>1 DEF Accepts, ServerTypes, state
  <2> QED  BY <2>1, <2>3, <2>4 DEF Accepts
<1>2. CASE AddsClient
  <2>1. acc \in Client  BY <1>0, <1>2 DEF AddsClient, Accepting, ServerTypes
  <2> QED  BY <1>0, <1>2, <2>1 DEF AddsClient, ServerTypes, PoolTypes, state, pool
<1>3. CASE Submits
  <2>1. acc \in Client  BY <1>0, <1>3 DEF Submits, Accepting, ServerTypes
  <2>2. loop' \in [Client -> LoopPlaces]  BY <1>0, <1>3, <2>1 DEF Submits, PoolTypes, LoopPlaces
  <2>3. queue' \in Seq(Client)  BY <1>0, <1>3, <2>1 DEF Submits, PoolTypes
  <2>4. PoolTypes'  BY <1>0, <1>3, <2>2, <2>3 DEF Submits, PoolTypes
  <2>5. ServerTypes'  BY <1>0, <1>3 DEF Submits, ServerTypes, state, table
  <2> QED  BY <1>3, <2>4, <2>5 DEF Submits
<1> QED  BY <1>1, <1>2, <1>3 DEF ByAccept

LEMMA LoopsTyped ==
  ASSUME NetTyped, NEW c \in Client, ByLoop(c)
  PROVE  WireTypes' /\ ServerTypes' /\ PoolTypes' /\ UNCHANGED <<client, caller, accept, state, queue, torn>>
<1>0. WireTypes /\ ServerTypes /\ PoolTypes  BY DEF NetTyped
<1>1. CASE Looks(c)
  <2>1. loop' \in [Client -> LoopPlaces]  BY <1>0, <1>1 DEF Looks, PoolTypes, LoopPlaces, Served
  <2>2. PoolTypes'  BY <1>0, <1>1, <2>1 DEF Looks, PoolTypes
  <2> QED  BY <1>0, <1>1, <2>2 DEF Looks, WireTypes, ServerTypes, wire, accept, table, state
<1>2. CASE Recvs(c)
  <2>1. loop' \in [Client -> LoopPlaces]  BY <1>0, <1>2 DEF Recvs, PoolTypes, LoopPlaces, Served
  <2>2. up[c] \in Seq(Call)  BY <1>0 DEF WireTypes
  <2>3. up[c] # <<>> => Head(up[c]) \in Call /\ Tail(up[c]) \in Seq(Call)  BY <2>2
  <2>4. PoolTypes'  BY <1>0, <1>2, <2>1, <2>3 DEF Recvs, PoolTypes
  <2>5. WireTypes'  BY <1>0, <1>2, <2>3 DEF Recvs, WireTypes
  <2> QED  BY <1>0, <1>2, <2>4, <2>5 DEF Recvs, ServerTypes, accept, table, state
<1>3. ASSUME NEW m \in Call \cup {Part}, down' = [down EXCEPT ![c] = Append(@, m)]
      PROVE  down' \in [Client -> Seq(Call \cup {Part})]
  BY <1>0, <1>3 DEF WireTypes
<1>4. CASE Replies(c)
  <2>0. work[c] \in Call  BY <1>0, <1>4 DEF Replies, PoolTypes
  <2>1. loop' \in [Client -> LoopPlaces]  BY <1>0, <1>4 DEF Replies, PoolTypes, LoopPlaces, Served
  <2>2. PoolTypes'  BY <1>0, <1>4, <2>0, <2>1 DEF Replies, PoolTypes
  <2>3. down' \in [Client -> Seq(Call \cup {Part})]  BY <1>0, <1>3, <1>4, <2>0 DEF Replies, WireTypes
  <2>4. WireTypes'  BY <1>0, <1>4, <2>3 DEF Replies, WireTypes
  <2>5. ServerTypes'  BY <1>0, <1>4 DEF Replies, ServerTypes, accept, state
  <2> QED  BY <1>4, <2>2, <2>4, <2>5 DEF Replies
<1>5. CASE Replied(c)
  <2>0. work[c] \in Call  BY <1>0, <1>5 DEF Replied, PoolTypes
  <2>1. loop' \in [Client -> LoopPlaces]  BY <1>0, <1>5 DEF Replied, PoolTypes, LoopPlaces, Served
  <2>2. PoolTypes'  BY <1>0, <1>5, <2>1 DEF Replied, PoolTypes
  <2>3. down' \in [Client -> Seq(Call \cup {Part})]  BY <1>0, <1>3, <1>5, <2>0 DEF Replied, WireTypes
  <2>4. WireTypes'  BY <1>0, <1>5, <2>3 DEF Replied, WireTypes
  <2>5. ServerTypes'  BY <1>0, <1>5 DEF Replied, ServerTypes, accept, state
  <2> QED  BY <1>5, <2>2, <2>4, <2>5 DEF Replied
<1>6. CASE Leaves(c)
  <2>1. loop' \in [Client -> LoopPlaces]  BY <1>0, <1>6 DEF Leaves, PoolTypes, LoopPlaces
  <2>2. PoolTypes'  BY <1>0, <1>6, <2>1 DEF Leaves, PoolTypes
  <2>3. <<>> \in Seq(Call)  OBVIOUS
  <2>4. WireTypes'  BY <1>0, <1>6, <2>3 DEF Leaves, WireTypes
  <2>5. ServerTypes'  BY <1>0, <1>6 DEF Leaves, ServerTypes, Without, accept, state
  <2> QED  BY <1>6, <2>2, <2>4, <2>5 DEF Leaves
<1>7. CASE Kicks(c)
  BY <1>0, <1>7 DEF Kicks, WireTypes, ServerTypes, PoolTypes, wire, accept, state, pool
<1> QED  BY <1>1, <1>2, <1>4, <1>5, <1>6, <1>7 DEF ByLoop, ServesClient

LEMMA StopTyped ==
  ASSUME NetTyped, Starts \/ Stop \/ Stopping
  PROVE  ServerTypes' /\ PoolTypes' /\ UNCHANGED <<client, caller, wire, acc, work>>
<1>0. ServerTypes /\ PoolTypes  BY DEF NetTyped
<1>1. CASE Starts
  <2>1. queue \in Seq(Client) /\ queue # <<>>  BY <1>0, <1>1 DEF Starts, PoolTypes
  <2>2. Head(queue) \in Client /\ Tail(queue) \in Seq(Client)  BY <2>1
  <2>3. loop' \in [Client -> LoopPlaces]  BY <1>0, <1>1, <2>2 DEF Starts, PoolTypes, LoopPlaces, Served
  <2>4. PoolTypes'  BY <1>0, <1>1, <2>2, <2>3 DEF Starts, PoolTypes
  <2> QED  BY <1>0, <1>1, <2>4 DEF Starts, ServerTypes, accept, table, state
<1>2. CASE Stop \/ Stopping
  BY <1>0, <1>2 DEF Stop, Stopping, StopClears, StopCloses, StopJoins, ServerTypes, PoolTypes, accept, table, pool
<1> QED  BY <1>1, <1>2

LEMMA NetTypesStay == NetTyped /\ Accepting /\ [NetNext]_netVars => NetTyped'
<1> SUFFICES ASSUME NetTyped, Accepting, [NetNext]_netVars PROVE NetTyped'  OBVIOUS
<1> USE DEF NetTyped, ClientTypes, CallerTypes, WireTypes, ServerTypes, PoolTypes
<1>1. ASSUME NEW c \in Client, ByClient(c) PROVE NetTyped'
  BY <1>1, ClientsTyped DEF caller, accept, table, state, pool
<1>2. ASSUME NEW t \in Caller, ByCaller(t) PROVE NetTyped'
  BY <1>2, CallersTyped DEF accept, table, state, pool
<1>3. CASE ByAccept  BY <1>3, AcceptTyped DEF client, caller, wire
<1>4. ASSUME NEW c \in Client, ByLoop(c) PROVE NetTyped'
  BY <1>4, LoopsTyped DEF client, caller
<1>5. CASE Starts \/ Stop \/ Stopping  BY <1>5, StopTyped DEF client, caller, wire
<1>6. CASE UNCHANGED netVars
  BY <1>6 DEF netVars, client, caller, wire, accept, table, state, pool
<1> QED  BY <1>1, <1>2, <1>3, <1>4, <1>5, <1>6 DEF NetNext, ByClient, ByCaller, ByAccept, ByLoop

-----------------------------------------------------------------------------
(* The registry and the pool.                                              *)

RegInv == Accepting /\ Queueing /\ Attended /\ Halting

\* A step of one loop from a place where it is served to another, or to its end.
LEMMA LoopMoves ==
  ASSUME NetTyped, RegInv, NEW c \in Client, NEW p \in Served \cup {"done"}, loop[c] \in Served,
         loop' = [loop EXCEPT ![c] = p], UNCHANGED <<main, acc, queue, running, executor, halt>>,
         registered' \cup open' \subseteq registered \cup open,
         p = "done" => c \notin registered' \cup open'
  PROVE  RegInv'
<1> USE DEF RegInv
<1>1. /\ \A d \in Client : loop'[d] = IF d = c THEN p ELSE loop[d]
      /\ {"none", "accepted", "queued"} \cap Served = {} /\ p \notin {"accepted", "queued"}
  BY DEF NetTyped, PoolTypes, Served
<1>2. acc \in Client \cup {Nobody} /\ registered \cup open \subseteq Client /\ \A i \in DOMAIN queue : queue[i] \in Client
  BY DEF NetTyped, ServerTypes, PoolTypes
<1>3. Accepting'  BY <1>1, <1>2, NobodyIsNoOne DEF Accepting
<1>4. Queueing'  BY <1>1, <1>2 DEF Queueing
<1>5. Attended'  BY <1>1, <1>2 DEF Attended
<1>6. Halting'  BY <1>1 DEF Halting
<1> QED  BY <1>3, <1>4, <1>5, <1>6

LEMMA RegOfLoops == ASSUME NetTyped, RegInv, NEW c \in Client, ByLoop(c) PROVE RegInv'
<1>0. UNCHANGED <<main, acc, queue, running, executor, halt>>
  BY DEF ByLoop, ServesClient, Looks, Recvs, Replies, Replied, Leaves, Kicks, accept, state, pool
<1>1. CASE Looks(c) \/ Recvs(c) \/ Replies(c) \/ Replied(c)
  <2>1. registered' = registered /\ open' = open /\ loop[c] \in Served
    BY <1>1 DEF Looks, Recvs, Replies, Replied, table, Served
  <2>2. PICK p \in Served : loop' = [loop EXCEPT ![c] = p]
    BY <1>1 DEF Looks, Recvs, Replies, Replied, Served
  <2> QED  BY <1>0, <2>1, <2>2, LoopMoves DEF Served
<1>2. CASE Leaves(c)
  <2>1. /\ registered' = registered \ {c} /\ open' = open \ {c} /\ loop[c] \in Served
        /\ loop' = [loop EXCEPT ![c] = "done"]
    BY <1>2 DEF Leaves, Without, Served
  <2> QED  BY <1>0, <2>1, LoopMoves
<1>3. CASE Kicks(c)
  <2>1. registered' = registered /\ open' \subseteq open /\ loop' = loop  BY <1>3 DEF Kicks, pool
  <2> QED  BY <1>0, <2>1 DEF RegInv, Accepting, Queueing, Attended, Halting
<1> QED  BY <1>1, <1>2, <1>3 DEF ByLoop, ServesClient

LEMMA RegOfAccept == ASSUME NetTyped, RegInv, ByAccept PROVE RegInv'
<1> USE DEF RegInv
<1>0. /\ loop \in [Client -> LoopPlaces] /\ queue \in Seq(Client)
      /\ acc \in Client \cup {Nobody} /\ registered \cup open \subseteq Client
      /\ \A i \in DOMAIN queue : queue[i] \in Client
      /\ \A d \in registered \cup open : d \in Client
      /\ {"none", "accepted", "queued"} \cap Served = {}
  BY DEF NetTyped, ServerTypes, PoolTypes, Served
<1>1. ASSUME NEW c \in Client, Accepts(c) PROVE RegInv'
  <2>1. /\ main = "accept" /\ acc = Nobody /\ main' = "register" /\ acc' = c /\ loop[c] = "none"
        /\ \A d \in Client : loop'[d] = IF d = c THEN "accepted" ELSE loop[d]
        /\ open' = open \cup {c} /\ UNCHANGED <<registered, queue, running, executor, halt>>
    BY <1>0, <1>1 DEF Accepts, Accepting, state
  <2>2. \A d \in Client : loop[d] # "accepted"  BY <2>1, NobodyIsNoOne DEF Accepting
  <2>3. Accepting'  BY <2>1, <2>2, NobodyIsNoOne DEF Accepting
  <2>4. Queueing'  BY <1>0, <2>1 DEF Queueing
  <2>5. Attended'  BY <1>0, <2>1 DEF Attended
  <2>6. Halting'  BY <1>0, <2>1 DEF Halting, Served
  <2> QED  BY <2>3, <2>4, <2>5, <2>6
<1>2. CASE AddsClient
  <2>1. /\ main = "register" /\ acc # Nobody /\ loop[acc] = "accepted" /\ main' = "submit"
        /\ registered' = registered \cup {acc} /\ UNCHANGED <<acc, open, loop, queue, running, executor, halt>>
    BY <1>2 DEF AddsClient, Accepting, state, pool
  <2>2. Accepting'  BY <2>1 DEF Accepting
  <2>3. Queueing'  BY <2>1 DEF Queueing
  <2>4. Attended'  BY <2>1 DEF Attended
  <2>5. Halting'  BY <2>1 DEF Halting
  <2> QED  BY <2>2, <2>3, <2>4, <2>5
<1>3. CASE Submits /\ executor = "up"
  <2>1. PICK c \in Client : c = acc  BY <1>0, <1>3 DEF Submits, Accepting
  <2>2. /\ loop[c] = "accepted" /\ queue' = Append(queue, c) /\ acc' = Nobody /\ main' \in {"accept", "ended"}
        /\ \A d \in Client : loop'[d] = IF d = c THEN "queued" ELSE loop[d]
        /\ UNCHANGED <<registered, open, running, executor, halt>>
    BY <1>0, <1>3, <2>1, NobodyIsNoOne DEF Submits, Accepting, state, table
  <2>3. Accepting'  BY <2>1, <2>2, NobodyIsNoOne DEF Accepting
  <2>4. /\ Len(queue) \in Nat /\ DOMAIN queue = 1..Len(queue) /\ DOMAIN queue' = 1..(Len(queue) + 1)
        /\ queue'[Len(queue) + 1] = c /\ \A i \in DOMAIN queue : queue'[i] = queue[i]
    BY <1>0, <2>2
  <2>5. \A i \in DOMAIN queue : queue[i] # c  BY <2>2 DEF Queueing
  <2>6. \A i \in DOMAIN queue' : i = Len(queue) + 1 \/ i \in DOMAIN queue  BY <2>4
  <2>7. DOMAIN queue \subseteq DOMAIN queue' /\ Len(queue) + 1 \in DOMAIN queue'  BY <2>4
  <2>8. Queueing'
    <3>1. \A i \in DOMAIN queue' : loop'[queue'[i]] = "queued"  BY <1>0, <2>2, <2>4, <2>6 DEF Queueing
    <3>2. \A i, j \in DOMAIN queue' : queue'[i] = queue'[j] => i = j  BY <2>4, <2>5, <2>6 DEF Queueing
    <3>3. \A d \in Client : loop'[d] = "queued" => \E i \in DOMAIN queue' : queue'[i] = d
      BY <2>2, <2>4, <2>7 DEF Queueing
    <3> QED  BY <3>1, <3>2, <3>3 DEF Queueing
  <2>9. Attended'  BY <1>0, <2>2 DEF Attended
  <2>10. Halting'  BY <1>0, <1>3, <2>2 DEF Halting
  <2> QED  BY <2>3, <2>8, <2>9, <2>10
<1>4. CASE Submits /\ executor # "up"
  <2>1. ~running  BY <1>4 DEF Halting, NetTyped, ServerTypes
  <2>2. /\ main = "submit" /\ main' = "ended"
        /\ UNCHANGED <<acc, registered, open, queue, loop, running, executor, halt>>
    BY <1>4, <2>1 DEF Submits, state, table
  <2> QED  BY <2>2 DEF Accepting, Queueing, Attended, Halting
<1> QED  BY <1>1, <1>2, <1>3, <1>4 DEF ByAccept

LEMMA RegOfStop == ASSUME NetTyped, RegInv, Starts \/ Stop \/ Stopping PROVE RegInv'
<1> USE DEF RegInv
<1>0. /\ loop \in [Client -> LoopPlaces] /\ queue \in Seq(Client) /\ registered \cup open \subseteq Client
      /\ {"none", "accepted", "queued"} \cap Served = {}
  BY DEF NetTyped, ServerTypes, PoolTypes, Served
<1>1. CASE Starts
  <2>1. queue # <<>> /\ UNCHANGED <<main, acc, registered, open, running, executor, halt>>
    BY <1>1 DEF Starts, accept, table, state
  <2>2. /\ Len(queue) \in Nat /\ DOMAIN queue = 1..Len(queue) /\ 1 \in DOMAIN queue
        /\ Head(queue) = queue[1] /\ queue[1] \in Client
        /\ DOMAIN Tail(queue) = 1..(Len(queue) - 1)
        /\ \A i \in DOMAIN Tail(queue) : i + 1 \in DOMAIN queue /\ Tail(queue)[i] = queue[i + 1]
    BY <1>0, <2>1
  <2>3. PICK c \in Client : c = queue[1]  BY <2>2
  <2>4. /\ loop[c] = "queued" /\ queue' = Tail(queue)
        /\ \A d \in Client : loop'[d] = IF d = c THEN "look" ELSE loop[d]
    BY <1>0, <1>1, <2>2, <2>3 DEF Starts, Queueing
  <2>5. Accepting'
    <3>1. acc \in Client \cup {Nobody}  BY DEF NetTyped, ServerTypes
    <3> QED  BY <2>1, <2>4, <3>1, NobodyIsNoOne DEF Accepting
  <2>6. Queueing'
    <3>1. ASSUME NEW i \in DOMAIN queue' PROVE loop'[queue'[i]] = "queued"
      <4>1. i + 1 \in DOMAIN queue /\ queue'[i] = queue[i + 1] /\ i + 1 # 1  BY <2>2, <2>4
      <4>2. queue[i + 1] # c /\ queue[i + 1] \in Client  BY <1>0, <2>2, <2>3, <4>1 DEF Queueing
      <4> QED  BY <2>4, <4>1, <4>2 DEF Queueing
    <3>2. ASSUME NEW i \in DOMAIN queue', NEW j \in DOMAIN queue', queue'[i] = queue'[j] PROVE i = j
      <4>1. i + 1 = j + 1  BY <2>2, <2>4, <3>2 DEF Queueing
      <4> QED  BY <2>2, <2>4, <4>1
    <3>3. ASSUME NEW d \in Client, loop'[d] = "queued" PROVE \E i \in DOMAIN queue' : queue'[i] = d
      <4>1. d # c /\ loop[d] = "queued"  BY <2>4, <3>3
      <4>2. PICK i \in DOMAIN queue : queue[i] = d  BY <4>1 DEF Queueing
      <4>3. i # 1  BY <2>3, <4>1, <4>2
      <4>4. i - 1 \in DOMAIN Tail(queue) /\ (i - 1) + 1 = i  BY <2>2, <4>2, <4>3
      <4>5. Tail(queue)[i - 1] = queue[i]  BY <2>2, <4>4
      <4> QED  BY <2>4, <4>2, <4>4, <4>5
    <3> QED  BY <3>1, <3>2, <3>3 DEF Queueing
  <2>7. Attended'  BY <1>0, <2>1, <2>4 DEF Attended, Served
  <2>8. Halting'  BY <2>1 DEF Halting
  <2> QED  BY <2>5, <2>6, <2>7, <2>8
<1>2. CASE Stop \/ StopClears \/ StopCloses
  <2>1. /\ UNCHANGED <<acc, queue, loop>> /\ main' \in {main, "ended"}
        /\ registered' \subseteq registered /\ open' \subseteq open
    BY <1>2 DEF Stop, StopClears, StopCloses, accept, table, pool
  <2>2. Accepting'
    <3>1. main' = main \/ main = "accept"  BY <1>2 DEF Stop, StopClears, StopCloses, accept
    <3> QED  BY <2>1, <3>1 DEF Accepting
  <2>3. Queueing' /\ Attended'  BY <2>1 DEF Queueing, Attended
  <2>4. Halting'  BY <1>2 DEF Stop, StopClears, StopCloses, Halting
  <2> QED  BY <2>2, <2>3, <2>4
<1>3. CASE StopJoins
  <2>1. UNCHANGED <<main, acc, queue, loop, registered, open, running>>
    BY <1>3 DEF StopJoins, accept, table, pool
  <2>2. Accepting' /\ Queueing' /\ Attended'  BY <2>1 DEF Accepting, Queueing, Attended
  <2>3. Halting'  BY <1>3, <2>1 DEF StopJoins, Halting
  <2> QED  BY <2>2, <2>3
<1> QED  BY <1>1, <1>2, <1>3 DEF Stopping

LEMMA RegStays == NetTyped /\ RegInv /\ [NetNext]_netVars => RegInv'
<1> SUFFICES ASSUME NetTyped, RegInv, [NetNext]_netVars PROVE RegInv'  OBVIOUS
<1>1. ASSUME UNCHANGED <<accept, table, state, pool>> PROVE RegInv'
  BY <1>1 DEF RegInv, Accepting, Queueing, Attended, Halting, accept, table, state, pool
<1>2. ASSUME NEW c \in Client, ByClient(c) PROVE RegInv'  BY <1>1, <1>2, ClientsTyped
<1>3. ASSUME NEW t \in Caller, ByCaller(t) PROVE RegInv'  BY <1>1, <1>3, CallersTyped
<1>4. CASE UNCHANGED netVars  BY <1>1, <1>4 DEF netVars
<1> QED  BY <1>2, <1>3, <1>4, RegOfAccept, RegOfLoops, RegOfStop DEF NetNext, ByClient, ByCaller, ByAccept, ByLoop

\* Once stop has joined the pool, only the client in the hands of the accept thread
\* is neither queued nor served nor gone.
LEMMA RegMeansServed == ASSUME NetTyped, RegInv PROVE RegistryServed
<1> USE DEF RegInv
<1>0. registered \cup open \subseteq Client /\ {"done", "accepted", "queued"} \cap Served = {}
  BY DEF NetTyped, ServerTypes, Served
<1>1. \A c \in registered : loop[c] \in Served \cup {"queued"} \/ acc = c
  BY <1>0 DEF Attended, Accepting
<1>2. \A c \in Client : loop[c] = "done" => c \notin registered \cup open  BY <1>0 DEF Attended
<1>3. ASSUME halt = "done", NEW c \in registered \cup open PROVE acc = c
  <2>1. queue = <<>> /\ loop[c] \notin Served  BY <1>0, <1>3 DEF Halting
  <2>2. loop[c] # "queued"  BY <1>0, <2>1 DEF Queueing
  <2> QED  BY <1>0, <2>1, <2>2 DEF Attended, Accepting
<1> QED  BY <1>1, <1>2, <1>3 DEF RegistryServed

-----------------------------------------------------------------------------
(* The call that has its connection for itself.                            *)

\* What is said of every message holds of the rest of a buffer, and of a longer one
\* when it holds of the new message.
LEMMA BufferFacts ==
  ASSUME NEW S, NEW b \in Seq(S), NEW M, \A i \in DOMAIN b : b[i] \in M
  PROVE  /\ b # <<>> => Head(b) \in M /\ \A i \in DOMAIN Tail(b) : Tail(b)[i] \in M
         /\ \A m \in M \cap S : \A i \in DOMAIN Append(b, m) : Append(b, m)[i] \in M
<1>1. ASSUME b # <<>> PROVE Head(b) \in M /\ \A i \in DOMAIN Tail(b) : Tail(b)[i] \in M
  <2>1. 1 \in DOMAIN b /\ Head(b) = b[1]  BY <1>1
  <2>2. \A i \in DOMAIN Tail(b) : i + 1 \in DOMAIN b /\ Tail(b)[i] = b[i + 1]  BY <1>1
  <2> QED  BY <2>1, <2>2
<1>2. ASSUME NEW m \in M \cap S, NEW i \in DOMAIN Append(b, m) PROVE Append(b, m)[i] \in M
  <2>1. \/ i \in DOMAIN b /\ Append(b, m)[i] = b[i]
        \/ Append(b, m)[i] = m
    BY <1>2
  <2> QED  BY <2>1
<1> QED  BY <1>1, <1>2

\* A step of another connection, and one that only takes away, leaves a call alone.
LEMMA AloneStays ==
  ASSUME NetTyped, NEW t \in Caller, Alone(t),
         \A u \in Caller : Of[u] = Of[t] => at'[u] = at[u],
         n'[t] = n[t], got'[t] = got[t],
         UNCHANGED <<up[Of[t]], down[Of[t]], answered[Of[t]], answer[Of[t]], work[Of[t]]>>,
         loop'[Of[t]] \in {"handle", "sending"} => loop[Of[t]] \in {"handle", "sending"}
  PROVE  Alone(t)'
BY DEF Alone, Own

LEMMA OwnOfClients == ASSUME NetTyped, CleanIsAlone, NEW d \in Client, ByClient(d) PROVE CleanIsAlone'
<1> SUFFICES ASSUME NEW t \in Caller, clean'[t] PROVE Alone(t)'  BY DEF CleanIsAlone
<1>1. UNCHANGED <<caller, pool, up>>  BY ClientsTyped
<1>2. Alone(t) /\ Of[t] \in Client  BY <1>1, OfClients DEF CleanIsAlone, caller
<1> PICK c \in Client : c = Of[t]  BY <1>2
<1>3. /\ down \in [Client -> Seq(Call \cup {Part})] /\ answer \in [Client -> Call \cup {Nobody}]
      /\ answered \in [Client -> BOOLEAN] /\ Own(t)' = Own(t)
  BY <1>1 DEF NetTyped, WireTypes, ClientTypes, caller, Own
<1>4. CASE Connect(d) \/ Disconnect(d) \/ RecvEnds(d)
  <2>1. UNCHANGED <<down, answered, answer>>  BY <1>4 DEF Connect, Disconnect, RecvEnds, wire
  <2> QED  BY <1>1, <1>2, <2>1, AloneStays DEF caller, pool
<1>5. CASE ThreadEnds(d)
  <2>1. down' = [down EXCEPT ![d] = <<>>] /\ UNCHANGED <<answered, answer>>  BY <1>5 DEF ThreadEnds
  <2>2. \A i \in DOMAIN down'[c] : down'[c][i] \in {Own(t), Part}  BY <1>2, <1>3, <2>1 DEF Alone
  <2> QED  BY <1>1, <1>2, <1>3, <2>1, <2>2 DEF Alone, caller, pool
<1>6. CASE Receives(d) /\ d # c
  <2>1. UNCHANGED <<down[c], answered[c], answer[c]>>  BY <1>3, <1>6 DEF Receives
  <2> QED  BY <1>1, <1>2, <2>1, AloneStays DEF caller, pool
<1>7. CASE Receives(c)
  <2>1. /\ down[c] \in Seq(Call \cup {Part}) /\ down[c] # <<>>
        /\ \A i \in DOMAIN down[c] : down[c][i] \in {Own(t), Part}
    BY <1>2, <1>3, <1>7 DEF Receives, Alone
  <2>2. Head(down[c]) \in {Own(t), Part} /\ \A i \in DOMAIN Tail(down[c]) : Tail(down[c])[i] \in {Own(t), Part}
    BY <2>1, BufferFacts
  <2>3. down'[c] = Tail(down[c])  BY <1>3, <1>7 DEF Receives
  <2>4. \/ UNCHANGED <<answered[c], answer[c]>>
        \/ answered'[c] = TRUE /\ answer'[c] = Own(t)
    BY <1>3, <1>7, <2>2 DEF Receives
  <2> QED  BY <1>1, <1>2, <1>3, <2>2, <2>3, <2>4 DEF Alone, caller, pool
<1> QED  BY <1>4, <1>5, <1>6, <1>7 DEF ByClient

LEMMA OwnOfCallers == ASSUME NetTyped, CleanIsAlone, NEW u \in Caller, ByCaller(u) PROVE CleanIsAlone'
<1> SUFFICES ASSUME NEW t \in Caller, clean'[t] PROVE Alone(t)'  BY DEF CleanIsAlone
<1>1. UNCHANGED <<pool, down>> /\ Of[t] \in Client /\ Of[u] \in Client  BY CallersTyped, OfClients
<1> PICK c \in Client : c = Of[t]  BY <1>1
<1>2. /\ up \in [Client -> Seq(Call)] /\ answer \in [Client -> Call \cup {Nobody}]
      /\ answered \in [Client -> BOOLEAN] /\ n \in [Caller -> Nat] /\ clean \in [Caller -> BOOLEAN]
      /\ at \in [Caller -> {"idle", "send", "sending", "wait", "take"}]
      /\ got \in [Caller -> Call \cup {Nobody, Unanswered}]
  BY DEF NetTyped, WireTypes, ClientTypes, CallerTypes
<1>3. CASE CallBegins(u) /\ t = u
  <2>1. /\ Quiet(t, c) /\ at'[t] = "send" /\ got'[t] = Unanswered /\ answered'[c] = FALSE
        /\ \A v \in Caller \ {t} : at'[v] = at[v]
        /\ UNCHANGED <<up, down, loop, work>>
    BY <1>1, <1>2, <1>3 DEF CallBegins, Unset, pool, wire
  <2>2. /\ \A v \in Caller \ {t} : Of[v] = c => at'[v] = "idle"
        /\ up'[c] = <<>> /\ down'[c] = <<>> /\ loop'[c] \notin {"handle", "sending"}
    BY <2>1 DEF Quiet
  <2> QED  BY <2>1, <2>2 DEF Alone
<1>4. CASE CallBegins(u) /\ t # u
  <2>1. clean[t] /\ Of[t] # Of[u]  BY <1>2, <1>4 DEF CallBegins
  <2>2. /\ \A v \in Caller : v # u => at'[v] = at[v]
        /\ n'[t] = n[t] /\ got'[t] = got[t] /\ answered'[c] = answered[c]
        /\ UNCHANGED <<up, down, loop, work, answer>>
    BY <1>1, <1>2, <1>4, <2>1 DEF CallBegins, Unset, pool, wire
  <2>3. Alone(t)  BY <2>1 DEF CleanIsAlone
  <2> QED  BY <2>1, <2>2, <2>3, AloneStays
<1>5. CASE Calling(u)
  <2>1. clean' = clean /\ n' = n  BY <1>5 DEF Calling, SendsRequest, Sent, Waits, Takes
  <2>2. Alone(t) /\ Own(t)' = Own(t)  BY <2>1 DEF CleanIsAlone, Own
  <2>3. at[u] # "idle" /\ (u # t => Of[u] # Of[t])
    BY <1>5, <2>2 DEF Calling, SendsRequest, Sent, Waits, Expires, Takes, Alone
  <2>4. \A v \in Caller : v # u => at'[v] = at[v]
    BY <1>2, <1>5 DEF Calling, SendsRequest, Sent, Waits, Takes
  <2>5. CASE u # t
    <3>1. up'[c] = up[c] /\ answered' = answered /\ answer'[c] = answer[c] /\ got'[t] = got[t]
      BY <1>1, <1>2, <1>5, <2>3, <2>5 DEF Calling, SendsRequest, Sent, Waits, Takes, client, wire
    <3> QED  BY <1>1, <2>1, <2>2, <2>3, <2>4, <2>5, <3>1, AloneStays DEF pool
  <2>6. CASE u = t /\ (SendsRequest(t) \/ Sent(t))
    <3>1. /\ at'[t] \in {"sending", "wait"} /\ UNCHANGED <<answered, answer, got>>
          /\ up' = up \/ up' = [up EXCEPT ![c] = Append(@, Own(t))]
      BY <1>2, <2>6 DEF SendsRequest, Sent, Own
    <3>2. up[c] \in Seq(Call) /\ Own(t) \in Call /\ \A i \in DOMAIN up[c] : up[c][i] \in {Own(t)}
      BY <1>2, <2>2 DEF Own, Call, Alone
    <3>3. \A i \in DOMAIN Append(up[c], Own(t)) : Append(up[c], Own(t))[i] \in {Own(t)}
      BY <3>2, BufferFacts
    <3>4. \A i \in DOMAIN up'[c] : up'[c][i] = Own(t)  BY <1>2, <3>1, <3>2, <3>3
    <3> QED  BY <1>1, <2>2, <2>3, <2>4, <2>6, <3>1, <3>4 DEF Alone, pool
  <2>7. CASE u = t /\ Waits(t)
    <3>1. /\ at[t] = "wait" /\ (at'[t] = "take" => answered[c]) /\ at'[t] \in {"take", "idle"}
          /\ UNCHANGED <<up, answered, answer, got>>
      BY <1>2, <2>7 DEF Waits, Expires, client, wire
    <3> QED  BY <1>1, <2>2, <2>3, <2>4, <2>7, <3>1 DEF Alone, pool
  <2>8. CASE u = t /\ Takes(t)
    <3>1. at[t] = "take" /\ at'[t] = "idle" /\ got'[t] = answer[c] /\ up' = up
      BY <1>2, <2>8 DEF Takes, wire
    <3>2. got'[t] = Own(t)  BY <2>2, <3>1 DEF Alone
    <3> QED  BY <1>1, <2>2, <2>3, <2>4, <2>8, <3>1, <3>2 DEF Alone, pool
  <2> QED  BY <1>5, <2>5, <2>6, <2>7, <2>8 DEF Calling
<1> QED  BY <1>3, <1>4, <1>5 DEF ByCaller

LEMMA OwnOfLoops == ASSUME NetTyped, CleanIsAlone, NEW d \in Client, ByLoop(d) PROVE CleanIsAlone'
<1> SUFFICES ASSUME NEW t \in Caller, clean'[t] PROVE Alone(t)'  BY DEF CleanIsAlone
<1>1. UNCHANGED <<client, caller>>  BY LoopsTyped
<1>2. Alone(t) /\ Of[t] \in Client /\ Own(t)' = Own(t)  BY <1>1, OfClients DEF CleanIsAlone, caller, Own
<1> PICK c \in Client : c = Of[t]  BY <1>2
<1>3. /\ up \in [Client -> Seq(Call)] /\ down \in [Client -> Seq(Call \cup {Part})]
      /\ loop \in [Client -> LoopPlaces] /\ work \in [Client -> Call \cup {Nobody}]
  BY DEF NetTyped, WireTypes, PoolTypes
<1>4. CASE Looks(d) \/ Kicks(d)
  <2>1. UNCHANGED <<up, down, work>> /\ (loop'[c] = loop[c] \/ loop'[c] \in {"recv", "leaving"})
    BY <1>3, <1>4 DEF Looks, Kicks, wire, pool
  <2> QED  BY <1>1, <1>2, <2>1, AloneStays DEF client, caller
<1>5. CASE d # c
  <2>1. UNCHANGED <<up[c], down[c], work[c], loop[c]>>
    BY <1>3, <1>5 DEF ByLoop, ServesClient, Looks, Recvs, Replies, Replied, Leaves, Kicks, wire, pool
  <2> QED  BY <1>1, <1>2, <2>1, AloneStays DEF client, caller
<1>6. CASE Recvs(c)
  <2>1. \/ /\ up[c] # <<>> /\ up'[c] = Tail(up[c]) /\ work'[c] = Head(up[c])
        \/ UNCHANGED <<up, work>> /\ loop'[c] = "leaving"
    BY <1>3, <1>6 DEF Recvs
  <2>2. down' = down  BY <1>6 DEF Recvs
  <2>3. up[c] \in Seq(Call) /\ \A i \in DOMAIN up[c] : up[c][i] \in {Own(t)}  BY <1>2, <1>3 DEF Alone
  <2>4. up[c] # <<>> => Head(up[c]) \in {Own(t)} /\ \A i \in DOMAIN Tail(up[c]) : Tail(up[c])[i] \in {Own(t)}
    BY <2>3, BufferFacts
  <2> QED  BY <1>1, <1>2, <2>1, <2>2, <2>4 DEF Alone, client, caller
<1>7. CASE Replies(c) \/ Replied(c)
  <2>1. /\ work[c] = Own(t) /\ up' = up
        /\ (loop'[c] = "sending" /\ work' = work) \/ loop'[c] = "look"
        /\ down' = down \/ \E m \in {Own(t), Part} : down' = [down EXCEPT ![c] = Append(@, m)]
    <3>1. work[c] = Own(t)  BY <1>2, <1>7 DEF Replies, Replied, Alone
    <3> QED  BY <1>3, <1>7, <3>1 DEF Replies, Replied
  <2>2. down[c] \in Seq(Call \cup {Part}) /\ \A i \in DOMAIN down[c] : down[c][i] \in {Own(t), Part}
    BY <1>2, <1>3 DEF Alone
  <2>3. Own(t) \in Call  BY DEF Own, Call, NetTyped, CallerTypes
  <2>4. \A m \in {Own(t), Part} :
            \A i \in DOMAIN Append(down[c], m) : Append(down[c], m)[i] \in {Own(t), Part}
    BY <2>2, <2>3, BufferFacts
  <2>5. \A i \in DOMAIN down'[c] : down'[c][i] \in {Own(t), Part}  BY <1>3, <2>1, <2>2, <2>4
  <2> QED  BY <1>1, <1>2, <2>1, <2>5 DEF Alone, client, caller
<1>8. CASE Leaves(c)
  <2>1. up'[c] = <<>> /\ down' = down /\ loop'[c] = "done"  BY <1>3, <1>8 DEF Leaves
  <2> QED  BY <1>1, <1>2, <2>1 DEF Alone, client, caller
<1> QED  BY <1>4, <1>5, <1>6, <1>7, <1>8 DEF ByLoop, ServesClient

LEMMA OwnOfPool ==
  ASSUME NetTyped, Accepting, CleanIsAlone, ByAccept \/ Starts \/ Stop \/ Stopping \/ UNCHANGED netVars
  PROVE  CleanIsAlone'
<1> SUFFICES ASSUME NEW t \in Caller, clean'[t] PROVE Alone(t)'  BY DEF CleanIsAlone
<1>1. UNCHANGED <<client, caller, wire, work>>
  BY AcceptTyped, StopTyped DEF netVars, pool
<1>2. Alone(t) /\ Of[t] \in Client  BY <1>1, OfClients DEF CleanIsAlone, caller
<1>3. loop \in [Client -> LoopPlaces]  BY DEF NetTyped, PoolTypes
<1>4. \A c \in Client : loop'[c] = loop[c] \/ loop'[c] \in {"accepted", "queued", "look"}
  BY <1>3 DEF ByAccept, Accepts, AddsClient, Submits, Starts, Stop, Stopping, StopClears, StopCloses, StopJoins,
              netVars, pool
<1> QED  BY <1>1, <1>2, <1>4, AloneStays DEF client, caller, wire

LEMMA OwnStays == NetTyped /\ Accepting /\ CleanIsAlone /\ [NetNext]_netVars => CleanIsAlone'
<1> SUFFICES ASSUME NetTyped, Accepting, CleanIsAlone, [NetNext]_netVars PROVE CleanIsAlone'  OBVIOUS
<1>1. ASSUME NEW c \in Client, ByClient(c) PROVE CleanIsAlone'  BY <1>1, OwnOfClients
<1>2. ASSUME NEW t \in Caller, ByCaller(t) PROVE CleanIsAlone'  BY <1>2, OwnOfCallers
<1>3. ASSUME NEW c \in Client, ByLoop(c) PROVE CleanIsAlone'  BY <1>3, OwnOfLoops
<1>4. CASE ByAccept \/ Starts \/ Stop \/ Stopping \/ UNCHANGED netVars  BY <1>4, OwnOfPool
<1> QED  BY <1>1, <1>2, <1>3, <1>4 DEF NetNext, ByClient, ByCaller, ByAccept, ByLoop

LEMMA NetInductive == NetIInv /\ [NetNext]_netVars => NetIInv'
BY NetTypesStay, RegStays, OwnStays DEF NetIInv, RegInv

\* The variables of the RPC have their types.
THEOREM NetTyping == NetSpec => []NetTypeOK
<1>1. NetIInv => NetTypeOK
  BY DEF NetIInv, NetTyped, ClientTypes, CallerTypes, WireTypes, ServerTypes, PoolTypes, LoopPlaces, NetTypeOK
<1> QED  BY <1>1, NetBegins, NetInductive, PTL DEF NetSpec

\* A call that has its connection for itself returns its own answer or none, for any
\* clients, callers, buffers and sizes of the pool, whatever timed out before and
\* whatever the server closed meanwhile (call clears the event before it sends, and
\* takes the answer away).
THEOREM OwnAnswers == NetSpec => []AnswersAreOwn
<1>1. NetIInv => AnswersAreOwn  BY DEF NetIInv, CleanIsAlone, Alone, Own, AnswersAreOwn
<1> QED  BY <1>1, NetBegins, NetInductive, PTL DEF NetSpec

\* Whoever is registered is served or will be, a client whose loop is over is gone,
\* and stop leaves nobody but the client that was being accepted (_accept_loop,
\* _receive_loop, _handle_disconnect and stop of the group server).
THEOREM RegistryIsServed == NetSpec => []RegistryServed
<1>1. NetIInv => RegistryServed  BY RegMeansServed DEF NetIInv, RegInv
<1> QED  BY <1>1, NetBegins, NetInductive, PTL DEF NetSpec

=============================================================================
