------------------------- MODULE TokenRefresh_proofs -------------------------
(***************************************************************************)
(* What TLAPS proves of TokenRefresh, for any processes, tasks and bounds: *)
(* typing, the three invariants of the file and the tombstones, and the    *)
(* action property of the rejections, from one inductive invariant.        *)
(***************************************************************************)
EXTENDS TokenRefresh, TLAPS

\* Every pair in use was issued; what is issued is numbered without gaps.
Issued ==
  /\ disk <= last
  /\ \A n \in live : n <= last
  /\ \A t \in Task : tok[t] <= last /\ reply[t] <= last
  /\ \A p \in Proc : tombstone[p] <= last

\* A pair that a task has in hand was on disk: if the server still takes it, it
\* is there now, unless it was ousted.
InHand == \A t \in Task :
  tok[t] \in live => disk = tok[t] \/ tok[t] \in ousted

\* The answer of the server is known to its task alone, and spent its pair.
InFlight == \A t \in Task : pc[t] = "answer" =>
  /\ reply[t] \in live /\ tok[t] \notin live /\ tok[t] # None
  /\ disk # reply[t]
  /\ \A u \in Task : tok[u] # reply[t]
  /\ \A u \in Task \ {t} : pc[u] = "answer" => tok[u] # tok[t] /\ reply[u] # reply[t]

\* Only a task that waits for its save has an answer.
Answered == \A t \in Task : reply[t] # None <=> pc[t] = "answer"

\* A rejected pair is dead.
Dead == \A t \in Task : pc[t] = "refused" => tok[t] \notin live

\* A pair on its way to the server was compared with the file under the lock.
Compared == \A t \in Task :
  /\ pc[t] = "send" => disk = tok[t] \/ tok[t] \in lost \cup bare \cup ousted
  /\ pc[t] \in {"send", "answer"} => flock = t \/ tok[t] \in bare
  /\ pc[t] # "idle" => tok[t] # None

IInv == /\ TypeOK /\ Issued /\ InHand /\ InFlight /\ Answered /\ Dead /\ Compared
        /\ DiskIsGood /\ SavesOverItsOwn /\ RejectedIsDead

-----------------------------------------------------------------------------
\* Fields and elements of TypeOK, for the provers.
LEMMA Constants == MaxToken \in Nat /\ Token = 1..MaxToken /\ None = 0 /\ None \notin Token
<1>1. MaxToken \in Nat BY BoundsAreCounts
<1> QED BY <1>1 DEF Token, None

LEMMA LeaveTyped ==
  ASSUME TypeOK, NEW t \in Task, Leave(t)
  PROVE  /\ flock' \in Task \cup {Nobody} /\ mutex' \in [Proc -> Task \cup {Nobody}]
         /\ running' \in [Proc -> Task \cup {Nobody}]
         /\ pc' \in [Task -> {"idle", "pre", "lock", "xlock", "send", "answer", "refused"}]
         /\ tok' \in [Task -> Token \cup {None}] /\ force' \in [Task -> BOOLEAN]
         /\ tries' \in [Task -> Nat] /\ reply' \in [Task -> Token \cup {None}]
<1>1. ProcOf[t] \in Proc BY ProcOfTask
<1>2. force' \in [Task -> BOOLEAN] BY DEF TypeOK, Leave
<1> QED BY <1>1, <1>2 DEF TypeOK, Leave, Released, Goto, Awaits

LEMMA TypeInit == Init => TypeOK
<1> SUFFICES ASSUME Init PROVE TypeOK OBVIOUS
<1>1. MaxCrashes \in Nat /\ 0 \in 0..MaxCrashes BY BoundsAreCounts
<1> QED BY <1>1 DEF Init, TypeOK

\* A step of one task keeps the types.
LEMMA TypeTask ==
  ASSUME TypeOK, Compared, NEW t \in Task,
         \/ \E f \in BOOLEAN : Ensure(t, f)
         \/ Local(t) \/ Answer(t) \/ Settle(t) \/ Cancel(t)
  PROVE  TypeOK'
<1> USE Constants
<1>p. ProcOf[t] \in Proc BY ProcOfTask
<1>k. pc[t] # "idle" => tok[t] \in Token BY DEF TypeOK, Compared
<1>h. Leave(t) => /\ flock' \in Task \cup {Nobody} /\ mutex' \in [Proc -> Task \cup {Nobody}]
         /\ running' \in [Proc -> Task \cup {Nobody}]
         /\ pc' \in [Task -> {"idle", "pre", "lock", "xlock", "send", "answer", "refused"}]
         /\ tok' \in [Task -> Token \cup {None}] /\ force' \in [Task -> BOOLEAN]
         /\ tries' \in [Task -> Nat] /\ reply' \in [Task -> Token \cup {None}]
  BY LeaveTyped
<1>r. Retry(t) => /\ flock' \in Task \cup {Nobody} /\ mutex' \in [Proc -> Task \cup {Nobody}]
         /\ running' \in [Proc -> Task \cup {Nobody}]
         /\ pc' \in [Task -> {"idle", "pre", "lock", "xlock", "send", "answer", "refused"}]
         /\ tok' \in [Task -> Token \cup {None}] /\ force' \in [Task -> BOOLEAN]
         /\ tries' \in [Task -> Nat] /\ reply' \in [Task -> Token \cup {None}]
  <2>1. CASE tries[t] + 1 < PostTries
    <3>1. tries[t] + 1 \in Nat BY DEF TypeOK
    <3>2. PICK k \in Nat : k = tries[t] + 1 BY <3>1
    <3>3. Retry(t) => tries' = [tries EXCEPT ![t] = k] BY <2>1, <3>2 DEF Retry
    <3>6. tries \in [Task -> Nat] /\ [tries EXCEPT ![t] = k] \in [Task -> Nat] BY DEF TypeOK
    <3>4. Retry(t) => tries' \in [Task -> Nat] BY <3>3, <3>6
    <3>5. Retry(t) => UNCHANGED <<mutex, flock, tok, force>> /\ Goto(t, "send") /\ Awaits(t) /\ reply' = [reply EXCEPT ![t] = None]
      BY <2>1 DEF Retry
    <3> QED BY <3>4, <3>5, <1>p DEF TypeOK, Goto, Awaits
  <2>2. CASE ~(tries[t] + 1 < PostTries) BY <2>2, <1>h DEF Retry
  <2> QED BY <2>1, <2>2
<1>1. ASSUME NEW f \in BOOLEAN, Ensure(t, f) PROVE TypeOK'
  <2>1. disk' \in Token \cup {None} /\ key' \in [Proc -> Token \cup {None}] /\ tombstone' \in [Proc -> Token \cup {None}]
    BY <1>1, <1>p DEF TypeOK, Ensure, Consult, Consulted, Suppressed, KeyRead
  <2>2. pc' \in [Task -> {"idle", "pre", "lock", "xlock", "send", "answer", "refused"}]
    BY <1>1 DEF TypeOK, Ensure, Goto
  <2>6. tok' \in [Task -> Token \cup {None}] BY <1>1 DEF TypeOK, Ensure
  <2>3. force' \in [Task -> BOOLEAN] BY <1>1 DEF TypeOK, Ensure
  <2>4. running' \in [Proc -> Task \cup {Nobody}] BY <1>1, <1>p DEF TypeOK, Ensure, Runs
  <2>5. UNCHANGED <<disk, flock, server, cooled, mutex, tries, reply, crashes, hist>> BY <1>1 DEF Ensure
  <2> QED BY <2>1, <2>2, <2>3, <2>4, <2>5, <2>6 DEF TypeOK, server, hist
<1>2. ASSUME Prefer(t) PROVE TypeOK'
  <2>1. tombstone' \in [Proc -> Token \cup {None}] BY <1>2, <1>p DEF TypeOK, Prefer, Consult, Consulted
  <2>2. pc' \in [Task -> {"idle", "pre", "lock", "xlock", "send", "answer", "refused"}] /\ tok' \in [Task -> Token \cup {None}]
    BY <1>2 DEF TypeOK, Prefer, Goto
  <2>3. running' \in [Proc -> Task \cup {Nobody}] BY <1>2, <1>p DEF TypeOK, Prefer, Runs, Awaits
  <2>4. UNCHANGED <<disk, flock, server, key, cooled, mutex, force, tries, reply, crashes, hist>> BY <1>2 DEF Prefer
  <2> QED BY <2>1, <2>2, <2>3, <2>4 DEF TypeOK, server, hist
<1>3. ASSUME Recheck(t) PROVE TypeOK'
  <2> DEFINE cur == IF disk # None THEN disk ELSE tok[t]
  <2>1. UNCHANGED <<disk, server, cooled, crashes, hist>> BY <1>3 DEF Recheck
  <2>2. tombstone' \in [Proc -> Token \cup {None}] BY <1>3, <1>p DEF TypeOK, Recheck, Consult, Consulted
  <2>3. key' \in [Proc -> Token \cup {None}] BY <1>3, <1>p DEF TypeOK, Recheck, Forget
  <2>4. Leave(t) \/ /\ mutex' = [mutex EXCEPT ![ProcOf[t]] = t]
                    /\ tok' = [tok EXCEPT ![t] = cur] /\ tries' = [tries EXCEPT ![t] = 0]
                    /\ Goto(t, "xlock") /\ Runs(t) /\ UNCHANGED <<flock, force, reply>>
    BY <1>3 DEF Recheck
  <2>5. CASE Leave(t) BY <2>1, <2>2, <2>3, <2>5, <1>h DEF TypeOK, server, hist
  <2>6. CASE /\ mutex' = [mutex EXCEPT ![ProcOf[t]] = t]
             /\ tok' = [tok EXCEPT ![t] = cur] /\ tries' = [tries EXCEPT ![t] = 0]
             /\ Goto(t, "xlock") /\ Runs(t) /\ UNCHANGED <<flock, force, reply>>
    BY <2>1, <2>2, <2>3, <2>6, <1>p DEF TypeOK, server, hist, Goto, Runs
  <2> QED BY <2>4, <2>5, <2>6
<1>4. ASSUME Locked(t) PROVE TypeOK'
  <2>1. UNCHANGED <<disk, server, crashes, lost, ousted>> /\ At(t, "xlock") BY <1>4 DEF Locked
  <2>2. bare' \subseteq Token BY <1>4, <1>k DEF Locked, TypeOK, At
  <2>3. CASE Needless(t)
    <3>1. Adopt(t, disk) /\ Leave(t) BY <1>4, <2>3 DEF Locked
    <3> QED BY <2>1, <2>2, <3>1, <1>h, <1>p DEF TypeOK, server, Adopt
  <2>4. CASE ~Needless(t)
    <3>1. /\ flock' = t /\ pc' = [pc EXCEPT ![t] = "send"] /\ running' = [running EXCEPT ![ProcOf[t]] = Nobody]
          /\ tries' = [tries EXCEPT ![t] = 0] /\ UNCHANGED <<mutex, inproc, tok, force, reply>>
      BY <1>4, <2>4 DEF Locked, Goto, Awaits
    <3> QED BY <2>1, <2>2, <3>1, <1>p DEF TypeOK, server, inproc
  <2> QED BY <2>3, <2>4
<1>5. ASSUME Contended(t) PROVE TypeOK'
  <2>10. tok[t] \in Token BY <1>5, <1>k DEF Contended, At
  <2>11. bare' = bare \/ bare' = bare \cup {tok[t]} BY <1>5 DEF Contended
  <2>12. bare \subseteq Token BY DEF TypeOK
  <2>1. bare' \subseteq Token BY <2>10, <2>11, <2>12
  <2>2. tries[t] + 1 \in Nat BY DEF TypeOK
  <2>7. tries' = [tries EXCEPT ![t] = tries[t] + 1] \/ tries' = [tries EXCEPT ![t] = 0] BY <1>5 DEF Contended
  <2>8. PICK k \in Nat : k = tries[t] + 1 BY <2>2
  <2>9. tries' = [tries EXCEPT ![t] = k] \/ tries' = [tries EXCEPT ![t] = 0] BY <2>7, <2>8
  <2>3. tries' \in [Task -> Nat] BY <2>9 DEF TypeOK
  <2>4. pc' \in [Task -> {"idle", "pre", "lock", "xlock", "send", "answer", "refused"}]
    BY <1>5 DEF Contended, TypeOK, Goto
  <2>5. running' \in [Proc -> Task \cup {Nobody}] BY <1>5, <1>p DEF Contended, TypeOK, Awaits
  <2>6. UNCHANGED <<disk, flock, server, inproc, mutex, tok, force, reply, crashes, lost, ousted>>
    BY <1>5 DEF Contended
  <2> QED BY <2>1, <2>3, <2>4, <2>5, <2>6 DEF TypeOK, server, inproc
<1>6. ASSUME Refused(t) PROVE TypeOK'
  <2>1. UNCHANGED <<server, crashes, hist>> /\ Leave(t) BY <1>6 DEF Refused
  <2>4. tombstone' \in [Proc -> Token \cup {None}]
    <3>1. tombstone' = [tombstone EXCEPT ![ProcOf[t]] = None] \/ tombstone' = [tombstone EXCEPT ![ProcOf[t]] = tok[t]]
      BY <1>6 DEF Refused, Adopt, Culprit
    <3>2. tok[t] \in Token \cup {None} BY DEF TypeOK
    <3> QED BY <3>1, <3>2, <1>p DEF TypeOK
  <2>2. disk' = disk /\ key' \in [Proc -> Token \cup {None}]
    BY <1>6, <1>p DEF Refused, TypeOK, Adopt, Forget, AfterRejection
  <2>3. cooled' \in [Proc -> BOOLEAN] BY <1>6, <1>p DEF Refused, TypeOK, Adopt
  <2> QED BY <2>1, <2>2, <2>3, <2>4, <1>h DEF TypeOK, server, hist
<1>7. ASSUME Rotates(t) PROVE TypeOK'
  <2>1. last + 1 \in Token BY <1>7 DEF Rotates, TypeOK
  <2> QED BY <1>7, <2>1 DEF Rotates, TypeOK, inproc, hist, Goto
<1>8. ASSUME Rejects(t) PROVE TypeOK'
  BY <1>8 DEF Rejects, TypeOK, server, inproc, hist, Goto
<1>9. ASSUME Unreachable(t) PROVE TypeOK'
  BY <1>9, <1>r DEF Unreachable, TypeOK, server, inproc, hist
<1>10. ASSUME Fails(t) PROVE TypeOK'
  BY <1>10, <1>h DEF Fails, TypeOK, server, inproc, hist
<1>11. ASSUME AnswerLost(t) PROVE TypeOK'
  <2>1. UNCHANGED <<disk, server, inproc, crashes, bare, ousted>> /\ lost' = lost \cup {tok[t]} /\ Retry(t)
    BY <1>11 DEF AnswerLost
  <2>2. lost' \subseteq Token BY <2>1, <1>11, <1>k DEF TypeOK, AnswerLost, At
  <2> QED BY <2>1, <2>2, <1>r DEF TypeOK, server, inproc
<1>12. ASSUME Save(t) PROVE TypeOK'
  <2>1. reply[t] \in Token \cup {None} BY DEF TypeOK
  <2> QED BY <1>12, <1>h, <1>p, <2>1 DEF Save, Saved, TypeOK, server, Adopt
<1>13. ASSUME SaveFails(t) PROVE TypeOK'
  <2>1. lost' \subseteq Token BY <1>13, <1>k DEF TypeOK, SaveFails, At
  <2>2. UNCHANGED <<disk, server, key, cooled, crashes, bare, ousted>> /\ Leave(t) BY <1>13 DEF SaveFails
  <2>3. tombstone' \in [Proc -> Token \cup {None}] BY <1>13, <1>p DEF SaveFails, TypeOK
  <2> QED BY <2>1, <2>2, <2>3, <1>h DEF TypeOK, server
<1>14. ASSUME Cancel(t) PROVE TypeOK'
  <2>1. lost' \subseteq Token BY <1>14, <1>k DEF TypeOK, Cancel
  <2>2. UNCHANGED <<disk, server, inproc, crashes, bare, ousted>> /\ Leave(t) BY <1>14 DEF Cancel
  <2> QED BY <2>1, <2>2, <1>h DEF TypeOK, server, inproc
<1> QED BY <1>1, <1>2, <1>3, <1>4, <1>5, <1>6, <1>7, <1>8, <1>9, <1>10, <1>11, <1>12, <1>13, <1>14
        DEF Local, Answer, Settle

\* The steps of the environment keep the types.
LEMMA TypeWorld ==
  ASSUME TypeOK, Compared, Answered,
         \/ \E p \in Proc : Restart(p) \/ Cool(p)
         \/ \E n \in Token : Expire(n)
         \/ Login \/ Logout
  PROVE  TypeOK'
<1> USE Constants
<1>1. ASSUME NEW p \in Proc, Restart(p) PROVE TypeOK'
  <2> DEFINE mine == {t \in Task : ProcOf[t] = p}
  <2>1. /\ pc' = [t \in Task |-> IF t \in mine THEN "idle" ELSE pc[t]]
        /\ reply' = [t \in Task |-> IF t \in mine THEN None ELSE reply[t]]
        /\ tok' = [t \in Task |-> IF t \in mine THEN None ELSE tok[t]]
        /\ force' = [t \in Task |-> IF t \in mine THEN FALSE ELSE force[t]]
        /\ tries' = [t \in Task |-> IF t \in mine THEN 0 ELSE tries[t]]
    BY <1>1 DEF Restart
  <2>2. pc' \in [Task -> {"idle", "pre", "lock", "xlock", "send", "answer", "refused"}] BY <2>1 DEF TypeOK
  <2>3. reply' \in [Task -> Token \cup {None}] /\ tok' \in [Task -> Token \cup {None}] BY <2>1 DEF TypeOK
  <2>4. force' \in [Task -> BOOLEAN] BY <2>1 DEF TypeOK
  <2>5. tries' \in [Task -> Nat] BY <2>1 DEF TypeOK
  <2>6. lost' = lost \cup {tok[t] : t \in {u \in mine : reply[u] # None}} BY <1>1 DEF Restart
  <2>7. \A t \in mine : reply[t] # None => tok[t] \in Token
    <3> SUFFICES ASSUME NEW t \in Task, reply[t] # None PROVE tok[t] \in Token OBVIOUS
    <3>1. pc[t] = "answer" BY DEF Answered
    <3>2. tok[t] # None BY <3>1 DEF Compared
    <3> QED BY <3>2 DEF TypeOK
  <2>14. lost \subseteq Token BY DEF TypeOK
  <2>8. lost' \subseteq Token
    <3> HIDE DEF mine
    <3> QED BY <2>6, <2>7, <2>14
  <2>9. flock' \in Task \cup {Nobody} BY <1>1 DEF Restart, TypeOK
  <2>10. mutex' \in [Proc -> Task \cup {Nobody}] /\ running' \in [Proc -> Task \cup {Nobody}] BY <1>1 DEF Restart, TypeOK
  <2>11. key' \in [Proc -> Token \cup {None}] /\ tombstone' \in [Proc -> Token \cup {None}] BY <1>1 DEF Restart, TypeOK
  <2>12. crashes' \in 0..MaxCrashes BY <1>1, BoundsAreCounts DEF Restart, TypeOK
  <2>13. UNCHANGED <<disk, server, cooled, bare, ousted>> BY <1>1 DEF Restart
  <2> QED BY <2>2, <2>3, <2>4, <2>5, <2>8, <2>9, <2>10, <2>11, <2>12, <2>13 DEF TypeOK, server
<1>2. ASSUME NEW p \in Proc, Cool(p) PROVE TypeOK'
  BY <1>2 DEF Cool, TypeOK, server, task, hist
<1>3. ASSUME NEW n \in Token, Expire(n) PROVE TypeOK'
  BY <1>3 DEF Expire, TypeOK, inproc, task, hist
<1>4. ASSUME Login PROVE TypeOK'
  <2>1. last + 1 \in Token BY <1>4 DEF Login, TypeOK
  <2>2. ousted' \subseteq Token BY <1>4 DEF Login, TypeOK
  <2> QED BY <1>4, <2>1, <2>2 DEF Login, TypeOK, inproc, task
<1>5. ASSUME Logout PROVE TypeOK'
  <2>1. ousted' \subseteq Token BY <1>5 DEF Logout, TypeOK
  <2> QED BY <1>5, <2>1 DEF Logout, TypeOK, server, inproc, task
<1> QED BY <1>1, <1>2, <1>3, <1>4, <1>5

-----------------------------------------------------------------------------
(* A quiet step of a task changes neither the file nor what the server     *)
(* accepts.  All steps of a refresh are quiet but the exchange and the     *)
(* save.                                                                   *)

Quiet(t) ==
  /\ UNCHANGED <<disk, live, last, ousted>> /\ lost \subseteq lost' /\ bare \subseteq bare'
  /\ \A u \in Task \ {t} : pc'[u] = pc[u] /\ tok'[u] = tok[u] /\ reply'[u] = reply[u]
  /\ tok'[t] = tok[t] \/ tok'[t] = disk \/ tok'[t] = None
  /\ reply'[t] = None /\ pc'[t] # "answer"
  /\ pc[t] = "answer" => tok[t] \in lost'
  /\ pc'[t] = "refused" => tok'[t] = tok[t] /\ tok[t] \notin live
  /\ pc'[t] = "send" => /\ disk = tok'[t] \/ tok'[t] \in lost' \cup bare' \cup ousted
                        /\ flock' = t \/ tok'[t] \in bare'
  /\ flock' # flock => flock \in {Nobody, t}
  /\ pc'[t] # "idle" => tok'[t] # None
  /\ \A p \in Proc : tombstone'[p] = tombstone[p] \/ tombstone'[p] = None
                     \/ (tombstone'[p] = tok[t] /\ tok[t] \notin live)

LEMMA QuietSteps ==
  ASSUME IInv, NEW t \in Task, Quiet(t), TypeOK'
  PROVE  IInv'
<1> USE Constants
<1>0. None \notin live /\ live' = live /\ disk' = disk /\ last' = last /\ ousted' = ousted BY DEF IInv, TypeOK, Quiet
<1>1. Issued'
  <2>3. last \in Nat /\ disk <= last /\ None <= last BY DEF IInv, Issued, TypeOK
  <2>4. \A u \in Task : tok[u] <= last /\ reply[u] <= last BY DEF IInv, Issued
  <2>1. \A u \in Task : tok'[u] <= last /\ reply'[u] <= last BY <2>3, <2>4 DEF Quiet
  <2>2. \A p \in Proc : tombstone'[p] <= last BY DEF IInv, Issued, TypeOK, Quiet
  <2> QED BY <2>1, <2>2, <1>0 DEF IInv, Issued
<1>2. InHand' BY <1>0 DEF IInv, InHand, Quiet
<1>3. InFlight'
  <2> SUFFICES ASSUME NEW u \in Task, pc'[u] = "answer"
      PROVE /\ reply'[u] \in live /\ tok'[u] \notin live /\ tok'[u] # None
            /\ disk # reply'[u]
            /\ \A w \in Task : tok'[w] # reply'[u]
            /\ \A w \in Task \ {u} : pc'[w] = "answer" => tok'[w] # tok'[u] /\ reply'[w] # reply'[u]
    BY <1>0 DEF InFlight
  <2>1. u # t /\ pc[u] = "answer" /\ reply'[u] = reply[u] /\ tok'[u] = tok[u] BY DEF Quiet
  <2>2. /\ reply[u] \in live /\ tok[u] \notin live /\ tok[u] # None /\ disk # reply[u]
        /\ \A w \in Task : tok[w] # reply[u]
        /\ \A w \in Task \ {u} : pc[w] = "answer" => tok[w] # tok[u] /\ reply[w] # reply[u]
    BY <2>1 DEF IInv, InFlight
  <2>3. \A w \in Task : tok'[w] # reply[u] BY <1>0, <2>2 DEF Quiet
  <2> QED BY <2>1, <2>2, <2>3 DEF Quiet
<1>4. Answered' BY DEF IInv, Answered, Quiet
<1>5. Dead' BY <1>0 DEF IInv, Dead, Quiet
<1>6. Compared'
  <2> SUFFICES ASSUME NEW u \in Task
      PROVE /\ pc'[u] = "send" => disk = tok'[u] \/ tok'[u] \in lost' \cup bare' \cup ousted
            /\ pc'[u] \in {"send", "answer"} => flock' = u \/ tok'[u] \in bare'
            /\ pc'[u] # "idle" => tok'[u] # None
    BY <1>0 DEF Compared
  <2>1. CASE u = t BY <2>1 DEF Quiet
  <2>2. CASE u # t
    <3>1. pc'[u] = pc[u] /\ tok'[u] = tok[u] /\ lost \subseteq lost' /\ bare \subseteq bare' BY <2>2 DEF Quiet
    <3>2. flock = u => flock' = u BY <2>2, NobodyIsNoTask DEF Quiet
    <3> QED BY <3>1, <3>2 DEF IInv, Compared
  <2> QED BY <2>1, <2>2
<1>7. DiskIsGood'
  <2> SUFFICES ASSUME disk # None, disk \notin live, disk \notin lost'
      PROVE \E u \in Task : pc'[u] = "answer" /\ tok'[u] = disk
    BY <1>0 DEF DiskIsGood
  <2>1. PICK u \in Task : pc[u] = "answer" /\ tok[u] = disk BY DEF IInv, DiskIsGood, Quiet
  <2> QED BY <2>1 DEF Quiet
<1>8. SavesOverItsOwn' BY <1>0 DEF IInv, SavesOverItsOwn, Quiet
<1>9. RejectedIsDead' BY <1>0 DEF IInv, RejectedIsDead, Quiet
<1> QED BY <1>1, <1>2, <1>3, <1>4, <1>5, <1>6, <1>7, <1>8, <1>9 DEF IInv

LEMMA LeaveShape ==
  ASSUME TypeOK, NEW t \in Task, Leave(t)
  PROVE  /\ \A u \in Task \ {t} : pc'[u] = pc[u] /\ tok'[u] = tok[u] /\ reply'[u] = reply[u]
         /\ pc'[t] = "idle" /\ tok'[t] = None /\ reply'[t] = None
         /\ flock' # flock => flock = t
  BY DEF TypeOK, Leave, Goto

\* The tombstones that a step leaves are older ones, or none.
LEMMA ConsultShape ==
  ASSUME TypeOK, NEW p \in Proc, NEW n, Consult(p, n)
  PROVE  \A q \in Proc : tombstone'[q] = tombstone[q] \/ tombstone'[q] = None
  BY DEF TypeOK, Consult, Consulted

LEMMA AdoptShape ==
  ASSUME TypeOK, NEW t \in Task, NEW n, Adopt(t, n)
  PROVE  \A q \in Proc : tombstone'[q] = tombstone[q] \/ tombstone'[q] = None
  BY ProcOfTask DEF TypeOK, Adopt

\* Between the reads and the request.
LEMMA QuietReads ==
  ASSUME IInv, NEW t \in Task, (\E f \in BOOLEAN : Ensure(t, f)) \/ Prefer(t) \/ Recheck(t)
  PROVE  Quiet(t)
<1> USE Constants
<1>0. TypeOK /\ ProcOf[t] \in Proc BY ProcOfTask DEF IInv
<1>1. ASSUME NEW f \in BOOLEAN, Ensure(t, f) PROVE Quiet(t)
  <2>1. \A q \in Proc : tombstone'[q] = tombstone[q] \/ tombstone'[q] = None BY <1>0, <1>1, ConsultShape DEF Ensure
  <2>2. pc[t] = "idle" /\ reply[t] = None BY <1>1 DEF Ensure, At, IInv, Answered
  <2>3. UNCHANGED <<disk, flock, live, last, reply, lost, bare, ousted>> /\ disk # None BY <1>1 DEF Ensure, server, hist
  <2>4. \/ pc' = pc /\ tok' = tok
        \/ pc' = [pc EXCEPT ![t] = "pre"] /\ tok' = [tok EXCEPT ![t] = disk]
    BY <1>1 DEF Ensure, Goto
  <2>5. pc'[t] \in {"idle", "pre"} /\ (pc'[t] # "idle" => tok'[t] # None) /\ (tok'[t] = tok[t] \/ tok'[t] = disk)
    BY <1>0, <2>2, <2>3, <2>4 DEF TypeOK
  <2>6. \A u \in Task \ {t} : pc'[u] = pc[u] /\ tok'[u] = tok[u] /\ reply'[u] = reply[u]
    BY <1>0, <2>3, <2>4 DEF TypeOK
  <2> QED BY <2>1, <2>2, <2>3, <2>5, <2>6 DEF Quiet
<1>2. ASSUME Prefer(t) PROVE Quiet(t)
  <2>1. \A q \in Proc : tombstone'[q] = tombstone[q] \/ tombstone'[q] = None BY <1>0, <1>2, ConsultShape DEF Prefer
  <2>2. pc[t] = "pre" /\ reply[t] = None /\ tok[t] # None BY <1>2 DEF Prefer, At, IInv, Answered, Compared
  <2>3. UNCHANGED <<disk, flock, live, last, reply, lost, bare, ousted>> BY <1>2 DEF Prefer, server, hist
  <2>4. pc' = [pc EXCEPT ![t] = "lock"] /\ tok' = [tok EXCEPT ![t] = IF disk # None THEN disk ELSE tok[t]]
    BY <1>2 DEF Prefer, Goto
  <2>5. pc'[t] = "lock" /\ (tok'[t] = tok[t] \/ tok'[t] = disk) /\ tok'[t] # None BY <1>0, <2>2, <2>4 DEF TypeOK
  <2>6. \A u \in Task \ {t} : pc'[u] = pc[u] /\ tok'[u] = tok[u] /\ reply'[u] = reply[u]
    BY <1>0, <2>3, <2>4 DEF TypeOK
  <2> QED BY <2>1, <2>2, <2>3, <2>5, <2>6 DEF Quiet
<1>3. ASSUME Recheck(t) PROVE Quiet(t)
  <2> DEFINE cur == IF disk # None THEN disk ELSE tok[t]
  <2>1. Consult(ProcOf[t], disk) \/ Consult(ProcOf[t], cur) BY <1>3 DEF Recheck
  <2>2. \A q \in Proc : tombstone'[q] = tombstone[q] \/ tombstone'[q] = None BY <1>0, <2>1, ConsultShape
  <2>3. pc[t] = "lock" /\ reply[t] = None /\ tok[t] # None BY <1>3 DEF Recheck, At, IInv, Answered, Compared
  <2>4. UNCHANGED <<disk, live, last, lost, bare, ousted>> BY <1>3 DEF Recheck, server, hist
  <2>5. Leave(t) \/ /\ tok' = [tok EXCEPT ![t] = cur] /\ pc' = [pc EXCEPT ![t] = "xlock"]
                    /\ UNCHANGED <<flock, reply>>
    BY <1>3 DEF Recheck, Goto
  <2>6. CASE Leave(t) BY <1>0, <2>2, <2>3, <2>4, <2>6, LeaveShape DEF Quiet
  <2>7. CASE tok' = [tok EXCEPT ![t] = cur] /\ pc' = [pc EXCEPT ![t] = "xlock"] /\ UNCHANGED <<flock, reply>>
    <3>1. pc'[t] = "xlock" /\ (tok'[t] = tok[t] \/ tok'[t] = disk) /\ tok'[t] # None BY <1>0, <2>3, <2>7 DEF TypeOK
    <3>2. \A u \in Task \ {t} : pc'[u] = pc[u] /\ tok'[u] = tok[u] /\ reply'[u] = reply[u]
      BY <1>0, <2>7 DEF TypeOK
    <3> QED BY <2>2, <2>3, <2>4, <2>7, <3>1, <3>2 DEF Quiet
  <2> QED BY <2>5, <2>6, <2>7
<1> QED BY <1>1, <1>2, <1>3

\* At the lock file.
LEMMA QuietLock ==
  ASSUME IInv, NEW t \in Task, Locked(t) \/ Contended(t)
  PROVE  Quiet(t)
<1> USE Constants
<1>0. TypeOK /\ ProcOf[t] \in Proc BY ProcOfTask DEF IInv
<1>1. ASSUME Locked(t) PROVE Quiet(t)
  <2>1. pc[t] = "xlock" /\ reply[t] = None /\ tok[t] # None /\ flock = Nobody
    BY <1>1 DEF Locked, At, IInv, Answered, Compared
  <2>2. UNCHANGED <<disk, live, last, lost, ousted>> /\ bare' = (IF disk = None THEN bare \cup {tok[t]} ELSE bare)
    BY <1>1 DEF Locked, server
  <2>3. CASE Needless(t)
    <3>1. Adopt(t, disk) /\ Leave(t) BY <1>1, <2>3 DEF Locked
    <3>2. \A q \in Proc : tombstone'[q] = tombstone[q] \/ tombstone'[q] = None BY <1>0, <3>1, AdoptShape
    <3> QED BY <1>0, <2>1, <2>2, <3>1, <3>2, LeaveShape DEF Quiet
  <2>4. CASE ~Needless(t)
    <3>1. flock' = t /\ pc' = [pc EXCEPT ![t] = "send"] /\ UNCHANGED <<tombstone, tok, reply>>
      BY <1>1, <2>4 DEF Locked, Goto, inproc
    <3>2. disk = None \/ disk = tok[t] BY <2>4 DEF Needless
    <3>3. pc'[t] = "send" /\ tok'[t] = tok[t] /\ (disk = tok[t] \/ tok[t] \in bare') BY <1>0, <2>2, <3>1, <3>2 DEF TypeOK
    <3>4. \A u \in Task \ {t} : pc'[u] = pc[u] /\ tok'[u] = tok[u] /\ reply'[u] = reply[u]
      BY <1>0, <3>1 DEF TypeOK
    <3> QED BY <2>1, <2>2, <3>1, <3>3, <3>4 DEF Quiet
  <2> QED BY <2>3, <2>4
<1>2. ASSUME Contended(t) PROVE Quiet(t)
  <2>1. pc[t] = "xlock" /\ reply[t] = None /\ tok[t] # None BY <1>2 DEF Contended, At, IInv, Answered, Compared
  <2>2. UNCHANGED <<disk, flock, live, last, tombstone, tok, reply, lost, ousted>> BY <1>2 DEF Contended, server, inproc
  <2>3. \/ pc' = pc /\ bare' = bare
        \/ pc' = [pc EXCEPT ![t] = "send"] /\ bare' = bare \cup {tok[t]}
    BY <1>2 DEF Contended, Goto
  <2>4. pc'[t] = "xlock" \/ (pc'[t] = "send" /\ tok[t] \in bare') BY <1>0, <2>1, <2>3 DEF TypeOK
  <2>5. \A u \in Task \ {t} : pc'[u] = pc[u] BY <1>0, <2>3 DEF TypeOK
  <2>6. bare \subseteq bare' BY <2>3
  <2> QED BY <2>1, <2>2, <2>4, <2>5, <2>6 DEF Quiet
<1> QED BY <1>1, <1>2

\* A step that ends the refresh of a task is quiet if what it had is recorded.
LEMMA QuietLeave ==
  ASSUME IInv, NEW t \in Task, Leave(t),
         UNCHANGED <<disk, live, last, ousted, bare>>, lost \subseteq lost',
         pc[t] = "answer" => tok[t] \in lost',
         \A p \in Proc : tombstone'[p] = tombstone[p] \/ tombstone'[p] = None
                         \/ (tombstone'[p] = tok[t] /\ tok[t] \notin live)
  PROVE  Quiet(t)
BY LeaveShape DEF IInv, Quiet

LEMMA QuietRetry ==
  ASSUME IInv, NEW t \in Task, Retry(t), pc[t] \in {"send", "answer"},
         UNCHANGED <<disk, live, last, ousted, bare, tombstone>>, lost \subseteq lost',
         pc[t] = "answer" => tok[t] \in lost'
  PROVE  Quiet(t)
<1> USE Constants
<1>1. CASE tries[t] + 1 < PostTries
  <2>1. pc' = [pc EXCEPT ![t] = "send"] /\ reply' = [reply EXCEPT ![t] = None] /\ UNCHANGED <<flock, tok>>
    BY <1>1 DEF Retry, Goto
  <2>2. pc'[t] = "send" /\ reply'[t] = None /\ tok'[t] = tok[t] BY <2>1 DEF IInv, TypeOK
  <2>3. \A u \in Task \ {t} : pc'[u] = pc[u] /\ tok'[u] = tok[u] /\ reply'[u] = reply[u]
    BY <2>1 DEF IInv, TypeOK
  <2>4. tok[t] # None /\ (flock = t \/ tok[t] \in bare) BY DEF IInv, Compared
  <2>5. disk = tok[t] \/ tok[t] \in lost' \cup bare \cup ousted BY DEF IInv, Compared
  <2> QED BY <2>1, <2>2, <2>3, <2>4, <2>5 DEF Quiet
<1>2. CASE ~(tries[t] + 1 < PostTries) BY <1>2, QuietLeave DEF Retry
<1> QED BY <1>1, <1>2

\* What may come of a request without a new pair.
LEMMA QuietEnds ==
  ASSUME IInv, NEW t \in Task,
         \/ Rejects(t) \/ Unreachable(t) \/ Fails(t)
         \/ AnswerLost(t) \/ SaveFails(t) \/ Refused(t) \/ Cancel(t)
  PROVE  Quiet(t)
<1> USE Constants
<1>0. TypeOK /\ ProcOf[t] \in Proc BY ProcOfTask DEF IInv
<1>1. ASSUME Rejects(t) PROVE Quiet(t)
  <2>1. pc[t] = "send" /\ reply[t] = None /\ tok[t] # None /\ tok[t] \notin live
    BY <1>1 DEF Rejects, At, Unauthorized, IInv, Answered, Compared
  <2>2. UNCHANGED <<disk, flock, live, last, tombstone, tok, reply, lost, bare, ousted>> /\ pc' = [pc EXCEPT ![t] = "refused"]
    BY <1>1 DEF Rejects, server, inproc, hist, Goto
  <2>3. pc'[t] = "refused" /\ \A u \in Task \ {t} : pc'[u] = pc[u] BY <1>0, <2>2 DEF TypeOK
  <2> QED BY <2>1, <2>2, <2>3 DEF Quiet
<1>2. ASSUME Unreachable(t) PROVE Quiet(t)
  <2>1. pc[t] = "send" /\ Retry(t) /\ UNCHANGED <<disk, live, last, ousted, bare, tombstone, lost>>
    BY <1>2 DEF Unreachable, At, server, inproc, hist
  <2> QED BY <2>1, QuietRetry
<1>3. ASSUME Fails(t) PROVE Quiet(t)
  <2>1. pc[t] = "send" /\ Leave(t) /\ UNCHANGED <<disk, live, last, ousted, bare, tombstone, lost>>
    BY <1>3 DEF Fails, At, server, inproc, hist
  <2> QED BY <2>1, QuietLeave
<1>4. ASSUME AnswerLost(t) PROVE Quiet(t)
  <2>1. /\ pc[t] = "answer" /\ Retry(t) /\ lost' = lost \cup {tok[t]}
        /\ UNCHANGED <<disk, live, last, ousted, bare, tombstone>>
    BY <1>4 DEF AnswerLost, At, server, inproc
  <2>2. lost \subseteq lost' /\ tok[t] \in lost' BY <2>1
  <2> QED BY <2>1, <2>2, QuietRetry
<1>5. ASSUME SaveFails(t) PROVE Quiet(t)
  <2>1. /\ pc[t] = "answer" /\ Leave(t) /\ lost' = lost \cup {tok[t]}
        /\ UNCHANGED <<disk, live, last, ousted, bare>>
        /\ tombstone' = [tombstone EXCEPT ![ProcOf[t]] = None]
    BY <1>5 DEF SaveFails, At, server
  <2>2. lost \subseteq lost' /\ tok[t] \in lost' BY <2>1
  <2>3. \A p \in Proc : tombstone'[p] = tombstone[p] \/ tombstone'[p] = None BY <1>0, <2>1 DEF TypeOK
  <2> QED BY <2>1, <2>2, <2>3, QuietLeave
<1>6. ASSUME Refused(t) PROVE Quiet(t)
  <2>1. /\ pc[t] = "refused" /\ Leave(t) /\ disk' = disk
        /\ UNCHANGED <<live, last, ousted, bare, lost>>
    BY <1>6 DEF Refused, At, server, hist, AfterRejection
  <2>2. tok[t] \notin live BY <2>1 DEF IInv, Dead
  <2>3. \/ tombstone' = [tombstone EXCEPT ![ProcOf[t]] = None]
        \/ tombstone' = [tombstone EXCEPT ![ProcOf[t]] = tok[t]]
    BY <1>6 DEF Refused, Adopt, Culprit
  <2>4. \A p \in Proc : tombstone'[p] = tombstone[p] \/ tombstone'[p] = None
                         \/ (tombstone'[p] = tok[t] /\ tok[t] \notin live)
    BY <1>0, <2>2, <2>3 DEF TypeOK
  <2> QED BY <2>1, <2>4, QuietLeave
<1>7. ASSUME Cancel(t) PROVE Quiet(t)
  <2>1. /\ Leave(t) /\ UNCHANGED <<disk, live, last, ousted, bare, tombstone>>
        /\ lost' = (IF reply[t] # None THEN lost \cup {tok[t]} ELSE lost)
    BY <1>7 DEF Cancel, server, inproc
  <2>2. lost \subseteq lost' /\ (pc[t] = "answer" => tok[t] \in lost') BY <2>1 DEF IInv, Answered
  <2> QED BY <2>1, <2>2, QuietLeave
<1> QED BY <1>1, <1>2, <1>3, <1>4, <1>5, <1>6, <1>7

-----------------------------------------------------------------------------
(* The steps that are not quiet.                                           *)

\* A pair that was never issued is nowhere.
LEMMA NextPairIsNew ==
  ASSUME IInv
  PROVE  /\ last + 1 \notin live /\ disk # last + 1 /\ last + 1 # None
         /\ \A t \in Task : tok[t] # last + 1 /\ reply[t] # last + 1
         /\ \A p \in Proc : tombstone[p] # last + 1
<1> USE Constants
<1>1. last \in Nat BY DEF IInv, TypeOK
<1>2. \A n \in live : n \in Nat /\ n <= last BY DEF IInv, TypeOK, Issued
<1>3. \A t \in Task : tok[t] \in Nat /\ tok[t] <= last /\ reply[t] \in Nat /\ reply[t] <= last
  BY DEF IInv, TypeOK, Issued
<1>4. \A p \in Proc : tombstone[p] \in Nat /\ tombstone[p] <= last
  <2>1. \A p \in Proc : tombstone[p] \in Token \cup {None} BY DEF IInv, TypeOK
  <2>2. Token \cup {None} \subseteq Nat OBVIOUS
  <2>3. \A p \in Proc : tombstone[p] <= last BY DEF IInv, Issued
  <2> QED BY <2>1, <2>2, <2>3
<1>5. disk \in Nat /\ disk <= last BY DEF IInv, TypeOK, Issued
<1> QED BY <1>1, <1>2, <1>3, <1>4, <1>5

LEMMA ExchangeKeeps == ASSUME IInv, NEW t \in Task, Rotates(t), TypeOK' PROVE IInv'
<1> USE Constants
<1> DEFINE new == last + 1
<1>1. /\ pc[t] = "send" /\ tok[t] \in live /\ last' = new /\ live' = (live \ {tok[t]}) \cup {new}
      /\ reply' = [reply EXCEPT ![t] = new] /\ pc' = [pc EXCEPT ![t] = "answer"]
      /\ UNCHANGED <<disk, flock, tombstone, tok, lost, bare, ousted>>
  BY DEF Rotates, Goto, inproc, hist
<1>2. /\ new \notin live /\ disk # new /\ new # None
      /\ \A u \in Task : tok[u] # new /\ reply[u] # new
      /\ \A p \in Proc : tombstone[p] # new
  BY NextPairIsNew
<1>3. /\ pc'[t] = "answer" /\ reply'[t] = new
      /\ \A u \in Task \ {t} : pc'[u] = pc[u] /\ reply'[u] = reply[u]
  BY <1>1 DEF IInv, TypeOK
<1>4. \A u \in Task : pc[u] = "answer" => u # t /\ tok[u] # tok[t] /\ reply[u] # tok[t]
  BY <1>1 DEF IInv, InFlight
<1>5. tok[t] # None BY <1>1 DEF IInv, Compared
<1>6. last \in Nat /\ new \in Nat /\ last <= new BY DEF IInv, TypeOK
<1>a. Issued'
  <2>1. disk \in Nat /\ disk <= last BY DEF IInv, TypeOK, Issued
  <2>2. \A n \in live : n \in Nat /\ n <= last BY DEF IInv, TypeOK, Issued
  <2>3. \A u \in Task : tok[u] \in Nat /\ tok[u] <= last /\ reply[u] \in Nat /\ reply[u] <= last BY DEF IInv, TypeOK, Issued
  <2>4. \A p \in Proc : tombstone[p] \in Nat /\ tombstone[p] <= last BY DEF IInv, TypeOK, Issued
  <2>5. \A u \in Task : reply'[u] <= new BY <1>3, <1>6, <2>3
  <2>6. \A n \in live' : n <= new BY <1>1, <1>6, <2>2
  <2> HIDE DEF new
  <2> QED BY <1>1, <1>6, <2>1, <2>3, <2>4, <2>5, <2>6 DEF Issued
<1>b. InHand' BY <1>1, <1>2 DEF IInv, InHand
<1>c. InFlight'
  <2> HIDE DEF new
  <2> SUFFICES ASSUME NEW u \in Task, pc'[u] = "answer"
      PROVE /\ reply'[u] \in live' /\ tok[u] \notin live' /\ tok[u] # None
            /\ disk # reply'[u]
            /\ \A w \in Task : tok[w] # reply'[u]
            /\ \A w \in Task \ {u} : pc'[w] = "answer" => tok[w] # tok[u] /\ reply'[w] # reply'[u]
    BY <1>1 DEF InFlight
  <2>1. CASE u = t BY <1>1, <1>2, <1>3, <1>4, <1>5, <2>1
  <2>2. CASE u # t
    <3>1. pc[u] = "answer" /\ reply'[u] = reply[u] BY <1>3, <2>2
    <3>2. /\ reply[u] \in live /\ tok[u] \notin live /\ tok[u] # None /\ disk # reply[u]
          /\ \A w \in Task : tok[w] # reply[u]
          /\ \A w \in Task \ {u} : pc[w] = "answer" => tok[w] # tok[u] /\ reply[w] # reply[u]
      BY <3>1 DEF IInv, InFlight
    <3>3. \A w \in Task \ {u} : pc'[w] = "answer" => tok[w] # tok[u] /\ reply'[w] # reply[u]
      BY <1>1, <1>2, <1>3, <3>2
    <3> QED BY <1>1, <1>2, <3>1, <3>2, <3>3
  <2> QED BY <2>1, <2>2
<1>d. Answered' BY <1>1, <1>2, <1>3 DEF IInv, Answered
<1>e. Dead' BY <1>1, <1>2, <1>3 DEF IInv, Dead
<1>f. Compared' BY <1>1, <1>3 DEF IInv, Compared
<1>g. DiskIsGood'
  <2> SUFFICES ASSUME disk # None, disk \notin live', disk \notin lost
      PROVE \E u \in Task : pc'[u] = "answer" /\ tok[u] = disk
    BY <1>1 DEF DiskIsGood
  <2>1. CASE disk \in live BY <1>1, <1>3, <2>1
  <2>2. CASE disk \notin live
    <3>1. PICK u \in Task : pc[u] = "answer" /\ tok[u] = disk BY <2>2 DEF IInv, DiskIsGood
    <3> QED BY <1>3, <3>1
  <2> QED BY <2>1, <2>2
<1>h. SavesOverItsOwn'
  <2>1. disk = tok[t] \/ tok[t] \in ousted BY <1>1 DEF IInv, InHand
  <2> QED BY <1>1, <1>3, <2>1 DEF IInv, SavesOverItsOwn
<1>i. RejectedIsDead' BY <1>1, <1>2 DEF IInv, RejectedIsDead
<1> QED BY <1>a, <1>b, <1>c, <1>d, <1>e, <1>f, <1>g, <1>h, <1>i DEF IInv

LEMMA SaveKeeps == ASSUME IInv, NEW t \in Task, Save(t), TypeOK' PROVE IInv'
<1> USE Constants
<1> DEFINE new == reply[t]
<1>1. /\ pc[t] = "answer" /\ disk' = new /\ Leave(t) /\ UNCHANGED <<live, last, lost, bare>>
      /\ ousted' = IF disk = tok[t] THEN ousted ELSE ousted \cup ({disk} \ {None})
  BY DEF Save, Saved, At, server
<1>2. \A p \in Proc : tombstone'[p] = tombstone[p] \/ tombstone'[p] = None
  BY AdoptShape DEF IInv, Save
<1>3. /\ \A u \in Task \ {t} : pc'[u] = pc[u] /\ tok'[u] = tok[u] /\ reply'[u] = reply[u]
      /\ pc'[t] = "idle" /\ tok'[t] = None /\ reply'[t] = None
      /\ flock' # flock => flock = t
  BY <1>1, LeaveShape DEF IInv
<1>4. /\ new \in live /\ tok[t] \notin live /\ tok[t] # None /\ new # None
      /\ \A u \in Task : tok[u] # new
      /\ \A u \in Task \ {t} : pc[u] = "answer" => tok[u] # tok[t] /\ reply[u] # new
  BY <1>1 DEF IInv, InFlight, TypeOK
<1>5. None \notin live BY DEF IInv, TypeOK
<1>6. ousted \subseteq ousted' /\ (disk # tok[t] => disk \in ousted' \/ disk = None) BY <1>1
<1>a. Issued'
  <2>1. last \in Nat /\ new <= last BY DEF IInv, Issued, TypeOK
  <2>2. \A u \in Task : tok[u] <= last /\ reply[u] <= last BY DEF IInv, Issued
  <2>3. \A u \in Task : tok'[u] <= last /\ reply'[u] <= last BY <1>3, <2>1, <2>2
  <2>4. \A p \in Proc : tombstone'[p] <= last BY <1>2, <2>1 DEF IInv, Issued
  <2> QED BY <1>1, <2>1, <2>3, <2>4 DEF IInv, Issued
<1>b. InHand'
  <2> SUFFICES ASSUME NEW u \in Task, tok'[u] \in live PROVE new = tok'[u] \/ tok'[u] \in ousted'
    BY <1>1 DEF InHand
  <2>1. u # t /\ tok'[u] = tok[u] /\ tok[u] # None BY <1>3, <1>5
  <2>2. disk = tok[u] \/ tok[u] \in ousted BY <2>1 DEF IInv, InHand
  <2>3. disk = tok[u] => disk # tok[t] BY <1>4, <2>1
  <2> QED BY <1>6, <2>1, <2>2, <2>3
<1>c. InFlight'
  <2> HIDE DEF new
  <2> SUFFICES ASSUME NEW u \in Task, pc'[u] = "answer"
      PROVE /\ reply'[u] \in live /\ tok'[u] \notin live /\ tok'[u] # None
            /\ new # reply'[u]
            /\ \A w \in Task : tok'[w] # reply'[u]
            /\ \A w \in Task \ {u} : pc'[w] = "answer" => tok'[w] # tok'[u] /\ reply'[w] # reply'[u]
    BY <1>1 DEF InFlight
  <2>1. u # t /\ pc[u] = "answer" /\ reply'[u] = reply[u] /\ tok'[u] = tok[u] BY <1>3
  <2>2. /\ reply[u] \in live /\ tok[u] \notin live /\ tok[u] # None
        /\ \A w \in Task : tok[w] # reply[u]
        /\ \A w \in Task \ {u} : pc[w] = "answer" => tok[w] # tok[u] /\ reply[w] # reply[u]
    BY <2>1 DEF IInv, InFlight
  <2>3. \A w \in Task : tok'[w] # reply[u] BY <1>3, <1>5, <2>2
  <2>4. \A w \in Task \ {u} : pc'[w] = "answer" => tok'[w] # tok'[u] /\ reply'[w] # reply'[u]
    BY <1>3, <2>1, <2>2
  <2>5. new # reply[u] BY <1>4, <2>1
  <2> QED BY <2>1, <2>2, <2>3, <2>4, <2>5
<1>d. Answered' BY <1>3 DEF IInv, Answered
<1>e. Dead' BY <1>1, <1>3 DEF IInv, Dead
<1>f. Compared'
  <2> SUFFICES ASSUME NEW u \in Task
      PROVE /\ pc'[u] = "send" => new = tok'[u] \/ tok'[u] \in lost \cup bare \cup ousted'
            /\ pc'[u] \in {"send", "answer"} => flock' = u \/ tok'[u] \in bare
            /\ pc'[u] # "idle" => tok'[u] # None
    BY <1>1 DEF Compared
  <2>1. CASE u = t BY <1>3, <2>1
  <2>2. CASE u # t
    <3>1. pc'[u] = pc[u] /\ tok'[u] = tok[u] BY <1>3, <2>2
    <3>2. flock = u => flock' = u BY <1>3, <2>2
    <3>3. /\ pc[u] = "send" => disk = tok[u] \/ tok[u] \in lost \cup bare \cup ousted
          /\ pc[u] \in {"send", "answer"} => flock = u \/ tok[u] \in bare
          /\ pc[u] # "idle" => tok[u] # None
      BY DEF IInv, Compared
    <3>4. flock = t \/ tok[t] \in bare BY <1>1 DEF IInv, Compared
    <3>5. ASSUME pc[u] = "send" PROVE tok[u] \in lost \cup bare \cup ousted'
      <4>1. CASE disk = tok[u]
        <5>1. CASE disk = tok[t]
          <6>1. flock = u \/ tok[u] \in bare BY <3>3, <3>5
          <6> QED BY <2>2, <3>4, <4>1, <5>1, <6>1
        <5>2. CASE disk # tok[t] BY <1>6, <3>3, <3>5, <4>1, <5>2
        <5> QED BY <5>1, <5>2
      <4>2. CASE disk # tok[u] BY <1>6, <3>3, <3>5, <4>2
      <4> QED BY <4>1, <4>2
    <3> QED BY <3>1, <3>2, <3>3, <3>5
  <2> QED BY <2>1, <2>2
<1>g. DiskIsGood' BY <1>1, <1>4 DEF DiskIsGood
<1>h. SavesOverItsOwn'
  <2> SUFFICES ASSUME NEW u \in Task, pc'[u] = "answer" PROVE tok'[u] \in ousted'
    BY DEF SavesOverItsOwn
  <2>1. u # t /\ pc[u] = "answer" /\ tok'[u] = tok[u] BY <1>3
  <2>2. disk = tok[u] \/ tok[u] \in ousted BY <2>1 DEF IInv, SavesOverItsOwn
  <2>3. tok[u] # tok[t] /\ tok[u] # None BY <1>4, <2>1 DEF IInv, InFlight
  <2> QED BY <1>6, <2>1, <2>2, <2>3
<1>i. RejectedIsDead' BY <1>1, <1>2, <1>5 DEF IInv, RejectedIsDead
<1> QED BY <1>a, <1>b, <1>c, <1>d, <1>e, <1>f, <1>g, <1>h, <1>i DEF IInv

LEMMA LoginKeeps == ASSUME IInv, Login, TypeOK' PROVE IInv'
<1> USE Constants
<1> DEFINE new == last + 1
<1>1. /\ last' = new /\ live' = live \cup {new} /\ disk' = new
      /\ ousted' = ousted \cup ({disk} \ {None})
      /\ UNCHANGED <<flock, pc, tok, reply, tombstone, lost, bare>>
  BY DEF Login, inproc, task
<1>2. /\ new \notin live /\ disk # new /\ new # None
      /\ \A u \in Task : tok[u] # new /\ reply[u] # new
      /\ \A p \in Proc : tombstone[p] # new
  BY NextPairIsNew
<1>a. Issued'
  <2>1. last \in Nat /\ last <= new BY DEF IInv, TypeOK
  <2>2. \A n \in live : n \in Nat /\ n <= last BY DEF IInv, TypeOK, Issued
  <2>3. \A u \in Task : tok[u] \in Nat /\ tok[u] <= last /\ reply[u] \in Nat /\ reply[u] <= last BY DEF IInv, TypeOK, Issued
  <2>4. \A p \in Proc : tombstone[p] \in Token \cup {None} BY DEF IInv, TypeOK
  <2>5. \A p \in Proc : tombstone[p] \in Nat /\ tombstone[p] <= last BY <2>4 DEF IInv, Issued
  <2> QED BY <1>1, <2>1, <2>2, <2>3, <2>5 DEF Issued
<1> HIDE DEF new
<1>3. None \notin live /\ \A t \in Task : pc[t] # "idle" => tok[t] # None BY DEF IInv, TypeOK, Compared
<1>b. InHand' BY <1>1, <1>2, <1>3 DEF IInv, InHand
<1>c. InFlight' BY <1>1, <1>2 DEF IInv, InFlight
<1>d. Answered' BY <1>1 DEF IInv, Answered
<1>e. Dead' BY <1>1, <1>2 DEF IInv, Dead
<1>f. Compared' BY <1>1, <1>3 DEF IInv, Compared
<1>g. DiskIsGood' BY <1>1 DEF DiskIsGood
<1>h. SavesOverItsOwn' BY <1>1, <1>3 DEF IInv, SavesOverItsOwn
<1>i. RejectedIsDead' BY <1>1, <1>2 DEF IInv, RejectedIsDead
<1> QED BY <1>a, <1>b, <1>c, <1>d, <1>e, <1>f, <1>g, <1>h, <1>i DEF IInv

LEMMA LogoutKeeps == ASSUME IInv, Logout, TypeOK' PROVE IInv'
<1> USE Constants
<1>1. /\ disk # None /\ disk' = None /\ ousted' = ousted \cup {disk}
      /\ UNCHANGED <<live, last, flock, pc, tok, reply, tombstone, lost, bare>>
  BY DEF Logout, server, inproc, task
<1>3. None \notin live /\ \A t \in Task : pc[t] # "idle" => tok[t] # None BY DEF IInv, TypeOK, Compared
<1>a. Issued'
  <2>1. last \in Nat /\ None <= last BY DEF IInv, TypeOK
  <2> QED BY <1>1, <2>1 DEF IInv, Issued
<1>b. InHand' BY <1>1, <1>3 DEF IInv, InHand
<1>c. InFlight'
  <2>1. \A t \in Task : pc[t] = "answer" => reply[t] # None BY <1>3 DEF IInv, InFlight
  <2> QED BY <1>1, <2>1 DEF IInv, InFlight
<1>d. Answered' BY <1>1 DEF IInv, Answered
<1>e. Dead' BY <1>1 DEF IInv, Dead
<1>f. Compared' BY <1>1, <1>3 DEF IInv, Compared
<1>g. DiskIsGood' BY <1>1 DEF DiskIsGood
<1>h. SavesOverItsOwn' BY <1>1, <1>3 DEF IInv, SavesOverItsOwn
<1>i. RejectedIsDead' BY <1>1 DEF IInv, RejectedIsDead
<1> QED BY <1>a, <1>b, <1>c, <1>d, <1>e, <1>f, <1>g, <1>h, <1>i DEF IInv

LEMMA RestartKeeps == ASSUME IInv, NEW p \in Proc, Restart(p), TypeOK' PROVE IInv'
<1> USE Constants
<1> DEFINE mine == {t \in Task : ProcOf[t] = p}
<1>1. /\ UNCHANGED <<disk, live, last, bare, ousted>>
      /\ lost' = lost \cup {tok[t] : t \in {u \in mine : reply[u] # None}}
      /\ flock' = IF flock \in mine THEN Nobody ELSE flock
      /\ tombstone' = [tombstone EXCEPT ![p] = None]
  BY DEF Restart, server
<1>2. \A t \in mine : pc'[t] = "idle" /\ tok'[t] = None /\ reply'[t] = None BY DEF Restart
<1>3. \A t \in Task \ mine : pc'[t] = pc[t] /\ tok'[t] = tok[t] /\ reply'[t] = reply[t] BY DEF Restart
<1>4. \A q \in Proc : tombstone'[q] = tombstone[q] \/ tombstone'[q] = None BY <1>1 DEF IInv, TypeOK
<1>5. lost \subseteq lost' /\ \A t \in mine : pc[t] = "answer" => tok[t] \in lost'
  BY <1>1 DEF IInv, Answered
<1>6. None \notin live BY DEF IInv, TypeOK
<1>7. mine \subseteq Task OBVIOUS
<1> HIDE DEF mine
<1>a. Issued'
  <2>1. last \in Nat /\ None <= last BY DEF IInv, TypeOK
  <2>2. \A t \in Task : tok[t] <= last /\ reply[t] <= last BY DEF IInv, Issued
  <2>3. \A t \in Task : tok'[t] <= last /\ reply'[t] <= last BY <1>2, <1>3, <2>1, <2>2
  <2>4. \A q \in Proc : tombstone'[q] <= last BY <1>4, <2>1 DEF IInv, Issued
  <2> QED BY <1>1, <2>3, <2>4 DEF IInv, Issued
<1>b. InHand' BY <1>1, <1>2, <1>3, <1>6 DEF IInv, InHand
<1>c. InFlight'
  <2> SUFFICES ASSUME NEW u \in Task, pc'[u] = "answer"
      PROVE /\ reply'[u] \in live /\ tok'[u] \notin live /\ tok'[u] # None
            /\ disk # reply'[u]
            /\ \A w \in Task : tok'[w] # reply'[u]
            /\ \A w \in Task \ {u} : pc'[w] = "answer" => tok'[w] # tok'[u] /\ reply'[w] # reply'[u]
    BY <1>1 DEF InFlight
  <2>1. u \notin mine /\ pc[u] = "answer" /\ reply'[u] = reply[u] /\ tok'[u] = tok[u] BY <1>2, <1>3
  <2>2. /\ reply[u] \in live /\ tok[u] \notin live /\ tok[u] # None /\ disk # reply[u]
        /\ \A w \in Task : tok[w] # reply[u]
        /\ \A w \in Task \ {u} : pc[w] = "answer" => tok[w] # tok[u] /\ reply[w] # reply[u]
    BY <2>1 DEF IInv, InFlight
  <2>3. \A w \in Task : tok'[w] # reply[u] BY <1>2, <1>3, <1>6, <2>2
  <2>4. \A w \in Task \ {u} : pc'[w] = "answer" => tok'[w] # tok[u] /\ reply'[w] # reply[u] BY <1>2, <1>3, <2>2
  <2> QED BY <2>1, <2>2, <2>3, <2>4
<1>d. Answered' BY <1>2, <1>3 DEF IInv, Answered
<1>e. Dead' BY <1>1, <1>2, <1>3 DEF IInv, Dead
<1>f. Compared'
  <2> SUFFICES ASSUME NEW u \in Task
      PROVE /\ pc'[u] = "send" => disk = tok'[u] \/ tok'[u] \in lost' \cup bare \cup ousted
            /\ pc'[u] \in {"send", "answer"} => flock' = u \/ tok'[u] \in bare
            /\ pc'[u] # "idle" => tok'[u] # None
    BY <1>1 DEF Compared
  <2>1. CASE u \in mine BY <1>2, <2>1
  <2>2. CASE u \notin mine
    <3>1. flock = u => flock' = u BY <1>1, <2>2
    <3> QED BY <1>3, <1>5, <2>2, <3>1 DEF IInv, Compared
  <2> QED BY <2>1, <2>2
<1>g. DiskIsGood'
  <2> SUFFICES ASSUME disk # None, disk \notin live, disk \notin lost'
      PROVE \E u \in Task : pc'[u] = "answer" /\ tok'[u] = disk
    BY <1>1 DEF DiskIsGood
  <2>1. PICK u \in Task : pc[u] = "answer" /\ tok[u] = disk BY <1>5 DEF IInv, DiskIsGood
  <2>2. u \notin mine BY <1>5, <2>1
  <2> QED BY <1>3, <2>1, <2>2
<1>h. SavesOverItsOwn' BY <1>1, <1>2, <1>3 DEF IInv, SavesOverItsOwn
<1>i. RejectedIsDead' BY <1>1, <1>4, <1>6 DEF IInv, RejectedIsDead
<1> QED BY <1>a, <1>b, <1>c, <1>d, <1>e, <1>f, <1>g, <1>h, <1>i DEF IInv

-----------------------------------------------------------------------------
(* The invariant, and what follows from it.                                *)

LEMMA InvInit == Init => IInv
<1> USE Constants
<1> SUFFICES ASSUME Init PROVE IInv OBVIOUS
<1>1. TypeOK BY TypeInit
<1>2. Issued /\ InHand /\ InFlight /\ Answered /\ Dead /\ Compared BY DEF Init, Issued, InHand, InFlight, Answered, Dead, Compared
<1>3. DiskIsGood /\ SavesOverItsOwn /\ RejectedIsDead BY DEF Init, DiskIsGood, SavesOverItsOwn, RejectedIsDead
<1> QED BY <1>1, <1>2, <1>3 DEF IInv

LEMMA InvStutter == ASSUME IInv, UNCHANGED vars PROVE IInv'
<1>1. /\ UNCHANGED <<disk, flock, live, last, stale, key, tombstone, cooled, mutex, running>>
      /\ UNCHANGED <<pc, tok, force, tries, reply, crashes, lost, bare, ousted>>
  BY DEF vars, server, inproc, task, hist
<1>2. TypeOK' BY <1>1 DEF IInv, TypeOK
<1>3. Issued' /\ InHand' /\ InFlight' /\ Answered' BY <1>1 DEF IInv, Issued, InHand, InFlight, Answered
<1>4. Dead' /\ Compared' BY <1>1 DEF IInv, Dead, Compared
<1>5. DiskIsGood' /\ SavesOverItsOwn' /\ RejectedIsDead' BY <1>1 DEF IInv, DiskIsGood, SavesOverItsOwn, RejectedIsDead
<1> QED BY <1>2, <1>3, <1>4, <1>5 DEF IInv

LEMMA InvNext == IInv /\ [Next]_vars => IInv'
<1> SUFFICES ASSUME IInv, [Next]_vars PROVE IInv' OBVIOUS
<1>0. TypeOK /\ Compared /\ Answered BY DEF IInv
<1>1. ASSUME NEW t \in Task, NEW f \in BOOLEAN, Ensure(t, f) PROVE IInv'
  <2>1. TypeOK' BY <1>0, <1>1, TypeTask
  <2>2. Quiet(t) BY <1>1, QuietReads
  <2> QED BY <2>1, <2>2, QuietSteps
<1>2. ASSUME NEW t \in Task, Local(t) PROVE IInv'
  <2>1. TypeOK' BY <1>0, <1>2, TypeTask
  <2>2. Quiet(t) BY <1>2, QuietReads, QuietLock, QuietEnds DEF Local
  <2> QED BY <2>1, <2>2, QuietSteps
<1>3. ASSUME NEW t \in Task, Answer(t) PROVE IInv'
  <2>1. TypeOK' BY <1>0, <1>3, TypeTask
  <2>2. CASE Rotates(t) BY <2>1, <2>2, ExchangeKeeps
  <2>3. CASE Rejects(t) \/ Unreachable(t) \/ Fails(t) BY <2>1, <2>3, QuietEnds, QuietSteps
  <2> QED BY <1>3, <2>2, <2>3 DEF Answer
<1>4. ASSUME NEW t \in Task, Settle(t) PROVE IInv'
  <2>1. TypeOK' BY <1>0, <1>4, TypeTask
  <2>2. CASE Save(t) BY <2>1, <2>2, SaveKeeps
  <2>3. CASE SaveFails(t) \/ AnswerLost(t) BY <2>1, <2>3, QuietEnds, QuietSteps
  <2> QED BY <1>4, <2>2, <2>3 DEF Settle
<1>5. ASSUME NEW t \in Task, Cancel(t) PROVE IInv'
  <2>1. TypeOK' BY <1>0, <1>5, TypeTask
  <2> QED BY <1>5, <2>1, QuietEnds, QuietSteps
<1>6. ASSUME NEW p \in Proc, Restart(p) PROVE IInv'
  <2>1. TypeOK' BY <1>0, <1>6, TypeWorld
  <2> QED BY <1>6, <2>1, RestartKeeps
<1>7. ASSUME \/ \E p \in Proc : Cool(p)
             \/ \E n \in Token : Expire(n)
      PROVE IInv'
  <2>1. TypeOK' BY <1>0, <1>7, TypeWorld
  <2>2. UNCHANGED <<disk, flock, live, last, tombstone, pc, tok, reply, lost, bare, ousted>>
    BY <1>7 DEF Cool, Expire, server, task, hist, inproc
  <2>3. Issued' /\ InHand' /\ InFlight' /\ Answered' BY <2>2 DEF IInv, Issued, InHand, InFlight, Answered
  <2>4. Dead' /\ Compared' BY <2>2 DEF IInv, Dead, Compared
  <2>5. DiskIsGood' /\ SavesOverItsOwn' /\ RejectedIsDead' BY <2>2 DEF IInv, DiskIsGood, SavesOverItsOwn, RejectedIsDead
  <2> QED BY <2>1, <2>3, <2>4, <2>5 DEF IInv
<1>8. ASSUME Login PROVE IInv'
  <2>1. TypeOK' BY <1>0, <1>8, TypeWorld
  <2> QED BY <1>8, <2>1, LoginKeeps
<1>9. ASSUME Logout PROVE IInv'
  <2>1. TypeOK' BY <1>0, <1>9, TypeWorld
  <2> QED BY <1>9, <2>1, LogoutKeeps
<1>10. CASE UNCHANGED vars BY <1>10, InvStutter
<1>11. CASE Next
  BY <1>1, <1>2, <1>3, <1>4, <1>5, <1>6, <1>7, <1>8, <1>9, <1>11 DEF Next
<1> QED BY <1>10, <1>11

LEMMA Invariance == Spec => []IInv
BY InvInit, InvNext, PTL DEF Spec

\* Every state is well typed, for any processes, tasks and bounds.
THEOREM Typing == Spec => []TypeOK
<1>1. IInv => TypeOK BY DEF IInv
<1> QED BY <1>1, Invariance, PTL

\* No order of reads, exchanges, rejections, saves, logins, logouts, crashes and
\* cancelled turns leaves a spent token on disk, but for one whose successor was
\* lost or is in the hands of the task that will write it.
THEOREM NobodyIsStranded == Spec => []DiskIsGood
<1>1. IInv => DiskIsGood BY DEF IInv
<1> QED BY <1>1, Invariance, PTL

\* A save writes over the token that it replaces, or one that was ousted.
THEOREM OwnTokenOnly == Spec => []SavesOverItsOwn
<1>1. IInv => SavesOverItsOwn BY DEF IInv
<1> QED BY <1>1, Invariance, PTL

\* A tombstone never stands for a token that the server would accept.
THEOREM TombstonesAreTrue == Spec => []RejectedIsDead
<1>1. IInv => RejectedIsDead BY DEF IInv
<1> QED BY <1>1, Invariance, PTL

\* Under the lock no process sends a token that was spent, unless its successor
\* was lost or it was ousted.
THEOREM NoNeedlessRejection == Spec => RejectionsHaveCause
<1>1. ASSUME IInv, NEW t \in Task, Rejects(t) PROVE tok[t] \in lost \cup bare \cup ousted
  <2>1. pc[t] = "send" /\ tok[t] \notin live BY <1>1 DEF Rejects, At, Unauthorized
  <2>2. tok[t] # None /\ (flock = t \/ tok[t] \in bare) BY <1>1, <2>1 DEF IInv, Compared
  <2>3. CASE disk = tok[t] /\ tok[t] \notin lost \cup bare
    <3>1. PICK u \in Task : pc[u] = "answer" /\ tok[u] = disk BY <1>1, <2>1, <2>2, <2>3 DEF IInv, DiskIsGood
    <3>2. flock = u BY <1>1, <2>3, <3>1 DEF IInv, Compared
    <3>3. flock = t BY <2>2, <2>3
    <3> QED BY <2>1, <3>1, <3>2, <3>3
  <2> QED BY <1>1, <2>1, <2>3 DEF IInv, Compared
<1>2. IInv /\ [Next]_vars => [\A t \in Task : Rejects(t) => tok[t] \in lost \cup bare \cup ousted]_vars
  BY <1>1
<1> QED BY <1>2, Invariance, PTL DEF Spec, RejectionsHaveCause
=============================================================================
