----------------------------- MODULE HuddleProofs -----------------------------
(***************************************************************************)
(* Theorems about HuddleControl, for every set of users and tabs, and about *)
(* what MCHuddle runs beside it: the status circle, the stage, the drafts   *)
(* and the cached translations.                                             *)
(***************************************************************************)
EXTENDS MCHuddle, FiniteSetTheorems, TLAPS

USE ControlAssumption

(* What a handler knows at each of its steps: whom it deals with, that the *)
(* requester asked, and which session it has yet to tell about.            *)
Fits(t, k, rows, requests) ==
    /\ \/ k.pc \in {"asking", "claiming", "inserting"}
       \/ k.pc = "expiring" /\ k.kind = "request"
       => k.peer \in Users \ {Owner[t]}
    /\ k.pc \in {"vetting", "starting"}
       => k.peer \in Users \ {Owner[t]} /\ <<k.peer, Owner[t]>> \in requests
    /\ k.pc = "granted" => k.peer \in Users
    /\ k.pc = "telling" => k.sess \in rows

HandlersFit == \A t \in Tabs : Fits(t, task[t], DOMAIN sessions, asked)

GoneFit == \A g \in ending : g.sess # 0 => g.sess \in DOMAIN sessions

PendingWasAsked ==
    pending # NoRequest =>
        pending.from \in Users /\ <<pending.from, pending.to>> \in asked

Peers == HandlersFit /\ GoneFit /\ PendingWasAsked

Task == [pc: TaskPC, kind: Kinds, peer: Users \cup {Nobody}, sess: Nat]

(* The inductive invariant behind the type, and the consent behind every   *)
(* session.                                                                *)
Consent == TypeOK /\ Peers /\ ControlWasAsked

LEMMA ConsentInit == Init => Consent
BY DEF Init, Consent, TypeOK, Peers, HandlersFit, Fits, GoneFit, PendingWasAsked,
       ControlWasAsked, NoRequest, IdleTask, TaskPC, Kinds, Ids

(* A handler that moves on to a record that fits leaves the others fitting *)
(* when sessions and requests only grow.                                   *)
LEMMA TaskMoves ==
    ASSUME Consent, NEW t \in Tabs, NEW k \in Task,
           task' = [task EXCEPT ![t] = k],
           DOMAIN sessions \subseteq DOMAIN sessions', asked \subseteq asked',
           Fits(t, k, DOMAIN sessions', asked')
    PROVE  task' \in [Tabs -> Task] /\ HandlersFit'
<1>1. task \in [Tabs -> Task]
  BY DEF Consent, TypeOK, Task
<1>2. task' \in [Tabs -> Task]
  BY <1>1
<1>3. ASSUME NEW d \in Tabs PROVE Fits(d, task'[d], DOMAIN sessions', asked')
  <2>1. CASE d = t
    BY <1>1, <2>1
  <2>2. CASE d # t
    <3>1. task'[d] = task[d] /\ Fits(d, task[d], DOMAIN sessions, asked)
      BY <1>1, <2>2 DEF Consent, Peers, HandlersFit
    <3> QED
      BY <3>1 DEF Fits
  <2> QED
    BY <2>1, <2>2
<1> QED
  BY <1>2, <1>3 DEF HandlersFit

LEMMA FinishMoves ==
    ASSUME Consent, NEW t \in Tabs, Finish(t),
           DOMAIN sessions \subseteq DOMAIN sessions', asked \subseteq asked'
    PROVE  task' \in [Tabs -> Task] /\ HandlersFit'
<1>1. IdleTask \in Task /\ Fits(t, IdleTask, DOMAIN sessions', asked')
  BY DEF IdleTask, Task, TaskPC, Kinds, Fits
<1> QED
  BY <1>1, TaskMoves DEF Finish

LEMMA GotoMoves ==
    ASSUME Consent, NEW t \in Tabs, NEW step \in TaskPC, Goto(t, step),
           DOMAIN sessions \subseteq DOMAIN sessions', asked \subseteq asked',
           Fits(t, [pc |-> step, kind |-> task[t].kind, peer |-> task[t].peer,
                    sess |-> task[t].sess], DOMAIN sessions', asked')
    PROVE  task' \in [Tabs -> Task] /\ HandlersFit'
<1>1. task \in [Tabs -> Task]
  BY DEF Consent, TypeOK, Task
<1>2. [task[t] EXCEPT !.pc = step] \in Task
  BY <1>1 DEF Task
<1>3. PICK k \in Task : k = [task[t] EXCEPT !.pc = step]
  BY <1>2
<1>4. task' = [task EXCEPT ![t] = k]
  BY <1>3 DEF Goto
<1>5. k = [pc |-> step, kind |-> task[t].kind, peer |-> task[t].peer,
           sess |-> task[t].sess]
  BY <1>1, <1>3 DEF Task
<1>6. Fits(t, k, DOMAIN sessions', asked')
  BY <1>5
<1> QED
  BY <1>4, <1>6, TaskMoves

(* The row an UPDATE closed is still a row, with the same parties.         *)
LEMMA EndKeeps ==
    ASSUME TypeOK, NEW s \in DOMAIN sessions, End(s)
    PROVE  /\ sessions' \in Seq(Session)
           /\ Len(sessions') = Len(sessions)
           /\ DOMAIN sessions' = DOMAIN sessions
           /\ \A r \in DOMAIN sessions :
                 /\ sessions'[r].controller = sessions[r].controller
                 /\ sessions'[r].sharer = sessions[r].sharer
                 /\ sessions'[r].open = (sessions[r].open /\ r # s)
<1>1. sessions \in Seq(Session) /\ s \in 1..Len(sessions)
  BY DEF TypeOK
<1>2. sessions[s] \in Session
  BY <1>1
<1>3. [sessions[s] EXCEPT !.open = FALSE] \in Session
  BY <1>2 DEF Session
<1>4. sessions' = [sessions EXCEPT ![s] = [sessions[s] EXCEPT !.open = FALSE]]
  BY DEF End
<1>5. sessions' \in Seq(Session) /\ Len(sessions') = Len(sessions)
      /\ DOMAIN sessions' = DOMAIN sessions
  BY <1>1, <1>3, <1>4
<1>6. ASSUME NEW r \in DOMAIN sessions
      PROVE  /\ sessions'[r].controller = sessions[r].controller
             /\ sessions'[r].sharer = sessions[r].sharer
             /\ sessions'[r].open = (sessions[r].open /\ r # s)
  <2>1. CASE r = s
    BY <1>2, <1>4, <2>1 DEF Session
  <2>2. CASE r # s
    <3>1. sessions[r] \in Session
      BY <1>1
    <3> QED
      BY <1>4, <2>2, <3>1 DEF Session
  <2> QED
    BY <2>1, <2>2
<1> QED
  BY <1>5, <1>6

LEMMA StartAdds ==
    ASSUME Consent, NEW t \in Tabs, Start(t), NoOpenSession
    PROVE  /\ sessions' \in Seq(Session)
           /\ Len(sessions') = Len(sessions) + 1
           /\ Len(sessions') <= MaxSessions
           /\ DOMAIN sessions' = DOMAIN sessions \cup {Len(sessions) + 1}
           /\ \A r \in DOMAIN sessions : sessions'[r] = sessions[r]
           /\ sessions'[Len(sessions) + 1] =
                 [controller |-> task[t].peer, sharer |-> Owner[t], open |-> TRUE]
<1>1. [controller |-> task[t].peer, sharer |-> Owner[t], open |-> TRUE] \in Session
  BY DEF Consent, Peers, HandlersFit, Fits, Start, Session, TypeOK
<1>2. sessions \in Seq(Session) /\ Len(sessions) < MaxSessions
  BY DEF Consent, TypeOK, Start
<1> QED
  BY <1>1, <1>2 DEF Start

(* Ending a session, or finding none to end, keeps the consent behind the  *)
(* rows that remain.                                                       *)
LEMMA EndKeepsConsent ==
    ASSUME Consent, NEW s \in DOMAIN sessions, End(s), asked' = asked
    PROVE  /\ sessions' \in Seq(Session) /\ Len(sessions') <= MaxSessions
           /\ DOMAIN sessions' = DOMAIN sessions
           /\ ControlWasAsked'
BY EndKeeps DEF Consent, TypeOK, ControlWasAsked

LEMMA EndsOrFinishKeeps ==
    ASSUME Consent, NEW t \in Tabs, NEW found, found \subseteq DOMAIN sessions,
           EndsOrFinish(t, found), asked' = asked
    PROVE  /\ sessions' \in Seq(Session) /\ Len(sessions') <= MaxSessions
           /\ DOMAIN sessions' = DOMAIN sessions
           /\ ControlWasAsked'
           /\ task' \in [Tabs -> Task] /\ HandlersFit'
<1>1. CASE found = {} /\ Finish(t) /\ UNCHANGED sessions
  BY <1>1, FinishMoves DEF Consent, TypeOK, ControlWasAsked
<1>2. ASSUME NEW s \in found, End(s),
             task' = [task EXCEPT ![t].pc = "telling", ![t].sess = s]
      PROVE  /\ sessions' \in Seq(Session) /\ Len(sessions') <= MaxSessions
             /\ DOMAIN sessions' = DOMAIN sessions
             /\ ControlWasAsked'
             /\ task' \in [Tabs -> Task] /\ HandlersFit'
  <2>1. DOMAIN sessions' = DOMAIN sessions
    BY <1>2, EndKeepsConsent
  <2>2. task \in [Tabs -> Task] /\ s \in Nat
    BY DEF Consent, TypeOK, Task
  <2>3. PICK k \in Task : k = [task[t] EXCEPT !.pc = "telling", !.sess = s]
    BY <2>2 DEF Task, TaskPC
  <2>4. task' = [task EXCEPT ![t] = k]
    BY <1>2, <2>3
  <2>5. Fits(t, k, DOMAIN sessions', asked')
    BY <2>1, <2>2, <2>3 DEF Fits, Task
  <2>6. task' \in [Tabs -> Task] /\ HandlersFit'
    BY <2>1, <2>4, <2>5, TaskMoves
  <2> QED
    BY <1>2, <2>6, EndKeepsConsent
<1> QED
  BY <1>1, <1>2 DEF EndsOrFinish

LEMMA ControlStepKeeps ==
    ASSUME Consent, NEW t \in Tabs, ControlStep(t)
    PROVE  Consent'
<1>0. TypeOK /\ HandlersFit /\ GoneFit /\ PendingWasAsked /\ ControlWasAsked
  BY DEF Consent, Peers
<1> USE DEF hubVars, toldVars
<1>1. ASSUME NEW kind \in Kinds \ {"none"}, Frame(t, kind) PROVE Consent'
  <2>1. PICK k \in Task : k = [task[t] EXCEPT !.pc = "gated", !.kind = kind]
    BY <1>0, ZenonT(60) DEF TypeOK, Task, TaskPC
  <2>2. task' = [task EXCEPT ![t] = k]
    BY <1>1, <2>1 DEF Frame
  <2>3. Fits(t, k, DOMAIN sessions', asked')
    BY <1>0, <2>1 DEF Fits, TypeOK
  <2>4. task' \in [Tabs -> Task] /\ HandlersFit'
    BY <1>1, <2>2, <2>3, TaskMoves DEF Frame
  <2> QED
    BY <1>0, <1>1, <2>4 DEF Frame, Consent, Peers, TypeOK, GoneFit, PendingWasAsked,
       ControlWasAsked, Task
<1>2. CASE GiveUp(t)
  <2>1. task' \in [Tabs -> Task] /\ HandlersFit'
    BY <1>2, FinishMoves DEF GiveUp
  <2> QED
    BY <1>0, <1>2, <2>1 DEF GiveUp, Consent, Peers, TypeOK, GoneFit, PendingWasAsked,
       ControlWasAsked, Task
<1>3. CASE PickSharer(t)
  <2>1. task' \in [Tabs -> Task] /\ HandlersFit'
    <3>1. PICK sharer \in Users \ {Owner[t]} :
               task' = [task EXCEPT ![t].pc = "asking", ![t].peer = sharer]
      BY <1>0, <1>3 DEF PickSharer, TypeOK
    <3>2. PICK k \in Task : k = [task[t] EXCEPT !.pc = "asking", !.peer = sharer]
      BY <1>0, ZenonT(60) DEF TypeOK, Task, TaskPC
    <3>3. task' = [task EXCEPT ![t] = k]
      BY <3>1, <3>2
    <3>4. Fits(t, k, DOMAIN sessions', asked')
      BY <1>0, <3>2 DEF Fits, TypeOK
    <3> QED
      BY <1>3, <3>3, <3>4, TaskMoves DEF PickSharer
  <2> QED
    BY <1>0, <1>3, <2>1 DEF PickSharer, Consent, Peers, TypeOK, GoneFit, PendingWasAsked,
       ControlWasAsked, Task
<1>4. CASE BusyCheck(t)
  <2>1. task' \in [Tabs -> Task] /\ HandlersFit'
    <3>1. CASE OpenIds = {}
      BY <1>0, <1>4, <3>1, GotoMoves DEF BusyCheck, HandlersFit, Fits, TaskPC, Task, TypeOK
    <3>2. CASE ~(OpenIds = {})
      BY <1>4, <3>2, FinishMoves DEF BusyCheck
    <3> QED
      BY <3>1, <3>2
  <2> QED
    BY <1>0, <1>4, <2>1 DEF BusyCheck, Consent, Peers, TypeOK, GoneFit, PendingWasAsked,
       ControlWasAsked, Task
<1>5. CASE ClaimCheck(t)
  <2>1. task' \in [Tabs -> Task] /\ HandlersFit'
    <3>1. CASE Goto(t, "inserting")
      BY <1>0, <1>5, <3>1, GotoMoves DEF ClaimCheck, HandlersFit, Fits, TaskPC, Task, TypeOK
    <3>2. CASE Goto(t, "expiring")
      BY <1>0, <1>5, <3>2, GotoMoves DEF ClaimCheck, HandlersFit, Fits, TaskPC, Task, TypeOK
    <3>3. CASE Finish(t)
      BY <1>5, <3>3, FinishMoves DEF ClaimCheck
    <3> QED
      BY <1>5, <3>1, <3>2, <3>3 DEF ClaimCheck
  <2> QED
    BY <1>0, <1>5, <2>1 DEF ClaimCheck, Consent, Peers, TypeOK, GoneFit, PendingWasAsked,
       ControlWasAsked, Task
<1>6. CASE DropExpired(t)
  <2>1. task' \in [Tabs -> Task] /\ HandlersFit'
    <3>1. CASE task[t].kind = "request"
      BY <1>0, <1>6, <3>1, GotoMoves DEF DropExpired, HandlersFit, Fits, TaskPC, Task, TypeOK
    <3>2. CASE ~(task[t].kind = "request")
      BY <1>6, <3>2, FinishMoves DEF DropExpired
    <3> QED
      BY <3>1, <3>2
  <2> QED
    BY <1>0, <1>6, <2>1 DEF DropExpired, Consent, Peers, TypeOK, GoneFit, PendingWasAsked,
       ControlWasAsked, Task, NoRequest
<1>7. CASE ClaimInsert(t)
  <2>1. task' \in [Tabs -> Task] /\ HandlersFit'
    BY <1>7, FinishMoves DEF ClaimInsert
  <2>2. task[t].peer \in Users \ {Owner[t]} /\ Owner[t] \in Users
    BY <1>0, <1>7 DEF ClaimInsert, HandlersFit, Fits
  <2>3. PendingWasAsked' /\ ControlWasAsked' /\ GoneFit'
    BY <1>0, <1>7, <2>2 DEF ClaimInsert, PendingWasAsked, ControlWasAsked, GoneFit
  <2>4. TypeOK'
    BY <1>0, <1>7, <2>1, <2>2 DEF ClaimInsert, TypeOK, Task
  <2> QED
    BY <2>1, <2>3, <2>4 DEF Consent, Peers
<1>8. CASE TakeCheck(t)
  <2>1. task' \in [Tabs -> Task] /\ HandlersFit'
    <3>1. CASE Goto(t, "expiring")
      BY <1>0, <1>8, <3>1, GotoMoves DEF TakeCheck, HandlersFit, Fits, TaskPC, Task, TypeOK
    <3>2. CASE Goto(t, "taking")
      BY <1>0, <1>8, <3>2, GotoMoves DEF TakeCheck, HandlersFit, Fits, TaskPC, Task, TypeOK
    <3> QED
      BY <1>8, <3>1, <3>2 DEF TakeCheck
  <2> QED
    BY <1>0, <1>8, <2>1 DEF TakeCheck, Consent, Peers, TypeOK, GoneFit, PendingWasAsked,
       ControlWasAsked, Task
<1>9. CASE Take(t)
  <2>1. task' \in [Tabs -> Task] /\ HandlersFit'
    <3>1. CASE task[t].kind = "grant" /\ InCall(pending.from)
      <4>1. /\ pending.from \in Users \ {Owner[t]}
            /\ <<pending.from, Owner[t]>> \in asked
        BY <1>0, <1>9 DEF Take, AimedAt, PendingWasAsked, TypeOK
      <4> PICK asker \in Users : asker = pending.from
        BY <4>1
      <4>5. task[t] \in Task
        BY <1>0 DEF TypeOK, Task
      <4>6. [task[t] EXCEPT !.pc = "vetting", !.peer = asker] \in Task
        BY <4>5 DEF Task, TaskPC
      <4>2. PICK k \in Task : k = [task[t] EXCEPT !.pc = "vetting", !.peer = asker]
        BY <4>6
      <4>3. task' = [task EXCEPT ![t] = k]
        BY <1>9, <3>1, <4>2 DEF Take
      <4>4. Fits(t, k, DOMAIN sessions', asked')
        BY <1>0, <1>9, <4>1, <4>2 DEF Fits, Take, TypeOK
      <4> QED
        BY <1>9, <4>3, <4>4, TaskMoves DEF Take
    <3>2. CASE ~(task[t].kind = "grant" /\ InCall(pending.from))
      BY <1>9, <3>2, FinishMoves DEF Take
    <3> QED
      BY <3>1, <3>2
  <2> QED
    BY <1>0, <1>9, <2>1 DEF Take, Consent, Peers, TypeOK, GoneFit, PendingWasAsked,
       ControlWasAsked, Task, NoRequest
<1>10. CASE TakeMissed(t)
  <2>1. task' \in [Tabs -> Task] /\ HandlersFit'
    BY <1>10, FinishMoves DEF TakeMissed
  <2> QED
    BY <1>0, <1>10, <2>1 DEF TakeMissed, Consent, Peers, TypeOK, GoneFit, PendingWasAsked,
       ControlWasAsked, Task
<1>11. CASE GrantCheck(t)
  <2>1. task' \in [Tabs -> Task] /\ HandlersFit'
    <3>1. CASE OpenIds = {}
      BY <1>0, <1>11, <3>1, GotoMoves DEF GrantCheck, HandlersFit, Fits, TaskPC, Task, TypeOK
    <3>2. CASE ~(OpenIds = {})
      BY <1>11, <3>2, FinishMoves DEF GrantCheck
    <3> QED
      BY <3>1, <3>2
  <2> QED
    BY <1>0, <1>11, <2>1 DEF GrantCheck, Consent, Peers, TypeOK, GoneFit, PendingWasAsked,
       ControlWasAsked, Task
<1>12. CASE Start(t)
  <2>1. CASE ~NoOpenSession
    <3>1. sessions' = sessions /\ UNCHANGED asked
      BY <1>12, <2>1 DEF Start
    <3>2. task' \in [Tabs -> Task] /\ HandlersFit'
      BY <1>0, <1>12, <3>1, GotoMoves DEF Start, HandlersFit, Fits, TaskPC, Task, TypeOK
    <3> QED
      BY <1>0, <1>12, <3>1, <3>2 DEF Start, Consent, Peers, TypeOK, GoneFit, PendingWasAsked,
         ControlWasAsked, Task
  <2>2. CASE NoOpenSession
    <3>1. DOMAIN sessions \subseteq DOMAIN sessions' /\ UNCHANGED asked
      BY <1>12, <2>2, StartAdds DEF Start
    <3>2. task' \in [Tabs -> Task] /\ HandlersFit'
      BY <1>0, <1>12, <3>1, GotoMoves DEF Start, HandlersFit, Fits, TaskPC, Task, TypeOK
    <3>3. <<task[t].peer, Owner[t]>> \in asked
      BY <1>0, <1>12 DEF Start, HandlersFit, Fits
    <3>4. ControlWasAsked'
      <4>1. ASSUME NEW r \in DOMAIN sessions'
            PROVE  <<sessions'[r].controller, sessions'[r].sharer>> \in asked
        <5>1. CASE r \in DOMAIN sessions
          BY <1>0, <1>12, <2>2, <5>1, StartAdds DEF ControlWasAsked
        <5>2. CASE r = Len(sessions) + 1
          <6>1. sessions'[r] = [controller |-> task[t].peer, sharer |-> Owner[t], open |-> TRUE]
            BY <1>12, <2>2, <5>2, StartAdds
          <6> QED
            BY <3>3, <6>1
        <5> QED
          BY <1>12, <2>2, <4>1, <5>1, <5>2, StartAdds
      <4> QED
        BY <3>1, <4>1 DEF ControlWasAsked
    <3>5. TypeOK'
      BY <1>0, <1>12, <2>2, <3>2, StartAdds DEF Start, TypeOK, Task
    <3>6. GoneFit' /\ PendingWasAsked'
      BY <1>0, <1>12, <3>1 DEF Start, GoneFit, PendingWasAsked
    <3> QED
      BY <3>2, <3>4, <3>5, <3>6 DEF Consent, Peers
  <2> QED
    BY <2>1, <2>2
<1>13. CASE RelayGrant(t)
  <2>1. task' \in [Tabs -> Task] /\ HandlersFit'
    BY <1>0, <1>13, GotoMoves DEF RelayGrant, HandlersFit, Fits, TaskPC, Task, TypeOK
  <2> QED
    BY <1>0, <1>13, <2>1 DEF RelayGrant, Consent, Peers, TypeOK, GoneFit, PendingWasAsked,
       ControlWasAsked, Task, HandlersFit, Fits
<1>14. CASE LabelOn(t)
  <2>1. task' \in [Tabs -> Task] /\ HandlersFit'
    BY <1>14, FinishMoves DEF LabelOn
  <2> QED
    BY <1>0, <1>14, <2>1 DEF LabelOn, Consent, Peers, TypeOK, GoneFit, PendingWasAsked,
       ControlWasAsked, Task
<1>15. CASE Revoke(t)
  <2>1. OpenOf(Owner[t]) \subseteq DOMAIN sessions
    BY DEF OpenOf, OpenIds
  <2>2. /\ sessions' \in Seq(Session) /\ Len(sessions') <= MaxSessions
        /\ DOMAIN sessions' = DOMAIN sessions
        /\ ControlWasAsked'
        /\ task' \in [Tabs -> Task] /\ HandlersFit'
    BY <1>15, <2>1, EndsOrFinishKeeps DEF Revoke
  <2> QED
    BY <1>0, <1>15, <2>2 DEF Revoke, Consent, Peers, TypeOK, GoneFit, PendingWasAsked, Task
<1>16. CASE Tell(t)
  <2>1. task' \in [Tabs -> Task] /\ HandlersFit'
    BY <1>16, FinishMoves DEF Tell
  <2>3. told' \subseteq Users /\ labelled' \subseteq Users /\ notices' \in [Ids -> Nat]
    <3>1. told' \subseteq Users /\ labelled' \subseteq Users
      BY <1>0, <1>16 DEF Tell, Notify, TypeOK
    <3>2. notices \in [Ids -> Nat] /\ \A r \in Ids : notices[r] + 1 \in Nat
      BY <1>0 DEF TypeOK
    <3>3. notices' \in [Ids -> Nat]
      BY <1>16, <3>2 DEF Tell, Notify
    <3> QED
      BY <3>1, <3>3
  <2> QED
    BY <1>0, <1>16, <2>1, <2>3 DEF Tell, Consent, Peers, TypeOK, GoneFit, PendingWasAsked,
       ControlWasAsked, Task
<1> QED
  BY <1>1, <1>2, <1>3, <1>4, <1>5, <1>6, <1>7, <1>8, <1>9, <1>10, <1>11, <1>12, <1>13,
     <1>14, <1>15, <1>16 DEF ControlStep

LEMMA CallStepKeeps ==
    ASSUME Consent, NEW t \in Tabs, CallStep(t)
    PROVE  Consent'
<1>0. TypeOK /\ HandlersFit /\ GoneFit /\ PendingWasAsked /\ ControlWasAsked
  BY DEF Consent, Peers
<1> USE DEF hubVars, toldVars
<1>1. CASE JoinCall(t)
  BY <1>0, <1>1 DEF JoinCall, Consent, Peers, TypeOK, HandlersFit, Fits,
     GoneFit, PendingWasAsked, ControlWasAsked
<1>5. CASE ShareStart(t)
  BY <1>0, <1>5 DEF ShareStart, Consent, Peers, TypeOK, HandlersFit, Fits,
     GoneFit, PendingWasAsked, ControlWasAsked
<1>2. CASE ShareStop(t)
  <2>1. task' \in [Tabs -> Task] /\ HandlersFit'
    BY <1>0, <1>2, GotoMoves DEF ShareStop, HandlersFit, Fits, TaskPC, Task, TypeOK, IdleTask
  <2>2. CASE AimedAt(Owner[t])
    BY <1>0, <1>2, <2>1, <2>2 DEF ShareStop, Consent, Peers, TypeOK, GoneFit,
       PendingWasAsked, ControlWasAsked, Task, NoRequest
  <2>3. CASE ~AimedAt(Owner[t])
    BY <1>0, <1>2, <2>1, <2>3 DEF ShareStop, Consent, Peers, TypeOK, GoneFit,
       PendingWasAsked, ControlWasAsked, Task
  <2> QED
    BY <2>2, <2>3
<1>3. CASE ShareEnd(t)
  <2>1. OpenBySharer(Owner[t]) \subseteq DOMAIN sessions
    BY DEF OpenBySharer, OpenIds
  <2>2. /\ sessions' \in Seq(Session) /\ Len(sessions') <= MaxSessions
        /\ DOMAIN sessions' = DOMAIN sessions
        /\ ControlWasAsked'
        /\ task' \in [Tabs -> Task] /\ HandlersFit'
    BY <1>3, <2>1, EndsOrFinishKeeps DEF ShareEnd
  <2> QED
    BY <1>0, <1>3, <2>2 DEF ShareEnd, Consent, Peers, TypeOK, GoneFit, PendingWasAsked, Task
<1>4. ASSUME NEW why \in SUBSET {"left", "dropped"}, Leave(t, why) PROVE Consent'
  <2>1. HandlersFit'
    BY <1>0, <1>4 DEF Leave, HandlersFit, Fits
  <2>2. ending' \subseteq Ending /\ GoneFit'
    <3> DEFINE Left == {[user |-> Owner[t], why |-> w, sess |-> 0] : w \in why}
    <3>3. ASSUME NEW w \in why
          PROVE  /\ [user |-> Owner[t], why |-> w, sess |-> 0] \in Ending
                 /\ [user |-> Owner[t], why |-> w, sess |-> 0].sess = 0
      <4>1. w \in {"left", "dropped"} /\ Owner[t] \in Users
        OBVIOUS
      <4> QED
        BY <4>1 DEF Ending
    <3>1. \A e \in Left : e \in Ending /\ e.sess = 0
      BY <3>3
    <3>2. ending' = ending \/ ending' = ending \cup Left
      BY <1>4 DEF Leave
    <3> HIDE DEF Left
    <3> QED
      BY <1>0, <1>4, <3>1, <3>2 DEF Leave, TypeOK, GoneFit
  <2>3. pending' = pending \/ pending' = NoRequest
    BY <1>4 DEF Leave
  <2>4. PendingWasAsked' /\ ControlWasAsked'
    BY <1>0, <1>4, <2>3 DEF Leave, PendingWasAsked, ControlWasAsked
  <2>5. TypeOK'
    BY <1>0, <1>4, <2>2, <2>3 DEF Leave, TypeOK, NoRequest
  <2> QED
    BY <2>1, <2>2, <2>4, <2>5 DEF Consent, Peers
<1> QED
  BY <1>1, <1>2, <1>3, <1>4, <1>5 DEF CallStep, LeaveCall, Disconnect

LEMMA GoneStepKeeps ==
    ASSUME Consent, NEW g \in ending, EndForGone(g) \/ TellForGone(g)
    PROVE  Consent'
<1>0. TypeOK /\ HandlersFit /\ GoneFit /\ PendingWasAsked /\ ControlWasAsked /\ g \in Ending
  BY DEF Consent, Peers, TypeOK
<1> USE DEF hubVars, toldVars
<1>1. ASSUME EndForGone(g), NEW s \in OpenOf(g.user), End(s),
             ending' = (ending \ {g}) \cup {[g EXCEPT !.sess = s]}
      PROVE  Consent'
  <2>1. s \in DOMAIN sessions /\ s \in Nat
    BY <1>0 DEF OpenOf, OpenIds, TypeOK
  <2>2. /\ sessions' \in Seq(Session) /\ Len(sessions') <= MaxSessions
        /\ DOMAIN sessions' = DOMAIN sessions
        /\ ControlWasAsked'
    BY <1>1, <2>1, EndKeepsConsent DEF EndForGone
  <2>3. [g EXCEPT !.sess = s] \in Ending /\ [g EXCEPT !.sess = s].sess = s
    BY <1>0, <2>1 DEF Ending
  <2>4. ending' \subseteq Ending /\ GoneFit'
    BY <1>0, <1>1, <2>1, <2>2, <2>3 DEF TypeOK, GoneFit
  <2>5. HandlersFit' /\ PendingWasAsked'
    BY <1>0, <1>1, <2>2 DEF EndForGone, HandlersFit, Fits, PendingWasAsked
  <2>6. TypeOK'
    BY <1>0, <1>1, <2>2, <2>4 DEF EndForGone, TypeOK
  <2> QED
    BY <2>2, <2>4, <2>5, <2>6 DEF Consent, Peers
<1>2. CASE EndForGone(g) /\ ending' = ending \ {g} /\ UNCHANGED sessions
  BY <1>0, <1>2 DEF EndForGone, Consent, Peers, TypeOK, HandlersFit, Fits, GoneFit,
     PendingWasAsked, ControlWasAsked
<1>3. CASE TellForGone(g)
  <2>1. told' \subseteq Users /\ labelled' \subseteq Users
    BY <1>0, <1>3 DEF TellForGone, Notify, TypeOK
  <2>2. notices \in [Ids -> Nat] /\ \A r \in Ids : notices[r] + 1 \in Nat
    BY <1>0 DEF TypeOK
  <2>3. notices' \in [Ids -> Nat]
    BY <1>3, <2>2 DEF TellForGone, Notify
  <2> QED
    BY <1>0, <1>3, <2>1, <2>3 DEF TellForGone, Consent, Peers, TypeOK, HandlersFit, Fits,
       GoneFit, PendingWasAsked, ControlWasAsked
<1> QED
  BY <1>1, <1>2, <1>3 DEF EndForGone

LEMMA ConsentStep ==
    ASSUME Consent, [Next]_vars
    PROVE  Consent'
<1>1. CASE Expire
  BY <1>1 DEF Expire, Consent, Peers, TypeOK, HandlersFit, Fits, GoneFit,
     PendingWasAsked, ControlWasAsked, NoRequest, toldVars
<1>2. CASE UNCHANGED vars
  BY <1>2 DEF vars, Consent, Peers, TypeOK, HandlersFit, Fits, GoneFit,
     PendingWasAsked, ControlWasAsked
<1> QED
  BY <1>1, <1>2, ControlStepKeeps, CallStepKeeps, GoneStepKeeps DEF Next

LEMMA ConsentInv == Spec => []Consent
BY ConsentInit, ConsentStep, PTL DEF Spec

(* Type correctness of the pending slot, the sessions and the handlers     *)
(* (routes/ws.rs, relay_huddle_control_signal).                            *)
THEOREM TypeCorrect == Spec => []TypeOK
<1>1. Consent => TypeOK
  BY DEF Consent
<1> QED
  BY <1>1, ConsentInv, PTL

(* Whatever the handlers interleave with, a session joins a controller who *)
(* asked with the very sharer who was asked (the consent contract that     *)
(* heads the control frames in routes/ws.rs).                              *)
THEOREM ConsentBehindControl == Spec => []ControlWasAsked
<1>1. Consent => ControlWasAsked
  BY DEF Consent
<1> QED
  BY <1>1, ConsentInv, PTL

-----------------------------------------------------------------------------
(* A new row is open only when no row was; a closed row stays closed.      *)
LEMMA OneSessionStep ==
    ASSUME Consent, OneSession, [Next]_vars
    PROVE  OneSession'
<1>0. TypeOK
  BY DEF Consent
<1>1. ASSUME NEW s \in DOMAIN sessions, End(s) PROVE OneSession'
  BY <1>0, <1>1, EndKeeps DEF OneSession, OpenIds
<1>2. CASE UNCHANGED sessions
  BY <1>2 DEF OneSession, OpenIds
<1>3. ASSUME NEW t \in Tabs, Start(t), NoOpenSession PROVE OneSession'
  <2>1. OpenIds = {}
    BY <1>3 DEF NoOpenSession
  <2>2. \A r \in DOMAIN sessions : ~sessions'[r].open
    BY <1>3, <2>1, StartAdds DEF OpenIds
  <2>3. \A r \in OpenIds' : r = Len(sessions) + 1
    BY <1>3, <2>2, StartAdds DEF OpenIds
  <2> QED
    BY <2>3 DEF OneSession
<1>4. ASSUME NEW t \in Tabs, ControlStep(t) PROVE OneSession'
  <2> USE DEF hubVars, toldVars
  <2>1. CASE Start(t)
    BY <1>2, <1>3, <2>1 DEF Start
  <2>2. CASE Revoke(t)
    BY <1>1, <1>2, <2>2 DEF Revoke, EndsOrFinish, OpenOf, OpenIds
  <2>3. CASE ~Start(t) /\ ~Revoke(t)
    BY <1>2, <1>4, <2>3 DEF ControlStep, Frame, GiveUp, PickSharer, BusyCheck, ClaimCheck,
       DropExpired, ClaimInsert, TakeCheck, Take, TakeMissed, GrantCheck, RelayGrant,
       LabelOn, Tell
  <2> QED
    BY <2>1, <2>2, <2>3
<1>5. ASSUME NEW t \in Tabs, CallStep(t) PROVE OneSession'
  <2>1. CASE ShareEnd(t)
    BY <1>1, <1>2, <2>1 DEF ShareEnd, EndsOrFinish, OpenBySharer, OpenIds
  <2>2. CASE ~ShareEnd(t)
    BY <1>2, <1>5, <2>2 DEF CallStep, JoinCall, ShareStart, ShareStop, LeaveCall,
       Disconnect, Leave
  <2> QED
    BY <2>1, <2>2
<1>6. ASSUME NEW g \in ending, EndForGone(g) \/ TellForGone(g) PROVE OneSession'
  BY <1>1, <1>2, <1>6 DEF EndForGone, TellForGone, OpenOf, OpenIds
<1> QED
  BY <1>2, <1>4, <1>5, <1>6 DEF Next, Expire, vars

(* However many grants, revokes, departures and share stops interleave, at *)
(* most one session is open (start_session's WHERE NOT EXISTS).            *)
THEOREM OneSessionAtATime == Spec => []OneSession
<1>1. Init => OneSession
  BY DEF Init, OneSession, OpenIds
<1> QED
  BY <1>1, ConsentInv, OneSessionStep, PTL DEF Spec

-------------------------------------------------------------------------------
(* Who tells that a session has ended.                                     *)

TellsAs(k, s) == k.pc = "telling" /\ k.sess = s
GoneTell(s) == {e \in ending : e.sess = s}

(* What ToldOnce says of one session.                                      *)
ToldAs(s, open, count, tellers) ==
    IF open
      THEN count = 0 /\ tellers = {}
      ELSE \/ count = 1 /\ tellers = {}
           \/ count = 0 /\ \E x \in tellers : tellers = {x}

(* An id without a row has had no notice.                                  *)
Told ==
    /\ \A s \in DOMAIN sessions : ToldAs(s, sessions[s].open, notices[s], Tellers(s))
    /\ \A s \in Ids \ DOMAIN sessions : notices[s] = 0

LEMMA ToldGives == Told => ToldOnce
BY DEF Told, ToldOnce, ToldAs

LEMMA SameTellers ==
    ASSUME NEW s, GoneTell(s)' = GoneTell(s),
           \A d \in Tabs : TellsAs(task'[d], s) <=> TellsAs(task[d], s)
    PROVE  Tellers(s)' = Tellers(s)
<1>1. {d \in Tabs : task'[d].pc = "telling" /\ task'[d].sess = s}
          = {d \in Tabs : task[d].pc = "telling" /\ task[d].sess = s}
  BY DEF TellsAs
<1>2. {e \in ending' : e.sess = s} = {e \in ending : e.sess = s}
  BY DEF GoneTell
<1> QED
  BY <1>1, <1>2 DEF Tellers

(* A step that closes nothing, tells nothing and leaves the tellers alone. *)
LEMMA QuietKeepsTold ==
    ASSUME Consent, Told, NEW t \in Tabs,
           \A d \in Tabs \ {t} : task'[d] = task[d],
           task[t].pc # "telling", task'[t].pc # "telling",
           \A s \in DOMAIN sessions : GoneTell(s)' = GoneTell(s),
           sessions' = sessions, notices' = notices
    PROVE  Told'
<1>1. ASSUME NEW s \in DOMAIN sessions PROVE Tellers(s)' = Tellers(s)
  <2>1. \A d \in Tabs : TellsAs(task'[d], s) <=> TellsAs(task[d], s)
    BY DEF TellsAs
  <2> QED
    BY <2>1, SameTellers
<1> QED
  BY <1>1 DEF Told

LEMMA QuietFinish ==
    ASSUME Consent, NEW t \in Tabs, Finish(t)
    PROVE  task'[t].pc # "telling" /\ \A d \in Tabs \ {t} : task'[d] = task[d]
BY DEF Finish, Consent, TypeOK, IdleTask

LEMMA QuietGoto ==
    ASSUME Consent, NEW t \in Tabs, NEW step \in TaskPC \ {"telling"}, Goto(t, step)
    PROVE  task'[t].pc # "telling" /\ \A d \in Tabs \ {t} : task'[d] = task[d]
BY DEF Goto, Consent, TypeOK

(* Nobody tells of a session that has no row.                              *)
LEMMA NoTellersYet ==
    ASSUME Consent, NEW s \in Nat \ {0}, s \notin DOMAIN sessions
    PROVE  Tellers(s) = {}
<1>1. \A d \in Tabs : ~TellsAs(task[d], s)
  BY DEF Consent, Peers, HandlersFit, Fits, TellsAs
<1>2. \A e \in ending : e.sess # s
  BY DEF Consent, Peers, GoneFit
<1> QED
  BY <1>1, <1>2 DEF Tellers, TellsAs

LEMMA StartKeepsTold ==
    ASSUME Consent, Told, NEW t \in Tabs, Start(t)
    PROVE  Told'
<1>1. task[t].pc # "telling" /\ task'[t].pc # "telling"
      /\ \A d \in Tabs \ {t} : task'[d] = task[d]
  BY QuietGoto DEF Start, TaskPC
<1>2. ending' = ending /\ notices' = notices
  BY DEF Start, toldVars
<1>3. \A s : GoneTell(s)' = GoneTell(s)
  BY <1>2 DEF GoneTell
<1>4. CASE ~NoOpenSession
  BY <1>1, <1>2, <1>3, <1>4, QuietKeepsTold DEF Start
<1>5. CASE NoOpenSession
  <2>1. ASSUME NEW s \in Ids PROVE Tellers(s)' = Tellers(s)
    <3>1. \A d \in Tabs : TellsAs(task'[d], s) <=> TellsAs(task[d], s)
      BY <1>1 DEF TellsAs
    <3> QED
      BY <1>3, <3>1, SameTellers
  <2> PICK n \in Nat : n = Len(sessions) + 1
    BY DEF Consent, TypeOK
  <2>2. /\ DOMAIN sessions' = DOMAIN sessions \cup {n}
        /\ \A r \in DOMAIN sessions : sessions'[r] = sessions[r]
        /\ sessions'[n].open = TRUE
        /\ n \in Ids /\ n \notin DOMAIN sessions /\ DOMAIN sessions \subseteq Ids
    <3>1. sessions \in Seq(Session) /\ Len(sessions) \in Nat /\ MaxSessions \in Nat
          /\ DOMAIN sessions = 1..Len(sessions)
      BY DEF Consent, TypeOK
    <3>2. /\ Len(sessions') = Len(sessions) + 1 /\ Len(sessions') <= MaxSessions
          /\ DOMAIN sessions' = DOMAIN sessions \cup {n}
          /\ \A r \in DOMAIN sessions : sessions'[r] = sessions[r]
          /\ sessions'[n] = [controller |-> task[t].peer, sharer |-> Owner[t], open |-> TRUE]
      BY <1>5, StartAdds
    <3>3. n \in Ids /\ n \notin DOMAIN sessions /\ DOMAIN sessions \subseteq Ids
      BY <3>1, <3>2 DEF Ids
    <3> QED
      BY <3>2, <3>3
  <2>3. ToldAs(n, TRUE, notices'[n], Tellers(n)')
    <3>1. Tellers(n)' = {} /\ notices'[n] = 0
      BY <1>2, <2>1, <2>2, NoTellersYet DEF Told, Ids
    <3> QED
      BY <3>1 DEF ToldAs
  <2>4. ASSUME NEW s \in DOMAIN sessions'
        PROVE  ToldAs(s, sessions'[s].open, notices'[s], Tellers(s)')
    <3>1. CASE s = n
      BY <2>2, <2>3, <3>1
    <3>2. CASE s \in DOMAIN sessions
      BY <1>2, <2>1, <2>2, <3>2 DEF Told
    <3> QED
      BY <2>2, <3>1, <3>2
  <2>5. \A s \in Ids \ DOMAIN sessions' : notices'[s] = 0
    BY <1>2, <2>2 DEF Told
  <2> QED
    BY <2>4, <2>5 DEF Told
<1> QED
  BY <1>4, <1>5

(* The one that closed an open session is the one that will tell of it.    *)
LEMMA EndKeepsTold ==
    ASSUME Consent, Told, NEW s \in OpenIds, End(s), notices' = notices,
           NEW x, Tellers(s)' = Tellers(s) \cup {x},
           \A r \in DOMAIN sessions \ {s} : Tellers(r)' = Tellers(r)
    PROVE  Told'
<1>1. s \in DOMAIN sessions /\ sessions[s].open /\ TypeOK
  BY DEF OpenIds, Consent
<1>2. /\ DOMAIN sessions' = DOMAIN sessions
      /\ \A r \in DOMAIN sessions : sessions'[r].open = (sessions[r].open /\ r # s)
  BY <1>1, EndKeeps
<1>3. notices[s] = 0 /\ Tellers(s)' = {x} /\ ~sessions'[s].open
  BY <1>1, <1>2 DEF Told, ToldAs
<1>4. ToldAs(s, sessions'[s].open, notices'[s], Tellers(s)')
  BY <1>3 DEF ToldAs
<1>5. ASSUME NEW r \in DOMAIN sessions, r # s
      PROVE  ToldAs(r, sessions'[r].open, notices'[r], Tellers(r)')
  <2>1. sessions'[r].open = sessions[r].open
    <3>1. sessions \in Seq(Session) /\ r \in 1..Len(sessions)
      BY <1>1 DEF TypeOK
    <3>2. sessions[r] \in Session
      BY <3>1
    <3> QED
      BY <1>2, <1>5, <3>2 DEF Session
  <2> QED
    BY <1>5, <2>1 DEF Told
<1> QED
  BY <1>2, <1>4, <1>5 DEF Told

LEMMA EndsOrFinishKeepsTold ==
    ASSUME Consent, Told, NEW t \in Tabs, NEW found, found \subseteq OpenIds,
           EndsOrFinish(t, found), task[t].pc # "telling", ending' = ending, notices' = notices
    PROVE  Told'
<1>1. \A r : GoneTell(r)' = GoneTell(r)
  BY DEF GoneTell
<1>2. CASE found = {} /\ Finish(t) /\ UNCHANGED sessions
  BY <1>1, <1>2, QuietFinish, QuietKeepsTold
<1>3. ASSUME NEW s \in found, End(s),
             task' = [task EXCEPT ![t].pc = "telling", ![t].sess = s]
      PROVE  Told'
  <2>1. /\ task'[t].pc = "telling" /\ task'[t].sess = s
        /\ \A d \in Tabs \ {t} : task'[d] = task[d]
    BY <1>3 DEF Consent, TypeOK
  <2>2. ASSUME NEW r \in DOMAIN sessions \ {s} PROVE Tellers(r)' = Tellers(r)
    <3>1. \A d \in Tabs : TellsAs(task'[d], r) <=> TellsAs(task[d], r)
      BY <2>1 DEF TellsAs
    <3> QED
      BY <1>1, <3>1, SameTellers
  <2>3. Tellers(s)' = Tellers(s) \cup {<<"tab", t>>}
    <3>1. {d \in Tabs : task'[d].pc = "telling" /\ task'[d].sess = s}
            = {d \in Tabs : task[d].pc = "telling" /\ task[d].sess = s} \cup {t}
      BY <2>1
    <3>2. {e \in ending' : e.sess = s} = {e \in ending : e.sess = s}
      OBVIOUS
    <3> QED
      BY <3>1, <3>2, Zenon DEF Tellers
  <2> QED
    BY <1>3, <2>2, <2>3, EndKeepsTold
<1> QED
  BY <1>2, <1>3 DEF EndsOrFinish

(* The notice goes out once its teller is the only one left.               *)
LEMMA NoticeKeepsTold ==
    ASSUME Consent, Told, NEW s \in DOMAIN sessions, Notify(s), sessions' = sessions,
           NEW x \in Tellers(s), Tellers(s)' = Tellers(s) \ {x},
           \A r \in DOMAIN sessions \ {s} : Tellers(r)' = Tellers(r)
    PROVE  Told'
<1>1. s \in Ids /\ DOMAIN sessions \subseteq Ids /\ notices \in [Ids -> Nat]
  BY DEF Consent, TypeOK, Ids
<1>2. ~sessions[s].open /\ notices[s] = 0 /\ Tellers(s) = {x}
  BY DEF Told, ToldAs
<1>3. notices'[s] = 1 /\ Tellers(s)' = {} /\ \A r \in Ids \ {s} : notices'[r] = notices[r]
  BY <1>1, <1>2 DEF Notify
<1>4. ToldAs(s, sessions'[s].open, notices'[s], Tellers(s)')
  BY <1>2, <1>3 DEF ToldAs
<1>5. ASSUME NEW r \in DOMAIN sessions, r # s
      PROVE  ToldAs(r, sessions'[r].open, notices'[r], Tellers(r)')
  BY <1>1, <1>3, <1>5 DEF Told
<1> QED
  BY <1>1, <1>3, <1>4, <1>5 DEF Told

LEMMA TellKeepsTold ==
    ASSUME Consent, Told, NEW t \in Tabs, Tell(t)
    PROVE  Told'
<1> PICK s \in DOMAIN sessions : s = task[t].sess
  BY DEF Consent, Peers, HandlersFit, Fits, Tell
<1>1. task[t].pc = "telling" /\ task[t].sess = s /\ Notify(s) /\ sessions' = sessions
      /\ ending' = ending
  BY DEF Tell
<1>2. task'[t].pc # "telling" /\ \A d \in Tabs \ {t} : task'[d] = task[d]
  BY QuietFinish DEF Tell
<1>3. ASSUME NEW r \in DOMAIN sessions \ {s} PROVE Tellers(r)' = Tellers(r)
  <2>1. \A d \in Tabs : TellsAs(task'[d], r) <=> TellsAs(task[d], r)
    BY <1>1, <1>2 DEF TellsAs
  <2>2. GoneTell(r)' = GoneTell(r)
    BY <1>1 DEF GoneTell
  <2> QED
    BY <2>1, <2>2, SameTellers
<1>4. <<"tab", t>> \in Tellers(s) /\ Tellers(s)' = Tellers(s) \ {<<"tab", t>>}
  <2>1. {d \in Tabs : task'[d].pc = "telling" /\ task'[d].sess = s}
          = {d \in Tabs : task[d].pc = "telling" /\ task[d].sess = s} \ {t}
    BY <1>1, <1>2
  <2>2. {e \in ending' : e.sess = s} = {e \in ending : e.sess = s}
    BY <1>1
  <2>3. \A e : <<"tab", t>> # <<"task", e>>
    OBVIOUS
  <2>4. <<"tab", t>> \in Tellers(s)
    BY <1>1 DEF Tellers
  <2>5. ASSUME NEW x PROVE x \in Tellers(s)' <=> x \in Tellers(s) \ {<<"tab", t>>}
    BY <2>1, <2>2, <2>3 DEF Tellers
  <2> QED
    BY <2>4, <2>5
<1> QED
  BY <1>1, <1>3, <1>4, NoticeKeepsTold

LEMMA GoneStepKeepsTold ==
    ASSUME Consent, Told, NEW g \in ending, EndForGone(g) \/ TellForGone(g)
    PROVE  Told'
<1>0. g \in Ending /\ ending \subseteq Ending /\ task' = task
  BY DEF Consent, TypeOK, EndForGone, TellForGone
<1>1. ASSUME NEW s \in OpenOf(g.user), g.sess = 0, End(s), notices' = notices,
             ending' = (ending \ {g}) \cup {[g EXCEPT !.sess = s]}
      PROVE  Told'
  <2>1. s \in OpenIds /\ s \in DOMAIN sessions /\ s \in Nat \ {0}
        /\ DOMAIN sessions \subseteq Nat \ {0}
    BY DEF OpenOf, OpenIds, Consent, TypeOK
  <2> PICK h : h = [g EXCEPT !.sess = s]
    OBVIOUS
  <2>2. h.sess = s /\ ending' = (ending \ {g}) \cup {h}
    BY <1>0, <1>1 DEF Ending
  <2>3. ASSUME NEW r \in DOMAIN sessions \ {s} PROVE Tellers(r)' = Tellers(r)
    <3>1. {e \in ending' : e.sess = r} = {e \in ending : e.sess = r}
      BY <1>1, <2>1, <2>2
    <3> QED
      BY <1>0, <3>1, SameTellers DEF GoneTell
  <2>4. Tellers(s)' = Tellers(s) \cup {<<"task", h>>}
    <3>1. {e \in ending' : e.sess = s} = {e \in ending : e.sess = s} \cup {h}
      BY <1>1, <2>1, <2>2
    <3> QED
      BY <1>0, <3>1, Zenon DEF Tellers
  <2> QED
    BY <1>1, <2>1, <2>3, <2>4, EndKeepsTold
<1>2. ASSUME g.sess = 0, ending' = ending \ {g}, sessions' = sessions, notices' = notices
      PROVE  Told'
  <2>1. ASSUME NEW r \in DOMAIN sessions PROVE Tellers(r)' = Tellers(r)
    <3>0. r # 0
      BY DEF Consent, TypeOK
    <3>1. {e \in ending' : e.sess = r} = {e \in ending : e.sess = r}
      BY <1>2, <3>0
    <3> QED
      BY <1>0, <3>1, SameTellers DEF GoneTell
  <2> QED
    BY <1>2, <2>1 DEF Told
<1>3. CASE TellForGone(g)
  <2> PICK s \in DOMAIN sessions : s = g.sess
    BY <1>3 DEF Consent, Peers, GoneFit, TellForGone
  <2>1. Notify(s) /\ sessions' = sessions /\ ending' = ending \ {g}
    BY <1>3 DEF TellForGone
  <2>2. ASSUME NEW r \in DOMAIN sessions \ {s} PROVE Tellers(r)' = Tellers(r)
    <3>1. {e \in ending' : e.sess = r} = {e \in ending : e.sess = r}
      BY <2>1
    <3> QED
      BY <1>0, <3>1, SameTellers DEF GoneTell
  <2>3. <<"task", g>> \in Tellers(s) /\ Tellers(s)' = Tellers(s) \ {<<"task", g>>}
    <3>1. {e \in ending' : e.sess = s} = {e \in ending : e.sess = s} \ {g}
      BY <2>1
    <3>2. \A d : <<"task", g>> # <<"tab", d>>
      OBVIOUS
    <3>3. <<"task", g>> \in Tellers(s)
      BY DEF Tellers
    <3>4. ASSUME NEW x PROVE x \in Tellers(s)' <=> x \in Tellers(s) \ {<<"task", g>>}
      BY <1>0, <3>1, <3>2 DEF Tellers
    <3> QED
      BY <3>3, <3>4
  <2> QED
    BY <2>1, <2>2, <2>3, NoticeKeepsTold
<1> QED
  BY <1>1, <1>2, <1>3 DEF EndForGone, toldVars

(* The frames of control that close nothing and tell nothing: the handler  *)
(* moves on, or is done.                                                   *)
LEMMA QuietControl ==
    ASSUME Consent, NEW t \in Tabs, ControlStep(t), ~Start(t), ~Revoke(t), ~Tell(t)
    PROVE  /\ \A d \in Tabs \ {t} : task'[d] = task[d]
           /\ task[t].pc # "telling" /\ task'[t].pc # "telling"
           /\ ending' = ending /\ sessions' = sessions /\ notices' = notices
<1>0. task \in [Tabs -> Task]
  BY DEF Consent, TypeOK, Task
<1>1. ending' = ending /\ sessions' = sessions /\ notices' = notices
  BY DEF ControlStep, Frame, GiveUp, PickSharer, BusyCheck, ClaimCheck, DropExpired,
     ClaimInsert, TakeCheck, Take, TakeMissed, GrantCheck, RelayGrant, LabelOn, toldVars
<1>2. task[t].pc # "telling"
  BY DEF ControlStep, Frame, GiveUp, PickSharer, BusyCheck, ClaimCheck, DropExpired,
     ClaimInsert, TakeCheck, Take, TakeMissed, GrantCheck, RelayGrant, LabelOn, IdleTask
<1>3. /\ \A d \in Tabs \ {t} : task'[d] = task[d]
      /\ task'[t].pc # "telling"
  <2>1. CASE \E kind \in Kinds \ {"none"} : Frame(t, kind)
    BY <1>0, <2>1 DEF Frame
  <2>2. CASE PickSharer(t)
    BY <1>0, <2>2 DEF PickSharer
  <2>3. CASE Take(t)
    <3>1. CASE task' = [task EXCEPT ![t].pc = "vetting", ![t].peer = pending.from]
      <4> PICK asker : asker = pending.from
        OBVIOUS
      <4>1. task' = [task EXCEPT ![t].pc = "vetting", ![t].peer = asker]
        BY <3>1
      <4> QED
        BY <1>0, <4>1
    <3>2. CASE Finish(t)
      BY <3>2, QuietFinish
    <3> QED
      BY <2>3, <3>1, <3>2 DEF Take
  <2>4. CASE GiveUp(t) \/ ClaimInsert(t) \/ TakeMissed(t) \/ LabelOn(t)
    BY <2>4, QuietFinish DEF GiveUp, ClaimInsert, TakeMissed, LabelOn
  <2>5. CASE BusyCheck(t) \/ DropExpired(t) \/ GrantCheck(t) \/ RelayGrant(t)
    BY <2>5, QuietFinish, QuietGoto
       DEF BusyCheck, DropExpired, GrantCheck, RelayGrant, TaskPC
  <2>6. CASE ClaimCheck(t)
    <3>1. Goto(t, "inserting") \/ Goto(t, "expiring") \/ Finish(t)
      BY <2>6 DEF ClaimCheck
    <3> QED
      BY <3>1, QuietFinish, QuietGoto DEF TaskPC
  <2>7. CASE TakeCheck(t)
    BY <2>7, QuietGoto DEF TakeCheck, TaskPC
  <2> QED
    BY <2>1, <2>2, <2>3, <2>4, <2>5, <2>6, <2>7 DEF ControlStep
<1> QED
  BY <1>1, <1>2, <1>3

LEMMA CallStepKeepsTold ==
    ASSUME Consent, Told, NEW t \in Tabs, CallStep(t)
    PROVE  Told'
<1>0. task \in [Tabs -> Task] /\ DOMAIN sessions \subseteq Nat \ {0}
  BY DEF Consent, TypeOK, Task
<1>1. CASE ShareEnd(t)
  <2>1. OpenBySharer(Owner[t]) \subseteq OpenIds
    BY DEF OpenBySharer
  <2> QED
    BY <1>1, <2>1, EndsOrFinishKeepsTold DEF ShareEnd, toldVars
<1>2. CASE ShareStop(t)
  <2>1. task[t].pc # "telling" /\ task'[t].pc # "telling"
        /\ \A d \in Tabs \ {t} : task'[d] = task[d]
    BY <1>2, QuietGoto DEF ShareStop, TaskPC, IdleTask
  <2>2. \A s : GoneTell(s)' = GoneTell(s)
    BY <1>2 DEF ShareStop, GoneTell
  <2> QED
    BY <1>2, <2>1, <2>2, QuietKeepsTold DEF ShareStop, toldVars
<1>3. CASE JoinCall(t) \/ ShareStart(t)
  <2>1. task[t].pc # "telling" /\ task' = task
    BY <1>3 DEF JoinCall, ShareStart, IdleTask
  <2>2. \A s : GoneTell(s)' = GoneTell(s)
    BY <1>3 DEF JoinCall, ShareStart, GoneTell
  <2> QED
    BY <1>3, <2>1, <2>2, QuietKeepsTold DEF JoinCall, ShareStart, toldVars
<1>4. ASSUME NEW why \in SUBSET {"left", "dropped"}, Leave(t, why) PROVE Told'
  <2>1. task[t].pc # "telling" /\ task' = task
    BY <1>4 DEF Leave, IdleTask
  <2>2. ASSUME NEW s \in DOMAIN sessions PROVE GoneTell(s)' = GoneTell(s)
    <3> DEFINE Left == {[user |-> Owner[t], why |-> w, sess |-> 0] : w \in why}
    <3>1. \A e \in Left : e.sess # s
      BY <1>0
    <3>2. ending' = ending \/ ending' = ending \cup Left
      BY <1>4 DEF Leave
    <3> HIDE DEF Left
    <3> QED
      BY <3>1, <3>2 DEF GoneTell
  <2> QED
    BY <1>4, <2>1, <2>2, QuietKeepsTold DEF Leave, toldVars
<1> QED
  BY <1>1, <1>2, <1>3, <1>4 DEF CallStep, LeaveCall, Disconnect

LEMMA ToldStep ==
    ASSUME Consent, Told, [Next]_vars
    PROVE  Told'
<1>1. ASSUME task' = task, ending' = ending, sessions' = sessions, notices' = notices
      PROVE  Told'
  <2>1. ASSUME NEW s PROVE Tellers(s)' = Tellers(s)
    BY <1>1 DEF Tellers
  <2> QED
    BY <1>1, <2>1 DEF Told
<1>2. ASSUME NEW t \in Tabs, ControlStep(t) PROVE Told'
  <2>1. CASE Start(t)
    BY <2>1, StartKeepsTold
  <2>2. CASE Revoke(t)
    <3>1. OpenOf(Owner[t]) \subseteq OpenIds
      BY DEF OpenOf
    <3> QED
      BY <2>2, <3>1, EndsOrFinishKeepsTold DEF Revoke, toldVars
  <2>3. CASE Tell(t)
    BY <2>3, TellKeepsTold
  <2>4. CASE ~Start(t) /\ ~Revoke(t) /\ ~Tell(t)
    <3>1. /\ \A d \in Tabs \ {t} : task'[d] = task[d]
          /\ task[t].pc # "telling" /\ task'[t].pc # "telling"
          /\ ending' = ending /\ sessions' = sessions /\ notices' = notices
      BY <1>2, <2>4, QuietControl
    <3>2. \A s : GoneTell(s)' = GoneTell(s)
      BY <3>1 DEF GoneTell
    <3> QED
      BY <3>1, <3>2, QuietKeepsTold
  <2> QED
    BY <2>1, <2>2, <2>3, <2>4
<1> QED
  BY <1>1, <1>2, CallStepKeepsTold, GoneStepKeepsTold DEF Next, Expire, vars, toldVars

LEMMA ToldInit == Init => Told
BY DEF Init, Told

(* Each session that ended is told once, by the one task that ended it, for *)
(* any number of revokes, share stops, departures and lost connections that *)
(* race for it (end_session_for_participant and end_session_by_sharer       *)
(* return the row they closed, and only its closer speaks).                 *)
THEOREM ToldOnceForever == Spec => []ToldOnce
BY ConsentInv, ToldInit, ToldStep, ToldGives, PTL DEF Spec

-------------------------------------------------------------------------------
(* Where no grant crosses another grant or an ending, what the parties were    *)
(* told, what the tiles show and the open row agree.                           *)

(* A task closed session s and has yet to tell. *)
Untold(s) ==
    \/ \E t \in Tabs : task[t].pc = "telling" /\ task[t].sess = s
    \/ \E g \in ending : g.sess = s

(* A party was or is shown session s: it is open, or its end is untold. *)
Showing(s) == s \in DOMAIN sessions /\ (sessions[s].open \/ Untold(s))

(* A grant is between two users who are in the call, and it opens or       *)
(* announces the one open session.                                         *)
GrantFits(t) ==
    /\ InCall(Owner[t])
    /\ task[t].pc \in {"vetting", "starting"} => InCall(task[t].peer)
    /\ task[t].pc = "starting" => OpenIds = {}
    /\ task[t].pc \in {"granted", "labelling"} =>
          \E s \in OpenIds :
             sessions[s].controller = task[t].peer /\ sessions[s].sharer = Owner[t]

OneGrant == \A t, d \in GrantsUnderWay : t = d
GrantsFit == \A t \in GrantsUnderWay : GrantFits(t)
SharersAreHere == \A u \in sharing : InCall(u)

(* A party of an open session is in the call, or the task it left behind   *)
(* is about to end the session.                                            *)
PartiesAreHere ==
    \A s \in OpenIds : \A u \in {sessions[s].controller, sessions[s].sharer} :
        InCall(u) \/ \E g \in ending : g.user = u /\ g.sess = 0

(* A session opens only after the end of the last one was told. *)
EndedWasTold ==
    OpenIds # {} => /\ \A t \in Tabs : task[t].pc # "telling"
                    /\ \A g \in ending : g.sess = 0

(* Nobody is shown more than that, and the parties of the open session are *)
(* shown it once its grant has been through.                               *)
RecordsFit ==
    /\ \A u \in told : \E s : Showing(s) /\ sessions[s].controller = u
    /\ \A u \in labelled : \E s : Showing(s) /\ sessions[s].sharer = u
    /\ \A s \in OpenIds :
          /\ \/ sessions[s].controller \in told
             \/ \E t \in Tabs : task[t].pc = "granted"
          /\ \/ sessions[s].sharer \in labelled
             \/ \E t \in Tabs : task[t].pc \in {"granted", "labelling"}

Settling ==
    /\ OneSession /\ OneGrant /\ GrantsFit /\ SharersAreHere /\ PartiesAreHere
    /\ EndedWasTold /\ RecordsFit

LEMMA SettlingInit == Init => Settling
<1> SUFFICES ASSUME Init
             PROVE  Settling
  OBVIOUS
<1>1. OpenIds = {} /\ GrantsUnderWay = {}
  BY DEF Init, OpenIds, GrantsUnderWay, IdleTask
<1> QED
  BY <1>1 DEF Init, Settling, OneSession, OneGrant, GrantsFit, SharersAreHere,
              PartiesAreHere, EndedWasTold, RecordsFit

LEMMA SettledAtRest ==
    ASSUME Consent, Settling, AtRest
    PROVE  /\ told = {sessions[s].controller : s \in OpenIds}
           /\ labelled = {sessions[s].sharer : s \in OpenIds}
           /\ \A s \in OpenIds :
                 InCall(sessions[s].controller) /\ InCall(sessions[s].sharer)
<1>1. ending = {} /\ \A t \in Tabs : task[t].pc = "idle"
  BY DEF AtRest, IdleTask
<1>2. \A s : Showing(s) => s \in OpenIds
  BY <1>1 DEF Showing, Untold, OpenIds
<1>3. \A s \in OpenIds : sessions[s].controller \in told /\ sessions[s].sharer \in labelled
  BY <1>1 DEF Settling, RecordsFit
<1>4. /\ \A u \in told : \E s \in OpenIds : sessions[s].controller = u
      /\ \A u \in labelled : \E s \in OpenIds : sessions[s].sharer = u
  BY <1>2 DEF Settling, RecordsFit
<1>5. \A s \in OpenIds :
         InCall(sessions[s].controller) /\ InCall(sessions[s].sharer)
  BY <1>1 DEF Settling, PartiesAreHere
<1> QED
  BY <1>3, <1>4, <1>5

(* A step of one handler starts no second grant unseen. *)
LEMMA OneGrantStays ==
    ASSUME OneGrant, ~Crossing', NEW t \in Tabs,
           \A d \in Tabs \ {t} : task'[d] = task[d]
    PROVE  OneGrant'
<1> SUFFICES ASSUME NEW d \in GrantsUnderWay', NEW e \in GrantsUnderWay', d # e
             PROVE  FALSE
  BY DEF OneGrant
<1>1. \A x \in GrantsUnderWay' \ {t} : x \in GrantsUnderWay
  BY DEF GrantsUnderWay
<1>2. GrantsUnderWay' = {d} \cup {e}
  BY <1>1 DEF OneGrant
<1>3. Cardinality({d} \cup {e}) = 2
  <2>1. IsFiniteSet({d}) /\ Cardinality({d}) = 1
    BY FS_Singleton
  <2>2. Cardinality({d} \cup {e}) = Cardinality({d}) + 1
    BY <2>1, FS_AddElement
  <2> QED
    BY <2>1, <2>2
<1>4. Cardinality(GrantsUnderWay') > 1
  BY <1>2, <1>3
<1> QED
  BY <1>4 DEF Crossing

(* A step that leaves the sessions and what the parties see alone, of a    *)
(* handler that neither announces nor tells.                               *)
LEMMA QuietSettles ==
    ASSUME Settling, ~Crossing', NEW t \in Tabs,
           UNCHANGED <<sessions, ending, told, labelled>>,
           \A d \in Tabs \ {t} : task'[d] = task[d],
           task[t].pc \notin {"granted", "labelling", "telling"},
           task'[t].pc \notin {"granted", "labelling", "telling"},
           \A u \in Users : InCall(u) => InCall(u)',
           \A u \in sharing' : InCall(u)',
           t \in GrantsUnderWay' => GrantFits(t)',
           Consent
    PROVE  Settling'
<1>1. OpenIds' = OpenIds /\ OneSession'
  BY DEF OpenIds, Settling, OneSession
<1>2. OneGrant'
  BY OneGrantStays DEF Settling
<1>3. GrantsFit'
  <2>1. SUFFICES ASSUME NEW d \in GrantsUnderWay', d # t
                 PROVE  GrantFits(d)'
    BY DEF GrantsFit
  <2>2. d \in Tabs /\ task'[d] = task[d] /\ d \in GrantsUnderWay /\ GrantFits(d)
    BY <2>1 DEF GrantsUnderWay, Settling, GrantsFit
  <2>3. /\ Owner[d] \in Users
        /\ task[d].pc \in {"vetting", "starting"} => task[d].peer \in Users
    BY <2>2, ControlAssumption DEF Consent, Peers, HandlersFit, Fits
  <2> QED
    BY <1>1, <2>2, <2>3 DEF GrantFits
<1>4. \A s \in OpenIds : sessions[s].controller \in Users /\ sessions[s].sharer \in Users
  BY DEF OpenIds, Consent, TypeOK, Session
<1>5. PartiesAreHere'
  BY <1>1, <1>4 DEF Settling, PartiesAreHere
<1>6. EndedWasTold'
  BY <1>1 DEF Settling, EndedWasTold
<1>7. \A s : Showing(s) => Showing(s)'
  BY DEF Showing, Untold
<1>8. RecordsFit'
  <2>1. /\ \A u \in told' : \E s : Showing(s)' /\ sessions'[s].controller = u
        /\ \A u \in labelled' : \E s : Showing(s)' /\ sessions'[s].sharer = u
    BY <1>7 DEF Settling, RecordsFit
  <2>2. \A s \in OpenIds' :
          /\ \/ sessions'[s].controller \in told'
             \/ \E d \in Tabs : task'[d].pc = "granted"
          /\ \/ sessions'[s].sharer \in labelled'
             \/ \E d \in Tabs : task'[d].pc \in {"granted", "labelling"}
    BY <1>1 DEF Settling, RecordsFit
  <2> QED
    BY <2>1, <2>2 DEF RecordsFit
<1> QED
  BY <1>1, <1>2, <1>3, <1>5, <1>6, <1>8 DEF Settling, SharersAreHere

(* A step of the huddle that only moves its handler on. *)
LEMMA ControlSettles ==
    ASSUME Consent, Settling, ~Crossing', NEW t \in Tabs, ControlStep(t),
           ~Start(t), ~RelayGrant(t), ~LabelOn(t), ~Revoke(t), ~Tell(t)
    PROVE  Settling'
<1> USE ControlAssumption
<1>0. task \in [Tabs -> Task]
  BY DEF Consent, TypeOK, Task
<1>1. UNCHANGED <<joined, sharing, sessions, ending, told, labelled>>
  BY DEF ControlStep, Frame, GiveUp, PickSharer, BusyCheck, ClaimCheck, DropExpired,
         ClaimInsert, TakeCheck, Take, TakeMissed, GrantCheck, hubVars, toldVars
<1>2. \A d \in Tabs \ {t} : task'[d] = task[d]
  BY <1>0 DEF ControlStep, Frame, GiveUp, PickSharer, BusyCheck, ClaimCheck, DropExpired,
              ClaimInsert, TakeCheck, Take, TakeMissed, GrantCheck, Goto, Finish
<1>3. task[t].pc \notin {"granted", "labelling", "telling"}
  BY DEF ControlStep, Frame, GiveUp, PickSharer, BusyCheck, ClaimCheck, DropExpired,
         ClaimInsert, TakeCheck, Take, TakeMissed, GrantCheck, IdleTask
<1>4. OpenIds' = OpenIds /\ \A u : InCall(u)' = InCall(u)
  BY <1>1 DEF OpenIds, InCall
<1>5. /\ task'[t].pc \notin {"granted", "labelling", "telling"}
      /\ t \in GrantsUnderWay' => GrantFits(t)'
  <2>1. CASE TakeCheck(t)
    <3>1. Owner[t] \in sharing /\ task'[t].pc \in {"expiring", "taking"}
      BY <1>0, <2>1 DEF TakeCheck, Goto, Task
    <3>2. InCall(Owner[t])
      BY <3>1 DEF Settling, SharersAreHere
    <3> QED
      BY <1>4, <3>1, <3>2 DEF GrantFits
  <2>2. CASE Take(t)
    <3>1. \/ task'[t].pc = "idle"
          \/ /\ task[t].pc = "taking" /\ task[t].kind = "grant" /\ InCall(pending.from)
             /\ task'[t].pc = "vetting" /\ task'[t].peer = pending.from
      BY <1>0, <2>2 DEF Take, Finish, IdleTask, Task
    <3>2. CASE task'[t].pc = "idle"
      BY <3>2 DEF GrantsUnderWay
    <3>3. CASE /\ task[t].pc = "taking" /\ task[t].kind = "grant" /\ InCall(pending.from)
               /\ task'[t].pc = "vetting" /\ task'[t].peer = pending.from
      <4>1. t \in GrantsUnderWay
        BY <3>3 DEF GrantsUnderWay
      <4>2. InCall(Owner[t])
        BY <4>1 DEF Settling, GrantsFit, GrantFits
      <4> QED
        BY <1>4, <3>3, <4>2 DEF GrantFits
    <3> QED
      BY <3>1, <3>2, <3>3
  <2>3. CASE GrantCheck(t)
    <3>1. t \in GrantsUnderWay /\ task[t].pc = "vetting"
      BY <2>3 DEF GrantCheck, GrantsUnderWay
    <3>2. InCall(Owner[t]) /\ InCall(task[t].peer)
      BY <3>1 DEF Settling, GrantsFit, GrantFits
    <3>3. \/ task'[t].pc = "idle"
          \/ OpenIds = {} /\ task'[t].pc = "starting" /\ task'[t].peer = task[t].peer
      BY <1>0, <2>3 DEF GrantCheck, Goto, Finish, IdleTask, Task
    <3> QED
      BY <1>4, <3>2, <3>3 DEF GrantFits, GrantsUnderWay
  <2>4. CASE ~TakeCheck(t) /\ ~Take(t) /\ ~GrantCheck(t)
    <3>1. task'[t].pc \in {"gated", "idle", "asking", "claiming", "inserting", "expiring"}
      BY <1>0, <2>4 DEF ControlStep, Frame, GiveUp, PickSharer, BusyCheck, ClaimCheck,
              DropExpired, ClaimInsert, TakeMissed, Goto, Finish, IdleTask, Task
    <3> QED
      BY <3>1 DEF GrantsUnderWay
  <2> QED
    BY <2>1, <2>2, <2>3, <2>4
<1>6. \A u \in sharing' : InCall(u)'
  BY <1>1, <1>4 DEF Settling, SharersAreHere
<1> QED
  BY <1>1, <1>2, <1>3, <1>4, <1>5, <1>6, QuietSettles

(* Where a grant is under way alone, nothing is ending.                    *)
LEMMA GrantIsAlone ==
    ASSUME Settling, ~Crossing, NEW t \in GrantsUnderWay
    PROVE  /\ ending = {} /\ \A d \in Tabs : task[d].pc \notin {"telling", "shareStopped"}
           /\ \A d \in Tabs \ {t} : d \notin GrantsUnderWay
           /\ GrantFits(t) /\ t \in Tabs
<1>1. EndingsUnderWay = {}
  BY DEF Crossing
<1> QED
  BY <1>1 DEF EndingsUnderWay, Settling, OneGrant, GrantsFit, GrantsUnderWay

LEMMA StartSettles ==
    ASSUME Consent, Settling, ~Crossing, NEW t \in Tabs, Start(t)
    PROVE  Settling'
<1> USE ControlAssumption
<1>0. /\ task \in [Tabs -> Task] /\ task[t].pc = "starting" /\ t \in GrantsUnderWay
      /\ UNCHANGED <<joined, sharing, ending, told, labelled>>
      /\ Goto(t, "granted")
  BY DEF Consent, TypeOK, Task, Start, GrantsUnderWay, hubVars, toldVars
<1>1. /\ OpenIds = {} /\ InCall(Owner[t]) /\ InCall(task[t].peer) /\ ending = {}
      /\ \A d \in Tabs : task[d].pc # "telling"
      /\ \A d \in Tabs \ {t} : d \notin GrantsUnderWay
  BY <1>0, GrantIsAlone DEF GrantFits
<1> PICK n : n = Len(sessions) + 1
  OBVIOUS
<1>2. /\ DOMAIN sessions' = DOMAIN sessions \cup {n}
      /\ \A r \in DOMAIN sessions : sessions'[r] = sessions[r]
      /\ sessions'[n] = [controller |-> task[t].peer, sharer |-> Owner[t], open |-> TRUE]
  BY <1>1, StartAdds DEF NoOpenSession
<1>3. OpenIds' = {n}
  BY <1>1, <1>2 DEF OpenIds
<1>4. /\ task'[t].pc = "granted" /\ task'[t].peer = task[t].peer
      /\ \A d \in Tabs \ {t} : task'[d] = task[d]
  BY <1>0 DEF Goto, Task
<1>5. told = {} /\ labelled = {}
  <2>1. \A s : ~Showing(s)
    <3>1. \A s \in DOMAIN sessions : ~sessions[s].open
      BY <1>1 DEF OpenIds
    <3> QED
      BY <1>1, <3>1 DEF Showing, Untold
  <2> QED
    BY <2>1 DEF Settling, RecordsFit
<1>6. \A u : InCall(u)' = InCall(u)
  BY <1>0 DEF InCall
<1>7. GrantsUnderWay' \subseteq {t}
  BY <1>1, <1>4 DEF GrantsUnderWay
<1>8. OneSession' /\ OneGrant' /\ SharersAreHere'
  BY <1>0, <1>3, <1>6, <1>7 DEF OneSession, OneGrant, Settling, SharersAreHere
<1>9. GrantsFit'
  BY <1>1, <1>2, <1>3, <1>4, <1>6, <1>7 DEF GrantsFit, GrantFits
<1>10. PartiesAreHere'
  BY <1>1, <1>2, <1>3, <1>6 DEF PartiesAreHere
<1>11. EndedWasTold'
  BY <1>0, <1>1, <1>4 DEF EndedWasTold
<1>12. RecordsFit'
  BY <1>0, <1>3, <1>4, <1>5 DEF RecordsFit
<1> QED
  BY <1>8, <1>9, <1>10, <1>11, <1>12 DEF Settling

LEMMA AnnounceSettles ==
    ASSUME Consent, Settling, ~Crossing, NEW t \in Tabs, RelayGrant(t) \/ LabelOn(t)
    PROVE  Settling'
<1> USE ControlAssumption
<1>0. /\ task \in [Tabs -> Task] /\ task[t].pc \in {"granted", "labelling"}
      /\ UNCHANGED <<joined, sharing, sessions, ending>>
      /\ t \in GrantsUnderWay
  BY DEF Consent, TypeOK, Task, RelayGrant, LabelOn, GrantsUnderWay, hubVars
<1>1. /\ InCall(Owner[t]) /\ \A d \in Tabs \ {t} : d \notin GrantsUnderWay
      /\ \A d \in Tabs : task[d].pc # "telling"
  BY <1>0, GrantIsAlone DEF GrantFits
<1>2. PICK s \in OpenIds :
         sessions[s].controller = task[t].peer /\ sessions[s].sharer = Owner[t]
  BY <1>0, GrantIsAlone DEF GrantFits
<1>3. /\ \A d \in Tabs \ {t} : task'[d] = task[d]
      /\ \/ /\ task[t].pc = "granted" /\ task'[t].pc = "labelling"
            /\ task'[t].peer = task[t].peer
            /\ told' = told \cup {task[t].peer} /\ labelled' = labelled
         \/ /\ task[t].pc = "labelling" /\ task'[t].pc = "idle"
            /\ told' = told /\ labelled' = labelled \cup {Owner[t]}
  BY <1>0 DEF RelayGrant, LabelOn, Goto, Finish, Task, IdleTask
<1>4. OpenIds' = OpenIds /\ (\A u : InCall(u)' = InCall(u)) /\ OpenIds = {s}
  BY <1>0, <1>2 DEF OpenIds, InCall, Settling, OneSession
<1>5. GrantsUnderWay' \subseteq {t}
  BY <1>1, <1>3 DEF GrantsUnderWay
<1>6. OneSession' /\ OneGrant' /\ SharersAreHere' /\ PartiesAreHere'
  BY <1>0, <1>4, <1>5
     DEF OneSession, OneGrant, Settling, SharersAreHere, PartiesAreHere, OpenIds
<1>7. GrantsFit'
  BY <1>0, <1>1, <1>2, <1>3, <1>4, <1>5 DEF GrantsFit, GrantFits, GrantsUnderWay
<1>8. EndedWasTold'
  BY <1>0, <1>3, <1>4 DEF Settling, EndedWasTold
<1>9. RecordsFit'
  <2>1. \A r : Showing(r) => Showing(r)'
    BY <1>0, <1>3 DEF Showing, Untold
  <2>2. Showing(s)
    BY <1>2 DEF Showing, OpenIds
  <2>3. \A u \in told' : \E r : Showing(r)' /\ sessions'[r].controller = u
    BY <1>0, <1>2, <1>3, <2>1, <2>2 DEF Settling, RecordsFit
  <2>4. \A u \in labelled' : \E r : Showing(r)' /\ sessions'[r].sharer = u
    BY <1>0, <1>2, <1>3, <2>1, <2>2 DEF Settling, RecordsFit
  <2>5. /\ sessions[s].controller \in told'
        /\ sessions[s].sharer \in labelled' \/ task'[t].pc \in {"granted", "labelling"}
    <3>1. CASE task[t].pc = "granted"
      BY <1>2, <1>3, <3>1
    <3>2. CASE task[t].pc = "labelling"
      <4>1. \A d \in Tabs : task[d].pc # "granted"
        BY <1>1, <3>2 DEF GrantsUnderWay
      <4> QED
        BY <1>2, <1>3, <3>2, <4>1 DEF Settling, RecordsFit
    <3> QED
      BY <1>0, <3>1, <3>2
  <2> QED
    BY <1>0, <1>4, <2>3, <2>4, <2>5 DEF RecordsFit
<1> QED
  BY <1>6, <1>7, <1>8, <1>9 DEF Settling

(* Nothing is granted while something is ending. *)
LEMMA EndingsAreAlone ==
    ASSUME ~Crossing, EndingsUnderWay # {}
    PROVE  /\ GrantsUnderWay = {}
           /\ \A d \in Tabs : task[d].pc \notin {"granted", "labelling"}
BY DEF Crossing, GrantsUnderWay

(* The open session is closed by a task that will tell. *)
LEMMA EndSettles ==
    ASSUME Consent, Settling, NEW s \in OpenIds, End(s),
           UNCHANGED <<joined, sharing, told, labelled>>,
           Untold(s)',
           \A r \in DOMAIN sessions : Untold(r) => Untold(r)',
           GrantsUnderWay' = {}
    PROVE  Settling'
<1>1. s \in DOMAIN sessions /\ TypeOK
  BY DEF OpenIds, Consent
<1>2. /\ DOMAIN sessions' = DOMAIN sessions
      /\ \A r \in DOMAIN sessions :
            /\ sessions'[r].controller = sessions[r].controller
            /\ sessions'[r].sharer = sessions[r].sharer
            /\ sessions'[r].open = (sessions[r].open /\ r # s)
  BY <1>1, EndKeeps
<1>3. OpenIds' = {}
  BY <1>2 DEF OpenIds, Settling, OneSession
<1>4. \A r : Showing(r) => Showing(r)'
  <2>1. SUFFICES ASSUME NEW r \in DOMAIN sessions, Showing(r)
                 PROVE  Showing(r)'
    BY DEF Showing
  <2>2. CASE r = s
    BY <1>2, <2>2 DEF Showing
  <2>3. CASE r # s
    BY <1>2, <2>1, <2>3 DEF Showing
  <2> QED
    BY <2>2, <2>3
<1>5. \A r : Showing(r) => r \in DOMAIN sessions
  BY DEF Showing
<1>6. RecordsFit'
  BY <1>2, <1>3, <1>4, <1>5 DEF Settling, RecordsFit
<1> QED
  BY <1>3, <1>6 DEF Settling, OneSession, OneGrant, GrantsFit, SharersAreHere, InCall,
     PartiesAreHere, EndedWasTold

(* The parties of a session that ended are told. *)
LEMMA NoticeSettles ==
    ASSUME Settling, NEW s,
           OpenIds = {}, GrantsUnderWay' = {},
           UNCHANGED <<joined, sharing, sessions>>,
           told' = told \ {sessions[s].controller},
           labelled' = labelled \ {sessions[s].sharer},
           \A r \in DOMAIN sessions \ {s} : Untold(r) => Untold(r)'
    PROVE  Settling'
<1>1. OpenIds' = {}
  BY DEF OpenIds
<1>2. \A r : Showing(r) /\ r # s => Showing(r)'
  BY DEF Showing
<1>3. RecordsFit'
  BY <1>1, <1>2 DEF Settling, RecordsFit
<1> QED
  BY <1>1, <1>3 DEF Settling, OneSession, OneGrant, GrantsFit, SharersAreHere, InCall,
     PartiesAreHere, EndedWasTold

LEMMA EndsOrFinishSettles ==
    ASSUME Consent, Settling, ~Crossing', NEW t \in Tabs, NEW found,
           found \subseteq OpenIds, EndsOrFinish(t, found),
           task[t].pc \in {"gated", "shareStopped"},
           UNCHANGED <<joined, sharing, ending, told, labelled>>
    PROVE  Settling'
<1>0. task \in [Tabs -> Task]
  BY DEF Consent, TypeOK, Task
<1>1. ASSUME NEW s \in found, End(s),
             task' = [task EXCEPT ![t].pc = "telling", ![t].sess = s]
      PROVE  Settling'
  <2>1. /\ task'[t].pc = "telling" /\ task'[t].sess = s
        /\ \A d \in Tabs \ {t} : task'[d] = task[d]
    BY <1>0, <1>1 DEF Task
  <2>2. (EndingsUnderWay # {})'
    BY <2>1 DEF EndingsUnderWay
  <2>3. GrantsUnderWay' = {}
    BY <2>2 DEF Crossing
  <2>4. Untold(s)'
    BY <2>1 DEF Untold
  <2>5. \A r \in DOMAIN sessions : Untold(r) => Untold(r)'
    BY <2>1 DEF Untold
  <2>6. s \in OpenIds
    BY <1>1
  <2> QED
    BY <1>1, <2>3, <2>4, <2>5, <2>6, EndSettles
<1>2. CASE found = {} /\ Finish(t) /\ UNCHANGED sessions
  <2>1. /\ task'[t].pc = "idle"
        /\ \A d \in Tabs \ {t} : task'[d] = task[d]
    BY <1>0, <1>2 DEF Finish, IdleTask
  <2>2. \A u : InCall(u)' = InCall(u)
    BY DEF InCall
  <2>3. \A u \in sharing' : InCall(u)'
    BY <2>2 DEF Settling, SharersAreHere
  <2>4. t \notin GrantsUnderWay'
    BY <2>1 DEF GrantsUnderWay
  <2> QED
    BY <1>2, <2>1, <2>2, <2>3, <2>4, QuietSettles
<1> QED
  BY <1>1, <1>2 DEF EndsOrFinish

LEMMA TellSettles ==
    ASSUME Consent, Settling, ~Crossing, NEW t \in Tabs, Tell(t)
    PROVE  Settling'
<1>0. /\ task \in [Tabs -> Task] /\ task[t].pc = "telling" /\ Notify(task[t].sess)
      /\ Finish(t) /\ UNCHANGED <<joined, sharing, sessions, ending>>
  BY DEF Consent, TypeOK, Task, Tell, hubVars
<1>1. task'[t].pc = "idle" /\ \A d \in Tabs \ {t} : task'[d] = task[d]
  BY <1>0 DEF Finish, IdleTask
<1>2. OpenIds = {} /\ EndingsUnderWay # {}
  BY <1>0 DEF Settling, EndedWasTold, EndingsUnderWay
<1>3. GrantsUnderWay' = {}
  BY <1>1, <1>2, EndingsAreAlone DEF GrantsUnderWay
<1>4. \A r \in DOMAIN sessions \ {task[t].sess} : Untold(r) => Untold(r)'
  BY <1>0, <1>1 DEF Untold
<1> QED
  BY <1>0, <1>2, <1>3, <1>4, NoticeSettles DEF Notify

LEMMA GoneSettles ==
    ASSUME Consent, Settling, ~Crossing, ~Crossing', NEW g \in ending,
           EndForGone(g) \/ TellForGone(g)
    PROVE  Settling'
<1>0. /\ EndingsUnderWay # {} /\ UNCHANGED <<joined, sharing, task>>
      /\ 0 \notin DOMAIN sessions /\ g \in Ending
  BY DEF EndingsUnderWay, EndForGone, TellForGone, hubVars, Consent, TypeOK
<1>1. GrantsUnderWay' = {} /\ \A d \in Tabs : task[d].pc \notin {"granted", "labelling"}
  BY <1>0, EndingsAreAlone DEF GrantsUnderWay
<1>2. ASSUME EndForGone(g), NEW s \in OpenOf(g.user), End(s),
             ending' = (ending \ {g}) \cup {[g EXCEPT !.sess = s]}
      PROVE  Settling'
  <2>1. s \in OpenIds /\ g.sess = 0 /\ told' = told /\ labelled' = labelled
    BY <1>2 DEF OpenOf, EndForGone, toldVars
  <2>2. [g EXCEPT !.sess = s].sess = s
    BY <1>0 DEF Ending
  <2>3. Untold(s)'
    BY <1>2, <2>2 DEF Untold
  <2>4. \A r \in DOMAIN sessions : Untold(r) => Untold(r)'
    BY <1>0, <1>2, <2>1 DEF Untold
  <2> QED
    BY <1>0, <1>1, <1>2, <2>1, <2>3, <2>4, EndSettles
<1>3. CASE EndForGone(g) /\ OpenOf(g.user) = {} /\ ending' = ending \ {g} /\ UNCHANGED sessions
  <2>1. /\ OpenIds' = OpenIds /\ g.sess = 0 /\ told' = told /\ labelled' = labelled
        /\ \A u : InCall(u)' = InCall(u)
    BY <1>0, <1>3 DEF OpenIds, EndForGone, toldVars, InCall
  <2>2. PartiesAreHere'
    BY <1>3, <2>1 DEF Settling, PartiesAreHere, OpenOf, Party
  <2>3. EndedWasTold'
    BY <1>0, <1>3, <2>1 DEF Settling, EndedWasTold
  <2>4. \A r : Showing(r) => Showing(r)'
    BY <1>0, <1>3, <2>1 DEF Showing, Untold
  <2>5. RecordsFit'
    BY <1>0, <1>1, <1>3, <2>1, <2>4 DEF Settling, RecordsFit
  <2> QED
    BY <1>0, <1>1, <2>1, <2>2, <2>3, <2>5
       DEF Settling, OneSession, OneGrant, GrantsFit, SharersAreHere
<1>4. CASE TellForGone(g)
  <2>1. OpenIds = {} /\ Notify(g.sess) /\ ending' = ending \ {g} /\ sessions' = sessions
    BY <1>4 DEF TellForGone, Settling, EndedWasTold
  <2>2. \A r \in DOMAIN sessions \ {g.sess} : Untold(r) => Untold(r)'
    BY <1>0, <2>1 DEF Untold
  <2> QED
    BY <1>0, <1>1, <2>1, <2>2, NoticeSettles DEF Notify
<1> QED
  BY <1>2, <1>3, <1>4 DEF EndForGone

LEMMA LeaveSettles ==
    ASSUME Consent, Settling, ~Crossing, ~Crossing', NEW t \in Tabs,
           NEW why \in SUBSET {"left", "dropped"}, "left" \in why, Leave(t, why)
    PROVE  Settling'
<1> USE ControlAssumption
<1> DEFINE last == \A d \in joined \ {t} : Owner[d] # Owner[t]
<1>0. /\ task[t].pc = "idle" /\ joined' = joined \ {t} /\ joined \subseteq Tabs
      /\ UNCHANGED <<sessions, task, told, labelled>>
      /\ OpenIds' = OpenIds
  BY DEF Leave, IdleTask, toldVars, Consent, TypeOK, OpenIds
<1>1. CASE ~last
  <2>1. \A u : InCall(u) => InCall(u)'
    BY <1>0, <1>1 DEF InCall
  <2>2. sharing' = sharing /\ ending' = ending
    BY <1>1 DEF Leave
  <2>3. \A u \in sharing' : InCall(u)'
    BY <2>1, <2>2 DEF Settling, SharersAreHere
  <2>4. t \notin GrantsUnderWay'
    BY <1>0 DEF GrantsUnderWay
  <2>5. /\ \A d \in Tabs \ {t} : task'[d] = task[d]
        /\ task[t].pc \notin {"granted", "labelling", "telling"}
        /\ task'[t].pc \notin {"granted", "labelling", "telling"}
    BY <1>0
  <2> QED
    BY <1>0, <2>1, <2>2, <2>3, <2>4, <2>5, QuietSettles
<1>2. CASE last
  <2> DEFINE Gone == {[user |-> Owner[t], why |-> w, sess |-> 0] : w \in why}
             mark == [user |-> Owner[t], why |-> "left", sess |-> 0]
  <2>1. sharing' = sharing \ {Owner[t]} /\ ending' = ending \cup Gone
    BY <1>2 DEF Leave
  <2>2. /\ mark \in Gone /\ mark.user = Owner[t] /\ mark.sess = 0
        /\ \A e \in Gone : e.sess = 0
    OBVIOUS
  <2>3. \A u : u # Owner[t] /\ InCall(u) => InCall(u)'
    BY <1>0 DEF InCall
  <2> HIDE DEF Gone, mark
  <2>4. (EndingsUnderWay # {})'
    BY <2>1, <2>2 DEF EndingsUnderWay
  <2>5. GrantsUnderWay' = {} /\ \A d \in Tabs : task[d].pc \notin {"granted", "labelling"}
    BY <1>0, <2>4 DEF Crossing, GrantsUnderWay
  <2>6. SharersAreHere'
    BY <2>1, <2>3 DEF Settling, SharersAreHere
  <2>7. PartiesAreHere'
    <3>1. ASSUME NEW s \in OpenIds, NEW u \in {sessions[s].controller, sessions[s].sharer}
          PROVE  InCall(u)' \/ \E g \in ending' : g.user = u /\ g.sess = 0
      <4>1. CASE u = Owner[t]
        BY <2>1, <2>2, <4>1
      <4>2. CASE u # Owner[t]
        <5>1. InCall(u) \/ \E g \in ending : g.user = u /\ g.sess = 0
          BY DEF Settling, PartiesAreHere
        <5> QED
          BY <2>1, <2>3, <4>2, <5>1
      <4> QED
        BY <4>1, <4>2
    <3> QED
      BY <1>0, <3>1 DEF PartiesAreHere
  <2>8. EndedWasTold'
    BY <1>0, <2>1, <2>2 DEF Settling, EndedWasTold
  <2>9. \A r : Showing(r) => Showing(r)'
    BY <1>0, <2>1 DEF Showing, Untold
  <2>10. RecordsFit'
    BY <1>0, <2>5, <2>9 DEF Settling, RecordsFit
  <2> QED
    BY <1>0, <2>5, <2>6, <2>7, <2>8, <2>10
       DEF Settling, OneSession, OneGrant, GrantsFit
<1> QED
  BY <1>1, <1>2

LEMMA CallStepSettles ==
    ASSUME Consent, Settling, ~Crossing, ~Crossing', NEW t \in Tabs, CallStep(t)
    PROVE  Settling'
<1>0. task \in [Tabs -> Task] /\ joined \subseteq Tabs
  BY DEF Consent, TypeOK, Task
<1>1. CASE LeaveCall(t) \/ Disconnect(t)
  BY <1>1, LeaveSettles DEF LeaveCall, Disconnect
<1>2. CASE ShareEnd(t)
  <2>1. OpenBySharer(Owner[t]) \subseteq OpenIds
    BY DEF OpenBySharer
  <2> QED
    BY <1>2, <2>1, EndsOrFinishSettles DEF ShareEnd, hubVars, toldVars
<1>3. CASE JoinCall(t) \/ ShareStart(t) \/ ShareStop(t)
  <2>1. /\ task[t].pc = "idle" /\ task'[t].pc \in {"idle", "shareStopped"}
        /\ \A d \in Tabs \ {t} : task'[d] = task[d]
        /\ UNCHANGED <<sessions, ending, told, labelled>>
    BY <1>0, <1>3 DEF JoinCall, ShareStart, ShareStop, Goto, IdleTask, toldVars
  <2>2. \A u : InCall(u) => InCall(u)'
    BY <1>3 DEF JoinCall, ShareStart, ShareStop, InCall
  <2>3. \A u \in sharing' : u \in sharing \/ InCall(u)
    BY <1>3 DEF JoinCall, ShareStart, ShareStop, InCall
  <2>4. \A u \in sharing' : InCall(u)'
    BY <2>2, <2>3 DEF Settling, SharersAreHere
  <2>5. t \notin GrantsUnderWay'
    BY <2>1 DEF GrantsUnderWay
  <2>6. /\ task[t].pc \notin {"granted", "labelling", "telling"}
        /\ task'[t].pc \notin {"granted", "labelling", "telling"}
    BY <2>1
  <2> QED
    BY <2>1, <2>2, <2>4, <2>5, <2>6, QuietSettles
<1> QED
  BY <1>1, <1>2, <1>3 DEF CallStep

LEMMA RestSettles ==
    ASSUME Settling, UNCHANGED <<joined, sharing, sessions, task, ending, told, labelled>>
    PROVE  Settling'
<1>1. OpenIds' = OpenIds /\ GrantsUnderWay' = GrantsUnderWay
  BY DEF OpenIds, GrantsUnderWay
<1>2. GrantsFit'
  BY <1>1 DEF Settling, GrantsFit, GrantFits, InCall
<1>3. SharersAreHere' /\ PartiesAreHere' /\ EndedWasTold'
  BY <1>1 DEF Settling, SharersAreHere, PartiesAreHere, EndedWasTold, InCall
<1>4. RecordsFit'
  BY <1>1 DEF Settling, RecordsFit, Showing, Untold
<1> QED
  BY <1>1, <1>2, <1>3, <1>4 DEF Settling, OneSession, OneGrant

LEMMA SettlingStep ==
    ASSUME Consent, Settling, ~Crossing, ~Crossing', [Next]_vars
    PROVE  Settling'
<1>1. ASSUME NEW t \in Tabs, ControlStep(t)
      PROVE  Settling'
  <2>1. CASE Revoke(t)
    <3>1. OpenOf(Owner[t]) \subseteq OpenIds
      BY DEF OpenOf
    <3> QED
      BY <2>1, <3>1, EndsOrFinishSettles DEF Revoke, hubVars, toldVars
  <2>2. CASE Start(t) \/ RelayGrant(t) \/ LabelOn(t) \/ Tell(t)
    BY <2>2, StartSettles, AnnounceSettles, TellSettles
  <2> QED
    BY <1>1, <2>1, <2>2, ControlSettles
<1>2. CASE Expire \/ UNCHANGED vars
  BY <1>2, RestSettles DEF Expire, vars, toldVars
<1> QED
  BY <1>1, <1>2, CallStepSettles, GoneSettles DEF Next

(* Where no grant ever crosses another grant or an ending, who was told,   *)
(* whose tile is labelled and which row is open agree whenever the         *)
(* handlers are at rest, and both parties are in the call: the three are   *)
(* written apart by relay_huddle_control_signal and by the four ways a     *)
(* session ends.                                                           *)
THEOREM ConsentIsSettled == Spec => ConsentSettles
<1>1. Consent /\ Settling /\ ~Crossing /\ ~Crossing' /\ [Next]_vars => Settling'
  BY SettlingStep
<1>2. Consent /\ Settling =>
        (AtRest =>
            /\ told = {sessions[s].controller : s \in OpenIds}
            /\ labelled = {sessions[s].sharer : s \in OpenIds}
            /\ \A s \in OpenIds :
                  InCall(sessions[s].controller) /\ InCall(sessions[s].sharer))
  BY SettledAtRest
<1>3. Spec /\ []~Crossing => []Settling
  BY <1>1, ConsentInv, SettlingInit, PTL DEF Spec
<1> QED
  BY <1>2, <1>3, ConsentInv, PTL DEF ConsentSettles

-------------------------------------------------------------------------------
(* What runs beside the huddle, one invariant each.                        *)

InFlight(k) == painting[k].at \in {"check", "load", "send"}
Wording(k) == painting[k].at \in {"load", "send"}
CircleTask ==
    [at: {"none", "missed", "check", "load", "send"},
     value: C!Choices \cup {"idle", "offline", "none"}, seen: BOOLEAN]

(* A broadcast that is due carries a status, and but for a user's own post *)
(* or touch is made for a user who had a tab; a first socket stays until   *)
(* it has announced its user.                                              *)
CircleTasksFit ==
    /\ painting \in [C!Kinds -> CircleTask]
    /\ \A k \in C!Kinds :
          /\ painting[k].at = "check" => painting[k].value \in C!Choices \cup {"idle"}
          /\ painting[k].at = "load" => k \in {"touch", "open"}
          /\ painting[k].at = "send" =>
                /\ painting[k].value \in C!Choices \cup {"idle", "offline"}
                /\ painting[k].seen \/ k \in {"set", "touch"}
    /\ painting["open"].at # "none" => tabs > 0

(* Between broadcasts the circle is right; and whoever has no tab is seen  *)
(* as offline, or is about to be, even where a scanner still has to look.  *)
CircleFollows ==
    /\ (\E k \in C!Kinds : InFlight(k)) \/ shown = C!Effective \/ stale
    /\ tabs = 0 => (\E k \in C!Kinds : Wording(k)) \/ shown = "offline" \/ stale

CircleInv ==
    /\ C!TypeOK /\ CircleTasksFit
    /\ {recent, slipped, stale} \subseteq BOOLEAN
    /\ chosen \in C!Sticky \cup {"none"}
    /\ C!ChoiceIsKept /\ C!IdleMeansQuiet /\ CircleFollows

(* A frame past its checks is of somebody with a tab, who joins or leaves  *)
(* only for themselves.                                                    *)
FramesFit ==
    /\ frame \in [Stagers -> {S!NoFrame} \cup
                      [act: S!SelfActions \cup S!HostActions, target: Stagers]]
    /\ \A u \in Stagers :
          frame[u] = S!NoFrame \/
          (u \in watching /\ (frame[u].act \in S!SelfActions => frame[u].target = u))

StageInv ==
    /\ S!TypeOK /\ FramesFit
    /\ {changed, unrendered, enabled} \subseteq BOOLEAN
    /\ S!FloorWasGranted /\ S!StageIsOfThePresent /\ S!PanelShowsRoster

(* A save typed before the send is refused as long as the guard's window   *)
(* lasts, so it never becomes the row.                                     *)
SavesFit ==
    /\ put \in [Saves -> [at: {"none", "asked", "passed", "saved", "deleted"},
                          body: Texts \cup {NoText}]]
    /\ typed \in [Saves \cup {"row"} -> {"fresh", "before", "unseen"}]
    /\ \A p \in Saves :
          /\ put[p].at = "passed" => typed[p] # "before" /\ put[p].body # NoText
          /\ put[p].at = "asked" /\ typed[p] = "before" => put[p].body \in justSent
    /\ send.at # "sent" => typed["row"] # "before"

(* The pencil is right, or somebody has yet to speak.                      *)
PencilFollows ==
    \/ pencil = (draft # NoText) \/ misled \/ send.at = "cleared"
    \/ \E p \in Saves : put[p].at \in {"saved", "deleted"}

DraftsInv ==
    /\ D!TypeOK /\ SavesFit /\ PencilFollows
    /\ {pencil, misled} \subseteq BOOLEAN

TranslationsInv ==
    /\ X!TypeOK /\ X!CacheIsOfTheBody
    /\ editing \in BOOLEAN
    /\ translating \in [Translators -> [at: {"none", "read", "asking"},
                                        locale: Locales \cup {NoText},
                                        of: (0..MaxEdits) \cup {NoText}]]
    /\ \A q \in Translators : translating[q].at # "none" =>
          translating[q].locale \in Locales /\ translating[q].of \in 0..MaxEdits

-------------------------------------------------------------------------------
(* Translations.                                                           *)

LEMMA TranslationsInit == X!Init => TranslationsInv
<1> SUFFICES ASSUME X!Init PROVE TranslationsInv
  OBVIOUS
<1>1. body \in 0..MaxEdits /\ editing = FALSE /\ cache \in [Locales -> {NoText}]
  BY AsksAssumption DEF X!Init, X!TranslationsAssumption
<1>2. X!TypeOK /\ X!CacheIsOfTheBody
  BY <1>1 DEF X!TypeOK, X!CacheIsOfTheBody, X!Init, X!Idle
<1>3. X!Idle \in [at: {"none", "read", "asking"}, locale: Locales \cup {NoText},
                  of: (0..MaxEdits) \cup {NoText}]
      /\ X!Idle.at = "none"
  BY DEF X!Idle
<1> QED
  BY <1>1, <1>2, <1>3 DEF X!Init, TranslationsInv

LEMMA TranslationsStep ==
    ASSUME TranslationsInv, [X!Next]_translations
    PROVE  TranslationsInv'
<1> USE AsksAssumption DEF X!TranslationsAssumption
<1>0. /\ X!TypeOK /\ X!CacheIsOfTheBody /\ editing \in BOOLEAN
      /\ body \in 0..MaxEdits /\ MaxEdits \in Nat
  BY DEF TranslationsInv, X!TypeOK
<1> DEFINE Asker == [at: {"none", "read", "asking"}, locale: Locales \cup {NoText},
                     of: (0..MaxEdits) \cup {NoText}]
           Right(k) == k.at # "none" => k.locale \in Locales /\ k.of \in 0..MaxEdits
<1>1. translating \in [Translators -> Asker] /\ \A q \in Translators : Right(translating[q])
  BY DEF TranslationsInv
<1>2. ASSUME NEW q \in Translators, NEW k \in Asker, Right(k),
             translating' = [translating EXCEPT ![q] = k]
      PROVE  /\ translating' \in [Translators -> Asker]
             /\ \A r \in Translators : Right(translating'[r]) /\ translating'[r].at \in {"none", "read", "asking"}
  BY <1>1, <1>2
<1>3. X!Idle \in Asker /\ Right(X!Idle)
  BY DEF X!Idle
<1>4. ASSUME NEW q \in Translators, NEW l \in Locales, X!Read(q, l) PROVE TranslationsInv'
  <2>1. [at |-> "read", locale |-> l, of |-> body] \in Asker
        /\ Right([at |-> "read", locale |-> l, of |-> body])
    BY <1>0
  <2> QED
    BY <1>0, <1>2, <1>4, <2>1 DEF X!Read, TranslationsInv, X!TypeOK, X!CacheIsOfTheBody
<1>5. ASSUME NEW q \in Translators, X!Lookup(q) PROVE TranslationsInv'
  <2>3. translating[q] \in Asker /\ Right(translating[q]) /\ translating[q].at = "read"
    BY <1>1, <1>5 DEF X!Lookup
  <2>4. [translating[q] EXCEPT !.at = "asking"] \in Asker
        /\ Right([translating[q] EXCEPT !.at = "asking"])
    BY <2>3
  <2> PICK k \in Asker : k = [translating[q] EXCEPT !.at = "asking"] /\ Right(k)
    BY <2>4
  <2>1. \/ translating' = [translating EXCEPT ![q] = X!Idle]
        \/ translating' = [translating EXCEPT ![q] = k]
    BY <1>1, <1>5 DEF X!Lookup
  <2>2. /\ translating' \in [Translators -> Asker]
        /\ \A r \in Translators : Right(translating'[r]) /\ translating'[r].at \in {"none", "read", "asking"}
    BY <1>2, <1>3, <2>1
  <2> QED
    BY <1>0, <1>5, <2>2 DEF X!Lookup, TranslationsInv, X!TypeOK, X!CacheIsOfTheBody
<1>6. ASSUME NEW q \in Translators, X!Store(q) PROVE TranslationsInv'
  <2>1. /\ translating' \in [Translators -> Asker]
        /\ \A r \in Translators : Right(translating'[r]) /\ translating'[r].at \in {"none", "read", "asking"}
    BY <1>2, <1>3, <1>6 DEF X!Store
  <2> PICK l, v : l = translating[q].locale /\ v = translating[q].of
    OBVIOUS
  <2>2. l \in Locales /\ v \in 0..MaxEdits /\ body' = body /\ editing' = editing
    BY <1>1, <1>6 DEF X!Store
  <2>3. CASE cache' = cache /\ outdated' = outdated
    BY <1>0, <2>1, <2>2, <2>3 DEF TranslationsInv, X!TypeOK, X!CacheIsOfTheBody
  <2>4. CASE /\ cache' = [cache EXCEPT ![l] = v]
             /\ outdated' = IF v # body /\ ~editing THEN outdated \cup {l} ELSE outdated \ {l}
    <3>1. cache' \in [Locales -> 0..MaxEdits \cup {NoText}]
      BY <1>0, <2>2, <2>4 DEF X!TypeOK
    <3>2. X!CacheIsOfTheBody'
      BY <1>0, <2>2, <2>4 DEF X!TypeOK, X!CacheIsOfTheBody
    <3> QED
      BY <1>0, <2>1, <2>2, <3>1, <3>2 DEF TranslationsInv, X!TypeOK
  <2> QED
    BY <1>6, <2>3, <2>4 DEF X!Store
<1>7. CASE X!Edit
  BY <1>0, <1>1, <1>7 DEF X!Edit, TranslationsInv, X!TypeOK, X!CacheIsOfTheBody
<1>8. CASE X!Invalidate
  BY <1>0, <1>1, <1>8 DEF X!Invalidate, X!Dropped, TranslationsInv, X!TypeOK, X!CacheIsOfTheBody
<1>9. CASE UNCHANGED translations
  BY <1>9 DEF translations, TranslationsInv, X!TypeOK, X!CacheIsOfTheBody
<1> QED
  BY <1>4, <1>5, <1>6, <1>7, <1>8, <1>9 DEF X!Next

-------------------------------------------------------------------------------
(* Drafts.                                                                 *)

LEMMA DraftsInit == D!Init => DraftsInv
<1> SUFFICES ASSUME D!Init PROVE DraftsInv
  OBVIOUS
<1>1. D!Idle \in [at: {"none", "asked", "passed", "saved", "deleted"}, body: Texts \cup {NoText}]
      /\ D!Idle.at = "none"
  BY DEF D!Idle
<1>2. SavesFit
  BY <1>1 DEF D!Init, SavesFit
<1>3. D!TypeOK
  BY <1>1 DEF D!Init, D!TypeOK
<1> QED
  BY <1>2, <1>3 DEF D!Init, DraftsInv, PencilFollows

LEMMA DraftsGive == DraftsInv => D!TypeOK /\ D!SentIsNotADraft /\ D!PencilFollowsDraft
BY DEF DraftsInv, SavesFit, PencilFollows, D!SentIsNotADraft, D!PencilFollowsDraft, D!Idle

LEMMA DraftsStep ==
    ASSUME DraftsInv, [D!Next]_drafts
    PROVE  DraftsInv'
<1> USE SavesAssumption DEF D!DraftsAssumption
<1> DEFINE Stages == {"none", "asked", "passed", "saved", "deleted"}
           Entry == [at: Stages, body: Texts \cup {NoText}]
<1>0. /\ D!TypeOK /\ SavesFit /\ PencilFollows /\ pencil \in BOOLEAN /\ misled \in BOOLEAN
      /\ put \in [Saves -> Entry] /\ NoText \notin Texts
      /\ typed \in [Saves \cup {"row"} -> {"fresh", "before", "unseen"}]
      /\ "row" \notin Saves
  BY DEF DraftsInv, SavesFit
<1>1. D!Idle \in Entry /\ D!Idle.at = "none"
  BY DEF D!Idle
<1>13. ASSUME NEW p \in Saves, NEW at \in Stages
       PROVE  \E k \in Entry : k = [put[p] EXCEPT !.at = at]
  <2>1. put[p] \in Entry
    BY <1>0
  <2>2. [put[p] EXCEPT !.at = at] \in Entry
    BY <2>1
  <2> QED
    BY <2>2
<1>2. ASSUME NEW p \in Saves, NEW text \in Texts \cup {NoText}, D!Save(p, text)
      PROVE  DraftsInv'
  <2> PICK k \in Entry : k = [at |-> "asked", body |-> text]
    OBVIOUS
  <2>1. /\ put' = [put EXCEPT ![p] = k] /\ k.at = "asked" /\ put[p].at = "none"
        /\ typed' = [typed EXCEPT ![p] = "fresh"]
        /\ UNCHANGED <<draft, justSent, send, pencil, misled>>
    BY <1>1, <1>2 DEF D!Save
  <2>2. SavesFit'
    BY <1>0, <2>1 DEF SavesFit
  <2>3. PencilFollows'
    BY <1>0, <2>1 DEF PencilFollows
  <2>4. D!TypeOK'
    BY <1>0, <2>1, <2>2 DEF D!TypeOK, SavesFit
  <2> QED
    BY <1>0, <2>1, <2>2, <2>3, <2>4 DEF DraftsInv
<1>3. ASSUME NEW p \in Saves, D!Guard(p) PROVE DraftsInv'
  <2> PICK k \in Entry : k = [put[p] EXCEPT !.at = "passed"]
    BY <1>13
  <2>1. /\ UNCHANGED <<draft, justSent, send, pencil, typed, misled>>
        /\ put[p].at = "asked" /\ k.at = "passed" /\ k.body = put[p].body /\ k.body # NoText
        /\ \/ put' = [put EXCEPT ![p] = D!Idle]
           \/ put' = [put EXCEPT ![p] = k] /\ put[p].body \notin justSent
    BY <1>0, <1>3 DEF D!Guard, D!Refused, D!JustSent
  <2>2. SavesFit'
    BY <1>0, <1>1, <2>1 DEF SavesFit
  <2>3. PencilFollows'
    BY <1>0, <2>1 DEF PencilFollows
  <2>4. D!TypeOK'
    BY <1>0, <2>1, <2>2 DEF D!TypeOK, SavesFit
  <2> QED
    BY <1>0, <2>1, <2>2, <2>3, <2>4 DEF DraftsInv
<1>4. ASSUME NEW p \in Saves, D!Upsert(p) PROVE DraftsInv'
  <2> PICK k \in Entry : k = [put[p] EXCEPT !.at = "saved"]
    BY <1>13
  <2>1. /\ UNCHANGED <<justSent, send, pencil, misled>>
        /\ put[p].at = "passed" /\ draft' = put[p].body /\ draft' \in Texts
        /\ put' = [put EXCEPT ![p] = k] /\ k.at = "saved"
        /\ typed' = [typed EXCEPT !["row"] = typed[p]] /\ typed[p] # "before"
    BY <1>0, <1>4 DEF D!Upsert, SavesFit
  <2>2. SavesFit'
    BY <1>0, <2>1 DEF SavesFit
  <2>3. PencilFollows'
    BY <1>0, <2>1 DEF PencilFollows
  <2>4. D!TypeOK'
    BY <1>0, <2>1, <2>2 DEF D!TypeOK, SavesFit
  <2> QED
    BY <1>0, <2>1, <2>2, <2>3, <2>4 DEF DraftsInv
<1>5. ASSUME NEW p \in Saves, D!SaveEmpty(p) PROVE DraftsInv'
  <2> PICK k \in Entry : k = [put[p] EXCEPT !.at = "deleted"]
    BY <1>13
  <2>1. /\ UNCHANGED <<justSent, send, pencil, misled>>
        /\ put[p].at = "asked" /\ k.at = "deleted" /\ draft' = NoText
        /\ \/ put' = [put EXCEPT ![p] = D!Idle] /\ draft = NoText
           \/ put' = [put EXCEPT ![p] = k]
        /\ typed' = [typed EXCEPT !["row"] = "fresh"]
    BY <1>0, <1>5 DEF D!SaveEmpty
  <2>2. SavesFit'
    BY <1>0, <1>1, <2>1 DEF SavesFit
  <2>3. PencilFollows'
    BY <1>0, <2>1 DEF PencilFollows
  <2>4. D!TypeOK'
    BY <1>0, <2>1, <2>2 DEF D!TypeOK, SavesFit
  <2> QED
    BY <1>0, <2>1, <2>2, <2>3, <2>4 DEF DraftsInv
<1>6. ASSUME NEW p \in Saves, D!TellSaved(p) PROVE DraftsInv'
  <2> PICK has \in BOOLEAN : has = (put[p].at = "saved")
    OBVIOUS
  <2>1. /\ UNCHANGED <<draft, justSent, send, typed>>
        /\ pencil' = has /\ misled' = (has # (draft # NoText))
        /\ put' = [put EXCEPT ![p] = D!Idle]
    BY <1>6 DEF D!TellSaved, D!Tell
  <2>2. SavesFit'
    BY <1>0, <1>1, <2>1 DEF SavesFit
  <2>3. PencilFollows'
    BY <2>1 DEF PencilFollows
  <2>4. D!TypeOK'
    BY <1>0, <2>1, <2>2 DEF D!TypeOK, SavesFit
  <2> QED
    BY <1>0, <2>1, <2>2, <2>3, <2>4 DEF DraftsInv
<1>7. ASSUME NEW text \in Texts, NEW scheduled \in BOOLEAN, D!Insert(text, scheduled)
      PROVE  DraftsInv'
  <2>1. /\ UNCHANGED <<draft, put, pencil, misled>>
        /\ send.at = "none" /\ send' = [at |-> "sent", body |-> text]
        /\ justSent' \subseteq justSent \cup {text}
        /\ ~scheduled => text \in justSent'
        /\ typed' = [x \in Saves \cup {"row"} |-> D!Standing(x, text, scheduled)]
    BY <1>0, <1>7 DEF D!Insert, D!Idle
  <2>2. \A x \in Saves \cup {"row"} :
           D!Standing(x, text, scheduled) \in {"fresh", "before", "unseen"}
    BY DEF D!Standing
  <2>3. \A p \in Saves : D!Standing(p, text, scheduled) = "before" =>
           put[p].at = "asked" /\ put[p].body = text /\ ~scheduled
    BY <1>0 DEF D!Standing
  <2>4. SavesFit'
    BY <1>0, <2>1, <2>2, <2>3 DEF SavesFit
  <2>5. PencilFollows'
    BY <1>0, <2>1 DEF PencilFollows
  <2>6. D!TypeOK'
    BY <1>0, <2>1, <2>4 DEF D!TypeOK, SavesFit
  <2> QED
    BY <1>0, <2>1, <2>4, <2>5, <2>6 DEF DraftsInv
<1>8. CASE D!Clear
  <2>1. UNCHANGED <<justSent, put, pencil, misled>> /\ send.at = "sent"
    BY <1>8 DEF D!Clear
  <2>2. CASE /\ draft' = NoText /\ typed' = [typed EXCEPT !["row"] = "fresh"]
             /\ send' = IF draft = NoText THEN D!Idle ELSE [send EXCEPT !.at = "cleared"]
    <3>1. send'.at = IF draft = NoText THEN "none" ELSE "cleared"
      BY <2>1, <2>2 DEF D!Idle
    <3>2. SavesFit'
      BY <1>0, <2>1, <2>2 DEF SavesFit
    <3>3. PencilFollows'
      BY <1>0, <2>1, <2>2, <3>1 DEF PencilFollows
    <3>4. D!TypeOK'
      BY <1>0, <2>1, <2>2, <3>1 DEF D!TypeOK
    <3> QED
      BY <1>0, <2>1, <3>2, <3>3, <3>4 DEF DraftsInv
  <2>3. CASE send' = D!Idle /\ UNCHANGED draft /\ typed' = [typed EXCEPT !["row"] = "unseen"]
    BY <1>0, <2>1, <2>3 DEF DraftsInv, SavesFit, PencilFollows, D!TypeOK, D!Idle
  <2> QED
    BY <1>8, <2>2, <2>3 DEF D!Clear, D!Cleared
<1>9. CASE D!TellCleared
  BY <1>0, <1>9 DEF D!TellCleared, D!Tell, DraftsInv, SavesFit, PencilFollows, D!TypeOK, D!Idle
<1>10. CASE D!WindowPasses
  <2>1. /\ UNCHANGED <<draft, put, send, pencil, misled>> /\ justSent' = {}
        /\ typed' = [x \in Saves \cup {"row"} |->
                        IF x \in Saves /\ typed[x] = "before" THEN "unseen" ELSE typed[x]]
    BY <1>0, <1>10 DEF D!WindowPasses
  <2>2. SavesFit'
    BY <1>0, <2>1 DEF SavesFit
  <2> QED
    BY <1>0, <2>1, <2>2 DEF DraftsInv, PencilFollows, D!TypeOK
<1>11. CASE D!Purge
  BY <1>0, <1>11 DEF D!Purge, DraftsInv, SavesFit, PencilFollows, D!TypeOK, D!Idle
<1>12. CASE UNCHANGED drafts
  BY <1>12 DEF drafts, DraftsInv, SavesFit, PencilFollows, D!TypeOK
<1> QED
  BY <1>2, <1>3, <1>4, <1>5, <1>6, <1>7, <1>8, <1>9, <1>10, <1>11, <1>12 DEF D!Next

-------------------------------------------------------------------------------
(* The stage.                                                              *)

StageFrame == [act: S!SelfActions \cup S!HostActions, target: Stagers]
FrameFits(u, f, present) ==
    \/ f = S!NoFrame
    \/ u \in present /\ f \in StageFrame /\ (f.act \in S!SelfActions => f.target = u)

LEMMA FramesFitEach ==
    FramesFit <=> /\ frame \in [Stagers -> {S!NoFrame} \cup StageFrame]
                  /\ \A u \in Stagers : FrameFits(u, frame[u], watching)
BY DEF FramesFit, FrameFits, StageFrame

LEMMA StageInit == S!Init => StageInv
<1> SUFFICES ASSUME S!Init PROVE StageInv
  OBVIOUS
<1>1. FramesFit
  BY DEF S!Init, FramesFit
<1> QED
  BY <1>1 DEF S!Init, StageInv, S!TypeOK, S!FloorWasGranted, S!StageIsOfThePresent,
     S!PanelShowsRoster

(* Who is taken off is on no list of the stage, and who stays keeps their   *)
(* place.                                                                  *)
LEMMA StageStep ==
    ASSUME StageInv, [S!Next]_stage
    PROVE  StageInv'
<1>0. /\ S!TypeOK /\ FramesFit /\ changed \in BOOLEAN /\ unrendered \in BOOLEAN
      /\ enabled \in BOOLEAN
      /\ S!FloorWasGranted /\ S!StageIsOfThePresent /\ S!PanelShowsRoster
      /\ frame \in [Stagers -> {S!NoFrame} \cup StageFrame]
      /\ \A u \in Stagers : FrameFits(u, frame[u], watching)
  BY FramesFitEach DEF StageInv
<1> DEFINE Lists == /\ S!TypeOK /\ S!FloorWasGranted /\ S!StageIsOfThePresent
                    /\ S!PanelShowsRoster
<1>1. ASSUME FramesFit', Lists', changed' \in BOOLEAN, unrendered' \in BOOLEAN,
             enabled' \in BOOLEAN
      PROVE  StageInv'
  BY <1>1 DEF StageInv
<1> USE DEF S!TypeOK, S!FloorWasGranted, S!StageIsOfThePresent, S!PanelShowsRoster, S!Roster
<1>2. ASSUME NEW u \in Stagers, NEW target \in Stagers,
             NEW act \in S!SelfActions \cup S!HostActions, S!Frame(u, act, target)
      PROVE  StageInv'
  <2>1. [act |-> act, target |-> target] \in StageFrame
    BY DEF StageFrame
  <2>2. /\ frame' = [frame EXCEPT ![u] = [act |-> act, target |-> target]]
        /\ UNCHANGED <<enabled, participants, speakers, hands, watching, leaving, changed,
                       panel, unrendered, onStage, granted, crossed>>
        /\ FrameFits(u, [act |-> act, target |-> target], watching)
    BY <1>2, <2>1 DEF S!Frame, S!stage, S!view, S!history, FrameFits
  <2>3. FramesFit'
    BY <1>0, <2>1, <2>2, FramesFitEach DEF FramesFit, FrameFits, StageFrame
  <2> QED
    BY <1>0, <1>1, <2>2, <2>3
<1>3. ASSUME NEW u \in Stagers, S!Apply(u) PROVE StageInv'
  <2> PICK f : f = frame[u]
    OBVIOUS
  <2>1. u \in watching /\ f \in StageFrame /\ (f.act \in S!SelfActions => f.target = u)
    BY <1>0, <1>3 DEF S!Apply, FrameFits
  <2> PICK act \in S!SelfActions \cup S!HostActions, who \in Stagers :
         act = f.act /\ who = f.target
    BY <2>1 DEF StageFrame
  <2>2. /\ S!Effect(act, who)
        /\ onStage' = IF act = "join" THEN onStage \cup {who}
                      ELSE S!Without(onStage, who, act = "leave")
        /\ crossed' = S!Without(crossed, who, act \in {"join", "leave"})
        /\ granted' = IF act = "promote" /\ who \in participants THEN granted \cup {who}
                      ELSE S!Without(granted, who, act \in {"leave", "stepdown", "demote"})
        /\ changed' = TRUE /\ frame' = [frame EXCEPT ![u] = S!NoFrame]
        /\ UNCHANGED <<enabled, watching, leaving, panel, unrendered>>
    BY <1>3 DEF S!Apply
  <2>3. FramesFit'
    BY <1>0, <2>2 DEF FramesFit
  <2>4. act = "join" => who = u
    BY <2>1 DEF S!SelfActions
  <2>5. Lists'
    <3>1. CASE act = "join"
      BY <1>0, <2>1, <2>2, <2>4, <3>1 DEF S!Effect, S!Without
    <3>2. CASE act = "leave"
      BY <1>0, <2>2, <3>2 DEF S!Effect, S!Without, S!TakenOff
    <3>3. CASE act = "raise"
      BY <1>0, <2>2, <3>3 DEF S!Effect, S!Without, S!MayRaise
    <3>4. CASE act = "lower"
      BY <1>0, <2>2, <3>4 DEF S!Effect, S!Without
    <3>5. CASE act \in {"stepdown", "demote"}
      BY <1>0, <2>2, <3>5 DEF S!Effect, S!Without
    <3>6. CASE act = "promote"
      BY <1>0, <2>2, <3>6 DEF S!Effect, S!Without
    <3> QED
      BY <3>1, <3>2, <3>3, <3>4, <3>5, <3>6 DEF S!SelfActions, S!HostActions
  <2> QED
    BY <1>0, <1>1, <2>2, <2>3, <2>5
<1>4. ASSUME NEW u \in Stagers, S!Open(u) PROVE StageInv'
  <2>1. FramesFit'
    BY <1>0, <1>4 DEF S!Open, FramesFit
  <2> QED
    BY <1>0, <1>1, <1>4, <2>1 DEF S!Open, S!stage, S!view, S!history
<1>5. ASSUME NEW u \in Stagers, S!Close(u) PROVE StageInv'
  <2>1. FramesFit'
    BY <1>0, <1>5 DEF S!Close, FramesFit
  <2> QED
    BY <1>0, <1>1, <1>5, <2>1 DEF S!Close, S!stage, S!view
<1>6. ASSUME NEW u \in Stagers, S!LeaveAll(u) PROVE StageInv'
  <2>1. FramesFit'
    BY <1>0, <1>6 DEF S!LeaveAll, FramesFit
  <2>2. Lists'
    BY <1>0, <1>6 DEF S!LeaveAll, S!TakenOff
  <2> QED
    BY <1>0, <1>1, <1>6, <2>1, <2>2 DEF S!LeaveAll
<1>7. CASE S!Toggle
  <2>1. FramesFit'
    BY <1>0, <1>7 DEF S!Toggle, FramesFit
  <2> QED
    BY <1>0, <1>1, <1>7, <2>1 DEF S!Toggle, S!stage, S!view, S!history
<1>8. CASE S!Render
  <2>1. FramesFit'
    BY <1>0, <1>8 DEF S!Render, FramesFit
  <2> QED
    BY <1>0, <1>1, <1>8, <2>1 DEF S!Render, S!stage, S!history
<1>9. CASE UNCHANGED stage
  BY <1>9 DEF stage, StageInv, FramesFit
<1> QED
  BY <1>2, <1>3, <1>4, <1>5, <1>6, <1>7, <1>8, <1>9 DEF S!Next

-------------------------------------------------------------------------------
(* The status circle.                                                      *)

TaskFits(k, r) ==
    /\ r \in CircleTask
    /\ r.at = "check" => r.value \in C!Choices \cup {"idle"}
    /\ r.at = "load" => k \in {"touch", "open"}
    /\ r.at = "send" =>
          r.value \in C!Choices \cup {"idle", "offline"} /\ (r.seen \/ k \in {"set", "touch"})

LEMMA CircleTasksFitEach ==
    CircleTasksFit <=>
        /\ painting \in [C!Kinds -> CircleTask]
        /\ \A k \in C!Kinds : TaskFits(k, painting[k])
        /\ painting["open"].at # "none" => tabs > 0
BY DEF CircleTasksFit, TaskFits

LEMMA CircleInit == C!Init => CircleInv
<1> SUFFICES ASSUME C!Init PROVE CircleInv
  OBVIOUS
<1>1. C!NoTask \in CircleTask /\ C!NoTask.at = "none"
  BY DEF C!NoTask, CircleTask
<1>2. CircleTasksFit
  BY <1>1 DEF C!Init, CircleTasksFit, C!Kinds
<1>3. C!TypeOK
  BY <1>1 DEF C!Init, C!TypeOK, C!Choices
<1>4. CircleFollows
  BY DEF C!Init, CircleFollows, C!Effective, C!Connected
<1> QED
  BY <1>2, <1>3, <1>4 DEF C!Init, CircleInv, C!ChoiceIsKept, C!IdleMeansQuiet

(* One task moves, to a record that fits its kind.                         *)
LEMMA TaskPaints ==
    ASSUME CircleTasksFit, NEW k \in C!Kinds, NEW r, TaskFits(k, r),
           painting' = [painting EXCEPT ![k] = r],
           painting'["open"].at # "none" => tabs' > 0
    PROVE  /\ CircleTasksFit' /\ painting'[k] = r
           /\ \A j \in C!Kinds \ {k} : painting'[j] = painting[j]
           /\ \A j \in C!Kinds : painting'[j].at \in {"none", "missed", "check", "load", "send"}
BY DEF CircleTasksFit, TaskFits, CircleTask

(* What a new broadcast, not yet sent, leaves to show.                     *)
LEMMA DueFollows ==
    ASSUME NEW k \in C!Kinds, painting'[k].at \in {"load", "send"}
    PROVE  CircleFollows'
BY DEF CircleFollows, InFlight, Wording

LEMMA CircleGives == CircleInv => C!CircleIsRight
<1> SUFFICES ASSUME CircleInv, \A k \in C!Kinds : painting[k].at \in {"none", "missed"}
             PROVE  shown = C!Effective \/ stale
  BY DEF C!CircleIsRight
<1> QED
  BY DEF CircleInv, CircleFollows, InFlight

LEMMA CircleStep ==
    ASSUME CircleInv, [C!Next]_circle
    PROVE  CircleInv'
<1> DEFINE Status == C!Choices \cup {"idle"}
<1>0. /\ C!TypeOK /\ CircleTasksFit /\ CircleFollows /\ C!ChoiceIsKept /\ C!IdleMeansQuiet
      /\ recent \in BOOLEAN /\ slipped \in BOOLEAN /\ stale \in BOOLEAN
      /\ chosen \in C!Sticky \cup {"none"} /\ tabs \in 0..2
      /\ painting \in [C!Kinds -> CircleTask] /\ status \in Status
      /\ \A k \in C!Kinds : TaskFits(k, painting[k])
  BY CircleTasksFitEach DEF CircleInv, C!TypeOK
<1>a. ASSUME NEW k \in C!Kinds PROVE TaskFits(k, C!NoTask) /\ C!NoTask.at = "none"
  BY DEF TaskFits, C!NoTask, CircleTask
<1>b. ASSUME NEW k \in C!Kinds, NEW v \in Status, C!Connected \/ k \in {"set", "touch"}
      PROVE  LET r == [at |-> "send", value |-> v, seen |-> C!Connected]
             IN  TaskFits(k, r) /\ r.at = "send"
  <2>1. C!Connected \in BOOLEAN
    BY DEF C!Connected
  <2> PICK seen \in BOOLEAN : seen = C!Connected
    BY <2>1
  <2> QED
    BY <1>b DEF TaskFits, CircleTask
<1>c. ASSUME NEW k \in C!Kinds, NEW v \in Status \cup {"none"}, NEW at \in {"missed", "load", "check"},
             at = "check" => v \in Status, at = "load" => k \in {"touch", "open"}
      PROVE  LET r == [at |-> at, value |-> v, seen |-> C!Connected]
             IN  TaskFits(k, r) /\ r.at = at
  <2>1. C!Connected \in BOOLEAN
    BY DEF C!Connected
  <2> PICK seen \in BOOLEAN : seen = C!Connected
    BY <2>1
  <2> QED
    BY <1>c DEF TaskFits, CircleTask
<1>d. "open" \in C!Kinds /\ "set" \in C!Kinds /\ "touch" \in C!Kinds /\ "idle" \in C!Kinds
      /\ "expire" \in C!Kinds /\ "close" \in C!Kinds
  BY DEF C!Kinds
<1>e. painting["open"].at # "none" => tabs > 0
  BY <1>0 DEF CircleTasksFit
<1>1. ASSUME NEW s \in C!Choices, C!PostStatus(s) PROVE CircleInv'
  <2> PICK r : r = [at |-> "send", value |-> s, seen |-> C!Connected]
    OBVIOUS
  <2>1. /\ painting' = [painting EXCEPT !["set"] = r] /\ tabs' = tabs
        /\ TaskFits("set", r) /\ r.at = "send"
    BY <1>1, <1>b, <1>d DEF C!PostStatus, C!Becomes
  <2>2. painting'["open"].at # "none" => tabs' > 0
    BY <1>0, <1>d, <1>e, <2>1
  <2>3. /\ CircleTasksFit'
        /\ painting'["set"].at = "send"
        /\ \A j \in C!Kinds : painting'[j].at \in {"none", "missed", "check", "load", "send"}
    BY <1>0, <1>d, <2>1, <2>2, TaskPaints
  <2>4. CircleFollows'
    BY <1>d, <2>3, DueFollows
  <2> QED
    BY <1>0, <1>1, <2>3, <2>4
       DEF C!PostStatus, CircleInv, C!TypeOK, C!ChoiceIsKept, C!IdleMeansQuiet, C!Choices,
           C!Sticky
<1>2. CASE C!Touch
  <2>1. CASE debounced
    BY <1>0, <1>2, <2>1 DEF C!Touch, CircleInv, C!TypeOK, CircleTasksFit, C!ChoiceIsKept,
       C!IdleMeansQuiet, CircleFollows, InFlight, Wording, C!Effective, C!Connected
  <2>2. CASE ~debounced /\ status = "idle"
    <3> PICK r : r = [at |-> "load", value |-> "none", seen |-> C!Connected]
      OBVIOUS
    <3>1. /\ painting' = [painting EXCEPT !["touch"] = r] /\ tabs' = tabs
          /\ TaskFits("touch", r) /\ r.at = "load"
      BY <1>2, <1>c, <1>d, <2>2 DEF C!Touch, C!Wakes, C!Becomes
    <3>2. painting'["open"].at # "none" => tabs' > 0
      BY <1>0, <1>d, <1>e, <3>1
    <3>3. /\ CircleTasksFit'
          /\ painting'["touch"].at = "load"
          /\ \A j \in C!Kinds : painting'[j].at \in {"none", "missed", "check", "load", "send"}
      BY <1>0, <1>d, <3>1, <3>2, TaskPaints
    <3>4. CircleFollows'
      BY <1>d, <3>3, DueFollows
    <3>5. chosen' = "none"
      BY <1>0, <1>2, <2>2 DEF C!Touch, C!ChoiceIsKept, C!Sticky
    <3> QED
      BY <1>0, <1>2, <2>2, <3>3, <3>4, <3>5
         DEF C!Touch, C!Wakes, CircleInv, C!TypeOK, C!ChoiceIsKept, C!IdleMeansQuiet, C!Choices
  <2>3. CASE ~debounced /\ status # "idle"
    <3> PICK r : r = [at |-> "missed", value |-> "none", seen |-> C!Connected]
      OBVIOUS
    <3>1. /\ painting' = [painting EXCEPT !["touch"] = r] /\ painting["touch"].at = "none"
          /\ TaskFits("touch", r) /\ r.at = "missed"
          /\ UNCHANGED <<status, recent, slipped, timer, tabs, shown, chosen, stale>>
      BY <1>2, <1>c, <1>d, <2>3 DEF C!Touch, C!Wakes, C!Becomes, C!Free
    <3>2. painting'["open"].at # "none" => tabs' > 0
      BY <1>0, <1>d, <1>e, <3>1
    <3>3. /\ CircleTasksFit'
          /\ \A j \in C!Kinds \ {"touch"} : painting'[j] = painting[j]
          /\ \A j \in C!Kinds : painting'[j].at \in {"none", "missed", "check", "load", "send"}
      BY <1>0, <1>d, <3>1, <3>2, TaskPaints
    <3>4. \A j \in C!Kinds : (InFlight(j) => InFlight(j)') /\ (Wording(j) => Wording(j)')
      BY <3>1, <3>3 DEF InFlight, Wording
    <3>5. CircleFollows'
      BY <1>0, <3>1, <3>4 DEF CircleFollows, C!Effective, C!Connected
    <3> QED
      BY <1>0, <3>1, <3>3, <3>5 DEF CircleInv, C!TypeOK, C!ChoiceIsKept, C!IdleMeansQuiet
  <2> QED
    BY <2>1, <2>2, <2>3
<1>3. CASE C!Stamp
  <2>1. /\ painting' = [painting EXCEPT !["touch"] = C!NoTask] /\ painting["touch"].at = "missed"
        /\ UNCHANGED <<status, timer, tabs, shown, chosen, stale>>
        /\ recent' = TRUE /\ slipped' = (slipped \/ status = "idle")
    BY <1>3 DEF C!Stamp, C!Ends
  <2>2. painting'["open"].at # "none" => tabs' > 0
    BY <1>0, <1>d, <1>e, <2>1
  <2>3. /\ CircleTasksFit'
        /\ \A j \in C!Kinds \ {"touch"} : painting'[j] = painting[j]
        /\ \A j \in C!Kinds : painting'[j].at \in {"none", "missed", "check", "load", "send"}
    BY <1>0, <1>a, <1>d, <2>1, <2>2, TaskPaints
  <2>4. \A j \in C!Kinds : (InFlight(j) => InFlight(j)') /\ (Wording(j) => Wording(j)')
    BY <2>1, <2>3 DEF InFlight, Wording
  <2>5. CircleFollows'
    BY <1>0, <2>1, <2>4 DEF CircleFollows, C!Effective, C!Connected
  <2>6. slipped' \in BOOLEAN /\ recent' \in BOOLEAN /\ C!IdleMeansQuiet'
    BY <2>1 DEF C!IdleMeansQuiet
  <2> QED
    BY <1>0, <2>1, <2>3, <2>5, <2>6 DEF CircleInv, C!TypeOK, C!ChoiceIsKept
<1>4. CASE C!Flush \/ C!Age
  <2>1. UNCHANGED <<status, tabs, painting, shown, chosen, slipped, stale>>
    BY <1>4 DEF C!Flush, C!Age, C!history
  <2>2. recent' \in BOOLEAN /\ (recent' => recent \/ status # "idle")
        /\ timer' \in {"none", "set", "due"}
    <3>1. CASE C!Flush
      <4>1. recent' = (recent \/ status # "idle") /\ timer' = timer
        BY <3>1 DEF C!Flush
      <4>2. recent' \in BOOLEAN
        BY <4>1, Zenon
      <4> QED
        BY <1>0, <4>1, <4>2 DEF C!TypeOK
    <3>2. CASE C!Age
      <4>1. /\ recent' = FALSE \/ recent' = recent
            /\ timer' = "due" \/ timer' = timer
        BY <3>2 DEF C!Age
      <4>2. timer' \in {"none", "set", "due"}
        BY <1>0, <4>1 DEF C!TypeOK
      <4>3. CASE recent' = FALSE
        BY <4>2, <4>3
      <4>4. CASE recent' = recent
        BY <1>0, <4>2, <4>4
      <4> QED
        BY <4>1, <4>3, <4>4
    <3> QED
      BY <1>4, <3>1, <3>2
  <2> QED
    BY <1>0, <2>1, <2>2 DEF CircleInv, C!TypeOK, CircleTasksFit, C!ChoiceIsKept,
       C!IdleMeansQuiet, CircleFollows, InFlight, Wording, C!Effective, C!Connected
<1>5. CASE C!IdleScan
  <2> PICK r : r = [at |-> "check", value |-> "idle", seen |-> C!Connected]
    OBVIOUS
  <2>1. /\ painting' = [painting EXCEPT !["idle"] = r] /\ painting["idle"].at = "none"
        /\ TaskFits("idle", r) /\ r.at = "check"
        /\ UNCHANGED <<timer, recent, tabs, shown, chosen, slipped, stale>>
        /\ status = "active" /\ status' = "idle" /\ ~recent
    BY <1>5, <1>c, <1>d DEF C!IdleScan, C!Becomes, C!Free, C!stamps, C!history
  <2>2. painting'["open"].at # "none" => tabs' > 0
    BY <1>0, <1>d, <1>e, <2>1
  <2>3. /\ CircleTasksFit'
        /\ painting'["idle"] = r
        /\ \A j \in C!Kinds \ {"idle"} : painting'[j] = painting[j]
        /\ \A j \in C!Kinds : painting'[j].at \in {"none", "missed", "check", "load", "send"}
    BY <1>0, <1>d, <2>1, <2>2, TaskPaints
  <2>4. InFlight("idle")' /\ \A j \in C!Kinds : Wording(j) => Wording(j)'
    BY <2>1, <2>3 DEF InFlight, Wording
  <2>5. CircleFollows'
    BY <1>0, <1>d, <2>1, <2>4 DEF CircleFollows
  <2>6. chosen' = "none"
    BY <1>0, <2>1 DEF C!ChoiceIsKept, C!Sticky
  <2> QED
    BY <1>0, <2>1, <2>3, <2>5, <2>6 DEF CircleInv, C!TypeOK, C!ChoiceIsKept, C!IdleMeansQuiet
<1>6. CASE C!ExpireScan
  <2>1. status' \in Status /\ (status' = "idle" => status = "idle")
    BY <1>0, <1>6 DEF C!ExpireScan, C!Choices
  <2> PICK r : r = [at |-> "check", value |-> status', seen |-> C!Connected]
    OBVIOUS
  <2>2. /\ painting' = [painting EXCEPT !["expire"] = r] /\ painting["expire"].at = "none"
        /\ TaskFits("expire", r) /\ r.at = "check"
        /\ UNCHANGED <<recent, tabs, shown, slipped, stale>>
        /\ chosen' = "none" /\ timer' = "none"
    BY <1>6, <1>c, <1>d, <2>1 DEF C!ExpireScan, C!Becomes, C!Free, C!stamps
  <2>3. painting'["open"].at # "none" => tabs' > 0
    BY <1>0, <1>d, <1>e, <2>2
  <2>4. /\ CircleTasksFit'
        /\ painting'["expire"] = r
        /\ \A j \in C!Kinds \ {"expire"} : painting'[j] = painting[j]
        /\ \A j \in C!Kinds : painting'[j].at \in {"none", "missed", "check", "load", "send"}
    BY <1>0, <1>d, <2>2, <2>3, TaskPaints
  <2>5. InFlight("expire")' /\ \A j \in C!Kinds : Wording(j) => Wording(j)'
    BY <2>2, <2>4 DEF InFlight, Wording
  <2>6. CircleFollows'
    BY <1>0, <1>d, <2>2, <2>5 DEF CircleFollows
  <2> QED
    BY <1>0, <2>1, <2>2, <2>4, <2>6 DEF CircleInv, C!TypeOK, C!ChoiceIsKept, C!IdleMeansQuiet
<1>7. ASSUME NEW k \in C!Kinds, C!Check(k) PROVE CircleInv'
  <2> PICK v : v = painting[k].value
    OBVIOUS
  <2>0. /\ v \in Status /\ painting[k].at = "check"
        /\ UNCHANGED <<status, timer, recent, tabs, shown, chosen, slipped, stale>>
        /\ painting' = IF C!Connected
                         THEN [painting EXCEPT ![k] = [at |-> "send", value |-> v, seen |-> C!Connected]]
                         ELSE [painting EXCEPT ![k] = C!NoTask]
    BY <1>0, <1>7 DEF C!Check, TaskFits, C!Repaints, C!Becomes, C!Ends, C!stamps, C!history
  <2>1. PICK r : /\ painting' = [painting EXCEPT ![k] = r] /\ TaskFits(k, r)
                 /\ r.at = IF C!Connected THEN "send" ELSE "none"
    BY <1>a, <1>b, <2>0
  <2>2. painting'["open"].at # "none" => tabs' > 0
    BY <1>0, <1>d, <1>e, <2>0, <2>1
  <2>3. /\ CircleTasksFit'
        /\ painting'[k] = r
        /\ \A j \in C!Kinds \ {k} : painting'[j] = painting[j]
        /\ \A j \in C!Kinds : painting'[j].at \in {"none", "missed", "check", "load", "send"}
    BY <1>0, <2>1, <2>2, TaskPaints
  <2>4. CircleFollows'
    <3>1. CASE C!Connected
      BY <2>1, <2>3, <3>1, DueFollows
    <3>2. CASE ~C!Connected
      <4>1. tabs = 0 /\ tabs' = 0 /\ C!Effective' = "offline"
        BY <1>0, <2>0, <3>2 DEF C!Connected, C!Effective
      <4>2. \A j \in C!Kinds : Wording(j) => Wording(j)' /\ InFlight(j)'
        BY <2>0, <2>3 DEF Wording, InFlight
      <4> QED
        BY <1>0, <2>0, <4>1, <4>2 DEF CircleFollows
    <3> QED
      BY <3>1, <3>2
  <2> QED
    BY <1>0, <2>0, <2>3, <2>4 DEF CircleInv, C!TypeOK, C!ChoiceIsKept, C!IdleMeansQuiet
<1>8. CASE C!Open
  <2>0. /\ UNCHANGED <<status, timer, recent, shown, chosen, slipped, stale>>
        /\ tabs < 2 /\ tabs' = tabs + 1 /\ tabs' \in 0..2 /\ tabs' > 0
    BY <1>0, <1>8 DEF C!Open, C!stamps, C!history
  <2>1. CASE tabs > 0
    <3>1. painting' = painting
      BY <1>8, <2>1 DEF C!Open, C!Connected
    <3>2. CircleTasksFit'
      BY <1>0, <2>0, <3>1 DEF CircleTasksFit
    <3>3. C!Effective' = C!Effective
      BY <2>0, <2>1 DEF C!Effective, C!Connected
    <3>4. CircleFollows'
      BY <1>0, <2>0, <3>1, <3>3 DEF CircleFollows, InFlight
    <3> QED
      BY <1>0, <2>0, <3>1, <3>2, <3>4 DEF CircleInv, C!TypeOK, C!ChoiceIsKept, C!IdleMeansQuiet
  <2>2. CASE ~(tabs > 0)
    <3>1. PICK r : /\ painting' = [painting EXCEPT !["open"] = r]
                   /\ r = [at |-> "load", value |-> "none", seen |-> TRUE]
      BY <1>8, <2>2 DEF C!Open, C!Connected
    <3>2. TaskFits("open", r) /\ r.at = "load"
      BY <3>1 DEF TaskFits, CircleTask
    <3>3. /\ CircleTasksFit'
          /\ painting'["open"] = r
          /\ \A j \in C!Kinds : painting'[j].at \in {"none", "missed", "check", "load", "send"}
      BY <1>0, <1>d, <2>0, <3>1, <3>2, TaskPaints
    <3>4. CircleFollows'
      BY <1>d, <3>2, <3>3, DueFollows
    <3> QED
      BY <1>0, <2>0, <3>3, <3>4 DEF CircleInv, C!TypeOK, C!ChoiceIsKept, C!IdleMeansQuiet
  <2> QED
    BY <2>1, <2>2
<1>9. CASE C!Close
  <2>0. /\ UNCHANGED <<status, timer, recent, shown, chosen, slipped, stale>>
        /\ tabs > 0 /\ tabs' = tabs - 1 /\ tabs' \in 0..2
        /\ painting["open"].at # "none" => tabs' > 0
    BY <1>0, <1>9 DEF C!Close, C!Free, C!stamps, C!history
  <2>1. CASE tabs' # 0
    <3>1. painting' = painting
      BY <1>9, <2>1 DEF C!Close
    <3> QED
      BY <1>0, <2>0, <2>1, <3>1 DEF CircleInv, C!TypeOK, CircleTasksFit, C!ChoiceIsKept,
         C!IdleMeansQuiet, CircleFollows, InFlight, Wording, C!Effective, C!Connected
  <2>2. CASE tabs' = 0
    <3>1. PICK r : /\ painting' = [painting EXCEPT !["close"] = r]
                   /\ r = [at |-> "send", value |-> "offline", seen |-> TRUE]
      BY <1>9, <2>2 DEF C!Close
    <3>2. TaskFits("close", r) /\ r.at = "send"
      BY <3>1 DEF TaskFits, CircleTask
    <3>3. painting'["open"].at # "none" => tabs' > 0
      BY <1>0, <1>d, <2>0, <3>1
    <3>4. /\ CircleTasksFit'
          /\ painting'["close"] = r
          /\ \A j \in C!Kinds : painting'[j].at \in {"none", "missed", "check", "load", "send"}
      BY <1>0, <1>d, <3>1, <3>2, <3>3, TaskPaints
    <3>5. CircleFollows'
      BY <1>d, <3>2, <3>4, DueFollows
    <3> QED
      BY <1>0, <2>0, <3>4, <3>5 DEF CircleInv, C!TypeOK, C!ChoiceIsKept, C!IdleMeansQuiet
  <2> QED
    BY <2>1, <2>2
<1>10. ASSUME NEW k \in C!Kinds, C!Load(k) PROVE CircleInv'
  <2>0. /\ painting[k].at = "load"
        /\ UNCHANGED <<status, timer, recent, tabs, shown, chosen, slipped, stale>>
        /\ painting' = [painting EXCEPT ![k] = [at |-> "send", value |-> status, seen |-> C!Connected]]
        /\ C!Connected \/ k \in {"set", "touch"}
    BY <1>0, <1>e, <1>10 DEF TaskFits, C!Load, C!Becomes, C!Connected, C!stamps, C!history
  <2>1. PICK r : painting' = [painting EXCEPT ![k] = r] /\ TaskFits(k, r) /\ r.at = "send"
    BY <1>0, <1>b, <2>0
  <2>2. painting'["open"].at # "none" => tabs' > 0
    BY <1>0, <1>d, <1>e, <2>0, <2>1
  <2>3. /\ CircleTasksFit'
        /\ painting'[k] = r
        /\ \A j \in C!Kinds : painting'[j].at \in {"none", "missed", "check", "load", "send"}
    BY <1>0, <2>1, <2>2, TaskPaints
  <2>4. CircleFollows'
    BY <2>1, <2>3, DueFollows
  <2> QED
    BY <1>0, <2>0, <2>3, <2>4 DEF CircleInv, C!TypeOK, C!ChoiceIsKept, C!IdleMeansQuiet
<1>11. ASSUME NEW k \in C!Kinds, C!Send(k) PROVE CircleInv'
  <2>0. /\ painting[k].at = "send"
        /\ UNCHANGED <<status, timer, recent, tabs, chosen, slipped>>
        /\ painting' = [painting EXCEPT ![k] = C!NoTask]
        /\ shown' = painting[k].value /\ shown' \in Status \cup {"offline"}
        /\ stale' = (shown' # C!Effective)
    BY <1>0, <1>11 DEF C!Send, C!Ends, C!stamps, C!history, TaskFits
  <2>1. painting'["open"].at # "none" => tabs' > 0
    BY <1>0, <1>a, <1>d, <1>e, <2>0
  <2>2. /\ CircleTasksFit'
        /\ \A j \in C!Kinds : painting'[j].at \in {"none", "missed", "check", "load", "send"}
    BY <1>0, <1>a, <2>0, <2>1, TaskPaints
  <2>3. C!Effective' = C!Effective /\ stale' \in BOOLEAN /\ (shown' = C!Effective \/ stale')
    BY <2>0 DEF C!Effective, C!Connected
  <2>4. CircleFollows'
    BY <2>0, <2>3 DEF CircleFollows, C!Effective, C!Connected
  <2> QED
    BY <1>0, <2>0, <2>2, <2>3, <2>4 DEF CircleInv, C!TypeOK, C!ChoiceIsKept, C!IdleMeansQuiet
<1>12. CASE UNCHANGED circle
  BY <1>12 DEF circle, CircleInv, C!TypeOK, CircleTasksFit, C!ChoiceIsKept, C!IdleMeansQuiet,
     CircleFollows, InFlight, Wording, C!Effective, C!Connected
<1> QED
  BY <1>1, <1>2, <1>3, <1>4, <1>5, <1>6, <1>7, <1>8, <1>9, <1>10, <1>11, <1>12 DEF C!Next

-------------------------------------------------------------------------------
(* The four side by side with the huddle.                                  *)

SideInv ==
    /\ Consent /\ OneSession /\ Told
    /\ CircleInv /\ StageInv /\ DraftsInv /\ TranslationsInv

LEMMA PartsStep ==
    ASSUME [SideNext]_<<part, vars, circle, stage, drafts, translations>>
    PROVE  /\ [Next]_vars /\ [C!Next]_circle /\ [S!Next]_stage /\ [D!Next]_drafts
           /\ [X!Next]_translations
BY DEF SideNext, Huddle, Circle, OnStage, Drafting, Translating, Alone

LEMMA SideAlways == SideSpec => []SideInv
<1>1. SideInit => SideInv
  BY ConsentInit, ToldInit, CircleInit, StageInit, DraftsInit, TranslationsInit
     DEF SideInit, SideInv, Init, OneSession, OpenIds
<1>2. SideInv /\ [SideNext]_<<part, vars, circle, stage, drafts, translations>> => SideInv'
  <2> SUFFICES ASSUME SideInv,
                      [SideNext]_<<part, vars, circle, stage, drafts, translations>>
               PROVE  SideInv'
    OBVIOUS
  <2>1. /\ [Next]_vars /\ [C!Next]_circle /\ [S!Next]_stage /\ [D!Next]_drafts
        /\ [X!Next]_translations
    BY PartsStep
  <2>2. Consent' /\ OneSession' /\ Told'
    BY <2>1, ConsentStep, OneSessionStep, ToldStep DEF SideInv
  <2>3. CircleInv' /\ StageInv' /\ DraftsInv' /\ TranslationsInv'
    BY <2>1, CircleStep, StageStep, DraftsStep, TranslationsStep DEF SideInv
  <2> QED
    BY <2>2, <2>3 DEF SideInv
<1> QED
  BY <1>1, <1>2, PTL DEF SideSpec

(* What stands beside the messages, for any users, saves, requests and      *)
(* translators: a status chosen is kept and a circle ends on what it should *)
(* be, the stage is of those who are there and the floor a host's to give,  *)
(* what was sent is no draft, a cached translation is of the body that      *)
(* stands; but for the crossings each module names.                         *)
THEOREM SideStateHoldsForever == SideSpec => []SideStateHolds
<1>1. SideInv => SideStateHolds
  <2> SUFFICES ASSUME SideInv PROVE SideStateHolds
    OBVIOUS
  <2>1. C!TypeOK /\ C!ChoiceIsKept /\ C!IdleMeansQuiet /\ C!CircleIsRight
    BY CircleGives DEF SideInv, CircleInv
  <2>2. D!TypeOK /\ D!SentIsNotADraft /\ D!PencilFollowsDraft
    BY DraftsGive DEF SideInv
  <2> QED
    BY <2>1, <2>2 DEF SideInv, SideStateHolds, StageInv, TranslationsInv
<1> QED
  BY <1>1, SideAlways, PTL

(* The composition runs the huddle as its specification has it. *)
LEMMA SideRunsTheHuddle == SideSpec => Spec
<1>1. SideInit => Init
  BY DEF SideInit
<1>2. [SideNext]_<<part, vars, circle, stage, drafts, translations>> => [Next]_vars
  BY PartsStep
<1> QED
  BY <1>1, <1>2, PTL DEF SideSpec, Spec

(* The consent of a huddle as it stands in the composition: one session,    *)
(* told once, of a controller who asked; what its parties see settles.      *)
THEOREM HuddleHoldsBesideTheRest ==
    SideSpec => [](OneSession /\ ToldOnce /\ ControlWasAsked) /\ ConsentSettles
<1>1. SideInv => OneSession /\ ToldOnce /\ ControlWasAsked
  BY ToldGives DEF SideInv, Consent
<1> QED
  BY <1>1, SideAlways, SideRunsTheHuddle, ConsentIsSettled, PTL

=============================================================================
