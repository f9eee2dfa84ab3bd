---------------------------- MODULE HuddleControl ----------------------------
(***************************************************************************)
(* Consent for remote control inside one huddle (routes/ws.rs,             *)
(* relay_huddle_control_signal and the three ways a session ends;          *)
(* ws/hub.rs, the pending slot; db/remote_control_audit.rs, the sessions). *)
(*                                                                         *)
(* A tab is one connection; its frames are handled one after the other,    *)
(* those of two tabs side by side.  Leaving spawns a task of its own.  A   *)
(* step ends where the handler awaits, or between two calls on the pending *)
(* slot.  Gates the model does not decide (feature flags, rate limits,     *)
(* eligibility, failed reads) are GiveUp.                                  *)
(***************************************************************************)
EXTENDS Naturals, Sequences, FiniteSets

CONSTANTS
    Users,
    Tabs,           \* connections that may join the huddle
    Owner,          \* the user of each tab
    Nobody,
    Present,        \* tabs in the huddle at the start
    MaxSessions,    \* bound: sessions granted
    MaxJoins,       \* bound: further joins
    MaxFrames       \* bound: control and screen frames in all

ASSUME ControlAssumption ==
    /\ Owner \in [Tabs -> Users]
    /\ Nobody \notin Users
    /\ Present \subseteq Tabs
    /\ MaxSessions \in Nat
    /\ MaxJoins \in Nat
    /\ MaxFrames \in Nat

VARIABLES
    joined,         \* tabs in the huddle (voice_rooms)
    sharing,        \* users announcing a screen share (voice_screens)
    pending,        \* the one pending request (control_pending)
    sessions,       \* remote_control_sessions: who, and whether it is open
    task,           \* what each tab's handler is doing
    ending,         \* tasks spawned or left behind by tabs that left
    told,           \* users last told that they control
    labelled,       \* sharers whose tile shows that they are controlled
    joins, frames,
    asked,          \* history: requests that held the slot, by their parties
    notices         \* history: notices that each session ended

vars == <<joined, sharing, pending, sessions, task, ending, told, labelled,
          joins, frames, asked, notices>>

hubVars == <<joined, sharing, pending>>
toldVars == <<told, labelled, notices>>

NoRequest == [from |-> Nobody, to |-> Nobody, old |-> FALSE]
IdleTask == [pc |-> "idle", kind |-> "none", peer |-> Nobody, sess |-> 0]
Session ==
    {s \in [controller: Users, sharer: Users, open: BOOLEAN] : s.controller # s.sharer}

TaskPC == {"idle", "gated", "asking", "claiming", "expiring", "inserting",
           "taking", "vetting", "starting", "granted", "labelling",
           "shareStopped", "telling"}
Kinds == {"none", "request", "deny", "grant", "revoke"}
Ids == 1..MaxSessions

Init ==
    /\ joined = Present
    /\ sharing = {}
    /\ pending = NoRequest
    /\ sessions = << >>
    /\ task = [t \in Tabs |-> IdleTask]
    /\ ending = {}
    /\ told = {}
    /\ labelled = {}
    /\ joins = 0
    /\ frames = 0
    /\ asked = {}
    /\ notices = [s \in Ids |-> 0]

InCall(u) == \E t \in joined : Owner[t] = u
OpenIds == {s \in DOMAIN sessions : sessions[s].open}
Party(u, s) == u \in {sessions[s].controller, sessions[s].sharer}

Goto(t, step) == task' = [task EXCEPT ![t].pc = step]
Finish(t) == task' = [task EXCEPT ![t] = IdleTask]

-----------------------------------------------------------------------------
(* A remote_control_signal frame from someone in the huddle. *)

Frame(t, kind) ==
    /\ task[t] = IdleTask
    /\ InCall(Owner[t])
    /\ frames < MaxFrames
    /\ frames' = frames + 1
    /\ task' = [task EXCEPT ![t].pc = "gated", ![t].kind = kind]
    /\ UNCHANGED <<hubVars, toldVars, sessions, ending, joins, asked>>

GiveUp(t) ==
    /\ task[t].pc \in {"gated", "asking", "vetting"}
    /\ Finish(t)
    /\ UNCHANGED <<hubVars, toldVars, sessions, ending, joins, frames, asked>>

(* Variant: the sharer may ask to control their own screen. *)
PickAnySharer(t) ==
    /\ task[t].pc = "gated" /\ task[t].kind = "request"
    /\ \E s \in sharing :
        /\ sharing = {s}
        /\ task' = [task EXCEPT ![t].pc = "asking", ![t].peer = s]
    /\ UNCHANGED <<hubVars, toldVars, sessions, ending, joins, frames, asked>>

(* request: aimed at the room's only sharer, who must be someone else. *)
PickSharer(t) ==
    /\ task[t].pc = "gated" /\ task[t].kind = "request"
    /\ \E s \in sharing \ {Owner[t]} :
        /\ sharing = {s}
        /\ task' = [task EXCEPT ![t].pc = "asking", ![t].peer = s]
    /\ UNCHANGED <<hubVars, toldVars, sessions, ending, joins, frames, asked>>

BusyCheck(t) ==
    /\ task[t].pc = "asking"
    /\ IF OpenIds = {} THEN Goto(t, "claiming") ELSE Finish(t)
    /\ UNCHANGED <<hubVars, toldVars, sessions, ending, joins, frames, asked>>

(* set_control_pending first asks control_pending_active, ... *)
ClaimCheck(t) ==
    /\ task[t].pc = "claiming"
    /\ CASE pending = NoRequest -> Goto(t, "inserting")
         [] pending # NoRequest /\ pending.old -> Goto(t, "expiring")
         [] OTHER -> Finish(t)
    /\ UNCHANGED <<hubVars, toldVars, sessions, ending, joins, frames, asked>>

(* ... which drops an expired request, ... *)
DropExpired(t) ==
    /\ task[t].pc = "expiring"
    /\ pending' = NoRequest
    /\ IF task[t].kind = "request" THEN Goto(t, "inserting") ELSE Finish(t)
    /\ UNCHANGED <<joined, sharing, toldVars, sessions, ending, joins, frames, asked>>

(* ... then puts the new request into the slot. *)
ClaimInsert(t) ==
    /\ task[t].pc = "inserting"
    /\ pending' = [from |-> Owner[t], to |-> task[t].peer, old |-> FALSE]
    /\ asked' = asked \cup {<<Owner[t], task[t].peer>>}
    /\ Finish(t)
    /\ UNCHANGED <<joined, sharing, toldVars, sessions, ending, joins, frames>>

(* grant and deny: only from a sharer, and only for a request that lives. *)
TakeCheck(t) ==
    /\ task[t].pc = "gated" /\ task[t].kind \in {"grant", "deny"}
    /\ Owner[t] \in sharing
    /\ pending # NoRequest
    /\ Goto(t, IF pending.old THEN "expiring" ELSE "taking")
    /\ UNCHANGED <<hubVars, toldVars, sessions, ending, joins, frames, asked>>

(* Variant: the request is taken whomever it was aimed at. *)
AimedAtAnyone(u) == pending # NoRequest

AimedAt(u) == pending # NoRequest /\ pending.to = u

Take(t) ==
    /\ task[t].pc = "taking"
    /\ AimedAt(Owner[t])
    /\ pending' = NoRequest
    /\ IF task[t].kind = "grant" /\ InCall(pending.from)
         THEN task' = [task EXCEPT ![t].pc = "vetting", ![t].peer = pending.from]
         ELSE Finish(t)
    /\ UNCHANGED <<joined, sharing, toldVars, sessions, ending, joins, frames, asked>>

(* Someone else emptied or replaced the slot in between. *)
TakeMissed(t) ==
    /\ task[t].pc = "taking"
    /\ ~AimedAt(Owner[t])
    /\ Finish(t)
    /\ UNCHANGED <<hubVars, toldVars, sessions, ending, joins, frames, asked>>

GrantCheck(t) ==
    /\ task[t].pc = "vetting"
    /\ IF OpenIds = {} THEN Goto(t, "starting") ELSE Finish(t)
    /\ UNCHANGED <<hubVars, toldVars, sessions, ending, joins, frames, asked>>

(* Variant: a plain INSERT. *)
AlwaysFree == TRUE

NoOpenSession == OpenIds = {}

(* start_session inserts unless a row is open; the handler goes on anyhow. *)
Start(t) ==
    /\ task[t].pc = "starting"
    /\ NoOpenSession => Len(sessions) < MaxSessions
    /\ sessions' = IF NoOpenSession
                     THEN Append(sessions, [controller |-> task[t].peer,
                                            sharer |-> Owner[t], open |-> TRUE])
                     ELSE sessions
    /\ Goto(t, "granted")
    /\ UNCHANGED <<hubVars, toldVars, ending, joins, frames, asked>>

RelayGrant(t) ==
    /\ task[t].pc = "granted"
    /\ told' = told \cup {task[t].peer}
    /\ Goto(t, "labelling")
    /\ UNCHANGED <<hubVars, labelled, notices, sessions, ending, joins, frames, asked>>

(* After the controller's name was looked up. *)
LabelOn(t) ==
    /\ task[t].pc = "labelling"
    /\ labelled' = labelled \cup {Owner[t]}
    /\ Finish(t)
    /\ UNCHANGED <<hubVars, told, notices, sessions, ending, joins, frames, asked>>

-----------------------------------------------------------------------------
(* Ending a session: every closer is one UPDATE that returns the row it    *)
(* closed, and tells the parties of that row afterwards.                   *)

(* Variant: the WHERE forgets ended_at IS NULL. *)
AnyOf(u) == {s \in DOMAIN sessions : Party(u, s)}

(* Variant: only the controller's sessions are looked for. *)
OpenAsController(u) == {s \in OpenIds : sessions[s].controller = u}

OpenOf(u) == {s \in OpenIds : Party(u, s)}
OpenBySharer(u) == {s \in OpenIds : sessions[s].sharer = u}

End(s) == sessions' = [sessions EXCEPT ![s].open = FALSE]

(* The counterpart gets a revoke and the tile loses its label; the actor's *)
(* own client stops by itself.                                             *)
Notify(s) ==
    /\ told' = told \ {sessions[s].controller}
    /\ labelled' = labelled \ {sessions[s].sharer}
    /\ notices' = [notices EXCEPT ![s] = @ + 1]

EndsOrFinish(t, S) ==
    \/ \E s \in S :
          /\ End(s)
          /\ task' = [task EXCEPT ![t].pc = "telling", ![t].sess = s]
    \/ S = {} /\ Finish(t) /\ UNCHANGED sessions

(* end_session_for_participant. *)
Revoke(t) ==
    /\ task[t].pc = "gated" /\ task[t].kind = "revoke"
    /\ EndsOrFinish(t, OpenOf(Owner[t]))
    /\ UNCHANGED <<hubVars, toldVars, ending, joins, frames, asked>>

Tell(t) ==
    /\ task[t].pc = "telling"
    /\ Notify(task[t].sess)
    /\ Finish(t)
    /\ UNCHANGED <<hubVars, sessions, ending, joins, frames, asked>>

-----------------------------------------------------------------------------
(* voice_join, voice_screen and voice_leave frames, and lost connections.  *)

JoinCall(t) ==
    /\ task[t] = IdleTask
    /\ t \notin joined
    /\ joins < MaxJoins
    /\ joins' = joins + 1
    /\ joined' = joined \cup {t}
    /\ UNCHANGED <<sharing, pending, toldVars, sessions, task, ending, frames, asked>>

ShareStart(t) ==
    /\ task[t] = IdleTask
    /\ t \in joined
    /\ frames < MaxFrames
    /\ frames' = frames + 1
    /\ sharing' = sharing \cup {Owner[t]}
    /\ UNCHANGED <<joined, pending, toldVars, sessions, task, ending, joins, asked>>

(* clear_control_pending_for_sharer, end_control_on_share_stop. *)
ShareStop(t) ==
    /\ task[t] = IdleTask
    /\ t \in joined
    /\ frames < MaxFrames
    /\ frames' = frames + 1
    /\ sharing' = sharing \ {Owner[t]}
    /\ pending' = IF AimedAt(Owner[t]) THEN NoRequest ELSE pending
    /\ Goto(t, "shareStopped")
    /\ UNCHANGED <<joined, toldVars, sessions, ending, joins, asked>>

(* end_session_by_sharer. *)
ShareEnd(t) ==
    /\ task[t].pc = "shareStopped"
    /\ EndsOrFinish(t, OpenBySharer(Owner[t]))
    /\ UNCHANGED <<hubVars, toldVars, ending, joins, frames, asked>>

(* What a user's last tab takes along; `why` names the tasks left behind:  *)
(* "left" for the one handle_voice_leave spawns, "dropped" for the         *)
(* backstop of a lost connection.                                          *)
Leave(t, why) ==
    LET u == Owner[t]
        last == \A d \in joined \ {t} : Owner[d] # u
    IN  /\ task[t] = IdleTask
        /\ t \in joined
        /\ joined' = joined \ {t}
        /\ sharing' = IF last THEN sharing \ {u} ELSE sharing
        /\ pending' = IF last /\ pending.from = u THEN NoRequest ELSE pending
        /\ ending' = IF last
                        THEN ending \cup {[user |-> u, why |-> w, sess |-> 0] : w \in why}
                        ELSE ending
        /\ UNCHANGED <<toldVars, sessions, task, joins, frames, asked>>

LeaveCall(t) == Leave(t, {"left"})
Disconnect(t) == Leave(t, {"left", "dropped"})

(* end_control_on_participant_gone, end_control_sessions_for_disconnect. *)
EndForGone(g) ==
    /\ g.sess = 0
    /\ \/ \E s \in OpenOf(g.user) :
             /\ End(s)
             /\ ending' = (ending \ {g}) \cup {[g EXCEPT !.sess = s]}
       \/ OpenOf(g.user) = {} /\ ending' = ending \ {g} /\ UNCHANGED sessions
    /\ UNCHANGED <<hubVars, toldVars, task, joins, frames, asked>>

TellForGone(g) ==
    /\ g.sess # 0
    /\ Notify(g.sess)
    /\ ending' = ending \ {g}
    /\ UNCHANGED <<hubVars, sessions, task, joins, frames, asked>>

(* CONTROL_PENDING_TTL passes. *)
Expire ==
    /\ pending # NoRequest
    /\ ~pending.old
    /\ pending' = [pending EXCEPT !.old = TRUE]
    /\ UNCHANGED <<joined, sharing, toldVars, sessions, task, ending, joins, frames, asked>>

ControlStep(t) ==
    \/ \E kind \in Kinds \ {"none"} : Frame(t, kind)
    \/ GiveUp(t)
    \/ PickSharer(t) \/ BusyCheck(t) \/ ClaimCheck(t) \/ DropExpired(t) \/ ClaimInsert(t)
    \/ TakeCheck(t) \/ Take(t) \/ TakeMissed(t)
    \/ GrantCheck(t) \/ Start(t) \/ RelayGrant(t) \/ LabelOn(t)
    \/ Revoke(t) \/ Tell(t)

CallStep(t) ==
    JoinCall(t) \/ ShareStart(t) \/ ShareStop(t) \/ ShareEnd(t)
    \/ LeaveCall(t) \/ Disconnect(t)

Next ==
    \/ \E t \in Tabs : ControlStep(t) \/ CallStep(t)
    \/ \E g \in ending : EndForGone(g) \/ TellForGone(g)
    \/ Expire

Spec == Init /\ [][Next]_vars

-----------------------------------------------------------------------------
Ending == [user: Users, why: {"left", "dropped"}, sess: Nat]

(* Types of the roster, the requests, the sessions and the handlers. *)
TypeOK ==
    /\ joined \subseteq Tabs
    /\ sharing \subseteq Users
    /\ pending \in [from: Users \cup {Nobody}, to: Users \cup {Nobody}, old: BOOLEAN]
    /\ pending # NoRequest => pending.from # pending.to /\ pending.to # Nobody
    /\ sessions \in Seq(Session)
    /\ Len(sessions) <= MaxSessions
    /\ task \in [Tabs -> [pc: TaskPC, kind: Kinds, peer: Users \cup {Nobody}, sess: Nat]]
    /\ ending \subseteq Ending
    /\ told \subseteq Users
    /\ labelled \subseteq Users
    /\ joins \in Nat
    /\ frames \in Nat
    /\ asked \subseteq Users \X Users
    /\ notices \in [Ids -> Nat]

(* One session at a time, however many grants, revokes, departures and     *)
(* share stops run side by side.                                           *)
OneSession == \A r, s \in OpenIds : r = s

(* Tasks that closed session s and have yet to tell. *)
Tellers(s) ==
    {<<"tab", t>> : t \in {d \in Tabs : task[d].pc = "telling" /\ task[d].sess = s}}
    \cup {<<"task", g>> : g \in {e \in ending : e.sess = s}}

(* Each session that ended is told once, by the one task that ended it,    *)
(* whichever of revoke, share stop, leave and disconnect raced for it; a   *)
(* session that is open has not been told ended.                           *)
ToldOnce ==
    \A s \in DOMAIN sessions :
        IF sessions[s].open
          THEN notices[s] = 0 /\ Tellers(s) = {}
          ELSE \/ notices[s] = 1 /\ Tellers(s) = {}
               \/ notices[s] = 0 /\ \E x \in Tellers(s) : Tellers(s) = {x}

(* Nobody controls a screen without having asked its sharer, and no sharer *)
(* is controlled by a request that was put to somebody else.               *)
ControlWasAsked ==
    \A s \in DOMAIN sessions :
        <<sessions[s].controller, sessions[s].sharer>> \in asked

-----------------------------------------------------------------------------
(* What the parties see follows the sessions.                              *)

(* Handlers between finding the sharer sharing and labelling the tile. *)
GrantsUnderWay ==
    {t \in Tabs :
        \/ task[t].pc = "taking" /\ task[t].kind = "grant"
        \/ task[t].pc \in {"vetting", "starting", "granted", "labelling"}}

EndingsUnderWay ==
    {t \in Tabs : task[t].pc \in {"shareStopped", "telling"}} \cup ending

(* A grant meets another grant or the end of a session or of a share. *)
Crossing ==
    /\ GrantsUnderWay # {}
    /\ Cardinality(GrantsUnderWay) > 1 \/ EndingsUnderWay # {}

AtRest == ending = {} /\ \A t \in Tabs : task[t] = IdleTask

(* In a call where no grant ever crosses another grant or an ending, the   *)
(* three records of a session agree whenever the handlers are at rest: who *)
(* was told, whose tile is labelled and which row is open; and both its    *)
(* parties are in the call.                                                *)
ConsentSettles ==
    []~Crossing =>
        [](AtRest =>
            /\ told = {sessions[s].controller : s \in OpenIds}
            /\ labelled = {sessions[s].sharer : s \in OpenIds}
            /\ \A s \in OpenIds :
                  InCall(sessions[s].controller) /\ InCall(sessions[s].sharer))
=============================================================================
