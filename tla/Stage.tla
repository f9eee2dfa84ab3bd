-------------------------------- MODULE Stage --------------------------------
(* The stage of one room (ws/hub.rs, routes/ws.rs, routes/stage.rs): who is *)
(* on it, who speaks, whose hand is up, and the panel a watcher of the room *)
(* sees.  A frame is checked, with awaits, before it is applied; a stage is *)
(* left for good when the last tab of a user closes.                        *)
EXTENDS Naturals

CONSTANTS
    Users, Hosts,
    MaxFrames       \* bound: frames sent

\* What a configuration must give.
StageAssumption == Hosts \subseteq Users /\ MaxFrames \in Nat

VARIABLES
    enabled,                        \* rooms.stage_enabled
    participants, speakers, hands,  \* StageState of the hub
    tabs,                           \* users with a live socket
    frame,                          \* a user's frame, checked and not yet applied
    leaving,                        \* users past hub.disconnect, before stage_leave_all
    changed, panel,                 \* a StageChanged under way; what the watcher sees
    frames,
    unrendered,                     \* history: the last change came while the stage was off
    joined, granted,                \* history: on the stage by their own join; by a host's word
    crossed                         \* history: taken off by an earlier disconnect

stage == <<participants, speakers, hands>>
view == <<changed, panel, unrendered>>
history == <<joined, granted, crossed>>
vars == <<enabled, stage, tabs, frame, leaving, view, frames, history>>

SelfActions == {"join", "leave", "raise", "lower", "stepdown"}
HostActions == {"promote", "demote"}
NoFrame == [act |-> "none"]
Roster == [on |-> participants, speaking |-> speakers, asking |-> hands]

Init ==
    /\ enabled = TRUE
    /\ participants = {} /\ speakers = {} /\ hands = {}
    /\ tabs = {} /\ leaving = {}
    /\ frame = [u \in Users |-> NoFrame]
    /\ changed = FALSE /\ panel = Roster /\ unrendered = FALSE
    /\ frames = 0
    /\ joined = {} /\ granted = {} /\ crossed = {}

(* handle_stage_self and handle_stage_host, up to the end of their checks. *)
Frame(u, act, target) ==
    /\ u \in tabs /\ frame[u] = NoFrame /\ frames < MaxFrames
    /\ enabled
    /\ act \in SelfActions => target = u
    /\ act \in HostActions => u \in Hosts
    /\ frame' = [frame EXCEPT ![u] = [act |-> act, target |-> target]]
    /\ frames' = frames + 1
    /\ UNCHANGED <<enabled, stage, tabs, leaving, view, history>>

\* Variant: whoever leaves keeps the floor for their return.
LeavesFloor(u) == participants' = participants \ {u} /\ UNCHANGED <<speakers, hands>>

(* stage_leave and stage_leave_all *)
TakenOff(u) ==
    /\ participants' = participants \ {u}
    /\ speakers' = speakers \ {u}
    /\ hands' = hands \ {u}

MayRaise(u) == u \in participants /\ u \notin speakers

Effect(act, u) ==
    \/ /\ act = "join" /\ participants' = participants \cup {u}
       /\ UNCHANGED <<speakers, hands>>
    \/ act = "leave" /\ TakenOff(u)
    \/ /\ act = "raise"
       /\ hands' = IF MayRaise(u) THEN hands \cup {u} ELSE hands
       /\ UNCHANGED <<participants, speakers>>
    \/ /\ act = "lower" /\ hands' = hands \ {u}
       /\ UNCHANGED <<participants, speakers>>
    \/ /\ act \in {"stepdown", "demote"} /\ speakers' = speakers \ {u}
       /\ UNCHANGED <<participants, hands>>
    \/ /\ act = "promote"
       /\ IF u \in participants THEN speakers' = speakers \cup {u} /\ hands' = hands \ {u}
                                ELSE UNCHANGED <<speakers, hands>>
       /\ UNCHANGED participants

Without(set, u, when) == IF when THEN set \ {u} ELSE set

(* The change in the hub and its StageChanged, once the checks have passed. *)
Apply(u) ==
    /\ frame[u] # NoFrame
    /\ LET act == frame[u].act
           who == frame[u].target
       IN /\ Effect(act, who)
          /\ joined' = IF act = "join" THEN joined \cup {who}
                       ELSE Without(joined, who, act = "leave")
          /\ crossed' = Without(crossed, who, act \in {"join", "leave"})
          /\ granted' = IF act = "promote" /\ who \in participants THEN granted \cup {who}
                        ELSE Without(granted, who, act \in {"leave", "stepdown", "demote"})
    /\ changed' = TRUE
    /\ frame' = [frame EXCEPT ![u] = NoFrame]
    /\ UNCHANGED <<enabled, tabs, leaving, panel, unrendered, frames>>

Open(u) ==
    /\ u \notin tabs /\ tabs' = tabs \cup {u}
    /\ UNCHANGED <<enabled, stage, frame, leaving, view, frames, history>>

\* The socket's loop is done with its frame before it ends.
Close(u) ==
    /\ u \in tabs /\ frame[u] = NoFrame /\ u \notin leaving
    /\ tabs' = tabs \ {u}
    /\ leaving' = leaving \cup {u}
    /\ joined' = joined \ {u}
    /\ UNCHANGED <<enabled, stage, frame, view, frames, granted, crossed>>

(* stage_leave_all, behind the awaits that follow the disconnect: the user  *)
(* may be back by then.                                                     *)
LeaveAll(u) ==
    /\ u \in leaving /\ leaving' = leaving \ {u}
    /\ TakenOff(u)
    /\ changed' = (changed \/ u \in participants)
    /\ granted' = granted \ {u}
    /\ crossed' = IF u \in joined THEN crossed \cup {u} ELSE crossed
    /\ UNCHANGED <<enabled, tabs, frame, panel, unrendered, frames, joined>>

\* post_stage: nobody is taken off, and no word goes out.
Toggle ==
    /\ frames < MaxFrames /\ frames' = frames + 1
    /\ enabled' = ~enabled
    /\ UNCHANGED <<stage, tabs, frame, leaving, view, history>>

(* render_panel reads the roster when the word reaches the watcher, and     *)
(* draws nothing while the stage is off.                                    *)
Render ==
    /\ changed /\ changed' = FALSE
    /\ panel' = IF enabled THEN Roster ELSE panel
    /\ unrendered' = ~enabled
    /\ UNCHANGED <<enabled, stage, tabs, frame, leaving, frames, history>>

Next ==
    \/ \E u, target \in Users, act \in SelfActions \cup HostActions : Frame(u, act, target)
    \/ \E u \in Users : Apply(u) \/ Open(u) \/ Close(u) \/ LeaveAll(u)
    \/ Toggle \/ Render

Spec == Init /\ [][Next]_vars

---------------------------------------------------------------------------
(* Who speaks or asks to is on the stage, and nobody does both.             *)
TypeOK ==
    /\ participants \subseteq Users
    /\ speakers \cup hands \subseteq participants
    /\ speakers \cap hands = {}

(* The floor is a host's to give: a speaker was promoted since they last    *)
(* came on the stage, a leave, a disconnect and a return in between or not.  *)
FloorWasGranted == speakers \subseteq granted

(* The stage is of those who are there: nobody stays on it whose tabs are   *)
(* gone, and whoever joined and stayed is on it, but where the disconnect   *)
(* of an earlier tab came after the join.                                   *)
StageIsOfThePresent ==
    /\ participants \subseteq tabs \cup leaving
    /\ joined \subseteq participants \cup crossed

(* A watcher ends on the roster, unless it changed while the stage was off. *)
PanelShowsRoster == ~changed /\ ~unrendered => panel = Roster
=============================================================================
