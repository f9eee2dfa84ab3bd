---------------------------- MODULE HubConnections ----------------------------
(***************************************************************************)
(* Live WebSocket connections in the hub (ws/hub.rs): the connection map,  *)
(* the per-user index of connections, the subscribers of one enclave topic *)
(* and the presence each user was last announced with.  A connection       *)
(* handler (routes/ws.rs, handle_socket) registers, subscribes and         *)
(* unregisters its socket; a member removal (routes/enclave.rs, post_kick  *)
(* and post_leave; routes/room.rs, the burst ban) drops subscriptions.     *)
(*                                                                         *)
(* Each map locks one key at a time, so one call on one map is one action  *)
(* and two calls are two.  Connection ids are never reused.                *)
(***************************************************************************)
EXTENDS Naturals, FiniteSets

CONSTANTS
    Users,
    Conns,          \* connection ids
    Owner,          \* the user whose session opened each connection
    MaxJoins,       \* bound: times a user accepts an invitation
    MaxFaults       \* bound: failed reads of the user record

ASSUME HubAssumption ==
    /\ Owner \in [Conns -> Users]
    /\ MaxJoins \in Nat
    /\ MaxFaults \in Nat

VARIABLES
    pc,             \* where each connection's handler is
    connections,    \* Hub::connections
    index,          \* Hub::user_conns, an entry per user
    topic,          \* Hub::topics, the set of one enclave's topic
    page,           \* connections whose current_enclave is that enclave
    member,         \* enclave_members in chat.db
    removal,        \* the request removing each user from the enclave
    shown,          \* the presence last broadcast for each user
    joins, faults,
    late,           \* history: subscribed while their user was no member
    blurred         \* history: users with an overlapping connect, or a fault

vars == <<pc, connections, index, topic, page, member, removal, shown,
          joins, faults, late, blurred>>

ConnPC == {"new", "registered", "first", "live", "subscribing",
           "moving", "closing", "emptied", "last", "dropping", "backstops", "gone"}
Opening == {"registered", "first"}
Closing == {"closing", "emptied", "last", "dropping", "backstops"}

NoEntry == [there |-> FALSE, ids |-> {}]
Idle == [step |-> "idle", ids |-> {}]

Init ==
    /\ pc = [c \in Conns |-> "new"]
    /\ connections = {}
    /\ index = [u \in Users |-> NoEntry]
    /\ topic = {}
    /\ page = {}
    /\ member = Users
    /\ removal = [u \in Users |-> Idle]
    /\ shown = [u \in Users |-> "offline"]
    /\ joins = 0
    /\ faults = 0
    /\ late = {}
    /\ blurred = {}

(* A user whose one connection opens while another closes. *)
Overlapping(p) ==
    {u \in Users : \E c, d \in Conns :
        Owner[c] = u /\ Owner[d] = u /\ p[c] \in Opening /\ p[d] \in Closing}

Goto(c, step) ==
    /\ pc' = [pc EXCEPT ![c] = step]
    /\ blurred' = blurred \cup Overlapping(pc')

-----------------------------------------------------------------------------
(* handle_socket, opening: Hub::connect, then the presence announcement.   *)

Register(c) ==
    /\ pc[c] = "new"
    /\ connections' = connections \cup {c}
    /\ Goto(c, "registered")
    /\ UNCHANGED <<index, topic, page, member, removal, shown, joins, faults, late>>

Index(c) ==
    /\ pc[c] = "registered"
    /\ index' = [index EXCEPT ![Owner[c]] =
                    [there |-> TRUE, ids |-> @.ids \cup {c}]]
    /\ Goto(c, IF index[Owner[c]].ids = {} THEN "first" ELSE "live")
    /\ UNCHANGED <<connections, topic, page, member, removal, shown, joins, faults, late>>

(* Only after a fresh read of the user record. *)
Announce(c) ==
    /\ pc[c] = "first"
    /\ shown' = [shown EXCEPT ![Owner[c]] = "online"]
    /\ Goto(c, "live")
    /\ UNCHANGED <<connections, index, topic, page, member, removal, joins, faults, late>>

AnnounceFails(c) ==
    /\ pc[c] = "first"
    /\ faults < MaxFaults
    /\ faults' = faults + 1
    /\ pc' = [pc EXCEPT ![c] = "live"]
    /\ blurred' = blurred \cup {Owner[c]}
    /\ UNCHANGED <<connections, index, topic, page, member, removal, shown, joins, late>>

-----------------------------------------------------------------------------
(* Frames.  Both authorise against the database first and act on the hub   *)
(* afterwards; the reading loop takes no other frame in between.  The      *)
(* users here are not site administrators.                                 *)

(* topic_subscribe_allowed, asked about the enclave *)
TopicAllowed(c) == Owner[c] \in member

(* SubscribeTopic, let through; refused, it does nothing. *)
SubscribeCheck(c) ==
    /\ pc[c] = "live"
    /\ TopicAllowed(c)
    /\ Goto(c, "subscribing")
    /\ UNCHANGED <<connections, index, topic, page, member, removal, shown, joins, faults, late>>

(* Hub::subscribe_topic. *)
JoinTopic(c) ==
    /\ topic' = topic \cup {c}
    /\ page' = page \cup {c}
    /\ late' = IF Owner[c] \in member THEN late \ {c} ELSE late \cup {c}

Subscribe(c) ==
    /\ pc[c] = "subscribing"
    /\ JoinTopic(c)
    /\ Goto(c, "live")
    /\ UNCHANGED <<connections, index, member, removal, shown, joins, faults>>

(* PageContext naming the enclave: let through, it subscribes like the     *)
(* frame above; refused, it counts as a page outside the enclave.          *)
PageCheck(c) ==
    /\ pc[c] = "live"
    /\ Goto(c, IF TopicAllowed(c) THEN "subscribing" ELSE "moving")
    /\ UNCHANGED <<connections, index, topic, page, member, removal, shown, joins, faults, late>>

PageElsewhere(c) ==
    /\ pc[c] = "live"
    /\ Goto(c, "moving")
    /\ UNCHANGED <<connections, index, topic, page, member, removal, shown, joins, faults, late>>

(* apply_page_context leaves the topic of the enclave it remembers. *)
LeaveTopic(c) ==
    /\ topic' = IF c \in page THEN topic \ {c} ELSE topic
    /\ page' = page \ {c}

PageMove(c) ==
    /\ pc[c] = "moving"
    /\ LeaveTopic(c)
    /\ Goto(c, "live")
    /\ UNCHANGED <<connections, index, member, removal, shown, joins, faults, late>>

-----------------------------------------------------------------------------
(* handle_socket, closing: Hub::disconnect, then the backstops and the     *)
(* offline announcement.                                                   *)

Close(c) ==
    /\ pc[c] = "live"
    /\ connections' = connections \ {c}
    /\ Goto(c, "closing")
    /\ UNCHANGED <<index, topic, page, member, removal, shown, joins, faults, late>>

Remaining(c) == index[Owner[c]].ids \ {c}

(* Variant: any closing connection takes its user offline. *)
AlwaysLast(c) == index[Owner[c]].there

(* The user went offline when the index has no other connection of theirs. *)
LastOne(c) == index[Owner[c]].there /\ Remaining(c) = {}

Unindex(c) ==
    /\ pc[c] = "closing"
    /\ index' = [index EXCEPT ![Owner[c]].ids = Remaining(c)]
    /\ Goto(c, IF LastOne(c) THEN "emptied" ELSE "dropping")
    /\ UNCHANGED <<connections, topic, page, member, removal, shown, joins, faults, late>>

(* The entry's lock was released to remove the entry from the map. *)
RemoveEntry(c) ==
    /\ pc[c] = "emptied"
    /\ index' = [index EXCEPT ![Owner[c]] = NoEntry]
    /\ Goto(c, "last")
    /\ UNCHANGED <<connections, topic, page, member, removal, shown, joins, faults, late>>

(* Variant: only a user's last connection is forgotten. *)
ForgetIfLast(c) ==
    /\ pc[c] \in {"last", "dropping"}
    /\ topic' = IF pc[c] = "last" THEN topic \ {c} ELSE topic
    /\ Goto(c, IF pc[c] = "last" THEN "backstops" ELSE "gone")
    /\ UNCHANGED <<connections, index, page, member, removal, shown, joins, faults, late>>

(* Every topic (and room) loses the connection. *)
Forget(c) ==
    /\ pc[c] \in {"last", "dropping"}
    /\ topic' = topic \ {c}
    /\ Goto(c, IF pc[c] = "last" THEN "backstops" ELSE "gone")
    /\ UNCHANGED <<connections, index, page, member, removal, shown, joins, faults, late>>

(* Remote control, transcripts and stages of the user were finalised first. *)
Goodbye(c) ==
    /\ pc[c] = "backstops"
    /\ shown' = [shown EXCEPT ![Owner[c]] = "offline"]
    /\ Goto(c, "gone")
    /\ UNCHANGED <<connections, index, topic, page, member, removal, joins, faults, late>>

-----------------------------------------------------------------------------
(* Removing a member, and taking one back. *)

(* remove_member, followed by a broadcast and other awaits. *)
Remove(u) ==
    /\ removal[u] = Idle
    /\ u \in member
    /\ member' = member \ {u}
    /\ removal' = [removal EXCEPT ![u].step = "removed"]
    /\ UNCHANGED <<pc, connections, index, topic, page, shown, joins, faults, late, blurred>>

(* unsubscribe_user_from_topic collects the user's connections, ... *)
Collect(u) ==
    /\ removal[u].step = "removed"
    /\ removal' = [removal EXCEPT ![u] = [step |-> "dropping", ids |-> index[u].ids]]
    /\ UNCHANGED <<pc, connections, index, topic, page, member, shown, joins, faults, late, blurred>>

(* ... unsubscribes them one by one, ... *)
Drop(u, c) ==
    /\ removal[u].step = "dropping"
    /\ c \in removal[u].ids
    /\ topic' = topic \ {c}
    /\ removal' = [removal EXCEPT ![u].ids = @ \ {c}]
    /\ UNCHANGED <<pc, connections, index, page, member, shown, joins, faults, late, blurred>>

(* Variant: the loop stops after its first connection. *)
DroppedAfterOne(u) ==
    /\ removal[u].step = "dropping"
    /\ removal' = [removal EXCEPT ![u].step = "idle"]
    /\ UNCHANGED <<pc, connections, index, topic, page, member, shown, joins, faults, late, blurred>>

(* ... and returns. *)
Dropped(u) ==
    /\ removal[u].step = "dropping"
    /\ removal[u].ids = {}
    /\ removal' = [removal EXCEPT ![u] = Idle]
    /\ UNCHANGED <<pc, connections, index, topic, page, member, shown, joins, faults, late, blurred>>

(* An accepted invitation. *)
Join(u) ==
    /\ u \notin member
    /\ joins < MaxJoins
    /\ member' = member \cup {u}
    /\ joins' = joins + 1
    /\ UNCHANGED <<pc, connections, index, topic, page, removal, shown, faults, late, blurred>>

ConnStep(c) ==
    \/ Register(c) \/ Index(c) \/ Announce(c) \/ AnnounceFails(c)
    \/ SubscribeCheck(c) \/ Subscribe(c)
    \/ PageCheck(c) \/ PageElsewhere(c) \/ PageMove(c)
    \/ Close(c) \/ Unindex(c) \/ RemoveEntry(c) \/ Forget(c) \/ Goodbye(c)

MemberStep(u) ==
    \/ Remove(u) \/ Collect(u) \/ Dropped(u) \/ Join(u)
    \/ \E c \in Conns : Drop(u, c)

Next == (\E c \in Conns : ConnStep(c)) \/ (\E u \in Users : MemberStep(u))

Spec == Init /\ [][Next]_vars

-----------------------------------------------------------------------------
(* Types of the hub's maps (Hub, ws/hub.rs); the connections a removal     *)
(* collected are kept only while it drops them.                            *)
TypeOK ==
    /\ pc \in [Conns -> ConnPC]
    /\ connections \subseteq Conns
    /\ index \in [Users -> [there: BOOLEAN, ids: SUBSET Conns]]
    /\ topic \subseteq Conns
    /\ page \subseteq Conns
    /\ member \subseteq Users
    /\ removal \in [Users -> [step: {"idle", "removed", "dropping"}, ids: SUBSET Conns]]
    /\ \A u \in Users : removal[u].step # "dropping" => removal[u].ids = {}
    /\ shown \in [Users -> {"offline", "online"}]
    /\ joins \in Nat
    /\ faults \in Nat
    /\ late \subseteq Conns
    /\ blurred \subseteq Users

Of(u) == {c \in Conns : Owner[c] = u}
IsConnected(u) == index[u].ids # {}     \* Hub::is_user_connected
Open(u) == {c \in Of(u) : pc[c] \notin {"new", "registered", "gone"} \cup Closing}
Settled(u) == \A c \in Of(u) : pc[c] \in {"new", "live", "gone"}

(* A closed connection leaves nothing behind in the maps, whatever the     *)
(* other connections and the removals of its user do meanwhile: the hub    *)
(* does not leak, and no event is queued for a socket that is gone.        *)
ClosedIsForgotten ==
    \A c \in Conns : pc[c] = "gone" =>
        /\ c \notin connections
        /\ c \notin topic
        /\ \A u \in Users : c \notin index[u].ids

(* Tabs come and go; as long as none of a user's opens while another       *)
(* closes, the presence everybody sees, and the answer of                  *)
(* is_user_connected that routes pushes and mail, follow the connections.  *)
PresenceSettles ==
    \A u \in Users : Settled(u) /\ u \notin blurred =>
        /\ shown[u] = "online" <=> Open(u) # {}
        /\ index[u].ids = Open(u)

(* Once a removal has returned, a connection of the removed user still on  *)
(* the topic is one of two: its subscription was let through before the    *)
(* removal and entered after it, or the index no longer lists it.          *)
RemovalReachesTopic ==
    \A c \in topic :
        Owner[c] \notin member /\ removal[Owner[c]].step = "idle" =>
            c \in late \/ c \notin index[Owner[c]].ids

-----------------------------------------------------------------------------
(* hub.rs, is_user_connected: "True when `user_id` has at least one open   *)
(* WebSocket."                                                             *)
OpenSocketsAreConnected ==
    \A u \in Users : Settled(u) /\ Open(u) # {} => IsConnected(u)

=============================================================================
