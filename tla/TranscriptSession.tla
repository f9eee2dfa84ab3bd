--------------------------- MODULE TranscriptSession ---------------------------
(***************************************************************************)
(* The transcription sessions of one call room (routes/transcripts.rs,     *)
(* db/transcripts.rs) and the two hub markers that go with them: the open  *)
(* session and the session the server-side agent covers (ws/hub.rs).       *)
(*                                                                         *)
(* A session is opened by a start request, which may send for the agent;   *)
(* it is closed by an end request, by the room falling empty or by its     *)
(* starter's connection dropping.  All of them run side by side, and a     *)
(* step ends where one awaits or between two calls on the hub.             *)
(***************************************************************************)
EXTENDS Naturals, Sequences, FiniteSets

CONSTANTS
    Starters,       \* start requests that may be in flight at once
    Closers,        \* handlers that may be closing a session at once
    MaxSessions     \* bound: sessions of the room

ASSUME TranscriptAssumption == MaxSessions \in Nat

VARIABLES
    rows,           \* call_transcripts.status of the room's sessions, by age
    open,           \* open_transcripts: the session on record, or None
    agent,          \* transcript_agents: the session the agent covers, or None
    start,          \* what each start request is doing
    close,          \* what each closer is doing
    dispatch,       \* the spawned tasks that send for the agent
    capturing,      \* sessions the members were told have started
    covered,        \* sessions the members were told the agent covers
    dispatched,     \* history: agents sent for, by session
    saved           \* "transcript saved" messages, by session

vars == <<rows, open, agent, start, close, dispatch, capturing, covered,
          dispatched, saved>>

Ids == 1..MaxSessions
None == 0

StartPC == {"idle", "finding", "opened", "telling"}
ClosePC == {"idle", "ending", "clearAgent", "clearOpen", "telling", "saving"}
Ways == {"end", "room", "user"}

NoStart == [pc |-> "idle", sess |-> None, created |-> FALSE]
NoClose == [pc |-> "idle", sess |-> None, own |-> FALSE, won |-> FALSE]

Init ==
    /\ rows = << >>
    /\ open = None
    /\ agent = None
    /\ start = [p \in Starters |-> NoStart]
    /\ close = [c \in Closers |-> NoClose]
    /\ dispatch = {}
    /\ capturing = {}
    /\ covered = {}
    /\ dispatched = [s \in Ids |-> 0]
    /\ saved = [s \in Ids |-> 0]

OpenIds == {s \in DOMAIN rows : rows[s] = "active"}

-----------------------------------------------------------------------------
(* POST /call/{room_id}/transcript/start *)

(* Variant: no unique index on the room's active session. *)
NeverTaken == FALSE

(* idx_call_transcripts_one_open *)
RoomTaken == OpenIds # {}

StartInsert(p) ==
    /\ start[p].pc = "idle"
    /\ \/ /\ ~RoomTaken
          /\ Len(rows) < MaxSessions
          /\ rows' = Append(rows, "active")
          /\ start' = [start EXCEPT ![p] =
                [pc |-> "opened", sess |-> Len(rows) + 1, created |-> TRUE]]
       \/ /\ RoomTaken
          /\ rows' = rows
          /\ start' = [start EXCEPT ![p].pc = "finding"]
    /\ UNCHANGED <<open, agent, close, dispatch, capturing, covered, dispatched, saved>>

(* Variant: a session that is gone by now is taken for session 0. *)
FoundOrNone == IF OpenIds = {} THEN {None} ELSE OpenIds

(* open_session_for_room, after the unique violation. *)
Found == OpenIds

StartFind(p) ==
    /\ start[p].pc = "finding"
    /\ \/ \E s \in Found :
            start' = [start EXCEPT ![p] = [pc |-> "opened", sess |-> s, created |-> FALSE]]
       \/ Found = {} /\ start' = [start EXCEPT ![p] = NoStart]    \* RowNotFound
    /\ UNCHANGED <<rows, open, agent, close, dispatch, capturing, covered, dispatched, saved>>

(* set_open_transcript, after the starter's name was looked up. *)
StartTrack(p) ==
    /\ start[p].pc = "opened"
    /\ open' = start[p].sess
    /\ start' = [start EXCEPT ![p].pc = "telling"]
    /\ UNCHANGED <<rows, agent, close, dispatch, capturing, covered, dispatched, saved>>

(* maybe_dispatch_agent runs only for the request that opened the session. *)
SendsForAgent(p) == start[p].created

(* TranscriptStarted, then maybe_dispatch_agent.  That the agent is not set *)
(* up is one of the ways in which the dispatch fails.                      *)
StartTell(p) ==
    LET s == start[p].sess IN
    /\ start[p].pc = "telling"
    /\ capturing' = capturing \cup {s}
    /\ start' = [start EXCEPT ![p] = NoStart]
    /\ IF SendsForAgent(p)
         THEN /\ dispatch' = dispatch \cup {[sess |-> s, pc |-> "asking"]}
              /\ dispatched' = [dispatched EXCEPT ![s] = @ + 1]
         ELSE UNCHANGED <<dispatch, dispatched>>
    /\ UNCHANGED <<rows, open, agent, close, covered, saved>>

-----------------------------------------------------------------------------
(* The task spawned by maybe_dispatch_agent *)

Becomes(d, step) == dispatch' = (dispatch \ {d}) \cup {[d EXCEPT !.pc = step]}

DispatchFails(d) ==
    /\ d.pc = "asking"
    /\ dispatch' = dispatch \ {d}
    /\ UNCHANGED <<rows, open, agent, start, close, capturing, covered, dispatched, saved>>

(* Variant: the marker is set for whichever session asked last. *)
AnySession(s) == TRUE

OnRecord(s) == open = s

(* LiveKit confirms; set_transcript_agent looks at the session on record *)
(* (StartTrack came first, so there is an entry), ...                    *)
DispatchCheck(d) ==
    /\ d.pc = "asking"
    /\ Becomes(d, IF OnRecord(d.sess) THEN "arming" ELSE "telling")
    /\ UNCHANGED <<rows, open, agent, start, close, capturing, covered, dispatched, saved>>

(* ... lets go of it, and inserts. *)
DispatchArm(d) ==
    /\ d.pc = "arming"
    /\ agent' = d.sess
    /\ Becomes(d, "telling")
    /\ UNCHANGED <<rows, open, start, close, capturing, covered, dispatched, saved>>

(* TranscriptAgentActive: the members stop their own capture. *)
DispatchTell(d) ==
    /\ d.pc = "telling"
    /\ covered' = covered \cup {d.sess}
    /\ dispatch' = dispatch \ {d}
    /\ UNCHANGED <<rows, open, agent, start, close, capturing, dispatched, saved>>

-----------------------------------------------------------------------------
(* end, finalize_open_for_room, finalize_open_for_user *)

(* An end request names any session; the backstops read the open ones. *)
Close(c, way) ==
    /\ close[c].pc = "idle"
    /\ \E s \in IF way = "end" THEN DOMAIN rows ELSE OpenIds :
          close' = [close EXCEPT ![c] =
             [pc |-> "ending", sess |-> s, own |-> way = "user", won |-> FALSE]]
    /\ UNCHANGED <<rows, open, agent, start, dispatch, capturing, covered, dispatched, saved>>

(* Variant: every caller believes that it closed the session. *)
AlwaysWins(s) == TRUE

(* end_session: rows_affected > 0. *)
Wins(s) == rows[s] = "active"

(* The user backstop goes on only with the sessions it closed itself. *)
CloseRow(c) ==
    LET s == close[c].sess IN
    /\ close[c].pc = "ending"
    /\ rows' = [rows EXCEPT ![s] = "ended"]
    /\ close' = [close EXCEPT ![c] =
          IF close[c].own /\ ~Wins(s) THEN NoClose
          ELSE [pc |-> "clearAgent", sess |-> s, own |-> FALSE, won |-> Wins(s)]]
    /\ UNCHANGED <<open, agent, start, dispatch, capturing, covered, dispatched, saved>>

(* clear_transcript_agent: whichever session it is for. *)
ClearAgent(c) ==
    /\ close[c].pc = "clearAgent"
    /\ agent' = None
    /\ close' = [close EXCEPT ![c].pc = "clearOpen"]
    /\ UNCHANGED <<rows, open, start, dispatch, capturing, covered, dispatched, saved>>

(* Variant: the session stays on record. *)
LeftOnRecord(s) == open

(* clear_open_transcript: only if the session is still the one on record. *)
ClearedRecord(s) == IF open = s THEN None ELSE open

ClearOpen(c) ==
    /\ close[c].pc = "clearOpen"
    /\ open' = ClearedRecord(close[c].sess)
    /\ close' = [close EXCEPT ![c].pc = "telling"]
    /\ UNCHANGED <<rows, agent, start, dispatch, capturing, covered, dispatched, saved>>

(* TranscriptEnded *)
CloseTell(c) ==
    LET s == close[c].sess IN
    /\ close[c].pc = "telling"
    /\ capturing' = capturing \ {s}
    /\ covered' = covered \ {s}
    /\ close' = [close EXCEPT ![c] = IF @.won THEN [@ EXCEPT !.pc = "saving"] ELSE NoClose]
    /\ UNCHANGED <<rows, open, agent, start, dispatch, dispatched, saved>>

(* post_saved_message *)
Save(c) ==
    /\ close[c].pc = "saving"
    /\ saved' = [saved EXCEPT ![close[c].sess] = @ + 1]
    /\ close' = [close EXCEPT ![c] = NoClose]
    /\ UNCHANGED <<rows, open, agent, start, dispatch, capturing, covered, dispatched>>

-----------------------------------------------------------------------------
StartStep(p) == StartInsert(p) \/ StartFind(p) \/ StartTrack(p) \/ StartTell(p)

DispatchStep(d) ==
    DispatchFails(d) \/ DispatchCheck(d) \/ DispatchArm(d) \/ DispatchTell(d)

CloseStep(c) ==
    \/ \E way \in Ways : Close(c, way)
    \/ CloseRow(c) \/ ClearAgent(c) \/ ClearOpen(c) \/ CloseTell(c) \/ Save(c)

Next ==
    \/ \E p \in Starters : StartStep(p)
    \/ \E d \in dispatch : DispatchStep(d)
    \/ \E c \in Closers : CloseStep(c)

Spec == Init /\ [][Next]_vars

-----------------------------------------------------------------------------
Marker == Ids \cup {None}

(* Every variable keeps its type; a handler past its look-up holds a       *)
(* session that exists.                                                    *)
TypeOK ==
    /\ rows \in Seq({"active", "ended"})
    /\ Len(rows) <= MaxSessions
    /\ open \in Marker /\ agent \in Marker
    /\ start \in [Starters -> [pc: StartPC, sess: Marker, created: BOOLEAN]]
    /\ \A p \in Starters :
          start[p].pc \in {"opened", "telling"} => start[p].sess \in DOMAIN rows
    /\ close \in [Closers -> [pc: ClosePC, sess: Marker, own: BOOLEAN, won: BOOLEAN]]
    /\ \A c \in Closers : close[c].pc # "idle" => close[c].sess \in DOMAIN rows
    /\ dispatch \subseteq [sess: Ids, pc: {"asking", "arming", "telling"}]
    /\ capturing \subseteq Ids /\ covered \subseteq Ids
    /\ dispatched \in [Ids -> Nat] /\ saved \in [Ids -> Nat]

(* Concurrent starts open one session and send for one agent (LC-914),     *)
(* whichever of them inserts, joins or finds the session already gone.     *)
CallsDoNotFork ==
    /\ \A r, s \in OpenIds : r = s
    /\ \A s \in Ids : dispatched[s] <= 1

(* Closers that ended session s and have yet to post its notice. *)
Savers(s) == {c \in Closers : close[c].sess = s /\ close[c].won}

(* finalize and finalize_open_for_user: however many end requests and      *)
(* backstops race, the notice of a session is posted once, by the one that *)
(* ended it, and never for an open session.                                *)
SavedOnce ==
    \A s \in DOMAIN rows :
        IF rows[s] = "active"
          THEN saved[s] = 0 /\ Savers(s) = {}
          ELSE \/ saved[s] = 1 /\ Savers(s) = {}
               \/ saved[s] = 0 /\ \E c \in Savers(s) : Savers(s) = {c}

AtRest ==
    /\ dispatch = {}
    /\ \A p \in Starters : start[p] = NoStart
    /\ \A c \in Closers : close[c] = NoClose

(* A session ends before its start put it on record, or is cleared between *)
(* the two halves of set_transcript_agent.                                 *)
CutShort ==
    \/ \E p \in Starters : start[p].pc = "opened" /\ rows[start[p].sess] = "ended"
    \/ \E d \in dispatch, c \in Closers :
          /\ d.pc = "arming" /\ close[c].sess = d.sess
          /\ close[c].pc \in {"clearAgent", "clearOpen"}

(* LC-1033: a dispatch confirmed long after its session ended, while a     *)
(* newer one runs or none does, never leaves the marker on the dead        *)
(* session, in a room where no session is cut short.                       *)
LateDispatchLeavesNoMarker ==
    []~CutShort => [](AtRest => agent \in OpenIds \cup {None})

(* A start or a dispatch goes on for a session that has ended, or a closer *)
(* for one that has been followed by another.                              *)
Overtaken ==
    \/ \E p \in Starters :
          start[p].pc \in {"opened", "telling"} /\ rows[start[p].sess] = "ended"
    \/ \E d \in dispatch : rows[d.sess] = "ended"
    \/ \E c \in Closers : close[c].pc # "idle" /\ close[c].sess # Len(rows)

(* In a room where no handler is overtaken by the end of its session or by *)
(* a newer one, the markers and what the members know agree with the table *)
(* whenever the handlers are at rest: the open session is on record and    *)
(* captured, and the agent covers it or nothing.                           *)
MarkersSettle ==
    []~Overtaken =>
        [](AtRest =>
            /\ open = (IF OpenIds = {} THEN None ELSE Len(rows))
            /\ capturing = OpenIds
            /\ covered = {agent} \ {None}
            /\ covered \subseteq OpenIds)

(* Both: what the hub keeps about a transcript follows its session. *)
MarkersHold == LateDispatchLeavesNoMarker /\ MarkersSettle
=============================================================================
