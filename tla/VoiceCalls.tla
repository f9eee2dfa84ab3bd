------------------------------ MODULE VoiceCalls ------------------------------
(***************************************************************************)
(* The log of calls of one voice room (db/voice_calls.rs): a call is the   *)
(* span during which the room is not empty.  Whoever finds the room empty  *)
(* opens it, whoever leaves the room empty spawns a task that closes it    *)
(* (handle_voice_join and handle_voice_leave, routes/ws.rs), and nothing   *)
(* but the hub's roster connects the two.                                  *)
(*                                                                         *)
(* A connection handles one frame at a time; a step ends where its handler *)
(* or a spawned task awaits, and between two calls on the hub.  What the   *)
(* events of the call record, and the broadcasts, are left out.            *)
(***************************************************************************)
EXTENDS Naturals, FiniteSets

CONSTANTS
    Conns,          \* WebSocket connections
    MaxJoins,       \* bound: voice_join frames
    MaxFaults       \* bound: failed statements and crashes

ASSUME CallAssumption == MaxJoins \in Nat /\ MaxFaults \in Nat

VARIABLES
    roster,         \* voice_rooms: the connections in the room
    conn,           \* what each connection's handler is doing
    open,           \* voice_calls of the room with ended_at NULL
    nextCall,       \* its AUTOINCREMENT counter
    tasks,          \* the tasks spawned by departures, by number
    nextTask,
    joins,
    overtaken,      \* history: a join crossed the departure that emptied the room
    stranded,       \* history: calls whose room emptied with nobody to close them
    faults

voiceVars == <<roster, conn, open, nextCall, tasks, nextTask, joins, overtaken, stranded, faults>>

CallIds == 1..MaxJoins
TaskIds == 1..MaxJoins
None == 0

Handlers == {"idle", "entering", "gap", "closeStale", "insert", "leaving"}
Idle == [pc |-> "idle", started |-> FALSE]
NoCloser == [pc |-> "none", last |-> FALSE, call |-> None]

VoiceInit ==
    /\ roster = {}
    /\ conn = [c \in Conns |-> Idle]
    /\ open = {}
    /\ nextCall = 1
    /\ tasks = [t \in TaskIds |-> NoCloser]
    /\ nextTask = 1
    /\ joins = 0
    /\ overtaken = FALSE
    /\ stranded = {}
    /\ faults = 0

Fault == faults < MaxFaults /\ faults' = faults + 1
NoFault == faults' = faults

-----------------------------------------------------------------------------
(* handle_voice_join *)

(* started_huddle is read before the connection is on the roster. *)
JoinRead(c) ==
    /\ conn[c].pc = "idle" /\ joins < MaxJoins
    /\ joins' = joins + 1
    /\ conn' = [conn EXCEPT ![c] = [pc |-> "entering", started |-> roster = {}]]
    /\ UNCHANGED <<roster, open, nextCall, tasks, nextTask, overtaken, stranded, faults>>

(* Hub::voice_join of a connection already in the room takes it out ... *)
JoinGap(c) ==
    /\ conn[c].pc = "entering" /\ c \in roster
    /\ roster' = roster \ {c}
    /\ conn' = [conn EXCEPT ![c].pc = "gap"]
    /\ UNCHANGED <<open, nextCall, tasks, nextTask, joins, overtaken, stranded, faults>>

(* A departure that will close whatever call it finds. *)
Sweeping(t) == tasks[t].pc # "none" /\ tasks[t].last /\ tasks[t].call = None

(* ... and puts it in.  Only who found the room empty opens a call. *)
JoinEnter(c) ==
    /\ \/ conn[c].pc = "entering" /\ c \notin roster
       \/ conn[c].pc = "gap"
    /\ roster' = roster \cup {c}
    /\ conn' = [conn EXCEPT ![c] =
            IF @.started THEN [@ EXCEPT !.pc = "closeStale"] ELSE Idle]
    /\ overtaken' = \/ overtaken
                    \/ ~conn[c].started /\ roster = {}
                    \/ \E t \in TaskIds : Sweeping(t)
    /\ UNCHANGED <<open, nextCall, tasks, nextTask, joins, stranded, faults>>

(* voice_calls::open: close what a crash may have left, then insert. *)
OpenCloseStale(c) ==
    /\ conn[c].pc = "closeStale"
    /\ \/ NoFault /\ open' = {} /\ conn' = [conn EXCEPT ![c].pc = "insert"]
       \/ Fault /\ open' = open /\ conn' = [conn EXCEPT ![c] = Idle]
    /\ UNCHANGED <<roster, nextCall, tasks, nextTask, joins, overtaken, stranded>>

(* Variant: no unique index on the room's open call. *)
NeverTaken == FALSE

(* idx_voice_calls_one_open *)
RoomTaken == open # {}

OpenInsert(c) ==
    /\ conn[c].pc = "insert" /\ nextCall \in CallIds
    /\ \/ ~RoomTaken /\ NoFault /\ open' = open \cup {nextCall} /\ nextCall' = nextCall + 1
       \/ RoomTaken /\ NoFault /\ UNCHANGED <<open, nextCall>>
       \/ Fault /\ UNCHANGED <<open, nextCall>>
    /\ conn' = [conn EXCEPT ![c] = Idle]
    /\ UNCHANGED <<roster, tasks, nextTask, joins, overtaken, stranded>>

-----------------------------------------------------------------------------
(* handle_voice_leave, for a voice_leave frame or a closed socket *)

LeaveDrop(c) ==
    /\ conn[c].pc = "idle" /\ c \in roster
    /\ roster' = roster \ {c}
    /\ conn' = [conn EXCEPT ![c].pc = "leaving"]
    /\ UNCHANGED <<open, nextCall, tasks, nextTask, joins, overtaken, stranded, faults>>

(* Variant: the leaver never sees the room empty. *)
NeverEmpty == FALSE

(* is_last *)
RoomEmpty == roster = {}

(* The task that logs the departure is spawned with is_last in hand. *)
LeaveSpawn(c) ==
    /\ conn[c].pc = "leaving" /\ nextTask \in TaskIds
    /\ tasks' = [tasks EXCEPT ![nextTask] =
            [pc |-> "resolve", last |-> RoomEmpty, call |-> None]]
    /\ nextTask' = nextTask + 1
    /\ conn' = [conn EXCEPT ![c] = Idle]
    /\ UNCHANGED <<roster, open, nextCall, joins, overtaken, stranded, faults>>

(* voice_calls::open_id; a failed look-up finds no call. *)
TaskResolve(t) ==
    /\ tasks[t].pc = "resolve"
    /\ \E call \in CallIds \cup {None} :
          /\ \/ NoFault /\ call \in (IF open = {} THEN {None} ELSE open)
             \/ Fault /\ call = None
          /\ tasks' = [tasks EXCEPT ![t] =
                IF @.last THEN [@ EXCEPT !.pc = "close", !.call = call] ELSE NoCloser]
    /\ UNCHANGED <<roster, conn, open, nextCall, nextTask, joins, overtaken, stranded>>

(* Variant: the close is not scoped to the resolved call. *)
AllClosed(call) == {}

(* voice_calls::close: the resolved call, or the room's when there is none. *)
Closed(call) == IF call = None THEN {} ELSE open \ {call}

TaskClose(t) ==
    /\ tasks[t].pc = "close"
    /\ \/ NoFault /\ open' = Closed(tasks[t].call) /\ stranded' = stranded
       \/ Fault /\ open' = open /\ stranded' = stranded \cup open
    /\ tasks' = [tasks EXCEPT ![t] = NoCloser]
    /\ UNCHANGED <<roster, conn, nextCall, nextTask, joins, overtaken>>

-----------------------------------------------------------------------------
(* A join of another room drops this one with no word to anybody. *)
MoveAway(c) ==
    /\ conn[c].pc = "idle" /\ c \in roster
    /\ roster' = roster \ {c}
    /\ stranded' = IF roster' = {} THEN stranded \cup open ELSE stranded
    /\ UNCHANGED <<conn, open, nextCall, tasks, nextTask, joins, overtaken, faults>>

(* The process stops: the roster and the tasks go, the rows stay. *)
Crash ==
    /\ Fault
    /\ roster' = {}
    /\ conn' = [c \in Conns |-> Idle]
    /\ tasks' = [t \in TaskIds |-> NoCloser]
    /\ stranded' = stranded \cup open
    /\ UNCHANGED <<open, nextCall, nextTask, joins, overtaken>>

HandlerStep(c) ==
    \/ JoinGap(c) \/ JoinEnter(c) \/ OpenCloseStale(c) \/ OpenInsert(c)
    \/ LeaveSpawn(c)

TaskStep(t) == TaskResolve(t) \/ TaskClose(t)

VoiceNext ==
    \/ \E c \in Conns : JoinRead(c) \/ HandlerStep(c) \/ LeaveDrop(c) \/ MoveAway(c)
    \/ \E t \in TaskIds : TaskStep(t)
    \/ Crash

VoiceSpec == VoiceInit /\ [][VoiceNext]_voiceVars

(* Handlers and spawned tasks run on while the server does. *)
VoiceFairSpec ==
    /\ VoiceSpec
    /\ \A c \in Conns : WF_voiceVars(HandlerStep(c))
    /\ \A t \in TaskIds : WF_voiceVars(TaskStep(t))

-----------------------------------------------------------------------------
(* Types; at most one call of the room is open. *)
VoiceTypeOK ==
    /\ roster \subseteq Conns
    /\ conn \in [Conns -> [pc: Handlers, started: BOOLEAN]]
    /\ open \subseteq CallIds /\ \A j, k \in open : j = k
    /\ nextCall \in 1..MaxJoins + 1
    /\ tasks \in [TaskIds -> [pc: {"none", "resolve", "close"}, last: BOOLEAN,
                              call: CallIds \cup {None}]]
    /\ nextTask \in 1..MaxJoins + 1
    /\ joins \in 0..MaxJoins
    /\ overtaken \in BOOLEAN
    /\ stranded \subseteq CallIds
    /\ faults \in 0..MaxFaults

Opening(c) == conn[c].pc \in {"closeStale", "insert"}
Departing(c) == conn[c].pc \in {"leaving", "gap"}
Closing(t) == tasks[t].pc # "none" /\ tasks[t].last

(* A call is one span the room is not empty (db/voice_calls.rs), whatever  *)
(* interleaves: an occupied room has a call, or somebody about to open it, *)
(* unless a join crossed the departure that emptied the room; and a call   *)
(* is open only while somebody is in the room or on the way to close it,   *)
(* unless a crash, a failed close or a silent move left it behind.         *)
CallSpansRoom ==
    /\ roster # {} /\ ~overtaken /\ faults = 0 => open # {} \/ \E c \in Conns : Opening(c)
    /\ open \subseteq stranded \/ roster # {}
       \/ (\E c \in Conns : Departing(c)) \/ (\E t \in TaskIds : Closing(t))

(* A room left empty has its call closed in the end, by the task of its    *)
(* last departure, if nobody comes back and nothing fails.                 *)
EmptyRoomCloses ==
    \A k \in CallIds :
        []<>(k \notin open \/ k \in stranded \/ roster # {})
=============================================================================
