------------------------------- MODULE DmRinging -------------------------------
(***************************************************************************)
(* The ringing slot of one DM: who rings whom (ws/hub.rs, the ringing map  *)
(* and its TTL tasks; routes/ws.rs, relay_call_signal).                    *)
(*                                                                         *)
(* A tab's frames are handled one after the other, those of two tabs side  *)
(* by side, on several threads.  A call on the ringing map is one step.    *)
(* A claim carries the moment it was made; moments are numbered here, and  *)
(* rings holds what the slot of each moment says.  The gates (membership,  *)
(* blocks, payload size) drop a frame before it touches anything; the      *)
(* media kinds (offer, answer, ice) touch neither slot nor ringing: such   *)
(* frames are left out.                                                    *)
(***************************************************************************)
EXTENDS Naturals, Sequences

CONSTANTS
    Members,        \* the two members of the DM
    Tabs,           \* their connections
    Owner,          \* the member behind each tab
    MaxRings,       \* bound: claims of the slot
    MaxFrames       \* bound: frames in all

ASSUME RingAssumption ==
    /\ \E u, v \in Members : u # v /\ Members = {u, v}
    /\ Owner \in [Tabs -> Members]
    /\ MaxRings \in Nat
    /\ MaxFrames \in Nat

VARIABLES
    rings,          \* every claim so far: its caller, and whether its TTL passed
    slot,           \* the ringing slot: the claim it holds, or 0
    killer,         \* the TTL task each claim spawned, and the claim it is after
    task,           \* what each tab's handler is doing
    heard,          \* the ring each member's tabs show, or 0
    frames,
    cleared,        \* history: claims a terminating signal released
    torn,           \* history: a claim was made between a check and its removal
    crossed         \* history: a call began or ended while the other was under way

vars == <<rings, slot, killer, task, heard, frames, cleared, torn, crossed>>

Claims == 1..MaxRings
Other(u) == CHOOSE v \in Members : v # u
IdleTask == [pc |-> "idle", ring |-> 0]
NoTask == [pc |-> "none", of |-> 0]

Init ==
    /\ rings = << >>
    /\ slot = 0
    /\ killer = [s \in Claims |-> NoTask]
    /\ task = [t \in Tabs |-> IdleTask]
    /\ heard = [u \in Members |-> 0]
    /\ frames = 0
    /\ cleared = {}
    /\ torn = FALSE
    /\ crossed = FALSE

Goto(t, step, s) == task' = [task EXCEPT ![t] = [pc |-> step, ring |-> s]]
Finish(t) == task' = [task EXCEPT ![t] = IdleTask]

(* The next frame of a tab is read. *)
Frame(t) == task[t] = IdleTask /\ frames < MaxFrames /\ frames' = frames + 1

(* What other tabs and the TTL tasks are in the middle of. *)
Others(t, steps) == \E o \in Tabs \ {t} : task[o].pc \in steps
Starting(t) == Others(t, {"inserting", "spawning", "ringing", "replaying"})
Ending(t) == Others(t, {"telling", "echoing"})
Removing(t) == Others(t, {"inserting"}) \/ \E s \in Claims : killer[s].pc = "removing"

--------------------------------------------------------------------------------
(* try_start_ringing *)

(* A new entry in the slot: the moment is now. *)
Insert(t) ==
    /\ Len(rings) < MaxRings
    /\ rings' = Append(rings, [caller |-> Owner[t], old |-> FALSE])
    /\ slot' = Len(rings) + 1
    /\ Goto(t, "spawning", slot')

(* A vacant slot: it is the caller's. *)
Claim(t) ==
    /\ Frame(t)
    /\ slot = 0
    /\ Insert(t)
    /\ torn' = (torn \/ Removing(t))
    /\ crossed' = (crossed \/ Starting(t) \/ Ending(t))
    /\ UNCHANGED <<killer, heard, cleared>>

(* Variant: a slot whose lifetime has passed is only removed. *)
EvictOnly(t) ==
    /\ Frame(t)
    /\ slot # 0 /\ rings[slot].old
    /\ slot' = 0
    /\ Goto(t, "ringing", 0)
    /\ UNCHANGED <<rings, killer, heard, cleared, torn, crossed>>

(* A slot whose lifetime has passed is removed ... *)
Evict(t) ==
    /\ Frame(t)
    /\ slot # 0 /\ rings[slot].old
    /\ Len(rings) < MaxRings
    /\ slot' = 0
    /\ Goto(t, "inserting", 0)
    /\ UNCHANGED <<rings, killer, heard, cleared, torn, crossed>>

(* ... and replaced, whatever was put there in between. *)
Replace(t) ==
    /\ task[t].pc = "inserting"
    /\ Insert(t)
    /\ torn' = (torn \/ slot # 0 \/ Removing(t))
    /\ crossed' = (crossed \/ Starting(t) \/ Ending(t))
    /\ UNCHANGED <<killer, heard, frames, cleared>>

(* DuplicateSelf: one's own ring is on.  Glare: the peer's is; it is       *)
(* replayed to the tabs of the one who called second.                      *)
Duplicate(t) ==
    /\ Frame(t)
    /\ slot # 0 /\ ~rings[slot].old /\ rings[slot].caller = Owner[t]
    /\ UNCHANGED <<rings, slot, killer, task, heard, cleared, torn, crossed>>

Glare(t) ==
    /\ Frame(t)
    /\ slot # 0 /\ ~rings[slot].old /\ rings[slot].caller # Owner[t]
    /\ Goto(t, "replaying", slot)
    /\ crossed' = (crossed \/ Ending(t))
    /\ UNCHANGED <<rings, slot, killer, heard, cleared, torn>>

(* Variant: the task is set on the claim before the caller's own. *)
SpawnForLast(t) ==
    /\ task[t].pc = "spawning"
    /\ killer' = [killer EXCEPT ![task[t].ring] = [pc |-> "asleep", of |-> task[t].ring - 1]]
    /\ Goto(t, "ringing", task[t].ring)
    /\ UNCHANGED <<rings, slot, heard, frames, cleared, torn, crossed>>

(* spawn_ringing_ttl reads the slot again; if it is empty, the task will   *)
(* compare with a moment no claim has.                                     *)
Spawn(t) ==
    /\ task[t].pc = "spawning"
    /\ killer' = [killer EXCEPT ![task[t].ring] = [pc |-> "asleep", of |-> slot]]
    /\ Goto(t, "ringing", task[t].ring)
    /\ UNCHANGED <<rings, slot, heard, frames, cleared, torn, crossed>>

(* The invite reaches the peer's tabs ("started a call." is posted after), *)
(* or the winner's invite the second caller's.                             *)
Ring(t) ==
    /\ task[t].pc = "ringing"
    /\ heard' = [heard EXCEPT ![Other(Owner[t])] = task[t].ring]
    /\ Finish(t)
    /\ UNCHANGED <<rings, slot, killer, frames, cleared, torn, crossed>>

Replay(t) ==
    /\ task[t].pc = "replaying"
    /\ heard' = [heard EXCEPT ![Owner[t]] = task[t].ring]
    /\ Finish(t)
    /\ UNCHANGED <<rings, slot, killer, frames, cleared, torn, crossed>>

--------------------------------------------------------------------------------
(* accept, reject, cancel and hangup, from either side at any time *)

(* clear_ringing *)
Clear(t) ==
    /\ Frame(t)
    /\ slot' = 0
    /\ cleared' = cleared \cup ({slot} \ {0})
    /\ Goto(t, "telling", 0)
    /\ crossed' = (crossed \/ Starting(t))
    /\ UNCHANGED <<rings, killer, heard, torn>>

(* Variant: the sender's other tabs are not told. *)
TellPeerOnly(t) ==
    /\ task[t].pc = "telling"
    /\ heard' = [heard EXCEPT ![Other(Owner[t])] = 0]
    /\ Finish(t)
    /\ UNCHANGED <<rings, slot, killer, frames, cleared, torn, crossed>>

(* Once its outcome is posted, the peer is told ... *)
TellPeer(t) ==
    /\ task[t].pc = "telling"
    /\ heard' = [heard EXCEPT ![Other(Owner[t])] = 0]
    /\ Goto(t, "echoing", 0)
    /\ UNCHANGED <<rings, slot, killer, frames, cleared, torn, crossed>>

(* ... and the sender's own tabs. *)
Echo(t) ==
    /\ task[t].pc = "echoing"
    /\ heard' = [heard EXCEPT ![Owner[t]] = 0]
    /\ Finish(t)
    /\ UNCHANGED <<rings, slot, killer, frames, cleared, torn, crossed>>

--------------------------------------------------------------------------------
(* Time and the TTL tasks *)

(* RINGING_TTL has passed since s was claimed, and since all before it. *)
Age(s) ==
    /\ s \in DOMAIN rings /\ ~rings[s].old
    /\ \A r \in 1..(s - 1) : rings[r].old
    /\ rings' = [rings EXCEPT ![s].old = TRUE]
    /\ UNCHANGED <<slot, killer, task, heard, frames, cleared, torn, crossed>>

(* The sleep began after the claim it is about, so it ends after its TTL. *)
Awake(s) == killer[s].pc = "asleep" /\ (killer[s].of # 0 => rings[killer[s].of].old)

(* Variant: whatever holds the slot goes. *)
CompareNothing(s) ==
    /\ Awake(s)
    /\ killer' = [killer EXCEPT ![s] =
            IF slot # 0 THEN [@ EXCEPT !.pc = "removing"] ELSE NoTask]
    /\ UNCHANGED <<rings, slot, task, heard, frames, cleared, torn, crossed>>

Compare(s) ==
    /\ Awake(s)
    /\ killer' = [killer EXCEPT ![s] =
            IF slot # 0 /\ slot = @.of THEN [@ EXCEPT !.pc = "removing"] ELSE NoTask]
    /\ UNCHANGED <<rings, slot, task, heard, frames, cleared, torn, crossed>>

(* The guard of the comparison is dropped before the slot is emptied. *)
Remove(s) ==
    /\ killer[s].pc = "removing"
    /\ slot' = 0
    /\ killer' = [killer EXCEPT ![s] = NoTask]
    /\ UNCHANGED <<rings, task, heard, frames, cleared, torn, crossed>>

--------------------------------------------------------------------------------

Handle(t) == Replace(t) \/ Spawn(t) \/ Ring(t) \/ Replay(t) \/ TellPeer(t) \/ Echo(t)
Invite(t) == Claim(t) \/ Evict(t) \/ Duplicate(t) \/ Glare(t)
Expire(s) == Compare(s) \/ Remove(s)

Next ==
    \/ \E t \in Tabs : Invite(t) \/ Clear(t) \/ Handle(t)
    \/ \E s \in Claims : Age(s) \/ Expire(s)

Spec == Init /\ [][Next]_vars

(* Time passes; the runtime runs handlers and tasks that are ready. *)
FairSpec ==
    /\ Spec
    /\ \A t \in Tabs : WF_vars(Handle(t))
    /\ \A s \in Claims : WF_vars(Age(s)) /\ WF_vars(Expire(s))

--------------------------------------------------------------------------------
(* Properties *)

(* Type correctness, and every handler and task is about a real claim. *)
TypeOK ==
    /\ rings \in Seq([caller: Members, old: BOOLEAN]) /\ Len(rings) <= MaxRings
    /\ slot \in {0} \cup DOMAIN rings
    /\ killer \in [Claims -> [pc: {"none", "asleep", "removing"}, of: {0} \cup DOMAIN rings]]
    /\ \A s \in Claims : killer[s].pc # "none" => s \in DOMAIN rings
    /\ task \in [Tabs -> [pc: {"idle", "inserting", "spawning", "ringing", "replaying",
                               "telling", "echoing"},
                          ring: {0} \cup DOMAIN rings]]
    /\ \A t \in Tabs : task[t].pc \in {"spawning", "ringing", "replaying"} <=> task[t].ring # 0
    /\ heard \in [Members -> {0} \cup DOMAIN rings]
    /\ frames \in 0..MaxFrames
    /\ cleared \subseteq DOMAIN rings
    /\ torn \in BOOLEAN /\ crossed \in BOOLEAN

(* A claim that nothing ended and whose lifetime has not passed keeps the  *)
(* slot: the two members never ring each other, and a TTL task spares a    *)
(* newer call - unless a claim fell between the check and the removal of a *)
(* TTL task or of an eviction, which the code does not exclude.            *)
OneLiveRing ==
    ~torn => \A s \in DOMAIN rings : ~rings[s].old /\ s \notin cleared => slot = s

(* What makes it inductive: a removal under way finds a slot that is empty *)
(* or has run out, and an eviction under way an empty one.                 *)
RemovalsAreLate ==
    ~torn =>
        /\ \A s \in Claims : killer[s].pc = "removing" => slot = 0 \/ rings[slot].old
        /\ \A t \in Tabs : task[t].pc = "inserting" => slot = 0

IndInv == TypeOK /\ OneLiveRing /\ RemovalsAreLate

(* When the handlers are at rest, the callee's tabs show the ring that     *)
(* holds the slot, and a ring still shown holds it or has run out - unless *)
(* a call began while another was being ended, or ended while it was being *)
(* announced: then the two signals may arrive in either order.             *)
RingsAgree ==
    (~torn /\ ~crossed /\ \A t \in Tabs : task[t] = IdleTask) =>
        /\ slot # 0 => heard[Other(rings[slot].caller)] = slot
        /\ \A u \in Members : heard[u] \in {0, slot} \/ rings[heard[u]].old

(* No call rings for ever: whoever claims the slot, and whatever crosses   *)
(* the claim, a TTL task comes to release it.                              *)
RingEnds == \A s \in Claims : []<>(slot # s)

================================================================================
