------------------------------ MODULE CallsProofs ------------------------------
(***************************************************************************)
(* Theorems about calls: the ringing slot of a DM (DmRinging), for any     *)
(* number of tabs, claims and frames, and the call log of a voice room     *)
(* (VoiceCalls), for any connections and any bounds; and both in the       *)
(* composition MCCalls.                                                    *)
(***************************************************************************)
EXTENDS MCCalls, SequenceTheorems, TLAPS

USE RingAssumption

TaskPCs == {"idle", "inserting", "spawning", "ringing", "replaying", "telling", "echoing"}
HasRing == {"spawning", "ringing", "replaying"}

LEMMA OtherIsMember == ASSUME NEW u \in Members PROVE Other(u) \in Members
  BY DEF Other

(* A handler step changes the record of its own tab only. *)
LEMMA GotoTyped ==
    ASSUME TypeOK, NEW t \in Tabs, NEW step \in TaskPCs, NEW s \in {0} \cup DOMAIN rings',
           DOMAIN rings \subseteq DOMAIN rings',
           step \in HasRing <=> s # 0,
           task' = [task EXCEPT ![t] = [pc |-> step, ring |-> s]]
    PROVE  /\ task' \in [Tabs -> [pc: TaskPCs, ring: {0} \cup DOMAIN rings']]
           /\ \A o \in Tabs : task'[o].pc \in HasRing <=> task'[o].ring # 0
  BY DEF TypeOK, TaskPCs, HasRing

(* A claim is a new number after all those made. *)
LEMMA InsertTyped ==
    ASSUME TypeOK, NEW t \in Tabs, Insert(t)
    PROVE  /\ rings' \in Seq([caller: Members, old: BOOLEAN]) /\ Len(rings') <= MaxRings
           /\ DOMAIN rings \subseteq DOMAIN rings'
           /\ slot' \in DOMAIN rings' /\ slot' # 0 /\ slot' \notin DOMAIN rings
           /\ DOMAIN rings' = DOMAIN rings \cup {slot'}
           /\ \A s \in DOMAIN rings : rings'[s] = rings[s]
           /\ task' = [task EXCEPT ![t] = [pc |-> "spawning", ring |-> slot']]
<1>1. Owner[t] \in Members /\ Len(rings) \in Nat /\ DOMAIN rings = 1..Len(rings)
  BY DEF TypeOK
<1>2. rings' = Append(rings, [caller |-> Owner[t], old |-> FALSE]) /\ slot' = Len(rings) + 1
  BY DEF Insert
<1>3. [caller |-> Owner[t], old |-> FALSE] \in [caller: Members, old: BOOLEAN]
  BY <1>1
<1>4. /\ rings' \in Seq([caller: Members, old: BOOLEAN])
      /\ Len(rings') = Len(rings) + 1
      /\ \A s \in 1..Len(rings) : rings'[s] = rings[s]
  BY <1>1, <1>2, <1>3 DEF TypeOK
<1>5. DOMAIN rings' = 1..(Len(rings) + 1)
  BY <1>4
<1> QED
  BY <1>1, <1>2, <1>4, <1>5 DEF Insert, Goto

-------------------------------------------------------------------------------
LEMMA InitTyped == Init => TypeOK
<1> SUFFICES ASSUME Init PROVE TypeOK
  OBVIOUS
<1>1. rings = << >> /\ rings \in Seq([caller: Members, old: BOOLEAN]) /\ Len(rings) = 0
  BY DEF Init
<1>2. frames \in 0..MaxFrames /\ slot = 0 /\ cleared = {} /\ torn = FALSE /\ crossed = FALSE
  BY DEF Init
<1>3. killer \in [Claims -> [pc: {"none", "asleep", "removing"}, of: {0} \cup DOMAIN rings]]
      /\ \A s \in Claims : killer[s].pc = "none"
  BY DEF Init, NoTask
<1>4. task \in [Tabs -> [pc: TaskPCs, ring: {0} \cup DOMAIN rings]]
      /\ \A t \in Tabs : task[t].pc = "idle" /\ task[t].ring = 0
  BY DEF Init, IdleTask, TaskPCs
<1>5. heard \in [Members -> {0} \cup DOMAIN rings]
  BY DEF Init
<1>6. Len(rings) <= MaxRings
  BY <1>1
<1>7. slot \in {0} \cup DOMAIN rings /\ cleared \subseteq DOMAIN rings
      /\ torn \in BOOLEAN /\ crossed \in BOOLEAN
  BY <1>2
<1>8. /\ \A s \in Claims : killer[s].pc # "none" => s \in DOMAIN rings
      /\ \A t \in Tabs : task[t].pc \in {"spawning", "ringing", "replaying"} <=> task[t].ring # 0
  BY <1>3, <1>4
<1> QED
  BY <1>1, <1>2, <1>3, <1>4, <1>5, <1>6, <1>7, <1>8, Zenon DEF TypeOK, TaskPCs

LEMMA FrameTyped ==
    ASSUME TypeOK, NEW t \in Tabs, Frame(t)
    PROVE  frames' \in 0..MaxFrames
  BY DEF Frame, TypeOK

LEMMA InsertKeepsType ==
    ASSUME TypeOK, NEW t \in Tabs, Claim(t) \/ Replace(t)
    PROVE  TypeOK'
<1>1. Insert(t) /\ UNCHANGED <<killer, heard, cleared>>
  BY DEF Claim, Replace
<1>5. frames' \in 0..MaxFrames
  BY FrameTyped DEF Claim, Replace, TypeOK
<1>6. torn' \in BOOLEAN /\ crossed' \in BOOLEAN
  BY Zenon DEF Claim, Replace
<1>2. /\ task' \in [Tabs -> [pc: TaskPCs, ring: {0} \cup DOMAIN rings']]
      /\ \A o \in Tabs : task'[o].pc \in HasRing <=> task'[o].ring # 0
  BY <1>1, InsertTyped, GotoTyped DEF TaskPCs, HasRing
<1>3. killer' \in [Claims -> [pc: {"none", "asleep", "removing"}, of: {0} \cup DOMAIN rings']]
      /\ \A s \in Claims : killer'[s].pc # "none" => s \in DOMAIN rings'
  BY <1>1, InsertTyped DEF TypeOK
<1>4. heard' \in [Members -> {0} \cup DOMAIN rings'] /\ cleared' \subseteq DOMAIN rings'
  BY <1>1, InsertTyped DEF TypeOK
<1> QED
  BY <1>1, <1>2, <1>3, <1>4, <1>5, <1>6, InsertTyped DEF TypeOK, TaskPCs, HasRing

LEMMA HandlerKeepsType ==
    ASSUME TypeOK, NEW t \in Tabs,
           \/ Evict(t) \/ Duplicate(t) \/ Glare(t) \/ Clear(t)
           \/ Spawn(t) \/ Ring(t) \/ Replay(t) \/ TellPeer(t) \/ Echo(t)
    PROVE  TypeOK'
<1> DEFINE TaskTyped ==
        /\ task' \in [Tabs -> [pc: TaskPCs, ring: {0} \cup DOMAIN rings']]
        /\ \A o \in Tabs : task'[o].pc \in HasRing <=> task'[o].ring # 0
<1>8. rings' = rings /\ torn' = torn
  BY DEF Evict, Duplicate, Glare, Clear, Spawn, Ring, Replay, TellPeer, Echo
<1>9. frames' \in 0..MaxFrames
  BY FrameTyped DEF Evict, Duplicate, Glare, Clear, Spawn, Ring, Replay, TellPeer, Echo, TypeOK
<1>10. crossed' \in BOOLEAN
  BY Zenon DEF Evict, Duplicate, Glare, Clear, Spawn, Ring, Replay, TellPeer, Echo, TypeOK
<1>1. rings' = rings /\ frames' \in 0..MaxFrames /\ torn' \in BOOLEAN /\ crossed' \in BOOLEAN
  BY <1>8, <1>9, <1>10 DEF TypeOK
<1>2. CASE Evict(t)
  <2>1. TaskTyped
    BY <1>1, <1>2, GotoTyped DEF Evict, Goto, TaskPCs, HasRing
  <2> QED
    BY <1>1, <1>2, <2>1 DEF Evict, TypeOK, TaskPCs, HasRing
<1>3. CASE Duplicate(t)
  BY <1>1, <1>3 DEF Duplicate, TypeOK
<1>4. CASE Glare(t)
  <2>1. TaskTyped
    BY <1>1, <1>4, GotoTyped DEF Glare, Goto, TaskPCs, HasRing, TypeOK
  <2> QED
    BY <1>1, <1>4, <2>1 DEF Glare, TypeOK, TaskPCs, HasRing
<1>5. CASE Clear(t)
  <2>1. TaskTyped
    BY <1>1, <1>5, GotoTyped DEF Clear, Goto, TaskPCs, HasRing
  <2> QED
    BY <1>1, <1>5, <2>1 DEF Clear, TypeOK, TaskPCs, HasRing
<1>6. CASE Spawn(t)
  <2>1. task[t].ring \in DOMAIN rings /\ task[t].ring \in Claims
    BY <1>6 DEF Spawn, TypeOK, Claims
  <2>2. TaskTyped
    BY <1>1, <1>6, <2>1, GotoTyped DEF Spawn, Goto, TaskPCs, HasRing, TypeOK
  <2>3. killer' \in [Claims -> [pc: {"none", "asleep", "removing"}, of: {0} \cup DOMAIN rings']]
        /\ \A s \in Claims : killer'[s].pc # "none" => s \in DOMAIN rings'
    BY <1>1, <1>6, <2>1 DEF Spawn, TypeOK
  <2> QED
    BY <1>1, <1>6, <2>2, <2>3 DEF Spawn, TypeOK, TaskPCs, HasRing
<1>7. CASE Ring(t) \/ Replay(t) \/ TellPeer(t) \/ Echo(t)
  <2>1. Owner[t] \in Members /\ Other(Owner[t]) \in Members
    BY OtherIsMember
  <2>2. TaskTyped
    BY <1>1, <1>7, GotoTyped
       DEF Ring, Replay, TellPeer, Echo, Goto, Finish, IdleTask, TaskPCs, HasRing
  <2>3. heard' \in [Members -> {0} \cup DOMAIN rings']
    BY <1>1, <1>7, <2>1 DEF Ring, Replay, TellPeer, Echo, TypeOK
  <2> QED
    BY <1>1, <1>7, <2>2, <2>3 DEF Ring, Replay, TellPeer, Echo, TypeOK, TaskPCs, HasRing
<1> QED
  BY <1>2, <1>3, <1>4, <1>5, <1>6, <1>7

LEMMA AgeTyped ==
    ASSUME TypeOK, NEW s \in Claims, Age(s)
    PROVE  /\ rings' \in Seq([caller: Members, old: BOOLEAN])
           /\ Len(rings') = Len(rings) /\ DOMAIN rings' = DOMAIN rings
           /\ \A r \in DOMAIN rings : rings[r].old => rings'[r].old
<1> DEFINE Claimed == [caller: Members, old: BOOLEAN]
           aged == [rings[s] EXCEPT !.old = TRUE]
<1>0. rings \in Seq(Claimed) /\ s \in DOMAIN rings /\ rings' = [rings EXCEPT ![s] = aged]
  BY DEF TypeOK, Age
<1>1. DOMAIN rings = 1..Len(rings) /\ Len(rings) \in Nat /\ rings[s] \in Claimed
  <2> HIDE DEF Claimed, aged
  <2> QED BY <1>0
<1>2. aged \in Claimed /\ aged.old
  BY <1>1
<1> HIDE DEF aged, Claimed
<1>3. rings' = [rings EXCEPT ![s] = aged]
  BY <1>0
<1>4. rings' \in Seq(Claimed) /\ Len(rings') = Len(rings)
  BY <1>0, <1>1, <1>2, ExceptSeq
<1>5. DOMAIN rings' = DOMAIN rings
  BY <1>3
<1>6. \A r \in DOMAIN rings : rings[r].old => rings'[r].old
  BY <1>2, <1>3
<1> QED
  BY <1>4, <1>5, <1>6 DEF Claimed

LEMMA TimeKeepsType ==
    ASSUME TypeOK, NEW s \in Claims, Age(s) \/ Expire(s)
    PROVE  TypeOK'
<1>1. CASE Age(s)
  BY <1>1, AgeTyped DEF Age, TypeOK
<1>2. CASE Compare(s)
  BY <1>2 DEF Compare, Awake, TypeOK, NoTask
<1>3. CASE Remove(s)
  BY <1>3 DEF Remove, TypeOK, NoTask
<1> QED
  BY <1>1, <1>2, <1>3 DEF Expire

LEMMA StepKeepsType == TypeOK /\ [Next]_vars => TypeOK'
<1> SUFFICES ASSUME TypeOK, [Next]_vars PROVE TypeOK'
  OBVIOUS
<1>1. CASE UNCHANGED vars
  BY <1>1 DEF vars, TypeOK
<1>2. CASE Next
  BY <1>2, InsertKeepsType, HandlerKeepsType, TimeKeepsType DEF Next, Invite, Handle
<1> QED
  BY <1>1, <1>2

(* Type correctness: every handler and TTL task of every reachable state   *)
(* is about a claim that was made (ws/hub.rs, the ringing map).            *)
THEOREM TypeCorrect == Spec => []TypeOK
  BY InitTyped, StepKeepsType, PTL DEF Spec

-------------------------------------------------------------------------------
LEMMA ZeroIsNoClaim == TypeOK => 0 \notin DOMAIN rings
  BY DEF TypeOK

(* A claim is made on an empty slot, so none was live, and while no        *)
(* removal is under way, or else it is torn.                               *)
LEMMA InsertKeepsOneRing ==
    ASSUME IndInv, NEW t \in Tabs, Claim(t) \/ Replace(t)
    PROVE  OneLiveRing' /\ RemovalsAreLate'
<1> SUFFICES ASSUME ~torn'
             PROVE  /\ \A s \in DOMAIN rings' : ~rings'[s].old /\ s \notin cleared' => slot' = s
                    /\ \A s \in Claims : killer'[s].pc = "removing" => slot' = 0 \/ rings'[slot'].old
                    /\ \A o \in Tabs : task'[o].pc = "inserting" => slot' = 0
  BY DEF OneLiveRing, RemovalsAreLate
<1>1. Insert(t) /\ ~torn /\ ~Removing(t) /\ slot = 0 /\ UNCHANGED <<killer, cleared>>
  BY DEF Claim, Replace, IndInv, TypeOK
<1>2. \A s \in DOMAIN rings : rings[s].old \/ s \in cleared
  BY <1>1, ZeroIsNoClaim DEF IndInv, OneLiveRing
<1>3. \A s \in DOMAIN rings' : ~rings'[s].old /\ s \notin cleared' => slot' = s
  BY <1>1, <1>2, InsertTyped DEF IndInv
<1>4. \A s \in Claims : killer'[s].pc # "removing"
  BY <1>1 DEF Removing
<1>5. \A o \in Tabs : task'[o].pc # "inserting"
  BY <1>1, InsertTyped DEF Removing, Others, IndInv, TypeOK
<1> QED
  BY <1>3, <1>4, <1>5

(* Where the slot is emptied, what it held had run out or is now cleared. *)
LEMMA EmptyingKeepsOneRing ==
    ASSUME IndInv, UNCHANGED <<rings, torn>>, slot' = 0, cleared \subseteq cleared',
           torn \/ slot = 0 \/ rings[slot].old \/ slot \in cleared'
    PROVE  OneLiveRing' /\ RemovalsAreLate'
<1>1. ~torn => \A s \in DOMAIN rings : ~rings[s].old /\ s \notin cleared' => FALSE
  BY ZeroIsNoClaim DEF IndInv, OneLiveRing
<1> QED
  BY <1>1 DEF OneLiveRing, RemovalsAreLate

LEMMA HandlerKeepsOneRing ==
    ASSUME IndInv, NEW t \in Tabs,
           \/ Evict(t) \/ Duplicate(t) \/ Glare(t) \/ Clear(t)
           \/ Spawn(t) \/ Ring(t) \/ Replay(t) \/ TellPeer(t) \/ Echo(t)
    PROVE  OneLiveRing' /\ RemovalsAreLate'
<1>1. CASE Evict(t)
  BY <1>1, EmptyingKeepsOneRing DEF Evict
<1>2. CASE Clear(t)
  BY <1>2, EmptyingKeepsOneRing DEF Clear
<1>3. CASE Duplicate(t) \/ Glare(t) \/ Spawn(t) \/ Ring(t) \/ Replay(t) \/ TellPeer(t) \/ Echo(t)
  <2>1. UNCHANGED <<rings, slot, cleared, torn>>
    BY <1>3 DEF Duplicate, Glare, Spawn, Ring, Replay, TellPeer, Echo
  <2>2. \A s \in Claims : killer'[s].pc = "removing" => killer[s].pc = "removing"
    <3>1. CASE Spawn(t)
      <4>1. killer \in [Claims -> [pc: {"none", "asleep", "removing"}, of: {0} \cup DOMAIN rings]]
        BY DEF IndInv, TypeOK
      <4> QED
        BY <3>1, <4>1 DEF Spawn
    <3>2. CASE ~Spawn(t)
      BY <1>3, <3>2 DEF Duplicate, Glare, Ring, Replay, TellPeer, Echo
    <3> QED
      BY <3>1, <3>2
  <2>3. \A o \in Tabs : task'[o].pc = "inserting" => task[o].pc = "inserting"
    BY <1>3 DEF Duplicate, Glare, Spawn, Ring, Replay, TellPeer, Echo,
                Goto, Finish, IdleTask, IndInv, TypeOK
  <2> QED
    BY <2>1, <2>2, <2>3 DEF IndInv, OneLiveRing, RemovalsAreLate
<1> QED
  BY <1>1, <1>2, <1>3

(* A TTL task empties a slot that has run out; what runs out stays so. *)
LEMMA TimeKeepsOneRing ==
    ASSUME IndInv, NEW s \in Claims, Age(s) \/ Expire(s)
    PROVE  OneLiveRing' /\ RemovalsAreLate'
<1>1. CASE Age(s)
  <2>1. /\ UNCHANGED <<slot, killer, task, cleared, torn>>
        /\ DOMAIN rings' = DOMAIN rings
        /\ \A r \in DOMAIN rings : rings[r].old => rings'[r].old
    BY <1>1, AgeTyped DEF Age, IndInv
  <2>2. slot \in {0} \cup DOMAIN rings
    BY DEF IndInv, TypeOK
  <2>3. \A r \in DOMAIN rings : ~rings'[r].old => ~rings[r].old
    BY <2>1
  <2> QED
    BY <2>1, <2>2, <2>3 DEF IndInv, OneLiveRing, RemovalsAreLate
<1>2. CASE Compare(s)
  <2>1. UNCHANGED <<rings, slot, task, cleared, torn>>
    BY <1>2 DEF Compare
  <2>2. killer'[s].pc = "removing" => slot # 0 /\ rings[slot].old
    BY <1>2 DEF Compare, Awake, NoTask, IndInv, TypeOK
  <2>3. \A r \in Claims \ {s} : killer'[r] = killer[r]
    BY <1>2 DEF Compare, IndInv, TypeOK
  <2> QED
    BY <2>1, <2>2, <2>3 DEF IndInv, OneLiveRing, RemovalsAreLate
<1>3. CASE Remove(s)
  BY <1>3, EmptyingKeepsOneRing DEF Remove, IndInv, RemovalsAreLate
<1> QED
  BY <1>1, <1>2, <1>3 DEF Expire

LEMMA InitHasOneRing == Init => IndInv
<1>1. Init => OneLiveRing /\ RemovalsAreLate
  BY DEF Init, OneLiveRing, RemovalsAreLate, NoTask, IdleTask
<1> QED
  BY <1>1, InitTyped DEF IndInv

LEMMA StepKeepsOneRing == IndInv /\ [Next]_vars => IndInv'
<1> SUFFICES ASSUME IndInv, [Next]_vars PROVE OneLiveRing' /\ RemovalsAreLate'
  BY StepKeepsType DEF IndInv
<1>1. CASE UNCHANGED vars
  BY <1>1 DEF vars, IndInv, OneLiveRing, RemovalsAreLate
<1>2. CASE Next
  BY <1>2, InsertKeepsOneRing, HandlerKeepsOneRing, TimeKeepsOneRing DEF Next, Invite, Handle
<1> QED
  BY <1>1, <1>2

(* The two members of a DM never ring each other, and a TTL task spares a  *)
(* newer call, whatever the number of tabs and calls, as long as no claim  *)
(* falls between a check and its removal (try_start_ringing,               *)
(* spawn_ringing_ttl and clear_ringing of ws/hub.rs).                      *)
THEOREM NeverBothRinging == Spec => []OneLiveRing
<1>1. IndInv => OneLiveRing
  BY DEF IndInv
<1> QED
  BY <1>1, InitHasOneRing, StepKeepsOneRing, PTL DEF Spec

-------------------------------------------------------------------------------
(* What the tabs show.                                                     *)

Calm == ~torn /\ ~crossed
Enders == {"telling", "echoing"}

(* The slot holds the latest claim or none.                                *)
Latest == slot \in {0, Len(rings)}

(* Nobody is announcing a ring while another is being ended, and a slot    *)
(* that is taken is not being told off.                                    *)
Apart ==
    \A o \in Tabs : task[o].pc \in Enders =>
        slot = 0 /\ \A t \in Tabs : task[t].pc \notin HasRing

(* An announcement is of the latest claim, which holds the slot or has run *)
(* out; the caller announces it, and the callee's second call replays it.  *)
Announces(t) ==
    task[t].pc \in HasRing =>
        /\ task[t].ring = Len(rings)
        /\ slot = task[t].ring \/ rings[task[t].ring].old
        /\ task[t].pc = "replaying" <=> Owner[t] # rings[task[t].ring].caller

(* The callee's tabs show the ring that holds the slot, or are about to.   *)
CalleeHears ==
    slot # 0 => \/ heard[Other(rings[slot].caller)] = slot
                \/ \E t \in Tabs : task[t].pc \in {"spawning", "ringing"}

(* A ring that is shown holds the slot, or has run out, or is being told   *)
(* off.                                                                    *)
ShownOrEnding(u) ==
    \/ heard[u] \in {0, slot} \/ rings[heard[u]].old
    \/ \E o \in Tabs : \/ task[o].pc = "telling"
                       \/ task[o].pc = "echoing" /\ Owner[o] = u

AgreeInv ==
    /\ Latest
    /\ Calm => /\ Apart /\ CalleeHears
               /\ \A t \in Tabs : Announces(t)
               /\ \A u \in Members : ShownOrEnding(u)

LEMMA TwoMembers2 ==
    ASSUME NEW u \in Members, NEW v \in Members, u # v
    PROVE  Other(u) = v /\ \A w \in Members : w = u \/ w = v
BY DEF Other

LEMMA OtherDiffers ==
    ASSUME NEW u \in Members
    PROVE  Other(u) \in Members /\ Other(u) # u /\ \A w \in Members : w = u \/ w = Other(u)
BY DEF Other

LEMMA AgreeGives == AgreeInv /\ TypeOK => RingsAgree
<1> SUFFICES ASSUME AgreeInv, TypeOK, Calm, \A t \in Tabs : task[t] = IdleTask
             PROVE  /\ slot # 0 => heard[Other(rings[slot].caller)] = slot
                    /\ \A u \in Members : heard[u] \in {0, slot} \/ rings[heard[u]].old
  BY DEF RingsAgree, Calm
<1>1. \A t \in Tabs : task[t].pc = "idle"
  BY DEF IdleTask
<1> QED
  BY <1>1 DEF AgreeInv, CalleeHears, ShownOrEnding

(* One handler moves.                                                      *)
LEMMA HandlerAt ==
    ASSUME TypeOK, NEW t \in Tabs, NEW r, task' = [task EXCEPT ![t] = r]
    PROVE  task'[t] = r /\ \A o \in Tabs \ {t} : task'[o] = task[o]
BY DEF TypeOK

LEMMA GotoAt ==
    ASSUME TypeOK, NEW t \in Tabs, NEW step, NEW n, Goto(t, step, n)
    PROVE  /\ task'[t] = [pc |-> step, ring |-> n] /\ task'[t].pc = step /\ task'[t].ring = n
           /\ \A o \in Tabs \ {t} : task'[o] = task[o]
<1> PICK r : r = [pc |-> step, ring |-> n]
  OBVIOUS
<1>1. task' = [task EXCEPT ![t] = r]
  BY DEF Goto
<1>2. task'[t] = r /\ \A o \in Tabs \ {t} : task'[o] = task[o]
  BY <1>1, HandlerAt
<1> QED
  BY <1>2

LEMMA FinishAt ==
    ASSUME TypeOK, NEW t \in Tabs, Finish(t)
    PROVE  task'[t].pc = "idle" /\ \A o \in Tabs \ {t} : task'[o] = task[o]
BY GotoAt DEF Finish, IdleTask, Goto

LEMMA FrameIsIdle ==
    ASSUME NEW t \in Tabs, Frame(t)
    PROVE  task[t].pc = "idle"
BY DEF Frame, IdleTask

(* What a claim that was made says.                                        *)
LEMMA ClaimedTyped ==
    ASSUME TypeOK, NEW n \in DOMAIN rings
    PROVE  rings[n].caller \in Members /\ rings[n].old \in BOOLEAN
<1> DEFINE Claimed == [caller: Members, old: BOOLEAN]
<1>1. rings \in Seq(Claimed)
  BY DEF TypeOK
<1>2. rings[n] \in Claimed
  <2> HIDE DEF Claimed
  <2> QED BY <1>1
<1> QED
  BY <1>2

(* A step under which no ring is made and the slot keeps or loses a claim  *)
(* that has run out, by a handler that takes up no announcement.           *)
LEMMA AgreeEmpties ==
    ASSUME TypeOK, AgreeInv, Calm' => Calm, rings' = rings, heard' = heard,
           slot' = slot \/ (slot' = 0 /\ (Calm' => slot = 0 \/ rings[slot].old)),
           \A t \in Tabs : \/ task'[t] = task[t]
                           \/ task'[t].pc = "inserting" /\ task[t].pc = "idle"
                           \/ /\ task'[t].pc = "ringing" /\ task[t].pc = "spawning"
                              /\ task'[t].ring = task[t].ring
    PROVE  AgreeInv'
<1>1. Latest'
  BY DEF AgreeInv, Latest
<1> SUFFICES ASSUME Calm'
             PROVE  /\ Apart' /\ CalleeHears' /\ \A t \in Tabs : Announces(t)'
                    /\ \A u \in Members : ShownOrEnding(u)'
  BY <1>1 DEF AgreeInv
<1>2. Calm /\ Apart /\ CalleeHears /\ (\A t \in Tabs : Announces(t))
      /\ (\A u \in Members : ShownOrEnding(u))
  BY DEF AgreeInv
<1>3. \A t \in Tabs : /\ task'[t].pc \in Enders => task'[t] = task[t]
                      /\ task[t].pc \in Enders => task'[t] = task[t]
                      /\ task'[t].pc \in HasRing => task[t].pc \in HasRing /\ task'[t].ring = task[t].ring
                      /\ task'[t].pc = "replaying" <=> task[t].pc = "replaying"
                      /\ task[t].pc \in {"spawning", "ringing"} => task'[t].pc \in {"spawning", "ringing"}
  BY DEF Enders, HasRing
<1>4. Apart'
  BY <1>2, <1>3 DEF Apart
<1>5. CalleeHears'
  BY <1>2, <1>3 DEF CalleeHears
<1>6. ASSUME NEW t \in Tabs PROVE Announces(t)'
  BY <1>2, <1>3, ZeroIsNoClaim DEF Announces, TypeOK, HasRing
<1>7. ASSUME NEW u \in Members PROVE ShownOrEnding(u)'
  BY <1>2, <1>3 DEF ShownOrEnding, Enders
<1> QED
  BY <1>4, <1>5, <1>6, <1>7

(* A claim is made while nobody announces or ends another.                 *)
LEMMA AgreeInsert ==
    ASSUME IndInv, AgreeInv, NEW t \in Tabs, Claim(t) \/ Replace(t)
    PROVE  AgreeInv'
<1>1. /\ Insert(t) /\ heard' = heard /\ task[t].pc \in {"idle", "inserting"}
      /\ Calm' => /\ Calm /\ slot = 0
                  /\ ~Others(t, {"inserting", "spawning", "ringing", "replaying"})
                  /\ ~Others(t, {"telling", "echoing"})
  <2>1. CASE Claim(t)
    <3>1. Insert(t) /\ heard' = heard /\ task[t].pc = "idle" /\ slot = 0
      BY <2>1, FrameIsIdle DEF Claim
    <3>2. Calm' => ~torn /\ ~crossed /\ ~Starting(t) /\ ~Ending(t)
      BY <2>1, Zenon DEF Claim, Calm
    <3> QED
      BY <3>1, <3>2, Zenon DEF Starting, Ending, Calm
  <2>2. CASE Replace(t)
    <3>1. Insert(t) /\ heard' = heard /\ task[t].pc = "inserting"
      BY <2>2 DEF Replace
    <3>2. torn' = (torn \/ slot # 0 \/ Removing(t)) /\ crossed' = (crossed \/ Starting(t) \/ Ending(t))
      BY <2>2 DEF Replace
    <3>3. Calm' => ~torn /\ ~crossed /\ ~Starting(t) /\ ~Ending(t) /\ ~(slot # 0)
      BY <3>2, Zenon DEF Calm
    <3> QED
      BY <3>1, <3>3, Zenon DEF Starting, Ending, Calm
  <2> QED
    BY <2>1, <2>2
<1>2. slot' = Len(rings') /\ slot' # 0 /\ slot' \in DOMAIN rings' /\ rings'[slot'].caller = Owner[t]
      /\ TypeOK
  BY <1>1, InsertTyped DEF Insert, IndInv, TypeOK
<1>3. Latest'
  BY <1>2 DEF Latest
<1> SUFFICES ASSUME Calm'
             PROVE  /\ Apart' /\ CalleeHears' /\ \A o \in Tabs : Announces(o)'
                    /\ \A u \in Members : ShownOrEnding(u)'
  BY <1>3 DEF AgreeInv
<1> PICK n : n = slot'
  OBVIOUS
<1>4. task'[t] = [pc |-> "spawning", ring |-> n] /\ \A o \in Tabs \ {t} : task'[o] = task[o]
  BY <1>1, <1>2, InsertTyped, HandlerAt, ZenonT(60)
<1>5. \A o \in Tabs \ {t} : task'[o].pc \notin HasRing /\ task'[o].pc \notin Enders
  BY <1>1, <1>4 DEF Others, HasRing, Enders
<1>6. Apart'
  BY <1>4, <1>5 DEF Apart, Enders
<1>7. CalleeHears'
  BY <1>4 DEF CalleeHears
<1>8. ASSUME NEW o \in Tabs PROVE Announces(o)'
  BY <1>2, <1>4, <1>5 DEF Announces
<1>9. ASSUME NEW u \in Members PROVE ShownOrEnding(u)'
  <2>1. ShownOrEnding(u) /\ \A o \in Tabs : task[o].pc \notin Enders
    BY <1>1, <1>4, <1>5 DEF AgreeInv, Enders
  <2>2. heard[u] = 0 \/ rings[heard[u]].old
    BY <1>1, <2>1 DEF ShownOrEnding, Enders
  <2>3. heard[u] = 0 \/ rings'[heard[u]].old
    BY <1>1, <1>2, <2>2, InsertTyped DEF TypeOK
  <2> QED
    BY <1>1, <2>3 DEF ShownOrEnding
<1> QED
  BY <1>6, <1>7, <1>8, <1>9

(* The second caller is shown the ring of the first.                       *)
LEMMA AgreeGlare ==
    ASSUME TypeOK, AgreeInv, NEW t \in Tabs, Glare(t)
    PROVE  AgreeInv'
<1>1. /\ task[t].pc = "idle" /\ slot # 0 /\ rings[slot].caller # Owner[t]
      /\ UNCHANGED <<rings, slot, heard>>
      /\ Calm' => Calm /\ ~Others(t, {"telling", "echoing"})
  <2>1. /\ task[t].pc = "idle" /\ slot # 0 /\ rings[slot].caller # Owner[t]
        /\ UNCHANGED <<rings, slot, heard>>
    BY FrameIsIdle DEF Glare
  <2>2. torn' = torn /\ crossed' = (crossed \/ Ending(t))
    BY DEF Glare
  <2>3. Calm' => Calm /\ ~Ending(t)
    BY <2>2, Zenon DEF Calm
  <2> QED
    BY <2>1, <2>3 DEF Ending
<1> PICK n : n = slot
  OBVIOUS
<1>2. task'[t] = [pc |-> "replaying", ring |-> n] /\ \A o \in Tabs \ {t} : task'[o] = task[o]
  BY GotoAt DEF Glare
<1>3. Latest'
  BY <1>1 DEF AgreeInv, Latest
<1> SUFFICES ASSUME Calm'
             PROVE  /\ Apart' /\ CalleeHears' /\ \A o \in Tabs : Announces(o)'
                    /\ \A u \in Members : ShownOrEnding(u)'
  BY <1>3 DEF AgreeInv
<1>4. Calm /\ Apart /\ CalleeHears /\ (\A o \in Tabs : Announces(o))
      /\ (\A u \in Members : ShownOrEnding(u)) /\ Latest
  BY <1>1 DEF AgreeInv
<1>5. \A o \in Tabs : task'[o].pc \notin Enders /\ task[o].pc \notin Enders
  BY <1>1, <1>2 DEF Others, Enders
<1>6. Apart'
  BY <1>5 DEF Apart
<1>7. CalleeHears'
  BY <1>1, <1>2, <1>4 DEF CalleeHears
<1>8. ASSUME NEW o \in Tabs PROVE Announces(o)'
  <2>1. CASE o = t
    BY <1>1, <1>2, <1>4, <2>1 DEF Announces, Latest
  <2>2. CASE o # t
    BY <1>1, <1>2, <1>4, <2>2 DEF Announces
  <2> QED
    BY <2>1, <2>2
<1>9. ASSUME NEW u \in Members PROVE ShownOrEnding(u)'
  BY <1>1, <1>4, <1>5 DEF ShownOrEnding, Enders
<1> QED
  BY <1>6, <1>7, <1>8, <1>9

(* An announcement reaches the callee, whoever makes it.                   *)
LEMMA AgreeRing ==
    ASSUME TypeOK, AgreeInv, NEW t \in Tabs, Ring(t) \/ Replay(t)
    PROVE  AgreeInv'
<1>1. /\ task[t].pc \in {"ringing", "replaying"} /\ UNCHANGED <<rings, slot, torn, crossed>>
      /\ Finish(t)
  BY DEF Ring, Replay
<1>2. task'[t].pc = "idle" /\ \A o \in Tabs \ {t} : task'[o] = task[o]
  BY <1>1, FinishAt
<1>3. Latest'
  BY <1>1 DEF AgreeInv, Latest
<1> SUFFICES ASSUME Calm'
             PROVE  /\ Apart' /\ CalleeHears' /\ \A o \in Tabs : Announces(o)'
                    /\ \A u \in Members : ShownOrEnding(u)'
  BY <1>3 DEF AgreeInv
<1>4. Calm /\ Apart /\ CalleeHears /\ (\A o \in Tabs : Announces(o))
      /\ (\A u \in Members : ShownOrEnding(u)) /\ Latest
  BY <1>1 DEF AgreeInv, Calm
<1> PICK n : n = task[t].ring
  OBVIOUS
<1>5. /\ n = Len(rings) /\ n \in DOMAIN rings /\ n # 0 /\ (slot = n \/ rings[n].old)
      /\ task[t].pc = "replaying" <=> Owner[t] # rings[n].caller
      /\ rings[n].caller \in Members /\ Owner[t] \in Members
  <2>1. Announces(t) /\ task[t].pc \in HasRing
    BY <1>1, <1>4 DEF HasRing
  <2>2. n \in DOMAIN rings /\ n # 0
    BY <1>1 DEF TypeOK
  <2>3. rings[n].caller \in Members
    BY <2>2, ClaimedTyped
  <2> QED
    BY <2>1, <2>2, <2>3 DEF Announces
<1> PICK callee \in Members : callee = Other(rings[n].caller)
  BY <1>5, OtherDiffers
<1>6. heard' = [heard EXCEPT ![callee] = n]
  <2>1. CASE Ring(t)
    BY <1>1, <1>5, <2>1 DEF Ring
  <2>2. CASE Replay(t)
    <3>1. Owner[t] = callee
      BY <1>5, <2>2, TwoMembers2 DEF Replay
    <3> QED
      BY <2>2, <3>1 DEF Replay
  <2> QED
    BY <2>1, <2>2
<1>7. heard'[callee] = n /\ \A u \in Members \ {callee} : heard'[u] = heard[u]
  BY <1>6 DEF TypeOK
<1>8. \A o \in Tabs : task'[o].pc \notin Enders /\ task[o].pc \notin Enders
  BY <1>1, <1>2, <1>4 DEF Apart, HasRing, Enders
<1>9. Apart'
  BY <1>8 DEF Apart
<1>10. CalleeHears'
  BY <1>1, <1>4, <1>5, <1>7 DEF CalleeHears, Latest
<1>11. ASSUME NEW o \in Tabs PROVE Announces(o)'
  <2>1. CASE o = t
    BY <1>2, <2>1 DEF Announces, HasRing
  <2>2. CASE o # t
    BY <1>1, <1>2, <1>4, <2>2 DEF Announces
  <2> QED
    BY <2>1, <2>2
<1>12. ASSUME NEW u \in Members PROVE ShownOrEnding(u)'
  <2>1. CASE u = callee
    BY <1>1, <1>5, <1>7, <2>1 DEF ShownOrEnding
  <2>2. CASE u # callee
    BY <1>1, <1>4, <1>7, <1>8, <2>2 DEF ShownOrEnding, Enders
  <2> QED
    BY <2>1, <2>2
<1> QED
  BY <1>9, <1>10, <1>11, <1>12

(* A call that is ended is told off on both sides.                         *)
LEMMA AgreeEnding ==
    ASSUME TypeOK, AgreeInv, NEW t \in Tabs, Clear(t) \/ TellPeer(t) \/ Echo(t)
    PROVE  AgreeInv'
<1>1. \/ Clear(t) /\ task'[t].pc = "telling"
      \/ TellPeer(t) /\ task'[t].pc = "echoing"
      \/ Echo(t) /\ task'[t].pc = "idle"
  BY GotoAt, FinishAt DEF Clear, TellPeer, Echo
<1>2. task'[t].pc \in {"telling", "echoing", "idle"}
      /\ \A o \in Tabs \ {t} : task'[o] = task[o]
  BY <1>1, GotoAt, FinishAt DEF Clear, TellPeer, Echo
<1>3. /\ rings' = rings /\ (slot' = slot \/ slot' = 0) /\ (Calm' => Calm)
      /\ \A u \in Members : heard'[u] \in {heard[u], 0}
  BY DEF Clear, TellPeer, Echo, TypeOK, Calm
<1>4. Latest'
  BY <1>3 DEF AgreeInv, Latest
<1> SUFFICES ASSUME Calm'
             PROVE  /\ Apart' /\ CalleeHears' /\ \A o \in Tabs : Announces(o)'
                    /\ \A u \in Members : ShownOrEnding(u)'
  BY <1>4 DEF AgreeInv
<1>5. Calm /\ Apart /\ CalleeHears /\ (\A o \in Tabs : Announces(o))
      /\ (\A u \in Members : ShownOrEnding(u))
  BY <1>3 DEF AgreeInv
<1>6. slot' = 0 /\ \A o \in Tabs : task'[o].pc \notin HasRing
  <2>1. CASE Clear(t)
    <3>1. \A o \in Tabs \ {t} : task[o].pc \notin HasRing
      BY <2>1 DEF Clear, Calm, Starting, Others, HasRing
    <3> QED
      BY <1>2, <2>1, <3>1 DEF Clear, HasRing
  <2>2. CASE TellPeer(t) \/ Echo(t)
    <3>1. task[t].pc \in Enders /\ slot' = slot
      BY <2>2 DEF TellPeer, Echo, Enders
    <3> QED
      BY <1>2, <1>5, <3>1 DEF Apart, HasRing
  <2> QED
    BY <2>1, <2>2
<1>7. Apart' /\ CalleeHears' /\ \A o \in Tabs : Announces(o)'
  BY <1>6 DEF Apart, CalleeHears, Announces
<1>8. ASSUME NEW u \in Members PROVE ShownOrEnding(u)'
  <2>1. CASE Clear(t)
    <3>1. task'[t].pc = "telling"
      BY <2>1, GotoAt DEF Clear
    <3> QED
      BY <3>1 DEF ShownOrEnding
  <2>2. CASE TellPeer(t)
    <3>1. /\ heard' = [heard EXCEPT ![Other(Owner[t])] = 0] /\ Goto(t, "echoing", 0)
          /\ slot' = slot
      BY <2>2 DEF TellPeer
    <3>2. CASE u = Other(Owner[t])
      BY <3>1, <3>2 DEF ShownOrEnding, TypeOK
    <3>3. CASE u = Owner[t]
      <4>1. task'[t].pc = "echoing"
        BY <3>1, GotoAt
      <4> QED
        BY <3>3, <4>1 DEF ShownOrEnding
    <3> QED
      BY <3>2, <3>3, OtherDiffers
  <2>3. CASE Echo(t)
    <3>1. heard' = [heard EXCEPT ![Owner[t]] = 0] /\ slot' = slot /\ task[t].pc = "echoing"
      BY <2>3 DEF Echo
    <3>2. CASE u = Owner[t]
      BY <3>1, <3>2 DEF ShownOrEnding, TypeOK
    <3>3. CASE u # Owner[t]
      <4>1. heard'[u] = heard[u]
        BY <3>1, <3>3 DEF TypeOK
      <4>2. ShownOrEnding(u)
        BY <1>5
      <4>3. CASE heard[u] \in {0, slot} \/ rings[heard[u]].old
        BY <1>3, <3>1, <4>1, <4>3 DEF ShownOrEnding
      <4>4. CASE \E o \in Tabs : \/ task[o].pc = "telling"
                                 \/ task[o].pc = "echoing" /\ Owner[o] = u
        <5>1. PICK o \in Tabs : \/ task[o].pc = "telling"
                                \/ task[o].pc = "echoing" /\ Owner[o] = u
          BY <4>4
        <5>2. o # t
          BY <3>1, <3>3, <5>1
        <5>3. task'[o] = task[o]
          BY <1>2, <5>2
        <5> QED
          BY <5>1, <5>3 DEF ShownOrEnding
      <4> QED
        BY <4>2, <4>3, <4>4 DEF ShownOrEnding
    <3> QED
      BY <3>2, <3>3
  <2> QED
    BY <2>1, <2>2, <2>3
<1> QED
  BY <1>6, <1>7, <1>8

LEMMA AgreeTime ==
    ASSUME IndInv, AgreeInv, NEW s \in Claims, Age(s) \/ Expire(s)
    PROVE  AgreeInv'
<1>0. TypeOK
  BY DEF IndInv
<1>1. CASE Age(s)
  <2>1. /\ UNCHANGED <<slot, killer, task, heard, torn, crossed>>
        /\ DOMAIN rings' = DOMAIN rings /\ Len(rings') = Len(rings)
        /\ \A r \in DOMAIN rings : rings[r].old => rings'[r].old
    BY <1>0, <1>1, AgeTyped DEF Age
  <2>2. \A r \in DOMAIN rings : rings'[r].caller = rings[r].caller
    <3>1. rings' = [rings EXCEPT ![s] = [rings[s] EXCEPT !.old = TRUE]]
      BY <1>1 DEF Age
    <3> PICK q : q = [rings[s] EXCEPT !.old = TRUE]
      OBVIOUS
    <3>2. q.caller = rings[s].caller
      <4> DEFINE Claimed == [caller: Members, old: BOOLEAN]
      <4>1. rings \in Seq(Claimed) /\ s \in DOMAIN rings
        BY <1>0, <1>1 DEF TypeOK, Age
      <4>2. rings[s] \in Claimed
        <5> HIDE DEF Claimed
        <5> QED BY <4>1
      <4> QED
        BY <4>2
    <3>3. rings' = [rings EXCEPT ![s] = q]
      BY <3>1
    <3> QED
      BY <3>2, <3>3
  <2>3. \A t \in Tabs : task[t].pc \in HasRing => task[t].ring \in DOMAIN rings
    BY <1>0 DEF TypeOK, HasRing
  <2>4. slot # 0 => slot \in DOMAIN rings
    BY <1>0 DEF TypeOK
  <2>5. Latest' /\ (Calm' => Calm)
    BY <2>1 DEF AgreeInv, Latest, Calm
  <2> SUFFICES ASSUME Calm'
               PROVE  /\ Apart' /\ CalleeHears' /\ \A o \in Tabs : Announces(o)'
                      /\ \A u \in Members : ShownOrEnding(u)'
    BY <2>5 DEF AgreeInv
  <2>6. Apart /\ CalleeHears /\ (\A o \in Tabs : Announces(o))
        /\ (\A u \in Members : ShownOrEnding(u))
    BY <2>5 DEF AgreeInv
  <2>7. Apart' /\ CalleeHears'
    BY <2>1, <2>2, <2>4, <2>6 DEF Apart, CalleeHears
  <2>8. ASSUME NEW o \in Tabs PROVE Announces(o)'
    BY <2>1, <2>2, <2>3, <2>6 DEF Announces
  <2>9. ASSUME NEW u \in Members PROVE ShownOrEnding(u)'
    <3>1. heard[u] \in {0} \cup DOMAIN rings
      BY <1>0 DEF TypeOK
    <3> QED
      BY <2>1, <2>6, <3>1 DEF ShownOrEnding
  <2> QED
    BY <2>7, <2>8, <2>9
<1>2. CASE Compare(s)
  BY <1>0, <1>2, AgreeEmpties DEF Compare, Calm
<1>3. CASE Remove(s)
  <2>1. Calm => slot = 0 \/ rings[slot].old
    BY <1>3 DEF Remove, IndInv, RemovalsAreLate, Calm
  <2> QED
    BY <1>0, <1>3, <2>1, AgreeEmpties DEF Remove, Calm
<1> QED
  BY <1>1, <1>2, <1>3 DEF Expire

LEMMA AgreeStep ==
    ASSUME IndInv, AgreeInv, [Next]_vars
    PROVE  AgreeInv'
<1>0. TypeOK
  BY DEF IndInv
<1>1. ASSUME NEW t \in Tabs, Invite(t) \/ Clear(t) \/ Handle(t) PROVE AgreeInv'
  <2>1. CASE Evict(t)
    <3>1. /\ rings' = rings /\ heard' = heard /\ slot' = 0 /\ rings[slot].old
          /\ Calm' => Calm
          /\ task[t].pc = "idle"
      BY <2>1, FrameIsIdle DEF Evict, Calm
    <3>2. task'[t].pc = "inserting" /\ \A o \in Tabs \ {t} : task'[o] = task[o]
      BY <1>0, <2>1, GotoAt DEF Evict
    <3>3. \A o \in Tabs : task'[o] = task[o] \/ (task'[o].pc = "inserting" /\ task[o].pc = "idle")
      BY <3>1, <3>2
    <3> QED
      BY <1>0, <3>1, <3>3, AgreeEmpties
  <2>2. CASE Spawn(t)
    <3>1. UNCHANGED <<rings, heard, slot, torn, crossed>> /\ task[t].pc = "spawning"
      BY <2>2 DEF Spawn
    <3>2. task'[t].pc = "ringing" /\ task'[t].ring = task[t].ring
          /\ \A o \in Tabs \ {t} : task'[o] = task[o]
      BY <1>0, <2>2, GotoAt DEF Spawn
    <3>3. \A o \in Tabs : \/ task'[o] = task[o]
                          \/ /\ task'[o].pc = "ringing" /\ task[o].pc = "spawning"
                             /\ task'[o].ring = task[o].ring
      BY <3>1, <3>2
    <3> QED
      BY <1>0, <3>1, <3>3, AgreeEmpties DEF Calm
  <2>3. CASE Duplicate(t)
    BY <1>0, <2>3, AgreeEmpties DEF Duplicate, Calm
  <2> QED
    BY <1>0, <1>1, <2>1, <2>2, <2>3, AgreeInsert, AgreeGlare, AgreeRing, AgreeEnding
       DEF Invite, Handle
<1>2. CASE UNCHANGED vars
  BY <1>0, <1>2, AgreeEmpties DEF vars, Calm
<1> QED
  BY <1>1, <1>2, AgreeTime DEF Next

LEMMA AgreeInit == Init => AgreeInv
<1> SUFFICES ASSUME Init PROVE AgreeInv
  OBVIOUS
<1>1. slot = 0 /\ (\A t \in Tabs : task[t].pc = "idle") /\ \A u \in Members : heard[u] = 0
  BY DEF Init, IdleTask
<1> QED
  BY <1>1 DEF AgreeInv, Latest, Apart, CalleeHears, Announces, ShownOrEnding, Enders, HasRing

(* When nothing is under way the tabs of the two members agree with the    *)
(* slot, for any number of tabs, calls and frames, as long as no call      *)
(* began or ended while another was doing so (relay_call_signal of         *)
(* routes/ws.rs and the ringing slot of ws/hub.rs).                        *)
THEOREM TabsAgree == Spec => []RingsAgree
<1>1. IndInv /\ AgreeInv => RingsAgree
  BY AgreeGives DEF IndInv
<1> QED
  BY <1>1, InitHasOneRing, StepKeepsOneRing, AgreeInit, AgreeStep, PTL DEF Spec

(* What the steps of a departure's task know. *)
Shape ==
    /\ \A t \in TaskIds : /\ tasks[t].pc = "resolve" => tasks[t].call = None
                          /\ tasks[t].pc = "close" => tasks[t].last
                          /\ tasks[t].call < nextCall
    /\ \A k \in open : k < nextCall

(* Who opens a call is in the room. *)
Seated == \A c \in Conns : Opening(c) => c \in roster

(* No task is about to close the call of an occupied room, but for a call  *)
(* that a joiner is about to close itself.                                 *)
Spared ==
    roster # {} /\ ~overtaken /\ faults = 0 =>
        \A t \in TaskIds : Closing(t) =>
            /\ tasks[t].call # None
            /\ tasks[t].call \in open => \E c \in Conns : conn[c].pc = "closeStale"

Occupied ==
    roster # {} /\ ~overtaken /\ faults = 0 => open # {} \/ \E c \in Conns : Opening(c)

Covers(t, k) == Closing(t) /\ tasks[t].call \in {None, k}

(* An open call of an empty room has a task that will hit it. *)
Covered ==
    \A k \in open \ stranded :
        \/ roster # {}
        \/ \E c \in Conns : Departing(c)
        \/ \E t \in TaskIds : Covers(t, k)

CallInv == VoiceTypeOK /\ Shape /\ Seated /\ Spared /\ Occupied /\ Covered

LEMMA InitHasCalls == VoiceInit => CallInv
<1> SUFFICES ASSUME VoiceInit PROVE CallInv
  OBVIOUS
<1>1. VoiceTypeOK
  <2>1. conn \in [Conns -> [pc: Handlers, started: BOOLEAN]]
    BY DEF VoiceInit, Idle, Handlers
  <2>2. tasks \in [TaskIds -> [pc: {"none", "resolve", "close"}, last: BOOLEAN,
                               call: CallIds \cup {None}]]
    BY DEF VoiceInit, NoCloser
  <2>3. 1 \in 1..MaxJoins + 1 /\ 0 \in 0..MaxJoins /\ 0 \in 0..MaxFaults
    BY CallAssumption
  <2> QED
    BY <2>1, <2>2, <2>3 DEF VoiceInit, VoiceTypeOK
<1>2. Shape
  BY CallAssumption DEF VoiceInit, Shape, NoCloser, None, CallIds, TaskIds
<1>3. Seated
  BY DEF VoiceInit, Seated, Opening, Idle
<1>4. Spared /\ Occupied /\ Covered
  BY DEF VoiceInit, Spared, Occupied, Covered
<1> QED
  BY <1>1, <1>2, <1>3, <1>4 DEF CallInv

LEMMA CallInvGives == CallInv => CallSpansRoom
BY DEF CallInv, CallSpansRoom, Occupied, Covered, Covers

-----------------------------------------------------------------------------
LEMMA StepKeepsVoiceType == VoiceTypeOK /\ [VoiceNext]_voiceVars => VoiceTypeOK'
<1> SUFFICES ASSUME VoiceTypeOK, [VoiceNext]_voiceVars PROVE VoiceTypeOK'
  OBVIOUS
<1> USE CallAssumption DEF VoiceTypeOK, CallIds, TaskIds, None, Idle, NoCloser, Handlers, Fault, NoFault
<1>1. ASSUME NEW c \in Conns, JoinRead(c) PROVE VoiceTypeOK'
  BY <1>1 DEF JoinRead
<1>2. ASSUME NEW c \in Conns, JoinGap(c) PROVE VoiceTypeOK'
  BY <1>2 DEF JoinGap
<1>3. ASSUME NEW c \in Conns, JoinEnter(c) PROVE VoiceTypeOK'
  BY <1>3 DEF JoinEnter
<1>4. ASSUME NEW c \in Conns, OpenCloseStale(c) PROVE VoiceTypeOK'
  <2>1. open' \subseteq open
    BY <1>4 DEF OpenCloseStale
  <2>2. faults' \in 0..MaxFaults
    BY <1>4 DEF OpenCloseStale
  <2>3. conn' \in [Conns -> [pc: Handlers, started: BOOLEAN]]
    <3>1. CASE conn' = [conn EXCEPT ![c].pc = "insert"]
      BY <3>1
    <3>2. CASE conn' = [conn EXCEPT ![c] = Idle]
      BY <3>2
    <3> QED
      BY <1>4, <3>1, <3>2 DEF OpenCloseStale
  <2> QED
    BY <1>4, <2>1, <2>2, <2>3 DEF OpenCloseStale
<1>5. ASSUME NEW c \in Conns, OpenInsert(c) PROVE VoiceTypeOK'
  <2>1. /\ open' \subseteq CallIds /\ \A j, k \in open' : j = k
        /\ nextCall' \in 1..MaxJoins + 1
    <3>1. CASE open = {} /\ open' = open \cup {nextCall} /\ nextCall' = nextCall + 1
      <4>1. nextCall \in 1..MaxJoins
        BY <1>5 DEF OpenInsert
      <4>2. open' = {nextCall}
        BY <3>1
      <4> QED
        BY <3>1, <4>1, <4>2
    <3>2. CASE UNCHANGED <<open, nextCall>>
      BY <3>2
    <3> QED
      BY <1>5, <3>1, <3>2 DEF OpenInsert, RoomTaken
  <2>2. faults' \in 0..MaxFaults
    BY <1>5 DEF OpenInsert
  <2> QED
    BY <1>5, <2>1, <2>2 DEF OpenInsert
<1>6. ASSUME NEW c \in Conns, LeaveDrop(c) PROVE VoiceTypeOK'
  BY <1>6 DEF LeaveDrop
<1>7. ASSUME NEW c \in Conns, LeaveSpawn(c) PROVE VoiceTypeOK'
  BY <1>7 DEF LeaveSpawn, RoomEmpty
<1>8. ASSUME NEW c \in Conns, MoveAway(c) PROVE VoiceTypeOK'
  BY <1>8 DEF MoveAway
<1>9. ASSUME NEW t \in TaskIds, TaskResolve(t) PROVE VoiceTypeOK'
  <2>1. PICK call \in CallIds \cup {None} :
          tasks' = [tasks EXCEPT ![t] =
                IF @.last THEN [@ EXCEPT !.pc = "close", !.call = call] ELSE NoCloser]
    BY <1>9 DEF TaskResolve
  <2>2. tasks' \in [TaskIds -> [pc: {"none", "resolve", "close"}, last: BOOLEAN,
                                call: CallIds \cup {None}]]
    <3> DEFINE Closers == [pc: {"none", "resolve", "close"}, last: BOOLEAN,
                           call: CallIds \cup {None}]
               turned == IF tasks[t].last THEN [tasks[t] EXCEPT !.pc = "close", !.call = call]
                                          ELSE NoCloser
    <3>1. tasks \in [TaskIds -> Closers] /\ tasks[t] \in Closers
      OBVIOUS
    <3>2. NoCloser \in Closers
      OBVIOUS
    <3>3. turned \in Closers
      BY <3>1, <3>2
    <3>4. tasks' = [tasks EXCEPT ![t] = turned]
      BY <2>1
    <3> HIDE DEF Closers, turned
    <3>5. tasks' \in [TaskIds -> Closers]
      BY <3>1, <3>3, <3>4
    <3> QED
      BY <3>5 DEF Closers
  <2>3. faults' \in 0..MaxFaults
    BY <1>9 DEF TaskResolve
  <2> QED
    BY <1>9, <2>2, <2>3 DEF TaskResolve
<1>10. ASSUME NEW t \in TaskIds, TaskClose(t) PROVE VoiceTypeOK'
  <2>1. open' \subseteq open /\ stranded' \subseteq CallIds
    BY <1>10 DEF TaskClose, Closed
  <2>2. tasks' \in [TaskIds -> [pc: {"none", "resolve", "close"}, last: BOOLEAN,
                                call: CallIds \cup {None}]]
    BY <1>10 DEF TaskClose
  <2>3. faults' \in 0..MaxFaults
    BY <1>10 DEF TaskClose
  <2> QED
    BY <1>10, <2>1, <2>2, <2>3 DEF TaskClose
<1>11. CASE Crash
  BY <1>11 DEF Crash
<1>12. CASE UNCHANGED voiceVars
  BY <1>12 DEF voiceVars
<1> QED
  BY <1>1, <1>2, <1>3, <1>4, <1>5, <1>6, <1>7, <1>8, <1>9, <1>10, <1>11, <1>12
     DEF VoiceNext, HandlerStep, TaskStep

(* Type correctness of the roster and the call rows (ws/hub.rs, voice;     *)
(* db/voice_calls.rs); no two calls of the room are open.                  *)
THEOREM CallsAreTyped == VoiceSpec => []VoiceTypeOK
<1>1. VoiceInit => VoiceTypeOK
  BY InitHasCalls DEF CallInv
<1> QED
  BY <1>1, StepKeepsVoiceType, PTL DEF VoiceSpec

-----------------------------------------------------------------------------
(* What one handler's step does to the handlers: those of the others stay. *)
Moves(c, from, to) ==
    /\ conn[c].pc \in from /\ conn'[c].pc \in to
    /\ \A d \in Conns \ {c} : conn'[d] = conn[d]

LEMMA HandlerMoves ==
    ASSUME VoiceTypeOK, NEW c \in Conns
    PROVE  /\ JoinRead(c) => Moves(c, {"idle"}, {"entering"})
           /\ JoinGap(c) => Moves(c, {"entering"}, {"gap"})
           /\ JoinEnter(c) /\ conn[c].started => Moves(c, {"entering", "gap"}, {"closeStale"})
           /\ JoinEnter(c) /\ ~conn[c].started => Moves(c, {"entering", "gap"}, {"idle"})
           /\ OpenCloseStale(c) /\ NoFault => Moves(c, {"closeStale"}, {"insert"})
           /\ OpenCloseStale(c) => Moves(c, {"closeStale"}, {"insert", "idle"})
           /\ OpenInsert(c) => Moves(c, {"insert"}, {"idle"})
           /\ LeaveDrop(c) => Moves(c, {"idle"}, {"leaving"})
           /\ LeaveSpawn(c) => Moves(c, {"leaving"}, {"idle"})
<1> USE DEF VoiceTypeOK, Moves, Idle
<1>1. JoinRead(c) => Moves(c, {"idle"}, {"entering"})
  BY DEF JoinRead
<1>2. JoinGap(c) => Moves(c, {"entering"}, {"gap"})
  BY DEF JoinGap
<1>3. JoinEnter(c) /\ conn[c].started => Moves(c, {"entering", "gap"}, {"closeStale"})
  BY DEF JoinEnter
<1>4. JoinEnter(c) /\ ~conn[c].started => Moves(c, {"entering", "gap"}, {"idle"})
  BY DEF JoinEnter
<1>5. OpenCloseStale(c) /\ NoFault => Moves(c, {"closeStale"}, {"insert"})
  BY DEF OpenCloseStale, Fault, NoFault
<1>6. OpenCloseStale(c) => Moves(c, {"closeStale"}, {"insert", "idle"})
  BY DEF OpenCloseStale
<1>7. OpenInsert(c) => Moves(c, {"insert"}, {"idle"})
  BY DEF OpenInsert
<1>8. LeaveDrop(c) => Moves(c, {"idle"}, {"leaving"})
  BY DEF LeaveDrop
<1>9. LeaveSpawn(c) => Moves(c, {"leaving"}, {"idle"})
  BY DEF LeaveSpawn
<1> QED
  BY <1>1, <1>2, <1>3, <1>4, <1>5, <1>6, <1>7, <1>8, <1>9

(* What one task's step does to the tasks. *)
LEMMA TaskMoves ==
    ASSUME VoiceTypeOK, Shape, NEW t \in TaskIds, TaskStep(t)
    PROVE  /\ \A u \in TaskIds \ {t} : tasks'[u] = tasks[u]
           /\ tasks'[t].last => tasks[t].last /\ tasks[t].pc = "resolve"
                               /\ tasks'[t].pc = "close"
           /\ ~tasks'[t].last => tasks'[t] = NoCloser
<1> USE DEF VoiceTypeOK, NoCloser
<1>1. ASSUME TaskResolve(t)
      PROVE  /\ \A u \in TaskIds \ {t} : tasks'[u] = tasks[u]
             /\ tasks'[t].last => tasks[t].last /\ tasks[t].pc = "resolve"
                                 /\ tasks'[t].pc = "close"
             /\ ~tasks'[t].last => tasks'[t] = NoCloser
  BY <1>1 DEF TaskResolve
<1>2. ASSUME TaskClose(t)
      PROVE  (\A u \in TaskIds \ {t} : tasks'[u] = tasks[u]) /\ tasks'[t] = NoCloser
  BY <1>2 DEF TaskClose
<1> QED
  BY <1>1, <1>2 DEF TaskStep

LEMMA StepKeepsShape == VoiceTypeOK /\ Shape /\ [VoiceNext]_voiceVars => Shape'
<1> SUFFICES ASSUME VoiceTypeOK, Shape, [VoiceNext]_voiceVars PROVE Shape'
  OBVIOUS
<1> USE CallAssumption DEF VoiceTypeOK, CallIds, TaskIds, None
<1>1. CASE UNCHANGED <<open, nextCall, tasks>>
  BY <1>1 DEF Shape
<1>2. ASSUME NEW c \in Conns, OpenCloseStale(c) PROVE Shape'
  <2>1. open' \subseteq open /\ UNCHANGED <<nextCall, tasks>>
    BY <1>2 DEF OpenCloseStale
  <2> QED
    BY <2>1 DEF Shape
<1>3. ASSUME NEW c \in Conns, OpenInsert(c) PROVE Shape'
  <2>1. UNCHANGED tasks /\ nextCall' >= nextCall
    BY <1>3 DEF OpenInsert
  <2>2. \A k \in open' : k < nextCall'
    <3>1. CASE open' = open \cup {nextCall} /\ nextCall' = nextCall + 1
      BY <3>1 DEF Shape
    <3>2. CASE UNCHANGED <<open, nextCall>>
      BY <3>2 DEF Shape
    <3> QED
      BY <1>3, <3>1, <3>2 DEF OpenInsert
  <2>3. nextCall' \in Nat
    BY <1>3 DEF OpenInsert
  <2> QED
    BY <2>1, <2>2, <2>3 DEF Shape
<1>4. ASSUME NEW c \in Conns, LeaveSpawn(c) PROVE Shape'
  BY <1>4 DEF LeaveSpawn, Shape
<1>5. ASSUME NEW t \in TaskIds, TaskResolve(t) PROVE Shape'
  <2>1. PICK call \in CallIds \cup {None} :
          /\ call = None \/ call \in open
          /\ tasks' = [tasks EXCEPT ![t] =
                IF @.last THEN [@ EXCEPT !.pc = "close", !.call = call] ELSE NoCloser]
    BY <1>5 DEF TaskResolve
  <2>2. call < nextCall
    BY <2>1 DEF Shape
  <2>3. UNCHANGED <<open, nextCall>>
    BY <1>5 DEF TaskResolve
  <2> QED
    BY <2>1, <2>2, <2>3 DEF Shape, NoCloser
<1>6. ASSUME NEW t \in TaskIds, TaskClose(t) PROVE Shape'
  <2>1. open' \subseteq open /\ UNCHANGED nextCall
    BY <1>6 DEF TaskClose, Closed
  <2>2. tasks' = [tasks EXCEPT ![t] = NoCloser]
    BY <1>6 DEF TaskClose
  <2> QED
    BY <2>1, <2>2 DEF Shape, NoCloser
<1>7. CASE Crash
  BY <1>7 DEF Crash, Shape, NoCloser
<1> QED
  BY <1>1, <1>2, <1>3, <1>4, <1>5, <1>6, <1>7
     DEF VoiceNext, HandlerStep, TaskStep, JoinRead, JoinGap, JoinEnter, LeaveDrop, MoveAway, voiceVars

LEMMA StepKeepsSeated == VoiceTypeOK /\ Seated /\ [VoiceNext]_voiceVars => Seated'
<1> SUFFICES ASSUME VoiceTypeOK, Seated, [VoiceNext]_voiceVars PROVE Seated'
  OBVIOUS
<1> USE DEF Seated, Opening
<1>1. ASSUME NEW c \in Conns, JoinRead(c) PROVE Seated'
  BY <1>1, HandlerMoves DEF JoinRead, Moves
<1>2. ASSUME NEW c \in Conns, JoinGap(c) PROVE Seated'
  BY <1>2, HandlerMoves DEF JoinGap, Moves
<1>3. ASSUME NEW c \in Conns, JoinEnter(c) PROVE Seated'
  <2>1. \A d \in Conns \ {c} : conn'[d] = conn[d]
    BY <1>3, HandlerMoves DEF Moves
  <2> QED
    BY <1>3, <2>1 DEF JoinEnter
<1>4. ASSUME NEW c \in Conns, OpenCloseStale(c) PROVE Seated'
  BY <1>4, HandlerMoves DEF OpenCloseStale, Moves
<1>5. ASSUME NEW c \in Conns, OpenInsert(c) PROVE Seated'
  BY <1>5, HandlerMoves DEF OpenInsert, Moves
<1>6. ASSUME NEW c \in Conns, LeaveDrop(c) PROVE Seated'
  BY <1>6, HandlerMoves DEF LeaveDrop, Moves
<1>7. ASSUME NEW c \in Conns, LeaveSpawn(c) PROVE Seated'
  BY <1>7, HandlerMoves DEF LeaveSpawn, Moves
<1>8. ASSUME NEW c \in Conns, MoveAway(c) PROVE Seated'
  BY <1>8 DEF MoveAway
<1>9. ASSUME NEW t \in TaskIds, TaskStep(t) PROVE Seated'
  BY <1>9 DEF TaskStep, TaskResolve, TaskClose
<1>10. CASE Crash
  BY <1>10 DEF Crash, Idle
<1>11. CASE UNCHANGED voiceVars
  BY <1>11 DEF voiceVars
<1> QED
  BY <1>1, <1>2, <1>3, <1>4, <1>5, <1>6, <1>7, <1>8, <1>9, <1>10, <1>11
     DEF VoiceNext, HandlerStep

(* What a step other than a crash keeps while the premise of Spared and of *)
(* Occupied holds in the end: it held before, or somebody has just entered *)
(* the empty room and will open its call.                                  *)
Quiet == roster # {} /\ ~overtaken /\ faults = 0

LEMMA QuietBefore ==
    ASSUME VoiceTypeOK, [VoiceNext]_voiceVars, Quiet'
    PROVE  /\ ~overtaken /\ faults = 0
           /\ roster # {} \/ \E c \in Conns : /\ JoinEnter(c)
                                           /\ conn'[c].pc = "closeStale"
                                           /\ \A t \in TaskIds : ~Sweeping(t)
<1> USE CallAssumption DEF VoiceTypeOK, Quiet
<1>1. ASSUME NEW c \in Conns, JoinEnter(c)
      PROVE  /\ ~overtaken /\ faults = 0
             /\ roster # {} \/ (conn'[c].pc = "closeStale" /\ \A t \in TaskIds : ~Sweeping(t))
  BY <1>1 DEF JoinEnter
<1>2. ASSUME UNCHANGED overtaken, faults' >= faults, roster' \subseteq roster
      PROVE  ~overtaken /\ faults = 0 /\ roster # {}
  BY <1>2
<1>3. ASSUME NEW c \in Conns, JoinRead(c) \/ JoinGap(c) \/ LeaveDrop(c) \/ LeaveSpawn(c) \/ MoveAway(c)
      PROVE  UNCHANGED overtaken /\ faults' >= faults /\ roster' \subseteq roster
  BY <1>3 DEF JoinRead, JoinGap, LeaveDrop, LeaveSpawn, MoveAway
<1>4. ASSUME NEW c \in Conns, OpenCloseStale(c) \/ OpenInsert(c)
      PROVE  UNCHANGED overtaken /\ faults' >= faults /\ roster' \subseteq roster
  BY <1>4 DEF OpenCloseStale, OpenInsert, Fault, NoFault
<1>5. ASSUME NEW t \in TaskIds, TaskStep(t)
      PROVE  UNCHANGED overtaken /\ faults' >= faults /\ roster' \subseteq roster
  <2>1. UNCHANGED <<overtaken, roster>> /\ (NoFault \/ Fault)
    BY <1>5 DEF TaskStep, TaskResolve, TaskClose
  <2> QED
    BY <2>1 DEF Fault, NoFault
<1>6. ~Crash
  BY DEF Crash
<1>7. CASE UNCHANGED voiceVars
  BY <1>7 DEF voiceVars
<1> QED
  BY <1>1, <1>2, <1>3, <1>4, <1>5, <1>6, <1>7 DEF VoiceNext, HandlerStep

SparesTask(t) ==
    /\ tasks[t].call # None
    /\ tasks[t].call \in open => \E c \in Conns : conn[c].pc = "closeStale"

LEMMA StepKeepsSpared ==
    VoiceTypeOK /\ Shape /\ Spared /\ [VoiceNext]_voiceVars => Spared'
<1> SUFFICES ASSUME VoiceTypeOK, Shape, Spared, [VoiceNext]_voiceVars, Quiet',
                    NEW t \in TaskIds, Closing(t)'
             PROVE  SparesTask(t)'
  BY DEF Spared, Quiet, SparesTask
<1> USE QuietBefore DEF Quiet
<1>1. ~overtaken /\ faults = 0
  OBVIOUS
<1>2. ASSUME roster # {}, Closing(t) PROVE SparesTask(t)
  BY <1>1, <1>2 DEF Spared, SparesTask
<1>3. ASSUME NEW c \in Conns, JoinEnter(c) PROVE SparesTask(t)'
  <2>1. UNCHANGED <<tasks, open>> /\ (conn'[c].pc = "closeStale" \/ conn'[c].pc = "idle")
    BY <1>3 DEF JoinEnter, Idle, VoiceTypeOK
  <2>2. CASE roster # {}
    <3>1. SparesTask(t)
      BY <1>2, <2>1, <2>2 DEF Closing
    <3>2. \A d \in Conns : conn[d].pc = "closeStale" => conn'[d].pc = "closeStale"
      BY <1>3, HandlerMoves DEF Moves
    <3> QED
      BY <2>1, <3>1, <3>2 DEF SparesTask
  <2>3. CASE roster = {}
    <3>1. /\ \A u \in TaskIds : ~Sweeping(u)
          /\ \E d \in Conns : conn'[d].pc = "closeStale"
      BY <2>3
    <3>2. tasks[t].call # None
      BY <2>1, <3>1 DEF Sweeping, Closing
    <3> QED
      BY <2>1, <3>1, <3>2 DEF SparesTask
  <2> QED
    BY <2>2, <2>3
<1>4. ASSUME NEW c \in Conns, JoinRead(c) \/ JoinGap(c) \/ LeaveDrop(c) PROVE SparesTask(t)'
  <2>1. UNCHANGED <<tasks, open>> /\ roster # {}
    BY <1>4 DEF JoinRead, JoinGap, LeaveDrop
  <2>2. \A d \in Conns : conn[d].pc = "closeStale" => conn'[d].pc = "closeStale"
    BY <1>4, HandlerMoves DEF Moves
  <2> QED
    BY <1>2, <2>1, <2>2 DEF SparesTask, Closing
<1>5. ASSUME NEW c \in Conns, OpenCloseStale(c) PROVE SparesTask(t)'
  <2>1. UNCHANGED <<tasks, roster>> /\ open' = {}
    BY <1>1, <1>5 DEF OpenCloseStale, Fault
  <2> QED
    BY <1>2, <2>1 DEF SparesTask, Closing
<1>6. ASSUME NEW c \in Conns, OpenInsert(c) PROVE SparesTask(t)'
  <2>1. UNCHANGED <<tasks, roster>> /\ open' \subseteq open \cup {nextCall}
    BY <1>6 DEF OpenInsert
  <2>2. tasks[t].call # nextCall
    BY CallAssumption DEF Shape, VoiceTypeOK, TaskIds, CallIds, None
  <2>3. \A d \in Conns : conn[d].pc = "closeStale" => conn'[d].pc = "closeStale"
    BY <1>6, HandlerMoves DEF Moves
  <2> QED
    BY <1>2, <2>1, <2>2, <2>3 DEF SparesTask, Closing
<1>7. ASSUME NEW c \in Conns, LeaveSpawn(c) PROVE SparesTask(t)'
  <2>1. UNCHANGED <<open, roster>> /\ roster # {}
    BY <1>7 DEF LeaveSpawn
  <2>2. tasks'[t] = tasks[t]
    BY <1>7, <2>1 DEF LeaveSpawn, RoomEmpty, Closing, VoiceTypeOK
  <2>3. \A d \in Conns : conn[d].pc = "closeStale" => conn'[d].pc = "closeStale"
    BY <1>7, HandlerMoves DEF Moves
  <2> QED
    BY <1>2, <2>1, <2>2, <2>3 DEF SparesTask, Closing
<1>8. ASSUME NEW c \in Conns, MoveAway(c) PROVE SparesTask(t)'
  <2>1. UNCHANGED <<tasks, open, conn>> /\ roster # {}
    BY <1>8 DEF MoveAway
  <2> QED
    BY <1>2, <2>1 DEF SparesTask, Closing
<1>9. ASSUME NEW u \in TaskIds, TaskStep(u) PROVE SparesTask(t)'
  <2>1. UNCHANGED <<roster, conn>> /\ open' \subseteq open
    BY <1>9 DEF TaskStep, TaskResolve, TaskClose, Closed
  <2>2. Closing(t) /\ tasks'[t] = tasks[t]
    <3>1. CASE t # u
      BY <1>9, <3>1, TaskMoves DEF Closing
    <3>2. CASE t = u
      <4>1. Closing(t) /\ tasks[t].call = None
        BY <1>9, <3>2, TaskMoves DEF Closing, Shape, NoCloser
      <4> QED
        BY <1>2, <2>1, <4>1 DEF SparesTask
    <3> QED
      BY <3>1, <3>2
  <2> QED
    BY <1>2, <2>1, <2>2 DEF SparesTask
<1>10. CASE UNCHANGED voiceVars
  BY <1>2, <1>10 DEF voiceVars, SparesTask, Closing
<1>11. ~Crash
  BY DEF Crash
<1> QED
  BY <1>3, <1>4, <1>5, <1>6, <1>7, <1>8, <1>9, <1>10, <1>11 DEF VoiceNext, HandlerStep

LEMMA StepKeepsOccupied ==
    CallInv /\ [VoiceNext]_voiceVars => Occupied'
<1> SUFFICES ASSUME CallInv, [VoiceNext]_voiceVars, Quiet'
             PROVE  (open # {} \/ \E c \in Conns : Opening(c))'
  BY DEF Occupied, Quiet
<1> DEFINE Served == open # {} \/ \E c \in Conns : Opening(c)
<1> USE DEF CallInv
<1>1. ~overtaken /\ faults = 0
  BY QuietBefore
<1>2. ASSUME roster # {} PROVE Served
  BY <1>1, <1>2 DEF Occupied
<1>3. ASSUME NEW c \in Conns, JoinEnter(c) PROVE Served'
  <2>1. CASE roster # {}
    <3>1. UNCHANGED open
      BY <1>3 DEF JoinEnter
    <3>2. \A d \in Conns : Opening(d) => Opening(d)'
      BY <1>3, HandlerMoves DEF Moves, Opening
    <3> QED
      BY <1>2, <2>1, <3>1, <3>2
  <2>2. CASE roster = {}
    BY <2>2, QuietBefore DEF Opening
  <2> QED
    BY <2>1, <2>2
<1>4. ASSUME NEW c \in Conns, JoinRead(c) \/ JoinGap(c) \/ LeaveDrop(c) \/ LeaveSpawn(c)
      PROVE  Served'
  <2>1. UNCHANGED open /\ roster # {}
    BY <1>4, QuietBefore DEF JoinRead, JoinGap, LeaveDrop, LeaveSpawn, Quiet
  <2>2. \A d \in Conns : Opening(d) => Opening(d)'
    BY <1>4, HandlerMoves DEF Moves, Opening
  <2> QED
    BY <1>2, <2>1, <2>2
<1>5. ASSUME NEW c \in Conns, OpenCloseStale(c) PROVE Served'
  <2>1. NoFault
    BY <1>1, <1>5 DEF OpenCloseStale, Fault, NoFault, Quiet
  <2> QED
    BY <1>5, <2>1, HandlerMoves DEF Moves, Opening
<1>6. ASSUME NEW c \in Conns, OpenInsert(c) PROVE Served'
  BY <1>1, <1>6 DEF OpenInsert, Fault, RoomTaken, Quiet
<1>7. ASSUME NEW c \in Conns, MoveAway(c) PROVE Served'
  BY <1>2, <1>7 DEF MoveAway, Opening
<1>8. ASSUME NEW t \in TaskIds, TaskStep(t) PROVE Served'
  <2>1. UNCHANGED <<roster, conn>> /\ roster # {}
    BY <1>8, QuietBefore DEF TaskStep, TaskResolve, TaskClose, Quiet
  <2>2. CASE TaskResolve(t)
    BY <1>2, <2>1, <2>2 DEF TaskResolve, Opening
  <2>3. CASE TaskClose(t)
    <3>1. SparesTask(t)
      BY <1>1, <2>1, <2>3 DEF Spared, SparesTask, Closing, Shape, TaskClose
    <3>2. open' = open \ {tasks[t].call}
      BY <1>1, <2>3, <3>1 DEF TaskClose, Closed, SparesTask, Fault, Quiet
    <3>3. CASE tasks[t].call \in open
      BY <2>1, <3>1, <3>3 DEF SparesTask, Opening
    <3>4. CASE tasks[t].call \notin open
      BY <1>2, <2>1, <3>2, <3>4 DEF Opening
    <3> QED
      BY <3>3, <3>4
  <2> QED
    BY <1>8, <2>2, <2>3 DEF TaskStep
<1>9. CASE UNCHANGED voiceVars
  BY <1>2, <1>9 DEF voiceVars, Opening, Quiet
<1>10. ~Crash
  BY DEF Crash, Quiet
<1> QED
  BY <1>3, <1>4, <1>5, <1>6, <1>7, <1>8, <1>9, <1>10 DEF VoiceNext, HandlerStep

LEMMA StepKeepsCovered == CallInv /\ [VoiceNext]_voiceVars => Covered'
<1> SUFFICES ASSUME CallInv, [VoiceNext]_voiceVars, roster' = {}, NEW k \in open', k \notin stranded'
             PROVE  \/ \E c \in Conns : Departing(c)'
                    \/ \E t \in TaskIds : Covers(t, k)'
  BY DEF Covered
<1> DEFINE Met == \/ \E c \in Conns : Departing(c)
                  \/ \E t \in TaskIds : Covers(t, k)
<1> USE DEF CallInv
<1>1. ASSUME k \in open, k \notin stranded, roster = {} PROVE Met
  BY <1>1 DEF Covered
<1>2. ASSUME NEW c \in Conns, JoinRead(c) PROVE Met'
  <2>1. UNCHANGED <<open, stranded, roster, tasks>>
    BY <1>2 DEF JoinRead
  <2>2. \A d \in Conns : Departing(d) => Departing(d)'
    BY <1>2, HandlerMoves DEF Moves, Departing
  <2> QED
    BY <1>1, <2>1, <2>2 DEF Covers, Closing
<1>3. ASSUME NEW c \in Conns, JoinGap(c) \/ LeaveDrop(c) PROVE Met'
  BY <1>3, HandlerMoves DEF Moves, Departing
<1>4. ASSUME NEW c \in Conns, JoinEnter(c) PROVE FALSE
  BY <1>4 DEF JoinEnter
<1>5. ASSUME NEW c \in Conns, OpenCloseStale(c) \/ OpenInsert(c) PROVE FALSE
  BY <1>5 DEF OpenCloseStale, OpenInsert, Seated, Opening
<1>6. ASSUME NEW c \in Conns, LeaveSpawn(c) PROVE Met'
  <2>1. nextTask \in TaskIds /\ tasks'[nextTask] = [pc |-> "resolve", last |-> TRUE, call |-> None]
    BY <1>6 DEF LeaveSpawn, RoomEmpty, VoiceTypeOK
  <2> QED
    BY <2>1 DEF Covers, Closing
<1>7. ASSUME NEW c \in Conns, MoveAway(c) PROVE FALSE
  BY <1>7 DEF MoveAway
<1>8. ASSUME NEW t \in TaskIds, TaskStep(t) PROVE Met'
  <2>1. /\ UNCHANGED <<roster, conn>> /\ k \in open /\ k \notin stranded
        /\ \A u \in TaskIds \ {t} : tasks'[u] = tasks[u]
    <3>1. UNCHANGED <<roster, conn>> /\ open' \subseteq open /\ stranded \subseteq stranded'
      BY <1>8 DEF TaskStep, TaskResolve, TaskClose, Closed
    <3> QED
      BY <1>8, <3>1, TaskMoves
  <2>2. CASE \E c \in Conns : Departing(c)
    BY <2>1, <2>2 DEF Departing
  <2>3. CASE \E u \in TaskIds \ {t} : Covers(u, k)
    BY <2>1, <2>3 DEF Covers, Closing
  <2>4. CASE Covers(t, k)
    <3>1. CASE TaskResolve(t)
      <4>1. PICK call \in CallIds \cup {None} :
              /\ call \in {None} \cup open
              /\ tasks' = [tasks EXCEPT ![t] =
                    IF @.last THEN [@ EXCEPT !.pc = "close", !.call = call] ELSE NoCloser]
        BY <3>1 DEF TaskResolve
      <4>2. call \in {None, k}
        BY <2>1, <4>1 DEF VoiceTypeOK
      <4> QED
        BY <2>4, <4>1, <4>2 DEF Covers, Closing, VoiceTypeOK
    <3>2. CASE TaskClose(t)
      BY <2>1, <2>4, <3>2 DEF TaskClose, Closed, Covers
    <3> QED
      BY <1>8, <3>1, <3>2 DEF TaskStep
  <2> QED
    BY <1>1, <2>1, <2>2, <2>3, <2>4
<1>9. CASE Crash
  BY <1>9 DEF Crash
<1>10. CASE UNCHANGED voiceVars
  BY <1>1, <1>10 DEF voiceVars, Covers, Closing, Departing
<1> QED
  BY <1>2, <1>3, <1>4, <1>5, <1>6, <1>7, <1>8, <1>9, <1>10 DEF VoiceNext, HandlerStep

LEMMA StepKeepsCalls == CallInv /\ [VoiceNext]_voiceVars => CallInv'
  BY StepKeepsVoiceType, StepKeepsShape, StepKeepsSeated, StepKeepsSpared,
     StepKeepsOccupied, StepKeepsCovered DEF CallInv

(* A call of the log spans the room's occupancy: an occupied room has its  *)
(* call or somebody opening it, and an open call has somebody in the room  *)
(* or on the way to close it, but for the crossings CallSpansRoom names    *)
(* (open and close, db/voice_calls.rs; handle_voice_join and               *)
(* handle_voice_leave, routes/ws.rs).                                      *)
THEOREM CallsSpanOccupancy == VoiceSpec => []CallSpansRoom
  BY InitHasCalls, CallInvGives, StepKeepsCalls, PTL DEF VoiceSpec

-------------------------------------------------------------------------------
(* The two beside each other.                                              *)

(* Ringing and the call log keep what they promise where both run.         *)
LEMMA CallsStepIsOfOne ==
    [CallsNext]_<<part, vars, voiceVars>> => [Next]_vars /\ [VoiceNext]_voiceVars
BY DEF CallsNext, Rings, Voices

(* In the composition that the runs check, too, the tabs of a DM agree     *)
(* with its slot, its two members never ring each other, and a call of a   *)
(* voice room spans the time the room was in use (relay_call_signal of     *)
(* routes/ws.rs, the ringing slot of ws/hub.rs, db/voice_calls.rs).        *)
THEOREM CallsHoldSideBySide ==
    CallsSpec => [](RingsAgree /\ OneLiveRing /\ CallSpansRoom)
<1>1. IndInv /\ AgreeInv /\ CallInv => RingsAgree /\ OneLiveRing /\ CallSpansRoom
  BY AgreeGives, CallInvGives DEF IndInv
<1>2. CallsInit => IndInv /\ AgreeInv /\ CallInv
  BY InitHasOneRing, AgreeInit, InitHasCalls DEF CallsInit
<1>3. IndInv /\ AgreeInv /\ CallInv /\ [CallsNext]_<<part, vars, voiceVars>>
          => (IndInv /\ AgreeInv /\ CallInv)'
  BY CallsStepIsOfOne, StepKeepsOneRing, AgreeStep, StepKeepsCalls
<1> QED
  BY <1>1, <1>2, <1>3, PTL DEF CallsSpec
===============================================================================
