------------------------------- MODULE MCCalls --------------------------------
(* The ringing of one DM and the call log of one voice room, on small          *)
(* instances.  The two share no state: a run is a run of one of them, chosen   *)
(* in the initial state, with the other at rest.                               *)
EXTENDS DmRinging, VoiceCalls, TLC

CONSTANTS anna, bob, a1, b1

TwoMembers == {anna, bob}
TwoTabs == {a1, b1}
OneEach == (a1 :> anna) @@ (b1 :> bob)

VARIABLE part       \* the component that runs

CallsInit == part \in {"ring", "voice"} /\ Init /\ VoiceInit
Rings == part = "ring" /\ Next /\ UNCHANGED <<part, voiceVars>>
Voices == part = "voice" /\ VoiceNext /\ UNCHANGED <<part, vars>>
CallsNext == Rings \/ Voices

(* The fairness of the two components, each for the runs that are its own. *)
CallsSpec ==
    /\ CallsInit /\ [][CallsNext]_<<part, vars, voiceVars>>
    /\ \A t \in Tabs : WF_vars(part = "ring" /\ Handle(t))
    /\ \A s \in Claims : WF_vars(part = "ring" /\ Age(s)) /\ WF_vars(part = "ring" /\ Expire(s))
    /\ \A c \in Conns : WF_voiceVars(part = "voice" /\ HandlerStep(c))
    /\ \A t \in TaskIds : WF_voiceVars(part = "voice" /\ TaskStep(t))

(* Nothing lasts for ever: no ring outlives its time, and no call the room it *)
(* was in, but for the strandings VoiceCalls names.                           *)
CallsEnd == RingEnds /\ EmptyRoomCloses
===============================================================================
