--------------------------- MODULE RecurrenceCheck ---------------------------
(* The recurrence arithmetic over every small input: an occurrence that    *)
(* fired at `fired`, and a clock that moves on from before it to weeks     *)
(* after it (a dispatcher that was down).                                  *)
EXTENDS Recurrence

CONSTANTS Horizon      \* bound: the last instant tried

VARIABLES fired, repeat, now

Init ==
    /\ fired \in 0..(7 * Day)
    /\ repeat \in RepeatKinds \ {"none"}
    /\ now = 0

Tick ==
    /\ now' = IF now < Horizon THEN now + 1 ELSE now
    /\ UNCHANGED <<fired, repeat>>

Spec == Init /\ [][Tick]_<<fired, repeat, now>>

(* The walk of next_occurrence_from finds exactly the first slot of the    *)
(* series after both the fired occurrence and now: it neither skips a slot *)
(* nor returns one that has passed.                                        *)
WalkFindsNextSlot ==
    LoopResult(fired, repeat, now) = NextOccurrence(fired, repeat, now)

(* Catching up loses the series nothing but the slots that have passed: a  *)
(* series advanced one occurrence at a time and one advanced in a single   *)
(* jump after an outage arrive at the same slot.                           *)
CatchUpMeetsSeries ==
    LET first == LoopResult(fired, repeat, 0)
    IN  first <= now => LoopResult(first, repeat, now) = LoopResult(fired, repeat, now)
===============================================================================
