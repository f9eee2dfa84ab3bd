------------------------------- MODULE MCSeries -------------------------------
(* A recurring message of one author under two dispatchers, and beside it the  *)
(* arithmetic of recurrences over every small input (the two share no state: a *)
(* run is a run of one of them, chosen in the initial state).                  *)
EXTENDS MCScheduled

CONSTANTS
    CheckDay, CheckAdvance,     \* Day and MaxAdvance of the arithmetic
    Horizon                     \* bound: the last instant tried

VARIABLES
    part,                       \* the component that runs
    fired, repeat, clock

R == INSTANCE RecurrenceCheck WITH Day <- CheckDay, MaxAdvance <- CheckAdvance, now <- clock
inputs == <<fired, repeat, clock>>

\* The steps of the walk, of a day each at least, reach beyond the clock.
ASSUME HorizonAssumption ==
    /\ Horizon \in Nat /\ CheckDay \in Nat \ {0} /\ CheckAdvance \in Nat \ {0}
    /\ Horizon < CheckAdvance * CheckDay

SeriesInit ==
    \/ part = "series" /\ Init /\ fired = 0 /\ repeat = "daily" /\ clock = 0
    \/ part = "arithmetic" /\ Init /\ R!Init
Rows == part = "series" /\ Next /\ UNCHANGED <<part, inputs>>
Arithmetic == part = "arithmetic" /\ R!Tick /\ UNCHANGED <<part, vars>>
SeriesNext == Rows \/ Arithmetic

SeriesSpec == SeriesInit /\ [][SeriesNext]_<<part, vars, inputs>>

(* The walk of Recurrence finds the first slot of the series after now, in as  *)
(* many steps as it is given, and catching up meets the series it comes from.  *)
RecurrenceIsRight ==
    part = "arithmetic" => R!WalkFindsNextSlot /\ R!CatchUpMeetsSeries
===============================================================================
