------------------------------ MODULE Recurrence ------------------------------
(***************************************************************************)
(* The calendar arithmetic of recurring scheduled messages                 *)
(* (server/src/scheduled/recurrence.rs).  Instants are minutes since a     *)
(* Monday midnight; a day has Day minutes.                                 *)
(*                                                                         *)
(* The code walks forward one step at a time until it passes `now`.        *)
(* LoopResult is that walk.  NextOccurrence says what the walk finds: the  *)
(* first slot of the series after both the fired occurrence and `now`.     *)
(* RecurrenceCheck compares the two, ScheduledProofs proves what the       *)
(* dispatcher relies on about the second.                                  *)
(***************************************************************************)
EXTENDS Integers

CONSTANTS
    Day,          \* minutes in a day (1440; smaller in the finite instances)
    MaxAdvance    \* the walk's loop bound, MAX_ADVANCE (20000 in the code)

ASSUME DayAssumption == Day \in Nat \ {0}
ASSUME MaxAdvanceAssumption == MaxAdvance \in Nat \ {0}

RepeatKinds == {"none", "daily", "weekly", "weekdays"}

Weekday(t) == (t \div Day) % 7              \* 0 is Monday, 5 and 6 the weekend
IsWeekend(t) == Weekday(t) \in {5, 6}

-------------------------------------------------------------------------------
(* The walk, as the code writes it *)

DaysToNextWeekday(t) ==
    CHOOSE k \in 1..3 : /\ ~IsWeekend(t + k * Day)
                        /\ \A j \in 1..(k - 1) : IsWeekend(t + j * Day)

Step(t, repeat) ==
    CASE repeat = "daily"    -> t + Day
      [] repeat = "weekly"   -> t + 7 * Day
      [] repeat = "weekdays" -> t + DaysToNextWeekday(t) * Day

(* Variant: the loop runs while next < now, so it may stop on now itself. *)
StopsAtNow(next, now) == next >= now

(* The loop breaks once `next` is strictly in the future. *)
Passed(next, now) == next > now

(* The walk's position after its k-th iteration, counting from 0: it stays *)
(* put once it has passed `now` (the `break`).                             *)
Walk(t, repeat, now) ==
    LET onwards(u) == IF Passed(u, now) THEN u ELSE Step(u, repeat)
        pos[k \in Nat] == IF k = 0 THEN Step(t, repeat) ELSE onwards(pos[k - 1])
    IN  pos

LoopResult(t, repeat, now) == Walk(t, repeat, now)[MaxAdvance - 1]

-------------------------------------------------------------------------------
(* What the walk finds *)

IsSlot(t, repeat, u) ==
    \/ repeat = "daily"    /\ (u - t) % Day = 0
    \/ repeat = "weekly"   /\ (u - t) % (7 * Day) = 0
    \/ repeat = "weekdays" /\ (u - t) % Day = 0 /\ ~IsWeekend(u)

Later(t, now) == IF t > now THEN t ELSE now

(* Two slots are at most a week apart, so the search is bounded. *)
SlotsAfter(t, repeat, now) ==
    {u \in (Later(t, now) + 1)..(Later(t, now) + 7 * Day) : IsSlot(t, repeat, u)}

NextOccurrence(t, repeat, now) ==
    CHOOSE u \in SlotsAfter(t, repeat, now) :
        \A v \in SlotsAfter(t, repeat, now) : u <= v
===============================================================================
