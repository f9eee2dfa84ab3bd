------------------------------ MODULE Reminders ------------------------------
(* The reminders of reminders.rs, db/reminders.rs and routes/reminders.rs:  *)
(* a tick selects what is due, claims each row with one UPDATE, looks at    *)
(* the owner's access again, and only then pings.                           *)
EXTENDS Naturals, FiniteSets

CONSTANTS
    Ids,
    Batch,      \* DUE_BATCH
    MaxFaults   \* bound: statements that fail, processes that stop

\* What a configuration must give.
BatchIsPositive == Ids # {} /\ Batch \in Nat \ {0} /\ MaxFaults \in Nat

VARIABLES
    row,        \* reminders: none, pending, due, fired, removed
    gone,       \* reminders whose message is deleted
    access,     \* the owner sees the room
    due,        \* the rows the tick has still to go through
    cur, at,    \* the row in hand: claiming, checking, pinging
    pings,
    faults,
    cancelled,  \* history: cancelled before they fired
    unpinged    \* history: claimed, then no access or a fault

vars == <<row, gone, access, due, cur, at, pings, faults, cancelled, unpinged>>
outside == <<row, gone, access>>
history == <<cancelled, unpinged>>
NoRow == "none"

Init ==
    /\ row = [r \in Ids |-> NoRow] /\ gone = {} /\ access = TRUE
    /\ due = {} /\ cur = (CHOOSE r \in Ids : TRUE) /\ at = "idle"
    /\ pings = [r \in Ids |-> 0]
    /\ faults = 0
    /\ cancelled = {} /\ unpinged = {}

Fault == faults < MaxFaults /\ faults' = faults + 1

(* post_reminder asks that the message is there and its room is seen. *)
Create(r) ==
    /\ row[r] = NoRow /\ r \notin gone /\ access
    /\ row' = [row EXCEPT ![r] = "pending"]
    /\ UNCHANGED <<gone, access, due, cur, at, pings, faults, history>>

FallsDue(r) ==
    /\ row[r] = "pending" /\ row' = [row EXCEPT ![r] = "due"]
    /\ UNCHANGED <<gone, access, due, cur, at, pings, faults, history>>

(* delete_reminder: pending or fired, it goes. *)
Cancel(r) ==
    /\ row[r] \notin {NoRow, "removed"}
    /\ cancelled' = IF row[r] = "fired" THEN cancelled ELSE cancelled \cup {r}
    /\ row' = [row EXCEPT ![r] = "removed"]
    /\ UNCHANGED <<gone, access, due, cur, at, pings, faults, unpinged>>

\* Messages are deleted softly: the row of the reminder stays.
DeleteMessage(r) ==
    /\ r \notin gone /\ gone' = gone \cup {r}
    /\ UNCHANGED <<row, access, due, cur, at, pings, faults, history>>

Leave ==
    /\ access /\ access' = FALSE
    /\ UNCHANGED <<row, gone, due, cur, at, pings, faults, history>>

Selectable == {r \in Ids : row[r] = "due" /\ r \notin gone}
Least(n) == IF n < Batch THEN n ELSE Batch

(* select_due: the rows are ordered by a time the model does not keep. *)
Select ==
    /\ at = "idle"
    /\ \E s \in SUBSET Selectable :
          s # {} /\ Cardinality(s) = Least(Cardinality(Selectable)) /\ due' = s
    /\ at' = "next"
    /\ UNCHANGED <<outside, cur, pings, faults, history>>

\* Variant: the tick trusts what it selected.
AsSelected(r) == row[r] \in {"removed", "due"}

Takes(r) == row[r] = "due"

(* mark_fired: zero rows pass the reminder over, an error ends the tick. *)
Claim(r) ==
    /\ at = "next" /\ r \in due
    /\ \/ /\ due' = due \ {r} /\ cur' = r
          /\ IF Takes(r)
             THEN /\ row' = [row EXCEPT ![r] = IF @ = "due" THEN "fired" ELSE @]
                  /\ at' = "check"
             ELSE UNCHANGED <<row, at>>
          /\ UNCHANGED faults
       \/ Fault /\ due' = {} /\ UNCHANGED <<row, cur, at>>
    /\ UNCHANGED <<gone, access, pings, history>>

(* accessible: an error counts as no access, and the claim stands. *)
CheckAccess ==
    /\ at = "check"
    /\ \/ access /\ at' = "ping" /\ UNCHANGED <<faults, unpinged>>
       \/ ~access /\ at' = "next" /\ unpinged' = unpinged \cup {cur} /\ UNCHANGED faults
       \/ Fault /\ at' = "next" /\ unpinged' = unpinged \cup {cur}
    /\ UNCHANGED <<outside, due, cur, pings, cancelled>>

Ping ==
    /\ at = "ping"
    /\ pings' = [pings EXCEPT ![cur] = @ + 1]
    /\ at' = "next"
    /\ UNCHANGED <<outside, due, cur, faults, history>>

EndOfTick ==
    /\ at = "next" /\ due = {} /\ at' = "idle"
    /\ UNCHANGED <<outside, due, cur, pings, faults, history>>

Stop ==
    /\ at # "idle" /\ Fault
    /\ at' = "idle" /\ due' = {}
    /\ unpinged' = IF at \in {"check", "ping"} THEN unpinged \cup {cur} ELSE unpinged
    /\ UNCHANGED <<outside, cur, pings, cancelled>>

TickStep == Select \/ (\E r \in Ids : Claim(r)) \/ CheckAccess \/ Ping \/ EndOfTick
Next ==
    \/ TickStep \/ Stop \/ Leave
    \/ \E r \in Ids : Create(r) \/ FallsDue(r) \/ Cancel(r) \/ DeleteMessage(r)

Spec == Init /\ [][Next]_vars /\ WF_vars(TickStep)

---------------------------------------------------------------------------
TypeOK ==
    /\ row \in [Ids -> {NoRow, "pending", "due", "fired", "removed"}]
    /\ due \subseteq Ids /\ cur \in Ids
    /\ at \in {"idle", "next", "check", "ping"}

(* A reminder pings at most once, and never once it was cancelled before it *)
(* fired, stops and failures of the tick included.                          *)
PingedAtMostOnce ==
    \A r \in Ids : pings[r] <= (IF r \in cancelled THEN 0 ELSE 1)

(* What stands as fired was pinged, but for the owner who lost the room and *)
(* for a fault after the claim: the claim is not taken back.                *)
FiredWasPinged ==
    \A r \in Ids :
        row[r] = "fired" => pings[r] = 1 \/ r \in unpinged \/ (cur = r /\ at \in {"check", "ping"})

(* What is due fires in the end, whatever the tick trips over, unless it is *)
(* cancelled or its message deleted.                                        *)
EveryReminderSettles == \A r \in Ids : row[r] = "due" ~> row[r] # "due" \/ r \in gone
=============================================================================
