------------------------------ MODULE Presence ------------------------------
(* One user's status circle as the others see it (routes/status.rs, bg.rs,  *)
(* db/auth.rs, the two scanners of main.rs, the first and the last socket   *)
(* in routes/ws.rs): what the user chose, what idling and the timer do to   *)
(* it, and the broadcasts that follow each write.                           *)
EXTENDS Naturals

CONSTANT MaxEvents      \* bound: what the user does

\* What a configuration must give.
PresenceAssumption == MaxEvents \in Nat

VARIABLES
    status, timer,      \* users.status; custom_status_expires_at: none, set or due
    recent,             \* last_active_at is within IDLE_AFTER_SECS
    debounced,          \* the activity ledger holds a touch of the last 30 s
    queued,             \* the background writer holds a touch
    tabs,               \* live sockets in the hub
    task,               \* whoever is between its write and its broadcast
    shown,              \* the status broadcast last
    events,
    chosen,             \* history: away or dnd as chosen, until its timer is up
    stale,              \* history: the last broadcast was out of date, or of an absent user
    slipped             \* history: the touch came before the idling, its stamp after

stamps == <<recent, debounced, queued>>
history == <<chosen, slipped>>
vars == <<status, timer, stamps, tabs, task, shown, events, history, stale>>

Choices == {"active", "away", "dnd"}
Sticky == {"away", "dnd"}
\* post_status, the touch, the two scanners, handle_socket at its two ends.
Kinds == {"set", "touch", "idle", "expire", "open", "close"}
NoTask == [at |-> "none", value |-> "none", seen |-> FALSE]

Connected == tabs > 0

(* effective_status *)
Effective == IF Connected THEN status ELSE "offline"

Init ==
    /\ status = "active" /\ timer = "none"
    /\ recent = TRUE /\ debounced = FALSE /\ queued = FALSE
    /\ tabs = 0
    /\ task = [k \in Kinds |-> NoTask]
    /\ shown = "offline"
    /\ events = 0
    /\ chosen = "none" /\ stale = FALSE /\ slipped = FALSE

Free(k) == task[k].at = "none"
Becomes(k, at, value) == [task EXCEPT ![k] = [at |-> at, value |-> value, seen |-> Connected]]
Ends(k) == [task EXCEPT ![k] = NoTask]
Event == events < MaxEvents /\ events' = events + 1

(* set_user_status by post_status: "keep" leaves the timer as it is. *)
PostStatus(s) ==
    /\ Event /\ Free("set")
    /\ status' = s
    /\ timer' \in {"none", "set", timer}
    /\ recent' = (s = "active" \/ recent)
    /\ task' = Becomes("set", "send", s)
    /\ chosen' = IF s \in Sticky THEN s ELSE "none"
    /\ slipped' = FALSE
    /\ UNCHANGED <<debounced, queued, tabs, shown, stale>>

\* Variant: the touch takes whoever is not active for idle.
WakesAnyone == status # "active"

Wakes == status = "idle"

(* touch_user_and_maybe_broadcast, up to the first UPDATE of the touch. *)
Touch ==
    /\ Event /\ Free("touch")
    /\ IF debounced
       THEN /\ queued' = TRUE
            /\ UNCHANGED <<status, recent, debounced, task, slipped>>
       ELSE /\ debounced' = TRUE
            /\ IF Wakes
               THEN /\ status' = "active" /\ recent' = TRUE /\ slipped' = FALSE
                    /\ task' = Becomes("touch", "load", "none")
               ELSE /\ task' = Becomes("touch", "missed", "none")
                    /\ UNCHANGED <<status, recent, slipped>>
            /\ UNCHANGED queued
    /\ UNCHANGED <<timer, tabs, shown, chosen, stale>>

\* The second UPDATE, for a row the first did not match.
Stamp ==
    /\ task["touch"].at = "missed"
    /\ recent' = TRUE
    /\ slipped' = (slipped \/ status = "idle")
    /\ task' = Ends("touch")
    /\ UNCHANGED <<status, timer, debounced, queued, tabs, shown, events, chosen, stale>>

(* flush_user_activity leaves an idle row to the touch that broadcasts. *)
Flush ==
    /\ queued /\ queued' = FALSE
    /\ recent' = (recent \/ status # "idle")
    /\ UNCHANGED <<status, timer, debounced, tabs, task, shown, events, history, stale>>

Settled == ~debounced /\ ~queued

\* The debounce and the flush are a matter of seconds, idling of minutes.
Age ==
    /\ \/ debounced /\ debounced' = FALSE /\ UNCHANGED <<recent, timer>>
       \/ Settled /\ recent' = FALSE /\ UNCHANGED <<debounced, timer>>
       \/ timer = "set" /\ timer' = "due" /\ UNCHANGED <<recent, debounced>>
    /\ UNCHANGED <<status, queued, tabs, task, shown, events, history, stale>>

(* mark_idle_users *)
IdleScan ==
    /\ Free("idle")
    /\ status = "active" /\ ~recent
    /\ status' = "idle"
    /\ task' = Becomes("idle", "check", "idle")
    /\ UNCHANGED <<timer, stamps, tabs, shown, events, history, stale>>

(* clear_expired_custom_statuses *)
ExpireScan ==
    /\ Free("expire")
    /\ timer = "due" /\ timer' = "none"
    /\ status' = IF status \in Sticky THEN "active" ELSE status
    /\ task' = Becomes("expire", "check", status')
    /\ chosen' = "none"
    /\ UNCHANGED <<stamps, tabs, shown, events, slipped, stale>>

\* Variant: the scanner paints whoever it changed.
Anyone == TRUE

Repaints == Connected

\* The scanners pass over who has no tab.
Check(k) ==
    /\ task[k].at = "check"
    /\ task' = IF Repaints THEN Becomes(k, "send", task[k].value) ELSE Ends(k)
    /\ UNCHANGED <<status, timer, stamps, tabs, shown, events, history, stale>>

(* The hub's connect: the first socket announces the user. *)
Open ==
    /\ Event /\ tabs < 2
    /\ tabs = 0 => Free("open")
    /\ tabs' = tabs + 1
    /\ task' = IF Connected THEN task
               ELSE [task EXCEPT !["open"] = [at |-> "load", value |-> "none", seen |-> TRUE]]
    /\ UNCHANGED <<status, timer, stamps, shown, history, stale>>

\* A socket that still announces the user is not the one to go.
Close ==
    /\ tabs > (IF Free("open") THEN 0 ELSE 1)
    /\ Free("close")
    /\ tabs' = tabs - 1
    /\ task' = IF tabs' = 0
               THEN [task EXCEPT !["close"] = [at |-> "send", value |-> "offline", seen |-> TRUE]]
               ELSE task
    /\ UNCHANGED <<status, timer, stamps, shown, events, history, stale>>

(* find_user_by_id, before the broadcast of a touch and of a first socket. *)
Load(k) ==
    /\ task[k].at = "load"
    /\ task' = Becomes(k, "send", status)
    /\ UNCHANGED <<status, timer, stamps, tabs, shown, events, history, stale>>

\* broadcast_global.  Neither post_status nor a touch asks for a tab.
Send(k) ==
    /\ task[k].at = "send"
    /\ shown' = task[k].value
    /\ stale' = (shown' # Effective /\ (task[k].seen \/ k \in {"set", "touch"}))
    /\ task' = Ends(k)
    /\ UNCHANGED <<status, timer, stamps, tabs, events, history>>

Next ==
    \/ \E s \in Choices : PostStatus(s)
    \/ Touch \/ Stamp \/ Flush \/ Age \/ IdleScan \/ ExpireScan \/ Open \/ Close
    \/ \E k \in Kinds : Check(k) \/ Load(k) \/ Send(k)

Spec == Init /\ [][Next]_vars

---------------------------------------------------------------------------
TypeOK ==
    /\ status \in Choices \cup {"idle"} /\ timer \in {"none", "set", "due"}
    /\ tabs \in 0..2
    /\ \A k \in Kinds : task[k].at \in {"none", "missed", "check", "load", "send"}
    /\ shown \in Choices \cup {"idle", "offline"}

(* Away and Do not disturb stay as they were chosen until their own timer is   *)
(* up, whatever touches, flushes and scans come in between.                    *)
ChoiceIsKept == chosen # "none" => status = chosen

(* A user who is there does not show as idle, but where the scanner came       *)
(* between the two statements of a touch.                                      *)
IdleMeansQuiet == status = "idle" /\ recent => slipped

(* Every change of what a user's circle should be is announced: with all       *)
(* broadcasts out the others see the effective status, unless the last one     *)
(* was overtaken on its way, or was made for a user with no tab.               *)
CircleIsRight ==
    (\A k \in Kinds : task[k].at \in {"none", "missed"}) => shown = Effective \/ stale
=============================================================================
