-------------------------- MODULE ScheduledPromise --------------------------
(***************************************************************************)
(* What a scheduled message promises its author, with no rows, claims or   *)
(* dispatcher ticks in it.  A series (a one-shot message, or all the       *)
(* occurrences of a recurring one) waits until it fires; it posts one      *)
(* message each time; a one-shot series is then over and a recurring one   *)
(* keeps waiting; a series that is over never fires again.                 *)
(***************************************************************************)
CONSTANTS
    Series,     \* names of the series
    Messages    \* the messages they may post

VARIABLES
    stage,      \* "unborn", then "once" or "repeating", then "over"
    sent        \* the messages of each series that are in the room

promise == <<stage, sent>>

Waiting(s) == stage[s] \in {"once", "repeating"}

Init ==
    /\ stage = [s \in Series |-> "unborn"]
    /\ sent = [s \in Series |-> {}]

(* The server takes the message on. *)
Accept(s) ==
    /\ stage[s] = "unborn"
    /\ \E kind \in {"once", "repeating"} : stage' = [stage EXCEPT ![s] = kind]
    /\ UNCHANGED sent

(* It posts one message, which no series had posted before. *)
Fire(s) ==
    /\ Waiting(s)
    /\ \E m \in Messages :
          /\ \A q \in Series : m \notin sent[q]
          /\ sent' = [sent EXCEPT ![s] = @ \cup {m}]
    /\ stage' = [stage EXCEPT ![s] = IF @ = "once" THEN "over" ELSE @]

(* Its author cancels it, or it is refused at its time. *)
End(s) ==
    /\ Waiting(s)
    /\ stage' = [stage EXCEPT ![s] = "over"]
    /\ UNCHANGED sent

(* The author's account or the room goes, with all it had posted. *)
Taken == {s \in Series : stage[s] # "unborn"}

Erase(S) ==
    /\ stage' = [s \in Series |-> IF s \in S THEN "over" ELSE stage[s]]
    /\ sent' = [s \in Series |-> IF s \in S THEN {} ELSE sent[s]]

Next ==
    \/ \E S \in SUBSET Taken : Erase(S)
    \/ \E s \in Series : Accept(s) \/ Fire(s) \/ End(s)

Spec == Init /\ [][Next]_promise
=============================================================================
