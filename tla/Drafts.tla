------------------------------- MODULE Drafts -------------------------------
(* The draft one user has in one room (routes/drafts.rs, db/drafts.rs, the  *)
(* clearing in routes/room.rs and routes/scheduled.rs) and the pencil their *)
(* sidebars show.  The composer saves as it is typed in: a save is on its   *)
(* way while the message it became is sent.                                 *)
EXTENDS Naturals

CONSTANTS
    Bodies, None,
    Puts,           \* saves in flight
    MaxRequests     \* bound: saves and sends begun

\* What a configuration must give.
DraftsAssumption == None \notin Bodies /\ "row" \notin Puts /\ MaxRequests \in Nat

VARIABLES
    row,            \* message_drafts: the body, or None
    recent,         \* bodies sent in the last 5 seconds
    put,            \* saves: where they are, of what
    send,           \* the request that sends or schedules
    pencil,         \* what the sidebars show
    requests,
    typed,          \* history: how the row, and each save, stands to the last send
    misled          \* history: the last word on the pencil was out of date, or none went out

vars == <<row, recent, put, send, pencil, requests, typed, misled>>
Idle == [at |-> "none", body |-> None]

\* Saves typed after the last send are "fresh"; "before" it, they must not
\* outlive it, unless the guard was passed or could not see the message.
Init ==
    /\ row = None /\ recent = {}
    /\ put = [p \in Puts |-> Idle]
    /\ send = Idle
    /\ pencil = FALSE /\ requests = 0
    /\ typed = [x \in Puts \cup {"row"} |-> "fresh"]
    /\ misled = FALSE

Begin == requests < MaxRequests /\ requests' = requests + 1

(* put_draft, up to its check of the room; None is the body left empty. *)
Save(p, b) ==
    /\ Begin /\ put[p] = Idle
    /\ put' = [put EXCEPT ![p] = [at |-> "asked", body |-> b]]
    /\ typed' = [typed EXCEPT ![p] = "fresh"]
    /\ UNCHANGED <<row, recent, send, pencil, misled>>

JustSent(b) == b \in recent

\* Variant: the guard is left to the client.
NeverSent(b) == FALSE

Refused(b) == JustSent(b)

\* The race guard of put_draft: an exact match of the last 5 seconds.
Guard(p) ==
    /\ put[p].at = "asked" /\ put[p].body # None
    /\ put' = [put EXCEPT ![p] = IF Refused(put[p].body) THEN Idle ELSE [@ EXCEPT !.at = "passed"]]
    /\ UNCHANGED <<row, recent, send, pencil, requests, typed, misled>>

Upsert(p) ==
    /\ put[p].at = "passed"
    /\ row' = put[p].body
    /\ typed' = [typed EXCEPT !["row"] = typed[p]]
    /\ put' = [put EXCEPT ![p].at = "saved"]
    /\ UNCHANGED <<recent, send, pencil, requests, misled>>

\* An empty body deletes, and speaks only if there was a row.
SaveEmpty(p) ==
    /\ put[p].at = "asked" /\ put[p].body = None
    /\ put' = [put EXCEPT ![p] = IF row = None THEN Idle ELSE [@ EXCEPT !.at = "deleted"]]
    /\ row' = None
    /\ typed' = [typed EXCEPT !["row"] = "fresh"]
    /\ UNCHANGED <<recent, send, pencil, requests, misled>>

Tell(has) ==
    /\ pencil' = has
    /\ misled' = (has # (row # None))

(* broadcast_draft_changed *)
TellSaved(p) ==
    /\ put[p].at \in {"saved", "deleted"}
    /\ Tell(put[p].at = "saved")
    /\ put' = [put EXCEPT ![p] = Idle]
    /\ UNCHANGED <<row, recent, send, requests, typed>>

\* What was typed before a send: a save past the guard, a save of other text,
\* and any save when the text is scheduled, for there is no message to match.
Standing(x, b, scheduled) ==
    IF x = "row" THEN "before"
    ELSE IF put[x].at = "asked" /\ put[x].body = b /\ ~scheduled THEN "before"
    ELSE "unseen"

(* post_message inserts; post_create of a scheduled message writes its own row. *)
Insert(b, scheduled) ==
    /\ Begin /\ send = Idle
    /\ send' = [at |-> "sent", body |-> b]
    /\ recent' = IF scheduled THEN recent ELSE recent \cup {b}
    /\ typed' = [x \in DOMAIN typed |-> Standing(x, b, scheduled)]
    /\ UNCHANGED <<row, put, pencil, misled>>

\* Variant: the draft is left to the composer to clear.
LeftToComposer == row

Cleared == None

\* finalize_message_send and post_create: best effort, an error is dropped.
Clear ==
    /\ send.at = "sent"
    /\ \/ /\ row' = Cleared
          /\ typed' = [typed EXCEPT !["row"] = IF row' = None THEN "fresh" ELSE @]
          /\ send' = IF row = None THEN Idle ELSE [send EXCEPT !.at = "cleared"]
       \/ /\ send' = Idle /\ UNCHANGED row
          /\ typed' = [typed EXCEPT !["row"] = "unseen"]
    /\ UNCHANGED <<recent, put, pencil, requests, misled>>

TellCleared ==
    /\ send.at = "cleared" /\ send' = Idle
    /\ Tell(FALSE)
    /\ UNCHANGED <<row, recent, put, requests, typed>>

\* Five seconds on: what has not met the guard by now, it will not stop.
WindowPasses ==
    /\ recent # {} /\ recent' = {}
    /\ typed' = [x \in DOMAIN typed |-> IF x \in Puts /\ typed[x] = "before" THEN "unseen" ELSE typed[x]]
    /\ UNCHANGED <<row, put, send, pencil, requests, misled>>

(* get_fresh_or_purge, sixty days on: no word goes out. *)
Purge ==
    /\ send = Idle /\ \A p \in Puts : put[p] = Idle
    /\ row # None /\ row' = None
    /\ recent' = {}
    /\ typed' = [typed EXCEPT !["row"] = "fresh"]
    /\ misled' = TRUE
    /\ UNCHANGED <<put, send, pencil, requests>>

Next ==
    \/ \E p \in Puts :
          \/ \E b \in Bodies \cup {None} : Save(p, b)
          \/ Guard(p) \/ Upsert(p) \/ SaveEmpty(p) \/ TellSaved(p)
    \/ \E b \in Bodies, scheduled \in BOOLEAN : Insert(b, scheduled)
    \/ Clear \/ TellCleared \/ WindowPasses \/ Purge

Spec == Init /\ [][Next]_vars

---------------------------------------------------------------------------
TypeOK ==
    /\ row \in Bodies \cup {None} /\ recent \subseteq Bodies
    /\ \A p \in Puts : put[p].at \in {"none", "asked", "passed", "saved", "deleted"}
    /\ send.at \in {"none", "sent", "cleared"}

(* What was sent does not come back as a draft: with the send done, no row  *)
(* stands that was typed before it, but for a save that was past the guard, *)
(* of other text, or later than the guard's window, and a clearing lost.    *)
SentIsNotADraft ==
    send = Idle /\ row # None => typed["row"] # "before"

(* With every word out, the pencil stands where there is a draft, unless    *)
(* the last word was overtaken by another write, or a purge gave none.      *)
PencilFollowsDraft ==
    send = Idle /\ (\A p \in Puts : put[p].at \notin {"saved", "deleted"})
        => pencil = (row # None) \/ misled
=============================================================================
