------------------------------ MODULE Messages ------------------------------
(***************************************************************************)
(* The messages of one channel as one reader sees them: posting, editing,  *)
(* deleting, the link filter's quarantine and its review, the sweeps that  *)
(* purge, the mention rows, the read watermark and the page the reader has *)
(* open (routes/room.rs, routes/admin.rs, routes/read_all.rs, routes/ws.rs,*)
(* db/chat.rs, db/mentions.rs, db/moderation.rs, db/anti_spam.rs,          *)
(* retention/sweep.rs).                                                    *)
(*                                                                         *)
(* Every handler is a chain of statements with requests between them.  Who *)
(* may call it is left out: somebody may.  A body is what the reader could *)
(* tell: whether it mentions them.                                         *)
(***************************************************************************)
EXTENDS Naturals, Sequences, FiniteSets

CONSTANTS
    Last,           \* message ids are 1 .. Last, in the order of insertion
    Bodies,
    Mentioning,     \* the bodies that mention the reader
    Tasks,          \* requests and sweeps in flight
    MaxRequests     \* bound: requests begun

\* What a configuration must give.
MessagesAssumption ==
    /\ Last \in Nat \ {0} /\ MaxRequests \in Nat
    /\ Bodies # {} /\ Mentioning \subseteq Bodies
    /\ {"absent", "gone"} \cap Bodies = {}     \* what a page shows of no message

Ids == 1 .. Last

VARIABLES
    row,            \* messages: where it is, is it held, who deleted it, its body
    review,         \* link_filter_quarantine
    mention,        \* the reader's row in mentions
    watermark,      \* dm_read_state.last_read_message_id
    task,
    conn,           \* the reader's page: closed, or where its socket is
    tab,            \* what that page shows
    queue,          \* events sent to its socket
    requests,
    overlapped,     \* history: messages two handlers worked on at once
    missed,         \* history: messages whose word the open page did not get in order
    late            \* history: mentions a mark-unread passed, or written below the watermark

vars == <<row, review, mention, watermark, task, conn, tab, queue, requests, overlapped, missed, late>>

NoRow == [at |-> "none", held |-> FALSE, deleted |-> "no", body |-> CHOOSE b \in Bodies : TRUE]
Idle == [pc |-> "idle", kind |-> "none", msg |-> 0, body |-> NoRow.body, read |-> NoRow.body,
         had |-> FALSE, upto |-> 0]

NoConn == [pc |-> "closed", msg |-> 0, at |-> "none"]

Init ==
    /\ row = [m \in Ids |-> NoRow]
    /\ review = [m \in Ids |-> "none"]
    /\ mention = [m \in Ids |-> "none"]
    /\ watermark = 0
    /\ task = [t \in Tasks |-> Idle]
    /\ conn = NoConn
    /\ tab = [m \in Ids |-> "absent"]
    /\ queue = <<>>
    /\ requests = 0
    /\ overlapped = {} /\ missed = {} /\ late = {}

readState == <<watermark, conn, tab>>
history == <<overlapped, missed, late>>

(* get_message *)
Visible(m) == row[m].at = "there" /\ row[m].deleted = "no" /\ ~row[m].held

(* Variant: the page query forgets that held messages are hidden. *)
ListsHeld(m) == row[m].at = "there" /\ row[m].deleted = "no"

(* list_messages *)
Listed(m) == row[m].at = "there" /\ row[m].deleted = "no" /\ ~row[m].held

Working(m) == \E t \in Tasks : task[t].msg = m

(* A request on m begins. *)
Begin(t, kind, m, pc, b) ==
    /\ task[t].pc = "idle" /\ requests < MaxRequests
    /\ requests' = requests + 1
    /\ task' = [task EXCEPT ![t] = [Idle EXCEPT !.pc = pc, !.kind = kind, !.msg = m, !.body = b]]
    /\ overlapped' = IF Working(m) THEN overlapped \cup {m} ELSE overlapped
    /\ missed' = IF Working(m) \/ (kind = "reject" /\ Visible(m)) THEN missed \cup {m} ELSE missed
    /\ late' = late

Goto(t, pc) == task' = [task EXCEPT ![t].pc = pc]
Finish(t) == task' = [task EXCEPT ![t] = Idle]

(* hub.broadcast_to_room: to the open page; one being loaded misses it. *)
Broadcast(what, m, b) ==
    /\ queue' = IF conn.pc \in {"open", "marking"} THEN Append(queue, [what |-> what, msg |-> m, body |-> b]) ELSE queue
    /\ missed' = IF conn.pc = "loading" THEN missed \cup {m} ELSE missed
    /\ UNCHANGED <<overlapped, late>>

-----------------------------------------------------------------------------
(* post_message: the row is visible from its insert; one the filter holds  *)
(* is flipped and queued for review by statements of their own.            *)
PostInsert(t, m, b, hold) ==
    /\ row[m].at = "none" /\ \A k \in 1 .. m - 1 : row[k].at # "none"
    /\ Begin(t, "post", m, IF hold THEN "flip" ELSE "render", b)
    /\ row' = [row EXCEPT ![m] = [NoRow EXCEPT !.at = "there", !.body = b]]
    /\ UNCHANGED <<review, mention, readState, queue>>

PostFlip(t) ==
    /\ task[t].pc = "flip" /\ Goto(t, "enqueue")
    /\ row' = [row EXCEPT ![task[t].msg].held = TRUE]
    /\ UNCHANGED <<review, mention, readState, queue, requests, history>>

PostEnqueue(t) ==
    /\ task[t].pc = "enqueue" /\ Finish(t)
    /\ review' = [review EXCEPT ![task[t].msg] = "pending"]
    /\ UNCHANGED <<row, mention, readState, queue, requests, history>>

(* patch_message *)
EditCheck(t, m, b) ==
    /\ Visible(m) /\ b # row[m].body
    /\ Begin(t, "edit", m, "write", b)
    /\ UNCHANGED <<row, review, mention, readState, queue>>

(* update_message_body; it fails for a row that was purged. *)
EditWrite(t) ==
    LET m == task[t].msg
    IN  /\ task[t].pc = "write"
        /\ IF row[m].at = "purged" THEN Finish(t) /\ UNCHANGED row
           ELSE /\ row' = [row EXCEPT ![m].body = task[t].body]
                /\ Goto(t, "render")
        /\ UNCHANGED <<review, mention, readState, queue, requests, history>>

(* finalize_message_send and load_for_broadcast read the row again ... *)
Render(t) ==
    LET m == task[t].msg
    IN  /\ task[t].pc = "render"
        /\ IF Visible(m) THEN task' = [task EXCEPT ![t].pc = "send", ![t].read = row[m].body]
           ELSE IF task[t].kind = "edit" THEN Goto(t, "mentions")
           ELSE Finish(t)
        /\ UNCHANGED <<row, review, mention, readState, queue, requests, history>>

(* ... and send it; the mentions come after. *)
Send(t) ==
    LET m == task[t].msg
    IN  /\ task[t].pc = "send"
        /\ Broadcast(IF task[t].kind = "edit" THEN "edit" ELSE "new", m, task[t].read)
        /\ IF task[t].kind = "approve" THEN Finish(t) ELSE Goto(t, "mentions")
        /\ UNCHANGED <<row, review, mention, readState, requests>>

(* reconcile_mentions reads the rows there are (a post that mentions       *)
(* nobody does not) ...                                                    *)
Mentions(t) ==
    LET m == task[t].msg
    IN  /\ task[t].pc = "mentions"
        /\ IF task[t].kind = "post" /\ task[t].body \notin Mentioning THEN Finish(t)
           ELSE task' = [task EXCEPT ![t].pc = "rows", ![t].had = mention[m] # "none"]
        /\ UNCHANGED <<row, review, mention, readState, queue, requests, history>>

(* Variant: rows of users no longer mentioned stay. *)
NeverRemoved(t, old) ==
    IF task[t].body \in Mentioning /\ ~task[t].had /\ old = "none" THEN "unread" ELSE old

Reconciled(t, old) ==
    IF task[t].body \in Mentioning
    THEN IF ~task[t].had /\ old = "none" THEN "unread" ELSE old
    ELSE IF task[t].had THEN "none" ELSE old

(* ... and writes the difference; a purged message takes no row. *)
Rows(t) ==
    LET m == task[t].msg
        new == IF row[m].at = "purged" THEN "none" ELSE Reconciled(t, mention[m])
    IN  /\ task[t].pc = "rows" /\ Finish(t)
        /\ mention' = [mention EXCEPT ![m] = new]
        /\ late' = IF mention[m] = "none" /\ new = "unread" /\ m <= watermark THEN late \cup {m} ELSE late
        /\ UNCHANGED <<row, review, readState, queue, requests, overlapped, missed>>

-----------------------------------------------------------------------------
(* delete_message: the mention rows, then the message, then the word. *)
DeleteCheck(t, m) ==
    /\ Visible(m)
    /\ Begin(t, "delete", m, "unmention", NoRow.body)
    /\ UNCHANGED <<row, review, mention, readState, queue>>

DeleteMentions(t) ==
    /\ task[t].pc = "unmention" /\ Goto(t, "remove")
    /\ mention' = [mention EXCEPT ![task[t].msg] = "none"]
    /\ UNCHANGED <<row, review, readState, queue, requests, history>>

(* soft_delete_message *)
Removed(m, by) == [row EXCEPT ![m].deleted = IF row[m].at = "purged" THEN "no" ELSE by]

DeleteRow(t) ==
    /\ task[t].pc = "remove" /\ Goto(t, "tombstone")
    /\ row' = Removed(task[t].msg, "request")
    /\ UNCHANGED <<review, mention, readState, queue, requests, history>>

DeleteSend(t) ==
    /\ task[t].pc = "tombstone" /\ Finish(t)
    /\ Broadcast("deleted", task[t].msg, NoRow.body)
    /\ UNCHANGED <<row, review, mention, readState, requests>>

(* soft_delete_user_messages_in_enclave leaves the mention rows. *)
CoyotePurge(t, m) ==
    /\ row[m].at = "there" /\ row[m].deleted = "no"
    /\ Begin(t, "coyote", m, "tombstone", NoRow.body)
    /\ row' = Removed(m, "moderation")
    /\ UNCHANGED <<review, mention, readState, queue>>

(* Variant: foreign keys are not enforced. *)
NoCascade(table, m) == table

(* ON DELETE CASCADE *)
Cascade(table, m) == [table EXCEPT ![m] = "none"]

(* The retention and expiry sweeps hard-delete; rows that refer to the     *)
(* message go with it.  No message being posted is old enough.             *)
Purge(t, m) ==
    /\ row[m].at = "there"
    /\ \A k \in Tasks : ~(task[k].kind = "post" /\ task[k].msg = m)
    /\ Begin(t, "sweep", m, "tombstone", NoRow.body)
    /\ row' = [row EXCEPT ![m] = [NoRow EXCEPT !.at = "purged"]]
    /\ review' = Cascade(review, m)
    /\ mention' = Cascade(mention, m)
    /\ UNCHANGED <<readState, queue>>

(* post_quarantine_approve: one transaction, then the message is sent. *)
Approve(t, m) ==
    /\ review[m] # "none"
    /\ Begin(t, "approve", m, "render", NoRow.body)
    /\ row' = [row EXCEPT ![m].held = FALSE]
    /\ review' = [review EXCEPT ![m] = "approve"]
    /\ UNCHANGED <<mention, readState, queue>>

(* post_quarantine_reject: two statements and no event, whatever another   *)
(* reviewer decided before.                                                *)
Reject(t, m) ==
    /\ review[m] # "none"
    /\ Begin(t, "reject", m, "decide", NoRow.body)
    /\ row' = Removed(m, "moderation")
    /\ UNCHANGED <<review, mention, readState, queue>>

RejectDecide(t) ==
    /\ task[t].pc = "decide" /\ Finish(t)
    /\ review' = IF review[task[t].msg] = "none" THEN review
                 ELSE [review EXCEPT ![task[t].msg] = "reject"]
    /\ UNCHANGED <<row, mention, readState, queue, requests, history>>

-----------------------------------------------------------------------------
Newest(S) == CHOOSE m \in S \cup {0} : \A k \in S : k <= m

(* Variant: the watermark is overwritten. *)
LastWins(upto) == upto

(* upsert_dm_read *)
Advanced(upto) == IF upto > watermark THEN upto ELSE watermark

(* Variant: the message itself is left out. *)
BelowOnly(upto) == [m \in Ids |-> IF m < upto /\ mention[m] = "unread" THEN "read" ELSE mention[m]]

(* mark_mentions_read_for_room *)
MentionsRead(upto) == [m \in Ids |-> IF m <= upto /\ mention[m] = "unread" THEN "read" ELSE mention[m]]

(* get_room: the page is read, ... *)
OpenPage ==
    /\ conn.pc = "closed" /\ requests < MaxRequests /\ requests' = requests + 1
    /\ tab' = [m \in Ids |-> IF Listed(m) THEN row[m].body ELSE "absent"]
    /\ conn' = [pc |-> "loading", msg |-> Newest({m \in Ids : Listed(m)}), at |-> "list"]
    /\ missed' = {m \in Ids : Working(m) /\ (m \in overlapped \/ \E t \in Tasks : task[t].msg = m /\ task[t].pc = "flip")}
    /\ UNCHANGED <<row, review, mention, watermark, task, queue, overlapped, late>>

(* ... its last message becomes the watermark, ... *)
PageRead ==
    /\ conn.at = "list"
    /\ watermark' = Advanced(conn.msg)
    /\ conn' = [conn EXCEPT !.at = "read"]
    /\ UNCHANGED <<row, review, mention, task, tab, queue, requests, history>>

PageMentions ==
    /\ conn.at = "read"
    /\ mention' = MentionsRead(conn.msg)
    /\ conn' = [conn EXCEPT !.at = "sent"]
    /\ UNCHANGED <<row, review, watermark, task, tab, queue, requests, history>>

(* ... and, when it is there, its socket subscribes. *)
PageOpen ==
    /\ conn.at = "sent"
    /\ conn' = [NoConn EXCEPT !.pc = "open"]
    /\ UNCHANGED <<row, review, mention, watermark, task, tab, queue, requests, history>>

ClosePage ==
    /\ conn.pc = "open"
    /\ conn' = NoConn
    /\ tab' = [m \in Ids |-> "absent"]
    /\ queue' = <<>>
    /\ UNCHANGED <<row, review, mention, watermark, task, requests, history>>

(* render_new_message_or_bump: a message that arrives on an open page is   *)
(* read; first the watermark, ...                                          *)
DeliverRead ==
    /\ conn.pc = "open" /\ queue # <<>> /\ Head(queue).what = "new"
    /\ watermark' = Advanced(Head(queue).msg)
    /\ conn' = [pc |-> "marking", msg |-> Head(queue).msg, at |-> "none"]
    /\ UNCHANGED <<row, review, mention, task, tab, queue, requests, history>>

(* ... then the mentions, and it is shown. *)
DeliverNew ==
    /\ conn.pc = "marking"
    /\ mention' = MentionsRead(conn.msg)
    /\ tab' = [tab EXCEPT ![conn.msg] = Head(queue).body]
    /\ queue' = Tail(queue)
    /\ conn' = [NoConn EXCEPT !.pc = "open"]
    /\ UNCHANGED <<row, review, watermark, task, requests, history>>

(* An edit or a tombstone replaces what the page shows, if it does. *)
DeliverChange ==
    /\ conn.pc = "open" /\ queue # <<>> /\ Head(queue).what # "new"
    /\ LET e == Head(queue)
       IN  tab' = IF tab[e.msg] = "absent" THEN tab
                  ELSE [tab EXCEPT ![e.msg] = IF e.what = "edit" THEN e.body ELSE "gone"]
    /\ queue' = Tail(queue)
    /\ UNCHANGED <<row, review, mention, watermark, task, conn, requests, history>>

(* mark_room_read, by the sidebar's buttons: the newest row is looked up,  *)
(* held and deleted ones too, ...                                          *)
MarkRead(t) ==
    LET rows == {m \in Ids : row[m].at = "there"}
    IN  /\ task[t].pc = "idle" /\ requests < MaxRequests /\ rows # {}
        /\ requests' = requests + 1
        /\ task' = [task EXCEPT ![t] = [Idle EXCEPT !.pc = "upto", !.kind = "read", !.upto = Newest(rows)]]
        /\ UNCHANGED <<row, review, mention, readState, queue, history>>

(* ... then the watermark, then the mentions. *)
MarkedRead(t) ==
    /\ task[t].pc = "upto" /\ Goto(t, "seen")
    /\ watermark' = Advanced(task[t].upto)
    /\ UNCHANGED <<row, review, mention, conn, tab, queue, requests, history>>

MarkedMentions(t) ==
    /\ task[t].pc = "seen" /\ Finish(t)
    /\ mention' = MentionsRead(task[t].upto)
    /\ UNCHANGED <<row, review, readState, queue, requests, history>>

(* post_message_unread: the watermark becomes what is below the message,   *)
(* whichever way that moves it, and the mentions stay as they are.         *)
MarkUnread(m) ==
    /\ Visible(m) /\ requests < MaxRequests /\ requests' = requests + 1
    /\ watermark' = m - 1
    /\ late' = late \cup {k \in Ids : k < m /\ mention[k] = "unread"}
    /\ UNCHANGED <<row, review, mention, task, conn, tab, queue, overlapped, missed>>

Next ==
    \/ \E t \in Tasks, m \in Ids :
          \/ \E b \in Bodies, hold \in BOOLEAN : PostInsert(t, m, b, hold)
          \/ \E b \in Bodies : EditCheck(t, m, b)
          \/ DeleteCheck(t, m) \/ CoyotePurge(t, m) \/ Purge(t, m)
          \/ Approve(t, m) \/ Reject(t, m)
    \/ \E t \in Tasks :
          \/ PostFlip(t) \/ PostEnqueue(t) \/ EditWrite(t)
          \/ Render(t) \/ Send(t) \/ Mentions(t) \/ Rows(t)
          \/ DeleteMentions(t) \/ DeleteRow(t) \/ DeleteSend(t) \/ RejectDecide(t)
          \/ MarkRead(t) \/ MarkedRead(t) \/ MarkedMentions(t)
    \/ OpenPage \/ PageRead \/ PageMentions \/ PageOpen \/ ClosePage
    \/ DeliverRead \/ DeliverNew \/ DeliverChange
    \/ \E m \in Ids : MarkUnread(m)

Spec == Init /\ [][Next]_vars
-----------------------------------------------------------------------------
(* Types; a row that refers to a message goes with it. *)
TypeOK ==
    /\ row \in [Ids -> [at : {"none", "there", "purged"}, held : BOOLEAN,
                        deleted : {"no", "request", "moderation"}, body : Bodies]]
    /\ review \in [Ids -> {"none", "pending", "approve", "reject"}]
    /\ mention \in [Ids -> {"none", "unread", "read"}]
    /\ watermark \in 0 .. Last
    /\ \A t \in Tasks : task[t].msg \in 0 .. Last /\ task[t].upto \in 0 .. Last
    /\ \A m \in Ids : row[m].at # "there" => mention[m] = "none" /\ review[m] = "none"

Quiet == (\A t \in Tasks : task[t].pc = "idle") /\ queue = <<>>

(* Once everything has been delivered an open page shows what a reload     *)
(* would: no message that was held, deleted or purged, none missing, and   *)
(* each with its last body.  Not covered: a message two handlers worked on *)
(* at once, one whose word went out while the page was loading, one the    *)
(* page glimpsed before the filter held it, one rejected after approval.   *)
ScreensAgree ==
    conn.pc = "open" /\ Quiet =>
        \A m \in Ids \ missed :
            IF Visible(m) THEN tab[m] = row[m].body ELSE tab[m] \in {"absent", "gone"}

(* The reader's mention rows say what the messages say, once no handler is *)
(* at work on one and none overlapped: none for a message that is gone     *)
(* (but by moderation, which leaves them), and one for each that mentions  *)
(* the reader (but one that was held, which is released without).          *)
MentionsFollow ==
    \A m \in Ids : ~Working(m) /\ m \notin overlapped /\ row[m].deleted # "moderation" =>
        /\ mention[m] # "none" => Visible(m) /\ row[m].body \in Mentioning
        /\ Visible(m) /\ row[m].body \in Mentioning /\ review[m] = "none" => mention[m] # "none"

(* A mention the reader's watermark has passed is read, unless its row was *)
(* written after or a mark-unread moved past it: the badge does not        *)
(* outlive the reading of the room.                                        *)
ReadCoversMentions ==
    (\A t \in Tasks : task[t].pc # "seen") /\ conn.at # "read" /\ conn.pc # "marking" =>
        \A m \in Ids \ late : mention[m] = "unread" => m > watermark

(* Nothing but the reader's own request makes a message unread again.      *)
NeverUnreadAgain == [][watermark' < watermark => \E m \in Ids : MarkUnread(m)]_vars
=============================================================================
