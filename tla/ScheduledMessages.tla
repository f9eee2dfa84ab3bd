--------------------------- MODULE ScheduledMessages ---------------------------
(***************************************************************************)
(* Scheduled messages: the `scheduled_messages` table, the HTTP handlers   *)
(* that fill, edit and cancel its rows (routes/scheduled.rs), the account  *)
(* purge that empties it (routes/account.rs), and the dispatcher that      *)
(* turns due rows into messages (scheduled/dispatcher.rs).                 *)
(*                                                                         *)
(* A dispatcher tick works on a snapshot of the due rows.  Between the     *)
(* SELECT, the re-validation and the claim transaction of each row it      *)
(* awaits, so handlers, moderators, the purge and a crash may come in      *)
(* between.  Each SQL statement outside a transaction, and each BEGIN      *)
(* IMMEDIATE ... COMMIT block, is one action.                              *)
(***************************************************************************)
EXTENDS Recurrence, FiniteSets

CONSTANTS
    Users,          \* the authors
    Bodies,         \* message texts
    Files,          \* uploads an author may attach
    NoFile,         \* SQL NULL for a file_id
    Uploader,       \* the author each upload belongs to
    Repeats,        \* the recurrence kinds in use, a subset of RepeatKinds
    Dispatchers,    \* the dispatcher tasks; the server spawns one
    BatchSize,      \* LIMIT of select_due
    MinLead,        \* shortest lead time a handler accepts
    MaxLead,        \* longest lead time a handler accepts
    MaxClock,       \* bound: the clock stops here
    MaxPosts,       \* bound: rows created by POST /scheduled
    MaxRows,        \* bound: rows in all, those the dispatcher enqueues included
    MaxFaults,      \* bound: transient internal errors and crashes
    MaxAttempts,    \* bound: attempt_count saturates here (backoff does at 8)
    Poison          \* rows whose dispatch always errs

ASSUME ScheduleAssumption ==
    /\ Repeats \subseteq RepeatKinds
    /\ NoFile \notin Files
    /\ Uploader \in [Files -> Users]
    /\ BatchSize \in Nat \ {0}
    /\ MinLead \in Nat \ {0} /\ MaxLead \in Nat
    /\ MaxClock \in Nat /\ MaxRows \in Nat /\ MaxPosts \in 0..MaxRows /\ MaxFaults \in Nat
    /\ MaxAttempts \in Nat

VARIABLES
    now,         \* datetime('now')
    rows,        \* scheduled_messages, by id
    nextId,      \* its AUTOINCREMENT counter
    messages,    \* the messages delivered from it, by the order of INSERT
    nextMsg,     \* AUTOINCREMENT counter of messages
    uploads,     \* file_uploads: the message each upload is linked to
    accounts,    \* "live", then "chatPurged", then "gone"
    denied,      \* authors some gate refuses: banned, muted, no access, blocked ...
    blocked,     \* bodies the link filter refuses
    disp,        \* each dispatcher's progress through its tick
    req,         \* each author's POST or PATCH in flight, between check and write
    vetted,      \* history: the <<row, body>> pairs that passed a re-validation
    ended,       \* history: series that a cancel, a purge or a drop has ended
    faults

vars == <<now, rows, nextId, messages, nextMsg, uploads, accounts, denied,
          blocked, disp, req, vetted, ended, faults>>

RowIds == 1..MaxRows
MsgIds == 1..(MaxRows + 1)      \* one more than the rows: a double INSERT fits
Instants == Nat

(* `origin` is a history field: the row that started the series.  status   *)
(* stands for delivered_at and failed_reason.                              *)
Row == [user: Users, body: Bodies, due: Instants, file: Files \cup {NoFile},
        repeat: Repeats, status: {"pending", "delivered", "dropped"},
        attempts: Nat, notBefore: Instants, origin: RowIds]
NoRow == [status |-> "none"]
Message == [row: RowIds, user: Users, body: Bodies]
NoMessage == [row |-> 0]

Unlinked == 0                   \* message_id IS NULL
Gone == -1                      \* no such upload

Request == [op: {"post", "patch"}, row: RowIds \cup {0}, body: Bodies,
            file: Files \cup {NoFile}, repeat: Repeats]
NoRequest == [op |-> "none"]

TickState == [pc: {"idle", "next", "deliver", "drop", "link"},
              batch: [RowIds -> Row \cup {NoRow}],
              cur: RowIds \cup {0}, msg: MsgIds \cup {0}]
Idle == [pc |-> "idle", batch |-> [r \in RowIds |-> NoRow], cur |-> 0, msg |-> 0]

Exists(r) == rows[r] # NoRow
Pending(r) == rows[r].status = "pending"
Claimed(r) == rows[r].status \in {"delivered", "dropped"}

--------------------------------------------------------------------------------
Init ==
    /\ now = 0
    /\ rows = [r \in RowIds |-> NoRow]
    /\ nextId = 1
    /\ messages = [m \in MsgIds |-> NoMessage]
    /\ nextMsg = 1
    /\ uploads = [f \in Files |-> Unlinked]
    /\ accounts = [u \in Users |-> "live"]
    /\ denied = {}
    /\ blocked = {}
    /\ disp = [d \in Dispatchers |-> Idle]
    /\ req = [u \in Users |-> NoRequest]
    /\ vetted = {}
    /\ ended = {}
    /\ faults = 0

--------------------------------------------------------------------------------
(* Time, moderation *)

Tick ==
    /\ now < MaxClock
    /\ now' = now + 1
    /\ UNCHANGED <<rows, nextId, messages, nextMsg, uploads, accounts, denied,
                   blocked, disp, req, vetted, ended, faults>>

(* A ban, a mute, a lost membership, a changed posting policy or a DM      *)
(* block, or their reversal.                                               *)
ModerateAuthor(u) ==
    /\ denied' = IF u \in denied THEN denied \ {u} ELSE denied \cup {u}
    /\ UNCHANGED <<now, rows, nextId, messages, nextMsg, uploads, accounts,
                   blocked, disp, req, vetted, ended, faults>>

(* A link-filter rule added or lifted. *)
ModerateBody(b) ==
    /\ blocked' = IF b \in blocked THEN blocked \ {b} ELSE blocked \cup {b}
    /\ UNCHANGED <<now, rows, nextId, messages, nextMsg, uploads, accounts,
                   denied, disp, req, vetted, ended, faults>>

(* check_delivery_gates: None when every gate passes. *)
GatesPass(u, b) == u \notin denied /\ b \notin blocked

--------------------------------------------------------------------------------
(* The handlers of routes/scheduled.rs.  A user has one POST or PATCH in   *)
(* flight at a time (a bound); its checks and its write are apart.         *)

(* The session survives the chat purge: AuthUser reads auth.db. *)
Authenticated(u) == accounts[u] # "gone"

(* validate_attachment: the caller's own upload, not on a message yet.     *)
(* It is not reserved: two rows may name one upload.                       *)
AttachmentFree(u, f) == f # NoFile => Uploader[f] = u /\ uploads[f] = Unlinked

PostCheck(u, b, f, rep) ==
    /\ req[u] = NoRequest
    /\ nextId <= MaxPosts
    /\ Authenticated(u)
    /\ GatesPass(u, b)
    /\ AttachmentFree(u, f)
    /\ req' = [req EXCEPT ![u] = [op |-> "post", row |-> 0, body |-> b,
                                  file |-> f, repeat |-> rep]]
    /\ UNCHANGED <<now, rows, nextId, messages, nextMsg, uploads, accounts,
                   denied, blocked, disp, vetted, ended, faults>>

(* parse_and_check_scheduled_for *)
AcceptedDue == {t \in 0..MaxClock : t - now >= MinLead /\ t - now <= MaxLead}

NewRow(u, b, due, f, rep, origin) ==
    [user |-> u, body |-> b, due |-> due, file |-> f, repeat |-> rep,
     status |-> "pending", attempts |-> 0, notBefore |-> 0, origin |-> origin]

(* The INSERT.  A file_id that is gone by now violates the foreign key:    *)
(* the request fails and leaves no row.                                    *)
PostInsert(u) ==
    /\ req[u].op = "post"
    /\ req' = [req EXCEPT ![u] = NoRequest]
    /\ \/ /\ nextId <= MaxPosts
          /\ req[u].file # NoFile => uploads[req[u].file] # Gone
          /\ \E due \in AcceptedDue :
                rows' = [rows EXCEPT ![nextId] =
                    NewRow(u, req[u].body, due, req[u].file, req[u].repeat, nextId)]
          /\ nextId' = nextId + 1
       \/ UNCHANGED <<rows, nextId>>       \* lead time refused, or the INSERT fails
    /\ UNCHANGED <<now, messages, nextMsg, uploads, accounts, denied, blocked,
                   disp, vetted, ended, faults>>

(* PATCH, up to its checks.  Re-binding the row's own file skips the       *)
(* attachment check.                                                       *)
PatchCheck(u, r, b, f) ==
    /\ req[u] = NoRequest
    /\ Authenticated(u)
    /\ Exists(r) /\ rows[r].user = u /\ Pending(r)
    /\ GatesPass(u, b)
    /\ f # rows[r].file => AttachmentFree(u, f)
    /\ req' = [req EXCEPT ![u] = [op |-> "patch", row |-> r, body |-> b,
                                  file |-> f, repeat |-> rows[r].repeat]]
    /\ UNCHANGED <<now, rows, nextId, messages, nextMsg, uploads, accounts,
                   denied, blocked, disp, vetted, ended, faults>>

(* Variant: the WHERE forgets delivered_at IS NULL. *)
UpdatableInAnyState(u, r) == Exists(r) /\ rows[r].user = u

(* update_scheduled: conditional on the row still being pending; 410       *)
(* otherwise.  An edit gives the dispatcher a clean retry.                 *)
Updatable(u, r) == Exists(r) /\ rows[r].user = u /\ Pending(r)

Edited(row, b, due, f) ==
    [row EXCEPT !.body = b, !.due = due, !.file = f, !.attempts = 0, !.notBefore = 0]

PatchWrite(u) ==
    LET r == req[u].row IN
    /\ req[u].op = "patch"
    /\ req' = [req EXCEPT ![u] = NoRequest]
    /\ \/ /\ Updatable(u, r)
          /\ req[u].file # NoFile => uploads[req[u].file] # Gone
          /\ \E due \in AcceptedDue :
                rows' = [rows EXCEPT ![r] = Edited(@, req[u].body, due, req[u].file)]
       \/ UNCHANGED rows                   \* 410, a refused lead time or an error
    /\ UNCHANGED <<now, nextId, messages, nextMsg, uploads, accounts, denied,
                   blocked, disp, vetted, ended, faults>>

(* DELETE: get_scheduled's early returns repeat the WHERE of the DELETE,   *)
(* so the handler is its last statement.                                   *)
Cancel(u, r) ==
    /\ Authenticated(u)
    /\ Updatable(u, r)
    /\ rows' = [rows EXCEPT ![r] = NoRow]
    /\ ended' = ended \cup {rows[r].origin}
    /\ UNCHANGED <<now, nextId, messages, nextMsg, uploads, accounts, denied,
                   blocked, disp, req, vetted, faults>>

--------------------------------------------------------------------------------
(* Account deletion (chat.db first, auth.db second) and room deletion. *)

OwnedBy(u) == {r \in RowIds : Exists(r) /\ rows[r].user = u}

(* purge_user_chat: one transaction over the user's messages, scheduled    *)
(* rows and uploads.                                                       *)
PurgeChat(u) ==
    /\ accounts[u] = "live"
    /\ accounts' = [accounts EXCEPT ![u] = "chatPurged"]
    /\ rows' = [r \in RowIds |-> IF r \in OwnedBy(u) THEN NoRow ELSE rows[r]]
    /\ messages' = [m \in MsgIds |->
            IF messages[m] # NoMessage /\ messages[m].user = u THEN NoMessage
                                                               ELSE messages[m]]
    /\ uploads' = [f \in Files |-> IF Uploader[f] = u THEN Gone ELSE uploads[f]]
    /\ ended' = ended \cup {rows[r].origin : r \in OwnedBy(u)}
    /\ UNCHANGED <<now, nextId, nextMsg, denied, blocked, disp, req, vetted,
                   faults>>

(* A room is deleted: the foreign keys take its scheduled rows and its     *)
(* messages along, and unlink their uploads.  All occurrences of a series  *)
(* are in one room.                                                        *)
DeleteRoom(S) ==
    LET lost(m) == messages[m] # NoMessage /\ rows[messages[m].row].origin \in S IN
    /\ S # {} /\ S \subseteq {rows[r].origin : r \in {q \in RowIds : Exists(q)}}
    /\ rows' = [r \in RowIds |->
            IF Exists(r) /\ rows[r].origin \in S THEN NoRow ELSE rows[r]]
    /\ messages' = [m \in MsgIds |-> IF lost(m) THEN NoMessage ELSE messages[m]]
    /\ uploads' = [f \in Files |->
            IF uploads[f] \in MsgIds /\ lost(uploads[f]) THEN Unlinked ELSE uploads[f]]
    /\ ended' = ended \cup S
    /\ UNCHANGED <<now, nextId, nextMsg, accounts, denied, blocked, disp, req,
                   vetted, faults>>

PurgeAuth(u) ==
    /\ accounts[u] = "chatPurged"
    /\ accounts' = [accounts EXCEPT ![u] = "gone"]
    /\ UNCHANGED <<now, rows, nextId, messages, nextMsg, uploads, denied,
                   blocked, disp, req, vetted, ended, faults>>

--------------------------------------------------------------------------------
(* The dispatcher *)

(* Variants: no backoff cooldown; *)
IsDueWithoutCooldown(row, t) == row.status = "pending" /\ row.due <= t

(* The WHERE of select_due *)
IsDue(row, t) == row.status = "pending" /\ row.due <= t /\ row.notBefore <= t
Due == {r \in RowIds : Exists(r) /\ IsDue(rows[r], now)}

(* ORDER BY scheduled_for LIMIT BatchSize; ties are broken arbitrarily. *)
IsBatch(S) ==
    /\ S \subseteq Due
    /\ Cardinality(S) <= BatchSize
    /\ Cardinality(S) = BatchSize \/ S = Due
    /\ \A r \in S, q \in Due \ S : rows[r].due <= rows[q].due

SelectDue(d) ==
    /\ disp[d].pc = "idle"
    /\ \E S \in SUBSET Due :
          /\ S # {} /\ IsBatch(S)
          /\ disp' = [disp EXCEPT ![d] =
                [pc |-> "next", cur |-> 0, msg |-> 0,
                 batch |-> [r \in RowIds |-> IF r \in S THEN rows[r] ELSE NoRow]]]
    /\ UNCHANGED <<now, rows, nextId, messages, nextMsg, uploads, accounts,
                   denied, blocked, req, vetted, ended, faults>>

(* Variant: the row is read again after the re-validation. *)
SnapshotReread(d) == rows[disp[d].cur]

Snapshot(d) == disp[d].batch[disp[d].cur]
Remaining(d) == {r \in RowIds : disp[d].batch[r] # NoRow}

(* The rest of the tick once the current row is done with. *)
Done(d) ==
    LET batch == [disp[d].batch EXCEPT ![disp[d].cur] = NoRow]
    IN  IF \A r \in RowIds : batch[r] = NoRow
        THEN Idle
        ELSE [pc |-> "next", cur |-> 0, msg |-> 0, batch |-> batch]

(* validate_delivery on the earliest snapshot left.  A missing room has    *)
(* taken its scheduled rows along; a missing author is a denial.           *)
Validate(d, r) ==
    /\ disp[d].pc = "next"
    /\ r \in Remaining(d)
    /\ \A q \in Remaining(d) : disp[d].batch[r].due <= disp[d].batch[q].due
    /\ LET row == disp[d].batch[r]
           pass == accounts[row.user] # "gone" /\ GatesPass(row.user, row.body)
       IN  /\ disp' = [disp EXCEPT ![d] =
                  [@ EXCEPT !.cur = r, !.pc = IF pass THEN "deliver" ELSE "drop"]]
           /\ vetted' = IF pass THEN vetted \cup {<<r, row.body>>} ELSE vetted
    /\ UNCHANGED <<now, rows, nextId, messages, nextMsg, uploads, accounts,
                   denied, blocked, req, ended, faults>>

(* Variants: rows_affected is not looked at; delivered_at is not. *)
ClaimUnchecked(r) == TRUE
ClaimAnyExisting(r) == Exists(r)

(* try_claim: its WHERE names the id and delivered_at IS NULL, no more. *)
CanClaim(r) == Exists(r) /\ Pending(r)

(* A lost claim: ROLLBACK, DispatchOutcome::Retry. *)
LoseClaim(d) ==
    /\ disp[d].pc \in {"deliver", "drop"}
    /\ ~CanClaim(disp[d].cur)
    /\ disp' = [disp EXCEPT ![d] = Done(d)]
    /\ UNCHANGED <<now, rows, nextId, messages, nextMsg, uploads, accounts,
                   denied, blocked, req, vetted, ended, faults>>

(* Denied: claim and mark_dropped in one transaction. *)
Drop(d) ==
    /\ disp[d].pc = "drop"
    /\ CanClaim(disp[d].cur)
    /\ rows' = [rows EXCEPT ![disp[d].cur].status = "dropped"]
    /\ ended' = ended \cup {rows[disp[d].cur].origin}
    /\ disp' = [disp EXCEPT ![d] = Done(d)]
    /\ UNCHANGED <<now, nextId, messages, nextMsg, uploads, accounts, denied,
                   blocked, req, vetted, faults>>

(* Variants: the clone forgets to repeat; the next slot is counted from    *)
(* the occurrence that fired, not from now.                                *)
SuccessorOneShot(row) ==
    NewRow(row.user, row.body, NextOccurrence(row.due, row.repeat, now), NoFile,
           "none", row.origin)
SuccessorOfDue(row) ==
    NewRow(row.user, row.body, NextOccurrence(row.due, row.repeat, row.due), NoFile,
           row.repeat, row.origin)

(* enqueue_next_occurrence: body and repeat of the snapshot, nothing else. *)
Successor(row) ==
    NewRow(row.user, row.body, NextOccurrence(row.due, row.repeat, now), NoFile,
           row.repeat, row.origin)

(* The claim, the INSERT of the message and, for a recurring row, the      *)
(* INSERT of its next occurrence, in one transaction.                      *)
Deliver(d) ==
    LET r == disp[d].cur
        row == Snapshot(d)
        claimed == [rows EXCEPT ![r].status = "delivered"]
    IN
    /\ disp[d].pc = "deliver"
    /\ r \notin Poison
    /\ CanClaim(r)
    /\ nextMsg \in MsgIds
    /\ messages' = [messages EXCEPT ![nextMsg] =
            [row |-> r, user |-> row.user, body |-> row.body]]
    /\ nextMsg' = nextMsg + 1
    /\ IF row.repeat = "none"
       THEN rows' = claimed /\ nextId' = nextId
       ELSE /\ nextId \in RowIds
            /\ rows' = [claimed EXCEPT ![nextId] = Successor(row)]
            /\ nextId' = nextId + 1
    /\ disp' = [disp EXCEPT ![d] =
            IF row.file = NoFile THEN Done(d)
                                 ELSE [@ EXCEPT !.pc = "link", !.msg = nextMsg]]
    /\ UNCHANGED <<now, uploads, accounts, denied, blocked, req, vetted, ended,
                   faults>>

(* link_upload_to_message, after the COMMIT: links a free upload to a      *)
(* message that is still there, else does nothing.                         *)
LinkTarget(f, m) == IF uploads[f] = Unlinked THEN m ELSE uploads[f]

Link(d) ==
    LET f == Snapshot(d).file IN
    /\ disp[d].pc = "link"
    /\ uploads' = IF messages[disp[d].msg] = NoMessage
                  THEN uploads
                  ELSE [uploads EXCEPT ![f] = LinkTarget(f, disp[d].msg)]
    /\ disp' = [disp EXCEPT ![d] = Done(d)]
    /\ UNCHANGED <<now, rows, nextId, messages, nextMsg, accounts, denied,
                   blocked, req, vetted, ended, faults>>

(* An internal error before the COMMIT: the transaction rolls back and the *)
(* row backs off 1, 2, 4 ... 256 minutes, by the snapshot's attempt count. *)
BackoffMinutes == <<1, 2, 4, 8, 16, 32, 64, 128, 256>>
Backoff(attempts) == BackoffMinutes[IF attempts < 8 THEN attempts + 1 ELSE 9]

(* bump_attempt *)
Bump(d) ==
    LET r == disp[d].cur IN
    rows' = IF CanClaim(r)
            THEN [rows EXCEPT ![r].attempts = IF @ < MaxAttempts THEN @ + 1 ELSE @,
                              ![r].notBefore = now + Backoff(Snapshot(d).attempts)]
            ELSE rows

Fail(d) ==
    /\ disp[d].pc \in {"deliver", "drop"}
    /\ \/ disp[d].cur \in Poison /\ faults' = faults
       \/ faults < MaxFaults /\ faults' = faults + 1
    /\ Bump(d)
    /\ disp' = [disp EXCEPT ![d] = Done(d)]
    /\ UNCHANGED <<now, nextId, messages, nextMsg, uploads, accounts, denied,
                   blocked, req, vetted, ended>>

(* The server dies: ticks and requests are lost, the databases are not. *)
Crash ==
    /\ faults < MaxFaults
    /\ faults' = faults + 1
    /\ disp' = [d \in Dispatchers |-> Idle]
    /\ req' = [u \in Users |-> NoRequest]
    /\ UNCHANGED <<now, rows, nextId, messages, nextMsg, uploads, accounts,
                   denied, blocked, vetted, ended>>

--------------------------------------------------------------------------------
AnyFile == Files \cup {NoFile}

HandlerStep(u) ==
    \/ \E b \in Bodies, f \in AnyFile, rep \in Repeats : PostCheck(u, b, f, rep)
    \/ PostInsert(u)
    \/ \E r \in RowIds, b \in Bodies, f \in AnyFile : PatchCheck(u, r, b, f)
    \/ PatchWrite(u)
    \/ \E r \in RowIds : Cancel(u, r)

DispatchStep(d) ==
    \/ SelectDue(d)
    \/ \E r \in RowIds : Validate(d, r)
    \/ LoseClaim(d)
    \/ Drop(d)
    \/ Deliver(d)
    \/ Link(d)
    \/ Fail(d)

Next ==
    \/ Tick
    \/ \E u \in Users : ModerateAuthor(u)
    \/ \E b \in Bodies : ModerateBody(b)
    \/ \E u \in Users : HandlerStep(u)
    \/ \E u \in Users : PurgeChat(u) \/ PurgeAuth(u)
    \/ \E S \in SUBSET RowIds : DeleteRoom(S)
    \/ \E d \in Dispatchers : DispatchStep(d)
    \/ Crash

Spec == Init /\ [][Next]_vars

(* The dispatcher task loops for as long as the server runs, and time      *)
(* passes.  Nobody is obliged to send, edit or moderate.                   *)
FairSpec ==
    /\ Spec
    /\ WF_vars(Tick)
    /\ \A d \in Dispatchers : WF_vars(DispatchStep(d))
--------------------------------------------------------------------------------
(* Properties *)

(* Every variable keeps its type: in particular the ids the dispatcher     *)
(* holds across its awaits stay ids of the tables.                         *)
TypeOK ==
    /\ now \in Nat /\ faults \in Nat
    /\ rows \in [RowIds -> Row \cup {NoRow}]
    /\ nextId \in 1..(MaxRows + 1)
    /\ messages \in [MsgIds -> Message \cup {NoMessage}]
    /\ nextMsg \in 1..(MaxRows + 2)
    /\ uploads \in [Files -> MsgIds \cup {Unlinked, Gone}]
    /\ accounts \in [Users -> {"live", "chatPurged", "gone"}]
    /\ denied \subseteq Users /\ blocked \subseteq Bodies
    /\ disp \in [Dispatchers -> TickState]
    /\ req \in [Users -> Request \cup {NoRequest}]
    /\ vetted \subseteq RowIds \X Bodies
    /\ ended \subseteq RowIds

(* A scheduled row becomes a message exactly once: no two messages come    *)
(* from one row, every message's row is marked delivered (never dropped,   *)
(* never pending again), and every row marked delivered has its message.   *)
(* This is the claim-and-INSERT transaction of dispatch_one, under errors, *)
(* crashes, edits, cancels and a second dispatcher.                        *)
DeliveredExactlyOnce ==
    /\ \A m1, m2 \in MsgIds :
          (messages[m1] # NoMessage /\ messages[m1].row = messages[m2].row) => m1 = m2
    /\ \A m \in MsgIds : messages[m] # NoMessage =>
          rows[messages[m].row].status = "delivered"
    /\ \A r \in RowIds : rows[r].status = "delivered" =>
          \E m \in MsgIds : messages[m].row = r

(* A recurring series is alive in exactly one place: it has one pending    *)
(* occurrence until a cancel, a purge or a drop ends it, and none after    *)
(* that; it neither forks (two occurrences of one morning) nor dies out    *)
(* silently between the claim of one occurrence and the next.              *)
SeriesAliveInOnePlace ==
    /\ \A r, q \in RowIds :
          (Pending(r) /\ Pending(q) /\ rows[r].origin = rows[q].origin) => r = q
    /\ \A r \in RowIds : Exists(r) =>
          IF rows[r].origin \in ended
          THEN ~Pending(r)
          ELSE rows[r].repeat # "none" =>
                 \E q \in RowIds : Pending(q) /\ rows[q].origin = rows[r].origin

(* A body that reached the room passed the gates and the link filter at    *)
(* delivery time as the text it was delivered as, whatever edits landed in *)
(* between (dispatch_one re-validates and inserts the same snapshot).      *)
DeliveredBodyWasVetted ==
    \A m \in MsgIds : messages[m] # NoMessage =>
        <<messages[m].row, messages[m].body>> \in vetted

(* An upload is only ever linked to a message of its own author, and stays *)
(* with the message that got it first, although nothing reserves it when a *)
(* row names it.                                                           *)
UploadsStayWithTheirMessage ==
    [][\A f \in Files : uploads[f] \in MsgIds =>
            \/ uploads'[f] = uploads[f]
            \/ messages'[uploads[f]] = NoMessage]_vars

(* A claim is final: once a row is delivered or dropped no handler, retry  *)
(* or second tick changes it again; only a purge removes it.               *)
ClaimIsFinal ==
    [][\A r \in RowIds : Claimed(r) => rows'[r] \in {rows[r], NoRow}]_vars

(* A dispatcher that was down for days does not replay the backlog: the    *)
(* occurrence a delivery enqueues lies in the future, even when the row    *)
(* was claimed long after its time or the clock moved on during the tick.  *)
NoBacklogReplay ==
    [][\A r \in RowIds :
        (~Exists(r) /\ rows'[r] # NoRow /\ rows'[r].origin # r)
            => rows'[r].due > now]_vars

(* LIVENESS.  A pending row that has not failed is eventually delivered,   *)
(* dropped or removed, however many other rows fail and back off ahead of  *)
(* it in the batch: "one bad row does not stall the rest of the tick".     *)
HealthyRowIsSettled ==
    \A r \in RowIds :
        []<>(~Pending(r) \/ rows[r].attempts > 0)

(* dispatcher.rs:53-59 says a dispatch attempt comes to nothing when "the  *)
(* row no longer matches the due predicate".  try_claim only asks whether  *)
(* delivered_at is NULL, so an edit that moved the row into the future     *)
(* after the SELECT does not stop it.                                      *)
ClaimedRowIsDue ==
    [][\A r \in RowIds :
        (Pending(r) /\ rows'[r].status = "delivered") => IsDue(rows[r], now)]_vars

--------------------------------------------------------------------------------
(* The promise: ScheduledPromise, over the rows of one origin *)

Waits(s, r) == Pending(r) /\ rows[r].origin = s

(* A series is known by the row that started it, while that row is there,  *)
(* and by the history after a cancel or a purge took it.                   *)
Born(s) == s \in ended \/ (Exists(s) /\ rows[s].origin = s)

StageOf(s) ==
    LET waiting == {r \in RowIds : Waits(s, r)} IN
    IF waiting # {}
    THEN IF \E r \in waiting : rows[r].repeat = "none" THEN "once" ELSE "repeating"
    ELSE IF Born(s) THEN "over" ELSE "unborn"

SentBy(s) == {m \in MsgIds : messages[m] # NoMessage /\ rows[messages[m].row].origin = s}

Promise == INSTANCE ScheduledPromise
    WITH Series <- RowIds, Messages <- MsgIds,
         stage <- [s \in RowIds |-> StageOf(s)], sent <- [s \in RowIds |-> SentBy(s)]

(* The table, the handlers and any number of dispatchers keep the promise: *)
(* a series fires one message at a time, keeps waiting exactly when it     *)
(* recurs, and never fires after a cancel, a drop or a purge.              *)
SeriesPromise == Promise!Spec

--------------------------------------------------------------------------------
(* The inductive invariants behind DeliveredExactlyOnce and SeriesPromise *)

(* AUTOINCREMENT never hands an id out twice. *)
FreshIds ==
    /\ \A r \in RowIds : r >= nextId => rows[r] = NoRow
    /\ \A m \in MsgIds : m >= nextMsg => messages[m] = NoMessage

(* What a dispatcher holds across its awaits: a snapshot of a row that had *)
(* been inserted, and once it works on one, the id of that row.            *)
SnapshotsAreOld ==
    \A d \in Dispatchers :
        /\ \A r \in Remaining(d) : r < nextId
        /\ disp[d].pc \in {"deliver", "drop", "link"} => disp[d].cur \in Remaining(d)
        /\ disp[d].pc = "link" => Snapshot(d).file \in Files /\ disp[d].msg \in MsgIds

(* Nothing a handler can edit changes whose row it is or its series: the   *)
(* row behind a snapshot or a message, if it is still there, has the same  *)
(* author and origin.                                                      *)
SameOwner ==
    /\ \A d \in Dispatchers : \A r \in Remaining(d) :
          Exists(r) => /\ rows[r].user = disp[d].batch[r].user
                       /\ rows[r].origin = disp[d].batch[r].origin
                       /\ rows[r].repeat = disp[d].batch[r].repeat
    /\ \A m \in MsgIds : messages[m] # NoMessage =>
          rows[messages[m].row].user = messages[m].user

(* All occurrences of a series carry its author and its recurrence, and    *)
(* they name a row that started it or a series that has ended.             *)
SeriesRecords ==
    /\ \A s \in ended : s < nextId
    /\ \A r \in RowIds : Exists(r) => rows[r].origin < nextId /\ Born(rows[r].origin)
    /\ \A r, q \in RowIds : (Exists(r) /\ Exists(q) /\ rows[r].origin = rows[q].origin) =>
          rows[r].user = rows[q].user /\ rows[r].repeat = rows[q].repeat

IndInv == TypeOK /\ FreshIds /\ SnapshotsAreOld /\ SameOwner /\ DeliveredExactlyOnce
SeriesInv == IndInv /\ SeriesRecords /\ SeriesAliveInOnePlace
================================================================================
