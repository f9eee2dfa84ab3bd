------------------------------ MODULE UploadStore ------------------------------
(***************************************************************************)
(* Content-addressed uploads: the file_uploads rows in chat.db, the files  *)
(* on disk they share by hash, and the three parties that touch both: the  *)
(* upload pipeline (routes/uploads.rs, email_ingress/attachments.rs), the  *)
(* senders that attach an upload (routes/room.rs, the scheduled messages)  *)
(* and the hourly orphan sweep (uploads/sweep.rs).                         *)
(*                                                                         *)
(* SQLite transactions serialise the rows; nothing serialises the files.   *)
(* Every file operation and every SQL statement outside a transaction is   *)
(* one action.  Previews follow their originals and are left out.          *)
(***************************************************************************)
EXTENDS Naturals, FiniteSets

CONSTANTS
    Users,          \* uploaders; the mail ingress is one who is never purged
    Contents,       \* file contents, by the hash that names them on disk
    MaxRows,        \* bound: uploads in all
    MaxFaults       \* bound: failed file operations and crashes

ASSUME UploadAssumption == MaxRows \in Nat /\ MaxFaults \in Nat

VARIABLES
    up,             \* file_uploads, by id
    nextRow,        \* its AUTOINCREMENT counter
    files,          \* the originals present in the uploads directory
    storing,        \* each user's upload in flight
    posting,        \* each user's message in flight: the upload it claims, or 0
    sched,          \* what a scheduled message makes of each upload
    sweep,          \* the sweeper task
    purged,         \* users whose account was deleted
    kept,           \* history: uploads attached or scheduled, file and all
    faults

vars == <<up, nextRow, files, storing, posting, sched, sweep, purged, kept, faults>>

RowIds == 1..MaxRows
Upload == [owner: Users, content: Contents, linked: BOOLEAN, old: BOOLEAN]
NoUpload == [owner |-> "none"]
Exists(r) == up[r] # NoUpload

NotStoring == [pc |-> "idle"]
Sleeping == [pc |-> "idle", left |-> {}, cur |-> <<>>]

Init ==
    /\ up = [r \in RowIds |-> NoUpload]
    /\ nextRow = 1
    /\ files = {}
    /\ storing = [u \in Users |-> NotStoring]
    /\ posting = [u \in Users |-> 0]
    /\ sched = [r \in RowIds |-> "none"]
    /\ sweep = Sleeping
    /\ purged = {}
    /\ kept = {}
    /\ faults = 0

(* A sweep candidate is the <<id, storage_path>> pair the SELECT returned. *)
Candidates == RowIds \X Contents

(* BEGIN IMMEDIATE holds chat.db's write lock: every other write waits. *)
Unlocked == sweep.pc \notin {"counted", "removed"}

(* History: r is put to use, its file in place and no sweep after it. *)
KeptIfWhole(r) ==
    IF up[r].content \in files /\ <<r, up[r].content>> \notin sweep.left THEN kept \cup {r} ELSE kept

--------------------------------------------------------------------------------
(* The pipeline: is the content on disk already?  If not, write it.  Then  *)
(* insert the row.                                                         *)

StoreCheck(u, c) ==
    /\ u \notin purged /\ storing[u] = NotStoring /\ nextRow \in RowIds
    /\ storing' = [storing EXCEPT ![u] =
            [pc |-> IF c \in files THEN "insert" ELSE "write", content |-> c]]
    /\ UNCHANGED <<up, nextRow, files, posting, sched, sweep, purged, kept, faults>>

(* write_atomic, or the rename of the temporary file: all of the content   *)
(* appears at once, over whatever another upload of it put there.          *)
Written(c) == files \cup {c}

(* ... or none of it, and the request fails. *)
StoreWrite(u) ==
    /\ storing[u].pc = "write"
    /\ \/ /\ files' = Written(storing[u].content)
          /\ storing' = [storing EXCEPT ![u].pc = "insert"]
          /\ faults' = faults
       \/ /\ faults < MaxFaults /\ faults' = faults + 1
          /\ storing' = [storing EXCEPT ![u] = NotStoring]
          /\ files' = files
    /\ UNCHANGED <<up, nextRow, posting, sched, sweep, purged, kept>>

(* insert_upload *)
StoreInsert(u) ==
    /\ storing[u].pc = "insert"
    /\ Unlocked /\ nextRow \in RowIds
    /\ up' = [up EXCEPT ![nextRow] = [owner |-> u, content |-> storing[u].content,
                                      linked |-> FALSE, old |-> FALSE]]
    /\ nextRow' = nextRow + 1
    /\ storing' = [storing EXCEPT ![u] = NotStoring]
    /\ UNCHANGED <<files, posting, sched, sweep, purged, kept, faults>>

(* post_upload for the web, process_attachment for mail *)
Pipeline(u) == (\E c \in Contents : StoreCheck(u, c)) \/ StoreWrite(u) \/ StoreInsert(u)

--------------------------------------------------------------------------------
(* Senders *)

(* post_message validates the claimed upload ... *)
PostCheck(u, r) ==
    /\ u \notin purged /\ posting[u] = 0
    /\ Exists(r) /\ up[r].owner = u /\ ~up[r].linked
    /\ posting' = [posting EXCEPT ![u] = r]
    /\ UNCHANGED <<up, nextRow, files, storing, sched, sweep, purged, kept, faults>>

Linked(r) == [up EXCEPT ![r].linked = TRUE]

(* ... and links it once the message is inserted, if it is still free. *)
PostLink(u) ==
    LET r == posting[u] IN
    /\ r # 0 /\ Unlocked
    /\ posting' = [posting EXCEPT ![u] = 0]
    /\ IF Exists(r) /\ ~up[r].linked
       THEN up' = Linked(r) /\ kept' = KeptIfWhole(r)
       ELSE UNCHANGED <<up, kept>>
    /\ UNCHANGED <<nextRow, files, storing, sched, sweep, purged, faults>>

(* The message goes: ON DELETE SET NULL. *)
DeleteMessage(r) ==
    /\ Unlocked /\ Exists(r) /\ up[r].linked
    /\ up' = [up EXCEPT ![r].linked = FALSE]
    /\ kept' = kept \ {r}
    /\ UNCHANGED <<nextRow, files, storing, posting, sched, sweep, purged, faults>>

(* A scheduled message names the upload, is cancelled or dropped, ... *)
Schedule(r) ==
    /\ Unlocked /\ Exists(r) /\ ~up[r].linked /\ sched[r] = "none"
    /\ sched' = [sched EXCEPT ![r] = "pending"]
    /\ kept' = KeptIfWhole(r)
    /\ UNCHANGED <<up, nextRow, files, storing, posting, sweep, purged, faults>>

Unschedule(r) ==
    /\ Unlocked /\ sched[r] = "pending"
    /\ sched' = [sched EXCEPT ![r] = "none"]
    /\ kept' = IF up[r].linked THEN kept ELSE kept \ {r}
    /\ UNCHANGED <<up, nextRow, files, storing, posting, sweep, purged, faults>>

(* ... or is delivered: delivered_at commits first, the link comes after. *)
Deliver(r) ==
    /\ Unlocked /\ sched[r] = "pending"
    /\ sched' = [sched EXCEPT ![r] = "delivered"]
    /\ kept' = IF up[r].linked THEN kept ELSE kept \ {r}
    /\ UNCHANGED <<up, nextRow, files, storing, posting, sweep, purged, faults>>

DeliverLink(r) ==
    /\ Unlocked /\ sched[r] = "delivered"
    /\ sched' = [sched EXCEPT ![r] = "none"]
    /\ IF Exists(r) /\ ~up[r].linked
       THEN up' = Linked(r) /\ kept' = KeptIfWhole(r)
       ELSE UNCHANGED <<up, kept>>
    /\ UNCHANGED <<nextRow, files, storing, posting, sweep, purged, faults>>

(* The threshold (24 hours after created_at) passes. *)
Age(r) ==
    /\ Exists(r) /\ ~up[r].old
    /\ up' = [up EXCEPT ![r].old = TRUE]
    /\ UNCHANGED <<nextRow, files, storing, posting, sched, sweep, purged, kept, faults>>

(* purge_user_chat: the rows of one user, in one transaction; the messages *)
(* and scheduled messages they were on go with it.  No file is touched.    *)
Purge(u) ==
    LET own == {r \in RowIds : Exists(r) /\ up[r].owner = u} IN
    /\ Unlocked /\ u \notin purged
    /\ purged' = purged \cup {u}
    /\ up' = [r \in RowIds |-> IF r \in own THEN NoUpload ELSE up[r]]
    /\ sched' = [r \in RowIds |-> IF r \in own THEN "none" ELSE sched[r]]
    /\ kept' = kept \ own
    /\ UNCHANGED <<nextRow, files, storing, posting, sweep, faults>>

--------------------------------------------------------------------------------
(* The sweep *)

(* select_orphans_older_than *)
Orphan(r) == Exists(r) /\ ~up[r].linked /\ up[r].old /\ sched[r] # "pending"

SweepSelect ==
    /\ sweep.pc = "idle"
    /\ \E r \in RowIds : Orphan(r)
    /\ sweep' = [Sleeping EXCEPT !.pc = "next",
                     !.left = {<<r, up[r].content>> : r \in {q \in RowIds : Orphan(q)}}]
    /\ UNCHANGED <<up, nextRow, files, storing, posting, sched, purged, kept, faults>>

(* Variant: only siblings that are orphans are counted. *)
OrphanSiblings(r, c) ==
    {q \in RowIds \ {r} : Exists(q) /\ up[q].content = c /\ ~up[q].linked}

(* count_uploads_sharing_path *)
Siblings(r, c) == {q \in RowIds \ {r} : Exists(q) /\ up[q].content = c}

(* BEGIN IMMEDIATE and the count; a candidate is not looked at again.      *)
SweepCount(k) ==
    /\ sweep.pc = "next" /\ k \in sweep.left
    /\ sweep' = [sweep EXCEPT !.pc = IF Siblings(k[1], k[2]) = {} THEN "counted"
                                                                  ELSE "removed",
                              !.cur = k]
    /\ UNCHANGED <<up, nextRow, files, storing, posting, sched, purged, kept, faults>>

(* Variant: the last candidate does not end the sweep. *)
AlwaysNext == [Sleeping EXCEPT !.pc = "next", !.left = sweep.left \ {sweep.cur}]

NextCandidate ==
    LET left == sweep.left \ {sweep.cur}
    IN  IF left = {} THEN Sleeping
                     ELSE [Sleeping EXCEPT !.pc = "next", !.left = left]

(* remove_if_exists, inside the transaction; an error rolls it back. *)
SweepRemove ==
    /\ sweep.pc = "counted"
    /\ \/ /\ files' = files \ {sweep.cur[2]}
          /\ sweep' = [sweep EXCEPT !.pc = "removed"]
          /\ faults' = faults
       \/ /\ faults < MaxFaults /\ faults' = faults + 1
          /\ sweep' = NextCandidate
          /\ files' = files
    /\ UNCHANGED <<up, nextRow, storing, posting, sched, purged, kept>>

(* Variant: a row with siblings is left for later. *)
SweptIfLast == {r \in {sweep.cur[1]} : Siblings(r, sweep.cur[2]) = {}}

Swept == {sweep.cur[1]}

(* delete_upload_row and COMMIT.  A scheduled message's file_id is SET     *)
(* NULL.                                                                   *)
SweepCommit ==
    /\ sweep.pc = "removed"
    /\ up' = [r \in RowIds |-> IF r \in Swept THEN NoUpload ELSE up[r]]
    /\ sched' = [r \in RowIds |-> IF r \in Swept THEN "none" ELSE sched[r]]
    /\ sweep' = NextCandidate
    /\ UNCHANGED <<nextRow, files, storing, posting, purged, kept, faults>>

(* The server dies; the open transaction rolls back, removed files stay    *)
(* removed.                                                                *)
Crash ==
    /\ faults < MaxFaults /\ faults' = faults + 1
    /\ storing' = [u \in Users |-> NotStoring]
    /\ posting' = [u \in Users |-> 0]
    /\ sched' = [r \in RowIds |-> IF sched[r] = "delivered" THEN "none" ELSE sched[r]]
    /\ sweep' = Sleeping
    /\ UNCHANGED <<up, nextRow, files, purged, kept>>

--------------------------------------------------------------------------------
SenderStep ==
    \/ \E u \in Users : \/ Pipeline(u)
                        \/ \E r \in RowIds : PostCheck(u, r)
                        \/ PostLink(u)
                        \/ Purge(u)
    \/ \E r \in RowIds : \/ DeleteMessage(r) \/ Schedule(r) \/ Unschedule(r)
                         \/ Deliver(r) \/ DeliverLink(r) \/ Age(r)

SweepStep ==
    \/ SweepSelect
    \/ \E k \in Candidates : SweepCount(k)
    \/ SweepRemove
    \/ SweepCommit

Next == SenderStep \/ SweepStep \/ Crash

Spec == Init /\ [][Next]_vars

(* The sweeper task loops for as long as the server runs; a dispatcher     *)
(* that has committed a delivery goes on to link its upload.               *)
FairSpec == Spec /\ WF_vars(SweepStep) /\ \A r \in RowIds : WF_vars(DeliverLink(r))

--------------------------------------------------------------------------------
(* Properties *)

(* Every variable keeps its type; in particular a transaction is only open *)
(* on a candidate of the sweep.                                            *)
TypeOK ==
    /\ up \in [RowIds -> Upload \cup {NoUpload}]
    /\ nextRow \in 1..(MaxRows + 1)
    /\ files \subseteq Contents
    /\ storing \in [Users -> {NotStoring} \cup [pc: {"write", "insert"}, content: Contents]]
    /\ posting \in [Users -> RowIds \cup {0}]
    /\ sched \in [RowIds -> {"none", "pending", "delivered"}]
    /\ sweep \in [pc: {"idle", "next", "counted", "removed"}, left: SUBSET Candidates,
                  cur: Candidates \cup {<<>>}]
    /\ sweep.left = {} <=> sweep.pc = "idle"
    /\ sweep.pc \in {"counted", "removed"} => sweep.cur \in sweep.left
    /\ purged \subseteq Users /\ kept \subseteq RowIds
    /\ faults \in 0..MaxFaults

(* An upload put on a message or into a scheduled message, with its file   *)
(* in place and while no sweep holds it as a candidate, keeps its row and  *)
(* its file for as long as it stays there: whatever becomes of the uploads *)
(* that share its content, of failed sweeps and of crashes.                *)
AttachmentsSurvive == \A r \in kept : Exists(r) /\ up[r].content \in files

(* What makes it inductive: ids are not reused and a candidate's path does *)
(* not change; an upload in use is no candidate; and while the sweep is    *)
(* about to remove a file, no other row shares it (the write lock).        *)
CandidatesAreOld ==
    /\ \A r \in RowIds : r >= nextRow => ~Exists(r)
    /\ \A r \in RowIds, c \in Contents : <<r, c>> \in sweep.left =>
          r < nextRow /\ (Exists(r) => up[r].content = c)

KeptAreNoCandidates ==
    \A r \in kept : /\ up[r].linked \/ sched[r] = "pending"
                    /\ <<r, up[r].content>> \notin sweep.left

NoSiblingAppears ==
    sweep.pc = "counted" =>
        \A r \in RowIds, c \in Contents : sweep.cur = <<r, c>> => Siblings(r, c) = {}

IndInv ==
    TypeOK /\ CandidatesAreOld /\ KeptAreNoCandidates /\ NoSiblingAppears /\ AttachmentsSurvive

(* LIVENESS.  An old upload nothing refers to is swept in the end, also    *)
(* when others share its file, unless it is put to use first.              *)
OrphansAreSwept ==
    \A r \in RowIds : []<>~Orphan(r)

(* uploads/sweep.rs:1-2 says the sweep "removes file_uploads rows where    *)
(* message_id IS NULL"; db/uploads.rs:276-278 exempts rows of pending      *)
(* scheduled messages.  The candidates are read before the transaction and *)
(* not looked at again in it.                                              *)
SweepSparesUsedUploads ==
    [][\A r \in RowIds :
        (Exists(r) /\ up'[r] = NoUpload /\ purged' = purged)
            => ~up[r].linked /\ sched[r] # "pending"]_vars
================================================================================
