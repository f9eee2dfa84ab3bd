---------------------------- MODULE EmailIngress ----------------------------
(* The IMAP poll of email_ingress/: a tick searches the unseen mails, and   *)
(* for each in turn fetches it, looks its Message-ID up, resolves its       *)
(* address to a room's inbox or to a reply token, posts, records what it    *)
(* posted and sets \Seen.  Between any two of these the server may stop, an *)
(* administrator revokes an inbox, a token expires and is swept.            *)
EXTENDS Integers, FiniteSets, Sequences

CONSTANTS
    Mails,      \* what correspondents send; each arrives at most once
    Inboxes,    \* addresses of rooms
    Tokens,     \* reply addresses of notification mails
    Target,     \* the address a mail is sent to
    Ids,        \* values of the Message-ID header
    Id,         \* the header of a mail, NoId without one
    NoId,
    NoMail,
    MaxFaults   \* errors and stops in a behaviour

\* What a configuration must give: every mail has an address and a header.
MailsAreAddressed ==
    /\ Target \in [Mails -> Inboxes \cup Tokens]
    /\ Id \in [Mails -> Ids \cup {NoId}] /\ NoId \notin Ids
    /\ MaxFaults \in Nat

VARIABLES
    box,        \* a mail in the polled folder: not yet there, unseen or seen
    token,      \* reply_tokens: a row from its minting until used, swept or cascaded
    revoked,    \* inboxes with revoked_at set
    processed,  \* processed_message_ids
    posts,      \* messages, in the order inserted: the mail each came from
    drop,       \* the drop log: whether a mail has a row, or its row was lost
    batch,      \* uids of this tick still to be read
    cur,        \* the mail in hand
    at,         \* how far the tick is with it
    faults

vars == <<box, token, revoked, processed, posts, drop, batch, cur, at, faults>>
mailbox == <<box, token, revoked>>
tables == <<processed, posts, drop>>
tick == <<batch, cur, at>>

Stages == {"idle", "next", "fetched", "fresh", "resolved", "inserted",
           "used", "dropped", "settled"}

Init ==
    /\ box = [m \in Mails |-> "away"]
    /\ token = [t \in Tokens |-> "none"]
    /\ revoked = {} /\ processed = {}
    /\ drop = [m \in Mails |-> "none"]
    /\ posts = <<>>
    /\ batch = {} /\ cur = NoMail /\ at = "idle"
    /\ faults = 0

IsReply(m) == Target[m] \in Tokens
Fault == faults < MaxFaults /\ faults' = faults + 1

---------------------------------------------------------------------------
(* What goes on around the poll. *)

\* dispatch mints a token for the notification it sends.
Mint(t) ==
    /\ token[t] = "none"
    /\ token' = [token EXCEPT ![t] = "live"]
    /\ UNCHANGED <<box, revoked, tables, tick, faults>>

\* A reply is only sent to an address somebody was given.
Arrive(m) ==
    /\ box[m] = "away"
    /\ IsReply(m) => token[Target[m]] # "none"
    /\ box' = [box EXCEPT ![m] = "unseen"]
    /\ UNCHANGED <<token, revoked, tables, tick, faults>>

Expire(t) ==
    /\ token[t] = "live"
    /\ token' = [token EXCEPT ![t] = "expired"]
    /\ UNCHANGED <<box, revoked, tables, tick, faults>>

\* The hourly sweep, or the cascade when the message it answers is deleted.
TokenGoes(t) ==
    /\ token[t] \in {"live", "expired"}
    /\ token' = [token EXCEPT ![t] = "gone"]
    /\ UNCHANGED <<box, revoked, tables, tick, faults>>

Revoke(i) ==
    /\ i \notin revoked
    /\ revoked' = revoked \cup {i}
    /\ UNCHANGED <<box, token, tables, tick, faults>>

---------------------------------------------------------------------------
(* One tick. *)

Unseen == {m \in Mails : box[m] = "unseen"}
SearchesAll == Mails
Found == Unseen

\* LOGIN, SELECT, SEARCH UNSEEN.
Search ==
    /\ at = "idle"
    /\ Found # {}
    /\ batch' = Found /\ at' = "next"
    /\ UNCHANGED <<mailbox, tables, cur, faults>>

FetchesBody(m) == [box EXCEPT ![m] = "seen"]
\* BODY.PEEK[] sets no flag.
Peeked(m) == box

\* The answer to the search is a hash set: its order is anyone's.
Fetch(m) ==
    /\ at = "next"
    /\ m \in batch
    /\ batch' = batch \ {m} /\ cur' = m /\ box' = Peeked(m)
    /\ \/ at' = "fetched" /\ UNCHANGED faults
       \/ at' = "dropped" /\ Fault
    /\ UNCHANGED <<token, revoked, tables>>

EndTick ==
    /\ at = "next"
    /\ batch = {}
    /\ at' = "idle" /\ cur' = NoMail
    /\ UNCHANGED <<mailbox, tables, batch, faults>>

\* Variant: no mail is looked up among those processed.
NeverProcessed(m) == FALSE
AlreadyProcessed(m) == Id[m] \in processed

\* parse and detect_loop may drop the mail; of is_processed, a lookup that
\* errs lets it in.
Dedup ==
    /\ at = "fetched"
    /\ \/ /\ at' = IF AlreadyProcessed(cur) THEN "dropped" ELSE "fresh"
          /\ UNCHANGED faults
       \/ at' = "fresh" /\ Id[cur] # NoId /\ Fault
       \/ at' = "dropped" /\ UNCHANGED faults
    /\ UNCHANGED <<mailbox, tables, batch, cur>>

Open(a) == IF a \in Tokens THEN token[a] = "live" ELSE a \notin revoked

\* resolve_address: a reply token, or the inbox whose secret the address holds.
Resolve ==
    /\ at = "fresh"
    /\ at' = IF Open(Target[cur]) THEN "resolved" ELSE "dropped"
    /\ UNCHANGED <<mailbox, tables, batch, cur, faults>>

\* The rate limit of the inbox, or the gates of a reply (its message, its
\* author, check_send_gates): any of them may deny.
Deny ==
    /\ at = "resolved"
    /\ at' = "dropped"
    /\ UNCHANGED <<mailbox, tables, batch, cur, faults>>

\* insert_email_inbox_message or insert_message.  The reply actor does not
\* read its token again.  The inbox actor looks its room up after the insert,
\* and calls the mail dropped when that errs.
Insert ==
    /\ at = "resolved"
    /\ posts' = Append(posts, cur)
    /\ \/ at' = "inserted" /\ UNCHANGED faults
       \/ at' = "dropped" /\ ~IsReply(cur) /\ Fault
    /\ UNCHANGED <<mailbox, processed, drop, batch, cur>>

Spent(m) == IF IsReply(m) THEN [token EXCEPT ![Target[m]] = "gone"] ELSE token

\* consume, after the message is out; an error leaves the token behind.
Consume ==
    /\ at = "inserted"
    /\ at' = "used"
    /\ \/ token' = Spent(cur) /\ UNCHANGED faults
       \/ token' = token /\ IsReply(cur) /\ Fault
    /\ UNCHANGED <<box, revoked, tables, batch, cur>>

\* record_processed; an error is logged and the mail counts as posted.
Record ==
    /\ at = "used"
    /\ at' = "settled"
    /\ \/ processed' = processed \cup ({Id[cur]} \ {NoId}) /\ UNCHANGED faults
       \/ processed' = processed /\ Id[cur] # NoId /\ Fault
    /\ UNCHANGED <<mailbox, posts, drop, batch, cur>>

\* record_drop, then the copy for the operator; an error is swallowed.
LogDrop ==
    /\ at = "dropped"
    /\ at' = "settled"
    /\ \/ drop' = [drop EXCEPT ![cur] = "row"] /\ UNCHANGED faults
       \/ drop' = [drop EXCEPT ![cur] = "lost"] /\ Fault
    /\ UNCHANGED <<mailbox, processed, posts, batch, cur>>

SeenIfPosted == IF \E k \in 1..Len(posts) : posts[k] = cur THEN [box EXCEPT ![cur] = "seen"] ELSE box
Read == [box EXCEPT ![cur] = "seen"]

\* STORE +Seen, whatever the outcome; a failed STORE is left to the next tick.
MarkSeen ==
    /\ at = "settled"
    /\ at' = "next"
    /\ \/ box' = Read /\ UNCHANGED faults
       \/ box' = box /\ Fault
    /\ UNCHANGED <<token, revoked, tables, batch, cur>>

\* The server stops, or the session breaks and the tick returns its error.
Stop ==
    /\ at # "idle"
    /\ Fault
    /\ at' = "idle" /\ cur' = NoMail /\ batch' = {}
    /\ UNCHANGED <<mailbox, tables>>

---------------------------------------------------------------------------
TickStep ==
    \/ Search \/ (\E m \in Mails : Fetch(m)) \/ EndTick \/ Dedup \/ Resolve
    \/ Deny \/ Insert \/ Consume \/ Record \/ LogDrop \/ MarkSeen

Next ==
    \/ \E t \in Tokens : Mint(t) \/ Expire(t) \/ TokenGoes(t)
    \/ \E m \in Mails : Arrive(m)
    \/ \E i \in Inboxes : Revoke(i)
    \/ TickStep
    \/ Stop

Spec == Init /\ [][Next]_vars

\* spawn_email_poll ticks for as long as the server runs.
FairSpec == Spec /\ WF_vars(TickStep)

---------------------------------------------------------------------------
Messages(S) == {k \in 1..Len(posts) : posts[k] \in S}
Carrying(i) == {m \in Mails : Id[m] = i}
Answering(t) == {m \in Mails : Target[m] = t}

(* A tick holds a mail exactly while it is between two mails of its batch, *)
(* and reads only mails that are there.                                    *)
TypeOK ==
    /\ box \in [Mails -> {"away", "unseen", "seen"}]
    /\ token \in [Tokens -> {"none", "live", "expired", "gone"}]
    /\ revoked \subseteq Inboxes
    /\ processed \subseteq Ids
    /\ posts \in Seq(Mails)
    /\ drop \in [Mails -> {"none", "row", "lost"}]
    /\ at \in Stages
    /\ faults \in 0..MaxFaults
    /\ at \in {"idle", "next"} \/ cur \in Mails
    /\ batch \subseteq {m \in Mails : box[m] # "away"}

(* The deduplication and the single use of a token leak only by accident:  *)
(* each message a Message-ID or a reply token becomes beyond its first has *)
(* been paid for with an error or a stop.                                  *)
ExtraPostsCostFaults ==
    /\ \A i \in Ids : Cardinality(Messages(Carrying(i))) <= 1 + faults
    /\ \A t \in Tokens : Cardinality(Messages(Answering(t))) <= 1 + faults

(* No mail vanishes: one that is marked as read became a message or stands *)
(* in the drop log, unless writing that row failed, wherever the server    *)
(* stopped.                                                                *)
ReadMailIsAccountedFor ==
    \A m \in Mails : box[m] = "seen" => Messages({m}) # {} \/ drop[m] # "none"

(* A mail nothing can be done with does not hold up the folder: every mail *)
(* that arrives is read, and its reading ends.                             *)
EveryMailIsRead == \A m \in Mails : []<>(box[m] # "unseen")
=============================================================================
