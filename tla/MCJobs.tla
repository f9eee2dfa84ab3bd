-------------------------------- MODULE MCJobs --------------------------------
(* The background jobs that must come to an end of what they find, on small    *)
(* instances: the sweep of uploads, the poll of the mail folder, the            *)
(* deliveries of webhooks, the reminders, the recaps, the backfill of vectors   *)
(* and the documentation of the help desk.  They share no state: a run is a    *)
(* run of one of them, chosen in the initial state, with the others at rest.   *)
EXTENDS UploadStore, TLC

CONSTANTS
    Mails, Inboxes, Tokens, Target, Ids, Id, NoId, NoMail, MailFaults,
    Hooks, Last, Attempts, Threshold, Keep, Batch, MaxEdits, HookFaults,
    Reminded, ReminderBatch, TickFaults, Vectored, VectorRooms, VectorBatch, VectorFaults,
    DocPages, DocSources, DocSource, DocChunks, DocEdits, ForcedRuns, DocFaults,
    m1, m2, m3, p1, p2, s1, s2

\* Two answers to one token, and a mail to an inbox with the header of one.
ThreeMails == {m1, m2, m3}
TwoAnswers == (m1 :> CHOOSE t \in Tokens : TRUE) @@ (m2 :> CHOOSE t \in Tokens : TRUE)
                @@ (m3 :> CHOOSE i \in Inboxes : TRUE)
OneHeader == (m1 :> CHOOSE x \in Ids : TRUE) @@ (m2 :> NoId) @@ (m3 :> CHOOSE x \in Ids : TRUE)

\* Two sources of a page each.
TwoPages == {p1, p2}
TwoSources == {s1, s2}
PageEach == (p1 :> s1) @@ (p2 :> s2)

VARIABLES
    part,       \* the component that runs
    box, token, revoked, processed, mailPosts, drop, mailBatch, mail, at, mailFaults,
    hook, row, queue, used, matched, ticking, batch, cur, answer, posts, edits, hookFaults,
    reminder, gone, access, due, inHand, pinging, pings, remFaults, cancelled, unpinged,
    stamped, optedOut, todo, subject, telling, recaps, recapFaults, excused,
    posted, room, deleted, vector, noVectors, embedding, backlog, vectorFaults,
    text, linked, product, configured, chunks, lock, run, docEdits, forced, docFaults,
    torn, lost, docsKept

E == INSTANCE EmailIngress WITH
        MaxFaults <- MailFaults, posts <- mailPosts, batch <- mailBatch, cur <- mail,
        faults <- mailFaults
W == INSTANCE OutgoingWebhooks WITH MaxFaults <- HookFaults, faults <- hookFaults
R == INSTANCE Reminders WITH
        Ids <- Reminded, Batch <- ReminderBatch, MaxFaults <- TickFaults, row <- reminder, cur <- inHand,
        at <- pinging, faults <- remFaults
K == INSTANCE Recaps WITH
        Subjects <- Reminded, MaxFaults <- TickFaults, cur <- subject, at <- telling,
        posts <- recaps, faults <- recapFaults
V == INSTANCE Embeddings WITH
        Last <- Vectored, Rooms <- VectorRooms, Batch <- VectorBatch, MaxFaults <- VectorFaults,
        optedOut <- noVectors, task <- embedding, todo <- backlog, faults <- vectorFaults
H == INSTANCE HelpDocs WITH
        Pages <- DocPages, Sources <- DocSources, SourceOf <- DocSource, Long <- DocChunks,
        MaxEdits <- DocEdits, MaxForced <- ForcedRuns, MaxFaults <- DocFaults,
        edits <- docEdits, faults <- docFaults, kept <- docsKept

ASSUME MailAssumption == E!MailsAreAddressed
ASSUME HookAssumption == W!BoundsAreCounts
ASSUME ReminderAssumption == R!BatchIsPositive
ASSUME RecapsAssumption == K!RecapsAssumption
ASSUME EmbeddingsAssumption == V!EmbeddingsAssumption
ASSUME DocsAssumption == H!DocsAssumption

mails == <<box, token, revoked, processed, mailPosts, drop, mailBatch, mail, at, mailFaults>>
hooks == <<hook, row, queue, used, matched, ticking, batch, cur, answer, posts, edits, hookFaults>>
reminders ==
    <<reminder, gone, access, due, inHand, pinging, pings, remFaults, cancelled, unpinged>>
recapping == <<stamped, optedOut, todo, subject, telling, recaps, recapFaults, excused>>
vectors == <<posted, room, deleted, vector, noVectors, embedding, backlog, vectorFaults>>
docs ==
    <<text, linked, product, configured, chunks, lock, run, docEdits, forced, docFaults, torn, lost,
      docsKept>>

\* Rooms, and the products of source lines, are told apart by what they share.
JobsInit ==
    /\ part \in {"uploads", "mail", "hooks", "reminders", "recaps", "vectors", "docs"}
    /\ Init /\ E!Init /\ W!Init /\ R!Init /\ K!Init /\ V!Init /\ H!Init
    /\ room[1] = CHOOSE r \in VectorRooms : TRUE
    /\ part # "vectors" => noVectors = {} /\ \A m \in 1..Vectored : room[m] = room[1]
    /\ LET first == CHOOSE s \in DocSources : TRUE
       IN product[first] = first /\ (part # "docs" => \A s \in DocSources : product[s] = first)

Alone(name, rest) == part = name /\ UNCHANGED rest /\ UNCHANGED part
Uploads == Alone("uploads", <<mails, hooks, reminders, recapping, vectors, docs>>) /\ Next
Mail == Alone("mail", <<vars, hooks, reminders, recapping, vectors, docs>>) /\ E!Next
Webhooks == Alone("hooks", <<vars, mails, reminders, recapping, vectors, docs>>) /\ W!Next
Reminding == Alone("reminders", <<vars, mails, hooks, recapping, vectors, docs>>) /\ R!Next
Recapping == Alone("recaps", <<vars, mails, hooks, reminders, vectors, docs>>) /\ K!Next
Embedding == Alone("vectors", <<vars, mails, hooks, reminders, recapping, docs>>) /\ V!Next
Documenting == Alone("docs", <<vars, mails, hooks, reminders, recapping, vectors>>) /\ H!Next
JobsNext ==
    Uploads \/ Mail \/ Webhooks \/ Reminding \/ Recapping \/ Embedding \/ Documenting

(* The fairness of the components, each for the runs that are its own. *)
JobsSpec ==
    /\ JobsInit /\ [][JobsNext]_<<part, vars, mails, hooks, reminders, recapping, vectors, docs>>
    /\ WF_vars(part = "uploads" /\ SweepStep)
    /\ \A r \in RowIds : WF_vars(part = "uploads" /\ DeliverLink(r))
    /\ WF_mails(part = "mail" /\ E!TickStep)
    /\ WF_hooks(part = "hooks" /\ W!TickStep)
    /\ \A d \in W!Rows : WF_hooks(part = "hooks" /\ W!FallsDue(d))
    /\ WF_reminders(part = "reminders" /\ R!TickStep)
    /\ WF_recapping(part = "recaps" /\ K!TickStep)
    /\ WF_vectors(part = "vectors" /\ V!TickStep)
    /\ WF_docs(part = "docs" /\ H!RunStep)

(* The mail folder: a mail posts again only for an error or a stop, and what is *)
(* marked as read became a message or stands in the drop log.                  *)
MailIsKept == part = "mail" =>
    E!TypeOK /\ E!ExtraPostsCostFaults /\ E!ReadMailIsAccountedFor

(* What falls due is served once and stands on record: what a webhook's        *)
(* receiver saw, but for the attempt in hand and the faults; a reminder, never *)
(* after it was cancelled; a recap, whatever stops after its stamp.  An        *)
(* enabled hook is below the threshold of failures.  What the help desk cites  *)
(* is whole, and stays while its source has it.                                *)
DueIsServed ==
    /\ part = "hooks" => W!TypeOK /\ W!PostsAreOnRecord /\ W!EnabledIsBelowThreshold
    /\ part = "reminders" => R!TypeOK /\ R!PingedAtMostOnce /\ R!FiredWasPinged
    /\ part = "recaps" => K!TypeOK /\ K!OneRecapPerInterval /\ K!StampStandsForRecap
    /\ part = "vectors" => V!TypeOK
    /\ part = "docs" => H!TypeOK /\ H!PagesAreWhole /\ H!KeptPagesStand

(* Every job comes to the end of what it finds: an orphan is swept, a mail is  *)
(* read, a delivery is settled, a reminder fires, a recap's turn comes, a      *)
(* message gets its vector, the documentation is followed, behind whatever     *)
(* errs before it.                                                             *)
JobsEnd ==
    /\ OrphansAreSwept /\ E!EveryMailIsRead /\ W!EveryDeliverySettles
    /\ R!EveryReminderSettles /\ V!EveryMessageIsEmbedded
    /\ part = "recaps" => K!EveryoneIsComeTo
    /\ part = "docs" => H!CorpusFollows
===============================================================================
