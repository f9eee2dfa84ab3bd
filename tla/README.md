# Verification of lets-chat

lets-chat is a self-hosted chat server: one Rust process (axum, tokio) over three SQLite
databases (chat, auth, settings), with WebSockets for live updates, voice rooms and huddles,
and background tasks in the same process. This directory holds TLA+ specifications of the
parts of it whose correctness depends on the order in which things happen, TLC
configurations that check small instances of them, and TLAPS proofs for every instance.

All source paths below are relative to `src/server/src/` unless they start with `src/`.

1. [The system](#1-the-system) - inventory
2. [Modules and code](#2-modules-and-code)
3. [Runs](#3-runs) - what each one asks, its bounds
4. [Fairness, deadlock](#4-fairness-and-deadlock)
5. [Proofs](#5-proofs)
6. [Where code and comments part](#6-where-code-and-comments-part)
7. [Not modelled](#7-not-modelled)
8. [What could follow](#8-what-could-follow)

To repeat the checks, from this directory: `tlc -workers 2 -config <cfg> <MC module>` for a run of
the table below, `tlapm <Proofs module>` for proofs.

## 1. The system

### Actors

| Actor | Where | What it interleaves with |
|---|---|---|
| request handlers | `routes/*.rs` | each other at every `.await`; on several threads |
| WebSocket connections | `routes/ws.rs`, `handle_socket` | frames of one connection are handled in order, those of two side by side |
| spawned tasks | `tokio::spawn` in `routes/ws.rs`, `ws/hub.rs` | everything; TTL tasks sleep first |
| scheduled dispatcher | `scheduled/dispatcher.rs`, one loop | handlers, and a second process during a deployment |
| orphan sweep | `uploads/sweep.rs`, hourly | handlers that store, attach or delete uploads |
| retention sweep, poll closer, digest, webhook tick, mail poll, reminder tick, recaps, vector backfill, documentation refresh, idle and timer scanners | loops spawned in `main.rs` | handlers; each is one loop, its own steps in order |
| outside services | LiveKit, its agent, IMAP, push, mail, language models | answer late, twice or never |

They share the SQLite databases (transactions are serialised by the write lock, single
statements are atomic, a handler's read and its later write are not), the hub's concurrent
maps (`ws/hub.rs`: one call on a map is atomic, two are not) and the uploads directory
(nothing serialises it).

### Components with a state machine of their own

**Scheduled messages** (`scheduled/`, `db/scheduled.rs`, `routes/scheduled.rs`). State: rows with
`send_at`, `delivered_at`, `recurrence`, `attempts`, `next_attempt_at`, an optional upload.
Operations: schedule, edit, cancel; tick (select due, then per row: validate, claim, insert
the message, insert the next occurrence, commit, link the upload), back off after an error;
account purge and room deletion take rows away. Hard: a tick works on rows it read long
before; crashes between steps; two ticks; recurrence after an outage. Correct when: each
row is delivered at most once, a recurring series is neither lost nor doubled, what goes out
was vetted, an outage does not replay a backlog, a poisoned row does not starve the others, an
upload never meets somebody else's message.

**Uploads** (`routes/uploads.rs`, `uploads/`, `db/uploads.rs`, `email_ingress/attachments.rs`).
State: rows that share files by content hash. Operations: store (check, write, insert),
attach, schedule, deliver, delete a message, sweep (select orphans; per row: count sharers,
remove the file, delete the row), purge. Hard: rows are transactional, files are not. Correct
when: an attachment in use keeps row and file; an orphan goes in the end.

**Live connections and presence** (`ws/hub.rs`, `routes/ws.rs`). State: connections, the user
index, topic subscriptions. Operations: connect, disconnect, SubscribeTopic, PageContext,
member removal. Hard: several maps, one user with several tabs, awaits between the authorisation and
the effect. Correct when: presence follows the open tabs, removal ends live delivery, closed
connections leave nothing behind.

**Remote control consent** (`routes/ws.rs`, `ws/hub.rs`, `db/remote_control_audit.rs`). State: who
shares, one pending request with a TTL, session rows. Operations: request, deny, grant, revoke,
stop sharing, leave, lose a connection. Hard: four ways to end a session race each other and
a grant. Correct when: at most one session, none without the controller's request and the sharer's
grant, each ending told once, the label follows the session.

**Call transcription** (`routes/transcripts.rs`, `db/transcripts.rs`, `ws/hub.rs`). State: session
rows (at most one open per room), the hub's agent and open-transcript markers. Operations: start or join,
dispatch the agent, end by request, by the emptying room, by the starter's lost connection.
Hard: dispatch confirmations arrive after the session ended or was replaced. Correct when: a
call does not fork, the "saved" notice is posted once, markers follow the session.

**Voice call log** (`db/voice_calls.rs`, `routes/ws.rs`, `ws/hub.rs`). State: the room's roster,
call rows (at most one open per room). Operations: join (read roster, drop an old membership,
enter, open), leave, lose a connection, move silently. Hard: roster and row change at different times, a
departure's closing runs in a task of its own. Correct when: a call spans the time its
room is occupied.

**DM call ringing** (`ws/hub.rs`, `routes/ws.rs`). State: one slot per DM with the moment it was
claimed. Operations: invite, accept, reject, cancel, hang up, TTL. Hard: two members calling each other
(glare), TTL tasks of earlier rings, signals without a call id. Correct when: the two never
ring each other, tabs show what the slot holds, nothing rings for ever.

**Accounts, sign-on, roles** (`routes/bunyip_sso.rs`, `routes/admin.rs`, `routes/account.rs`, `db/auth.rs`, `setup_admin.rs`). State: the rows of users with
role, ban, provider subject and proven address; sessions. Operations: a sign-on from its callback to the session (find, release, link or create the row, promote the first account,
mirror the provider's role, stamp the address, mint), ban, unban, role change, deletion, unlinking, leaving, editing the address. Hard: a sign-on is eight statements, and an
administrator acts between any two. Correct when: an administrator who can act remains, a row is never re-pointed, a proven address was vouched for, a ban ends sessions.

**Handles** (`db/auth.rs`, `routes/settings.rs`). State: handles, confirmations, cooldowns, reservations. Hard: two ways to take a handle check in one statement and write in another.
Correct when: a handle given up goes to nobody else for a while.

**Login approval** (`login_approval.rs`). State: challenges with attempts, known devices, the last country. Hard: codes submitted at once; every statement may fail, and some failures
let the sign-on through. Correct when: so many guesses and one session per challenge; what is trusted was earned.

**Enclaves** (`routes/enclave.rs`, `db/enclave.rs`, `routes/room.rs`). State: members with ranks, bans, invitations, recent messages. Operations: every way in and out, ranks and transfer,
Coyote Mode's ban with its purge, account deletion in two transactions, General's joins at sign-up and start-up. Hard: checks and writes of two requests interleave, and
a ban must be asked for at each way in. Correct when: an owner remains, the banned stay out, purges sweep, a deleted account leaves nothing.

**Messages and read state** (`routes/room.rs`, `db/chat.rs`, `db/mentions.rs`, `db/anti_spam.rs`, `routes/read_all.rs`, `retention/sweep.rs`). State: messages, the
quarantine, one reader's mentions and watermark, their open page and its event queue. Hard: a handler writes, renders and broadcasts in separate statements; a page loads its list
before its socket subscribes. Correct when: the page ends on what a reload would show, badges follow messages, nothing turns unread by itself.

**Email ingress** (`email_ingress/`). State: the folder, reply tokens, processed ids, the drop log. Hard: a stop between any two of insert, record, consume and flag.
Correct when: every mail is read, none vanishes, none posts twice but for a fault.

**Outgoing webhooks** (`outgoing.rs`, `db/outgoing_webhooks.rs`). State: hooks with consecutive failures, delivery rows, the tick's batch. Hard: the tick works on rows it read before; an
administrator toggles or deletes the hook; a statement that errs ends the tick. Correct when: every delivery settles, its attempts are on record, a failing hook is disabled.

**Polls, rate limits, digest** (`routes/polls.rs`, `rate_limit.rs`, `digest.rs`). Small ones: votes beside the closing; a window and a cooldown in a map anybody may sweep; a mail sent
before it is marked as sent.

**Status and activity** (`routes/status.rs`, `bg.rs`, `db/auth.rs`). State: the stored status, its timer, the activity stamp with a debounce and a background writer, who is between a
write and its broadcast. Hard: six places write or announce a status, each in separate statements. Correct when: Away and Do not disturb stay as chosen, the circle ends on what it should be.

**Stage rooms** (`ws/hub.rs`, `routes/ws.rs`, `routes/stage.rs`). State: who is on the stage, speaks, raises a hand. Hard: a frame is applied after the awaits of its checks, a lost connection leaves
the stage after awaits of its own. Correct when: the floor is a host's to give, the stage is of those who are there, a watcher sees it.

**Drafts** (`routes/drafts.rs`, `db/drafts.rs`). State: one row per user and room, the pencil of the sidebars. Hard: a save of the composer is on its way while its text is sent. Correct when: what was
sent is no draft, the pencil follows the draft.

**Translations** (`routes/translate.rs`, `db/translations.rs`). State: the cache by locale. Hard: a model answers after the message was edited. Correct when: what is cached is of the body that stands.

**Reminders, recaps, embeddings** (`reminders.rs`, `room_digest.rs`, `weekly_recap.rs`, `routes/related.rs`). State: reminders with `fired_at`; the stamp of a room's or a user's last recap; the
vectors of messages. Hard: a claim or stamp first, then calls that may fail. Correct when: nothing pings or posts twice, what is lost is lost to a named fault, all that is due is come to in the end.

**Help desk documentation** (`routes/help_docs.rs`, `db/doc_chunks.rs`, `db/settings.rs`). State: the chunks of each page with the hash of its text, the configured sources, a lock row. Operations: a run
(tick or forced) that loads the sources, fetches each index and page, compares, embeds, deletes and writes anew, prunes pages and products; an administrator's change of the sources. Hard: a run is a long series of
statements and fetches, each of which may fail or be the last. Correct when: a page is one text from end to end, it stays while it is wanted, the corpus follows the sites.

### How they interact

- The dispatcher posts into rooms and links uploads: `ScheduledMessages` carries the links
  (rows, live messages and files), `UploadStore` carries the same hand-over from the sweep's side
  (`Schedule`, `Deliver`, `DeliverLink`).
- A closing connection leaves voice, ends control sessions and finalises transcripts before the
  offline broadcast: `Goodbye` in `HubConnections`, `Disconnect` in `HuddleControl`, the backstop
  closers in `TranscriptSession`, `LeaveSpawn` in `VoiceCalls` are this one code path seen from each part.
- The last departure from a voice room closes the call and, through it, the transcript.
- Account purge removes scheduled rows, uploads, memberships and messages, and with a second transaction the account: `ScheduledMessages`, `UploadStore`, `Enclaves` and `Accounts` each
  see their part of it.
- A sign-on that `Accounts` lets through meets `LoginApproval` before its session, gives a new row its handle (`Handles`) and joins it to General (`Enclaves`).
- Coyote Mode bans in `Enclaves` and deletes in `Messages` (`CoyotePurge`).
- Mails post into rooms (`EmailIngress`), and what is posted becomes webhook deliveries (`OutgoingWebhooks`).

### Components without one

The remaining parts - permissions of rooms, message side features, automations, incoming webhooks and API, bridges, push and mail, the other AI features, outbound HTTP,
settings and start-up, rendering, the desktop shell, the transcription agent - are listed in `PROJECT.json`, each with the reason
it has no module; see [section 7](#7-not-modelled).

## 2. Modules and code

| Module | Stands for | Run by | Proved in |
|---|---|---|---|
| `Recurrence` | `scheduled/recurrence.rs`: the walk to the next occurrence and the catch-up | `RecurrenceCheck` in `MCSeries` | `ScheduledProofs` |
| `ScheduledMessages` | rows, handlers, dispatcher (extends `Recurrence`) | `MCSeries`, `MCScheduled` | `ScheduledProofs` |
| `ScheduledPromise` | what an author is promised: the abstract specification | refined by `ScheduledMessages` | `ScheduledProofs` |
| `UploadStore` | rows, files, senders, sweep | `MCJobs`, `MCUploads` | `JobsProofs` |
| `EmailIngress` | one poll tick after another over one folder | `MCJobs` | `JobsProofs` |
| `OutgoingWebhooks` | enqueueing, the delivery tick, administrators | `MCJobs` | `JobsProofs` |
| `HubConnections` | connecting, disconnecting, one topic, removal | `MCRooms`, `MCHub` | `RoomsProofs` |
| `Messages` | one channel as one reader sees it | `MCRooms` | `RoomsProofs` |
| `Enclaves` | the membership of one enclave | `MCRooms` | `RoomsProofs` |
| `Polls`, `RateLimits`, `Digest` | one poll; one key; one user's digest | `MCRooms` | `RoomsProofs` |
| `Reminders`, `Recaps`, `Embeddings` | one ticking loop each, with what users do to its rows | `MCJobs` | `JobsProofs` |
| `HelpDocs` | runs over the documentation sources | `MCJobs` | `JobsProofs` |
| `HuddleControl` | consent in one huddle | `MCHuddle` | `HuddleProofs` |
| `Presence` | one user's status and its circle | `MCHuddle` | `HuddleProofs` |
| `Stage` | the stage of one room and a watcher | `MCHuddle` | `HuddleProofs` |
| `Drafts` | one user's draft in one room | `MCHuddle` | `HuddleProofs` |
| `Translations` | the cached translations of one message | `MCHuddle` | `HuddleProofs` |
| `TranscriptSession` | sessions and markers of one room | `MCTranscript` | `TranscriptProofs` |
| `VoiceCalls` | roster and call rows of one room | `MCCalls` | `CallsProofs` |
| `DmRinging` | the ringing slot of one DM | `MCCalls` | `CallsProofs` |
| `Accounts` | rows, roles, sessions, sign-on | `MCPeople`, `AccountsFirstUser` | `PeopleProofs` |
| `LoginApproval` | challenges and baselines of one user | `MCPeople` | `PeopleProofs` |
| `Handles` | handles and reservations | `MCPeople` | `PeopleProofs` |

Conventions, in all of them:

- **A step ends where the code lets others in**: at an `.await`, between two calls on a hub map,
  between two SQL statements outside a transaction. What a transaction does is one step, or a sequence
  of steps during which writers wait (`Unlocked` in `UploadStore`, because files are touched inside).
- **A handler in flight is a record with a program counter** and exactly the locals the code carries across
  the await (the snapshot of a row, a resolved id, a checked upload).
- **An error is an action**: `MaxFaults` of them may happen anywhere a statement or an outside service can fail; a stop of the server loses what is in flight and keeps the tables.
- **Gates** that do not depend on modelled state (rate limits, flags, blocks, payload bounds) are a free choice
  to give up, or drop the frame.
- **Bounds** are constants named `Max...`; they appear in guards and in the index sets of numbered things (rows, claims, calls), nowhere else.
- **History variables** (marked "history") record what properties speak of; no action's guard reads them.
- **Variants**: definitions introduced by a comment "Variant" are single-point defects of the definition that
  follows. They are not part of any specification; with one in place of the original, the named property fails.

Correspondences that are less obvious:

- `ScheduledMessages`: time is a counter; `send_at` and `next_attempt_at` are instants of it, and `Day`
  instants make a day. `snap` of a dispatcher is the `Vec` that `select_due` returned; `Validate`, `Gates`
  and the claim work on the snapshot, as `dispatch_one` does. `Poison` is a set of rows whose processing errs every
  time. `Crash` loses the snapshots and the requests in flight and keeps the rows.
- `Recurrence` writes the bounded loop of `advance` as a recursive function over its step count, cut off at
  `MaxAdvance` like the code's own bound.
- `UploadStore`: an uploader stands for a web user or for the mail ingress; both run
  check, write, insert. `kept` is history: uploads whose file was in place when they were put to use and which no sweep
  held as a candidate at that moment.
- `HubConnections`: `index[u]` is the entry of `user_conns`, with `there` distinguishing an absent
  entry from an empty one, because `disconnect` empties and removes it in two steps.
- `HuddleControl`: `task[t]` is what the connection's loop is in the middle of; `ending` holds the tasks
  that departures spawn, which outlive their connection.
- `TranscriptSession`: a start request and a closer are processes; each runs its handler once per
  session it meets. The agent marker and the open-transcript record are separate variables because two calls change them.
- `Accounts`: a task is a request with what it carries (`op`, the row it found, the provider's claim). `excused` collects the named ways past the last administrator guard.
- `LoginApproval`: a code is right or wrong; a context is a device and a country, each possibly unknown. `earned` and `failedOpen` are history.
- `Enclaves`: `Decide` and `Finish` bracket a request; what it decided on is in its task (`was` is the rank it read). One enclave, one kind: `general` is chosen at the start.
- `Messages`: `Begin`, `Goto`, `Finish` are the program counter of a handler; each SQL statement and each broadcast is a step. The table is split into visible, held (`held`), deleted
  by whom (`deleted`) and purged; the page is what its list shows, and `queue` what its socket has not yet rendered.
- `EmailIngress`: `at` is how far the tick is with the mail in hand; an inbox and a token are both targets. `drop` says whether the log has a row for the mail.
- `OutgoingWebhooks`: `queue` orders the due rows like `scheduled_at`; backoff is leaving the queue until `FallsDue`.
- `Presence`: `task[k]` is whoever of kind `k` is between its write and its broadcast; at most one of a kind. Instants are three ages: recent or not, debounced or not, the timer none, set or due.
- `Stage`: `Frame` is a handler up to the end of its checks, `Apply` its change in the hub with the broadcast; the watcher's panel is drawn from the roster of that moment.
- `Drafts`: `typed` (history) says how the row and each save stand to the last send: typed after it, before it, or before it in a way the guard cannot see.
- `Translations`: a body is the number of edits it has had; a cached translation is the body it is of.
- `Reminders`, `Recaps`: `at` is how far the tick is with the row in hand; one `Recaps` stands for the two loops, whose ticks take the same steps. `Embeddings`: a vector is of the model in use
  (`new`), of another (`old`) or missing; ids are in the order of posting.
- `HelpDocs`: a text is told by its number of chunks, 0 for a page without sections, and stands for its hash; `run[r]` is a run of the tick or of an administrator with its locals. The sites change under `Edit`.
- `RateLimits`: `Kept` is the sweep that any call of any key may run first.
- `VoiceCalls`: `JoinRead`, `JoinGap`, `JoinEnter` are the roster steps of a join; `tasks` holds the spawned closers, each
  with the call id it resolved.
- `DmRinging`: claims are numbered in the order made, which stands for their `Instant`; `old` says that `RINGING_TTL`
  has passed since. A TTL task compares and removes in two steps.

## 3. Runs

| Run | Question | Bounds | States |
|---|---|---|---|
| `scheduled_series` | Exactly once; series in exactly one place; only vetted text; claims final; no backlog replayed; and step by step the promise of `ScheduledPromise`. Beside it the arithmetic of recurrences | one author, two texts, one-shot or daily, two dispatchers, batches of 2, 3 rows, clock to 2, 1 fault; a day of 2 units and clocks up to a month after | 1.0 million |
| `scheduled_liveness` | Does a healthy row get through beside a poisoned one? | batch of 1, 2 rows, one poisoned, one upload, 1 fault | 0.5 million |
| `scheduled_stale_claim` | Does a row that is no longer due stay unclaimed, as the comment says? **No.** | one row, one dispatcher | trace |
| `uploads_used_swept` | Does the sweep take only unused uploads? **No.** | one row | trace |
| `jobs` | Attachments survive, orphans go; mail is kept and read; deliveries, reminders and recaps are served once, the documentation is whole, and every job comes to the end of what it finds | uploads: 2 users, 2 rows, 1 fault; mail: 3 mails, an inbox, a token, 2 faults; hooks: 2 hooks, 2 events, 2 attempts, threshold 2, 1 kept, 2 edits, 1 fault; 2 reminders, 2 recaps, 2 faults each; vectors: 3 messages in 2 rooms, batches of 1, 1 fault; documentation: 2 sources of a page each, texts of up to 2 chunks, 1 edit, 1 forced run, 1 fault | 0.4 million |
| `rooms` | Tabs, messages, polls, enclaves, limits, digests: each part under overlapping requests | tabs: 2 of one user; messages: 2, 4 requests; enclave: 3 people, 4 decided requests, 1 restart; poll: 2 voters, 4 votes; limits: 7 calls; digest: 6 instants | 1.4 million |
| `hub_lost_tab` | Is an open tab always in the user index? **No.** | one user, 3 tabs | trace |
| `huddle_consent` | One session; endings told once; control was asked for; label and session settle. Beside it what stands next to the messages: circle, stage, draft, translations | a viewer, a sharer with 2 tabs, 2 sessions, 5 frames, one re-join; circle: 3 events; stage: 2 people, 1 host, 4 frames; drafts: 2 texts, 2 saves at a time, 4 requests; translations: 2 locales, 2 requests at a time, 3 in all, 2 edits | 1.2 million |
| `transcript_room` | Calls do not fork; one saved notice; markers follow the session, late dispatches included | 2 start requests, 2 closers, 2 sessions | 4.9 million |
| `calls` | One live ring, tabs agree, every ring ends; calls span the occupied room and are closed | a tab on either side, 3 claims, 5 frames; 3 connections, 4 joins, 1 fault | 0.8 million |
| `people` | Administrators remain, rows keep their subject, bans end sessions; one session per challenge, baselines are earned; given-up handles are kept | 3 accounts, 2 subjects, 2 sign-ons, 2 edits; 3 logins, 3 tries, 2 devices, 2 countries, 1 fault; 3 handles, 7 changes | 1.3 million |
| `accounts_first_user` | Does the first account stay administrator? **No.** | one sign-on | trace |

**Runs of several components.** `MCSeries`, `MCJobs`, `MCRooms`, `MCHuddle`, `MCCalls` and `MCPeople` check components that share no state in one run: `part` says in the initial state which of
them moves, and the others stay as they began. The state space is the sum of theirs, not the product, and a behaviour of such a run is a behaviour of one component; its fairness is the
component's own, guarded by `part`. A component that would be disturbed by the others is not checked this way.

**Invariants with parts.** In these runs the properties of one component are conjuncts of one invariant, each stated, named and explained in the module of the component:

| Invariant | Parts |
|---|---|
| `RecurrenceIsRight` | `WalkFindsNextSlot`, `CatchUpMeetsSeries` of `RecurrenceCheck` |
| `MailIsKept` | `ExtraPostsCostFaults`, `ReadMailIsAccountedFor` of `EmailIngress` |
| `DueIsServed` | `PostsAreOnRecord`, `EnabledIsBelowThreshold` of `OutgoingWebhooks`; `PingedAtMostOnce`, `FiredWasPinged` of `Reminders`; `OneRecapPerInterval`, `StampStandsForRecap` of `Recaps`; `PagesAreWhole`, `KeptPagesStand` of `HelpDocs` |
| `JobsEnd` | `OrphansAreSwept`, `EveryMailIsRead`, `EveryDeliverySettles`, `EveryReminderSettles`, `EveryoneIsComeTo`, `EveryMessageIsEmbedded`, `CorpusFollows` |
| `SideStateHolds` | `ChoiceIsKept`, `IdleMeansQuiet`, `CircleIsRight` of `Presence`; `FloorWasGranted`, `StageIsOfThePresent`, `PanelShowsRoster` of `Stage`; `SentIsNotADraft`, `PencilFollowsDraft` of `Drafts`; `CacheIsOfTheBody` of `Translations` |
| `ReaderSeesTheRoom` | `ScreensAgree`, `MentionsFollow`, `ReadCoversMentions` of `Messages` |
| `EnclaveHolds` | `OwnerRemains`, `BannedStayOut`, `PurgeSweeps`, `PurgedLeavesNothing` of `Enclaves` |
| `CountsHold` | `PagesShowTheTally`; `AtMostTwoWindows`, `PostsAreApart`; `OneMailPerAbsence` |
| `MarkersHold` | `LateDispatchLeavesNoMarker`, `MarkersSettle` of `TranscriptSession` |
| `CallsEnd` | `RingEnds`, `EmptyRoomCloses` |
| `AccountsHold` | `AdminRemains`, `VerifiedWasVouched`, `BanEndsSessions` of `Accounts` |
| `LoginsHold` | `ChallengeIsSingleUse`, `BaselineIsEarned`; `GivenUpIsKept`, `NoLingeringReservation` |

Each part can be broken by a single-point defect of the code: with the variant that stands before a definition in its place, TLC finds the part violated.
For instance `SearchesAll`, `FetchesBody`, `SeenIfPosted` in `EmailIngress`; `OnlyDelays`, `LeavesIt` in `OutgoingWebhooks`; `NoCascade`, `ListsHeld`, `BelowOnly` in
`Messages`; `Anybody`, `Writable`, `KeepsInvited` in `Enclaves`; `OneOver`, `SweptEarly` in `RateLimits`; `ForgetsToMark` in `Digest`; `StampsAny`, `NobodySignedOut` in `Accounts`; `Flagged` in
`LoginApproval`; `FreeOfHolders`, `NeverReclaims` in `Handles`; `WakesAnyone`, `Anyone` in `Presence`; `LeavesFloor` in `Stage`; `NeverSent`, `LeftToComposer` in `Drafts`;
`FirstOnly` in `Translations`; `AsSelected` in `Reminders`; `StampedLast` in `Recaps`; `AnyModel` in `Embeddings`; `Unguarded`, `Forgotten`, `InPlace` in `HelpDocs`.

Why the bounds are enough. Each hazard needs a small number of parties: a race on one slot, row or roster takes
two, and a third to be harmed by it (the third connection and the third claim of `calls`, the third account of `people` and `rooms`, the
third row of `scheduled_series`: a row, its next occurrence and one more). Counters are as large as
the longest scenario that a comment of the code worries about (a ring cleared, claimed again, and met by the first task; a session ended, replaced,
and met by the first session's confirmation), and every action of every module fires in the passing runs. One fault is a crash or a failed statement
anywhere; two faults add no new kind of state, since a crash resets all in-flight work. Where
theorems cover the property, the bounds do not matter at all.

Properties with a condition. Several settle-properties exempt histories in which two handlers crossed in a named way, because the code
does not exclude the crossing and the outcome differs there; the history variable or definition that names the crossing says precisely which (`blurred` and `late` in
`HubConnections`, `Overtaken` and `CutShort` in `TranscriptSession`, `torn` and `crossed` in `DmRinging`, the crossings of
`VoiceCalls`, `excused` and `crossed` in `Accounts`, `raced` in `Handles`, `overlapped`, `missed` and `late` in `Messages`, `crossed`, `raced`, `readmitted`, `unswept`, `haunted` in `Enclaves`, `stale` and `slipped` in `Presence`, `crossed` and `unrendered` in
`Stage`, `misled` and the standing `unseen` in `Drafts`, `crossed` in `Translations`, `unpinged` in `Reminders`, `excused` in `Recaps`, `Clogged` in `Embeddings`, and `torn`, `lost`, `Stuck`, `Rivalled` in `HelpDocs`). [Section 6](#6-where-code-and-comments-part) lists what happens in them.

**Refinement.** `SeriesPromise` checks, and `PromiseKept` proves, that `ScheduledMessages` implements `ScheduledPromise`
(`INSTANCE ScheduledPromise WITH ...`). A series is the set of rows with one origin. It is "once" or
"repeating" while one of them is pending, by that row's recurrence; "over" afterwards; what it has sent are the messages its rows
delivered that are still in the room. A claim transaction maps to `Fire`, a cancel or a refusal to `End`, a purge or room deletion
to `Erase`, everything else - ticks, snapshots, edits, backoff, crashes - to stuttering.

## 4. Fairness and deadlock

- `ScheduledMessages.FairSpec`: the clock moves and each dispatcher takes the next step it can. The dispatcher is a loop over
  `tokio::time::interval` that `main.rs` spawns and nothing stops. No fairness for requests, edits or faults.
- `UploadStore.FairSpec`: the sweep takes its next step (an hourly loop, `main.rs`), and a dispatcher that has committed goes on to link.
  None for users.
- `EmailIngress.FairSpec`: the poll takes its next step (a loop with an interval, `email_ingress/poll.rs:143`). None for correspondents, administrators, errors and stops, which are bounded.
- `OutgoingWebhooks.FairSpec`: the tick takes its next step and a row that backs off falls due (the clock; `main.rs:539`). None for events and administrators.
- `Reminders.Spec`, `Recaps.Spec`, `Embeddings.Spec`: the tick takes its next step (loops that `main.rs:521-538`, `:574-627` and `:635-652` spawn and nothing stops). None for users, errors and stops, which are bounded.
- `HelpDocs.Spec`: the tick begins when the lock is free and a run under way goes on (the loop of `main.rs:664-674`; a forced run is a task of its own). None for the sites, administrators, errors and stops.
- `VoiceCalls.VoiceFairSpec`: connection loops and spawned tasks run when they can; that is the runtime's scheduling. None for joins, leaves and faults.
- `DmRinging.FairSpec`: time passes, and handlers and TTL tasks run when they can. None for frames.
- The settle-properties of the other modules (`PresenceSettles`, `ConsentSettles`, `MarkersSettle`) are safety: they speak of states in which the handlers are
  at rest.

`CHECK_DEADLOCK FALSE` is set where the model may stop because its bound on frames, joins, rows, claims or requests
is used up and everybody is at rest (`jobs`, `rooms`, `calls`, `people`, `huddle_consent`, and the three violation runs over their components). The other runs are checked for deadlock.

## 5. Proofs

Every safety property that a passing run checks is a theorem; what is left to TLC alone is liveness. A theorem holds for every value of the constants under
the named assumptions: any number of users, tabs, rows, requests, dispatchers, faults. The bounds on requests, frames, claims and faults appear in guards and in the index sets of
rows and claims, and the theorems hold however large they are.

There is one module of proofs per run of components: `ScheduledProofs`, `JobsProofs`, `RoomsProofs`, `HuddleProofs`, `TranscriptProofs`, `CallsProofs`, `PeopleProofs`. What
they share is in `InductionLemmas`: induction over the naturals for a given set (the library's theorem takes an operator), and that a function given by recursion exists and is unique.

**Assumptions.** They say that bounds are natural numbers, that owners are users, and what the code's own constants guarantee. TLC evaluates them in every run that uses their module.

| Assumption | Beyond "bounds are counts" |
|---|---|
| `DayAssumption`, `MaxAdvanceAssumption`, `ScheduleAssumption` | a day and the walk's step bound are positive, a tick takes at least one row, a lead time is positive |
| `HorizonAssumption` | the arithmetic is asked for clocks that the walk's step bound reaches (`MAX_ADVANCE` is 20 000 of them) |
| `UploadAssumption`, `RecapsAssumption`, `EmbeddingsAssumption`, `DocsAssumption`, `ReminderAssumption`, `MailAssumption`, `HookAssumption` | batches, attempts and thresholds are positive; there are finitely many hooks; a page belongs to a source; a mail is addressed to an inbox or a token, and "no id" is no id |
| `HubAssumption`, `MessagesAssumption`, `PollsAssumption`, `EnclavesAssumption`, `CallersCapCooldown`, `TimesAreCounts` | connections have owners, site administrators are people; the placeholders for "nobody" and for what a page shows of no message are no user and no body; windows, limits, cooldowns and a burst are positive, and a cooldown is no longer than the window |
| `ControlAssumption`, `CircleAssumption`, `StagersAssumption`, `SavesAssumption`, `AsksAssumption` | tabs have owners, hosts are people; the placeholders are no user, no text and no save |
| `TranscriptAssumption`, `CallAssumption`, `RingAssumption` | a DM has two members |
| `AccountsAssumption`, `ApprovalAssumption`, `HandlesAssumption` | "none" is no user, subject, address, device or name |

**Theorems.** The component theorems are about the component's own `Spec`; those whose property a run of several components checks are stated for that run's specification too.

| Theorem | Says | Rests on |
|---|---|---|
| `NextOccurrenceIsFirstFutureSlot` | `NextOccurrence` is the first slot of the series after now | arithmetic of days and weeks |
| `RecurrenceIsAlwaysRight` | the loop of the code (`LoopResult`) ends within its step bound at that slot, and catching up in one jump meets the series | induction over the steps of the loop (`InductionLemmas`); the first slot is unique |
| `TypeCorrect`, `ExactlyOnce`, `ClaimsAreFinal`, `NoReplay` (Scheduled) | types; a row is delivered at most once; a delivered row is final; no backlog is repeated | `IndInv` = `TypeOK`, `FreshIds`, `SnapshotsAreOld`, `SameOwner`, `DeliveredExactlyOnce` |
| `DeliveredWasVetted` | what is sent passed the checks as the text it was sent as | `VettedInv`: what a dispatcher has in hand past its checks was vetted |
| `UploadsStay` | an upload stays with the first message that took it, and both have one owner | `RequestsOwn`, `RowsOwn`, `SnapshotsOwn`, `LinksOwn`, `UploadsOwn` |
| `OneOccurrencePending` | a living series has exactly one pending row | `IndInv` with `SeriesRecords`, `SeriesAliveInOnePlace` |
| `PromiseKept` | `ScheduledMessages` implements `ScheduledPromise` | the same, one step per action |
| `RowsHoldBesideTheArithmetic` | all of it in the composition of the run | the composition's steps are the rows' steps or leave them alone |
| `AttachedUploadsSurvive`, `UploadsAreTyped`, `UploadsHoldBesideTheRest` | uploads in use keep row and file | `CandidatesAreOld`, `KeptAreNoCandidates`, `NoSiblingAppears` |
| `MailIsKeptForever`, `MailIsAccountedFor` | an extra post costs a fault; a mail read became a message or is in the log | `MailInv`: each id and each token "has been paid" |
| `DueIsServedForever`, `DeliveriesHold`, `RemindersHold`, `RecapsHold`, `DocsHold`, `BatchesFit` | hooks, reminders, recaps, documentation, batches of vectors | `HookInv`, `ReminderInv`, `RecapInv`, `DocInv` |
| `Forgotten`, `PresenceIsRight`, `RemovalIsThorough`, `TypeCorrect`, `TabsHoldBesideTheRest` (Hub) | the invariants of the tabs | `MapsFollow`, `Reaching`, `Following` |
| `ReaderSeesTheRoomForever`, `ReaderIsRight`, `NothingTurnsUnread` | the page, the mentions and the watermark of a reader; the last is an action property | `MessageInv` |
| `EnclaveHoldsForever`, `MembershipHolds` | an owner remains, the banned stay out, purges sweep | `EnclaveInv` |
| `CountsHoldForever`, `PollsHold`, `LimitsHold`, `DigestsHold` | tallies, limits, digests | `PollInv`, `LimitInv`, `DigestInv` |
| `OneSessionAtATime`, `ConsentBehindControl`, `TypeCorrect` (Huddle) | one session; its controller asked its sharer | `Consent` = `TypeOK`, `Peers`, `ControlWasAsked` |
| `ToldOnceForever` | an ended session is told once, by the task that ended it | `Told` |
| `ConsentIsSettled` | where no grant crosses a grant or an ending, what was told, the labels and the open row agree at rest | `Settling` |
| `SideStateHoldsForever`, `HuddleHoldsBesideTheRest` | circle, stage, drafts, translations; the huddle beside them | `CircleInv`, `StageInv`, `DraftsInv`, `TranslationsInv` |
| `NoForks`, `NoticePostedOnce`, `TypeCorrect` (Transcript) | one open session and agent per call; one notice | `Unforked`, `Notices` |
| `MarkersFollow`, from `LateDispatchIsHarmless` and `MarkersAgree` | a late dispatch leaves no marker; where no handler is overtaken, markers and announcements agree with the row at rest | `Traced`, `Followed` |
| `NeverBothRinging`, `TypeCorrect` (Ringing) | a claim neither ended nor expired holds the slot, but for the named window | `RemovalsAreLate` |
| `TabsAgree` | at rest the tabs show the ring that holds the slot | `AgreeInv` |
| `CallsSpanOccupancy`, `CallsAreTyped` (Voice) | the log follows the roster but for the named crossings | `Shape`, `Seated`, `Spared`, `Occupied`, `Covered` |
| `CallsHoldSideBySide` | ringing and the call log in the composition of the run | the two |
| `AccountsHoldForever`, `SubjectsStay`, `AccountsHoldBesideTheRest` | administrators remain, addresses were vouched for, the banned have no session; no row is re-pointed (an action property) | `AccountsInv` |
| `LoginsHoldForever` | guesses and sessions per challenge, earned baselines, kept handles | `ApprovalInv`, `HandlesInv` |

**Why the strengthenings are needed.**

- *Scheduled.* Exactly-once is not inductive by itself: the dispatcher's snapshot may name a row that was deleted, and if ids could be reused the claim would hit a stranger; `FreshIds` and
  `SnapshotsAreOld` exclude that (AUTOINCREMENT). The series invariant needs the lineage of rows (`SeriesRecords`): that a delivered recurring row has one successor and a pending one none. Vetting needs
  that a dispatcher past its checks holds the body it checked, so an edit in between does not reach the room unvetted (`VettedInHand`).
- *Uploads.* During count and removal no sibling can appear (`NoSiblingAppears`), which is the write lock taken by `BEGIN IMMEDIATE`, and an upload put to use is no candidate.
- *Mail and hooks.* Posts and faults are counted together: an id that is not yet on record, or a token that is not yet used up, has as many posts as faults, and one more only while its mail is between its insert
  and its record (`MailInv`). A delivery that a tick has in hand is pending or went with its hook, and is in hand once (`InHand`); a pending row has attempts left.
- *Documentation.* A run in its middle has every page of its source still to come, visited, or in hand (`RunOk` in `DocInv`), and there is one run at a time by the lock row.
- *Hub.* Each step of a half-done connect or disconnect is described (`Following`).
- *Messages.* For each message: what a handler still has to broadcast covers what the page does not show yet (`ScreenSound`), a mention row belongs to a visible message or to a handler about to change it
  (`MentionSound`), and a mention below the watermark is read or is about to be (`ReadFollows`).
- *Enclaves.* The owner is one; what a request has decided on still holds unless something crossed it (`Decisions`); an account not yet signed up has left no trace, a deleted one
  leaves none from the first of its two transactions on (`NothingLeft`).
- *Polls, limits, digests.* A page is right or is about to be told (`PageIsToldOf`); the entry of a limit says when what it no longer counts has passed (`CountedWindow`); each mail beyond the mark cost a fault.
- *Huddle.* Consent needs that a handler past its gate carries a request that was made (`HandlersFit`). One telling needs the tellers of each session counted by who they are (`Told`). `Settling` is carried only
  along behaviours without a crossing: one grant is under way, between two users in the call, and opens or announces the one open session; a party of an open session is in the call or the task it left behind is about to end the session; a
  session opens only after the last ending was told; whoever is shown a session has one open or untold. Without the third, a notice of the old session would take down the label of the new one.
- *Circle, stage, drafts, translations.* Somebody between a write and a broadcast will repair the circle (`CircleFollows`); a frame past its checks is of somebody present (`FramesFit`); a save typed before the send is refused as
  long as the guard's window lasts, so it never becomes the row (`SavesFit`); a request to a model carries a body that was current (`TranslationsInv`).
- *Transcripts.* A marker of a closed session stays only as long as a closer is on its way to it, and an agent is armed only for an open one (`Traced`); without overtaking, markers are of the newest session,
  set from its announcement on (`OpenIsMarked`) and cleared in the order of `finalize` (`EndedIsCleared`).
- *Ringing.* A removal under way can only find a slot that is empty or has run out (`RemovalsAreLate`): the TTL task compared it with its own claim first, and any claim made since marks the history `torn`. Agreement needs that the slot
  holds the latest claim or none (`Latest`), that announcing and ending are apart (`Apart`), that the callee hears or is about to (`CalleeHears`), and that a ring shown holds the slot, has run out or is being told off (`ShownOrEnding`).
- *Voice.* An occupied room has somebody who has opened or is about to open its call (`Covered`), and a closer cannot hold the id of a call opened after it looked (`Spared`).
- *Accounts.* While nothing was excused, removals come one at a time, each of them leaves another administrator or an empty site, and whoever is promoted as the first account is alone (`OneAtATime`, `RemovalsLeaveOne`, `FirstIsAlone`). A sign-on
  of a banned user is one the ban crossed (`SignInsAreCrossed`); a sign-on carries the address its claim vouched for (`TasksFit`).
- *Login approval, handles.* Attempts are comparisons and an open challenge led to no session (`GuessesCount`); what a sign-on is about to leave as the baseline is earned already (`ContextsEarned`); a handle is kept for its
  holder, and what is given up is reserved (`KeptForHolders`, `GivenIsReserved`).

**Model-checked only**: liveness - `HealthyRowIsSettled`, `JobsEnd`, `CallsEnd` - since fairness and ENABLED are out of the prover's reach. The four properties of the violation runs are, of course, not theorems.

## 6. Where code and comments part

Carried by a run (a violated property that quotes the comment):

| Run | What happens |
|---|---|
| `scheduled_stale_claim` | An edit acknowledged between a tick's SELECT and the claim is lost: the old text goes out at the old time. `scheduled/dispatcher.rs:56-58` says a row that no longer matches the due predicate is not claimed; `try_claim` asks only for `delivered_at IS NULL`. |
| `uploads_used_swept` | An upload attached after the sweep selected its candidates is deleted with its file. `uploads/sweep.rs:1-2` says rows without a message. |
| `hub_lost_tab` | A tab that connects while the user's last one disconnects is dropped from the index. `ws/hub.rs:775` says one open WebSocket suffices. |
| `accounts_first_user` | The first account is promoted and, by the provider's claim, demoted in the same sign-on. `routes/bunyip_sso.rs:526-530` says it stays administrator. |

Present in the models, excluded by name from a property, without a run of their own:

- *Uploads.* A deduplicated upload may get its row after the sweep removed the file (`routes/uploads.rs:359`). A purge leaves the files on disk (`routes/account.rs:129`, `:209`).
- *Scheduled.* A request checked before an account purge inserts a pending row after it; the dispatcher drops it when due (`routes/account.rs:193-195`).
- *Hub.* The offline broadcast of a closing tab may follow the online broadcast of a new one. A subscription authorised before a removal and entered after it
  lasts until the next page move (`routes/enclave.rs:1368-1369`).
- *Huddle.* Two requests may both claim the pending slot, and one is lost. A grant that meets an open session is relayed all the same, so two people are told
  that they control while one session exists (`routes/ws.rs:2658-2659` against `:2879-2897`). A grant that crosses a departure leaves an open session whose controller is gone; a late label stays up.
- *Transcripts.* A late closer clears the marker of a newer session; a start that is outlived by its session's end records the dead session; `set_transcript_agent` has a check-then-insert window.
- *Voice.* The last leaver's task closes the call of somebody who came back, with its transcript. A joiner who read "not the first" enters an emptied room without call or ring. A
  silent move to another room strands the old room's call (`db/voice_calls.rs:3-5`).
- *Accounts.* Two removals that overlap leave no administrator (`routes/admin.rs:1192-1193`); a departing one counts the banned. Two first accounts created at once: nobody is promoted.
  `link_bunyip_sub` looks neither at the ban nor at the address again. A session minted across a ban is refused only while the ban lasts.
- *Handles.* A deletion reserves nothing. A stale welcome page gives a confirmed handle up without a reservation.
- *Login approval.* A sign-on that fails open records the device it presents (`login_approval.rs:150` says nothing is blessed).
- *Enclaves.* `accept_invitation` and the start-up backfill ask for no ban (`migrations/chat/0064_coyote_mode.sql:11-12` says a row blocks rejoin). General gets no owner if the first
  administrator joined it before the backfill ran. A kick leaves room memberships and overrides.
- *Messages.* What is broadcast between a page's load and its subscription never reaches it. Moderation's purge and a rejection leave mention rows. A mark-unread may move the watermark forward. A post that
  fails between its insert and its hold stays visible.
- *Mail.* A stop between insert and record posts again (`db/email_ingress_dedup.rs:1` says exactly once). `email_ingress/poll.rs:206-208` says the flag is stored even if processing panics; a panic ends
  the loop.
- *Webhooks.* Pruning may drop a retry that is still pending (`migrations/chat/0042_outgoing_webhooks.sql:3-4`).
- *Polls, digest.* A vote checked before the closing counts after it. A user who returns while their digest is written is stamped after their return and gets no mail for the next absence (`db/auth.rs:529-532`).
- *Presence.* A status posted, or a touch, by a user with no tab is broadcast all the same (`routes/status.rs:120`, `routes/mod.rs:857`); `main.rs:373-375` says such a user must not be repainted.
- *Stage.* Who is back on the stage before the departure of an earlier tab comes to it is taken off (`routes/ws.rs:1331`). A change while the stage is off is not drawn when it is on again.
- *Drafts.* A save past the guard, or of other text, stands after the send; the clearing takes a draft typed after the send with it.
- *Translations.* A translation asked for before an edit and answered after it is cached and served until the next edit (`db/translations.rs:42-43` says a stale one is never served).
- *Reminders, recaps.* What fails after the claim is lost: `db/reminders.rs:3-4` and `migrations/chat/0037_reminders.sql:9-10` say that the next tick retries.
- *Embeddings.* A batch full of messages whose rooms opted out is listed again by every tick, and older messages starve (`db/message_embeddings.rs:84`; `main.rs:632` speaks of a backlog that drains).
  An edit embeds nothing again.
- *Help desk.* A writing that fails after its first chunk leaves chunks with the hash of the whole text, and later ticks skip the page as unchanged (`routes/help_docs.rs:618`; `main.rs:658-659` says the next tick
  retries). A stop during a run leaves the lock row, and no run begins again (`db/settings.rs:60-61`). Two source lines that name one product prune each other's pages (`routes/help_docs.rs:548-552`). With no source left
  nothing is pruned (`routes/help_docs.rs:492`).
- *Uncovered.* In a DM a block keeps the blocked party's revoke of control from passing (`routes/ws.rs:2568`). A closer of a transcript that stops before the notice loses it (`routes/transcripts.rs:884`).
- *Ringing.* A TTL task, or the eviction of a stale slot, may take a newer ring with it (`ws/hub.rs:261-264`). A late cancel takes down the next call's ring on the peer's tabs.

## 7. Not modelled

Within the modelled parts: rendering and wording of events; lagging receivers; room subscriptions and typing hints;
image decoding, previews, quotas; transcript segments and captions; the events of a voice call; the DM form of the control relay; notification tails of a delivery; threads, reactions,
pins and forwards of messages; moderators and overrides of single rooms; bots, mutes and tokens of accounts; the parsing of mails; the signing of webhooks; the tokens of a stage's
audio; drafts that go with an account or a room; the ranking of a search;
what the help desk answers.
`PROJECT.json` states it per component.

Left out for good: the exchange with the sign-on provider (its content is cryptographic, its state one row consumed by one statement); what models answer, mail and push (calls to outside services whose answers are
content); address checks, backup and settings; rendering; the desktop shell and the transcription agent (other
processes); message side features and room permissions (one statement per request, or a claim by one statement). These are most of the repository's lines, which is
why the definitions here stand for a small share of them: what is modelled are the handlers whose outcome depends on an order.

## 8. What could follow

Compositions: `VoiceCalls` with `TranscriptSession` and `HuddleControl` over one roster (what the last departure and a lost connection do to all three); `Enclaves` with `HubConnections` (a ban and the live
tabs of the banned); `Messages` with `UploadStore` (what a purge unlinks).

Refinements: `HuddleControl` against a three-state consent (none, asked, controlled), `DmRinging` against a lock with a lease, `UploadStore` against reference counting, `OutgoingWebhooks` against an outbox.
