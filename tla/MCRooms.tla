------------------------------- MODULE MCRooms --------------------------------
(* What a room is made of, on small instances: the tabs that watch it, its     *)
(* messages, a poll in it, the enclave it belongs to, the limits on a poster   *)
(* and the digest of what a reader missed.  Each is modelled for itself: a run *)
(* is a run of one of them, chosen in the initial state, with the others at    *)
(* rest.                                                                       *)
EXTENDS HubConnections, TLC

CONSTANTS
    c1, c2,
    Last, Bodies, Mentioning, Tasks, MaxRequests,
    Voters, Options, MaxVotes,
    People, SiteAdmins, None, Burst, MaxSteps, MaxBoots,
    Window, Limit, Cooldown, LimitTime, MaxCalls,
    Absence, DigestTime, DigestFaults

\* One user with two tabs.
OneUser == {"a"}
TwoTabs == {c1, c2}
AllOfA == [c \in TwoTabs |-> "a"]

VARIABLES
    part,       \* the component that runs
    row, review, mention, watermark, post, conn, tab, queue, requests, overlapped, missed, behind,
    multi, votes, overdue, closed, vote, screen, events, ballots,
    general, exists, account, role, banned, invited, open, posts, step, steps, boots, owned,
        crossed, raced, readmitted, unswept, haunted,
    clock, window, cool, allowed, posted,
    now, active, digest, unread, at, floor, mails, mailFaults

M == INSTANCE Messages WITH task <- post, late <- behind
P == INSTANCE Polls WITH Users <- Voters, task <- vote, requests <- ballots
N == INSTANCE Enclaves WITH Users <- People, task <- step
L == INSTANCE RateLimits WITH MaxTime <- LimitTime, now <- clock
D == INSTANCE Digest WITH MaxTime <- DigestTime, MaxFaults <- DigestFaults, Quiet <- Absence,
        missed <- unread, faults <- mailFaults

ASSUME MessagesAssumption == M!MessagesAssumption
ASSUME PollsAssumption == P!PollsAssumption
ASSUME EnclavesAssumption == N!EnclavesAssumption
ASSUME CallersCapCooldown == L!CallersCapCooldown
ASSUME TimesAreCounts == D!TimesAreCounts

Symmetry == Permutations(Tasks) \cup Permutations(People \ SiteAdmins)
              \cup Permutations(TwoTabs)

thread == <<row, review, mention, watermark, post, conn, tab, queue, requests, overlapped,
            missed, behind>>
poll == <<multi, votes, overdue, closed, vote, screen, events, ballots>>
enclave == <<general, exists, account, role, banned, invited, open, posts, step, steps, boots,
             owned, crossed, raced, readmitted, unswept, haunted>>

limits == <<clock, window, cool, allowed, posted>>
mailing == <<now, active, digest, unread, at, floor, mails, mailFaults>>

RoomsInit ==
    /\ part \in {"tabs", "messages", "poll", "enclave", "limits", "digest"}
    /\ Init /\ M!Init /\ P!Init /\ N!Init /\ L!Init /\ D!Init
    /\ part # "poll" => ~multi
    /\ part # "enclave" => general
Watching == part = "tabs" /\ Next /\ UNCHANGED <<part, thread, poll, enclave, limits, mailing>>
Writing == part = "messages" /\ M!Next /\ UNCHANGED <<part, vars, poll, enclave, limits, mailing>>
Voting == part = "poll" /\ P!Next /\ UNCHANGED <<part, vars, thread, enclave, limits, mailing>>
Belonging == part = "enclave" /\ N!Next /\ UNCHANGED <<part, vars, thread, poll, limits, mailing>>
Limiting == part = "limits" /\ L!Next /\ UNCHANGED <<part, vars, thread, poll, enclave, mailing>>
Digesting == part = "digest" /\ D!Next /\ UNCHANGED <<part, vars, thread, poll, enclave, limits>>
RoomsNext == Watching \/ Writing \/ Voting \/ Belonging \/ Limiting \/ Digesting

RoomsSpec == RoomsInit /\ [][RoomsNext]_<<part, vars, thread, poll, enclave, limits, mailing>>

(* The reader: an open page ends on what the table holds, the mention rows     *)
(* follow the messages, and what the watermark covers has no mention unread.   *)
ReaderSeesTheRoom ==
    M!TypeOK /\ M!ScreensAgree /\ M!MentionsFollow /\ M!ReadCoversMentions

(* The reader's watermark: nothing turns unread unless the reader asks. *)
NeverUnreadAgain == M!NeverUnreadAgain

(* The enclave: it keeps an owner, a ban keeps its member out and sweeps their *)
(* messages, and a deleted account leaves nothing behind.                      *)
EnclaveHolds ==
    N!TypeOK /\ N!OwnerRemains /\ N!BannedStayOut /\ N!PurgeSweeps /\ N!PurgedLeavesNothing

(* What is counted: every page ends on the tally of a poll, no limit lets more *)
(* through than it says, and one absence brings one digest.                    *)
CountsHold ==
    /\ P!TypeOK /\ P!PagesShowTheTally
    /\ L!TypeOK /\ L!AtMostTwoWindows /\ L!PostsAreApart
    /\ D!TypeOK /\ D!OneMailPerAbsence
===============================================================================
