-------------------------------- MODULE Polls --------------------------------
(* One poll (routes/polls.rs, db/polls.rs): votes under checks that come    *)
(* before the write, the closer's tick, and the screens that read the tally *)
(* again whenever a PollUpdated reaches them.                               *)
EXTENDS Integers, FiniteSets

CONSTANTS
    Users, Options, Tasks,
    MaxVotes    \* vote requests

\* What a configuration must give.
PollsAssumption == MaxVotes \in Nat

VARIABLES
    multi,      \* allows_multi
    votes,      \* poll_votes: the options a user has chosen
    overdue,    \* closes_at has passed
    closed,     \* closed_at is set
    task,       \* requests: where they are, for whom, which option, what they read
    screen,     \* the block on a user's page
    events,     \* a PollUpdated is under way to this user's socket
    requests

vars == <<multi, votes, overdue, closed, task, screen, events, requests>>

NoRequest == [at |-> "none"]
Block == [votes |-> votes, closed |-> overdue \/ closed]

Init ==
    /\ multi \in BOOLEAN
    /\ votes = [u \in Users |-> {}]
    /\ overdue = FALSE /\ closed = FALSE
    /\ task = [t \in Tasks |-> NoRequest]
    /\ screen = [u \in Users |-> Block]
    /\ events = {}
    /\ requests = 0

Deadline ==
    /\ ~overdue /\ overdue' = TRUE
    /\ UNCHANGED <<multi, votes, closed, task, screen, events, requests>>

\* close_due finds the poll and broadcasts.
Close ==
    /\ overdue /\ ~closed
    /\ closed' = TRUE
    /\ events' = Users
    /\ UNCHANGED <<multi, votes, overdue, task, screen, requests>>

IsClosed == overdue \/ closed

\* post_vote up to the checks.
Ask(t, u, o) ==
    /\ task[t].at = "none" /\ requests < MaxVotes
    /\ ~IsClosed
    /\ task' = [task EXCEPT ![t] = [at |-> "passed", user |-> u, option |-> o]]
    /\ requests' = requests + 1
    /\ UNCHANGED <<multi, votes, overdue, closed, screen, events>>

\* user_votes on the pool: the toggle is decided on what this read.
ReadMine(t) ==
    /\ multi /\ task[t].at = "passed"
    /\ task' = [task EXCEPT ![t] = [at |-> "read", user |-> task[t].user, option |-> task[t].option,
                                    had |-> task[t].option \in votes[task[t].user]]]
    /\ UNCHANGED <<multi, votes, overdue, closed, screen, events, requests>>

Toggle(t) ==
    /\ task[t].at = "read"
    /\ votes' = [votes EXCEPT ![task[t].user] =
                    IF task[t].had THEN @ \ {task[t].option} ELSE @ \cup {task[t].option}]
    /\ task' = [task EXCEPT ![t] = [at |-> "written"]]
    /\ UNCHANGED <<multi, overdue, closed, screen, events, requests>>

Moved(mine, o) == IF mine = {o} THEN {} ELSE {o}

\* Read, clear and add under BEGIN IMMEDIATE.
Move(t) ==
    /\ ~multi /\ task[t].at = "passed"
    /\ votes' = [votes EXCEPT ![task[t].user] = Moved(@, task[t].option)]
    /\ task' = [task EXCEPT ![t] = [at |-> "written"]]
    /\ UNCHANGED <<multi, overdue, closed, screen, events, requests>>

\* Variant: a poll closed meanwhile is not told of.
TellsOpen == IF IsClosed THEN events ELSE Users
Told == Users

Broadcast(t) ==
    /\ task[t].at = "written"
    /\ events' = Told
    /\ task' = [task EXCEPT ![t] = NoRequest]
    /\ UNCHANGED <<multi, votes, overdue, closed, screen, requests>>

\* The socket renders the block for its viewer when the event reaches it.
Deliver(u) ==
    /\ u \in events
    /\ events' = events \ {u}
    /\ screen' = [screen EXCEPT ![u] = Block]
    /\ UNCHANGED <<multi, votes, overdue, closed, task, requests>>

Next ==
    \/ Deadline \/ Close
    \/ \E t \in Tasks :
          \/ \E u \in Users, o \in Options : Ask(t, u, o)
          \/ ReadMine(t) \/ Toggle(t) \/ Move(t) \/ Broadcast(t)
    \/ \E u \in Users : Deliver(u)

Spec == Init /\ [][Next]_vars

---------------------------------------------------------------------------
(* A voter of a single-choice poll stands for one option at most, however   *)
(* many tabs vote at once.                                                  *)
TypeOK ==
    /\ votes \in [Users -> SUBSET Options]
    /\ \A u \in Users : multi \/ Cardinality(votes[u]) <= 1
    /\ closed => overdue
    /\ events \subseteq Users

(* Once everything is written and delivered, every page shows the tally     *)
(* that stands, a vote that overtook the closing included.                  *)
PagesShowTheTally ==
    events = {} /\ (\A t \in Tasks : task[t].at # "written") /\ (overdue => closed)
        => \A u \in Users : screen[u] = Block
=============================================================================
