------------------------------ MODULE RoomsProofs ------------------------------
(* Proofs about what a room is made of, each for any number of users, tabs,    *)
(* messages and requests: a poll, the digest, the limits, the enclave, the     *)
(* messages of a channel and their reader, the hub; and that they hold when    *)
(* the parts of MCRooms stand side by side.                                    *)
EXTENDS MCRooms, FiniteSetTheorems, InductionLemmas, TLAPS

-------------------------------------------------------------------------------
(* A poll: its votes, the requests under way and what each page shows.       *)

Ballot ==
    [at : {"none", "written"}]
      \cup [at : {"passed"}, user : Voters, option : Options]
      \cup [at : {"read"}, user : Voters, option : Options, had : BOOLEAN]

Single(S) == S = {} \/ \E o \in Options : S = {o}

PollTyped ==
    /\ multi \in BOOLEAN /\ overdue \in BOOLEAN /\ closed \in BOOLEAN
    /\ votes \in [Voters -> SUBSET Options]
    /\ vote \in [Tasks -> Ballot]
    /\ screen = [u \in Voters |-> screen[u]]
    /\ closed => overdue
    /\ events \subseteq Voters

\* Votes are toggled only where several are allowed.
OneChoice ==
    ~multi => (\A u \in Voters : Single(votes[u])) /\ (\A t \in Tasks : vote[t].at # "read")

\* A page that is behind will be told.
PageIsToldOf(u) ==
    u \in events \/ (\E t \in Tasks : vote[t].at = "written") \/ (overdue /\ ~closed)
        \/ screen[u] = P!Block

PollInv == PollTyped /\ OneChoice /\ \A u \in Voters : PageIsToldOf(u)

LEMMA PollInit == P!Init => PollInv
<1>1. [at |-> "none"] \in Ballot
  BY DEF Ballot
<1> SUFFICES ASSUME P!Init PROVE PollInv
  OBVIOUS
<1>2. PollTyped
  BY <1>1 DEF P!Init, P!NoRequest, PollTyped
<1>3. OneChoice
  BY DEF P!Init, P!NoRequest, OneChoice, Single
<1>4. \A u \in Voters : PageIsToldOf(u)
  BY DEF P!Init, PageIsToldOf
<1> QED
  BY <1>2, <1>3, <1>4 DEF PollInv

LEMMA BallotFields ==
    ASSUME NEW b \in Ballot
    PROVE  /\ b.at \in {"none", "passed", "read", "written"}
           /\ b.at \in {"passed", "read"} => b.user \in Voters /\ b.option \in Options
           /\ b.at = "read" => b.had \in BOOLEAN
BY DEF Ballot

LEMMA PollStep == PollInv /\ [P!Next]_(P!vars) => PollInv'
<1> SUFFICES ASSUME PollInv, [P!Next]_(P!vars) PROVE PollInv'
  OBVIOUS
<1> USE DEF PollInv, PollTyped, OneChoice, PageIsToldOf
<1>1. CASE UNCHANGED P!vars
  BY <1>1 DEF P!vars, P!Block
<1>2. CASE P!Deadline
  BY <1>2 DEF P!Deadline, P!Block
<1>3. CASE P!Close
  BY <1>3 DEF P!Close, P!Block
<1>4. ASSUME NEW t \in Tasks, NEW u \in Voters, NEW o \in Options, P!Ask(t, u, o) PROVE PollInv'
  <2>1. [at |-> "passed", user |-> u, option |-> o] \in Ballot
    BY DEF Ballot
  <2> QED
    BY <1>4, <2>1 DEF P!Ask, P!Block
<1>5. ASSUME NEW t \in Tasks, P!ReadMine(t) PROVE PollInv'
  <2>1. vote[t].user \in Voters /\ vote[t].option \in Options
    BY <1>5, BallotFields DEF P!ReadMine
  <2> DEFINE b == [at |-> "read", user |-> vote[t].user, option |-> vote[t].option,
                   had |-> vote[t].option \in votes[vote[t].user]]
  <2>2. b \in Ballot /\ b.at = "read"
    BY <2>1 DEF Ballot
  <2> QED
    BY <1>5, <2>2 DEF P!ReadMine, P!Block
<1>6. ASSUME NEW t \in Tasks, P!Toggle(t) PROVE PollInv'
  <2>1. vote[t].user \in Voters /\ vote[t].option \in Options /\ vote[t].at = "read"
    BY <1>6, BallotFields DEF P!Toggle
  <2>2. [at |-> "written"] \in Ballot
    BY DEF Ballot
  <2>3. vote' \in [Tasks -> Ballot] /\ vote'[t].at = "written"
    BY <1>6, <2>2 DEF P!Toggle
  <2>4. votes' \in [Voters -> SUBSET Options]
    BY <1>6, <2>1 DEF P!Toggle
  <2> QED
    BY <1>6, <2>1, <2>3, <2>4 DEF P!Toggle, P!Block
<1>7. ASSUME NEW t \in Tasks, P!Move(t) PROVE PollInv'
  <2>1. vote[t].user \in Voters /\ vote[t].option \in Options
    BY <1>7, BallotFields DEF P!Move
  <2>2. [at |-> "written"] \in Ballot
    BY DEF Ballot
  <2>3. vote' \in [Tasks -> Ballot] /\ vote'[t].at = "written"
    BY <1>7, <2>2 DEF P!Move
  <2>4. votes' \in [Voters -> SUBSET Options] /\ \A u \in Voters : Single(votes'[u])
    BY <1>7, <2>1 DEF P!Move, P!Moved, Single
  <2>5. \A k \in Tasks : vote'[k].at # "read"
    BY <1>7, <2>3 DEF P!Move
  <2> QED
    BY <1>7, <2>3, <2>4, <2>5 DEF P!Move, P!Block
<1>8. ASSUME NEW t \in Tasks, P!Broadcast(t) PROVE PollInv'
  <2>1. [at |-> "none"] \in Ballot
    BY DEF Ballot
  <2> QED
    BY <1>8, <2>1 DEF P!Broadcast, P!Told, P!NoRequest, P!Block
<1>9. ASSUME NEW u \in Voters, P!Deliver(u) PROVE PollInv'
  BY <1>9 DEF P!Deliver, P!Block
<1> QED
  BY <1>1, <1>2, <1>3, <1>4, <1>5, <1>6, <1>7, <1>8, <1>9 DEF P!Next

LEMMA CardinalityOfVotes == \A S : P!Cardinality(S) = Cardinality(S)
BY DEF P!Cardinality, Cardinality

LEMMA PollInvGives == PollInv => P!TypeOK /\ P!PagesShowTheTally
<1>1. ASSUME PollInv, ~multi, NEW u \in Voters PROVE P!Cardinality(votes[u]) <= 1
  <2>1. Single(votes[u])
    BY <1>1 DEF PollInv, OneChoice
  <2>2. CASE votes[u] = {}
    BY <2>2, CardinalityOfVotes, FS_EmptySet
  <2>3. ASSUME NEW o \in Options, votes[u] = {o} PROVE P!Cardinality(votes[u]) <= 1
    <3>1. Cardinality({o}) = 1
      BY FS_Singleton
    <3> QED
      BY <2>3, <3>1, CardinalityOfVotes
  <2> QED
    BY <2>1, <2>2, <2>3 DEF Single
<1> QED
  BY <1>1 DEF PollInv, PollTyped, PageIsToldOf, P!TypeOK, P!PagesShowTheTally

(* A poll, for any number of voters, options, requests and votes: a voter of *)
(* a single-choice poll stands for one option at most, and once everything   *)
(* is written and delivered every page shows the tally that stands.          *)
THEOREM PollsHold == P!Spec => [](P!TypeOK /\ P!PagesShowTheTally)
BY PollInit, PollStep, PollInvGives, PTL DEF P!Spec

-------------------------------------------------------------------------------
(* The digest: what was sent for an absence, and what says so.               *)

\* The mark, or the mail just sent, that stands for the mails of one floor.
StandsFor(f) == (digest # D!Never /\ digest >= f) \/ (at = "sent" /\ floor = f)

DigestInv ==
    /\ D!TypeOK
    /\ now \in Nat /\ active \in Nat /\ mailFaults \in Nat
    /\ mails \in [D!Times -> Nat]
    /\ at # "idle" => floor <= active /\ floor \in Nat /\ (digest = D!Never \/ digest < floor)
    /\ \A f \in D!Times : mails[f] <= mailFaults + (IF StandsFor(f) THEN 1 ELSE 0)

\* What the bounds give.
LEMMA DigestBounds == Absence \in Nat \ {0} /\ DigestTime \in Nat \ {0} /\ DigestFaults \in Nat
BY TimesAreCounts DEF D!TimesAreCounts

LEMMA DigestInit == D!Init => DigestInv
BY DigestBounds DEF D!Init, D!TypeOK, D!Times, D!Never, DigestInv, StandsFor

LEMMA DigestStep == DigestInv /\ [D!Next]_(D!vars) => DigestInv'
<1> SUFFICES ASSUME DigestInv, [D!Next]_(D!vars) PROVE DigestInv'
  OBVIOUS
<1> USE DigestBounds DEF DigestInv, D!TypeOK, D!Times, D!Never, StandsFor
<1>1. CASE UNCHANGED D!vars
  BY <1>1 DEF D!vars
<1>2. CASE D!Tick
  BY <1>2 DEF D!Tick
<1>3. CASE D!Active
  BY <1>3 DEF D!Active
<1>4. CASE D!Mention
  BY <1>4 DEF D!Mention
<1>5. CASE D!Select
  BY <1>5 DEF D!Select, D!NotYetTold
<1>6. CASE D!Gather
  BY <1>6 DEF D!Gather
<1>7. CASE D!Send
  <2>1. floor \in 0..DigestTime
    BY <1>7 DEF D!Send
  <2>2. CASE at' = "sent"
    <3>1. mailFaults' = mailFaults /\ mails' = [mails EXCEPT ![floor] = @ + 1]
      BY <1>7, <2>2 DEF D!Send
    <3>2. mails' \in [0..DigestTime -> Nat]
      BY <2>1, <3>1
    <3>3. \A f \in 0..DigestTime : f # floor => mails'[f] = mails[f]
      BY <2>1, <3>1
    <3>4. mails'[floor] = mails[floor] + 1 /\ mails[floor] <= mailFaults
      BY <1>7, <2>1, <3>1 DEF D!Send
    <3> QED
      BY <1>7, <2>1, <2>2, <3>1, <3>2, <3>3, <3>4 DEF D!Send
  <2>3. CASE at' = "idle"
    BY <1>7, <2>3 DEF D!Send, D!Fault
  <2> QED
    BY <1>7, <2>2, <2>3 DEF D!Send
<1>8. CASE D!Mark
  BY <1>8, SMTT(60) DEF D!Mark, D!Marked, D!Fault
<1> QED
  BY <1>1, <1>2, <1>3, <1>4, <1>5, <1>6, <1>7, <1>8 DEF D!Next

LEMMA DigestInvGives == DigestInv => D!TypeOK /\ D!OneMailPerAbsence
BY DEF DigestInv, D!OneMailPerAbsence, D!Times

(* The digest, for every span of time and number of errors: one absence      *)
(* brings one mail, and one more only for each mark an error lost, although  *)
(* the mail goes out before it is marked.                                    *)
THEOREM DigestsHold == D!Spec => [](D!TypeOK /\ D!OneMailPerAbsence)
BY DigestInit, DigestStep, DigestInvGives, PTL DEF D!Spec

-------------------------------------------------------------------------------
(* The limiter: the calls it let pass, against the entry it keeps.           *)

Passed == 1..Len(allowed)

\* What passed before the window the entry counts was over by its start, and
\* what passed before the window before that was over a window earlier.
CountedWindow ==
    /\ window.start # L!Absent =>
          /\ \A i \in Passed : i <= Len(allowed) - window.count => allowed[i] <= window.start
          /\ \A i \in Passed : i <= Len(allowed) - window.count - Limit =>
                                   allowed[i] + Window <= window.start
    /\ window.start = L!Absent =>
          \A i \in Passed : i <= Len(allowed) - Limit => allowed[i] + Window <= clock

\* An entry that is gone was of no use any more.
LastPost ==
    /\ posted = <<>> => cool = L!Absent
    /\ posted # <<>> =>
          \/ cool = posted[Len(posted)]
          \/ cool = L!Absent /\ posted[Len(posted)] + Cooldown <= clock

LimitInv ==
    /\ L!TypeOK
    /\ window \in [start : Int, count : Int]
    /\ allowed \in Seq(Nat) /\ \A i \in Passed : allowed[i] <= clock
    /\ posted \in Seq(Nat)
    /\ CountedWindow /\ LastPost
    /\ L!AtMostTwoWindows /\ L!PostsAreApart

LEMMA LimitBounds ==
    /\ Window \in Nat \ {0} /\ Limit \in Nat \ {0} /\ Cooldown \in Nat \ {0}
    /\ LimitTime \in Nat /\ MaxCalls \in Nat /\ Cooldown <= Window
BY CallersCapCooldown DEF L!CallersCapCooldown

LEMMA LimitInit == L!Init => LimitInv
BY LimitBounds DEF L!Init, LimitInv, L!TypeOK, L!Absent, CountedWindow, LastPost, Passed,
       L!AtMostTwoWindows, L!PostsAreApart

\* The clock of the limiter ticks.
LEMMA LimitTick == LimitInv /\ L!Tick => LimitInv'
<1> SUFFICES ASSUME LimitInv, L!Tick PROVE LimitInv'
  OBVIOUS
<1>1. /\ clock' = clock + 1 /\ clock \in Nat /\ clock' \in 0..LimitTime
      /\ UNCHANGED <<window, cool, allowed, posted>>
  BY LimitBounds DEF L!Tick, LimitInv, L!TypeOK
<1>2. L!TypeOK'
  <2>1. window'.start \in {L!Absent} \cup 0..clock' /\ cool' \in {L!Absent} \cup 0..clock'
    BY <1>1 DEF LimitInv, L!TypeOK
  <2> QED
    BY <1>1, <2>1 DEF LimitInv, L!TypeOK
<1>5. (\A i \in Passed : allowed[i] <= clock)'
  BY <1>1 DEF LimitInv, Passed
<1>3. CountedWindow'
  BY <1>1, LimitBounds DEF LimitInv, CountedWindow, L!Absent, Passed
<1>4. LastPost'
  BY <1>1, LimitBounds DEF LimitInv, LastPost, L!Absent
<1> QED
  BY <1>1, <1>2, <1>3, <1>4, <1>5 DEF LimitInv, L!AtMostTwoWindows, L!PostsAreApart

\* A sweep at any call leaves both accounts true.
LEMMA KeptEntry ==
    ASSUME LimitInv, NEW s \in L!Kept(window.start)
    PROVE  /\ s \in {L!Absent} \cup 0..clock
           /\ s # L!Absent => s = window.start
           /\ s = L!Absent /\ window.start # L!Absent => clock - window.start >= Window
BY LimitBounds DEF LimitInv, L!TypeOK, L!Absent, L!Kept, L!Swept

LEMMA SweptAccount ==
    ASSUME LimitInv, NEW s \in L!Kept(window.start), s = L!Absent
    PROVE  \A i \in Passed : i <= Len(allowed) - Limit => allowed[i] + Window <= clock
<1> SUFFICES ASSUME NEW i \in Passed, i <= Len(allowed) - Limit PROVE allowed[i] + Window <= clock
  OBVIOUS
<1>1. allowed[i] \in Nat /\ i \in Nat /\ Len(allowed) \in Nat /\ clock \in Nat
  BY DEF LimitInv, L!TypeOK, Passed
<1>2. CASE window.start = L!Absent
  BY <1>2 DEF LimitInv, CountedWindow
<1>3. CASE window.start # L!Absent
  <2>1. window.start \in Nat /\ window.count \in 0..Limit
    BY <1>3 DEF LimitInv, L!TypeOK
  <2>2. i <= Len(allowed) - window.count
    BY <1>1, <2>1, LimitBounds
  <2>3. allowed[i] <= window.start
    BY <1>3, <2>2 DEF LimitInv, CountedWindow
  <2> QED
    BY <1>1, <1>3, <2>1, <2>3, KeptEntry, LimitBounds
<1> QED
  BY <1>2, <1>3

LEMMA SweptWindow ==
    ASSUME LimitInv, NEW s \in L!Kept(window.start)
    PROVE  LET w == L!Opened(s, window.count)
           IN  /\ w \in [start : Int, count : Int] /\ w.start \in 0..clock /\ w.count \in 0..Limit
               /\ \A i \in Passed : i <= Len(allowed) - w.count => allowed[i] <= w.start
               /\ \A i \in Passed : i <= Len(allowed) - w.count - Limit =>
                                        allowed[i] + Window <= w.start
<1> DEFINE w == L!Opened(s, window.count)
<1>1. /\ clock \in Nat /\ window.start \in {L!Absent} \cup 0..clock /\ window.count \in 0..Limit
      /\ \A i \in Passed : i \in Nat /\ allowed[i] \in Nat /\ allowed[i] <= clock
      /\ Len(allowed) \in Nat
  BY LimitBounds DEF LimitInv, L!TypeOK, Passed
<1>2. CASE s = L!Absent
  <2>1. w.start = clock /\ w.count = 0 /\ w = [start |-> clock, count |-> 0]
    BY <1>2 DEF L!Opened
  <2>2. \A i \in Passed : i <= Len(allowed) - Limit => allowed[i] + Window <= clock
    BY <1>2, SweptAccount
  <2> QED
    BY <1>1, <2>1, <2>2, LimitBounds
<1>3. CASE s # L!Absent /\ clock - s >= Window
  <2>1. w.start = clock /\ w.count = 0 /\ w = [start |-> clock, count |-> 0]
    BY <1>3 DEF L!Opened
  <2>2. \A i \in Passed : i <= Len(allowed) - window.count => allowed[i] <= window.start
    BY <1>3, KeptEntry DEF LimitInv, CountedWindow
  <2>3. s = window.start /\ s \in 0..clock
    BY <1>3, KeptEntry
  <2> QED
    BY <1>1, <1>3, <2>1, <2>2, <2>3, LimitBounds, SMTT(60)
<1>4. CASE s # L!Absent /\ ~(clock - s >= Window)
  <2>1. w.start = s /\ w.count = window.count /\ w = [start |-> s, count |-> window.count]
    BY <1>4 DEF L!Opened
  <2>2. s = window.start /\ s \in 0..clock
    BY <1>4, KeptEntry
  <2>3. /\ \A i \in Passed : i <= Len(allowed) - window.count => allowed[i] <= window.start
        /\ \A i \in Passed : i <= Len(allowed) - window.count - Limit =>
                                   allowed[i] + Window <= window.start
    BY <1>4, <2>2 DEF LimitInv, CountedWindow
  <2> QED
    BY <1>1, <2>1, <2>2, <2>3, LimitBounds
<1> QED
  BY <1>2, <1>3, <1>4

LEMMA SweptCool ==
    ASSUME LimitInv, NEW c \in L!Kept(cool)
    PROVE  /\ c \in {L!Absent} \cup 0..clock
           /\ posted = <<>> => c = L!Absent
           /\ posted # <<>> =>
                 \/ c = posted[Len(posted)]
                 \/ c = L!Absent /\ posted[Len(posted)] + Cooldown <= clock
BY LimitBounds DEF LimitInv, L!TypeOK, L!Absent, LastPost, L!Kept, L!Swept

LEMMA LimitCheck == LimitInv /\ L!Check => LimitInv'
<1> SUFFICES ASSUME LimitInv, L!Check PROVE LimitInv'
  OBVIOUS
<1> USE LimitBounds
<1>1. PICK s \in L!Kept(window.start), c \in L!Kept(cool) :
         LET w == L!Opened(s, window.count)
         IN  /\ cool' = c
             /\ IF L!Full(w) THEN window' = w /\ UNCHANGED allowed
                ELSE /\ window' = [w EXCEPT !.count = @ + 1]
                     /\ allowed' = Append(allowed, clock)
  BY DEF L!Check
<1> DEFINE w == L!Opened(s, window.count)
<1>2. /\ w \in [start : Int, count : Int] /\ w.start \in 0..clock /\ w.count \in 0..Limit
      /\ \A i \in Passed : i <= Len(allowed) - w.count => allowed[i] <= w.start
      /\ \A i \in Passed : i <= Len(allowed) - w.count - Limit => allowed[i] + Window <= w.start
  BY SweptWindow
<1>3. /\ c \in {L!Absent} \cup 0..clock
      /\ posted = <<>> => c = L!Absent
      /\ posted # <<>> =>
            \/ c = posted[Len(posted)]
            \/ c = L!Absent /\ posted[Len(posted)] + Cooldown <= clock
  BY SweptCool
<1>4. /\ cool' = c /\ UNCHANGED <<clock, posted>> /\ Len(allowed) < MaxCalls
      /\ w.count >= Limit => window' = w /\ UNCHANGED allowed
      /\ ~(w.count >= Limit) => window' = [w EXCEPT !.count = @ + 1] /\ allowed' = Append(allowed, clock)
  BY <1>1 DEF L!Check, L!Full
<1> HIDE DEF w
<1>5. LastPost' /\ L!PostsAreApart' /\ (posted \in Seq(Nat))'
  BY <1>3, <1>4 DEF LimitInv, LastPost, L!PostsAreApart
<1>6. CASE w.count >= Limit
  BY <1>2, <1>3, <1>4, <1>5, <1>6
     DEF LimitInv, L!TypeOK, L!Absent, CountedWindow, Passed, L!AtMostTwoWindows
<1>7. CASE ~(w.count >= Limit)
  <2>1. /\ window' = [w EXCEPT !.count = @ + 1] /\ allowed' = Append(allowed, clock)
        /\ window'.start = w.start /\ window'.count = w.count + 1 /\ w.count + 1 \in 0..Limit
        /\ window' \in [start : Int, count : Int]
    BY <1>2, <1>4, <1>7
  <2>2. /\ Len(allowed') = Len(allowed) + 1 /\ allowed' \in Seq(Nat) /\ Len(allowed) \in Nat
        /\ \A i \in 1..Len(allowed) : allowed'[i] = allowed[i]
        /\ allowed'[Len(allowed) + 1] = clock
    BY <2>1 DEF LimitInv, L!TypeOK
  <2>3. \A i \in Passed' : allowed'[i] <= clock
    <3> SUFFICES ASSUME NEW i \in 1..Len(allowed) + 1 PROVE allowed'[i] <= clock
      BY <2>2 DEF Passed
    <3>1. clock \in Nat
      BY DEF LimitInv, L!TypeOK
    <3>2. CASE i = Len(allowed) + 1
      BY <2>2, <3>1, <3>2
    <3>3. CASE i # Len(allowed) + 1
      <4>1. i \in 1..Len(allowed)
        BY <2>2, <3>3
      <4> QED
        BY <2>2, <4>1 DEF LimitInv, Passed
    <3> QED
      BY <3>2, <3>3
  <2>4. CountedWindow'
    <3>1. w.start \in Nat /\ w.count \in Nat /\ window'.start # L!Absent
      BY <1>2, <2>1 DEF L!Absent, LimitInv, L!TypeOK
    <3>2. ASSUME NEW i \in 1..Len(allowed) + 1, i <= Len(allowed) + 1 - (w.count + 1)
          PROVE  /\ allowed'[i] <= w.start
                 /\ i <= Len(allowed) + 1 - (w.count + 1) - Limit => allowed'[i] + Window <= w.start
      <4>1. i \in 1..Len(allowed) /\ i <= Len(allowed) - w.count
        BY <2>2, <3>1, <3>2
      <4>2. allowed'[i] = allowed[i] /\ i \in Passed
        BY <2>2, <4>1 DEF Passed
      <4>3. i <= Len(allowed) + 1 - (w.count + 1) - Limit => i <= Len(allowed) - w.count - Limit
        BY <2>2, <3>1, LimitBounds
      <4> QED
        BY <1>2, <4>1, <4>2, <4>3
    <3>3. ASSUME NEW i \in 1..Len(allowed) + 1, i <= Len(allowed) + 1 - (w.count + 1) - Limit
          PROVE  i <= Len(allowed) + 1 - (w.count + 1)
      BY <2>2, <3>1, <3>3, LimitBounds
    <3>4. Passed' = 1..Len(allowed) + 1 /\ Len(allowed') = Len(allowed) + 1
      BY <2>2 DEF Passed
    <3>5. \A i \in Passed' : i <= Len(allowed') - window'.count => allowed'[i] <= window'.start
      BY <2>1, <3>2, <3>4
    <3>6. \A i \in Passed' : i <= Len(allowed') - window'.count - Limit =>
                                 allowed'[i] + Window <= window'.start
      BY <2>1, <3>2, <3>3, <3>4, SMTT(60)
    <3> QED
      BY <3>1, <3>5, <3>6 DEF CountedWindow
  <2>5. L!AtMostTwoWindows'
    <3> SUFFICES ASSUME NEW i \in 1..Len(allowed) + 1, i > 2 * Limit
                 PROVE  allowed'[i] - allowed'[i - 2 * Limit] >= Window
      BY <2>2 DEF L!AtMostTwoWindows
    <3>1. PICK d \in Nat : d = 2 * Limit
      OBVIOUS
    <3>2. CASE i <= Len(allowed)
      <4>1. i \in 1..Len(allowed) /\ i - d \in 1..Len(allowed)
        BY <2>2, <3>1, <3>2, LimitBounds
      <4>2. \A k \in 1..Len(allowed) : k > d => allowed[k] - allowed[k - d] >= Window
        BY <3>1 DEF LimitInv, L!AtMostTwoWindows
      <4>3. allowed'[i] = allowed[i] /\ allowed'[i - d] = allowed[i - d]
        BY <2>2, <4>1
      <4> QED
        BY <3>1, <4>1, <4>2, <4>3
    <3>3. CASE i = Len(allowed) + 1
      <4>1. i - d \in 1..Len(allowed) /\ i - d <= Len(allowed) - w.count - Limit
        BY <1>2, <1>7, <2>2, <3>1, <3>3
      <4>2. allowed[i - d] + Window <= w.start /\ allowed[i - d] \in Nat
        <5>1. PICK k \in 1..Len(allowed) : k = i - d
          BY <4>1
        <5>2. allowed[k] + Window <= w.start
          BY <1>2, <4>1, <5>1 DEF Passed
        <5>3. allowed[k] \in Nat
          BY <5>1 DEF LimitInv
        <5> QED
          BY <5>1, <5>2, <5>3
      <4>3. allowed'[i] = clock /\ allowed'[i - d] = allowed[i - d]
        BY <2>2, <3>3, <4>1
      <4>4. w.start <= clock /\ w.start \in Nat /\ clock \in Nat
        BY <1>2 DEF LimitInv, L!TypeOK
      <4>5. clock - allowed[i - d] >= Window
        BY <4>2, <4>4, LimitBounds
      <4> QED
        BY <3>1, <4>3, <4>5
    <3> QED
      BY <2>2, <3>2, <3>3, SMTT(60)
  <2> QED
    <3>1. L!TypeOK'
      BY <1>2, <1>3, <1>4, <2>1, <2>2 DEF LimitInv, L!TypeOK, L!Absent
    <3> QED
      BY <1>5, <2>1, <2>2, <2>3, <2>4, <2>5, <1>4, <3>1 DEF LimitInv
<1> QED
  BY <1>6, <1>7

LEMMA LimitCooldown == LimitInv /\ L!CheckCooldown => LimitInv'
<1> SUFFICES ASSUME LimitInv, L!CheckCooldown PROVE LimitInv'
  OBVIOUS
<1> USE LimitBounds
<1>1. PICK s \in L!Kept(window.start), c \in L!Kept(cool) :
         /\ window' = [window EXCEPT !.start = s]
         /\ IF c # L!Absent /\ clock - c < Cooldown THEN cool' = c /\ UNCHANGED posted
            ELSE cool' = clock /\ posted' = Append(posted, clock)
  BY DEF L!CheckCooldown
<1>2. /\ c \in {L!Absent} \cup 0..clock
      /\ posted = <<>> => c = L!Absent
      /\ posted # <<>> =>
            \/ c = posted[Len(posted)]
            \/ c = L!Absent /\ posted[Len(posted)] + Cooldown <= clock
  BY SweptCool
<1>3. UNCHANGED <<clock, allowed>> /\ Len(posted) < MaxCalls
  BY DEF L!CheckCooldown
<1>4. /\ window' \in [start : Int, count : Int] /\ window'.start = s /\ window'.count = window.count
      /\ s \in {L!Absent} \cup 0..clock
  <2>1. s \in {L!Absent} \cup 0..clock /\ clock \in Nat
    BY KeptEntry DEF LimitInv, L!TypeOK
  <2>2. s \in Int
    BY <2>1 DEF L!Absent
  <2> QED
    BY <1>1, <2>1, <2>2 DEF LimitInv
<1>5. CountedWindow'
  <2>1. CASE s = L!Absent
    BY <1>3, <1>4, <2>1, SweptAccount DEF CountedWindow, Passed
  <2>2. CASE s # L!Absent
    BY <1>3, <1>4, <2>2, KeptEntry DEF LimitInv, CountedWindow, Passed
  <2> QED
    BY <2>1, <2>2
<1>6. CASE c # L!Absent /\ clock - c < Cooldown
  BY <1>1, <1>2, <1>3, <1>4, <1>5, <1>6
     DEF LimitInv, L!TypeOK, L!Absent, Passed, LastPost, L!AtMostTwoWindows, L!PostsAreApart
<1>7. CASE ~(c # L!Absent /\ clock - c < Cooldown)
  <2>1. /\ cool' = clock /\ posted' \in Seq(Nat) /\ Len(posted) \in Nat
        /\ Len(posted') = Len(posted) + 1 /\ posted'[Len(posted) + 1] = clock
        /\ \A i \in 1..Len(posted) : posted'[i] = posted[i]
    <3>1. cool' = clock /\ posted' = Append(posted, clock)
      BY <1>1, <1>7
    <3>2. clock \in Nat /\ posted \in Seq(Nat)
      BY DEF LimitInv, L!TypeOK
    <3> QED
      BY <3>1, <3>2
  <2>2. LastPost'
    BY <2>1 DEF LastPost
  <2>3. L!PostsAreApart'
    <3> SUFFICES ASSUME NEW i \in 2..Len(posted) + 1 PROVE posted'[i] - posted'[i - 1] >= Cooldown
      BY <2>1 DEF L!PostsAreApart
    <3>1. CASE i # Len(posted) + 1
      <4>1. i \in 2..Len(posted) /\ i - 1 \in 1..Len(posted) /\ i \in 1..Len(posted)
        BY <2>1, <3>1
      <4> QED
        BY <2>1, <4>1 DEF LimitInv, L!PostsAreApart
    <3>2. CASE i = Len(posted) + 1
      <4>1. Len(posted) \in 1..Len(posted) /\ posted # <<>> /\ i - 1 = Len(posted)
        BY <2>1, <3>2
      <4>2. posted[Len(posted)] \in Nat /\ clock \in Nat
        BY <4>1 DEF LimitInv, L!TypeOK
      <4>3. posted'[i] = clock /\ posted'[i - 1] = posted[Len(posted)]
        BY <2>1, <3>2, <4>1
      <4> QED
        BY <1>2, <1>7, <4>1, <4>2, <4>3 DEF L!Absent
    <3> QED
      BY <3>1, <3>2
  <2> QED
    BY <1>3, <1>4, <1>5, <2>1, <2>2, <2>3
       DEF LimitInv, L!TypeOK, L!Absent, Passed, L!AtMostTwoWindows
<1> QED
  BY <1>6, <1>7

LEMMA LimitStep == LimitInv /\ [L!Next]_(L!vars) => LimitInv'
<1>1. LimitInv /\ UNCHANGED L!vars => LimitInv'
  BY DEF LimitInv, L!vars, L!TypeOK, CountedWindow, LastPost, Passed, L!AtMostTwoWindows,
         L!PostsAreApart
<1> QED
  BY <1>1, LimitTick, LimitCheck, LimitCooldown DEF L!Next

(* The limiter, for every window, limit and cooldown no longer than the      *)
(* window, whichever calls sweep its map: within any span shorter than the   *)
(* window at most twice the limit passes, and two posts that pass slowmode   *)
(* are at least the cooldown apart.                                          *)
THEOREM LimitsHold == L!Spec => [](L!TypeOK /\ L!AtMostTwoWindows /\ L!PostsAreApart)
<1>1. LimitInv => L!TypeOK /\ L!AtMostTwoWindows /\ L!PostsAreApart
  BY DEF LimitInv
<1> QED
  BY <1>1, LimitInit, LimitStep, PTL DEF L!Spec

-------------------------------------------------------------------------------
(* An enclave: what its requests have decided, and what its tables hold.     *)

Undecided == {"join", "invite", "remove", "role", "transfer", "account", "post"}
Places == Undecided \cup {"idle", "auth", "coyote", "ban", "purge"}
Targets == {"none", "member", "admin", "owner", "alone"}
Errand == [pc : Places, user : People \cup {None}, to : Targets, was : N!Ranks, barred : BOOLEAN]

EnclaveTyped ==
    /\ general \in BOOLEAN /\ exists \in BOOLEAN /\ open \in BOOLEAN
    /\ owned \in BOOLEAN /\ crossed \in BOOLEAN
    /\ role \in [People -> N!Ranks]
    /\ account \in [People -> {"new", "live", "gone"}]
    /\ invited \subseteq People /\ banned \subseteq People
    /\ posts \in [People -> 0..Burst]
    /\ step \in [Tasks -> Errand]

\* What a request looked at before it came to its write.
Decision(d) ==
    /\ d.pc # "idle" => d.user \in People
    /\ d.pc \in {"join", "post"} => ~d.barred
    /\ d.pc \in {"remove", "role"} => d.was # "owner" /\ d.to \in {"none", "member", "admin"}
    /\ d.pc = "account" /\ d.was = "owner" => d.to = "alone"

Decisions == \A t \in Tasks : Decision(step[t])

\* Nothing is known of an account that has not signed up yet.
Newcomers ==
    \A u \in People : account[u] = "new" =>
        /\ role[u] = "none" /\ u \notin invited /\ u \notin banned
        /\ \A t \in Tasks : step[t].pc # "idle" => step[t].user # u

\* Nothing is left of an enclave that is gone.
NothingAfterwards ==
    ~exists => /\ banned = {} /\ invited = {}
               /\ \A u \in People : role[u] = "none" /\ posts[u] = 0

OneOwner == \A u, v \in People : role[u] = "owner" /\ role[v] = "owner" => u = v

\* The first of the two purges of an account is done.
HalfGone(u) == account[u] = "gone" \/ \E t \in Tasks : step[t].pc = "auth" /\ step[t].user = u

NothingLeft ==
    \A u \in People : HalfGone(u) /\ u \notin haunted =>
        role[u] = "none" /\ u \notin invited /\ u \notin banned /\ posts[u] = 0

EnclaveInv ==
    /\ EnclaveTyped /\ Decisions /\ Newcomers /\ NothingAfterwards /\ OneOwner
    /\ N!OwnerRemains /\ N!BannedStayOut /\ N!PurgeSweeps /\ NothingLeft

LEMMA EnclaveBounds ==
    /\ SiteAdmins \subseteq People /\ None \notin People
    /\ Burst \in Nat \ {0} /\ MaxSteps \in Nat /\ MaxBoots \in Nat
BY EnclavesAssumption DEF N!EnclavesAssumption

LEMMA EnclaveInit == N!Init => EnclaveInv
<1> SUFFICES ASSUME N!Init PROVE EnclaveInv
  OBVIOUS
<1> USE EnclaveBounds
<1>1. N!Idle \in Errand /\ N!Idle.pc = "idle" /\ Decision(N!Idle)
  BY DEF N!Idle, Errand, Places, Targets, N!Ranks, Decision
<1>2. /\ step \in [Tasks -> Errand] /\ \A t \in Tasks : step[t].pc = "idle"
      /\ Decisions
  BY <1>1 DEF N!Init, Decisions
<1>3. /\ role \in [People -> N!Ranks] /\ OneOwner
      /\ owned => \E u \in People : role[u] = "owner"
      /\ account \in [People -> {"new", "live", "gone"}] /\ \A u \in People : account[u] # "gone"
      /\ \A u \in People : account[u] = "new" => role[u] = "none"
  <2>1. CASE general
    BY <2>1 DEF N!Init, N!Ranks, OneOwner
  <2>2. CASE ~general
    <3>1. PICK o \in People : role = [u \in People |-> IF u = o THEN "owner" ELSE "none"]
      BY <2>2 DEF N!Init
    <3>2. /\ role \in [People -> N!Ranks] /\ OneOwner /\ role[o] = "owner"
      BY <3>1 DEF N!Ranks, OneOwner
    <3> QED
      BY <2>2, <3>2 DEF N!Init
  <2> QED
    BY <2>1, <2>2
<1>4. EnclaveTyped
  <2>1. owned \in BOOLEAN /\ general \in BOOLEAN /\ open \in BOOLEAN
    <3>1. general \in BOOLEAN /\ owned = ~general /\ open = general
      BY DEF N!Init
    <3> QED
      BY <3>1, Zenon
  <2>2. posts \in [People -> 0..Burst]
    BY DEF N!Init
  <2> QED
    BY <1>2, <1>3, <2>1, <2>2 DEF N!Init, EnclaveTyped
<1>5. Newcomers /\ NothingAfterwards /\ NothingLeft
  BY <1>2, <1>3 DEF N!Init, Newcomers, NothingAfterwards, NothingLeft, HalfGone
<1>6. N!OwnerRemains /\ N!BannedStayOut /\ N!PurgeSweeps
  BY <1>3 DEF N!Init, N!OwnerRemains, N!Owners, N!BannedStayOut, N!PurgeSweeps
<1> QED
  BY <1>2, <1>3, <1>4, <1>5, <1>6 DEF EnclaveInv

(* A request has looked at somebody, and will write. *)
LEMMA Decided ==
    ASSUME EnclaveInv, NEW t \in Tasks, NEW place \in Undecided, NEW u \in People,
           NEW to \in Targets, N!Decide(t, place, u, to),
           place \in {"join", "post"} => u \notin banned,
           place \in {"remove", "role"} => role[u] # "owner" /\ to \in {"none", "member", "admin"},
           place = "account" /\ role[u] = "owner" => to = "alone"
    PROVE  EnclaveInv'
<1> DEFINE d == [pc |-> place, user |-> u, to |-> to, was |-> role[u], barred |-> u \in banned]
<1>1. d \in Errand /\ Decision(d) /\ d.pc = place /\ d.user = u
  <2>1. role[u] \in N!Ranks /\ place \in Places
    BY DEF EnclaveInv, EnclaveTyped, Places
  <2>2. d \in Errand
    BY <2>1 DEF Errand
  <2>3. (u \in banned) \in BOOLEAN
    OBVIOUS
  <2>4. Decision(d)
    BY <2>3 DEF Decision
  <2> QED
    BY <2>2, <2>4
<1>2. step' = [step EXCEPT ![t] = d]
  BY DEF N!Decide
<1> HIDE DEF d
<1>3. /\ step' \in [Tasks -> Errand] /\ step'[t] = d
      /\ \A k \in Tasks : k # t => step'[k] = step[k]
  BY <1>1, <1>2 DEF EnclaveInv, EnclaveTyped
<1>4. /\ account[u] = "live" /\ step[t].pc = "idle"
      /\ UNCHANGED <<general, exists, account, role, banned, invited, open, posts,
                     owned, crossed, raced, readmitted, unswept, haunted>>
  BY DEF N!Decide, N!Live, N!tables, N!history
<1>5. EnclaveTyped' /\ Decisions'
  BY <1>1, <1>3, <1>4 DEF EnclaveInv, EnclaveTyped, Decisions
<1>6. Newcomers'
  BY <1>1, <1>3, <1>4 DEF EnclaveInv, Newcomers
<1>7. NothingAfterwards' /\ OneOwner' /\ N!OwnerRemains' /\ N!BannedStayOut'
  BY <1>4 DEF EnclaveInv, NothingAfterwards, OneOwner, N!OwnerRemains, N!Owners, N!BannedStayOut,
     N!Member
<1>8. N!PurgeSweeps'
  BY <1>3, <1>4 DEF EnclaveInv, N!PurgeSweeps
<1>9. NothingLeft'
  <2>1. d.pc # "auth"
    BY <1>1 DEF Undecided
  <2> QED
    BY <1>3, <1>4, <2>1 DEF EnclaveInv, NothingLeft, HalfGone
<1> QED
  BY <1>5, <1>6, <1>7, <1>8, <1>9 DEF EnclaveInv

LEMMA CardinalityOfMembers == \A S : N!Cardinality(S) = Cardinality(S)
BY DEF N!Cardinality, Cardinality

(* The requests that check, and write later. *)
LEMMA EnclaveChecks ==
    ASSUME EnclaveInv, NEW t \in Tasks, NEW u \in People
    PROVE  /\ N!JoinCheck(t, u) => EnclaveInv'
           /\ N!LeaveCheck(t, u) => EnclaveInv'
           /\ N!AccountCheck(t, u) => EnclaveInv'
           /\ N!PostGate(t, u) => EnclaveInv'
           /\ \A m \in People :
                 /\ N!InviteCheck(t, m, u) => EnclaveInv'
                 /\ N!KickCheck(t, m, u) => EnclaveInv'
                 /\ N!TransferCheck(t, m, u) => EnclaveInv'
                 /\ \A r \in {"member", "admin"} : N!RoleCheck(t, m, u, r) => EnclaveInv'
<1>1. N!JoinCheck(t, u) => EnclaveInv'
  BY Decided DEF N!JoinCheck, N!Joinable, Undecided, Targets
<1>2. N!LeaveCheck(t, u) => EnclaveInv'
  BY Decided DEF N!LeaveCheck, N!Removable, Undecided, Targets
<1>3. ASSUME N!AccountCheck(t, u) PROVE EnclaveInv'
  <2> DEFINE members == {v \in People : N!Member(v)}
             to == IF N!Cardinality(members) = 1 THEN "alone" ELSE "none"
  <2>1. N!Decide(t, "account", u, to) /\ N!MayGo(u)
    BY <1>3 DEF N!AccountCheck
  <2>2. ASSUME role[u] = "owner" PROVE to = "alone"
    <3>1. members = {u}
      BY <2>1, <2>2 DEF N!MayGo, N!Member
    <3>2. Cardinality({u}) = 1
      BY FS_Singleton
    <3> QED
      BY <3>1, <3>2, CardinalityOfMembers
  <2>3. to \in Targets
    BY DEF Targets
  <2> QED
    BY <2>1, <2>2, <2>3, Decided DEF Undecided
<1>4. N!PostGate(t, u) => EnclaveInv'
  BY Decided DEF N!PostGate, N!MayPost, Undecided, Targets
<1>5. ASSUME NEW m \in People
      PROVE  /\ N!InviteCheck(t, m, u) => EnclaveInv'
             /\ N!KickCheck(t, m, u) => EnclaveInv'
             /\ N!TransferCheck(t, m, u) => EnclaveInv'
             /\ \A r \in {"member", "admin"} : N!RoleCheck(t, m, u, r) => EnclaveInv'
  <2>1. N!InviteCheck(t, m, u) => EnclaveInv'
    BY Decided DEF N!InviteCheck, Undecided, Targets
  <2>2. N!KickCheck(t, m, u) => EnclaveInv'
    BY Decided DEF N!KickCheck, N!Removable, Undecided, Targets
  <2>3. N!TransferCheck(t, m, u) => EnclaveInv'
    BY Decided DEF N!TransferCheck, Undecided, Targets
  <2>4. ASSUME NEW r \in {"member", "admin"}, N!RoleCheck(t, m, u, r) PROVE EnclaveInv'
    BY <2>4, Decided DEF N!RoleCheck, N!Removable, Undecided, Targets
  <2> QED
    BY <2>1, <2>2, <2>3, <2>4
<1> QED
  BY <1>1, <1>2, <1>3, <1>4, <1>5

(* A request is done, or comes to its next statement. *)
LEMMA Finished ==
    ASSUME EnclaveInv, NEW t \in Tasks, N!Finish(t)
    PROVE  /\ step' \in [Tasks -> Errand] /\ Decisions'
           /\ step'[t].pc = "idle" /\ \A k \in Tasks : k # t => step'[k] = step[k]
<1>1. N!Idle \in Errand /\ N!Idle.pc = "idle" /\ Decision(N!Idle)
  BY DEF N!Idle, Errand, Places, Targets, N!Ranks, Decision
<1>2. step' = [step EXCEPT ![t] = N!Idle] /\ step \in [Tasks -> Errand]
  BY DEF N!Finish, EnclaveInv, EnclaveTyped
<1>3. /\ step' \in [Tasks -> Errand] /\ step'[t] = N!Idle
      /\ \A k \in Tasks : k # t => step'[k] = step[k]
  BY <1>1, <1>2
<1> QED
  BY <1>1, <1>3 DEF EnclaveInv, Decisions

LEMMA Advances ==
    ASSUME EnclaveInv, NEW t \in Tasks, NEW place \in {"auth", "coyote", "ban", "purge"},
           step[t].pc # "idle",
           \/ step' = [step EXCEPT ![t].pc = place]
           \/ step' = [step EXCEPT ![t].pc = place, ![t].was = role[step[t].user]]
    PROVE  /\ step' \in [Tasks -> Errand] /\ Decisions'
           /\ step'[t].pc = place /\ step'[t].user = step[t].user
           /\ \A k \in Tasks : k # t => step'[k] = step[k]
<1>1. step \in [Tasks -> Errand] /\ step[t] \in Errand /\ step[t].user \in People
      /\ role[step[t].user] \in N!Ranks
  BY DEF EnclaveInv, EnclaveTyped, Decisions, Decision
<1>2. PICK d \in Errand : /\ d.pc = place /\ d.user = step[t].user
                          /\ step' = [step EXCEPT ![t] = d]
  <2>1. CASE step' = [step EXCEPT ![t].pc = place]
    <3> DEFINE d == [step[t] EXCEPT !.pc = place]
    <3>1. d \in Errand /\ d.pc = place /\ d.user = step[t].user /\ step' = [step EXCEPT ![t] = d]
      BY <1>1, <2>1 DEF Errand, Places
    <3> QED
      BY <3>1
  <2>2. CASE step' = [step EXCEPT ![t].pc = place, ![t].was = role[step[t].user]]
    <3> DEFINE d == [step[t] EXCEPT !.pc = place, !.was = role[step[t].user]]
    <3>1. d \in Errand /\ d.pc = place /\ d.user = step[t].user /\ step' = [step EXCEPT ![t] = d]
      BY <1>1, <2>2 DEF Errand, Places
    <3> QED
      BY <3>1
  <2> QED
    BY <2>1, <2>2
<1>3. Decision(d)
  BY <1>1, <1>2 DEF Decision
<1>4. /\ step' \in [Tasks -> Errand] /\ step'[t] = d
      /\ \A k \in Tasks : k # t => step'[k] = step[k]
  BY <1>1, <1>2
<1> QED
  BY <1>2, <1>3, <1>4 DEF EnclaveInv, Decisions

\* Whom a write is about was no newcomer when it was decided.
LEMMA KnownUser ==
    ASSUME EnclaveInv, NEW t \in Tasks, step[t].pc # "idle"
    PROVE  /\ step[t].user \in People /\ account[step[t].user] # "new"
           /\ step[t] \in Errand /\ step[t].was \in N!Ranks
BY DEF EnclaveInv, EnclaveTyped, Decisions, Decision, Newcomers, Errand

LEMMA Joins ==
    ASSUME EnclaveInv, NEW t \in Tasks, N!JoinWrite(t)
    PROVE  EnclaveInv'
<1> DEFINE u == step[t].user
<1>1. /\ u \in People /\ account[u] # "new" /\ exists /\ step[t].pc = "join" /\ ~step[t].barred
  BY KnownUser DEF N!JoinWrite, EnclaveInv, Decisions, Decision
<1>2. /\ step' \in [Tasks -> Errand] /\ Decisions'
      /\ step'[t].pc = "idle" /\ \A k \in Tasks : k # t => step'[k] = step[k]
  BY Finished DEF N!JoinWrite
<1>3. /\ role' = IF N!Member(u) THEN role ELSE [role EXCEPT ![u] = "member"]
      /\ raced' = IF u \in banned /\ ~step[t].barred THEN raced \cup {u} ELSE raced
      /\ haunted' = N!Haunting(u)
      /\ UNCHANGED <<general, exists, account, banned, invited, open, posts, steps, boots,
                     owned, crossed, readmitted, unswept>>
  BY DEF N!JoinWrite
<1> HIDE DEF u
<1>4. /\ role' \in [People -> N!Ranks] /\ role'[u] # "none"
      /\ \A v \in People : v # u => role'[v] = role[v]
      /\ \A v \in People : role'[v] = "owner" <=> role[v] = "owner"
  BY <1>1, <1>3 DEF EnclaveInv, EnclaveTyped, N!Member, N!Ranks
<1>5. EnclaveTyped' /\ Newcomers' /\ NothingAfterwards' /\ OneOwner'
  BY <1>1, <1>2, <1>3, <1>4
     DEF EnclaveInv, EnclaveTyped, Newcomers, NothingAfterwards, OneOwner
<1>6. N!OwnerRemains'
  BY <1>3, <1>4 DEF EnclaveInv, N!OwnerRemains, N!Owners
<1>7. N!BannedStayOut'
  BY <1>1, <1>3, <1>4 DEF EnclaveInv, EnclaveTyped, N!BannedStayOut, N!Member
<1>8. N!PurgeSweeps'
  BY <1>1, <1>2, <1>3 DEF EnclaveInv, N!PurgeSweeps
<1>9. NothingLeft'
  <2>1. \A v \in People : HalfGone(v)' => HalfGone(v)
    BY <1>2, <1>3 DEF HalfGone
  <2>2. HalfGone(u) => u \in haunted'
    BY <1>1, <1>3 DEF HalfGone, N!Haunting, N!Live
  <2>3. haunted \subseteq haunted'
    BY <1>3 DEF N!Haunting
  <2> QED
    BY <1>3, <1>4, <2>1, <2>2, <2>3 DEF EnclaveInv, NothingLeft
<1> QED
  BY <1>2, <1>5, <1>6, <1>7, <1>8, <1>9 DEF EnclaveInv

LEMMA Invites ==
    ASSUME EnclaveInv, NEW t \in Tasks, N!InviteWrite(t)
    PROVE  EnclaveInv'
<1> DEFINE u == step[t].user
<1>1. /\ u \in People /\ account[u] # "new" /\ exists /\ step[t].pc = "invite"
  BY KnownUser DEF N!InviteWrite
<1>2. /\ step' \in [Tasks -> Errand] /\ Decisions'
      /\ step'[t].pc = "idle" /\ \A k \in Tasks : k # t => step'[k] = step[k]
  BY Finished DEF N!InviteWrite
<1>3. /\ invited' = invited \cup {u} /\ haunted' = N!Haunting(u)
      /\ UNCHANGED <<general, exists, account, role, banned, open, posts, steps, boots,
                     owned, crossed, raced, readmitted, unswept>>
  BY DEF N!InviteWrite
<1> HIDE DEF u
<1>5. EnclaveTyped' /\ Newcomers' /\ NothingAfterwards' /\ OneOwner'
  BY <1>1, <1>2, <1>3
     DEF EnclaveInv, EnclaveTyped, Newcomers, NothingAfterwards, OneOwner
<1>6. N!OwnerRemains' /\ N!BannedStayOut'
  BY <1>3 DEF EnclaveInv, N!OwnerRemains, N!Owners, N!BannedStayOut, N!Member
<1>8. N!PurgeSweeps'
  BY <1>1, <1>2, <1>3 DEF EnclaveInv, N!PurgeSweeps
<1>9. NothingLeft'
  <2>1. \A v \in People : HalfGone(v)' => HalfGone(v)
    BY <1>2, <1>3 DEF HalfGone
  <2>2. HalfGone(u) => u \in haunted'
    BY <1>1, <1>3 DEF HalfGone, N!Haunting, N!Live
  <2>3. haunted \subseteq haunted'
    BY <1>3 DEF N!Haunting
  <2> QED
    BY <1>3, <2>1, <2>2, <2>3 DEF EnclaveInv, NothingLeft
<1> QED
  BY <1>2, <1>5, <1>6, <1>8, <1>9 DEF EnclaveInv

(* A removal or a change of role: the owner is hit only where the decision   *)
(* was about another role.                                                   *)
LEMMA RoleWrites ==
    ASSUME EnclaveInv, NEW t \in Tasks, N!RoleWrite(t)
    PROVE  EnclaveInv'
<1> DEFINE u == step[t].user
<1>1. /\ u \in People /\ account[u] # "new" /\ exists /\ step[t].pc \in {"remove", "role"}
      /\ step[t].was # "owner" /\ step[t].to \in {"none", "member", "admin"}
  BY KnownUser DEF N!RoleWrite, EnclaveInv, Decisions, Decision
<1>2. /\ step' \in [Tasks -> Errand] /\ Decisions'
      /\ step'[t].pc = "idle" /\ \A k \in Tasks : k # t => step'[k] = step[k]
  BY Finished DEF N!RoleWrite
<1>3. /\ IF N!Member(u) THEN /\ role' = [role EXCEPT ![u] = step[t].to]
                             /\ crossed' = (crossed \/ role[u] = "owner")
         ELSE UNCHANGED <<role, crossed>>
      /\ UNCHANGED <<general, exists, account, banned, invited, open, posts, steps, boots,
                     owned, raced, readmitted, unswept, haunted>>
  BY <1>1 DEF N!RoleWrite, N!Give
<1> HIDE DEF u
<1>4. /\ role' \in [People -> N!Ranks] /\ crossed' \in BOOLEAN
      /\ \A v \in People : role'[v] = role[v] \/ (v = u /\ role[v] # "none")
      /\ \A v \in People : role'[v] = "owner" => role[v] = "owner"
      /\ role'[u] # "owner" /\ role[u] = "owner" => crossed'
  BY <1>1, <1>3 DEF EnclaveInv, EnclaveTyped, N!Member, N!Ranks
<1>5. EnclaveTyped' /\ Newcomers' /\ NothingAfterwards' /\ OneOwner'
  BY <1>1, <1>2, <1>3, <1>4
     DEF EnclaveInv, EnclaveTyped, Newcomers, NothingAfterwards, OneOwner
<1>6. N!OwnerRemains'
  BY <1>1, <1>3, <1>4 DEF EnclaveInv, N!OwnerRemains, N!Owners
<1>7. N!BannedStayOut'
  BY <1>1, <1>3, <1>4 DEF EnclaveInv, EnclaveTyped, N!BannedStayOut, N!Member
<1>8. N!PurgeSweeps'
  BY <1>1, <1>2, <1>3 DEF EnclaveInv, N!PurgeSweeps
<1>9. NothingLeft'
  <2>1. \A v \in People : HalfGone(v)' => HalfGone(v)
    BY <1>2, <1>3 DEF HalfGone
  <2> QED
    BY <1>3, <1>4, <2>1 DEF EnclaveInv, NothingLeft
<1> QED
  BY <1>2, <1>5, <1>6, <1>7, <1>8, <1>9 DEF EnclaveInv

LEMMA Transfers ==
    ASSUME EnclaveInv, NEW t \in Tasks, N!TransferWrite(t)
    PROVE  EnclaveInv'
<1> DEFINE u == step[t].user
<1>1. /\ u \in People /\ account[u] # "new" /\ exists /\ step[t].pc = "transfer"
  BY KnownUser DEF N!TransferWrite
<1>2. /\ step' \in [Tasks -> Errand] /\ Decisions'
      /\ step'[t].pc = "idle" /\ \A k \in Tasks : k # t => step'[k] = step[k]
  BY Finished DEF N!TransferWrite
<1>3. /\ role' = IF role[u] # "none" THEN N!Transferred(u) ELSE role
      /\ owned' = (owned \/ role[u] # "none")
      /\ UNCHANGED <<general, exists, account, banned, invited, open, posts, steps, boots,
                     crossed, raced, readmitted, unswept, haunted>>
  BY DEF N!TransferWrite, N!Member
<1> HIDE DEF u
<1>4. /\ role' \in [People -> N!Ranks] /\ owned' \in BOOLEAN
      /\ \A v \in People : role'[v] = "none" <=> role[v] = "none"
      /\ role[u] # "none" => \A v \in People : role'[v] = "owner" <=> v = u
  BY <1>1, <1>3 DEF EnclaveInv, EnclaveTyped, N!Ranks, N!Transferred
<1>5. EnclaveTyped' /\ Newcomers' /\ NothingAfterwards' /\ OneOwner'
  BY <1>1, <1>2, <1>3, <1>4
     DEF EnclaveInv, EnclaveTyped, Newcomers, NothingAfterwards, OneOwner
<1>6. N!OwnerRemains'
  BY <1>1, <1>3, <1>4 DEF EnclaveInv, N!OwnerRemains, N!Owners
<1>7. N!BannedStayOut'
  BY <1>1, <1>3, <1>4 DEF EnclaveInv, EnclaveTyped, N!BannedStayOut, N!Member
<1>8. N!PurgeSweeps'
  BY <1>1, <1>2, <1>3 DEF EnclaveInv, N!PurgeSweeps
<1>9. NothingLeft'
  <2>1. \A v \in People : HalfGone(v)' => HalfGone(v)
    BY <1>2, <1>3 DEF HalfGone
  <2> QED
    BY <1>3, <1>4, <2>1 DEF EnclaveInv, NothingLeft
<1> QED
  BY <1>2, <1>5, <1>6, <1>7, <1>8, <1>9 DEF EnclaveInv

(* The first purge of an account that goes. *)
LEMMA AccountPurges ==
    ASSUME EnclaveInv, NEW t \in Tasks, N!AccountPurge(t)
    PROVE  EnclaveInv'
<1> DEFINE u == step[t].user
           alone == role[u] = "owner" /\ \A v \in People \ {u} : ~N!Member(v)
<1>1. /\ u \in People /\ account[u] # "new" /\ step[t].pc = "account" /\ step[t].was \in N!Ranks
      /\ step[t].was = "owner" => step[t].to = "alone"
  BY KnownUser DEF N!AccountPurge, EnclaveInv, Decisions, Decision
<1>2. /\ step' \in [Tasks -> Errand] /\ Decisions'
      /\ step'[t].pc = "auth" /\ step'[t].user = u
      /\ \A k \in Tasks : k # t => step'[k] = step[k]
  BY <1>1, Advances DEF N!AccountPurge
<1>3. /\ exists' = (exists /\ ~alone)
      /\ role' = [role EXCEPT ![u] = "none"]
      /\ crossed' = (crossed \/ (role[u] = "owner" /\ ~alone
                                 /\ (step[t].was # "owner" \/ step[t].to = "alone")))
      /\ invited' = IF alone THEN {} ELSE invited \ {u}
      /\ banned' = IF alone THEN {} ELSE banned \ {u}
      /\ posts' = [v \in People |-> IF alone \/ v = u THEN 0 ELSE posts[v]]
      /\ UNCHANGED <<general, account, open, steps, boots, owned, raced, readmitted, unswept,
                     haunted>>
  BY DEF N!AccountPurge, N!Uninvited
<1>4. /\ role' \in [People -> N!Ranks] /\ role'[u] = "none"
      /\ \A v \in People : v # u => role'[v] = role[v]
      /\ alone => \A v \in People : role'[v] = "none"
      /\ exists' \in BOOLEAN /\ crossed' \in BOOLEAN
      /\ exists' => exists /\ ~alone
      /\ role[u] = "owner" /\ ~alone => crossed'
      /\ posts' \in [People -> 0..Burst] /\ posts'[u] = 0
      /\ \A v \in People : posts'[v] = posts[v] \/ posts'[v] = 0
      /\ alone => \A v \in People : posts'[v] = 0
      /\ invited' \subseteq invited \ {u} /\ banned' \subseteq banned \ {u}
      /\ alone => invited' = {} /\ banned' = {}
      /\ crossed => crossed'
      /\ exists' \/ ~exists \/ alone
  <2>1. alone \in BOOLEAN
    OBVIOUS
  <2>2. role \in [People -> N!Ranks] /\ posts \in [People -> 0..Burst]
        /\ exists \in BOOLEAN /\ crossed \in BOOLEAN
    BY DEF EnclaveInv, EnclaveTyped
  <2>3. exists' \in BOOLEAN /\ crossed' \in BOOLEAN /\ (exists' => exists /\ ~alone)
        /\ (exists' \/ ~exists \/ alone) /\ (crossed => crossed')
    BY <1>3, <2>1, <2>2
  <2>4. role[u] = "owner" /\ ~alone => crossed'
    BY <1>1, <1>3
  <2>5. alone => \A v \in People : role'[v] = "none"
    BY <1>1, <1>3, <2>2 DEF N!Member
  <2>6. role' \in [People -> N!Ranks] /\ role'[u] = "none"
        /\ \A v \in People : v # u => role'[v] = role[v]
    BY <1>1, <1>3, <2>2 DEF N!Ranks
  <2>7. /\ posts' \in [People -> 0..Burst] /\ posts'[u] = 0
        /\ \A v \in People : posts'[v] = posts[v] \/ posts'[v] = 0
        /\ alone => \A v \in People : posts'[v] = 0
    <3> HIDE DEF alone, u
    <3>1. 0 \in 0..Burst
      BY EnclaveBounds
    <3> QED
      BY <1>1, <1>3, <2>2, <3>1
  <2> QED
    BY <1>3, <2>3, <2>4, <2>5, <2>6, <2>7
<1> HIDE DEF u, alone
<1>5. EnclaveTyped' /\ OneOwner'
  BY <1>1, <1>2, <1>3, <1>4 DEF EnclaveInv, EnclaveTyped, OneOwner
<1>6. Newcomers'
  BY <1>1, <1>2, <1>3, <1>4 DEF EnclaveInv, Newcomers
<1>7. NothingAfterwards'
  BY <1>1, <1>3, <1>4 DEF EnclaveInv, EnclaveTyped, NothingAfterwards
<1>8. N!OwnerRemains'
  <2> SUFFICES ASSUME exists', owned', ~crossed' PROVE \E v \in People : role'[v] = "owner"
    BY DEF N!OwnerRemains, N!Owners
  <2>1. exists /\ ~alone /\ owned /\ ~crossed
    BY <1>3, <1>4
  <2>2. PICK o \in People : role[o] = "owner"
    BY <2>1 DEF EnclaveInv, N!OwnerRemains, N!Owners
  <2> QED
    BY <1>4, <2>1, <2>2
<1>9. N!BannedStayOut'
  BY <1>1, <1>3, <1>4 DEF EnclaveInv, EnclaveTyped, N!BannedStayOut, N!Member
<1>10. N!PurgeSweeps'
  <2> SUFFICES ASSUME NEW v \in People, v \in banned', posts'[v] > 0
               PROVE  \/ v \in raced \cup unswept
                      \/ \E k \in Tasks : step'[k].pc = "purge" /\ step'[k].user = v
    BY <1>3, <1>4 DEF N!PurgeSweeps, EnclaveInv, EnclaveTyped
  <2>1. v \in banned /\ posts[v] > 0
    BY <1>4
  <2> QED
    BY <1>1, <1>2, <2>1 DEF EnclaveInv, N!PurgeSweeps
<1>11. NothingLeft'
  <2> SUFFICES ASSUME NEW v \in People, HalfGone(v)', v \notin haunted'
               PROVE  role'[v] = "none" /\ v \notin invited' /\ v \notin banned' /\ posts'[v] = 0
    BY DEF NothingLeft
  <2>1. v # u => HalfGone(v)
    BY <1>2, <1>3 DEF HalfGone
  <2> QED
    BY <1>3, <1>4, <2>1 DEF EnclaveInv, NothingLeft
<1> QED
  BY <1>2, <1>5, <1>6, <1>7, <1>8, <1>9, <1>10, <1>11 DEF EnclaveInv

(* The second. *)
LEMMA AccountGoes ==
    ASSUME EnclaveInv, NEW t \in Tasks, N!AccountAuth(t)
    PROVE  EnclaveInv'
<1> DEFINE u == step[t].user
<1>1. u \in People /\ account[u] # "new" /\ step[t].pc = "auth"
  BY KnownUser DEF N!AccountAuth
<1>2. /\ step' \in [Tasks -> Errand] /\ Decisions'
      /\ step'[t].pc = "idle" /\ \A k \in Tasks : k # t => step'[k] = step[k]
  BY Finished DEF N!AccountAuth
<1>3. /\ account' = [account EXCEPT ![u] = "gone"]
      /\ UNCHANGED <<general, exists, role, banned, invited, open, posts, steps, boots,
                     owned, crossed, raced, readmitted, unswept, haunted>>
  BY DEF N!AccountAuth, N!history
<1>4. /\ account' \in [People -> {"new", "live", "gone"}]
      /\ \A v \in People : v # u => account'[v] = account[v]
      /\ account'[u] = "gone"
  BY <1>1, <1>3 DEF EnclaveInv, EnclaveTyped
<1> HIDE DEF u
<1>5. EnclaveTyped' /\ NothingAfterwards' /\ OneOwner'
  BY <1>1, <1>2, <1>3, <1>4 DEF EnclaveInv, EnclaveTyped, NothingAfterwards, OneOwner
<1>6. Newcomers'
  BY <1>1, <1>2, <1>3, <1>4 DEF EnclaveInv, Newcomers
<1>7. N!OwnerRemains' /\ N!BannedStayOut'
  BY <1>3 DEF EnclaveInv, N!OwnerRemains, N!Owners, N!BannedStayOut, N!Member
<1>8. N!PurgeSweeps'
  BY <1>1, <1>2, <1>3 DEF EnclaveInv, N!PurgeSweeps
<1>9. NothingLeft'
  <2> DEFINE half == HalfGone(u)
  <2>1. HalfGone(step[t].user)
    BY <1>1 DEF HalfGone
  <2>2. \A v \in People : HalfGone(v)' => HalfGone(v)
    <3> SUFFICES ASSUME NEW v \in People, HalfGone(v)' PROVE HalfGone(v)
      OBVIOUS
    <3>1. CASE v = u
      BY <2>1, <3>1 DEF u
    <3>2. CASE v # u
      BY <1>2, <1>4, <3>2 DEF HalfGone
    <3> QED
      BY <3>1, <3>2
  <2> QED
    BY <1>3, <2>2 DEF EnclaveInv, NothingLeft
<1> QED
  BY <1>2, <1>5, <1>6, <1>7, <1>8, <1>9 DEF EnclaveInv

LEMMA Posts ==
    ASSUME EnclaveInv, NEW t \in Tasks, N!Post(t)
    PROVE  EnclaveInv'
<1> DEFINE u == step[t].user
<1>1. /\ u \in People /\ account[u] # "new" /\ exists /\ step[t].pc = "post" /\ ~step[t].barred
      /\ posts[u] < Burst
  BY KnownUser DEF N!Post, EnclaveInv, Decisions, Decision
<1>2. /\ step' \in [Tasks -> Errand] /\ Decisions'
      /\ step'[t].pc = "coyote" /\ step'[t].user = u
      /\ \A k \in Tasks : k # t => step'[k] = step[k]
  BY <1>1, Advances DEF N!Post
<1>3. /\ posts' = [posts EXCEPT ![u] = @ + 1]
      /\ raced' = IF u \in banned /\ ~step[t].barred THEN raced \cup {u} ELSE raced
      /\ haunted' = N!Haunting(u)
      /\ UNCHANGED <<general, exists, account, role, banned, invited, open, steps, boots,
                     owned, crossed, readmitted, unswept>>
  BY DEF N!Post
<1>4. /\ posts' \in [People -> 0..Burst] /\ \A v \in People : v # u => posts'[v] = posts[v]
  BY <1>1, <1>3, EnclaveBounds DEF EnclaveInv, EnclaveTyped
<1> HIDE DEF u
<1>5. EnclaveTyped' /\ NothingAfterwards' /\ OneOwner'
  BY <1>1, <1>2, <1>3, <1>4 DEF EnclaveInv, EnclaveTyped, NothingAfterwards, OneOwner
<1>6. Newcomers'
  BY <1>1, <1>2, <1>3 DEF EnclaveInv, Newcomers
<1>7. N!OwnerRemains' /\ N!BannedStayOut'
  BY <1>3 DEF EnclaveInv, N!OwnerRemains, N!Owners, N!BannedStayOut, N!Member
<1>8. N!PurgeSweeps'
  <2> SUFFICES ASSUME NEW v \in People, v \in banned, posts'[v] > 0
               PROVE  \/ v \in raced' \cup unswept
                      \/ \E k \in Tasks : step'[k].pc = "purge" /\ step'[k].user = v
    BY <1>3 DEF N!PurgeSweeps, EnclaveInv, EnclaveTyped
  <2>1. CASE v = u
    BY <1>1, <1>3, <2>1
  <2>2. CASE v # u
    <3>1. v \in raced \cup unswept \/ \E k \in Tasks : step[k].pc = "purge" /\ step[k].user = v
      BY <1>4, <2>2 DEF EnclaveInv, N!PurgeSweeps
    <3> QED
      BY <1>1, <1>2, <1>3, <3>1
  <2> QED
    BY <2>1, <2>2
<1>9. NothingLeft'
  <2>1. \A v \in People : HalfGone(v)' => HalfGone(v)
    BY <1>2, <1>3 DEF HalfGone
  <2>2. HalfGone(u) => u \in haunted'
    BY <1>1, <1>3 DEF HalfGone, N!Haunting, N!Live
  <2>3. haunted \subseteq haunted'
    BY <1>3 DEF N!Haunting
  <2> QED
    BY <1>3, <1>4, <2>1, <2>2, <2>3 DEF EnclaveInv, NothingLeft
<1> QED
  BY <1>2, <1>5, <1>6, <1>7, <1>8, <1>9 DEF EnclaveInv

(* The look at a burst, a purge, and a write that finds the enclave gone:    *)
(* at most messages go.                                                      *)
LEMMA OnlyTasksMove ==
    ASSUME EnclaveInv, NEW t \in Tasks, step[t].pc # "purge" \/ posts'[step[t].user] = 0,
           step' \in [Tasks -> Errand], Decisions',
           step'[t].pc # "idle" => step'[t].pc # "auth" /\ step'[t].user = step[t].user,
           step[t].pc # "idle",
           \A k \in Tasks : k # t => step'[k] = step[k],
           posts' \in [People -> 0..Burst],
           \A v \in People : posts'[v] = posts[v] \/ posts'[v] = 0,
           UNCHANGED <<general, exists, account, role, banned, invited, open, owned, crossed,
                       raced, readmitted, unswept, haunted>>
    PROVE  EnclaveInv'
<1>1. EnclaveTyped' /\ NothingAfterwards' /\ OneOwner'
  BY DEF EnclaveInv, EnclaveTyped, NothingAfterwards, OneOwner
<1>2. Newcomers'
  BY DEF EnclaveInv, Newcomers
<1>3. N!OwnerRemains' /\ N!BannedStayOut'
  BY DEF EnclaveInv, N!OwnerRemains, N!Owners, N!BannedStayOut, N!Member
<1>4. N!PurgeSweeps'
  <2> SUFFICES ASSUME NEW v \in People, v \in banned, posts'[v] > 0
               PROVE  \/ v \in raced \cup unswept
                      \/ \E k \in Tasks : step'[k].pc = "purge" /\ step'[k].user = v
    BY DEF N!PurgeSweeps, EnclaveInv, EnclaveTyped
  <2>1. v \in raced \cup unswept \/ \E k \in Tasks : step[k].pc = "purge" /\ step[k].user = v
    BY DEF EnclaveInv, N!PurgeSweeps
  <2> QED
    BY <2>1
<1>5. NothingLeft'
  <2>1. \A v \in People : HalfGone(v)' => HalfGone(v)
    BY DEF HalfGone
  <2> QED
    BY <2>1 DEF EnclaveInv, NothingLeft
<1> QED
  BY <1>1, <1>2, <1>3, <1>4, <1>5 DEF EnclaveInv

LEMMA SmallSteps ==
    ASSUME EnclaveInv, NEW t \in Tasks
    PROVE  /\ N!CoyoteCheck(t) => EnclaveInv'
           /\ N!Purge(t) => EnclaveInv'
           /\ N!Late(t) => EnclaveInv'
<1>1. ASSUME N!CoyoteCheck(t) PROVE EnclaveInv'
  <2>1. /\ step[t].pc = "coyote"
        /\ UNCHANGED <<general, exists, account, role, banned, invited, open, posts, owned, crossed,
                       raced, readmitted, unswept, haunted>>
    BY <1>1 DEF N!CoyoteCheck, N!tables, N!history
  <2>2. posts' \in [People -> 0..Burst] /\ \A v \in People : posts'[v] = posts[v]
    BY <2>1 DEF EnclaveInv, EnclaveTyped
  <2>3. CASE step' = [step EXCEPT ![t].pc = "ban", ![t].was = role[step[t].user]]
    <3>1. /\ step' \in [Tasks -> Errand] /\ Decisions'
          /\ step'[t].pc = "ban" /\ step'[t].user = step[t].user
          /\ \A k \in Tasks : k # t => step'[k] = step[k]
      BY <2>1, <2>3, Advances
    <3> QED
      BY <2>1, <2>2, <3>1, OnlyTasksMove
  <2>4. CASE N!Finish(t)
    <3>1. /\ step' \in [Tasks -> Errand] /\ Decisions'
          /\ step'[t].pc = "idle" /\ \A k \in Tasks : k # t => step'[k] = step[k]
      BY <2>4, Finished
    <3> QED
      BY <2>1, <2>2, <3>1, OnlyTasksMove
  <2> QED
    BY <1>1, <2>3, <2>4 DEF N!CoyoteCheck
<1>2. ASSUME N!Purge(t) PROVE EnclaveInv'
  <2>1. /\ step[t].pc = "purge" /\ posts' = [posts EXCEPT ![step[t].user] = 0]
        /\ UNCHANGED <<general, exists, account, role, banned, invited, open, owned, crossed,
                       raced, readmitted, unswept, haunted>>
    BY <1>2 DEF N!Purge, N!history
  <2>2. /\ step' \in [Tasks -> Errand] /\ Decisions'
        /\ step'[t].pc = "idle" /\ \A k \in Tasks : k # t => step'[k] = step[k]
    BY <1>2, Finished DEF N!Purge
  <2>3. /\ posts' \in [People -> 0..Burst] /\ posts'[step[t].user] = 0
        /\ \A v \in People : posts'[v] = posts[v] \/ posts'[v] = 0
    BY <2>1, KnownUser, EnclaveBounds DEF EnclaveInv, EnclaveTyped
  <2> QED
    BY <2>1, <2>2, <2>3, OnlyTasksMove
<1>3. ASSUME N!Late(t) PROVE EnclaveInv'
  <2>1. /\ ~exists /\ step[t].pc # "idle"
        /\ UNCHANGED <<general, exists, account, role, banned, invited, open, posts, owned, crossed,
                       raced, readmitted, unswept, haunted>>
    BY <1>3 DEF N!Late, N!tables, N!history
  <2>2. /\ step' \in [Tasks -> Errand] /\ Decisions'
        /\ step'[t].pc = "idle" /\ \A k \in Tasks : k # t => step'[k] = step[k]
    BY <1>3, Finished DEF N!Late
  <2>3. /\ posts' \in [People -> 0..Burst] /\ posts'[step[t].user] = 0
        /\ \A v \in People : posts'[v] = posts[v]
    BY <2>1, KnownUser DEF EnclaveInv, EnclaveTyped, NothingAfterwards
  <2> QED
    BY <2>1, <2>2, <2>3, OnlyTasksMove
<1> QED
  BY <1>1, <1>2, <1>3

LEMMA Bans ==
    ASSUME EnclaveInv, NEW t \in Tasks, N!Ban(t)
    PROVE  EnclaveInv'
<1> DEFINE u == step[t].user
<1>1. u \in People /\ account[u] # "new" /\ exists /\ step[t].pc = "ban"
  BY KnownUser DEF N!Ban
<1>2. /\ step' \in [Tasks -> Errand] /\ Decisions'
      /\ step'[t].pc = "purge" /\ step'[t].user = u
      /\ \A k \in Tasks : k # t => step'[k] = step[k]
  BY <1>1, Advances DEF N!Ban
<1>3. /\ banned' = banned \cup {u} /\ role' = [role EXCEPT ![u] = "none"]
      /\ crossed' = (crossed \/ role[u] = "owner")
      /\ readmitted' = readmitted \ {u} /\ raced' = raced \ {u} /\ unswept' = unswept \ {u}
      /\ haunted' = N!Haunting(u)
      /\ UNCHANGED <<general, exists, account, invited, open, posts, steps, boots, owned>>
  BY DEF N!Ban, N!Expelled
<1> HIDE DEF u
<1>4. /\ role' \in [People -> N!Ranks] /\ role'[u] = "none" /\ crossed' \in BOOLEAN
      /\ \A v \in People : v # u => role'[v] = role[v]
      /\ (crossed => crossed') /\ (role[u] = "owner" => crossed')
  BY <1>1, <1>3 DEF EnclaveInv, EnclaveTyped, N!Ranks
<1>5. EnclaveTyped' /\ NothingAfterwards' /\ OneOwner'
  BY <1>1, <1>2, <1>3, <1>4 DEF EnclaveInv, EnclaveTyped, NothingAfterwards, OneOwner
<1>6. Newcomers'
  BY <1>1, <1>2, <1>3, <1>4 DEF EnclaveInv, Newcomers
<1>7. N!OwnerRemains'
  BY <1>1, <1>3, <1>4 DEF EnclaveInv, N!OwnerRemains, N!Owners
<1>8. N!BannedStayOut'
  BY <1>3, <1>4 DEF EnclaveInv, EnclaveTyped, N!BannedStayOut, N!Member
<1>9. N!PurgeSweeps'
  <2> SUFFICES ASSUME NEW v \in People, v \in banned', posts[v] > 0
               PROVE  \/ v \in raced' \cup unswept'
                      \/ \E k \in Tasks : step'[k].pc = "purge" /\ step'[k].user = v
    BY <1>1, <1>3 DEF N!PurgeSweeps, EnclaveInv, EnclaveTyped
  <2>1. CASE v = u
    BY <1>2, <2>1
  <2>2. CASE v # u
    <3>1. v \in raced \cup unswept \/ \E k \in Tasks : step[k].pc = "purge" /\ step[k].user = v
      BY <1>3, <2>2 DEF EnclaveInv, N!PurgeSweeps
    <3> QED
      BY <1>1, <1>2, <1>3, <2>2, <3>1
  <2> QED
    BY <2>1, <2>2
<1>10. NothingLeft'
  <2>1. \A v \in People : HalfGone(v)' => HalfGone(v)
    BY <1>1, <1>2, <1>3 DEF HalfGone
  <2>2. HalfGone(u) => u \in haunted'
    BY <1>1, <1>3 DEF HalfGone, N!Haunting, N!Live
  <2>3. haunted \subseteq haunted'
    BY <1>3 DEF N!Haunting
  <2> QED
    BY <1>3, <1>4, <2>1, <2>2, <2>3 DEF EnclaveInv, NothingLeft
<1> QED
  BY <1>2, <1>5, <1>6, <1>7, <1>8, <1>9, <1>10 DEF EnclaveInv

(* Steps of one statement. *)
LEMMA Answers ==
    ASSUME EnclaveInv, NEW u \in People
    PROVE  /\ N!Accept(u) => EnclaveInv'
           /\ N!Decline(u) => EnclaveInv'
           /\ N!SignUp(u) => EnclaveInv'
           /\ \A m \in People : N!Unban(m, u) => EnclaveInv'
<1>1. ASSUME N!Accept(u) PROVE EnclaveInv'
  <2>1. /\ exists /\ u \in invited /\ account[u] # "new"
        /\ role' = IF N!Member(u) THEN role ELSE [role EXCEPT ![u] = "member"]
        /\ invited' = invited \ {u}
        /\ readmitted' = IF u \in banned THEN readmitted \cup {u} ELSE readmitted
        /\ UNCHANGED <<general, exists, account, banned, open, posts, step, steps, boots, owned,
                       crossed, raced, unswept, haunted>>
    BY <1>1 DEF N!Accept, EnclaveInv, Newcomers
  <2>2. /\ role' \in [People -> N!Ranks] /\ role'[u] # "none"
        /\ \A v \in People : v # u => role'[v] = role[v]
        /\ \A v \in People : role'[v] = "owner" <=> role[v] = "owner"
    BY <2>1 DEF EnclaveInv, EnclaveTyped, N!Member, N!Ranks
  <2>3. EnclaveTyped' /\ Decisions' /\ Newcomers' /\ NothingAfterwards' /\ OneOwner'
    BY <2>1, <2>2
       DEF EnclaveInv, EnclaveTyped, Decisions, Newcomers, NothingAfterwards, OneOwner
  <2>4. N!OwnerRemains'
    BY <2>1, <2>2 DEF EnclaveInv, N!OwnerRemains, N!Owners
  <2>5. N!BannedStayOut'
    BY <2>1, <2>2 DEF EnclaveInv, EnclaveTyped, N!BannedStayOut, N!Member
  <2>6. N!PurgeSweeps'
    BY <2>1 DEF EnclaveInv, N!PurgeSweeps
  <2>7. NothingLeft'
    <3>1. \A v \in People : HalfGone(v)' => HalfGone(v)
      BY <2>1 DEF HalfGone
    <3>2. HalfGone(u) => u \in haunted
      BY <2>1 DEF EnclaveInv, NothingLeft
    <3> QED
      BY <2>1, <2>2, <3>1, <3>2 DEF EnclaveInv, NothingLeft
  <2> QED
    BY <2>3, <2>4, <2>5, <2>6, <2>7 DEF EnclaveInv
<1>2. ASSUME N!Decline(u) PROVE EnclaveInv'
  <2>1. /\ exists /\ invited' = invited \ {u}
        /\ UNCHANGED <<general, exists, account, role, banned, open, posts, step, steps, boots, owned,
                       crossed, raced, readmitted, unswept, haunted>>
    BY <1>2 DEF N!Decline, N!history
  <2>2. EnclaveTyped' /\ Decisions' /\ Newcomers' /\ NothingAfterwards' /\ OneOwner'
    BY <2>1 DEF EnclaveInv, EnclaveTyped, Decisions, Newcomers, NothingAfterwards, OneOwner
  <2>3. N!OwnerRemains' /\ N!BannedStayOut' /\ N!PurgeSweeps'
    BY <2>1 DEF EnclaveInv, N!OwnerRemains, N!Owners, N!BannedStayOut, N!Member, N!PurgeSweeps
  <2>4. NothingLeft'
    BY <2>1 DEF EnclaveInv, NothingLeft, HalfGone
  <2> QED
    BY <2>2, <2>3, <2>4 DEF EnclaveInv
<1>3. ASSUME N!SignUp(u) PROVE EnclaveInv'
  <2>1. /\ exists /\ account[u] = "new"
        /\ account' = [account EXCEPT ![u] = "live"]
        /\ role' = [role EXCEPT ![u] = "member"]
        /\ UNCHANGED <<general, exists, banned, invited, open, posts, step, steps, boots, owned,
                       crossed, raced, readmitted, unswept, haunted>>
    BY <1>3 DEF N!SignUp, N!history
  <2>2. /\ role[u] = "none" /\ u \notin banned /\ u \notin invited
        /\ \A t \in Tasks : step[t].pc # "idle" => step[t].user # u
    BY <2>1 DEF EnclaveInv, Newcomers
  <2>3. /\ role' \in [People -> N!Ranks] /\ role'[u] = "member"
        /\ \A v \in People : v # u => role'[v] = role[v]
        /\ \A v \in People : role'[v] = "owner" <=> role[v] = "owner"
        /\ account' \in [People -> {"new", "live", "gone"}] /\ account'[u] = "live"
        /\ \A v \in People : v # u => account'[v] = account[v]
    BY <2>1, <2>2 DEF EnclaveInv, EnclaveTyped, N!Ranks
  <2>4. EnclaveTyped' /\ Decisions' /\ Newcomers' /\ NothingAfterwards' /\ OneOwner'
    BY <2>1, <2>3
       DEF EnclaveInv, EnclaveTyped, Decisions, Newcomers, NothingAfterwards, OneOwner
  <2>5. N!OwnerRemains'
    BY <2>1, <2>3 DEF EnclaveInv, N!OwnerRemains, N!Owners
  <2>6. N!BannedStayOut' /\ N!PurgeSweeps'
    BY <2>1, <2>2, <2>3 DEF EnclaveInv, EnclaveTyped, N!BannedStayOut, N!Member, N!PurgeSweeps
  <2>7. NothingLeft'
    <3>1. ~HalfGone(u)'
      BY <2>1, <2>2, <2>3 DEF HalfGone
    <3>2. \A v \in People : v # u => (HalfGone(v)' => HalfGone(v))
      BY <2>1, <2>3 DEF HalfGone
    <3> QED
      BY <2>1, <2>3, <3>1, <3>2 DEF EnclaveInv, NothingLeft
  <2> QED
    BY <2>4, <2>5, <2>6, <2>7 DEF EnclaveInv
<1>4. ASSUME NEW m \in People, N!Unban(m, u) PROVE EnclaveInv'
  <2>1. /\ exists /\ banned' = banned \ {u}
        /\ UNCHANGED <<general, exists, account, role, invited, open, posts, step, boots, owned,
                       crossed, raced, readmitted, unswept, haunted>>
    BY <1>4 DEF N!Unban, N!Step, N!history
  <2>2. EnclaveTyped' /\ Decisions' /\ Newcomers' /\ NothingAfterwards' /\ OneOwner'
    BY <2>1 DEF EnclaveInv, EnclaveTyped, Decisions, Newcomers, NothingAfterwards, OneOwner
  <2>3. N!OwnerRemains' /\ N!BannedStayOut' /\ N!PurgeSweeps'
    BY <2>1 DEF EnclaveInv, N!OwnerRemains, N!Owners, N!BannedStayOut, N!Member, N!PurgeSweeps
  <2>4. NothingLeft'
    BY <2>1 DEF EnclaveInv, NothingLeft, HalfGone
  <2> QED
    BY <2>2, <2>3, <2>4 DEF EnclaveInv
<1> QED
  BY <1>1, <1>2, <1>3, <1>4

LEMMA Managing ==
    ASSUME EnclaveInv, NEW m \in People
    PROVE  /\ N!DeleteEnclave(m) => EnclaveInv'
           /\ \A on \in BOOLEAN : N!SetOpen(m, on) => EnclaveInv'
<1>1. ASSUME N!DeleteEnclave(m) PROVE EnclaveInv'
  <2>1. /\ exists' = FALSE /\ banned' = {} /\ invited' = {}
        /\ role' = [v \in People |-> "none"] /\ posts' = [v \in People |-> 0]
        /\ UNCHANGED <<general, account, open, step, boots, owned, crossed, raced, readmitted,
                       unswept, haunted>>
    BY <1>1 DEF N!DeleteEnclave, N!history
  <2>2. role' \in [People -> N!Ranks] /\ posts' \in [People -> 0..Burst]
    BY <2>1, EnclaveBounds DEF N!Ranks
  <2>3. EnclaveTyped' /\ Decisions' /\ Newcomers' /\ NothingAfterwards' /\ OneOwner'
    BY <2>1, <2>2 DEF EnclaveInv, EnclaveTyped, Decisions, Newcomers, NothingAfterwards, OneOwner
  <2>4. N!OwnerRemains' /\ N!BannedStayOut' /\ N!PurgeSweeps' /\ NothingLeft'
    BY <2>1 DEF N!OwnerRemains, N!BannedStayOut, N!PurgeSweeps, NothingLeft
  <2> QED
    BY <2>3, <2>4 DEF EnclaveInv
<1>2. ASSUME NEW on \in BOOLEAN, N!SetOpen(m, on) PROVE EnclaveInv'
  <2>1. /\ open' \in BOOLEAN
        /\ UNCHANGED <<general, exists, account, role, banned, invited, posts, step, boots, owned,
                       crossed, raced, readmitted, unswept, haunted>>
    BY <1>2 DEF N!SetOpen, N!Step, N!history
  <2>2. EnclaveTyped' /\ Decisions' /\ Newcomers' /\ NothingAfterwards' /\ OneOwner'
    BY <2>1 DEF EnclaveInv, EnclaveTyped, Decisions, Newcomers, NothingAfterwards, OneOwner
  <2>3. N!OwnerRemains' /\ N!BannedStayOut' /\ N!PurgeSweeps'
    BY <2>1 DEF EnclaveInv, N!OwnerRemains, N!Owners, N!BannedStayOut, N!Member, N!PurgeSweeps
  <2>4. NothingLeft'
    BY <2>1 DEF EnclaveInv, NothingLeft, HalfGone
  <2> QED
    BY <2>2, <2>3, <2>4 DEF EnclaveInv
<1> QED
  BY <1>1, <1>2

(* A start of the server drops the requests, and fills the General enclave.  *)
LEMMA Boots ==
    ASSUME EnclaveInv, N!Boot
    PROVE  EnclaveInv'
<1>1. /\ step' = [t \in Tasks |-> N!Idle]
      /\ unswept' = unswept \cup {step[t].user : t \in {k \in Tasks : step[k].pc = "purge"}}
      /\ UNCHANGED <<general, exists, account, banned, invited, open, posts, steps, crossed, raced,
                     haunted>>
  BY DEF N!Boot
<1>2. N!Idle \in Errand /\ N!Idle.pc = "idle" /\ Decision(N!Idle)
  BY DEF N!Idle, Errand, Places, Targets, N!Ranks, Decision
<1>3. step' \in [Tasks -> Errand] /\ Decisions' /\ \A t \in Tasks : step'[t].pc = "idle"
  BY <1>1, <1>2 DEF Decisions
<1>4. N!PurgeSweeps'
  <2> SUFFICES ASSUME NEW v \in People, v \in banned, posts[v] > 0
               PROVE  v \in raced \cup unswept'
    BY <1>1 DEF N!PurgeSweeps, EnclaveInv, EnclaveTyped
  <2>1. v \in raced \cup unswept \/ \E k \in Tasks : step[k].pc = "purge" /\ step[k].user = v
    BY DEF EnclaveInv, N!PurgeSweeps
  <2> QED
    BY <1>1, <2>1
<1>5. \A v \in People : HalfGone(v)' => HalfGone(v)
  BY <1>1, <1>3 DEF HalfGone
<1>6. CASE UNCHANGED <<role, owned, readmitted>>
  <2>1. EnclaveTyped' /\ Newcomers' /\ NothingAfterwards' /\ OneOwner'
    BY <1>1, <1>3, <1>6 DEF EnclaveInv, EnclaveTyped, Newcomers, NothingAfterwards, OneOwner
  <2>2. N!OwnerRemains' /\ N!BannedStayOut'
    BY <1>1, <1>6 DEF EnclaveInv, N!OwnerRemains, N!Owners, N!BannedStayOut, N!Member
  <2>3. NothingLeft'
    BY <1>1, <1>5, <1>6 DEF EnclaveInv, NothingLeft
  <2> QED
    BY <1>3, <1>4, <2>1, <2>2, <2>3 DEF EnclaveInv
<1>7. ASSUME exists, NEW first \in People, role' = [u \in People |-> N!Backfilled(u, first)],
             owned' = (owned \/ \E u \in People : role'[u] = "owner"),
             readmitted' = readmitted \cup {u \in banned : role'[u] # role[u]}
      PROVE  EnclaveInv'
  <2>1. /\ role' \in [People -> N!Ranks]
        /\ \A v \in People : role[v] # "none" \/ account[v] # "live" => role'[v] = role[v]
        /\ \A v \in People : role'[v] = "owner" =>
              role[v] = "owner" \/ (v = first /\ \A w \in People : role[w] # "owner")
    BY <1>7 DEF EnclaveInv, EnclaveTyped, N!Backfilled, N!Ranks, N!Member, N!Live, N!Owners
  <2>2. owned' \in BOOLEAN /\ (owned' => owned \/ \E u \in People : role'[u] = "owner")
    BY <1>7 DEF EnclaveInv, EnclaveTyped
  <2>3. EnclaveTyped' /\ NothingAfterwards' /\ OneOwner'
    BY <1>1, <1>3, <1>7, <2>1, <2>2 DEF EnclaveInv, EnclaveTyped, NothingAfterwards, OneOwner
  <2>4. Newcomers'
    BY <1>1, <1>3, <2>1 DEF EnclaveInv, Newcomers
  <2>5. N!OwnerRemains'
    BY <1>1, <2>1, <2>2 DEF EnclaveInv, N!OwnerRemains, N!Owners
  <2>6. N!BannedStayOut'
    BY <1>1, <1>7, <2>1 DEF EnclaveInv, EnclaveTyped, N!BannedStayOut, N!Member
  <2>7. NothingLeft'
    <3>1. \A v \in People : HalfGone(v)' => account[v] = "gone"
      BY <1>1, <1>3 DEF HalfGone
    <3> QED
      BY <1>1, <1>5, <2>1, <3>1 DEF EnclaveInv, NothingLeft
  <2> QED
    BY <1>3, <1>4, <2>3, <2>4, <2>5, <2>6, <2>7 DEF EnclaveInv
<1> QED
  BY <1>6, <1>7, EnclaveBounds DEF N!Boot

LEMMA EnclaveStep == EnclaveInv /\ [N!Next]_(N!vars) => EnclaveInv'
<1> SUFFICES ASSUME EnclaveInv, [N!Next]_(N!vars) PROVE EnclaveInv'
  OBVIOUS
<1>1. CASE UNCHANGED N!vars
  BY <1>1 DEF N!vars, N!tables, N!history, EnclaveInv, EnclaveTyped, Decisions, Newcomers,
      NothingAfterwards, OneOwner, N!OwnerRemains, N!Owners, N!BannedStayOut, N!Member,
      N!PurgeSweeps, NothingLeft, HalfGone
<1>2. ASSUME NEW t \in Tasks, NEW u \in People,
             \/ N!JoinCheck(t, u) \/ N!LeaveCheck(t, u) \/ N!AccountCheck(t, u) \/ N!PostGate(t, u)
             \/ \E m \in People :
                   \/ N!InviteCheck(t, m, u) \/ N!KickCheck(t, m, u) \/ N!TransferCheck(t, m, u)
                   \/ \E r \in {"member", "admin"} : N!RoleCheck(t, m, u, r)
      PROVE  EnclaveInv'
  BY <1>2, EnclaveChecks
<1>3. ASSUME NEW t \in Tasks,
             \/ N!JoinWrite(t) \/ N!InviteWrite(t) \/ N!RoleWrite(t) \/ N!TransferWrite(t)
             \/ N!AccountPurge(t) \/ N!AccountAuth(t)
      PROVE  EnclaveInv'
  BY <1>3, Joins, Invites, RoleWrites, Transfers, AccountPurges, AccountGoes
<1>4. ASSUME NEW t \in Tasks,
             N!Post(t) \/ N!CoyoteCheck(t) \/ N!Ban(t) \/ N!Purge(t) \/ N!Late(t)
      PROVE  EnclaveInv'
  BY <1>4, Posts, Bans, SmallSteps
<1>5. ASSUME NEW u \in People,
             N!Accept(u) \/ N!Decline(u) \/ N!SignUp(u) \/ \E m \in People : N!Unban(m, u)
      PROVE  EnclaveInv'
  BY <1>5, Answers
<1>6. ASSUME NEW m \in People, N!DeleteEnclave(m) \/ \E on \in BOOLEAN : N!SetOpen(m, on)
      PROVE  EnclaveInv'
  BY <1>6, Managing
<1>7. CASE N!Boot
  BY <1>7, Boots
<1> QED
  BY <1>1, <1>2, <1>3, <1>4, <1>5, <1>6, <1>7 DEF N!Next

LEMMA EnclaveInvGives ==
    EnclaveInv => /\ N!TypeOK /\ N!OwnerRemains /\ N!BannedStayOut /\ N!PurgeSweeps
                  /\ N!PurgedLeavesNothing
<1> SUFFICES ASSUME EnclaveInv
             PROVE  N!TypeOK /\ N!PurgedLeavesNothing
  BY DEF EnclaveInv
<1>1. N!Cardinality(N!Owners) <= 1
  <2>1. CASE N!Owners = {}
    BY <2>1, CardinalityOfMembers, FS_EmptySet
  <2>2. ASSUME NEW o \in N!Owners PROVE N!Cardinality(N!Owners) <= 1
    <3>1. N!Owners = {o}
      BY <2>2 DEF N!Owners, EnclaveInv, OneOwner
    <3>2. Cardinality({o}) = 1
      BY FS_Singleton
    <3> QED
      BY <3>1, <3>2, CardinalityOfMembers
  <2> QED
    BY <2>1, <2>2
<1>2. \A t \in Tasks : step[t].was \in N!Ranks
  BY DEF EnclaveInv, EnclaveTyped, Errand
<1>3. N!TypeOK
  BY <1>1, <1>2 DEF EnclaveInv, EnclaveTyped, N!TypeOK
<1>4. N!PurgedLeavesNothing
  BY DEF EnclaveInv, NothingLeft, HalfGone, N!PurgedLeavesNothing, N!Member
<1> QED
  BY <1>3, <1>4

(* An enclave, for any number of users, requests and restarts: it has at     *)
(* most one owner and, once it had one, keeps one; a banned member stays out *)
(* and their messages are swept; a deleted account leaves nothing behind:    *)
(* each but for the crossings Enclaves names.                                *)
THEOREM MembershipHolds ==
    N!Spec => [](/\ N!TypeOK /\ N!OwnerRemains /\ N!BannedStayOut /\ N!PurgeSweeps
                 /\ N!PurgedLeavesNothing)
BY EnclaveInit, EnclaveStep, EnclaveInvGives, PTL DEF N!Spec

-------------------------------------------------------------------------------
(* The messages of a channel and its reader: what the handlers carry, what   *)
(* the tables and the page are.                                              *)

Mid == 1..Last
Line == [at : {"none", "there", "purged"}, held : BOOLEAN,
         deleted : {"no", "request", "moderation"}, body : Bodies]
JobPlaces == {"idle", "flip", "enqueue", "write", "render", "send", "mentions", "rows", "unmention",
              "remove", "tombstone", "decide", "upto", "seen"}
JobKinds == {"none", "post", "edit", "delete", "coyote", "sweep", "approve", "reject", "read"}
Job == [pc : JobPlaces, kind : JobKinds, msg : 0..Last, body : Bodies, read : Bodies,
        had : BOOLEAN, upto : 0..Last]

KindsAt(place) ==
    CASE place = "idle" -> {"none"}
      [] place \in {"flip", "enqueue"} -> {"post"}
      [] place = "write" -> {"edit"}
      [] place \in {"render", "send"} -> {"post", "edit", "approve"}
      [] place \in {"mentions", "rows"} -> {"post", "edit"}
      [] place \in {"unmention", "remove"} -> {"delete"}
      [] place = "tombstone" -> {"delete", "coyote", "sweep"}
      [] place = "decide" -> {"reject"}
      [] OTHER -> {"read"}

LEMMA KindsAre ==
    /\ KindsAt("idle") = {"none"}
    /\ KindsAt("flip") = {"post"} /\ KindsAt("enqueue") = {"post"}
    /\ KindsAt("write") = {"edit"}
    /\ KindsAt("render") = {"post", "edit", "approve"} /\ KindsAt("send") = {"post", "edit", "approve"}
    /\ KindsAt("mentions") = {"post", "edit"} /\ KindsAt("rows") = {"post", "edit"}
    /\ KindsAt("unmention") = {"delete"} /\ KindsAt("remove") = {"delete"}
    /\ KindsAt("tombstone") = {"delete", "coyote", "sweep"}
    /\ KindsAt("decide") = {"reject"}
    /\ KindsAt("upto") = {"read"} /\ KindsAt("seen") = {"read"}
BY DEF KindsAt

\* What the place of a handler says about it.
Fitting(d) ==
    /\ d.kind \in KindsAt(d.pc)
    /\ d.msg = 0 <=> d.pc \in {"idle", "upto", "seen"}

JobsTyped == post \in [Tasks -> Job] /\ \A t \in Tasks : Fitting(post[t])

\* A handler is about a message that was there; a row about a message goes
\* with it; nothing purges what is being posted.
LinesTyped ==
    /\ row \in [Mid -> Line]
    /\ review \in [Mid -> {"none", "pending", "approve", "reject"}]
    /\ mention \in [Mid -> {"none", "unread", "read"}]
    /\ \A m \in Mid : row[m].at # "there" => mention[m] = "none" /\ review[m] = "none"
    /\ \A t \in Tasks : post[t].msg # 0 =>
          /\ row[post[t].msg].at # "none"
          /\ post[t].kind = "post" => row[post[t].msg].at = "there"

Looks == Bodies \cup {"absent", "gone"}
Event == [what : {"new", "edit", "deleted"}, msg : Mid, body : Bodies]

PageTyped ==
    /\ conn \in [pc : {"closed", "loading", "open", "marking"}, msg : 0..Last,
                 at : {"none", "list", "read", "sent"}]
    /\ conn.pc = "loading" <=> conn.at # "none"
    /\ tab \in [Mid -> Looks] /\ queue \in Seq(Event) /\ watermark \in 0..Last
    /\ conn.pc \in {"closed", "loading"} => queue = <<>>
    /\ conn.pc = "marking" => /\ conn.msg \in Mid /\ queue # <<>>
                              /\ Head(queue).what = "new" /\ Head(queue).msg = conn.msg

MessagesTyped == JobsTyped /\ LinesTyped /\ PageTyped

LEMMA MessageBounds ==
    /\ Last \in Nat \ {0} /\ MaxRequests \in Nat /\ Bodies # {} /\ Mentioning \subseteq Bodies
    /\ "absent" \notin Bodies /\ "gone" \notin Bodies /\ M!Ids = Mid
BY MessagesAssumption DEF M!MessagesAssumption, M!Ids, Mid

LEMMA BlankRow ==
    \E b \in Bodies :
        /\ M!NoRow = [at |-> "none", held |-> FALSE, deleted |-> "no", body |-> b]
        /\ M!Idle = [pc |-> "idle", kind |-> "none", msg |-> 0, body |-> b, read |-> b,
                     had |-> FALSE, upto |-> 0]
<1>1. (CHOOSE b \in Bodies : TRUE) \in Bodies
  BY MessageBounds
<1> QED
  BY <1>1 DEF M!NoRow, M!Idle

LEMMA BlankJob ==
    /\ M!Idle \in Job /\ Fitting(M!Idle)
    /\ M!Idle.pc = "idle" /\ M!Idle.kind = "none" /\ M!Idle.msg = 0 /\ M!Idle.upto = 0
    /\ M!NoRow \in Line /\ M!NoRow.at = "none" /\ M!NoRow.body \in Bodies
    /\ M!NoRow.deleted = "no" /\ ~M!NoRow.held
<1>1. PICK b \in Bodies :
        /\ M!NoRow = [at |-> "none", held |-> FALSE, deleted |-> "no", body |-> b]
        /\ M!Idle = [pc |-> "idle", kind |-> "none", msg |-> 0, body |-> b, read |-> b,
                     had |-> FALSE, upto |-> 0]
  BY BlankRow
<1>2. 0 \in 0..Last
  BY MessageBounds
<1> QED
  BY <1>1, <1>2 DEF Job, JobPlaces, JobKinds, Fitting, KindsAt, Line

(* The largest of a set of messages, or nothing. *)
LEMMA NewestIsThere ==
    ASSUME NEW S \in SUBSET Mid
    PROVE  M!Newest(S) \in 0..Last /\ M!Newest(S) \in S \cup {0} /\ \A k \in S : k <= M!Newest(S)
<1> DEFINE B == {n \in Nat : \A k \in S : k <= n}
<1>1. B \in SUBSET Nat /\ Last \in B
  BY MessageBounds DEF Mid
<1>2. PICK n \in B : \A k \in B : n <= k
  BY <1>1, LeastNatural
<1>3. n \in S \cup {0}
  <2> SUFFICES ASSUME n \notin S, n # 0 PROVE FALSE
    OBVIOUS
  <2>1. n - 1 \in B
    BY <1>2 DEF Mid
  <2> QED
    BY <1>2, <2>1
<1>4. \E m \in S \cup {0} : \A k \in S : k <= m
  BY <1>2, <1>3
<1> QED
  <2>1. M!Newest(S) \in S \cup {0} /\ \A k \in S : k <= M!Newest(S)
    BY <1>4 DEF M!Newest
  <2>2. S \cup {0} \subseteq 0..Last
    BY MessageBounds DEF Mid
  <2> QED
    BY <2>1, <2>2

LEMMA MessagesTypedInit == M!Init => MessagesTyped
<1> SUFFICES ASSUME M!Init PROVE MessagesTyped
  OBVIOUS
<1>1. JobsTyped
  BY BlankJob DEF M!Init, JobsTyped
<1>2. LinesTyped
  <2>1. /\ row = [m \in Mid |-> M!NoRow] /\ review = [m \in Mid |-> "none"]
        /\ mention = [m \in Mid |-> "none"] /\ post = [t \in Tasks |-> M!Idle]
    BY MessageBounds DEF M!Init
  <2> QED
    BY <2>1, BlankJob DEF LinesTyped
<1>3. PageTyped
  <2>1. /\ tab = [m \in Mid |-> "absent"] /\ queue = <<>> /\ watermark = 0
        /\ conn = [pc |-> "closed", msg |-> 0, at |-> "none"]
    BY MessageBounds DEF M!Init, M!NoConn
  <2>2. 0 \in 0..Last
    BY MessageBounds
  <2> QED
    BY <2>1, <2>2 DEF PageTyped, Looks
<1> QED
  BY <1>1, <1>2, <1>3 DEF MessagesTyped

(* A handler begins, comes to its next statement, or is done. *)
LEMMA Begins ==
    ASSUME JobsTyped, NEW t \in Tasks, NEW place \in JobPlaces \ {"idle", "upto", "seen"},
           NEW kind \in KindsAt(place), NEW m \in Mid, NEW b \in Bodies,
           M!Begin(t, kind, m, place, b)
    PROVE  /\ JobsTyped' /\ post[t].pc = "idle" /\ post[t].msg = 0
           /\ post'[t].pc = place /\ post'[t].kind = kind /\ post'[t].msg = m /\ post'[t].body = b
           /\ post'[t].upto = 0
           /\ \A k \in Tasks : k # t => post'[k] = post[k]
<1> DEFINE d == [M!Idle EXCEPT !.pc = place, !.kind = kind, !.msg = m, !.body = b]
<1>1. kind \in JobKinds
  BY DEF KindsAt, JobKinds, JobPlaces
<1>2. d \in Job /\ d.pc = place /\ d.kind = kind /\ d.msg = m /\ d.body = b /\ d.upto = 0
  <2>1. m \in 0..Last /\ place \in JobPlaces
    BY MessageBounds DEF Mid
  <2>2. PICK r \in Job : r = M!Idle /\ r.upto = 0
    BY BlankJob
  <2>3. d = [r EXCEPT !.pc = place, !.kind = kind, !.msg = m, !.body = b]
    BY <2>2
  <2>4. [r EXCEPT !.pc = place, !.kind = kind, !.msg = m, !.body = b] \in Job
    BY <1>1, <2>1 DEF Job
  <2> QED
    BY <2>1, <2>2, <2>3, <2>4 DEF Job
<1>3. Fitting(d)
  BY <1>2, MessageBounds DEF Fitting, Mid
<1>4. post' = [post EXCEPT ![t] = d] /\ post[t].pc = "idle"
  BY DEF M!Begin
<1> HIDE DEF d
<1>5. /\ post' \in [Tasks -> Job] /\ post'[t] = d
      /\ \A k \in Tasks : k # t => post'[k] = post[k]
  BY <1>2, <1>4 DEF JobsTyped
<1>6. post[t].msg = 0
  BY <1>4 DEF JobsTyped, Fitting
<1> QED
  BY <1>2, <1>3, <1>4, <1>5, <1>6 DEF JobsTyped

LEMMA GoesOn ==
    ASSUME JobsTyped, NEW t \in Tasks, NEW place \in JobPlaces, post[t].kind \in KindsAt(place),
           post[t].msg = 0 <=> place \in {"idle", "upto", "seen"},
           M!Goto(t, place)
    PROVE  /\ JobsTyped' /\ post' = [post EXCEPT ![t].pc = place]
           /\ post'[t] = [post[t] EXCEPT !.pc = place] /\ post[t] \in Job
           /\ \A k \in Tasks : k # t => post'[k] = post[k]
<1>1. post' = [post EXCEPT ![t].pc = place] /\ post \in [Tasks -> Job] /\ post[t] \in Job
  BY DEF M!Goto, JobsTyped
<1>2. post'[t] = [post[t] EXCEPT !.pc = place] /\ \A k \in Tasks : k # t => post'[k] = post[k]
  BY <1>1
<1>3. post'[t] \in Job /\ Fitting(post'[t])
  BY <1>1, <1>2 DEF Job, Fitting
<1> QED
  BY <1>1, <1>2, <1>3 DEF JobsTyped

LEMMA IsDone ==
    ASSUME JobsTyped, NEW t \in Tasks, M!Finish(t)
    PROVE  /\ JobsTyped' /\ post'[t] = M!Idle /\ post'[t].msg = 0 /\ post'[t].pc = "idle"
           /\ \A k \in Tasks : k # t => post'[k] = post[k]
BY BlankJob DEF JobsTyped, M!Finish

LEMMA PageSame == PageTyped /\ UNCHANGED <<conn, tab, queue, watermark>> => PageTyped'
BY DEF PageTyped

(* A word to the page goes to the end of its queue. *)
LEMMA PageTold ==
    ASSUME PageTyped, NEW what \in {"new", "edit", "deleted"}, NEW m \in Mid, NEW b \in Bodies,
           M!Broadcast(what, m, b), UNCHANGED <<conn, tab, watermark>>
    PROVE  PageTyped'
<1> DEFINE e == [what |-> what, msg |-> m, body |-> b]
<1>1. e \in Event /\ queue \in Seq(Event)
  BY DEF Event, PageTyped
<1>2. queue' = IF conn.pc \in {"open", "marking"} THEN Append(queue, e) ELSE queue
  BY DEF M!Broadcast
<1> HIDE DEF e
<1>3. CASE conn.pc \in {"open", "marking"}
  <2>1. queue' \in Seq(Event) /\ queue' # <<>> /\ (queue # <<>> => Head(queue') = Head(queue))
    BY <1>1, <1>2, <1>3
  <2> QED
    BY <1>3, <2>1 DEF PageTyped
<1>4. CASE conn.pc \notin {"open", "marking"}
  BY <1>2, <1>4 DEF PageTyped
<1> QED
  BY <1>3, <1>4

(* A handler at a message stays at it, or leaves it. *)
LEMMA LinesSame ==
    ASSUME MessagesTyped, NEW t \in Tasks,
           post'[t].msg = 0 \/ (post'[t].msg = post[t].msg /\ post'[t].kind = post[t].kind),
           \A k \in Tasks : k # t => post'[k] = post[k],
           row' \in [Mid -> Line],
           review' \in [Mid -> {"none", "pending", "approve", "reject"}],
           mention' \in [Mid -> {"none", "unread", "read"}],
           \A m \in Mid : row'[m].at = row[m].at,
           \A m \in Mid : row[m].at # "there" =>
                             /\ mention'[m] \in {"none", mention[m]}
                             /\ review'[m] \in {"none", review[m]}
    PROVE  LinesTyped'
<1> USE DEF MessagesTyped, LinesTyped
<1>1. \A k \in Tasks : post'[k].msg # 0 => post'[k].msg = post[k].msg /\ post'[k].kind = post[k].kind
  OBVIOUS
<1>2. \A k \in Tasks : post[k].msg # 0 => post[k].msg \in Mid
  BY DEF JobsTyped, Job, Mid
<1> QED
  BY <1>1, <1>2

LEMMA BusyMessage ==
    ASSUME MessagesTyped, NEW t \in Tasks, post[t].pc \notin {"idle", "upto", "seen"}
    PROVE  /\ post[t].msg \in Mid /\ post[t].msg # 0 /\ post[t] \in Job /\ row[post[t].msg] \in Line
           /\ row[post[t].msg].at # "none"
           /\ post[t].kind = "post" => row[post[t].msg].at = "there"
           /\ post[t].kind \in KindsAt(post[t].pc)
BY DEF MessagesTyped, JobsTyped, LinesTyped, Fitting, Job, Mid

LEMMA Onward ==
    ASSUME MessagesTyped, NEW t \in Tasks, NEW place \in JobPlaces \ {"idle", "upto", "seen"},
           post[t].pc \notin {"idle", "upto", "seen"}, post[t].kind \in KindsAt(place),
           M!Goto(t, place)
    PROVE  /\ JobsTyped' /\ post'[t] \in Job /\ post'[t].pc = place
           /\ post'[t] = [post[t] EXCEPT !.pc = place]
           /\ post'[t].msg = post[t].msg /\ post'[t].kind = post[t].kind
           /\ post'[t].body = post[t].body /\ post'[t].read = post[t].read
           /\ post'[t].had = post[t].had
           /\ \A k \in Tasks : k # t => post'[k] = post[k]
<1>1. JobsTyped /\ post[t].msg # 0 /\ place \in JobPlaces
  BY BusyMessage DEF MessagesTyped
<1>2. /\ JobsTyped' /\ post[t] \in Job
      /\ post'[t] = [post[t] EXCEPT !.pc = place]
      /\ \A k \in Tasks : k # t => post'[k] = post[k]
  BY <1>1, GoesOn
<1> QED
  BY <1>2 DEF JobsTyped, Job

(* Each statement that goes on to another is of a handler that may. *)
LEMMA GoesTo ==
    ASSUME MessagesTyped, NEW t \in Tasks, NEW from \in JobPlaces, NEW to \in JobPlaces,
           post[t].pc = from,
           <<from, to>> \in {<<"flip", "enqueue">>, <<"write", "render">>, <<"render", "mentions">>,
                             <<"send", "mentions">>, <<"unmention", "remove">>,
                             <<"remove", "tombstone">>},
           post[t].kind # "approve" \/ to # "mentions",
           M!Goto(t, to)
    PROVE  /\ JobsTyped' /\ post'[t] \in Job /\ post'[t].pc = to
           /\ post'[t] = [post[t] EXCEPT !.pc = to]
           /\ post'[t].msg = post[t].msg /\ post'[t].kind = post[t].kind
           /\ post'[t].body = post[t].body /\ post'[t].read = post[t].read
           /\ post'[t].had = post[t].had
           /\ \A k \in Tasks : k # t => post'[k] = post[k]
<1>1. from \notin {"idle", "upto", "seen"} /\ to \notin {"idle", "upto", "seen"}
  OBVIOUS
<1>2. post[t].kind \in KindsAt(from)
  BY <1>1, BusyMessage
<1>3. post[t].kind \in KindsAt(to)
  <2>1. CASE from = "flip" /\ to = "enqueue"
    BY <1>2, <2>1, KindsAre
  <2>2. CASE from = "write" /\ to = "render"
    BY <1>2, <2>2, KindsAre
  <2>3. CASE from \in {"render", "send"} /\ to = "mentions"
    BY <1>2, <2>3, KindsAre
  <2>4. CASE from = "unmention" /\ to = "remove"
    BY <1>2, <2>4, KindsAre
  <2>5. CASE from = "remove" /\ to = "tombstone"
    BY <1>2, <2>5, KindsAre
  <2> QED
    BY <2>1, <2>2, <2>3, <2>4, <2>5
<1> QED
  BY <1>1, <1>3, Onward

LEMMA SteadyTables ==
    MessagesTyped => /\ row \in [Mid -> Line]
                     /\ review \in [Mid -> {"none", "pending", "approve", "reject"}]
                     /\ mention \in [Mid -> {"none", "unread", "read"}]
BY DEF MessagesTyped, LinesTyped

(* The statements of a handler. *)
LEMMA StatementsAreTyped ==
    ASSUME MessagesTyped, NEW t \in Tasks
    PROVE  /\ M!PostFlip(t) => MessagesTyped'
           /\ M!PostEnqueue(t) => MessagesTyped'
           /\ M!EditWrite(t) => MessagesTyped'
           /\ M!Render(t) => MessagesTyped'
           /\ M!Send(t) => MessagesTyped'
           /\ M!Mentions(t) => MessagesTyped'
           /\ M!Rows(t) => MessagesTyped'
<1> USE SteadyTables, BusyMessage
<1>1. ASSUME M!PostFlip(t) PROVE MessagesTyped'
  <2>1. post[t].pc = "flip" /\ M!Goto(t, "enqueue") /\ row' = [row EXCEPT ![post[t].msg].held = TRUE]
        /\ UNCHANGED <<review, mention, watermark, conn, tab, queue>>
    BY <1>1 DEF M!PostFlip, M!readState
  <2>2. JobsTyped' /\ post'[t].msg = post[t].msg /\ post'[t].kind = post[t].kind
        /\ \A k \in Tasks : k # t => post'[k] = post[k]
    BY <2>1, GoesTo DEF JobPlaces
  <2>3. row' \in [Mid -> Line] /\ \A m \in Mid : row'[m].at = row[m].at
    BY <2>1 DEF Line
  <2> QED
    BY <2>1, <2>2, <2>3, LinesSame, PageSame DEF MessagesTyped, Job
<1>2. ASSUME M!PostEnqueue(t) PROVE MessagesTyped'
  <2>1. post[t].pc = "enqueue" /\ M!Finish(t) /\ review' = [review EXCEPT ![post[t].msg] = "pending"]
        /\ UNCHANGED <<row, mention, watermark, conn, tab, queue>>
    BY <1>2 DEF M!PostEnqueue, M!readState
  <2>2. row[post[t].msg].at = "there"
    BY <2>1, KindsAre
  <2> QED
    BY <2>1, <2>2, IsDone, LinesSame, PageSame DEF MessagesTyped
<1>3. ASSUME M!EditWrite(t) PROVE MessagesTyped'
  <2>1. post[t].pc = "write" /\ UNCHANGED <<review, mention, watermark, conn, tab, queue>>
    BY <1>3 DEF M!EditWrite, M!readState
  <2>2. CASE row[post[t].msg].at = "purged"
    BY <1>3, <2>1, <2>2, IsDone, LinesSame, PageSame DEF MessagesTyped, M!EditWrite
  <2>3. CASE row[post[t].msg].at # "purged"
    <3>1. M!Goto(t, "render") /\ row' = [row EXCEPT ![post[t].msg].body = post[t].body]
      BY <1>3, <2>3 DEF M!EditWrite
    <3>2. JobsTyped' /\ post'[t].msg = post[t].msg /\ post'[t].kind = post[t].kind
          /\ \A k \in Tasks : k # t => post'[k] = post[k]
      BY <2>1, <3>1, GoesTo DEF JobPlaces
    <3>3. row' \in [Mid -> Line] /\ \A m \in Mid : row'[m].at = row[m].at
      BY <2>1, <3>1 DEF Line, Job
    <3> QED
      BY <2>1, <3>2, <3>3, LinesSame, PageSame DEF MessagesTyped, Job
  <2> QED
    BY <2>2, <2>3
<1>4. ASSUME M!Render(t) PROVE MessagesTyped'
  <2>1. post[t].pc = "render" /\ UNCHANGED <<row, review, mention, watermark, conn, tab, queue>>
    BY <1>4 DEF M!Render, M!readState
  <2>2. CASE post' = [post EXCEPT ![t].pc = "send", ![t].read = row[post[t].msg].body]
    <3>1. post'[t] = [post[t] EXCEPT !.pc = "send", !.read = row[post[t].msg].body]
          /\ \A k \in Tasks : k # t => post'[k] = post[k]
      BY <2>2 DEF MessagesTyped, JobsTyped
    <3>2. post'[t] \in Job /\ post'[t].msg = post[t].msg /\ post'[t].kind = post[t].kind
          /\ post'[t].pc = "send"
      <4>1. post[t] \in Job /\ row[post[t].msg].body \in Bodies /\ "send" \in JobPlaces
        BY <2>1 DEF Line, JobPlaces
      <4> QED
        BY <3>1, <4>1, ZenonT(60) DEF Job
    <3>4. Fitting(post'[t])
      BY <2>1, <3>2, KindsAre DEF Fitting
    <3>3. JobsTyped'
      BY <2>2, <3>1, <3>2, <3>4 DEF MessagesTyped, JobsTyped
    <3> QED
      BY <2>1, <3>1, <3>2, <3>3, LinesSame, PageSame DEF MessagesTyped
  <2>3. CASE post[t].kind = "edit" /\ M!Goto(t, "mentions")
    <3>1. JobsTyped' /\ post'[t].msg = post[t].msg /\ post'[t].kind = post[t].kind
          /\ \A k \in Tasks : k # t => post'[k] = post[k]
      BY <2>1, <2>3, GoesTo DEF JobPlaces
    <3> QED
      BY <2>1, <3>1, LinesSame, PageSame DEF MessagesTyped, Job
  <2>4. CASE M!Finish(t)
    BY <2>1, <2>4, IsDone, LinesSame, PageSame DEF MessagesTyped
  <2> QED
    BY <1>4, <2>2, <2>3, <2>4 DEF M!Render
<1>5. ASSUME M!Send(t) PROVE MessagesTyped'
  <2>1. /\ post[t].pc = "send" /\ UNCHANGED <<row, review, mention, watermark, conn, tab>>
        /\ M!Broadcast(IF post[t].kind = "edit" THEN "edit" ELSE "new", post[t].msg, post[t].read)
    BY <1>5 DEF M!Send, M!readState
  <2>2. PageTyped'
    BY <2>1, PageTold DEF MessagesTyped, Job
  <2>3. CASE post[t].kind = "approve" /\ M!Finish(t)
    BY <2>1, <2>2, <2>3, IsDone, LinesSame DEF MessagesTyped
  <2>4. CASE post[t].kind # "approve" /\ M!Goto(t, "mentions")
    <3>1. JobsTyped' /\ post'[t].msg = post[t].msg /\ post'[t].kind = post[t].kind
          /\ \A k \in Tasks : k # t => post'[k] = post[k]
      BY <2>1, <2>4, GoesTo DEF JobPlaces
    <3> QED
      BY <2>1, <2>2, <3>1, LinesSame DEF MessagesTyped, Job
  <2> QED
    BY <1>5, <2>3, <2>4 DEF M!Send
<1>6. ASSUME M!Mentions(t) PROVE MessagesTyped'
  <2>1. post[t].pc = "mentions" /\ UNCHANGED <<row, review, mention, watermark, conn, tab, queue>>
    BY <1>6 DEF M!Mentions, M!readState
  <2>2. CASE M!Finish(t)
    BY <2>1, <2>2, IsDone, LinesSame, PageSame DEF MessagesTyped
  <2>3. CASE post' = [post EXCEPT ![t].pc = "rows", ![t].had = mention[post[t].msg] # "none"]
    <3>1. post'[t] = [post[t] EXCEPT !.pc = "rows", !.had = mention[post[t].msg] # "none"]
          /\ \A k \in Tasks : k # t => post'[k] = post[k]
      BY <2>3 DEF MessagesTyped, JobsTyped
    <3>2. post'[t] \in Job /\ post'[t].msg = post[t].msg /\ post'[t].kind = post[t].kind
          /\ post'[t].pc = "rows"
      <4>1. post[t] \in Job /\ (mention[post[t].msg] # "none") \in BOOLEAN /\ "rows" \in JobPlaces
        BY <2>1 DEF JobPlaces
      <4> QED
        BY <3>1, <4>1, ZenonT(60) DEF Job
    <3>4. Fitting(post'[t])
      BY <2>1, <3>2, KindsAre DEF Fitting
    <3>3. JobsTyped'
      BY <2>3, <3>1, <3>2, <3>4 DEF MessagesTyped, JobsTyped
    <3> QED
      BY <2>1, <3>1, <3>2, <3>3, LinesSame, PageSame DEF MessagesTyped
  <2> QED
    BY <1>6, <2>2, <2>3 DEF M!Mentions
<1>7. ASSUME M!Rows(t) PROVE MessagesTyped'
  <2> DEFINE m == post[t].msg
             new == IF row[m].at = "purged" THEN "none" ELSE M!Reconciled(t, mention[m])
  <2>1. /\ post[t].pc = "rows" /\ M!Finish(t) /\ mention' = [mention EXCEPT ![m] = new]
        /\ UNCHANGED <<row, review, watermark, conn, tab, queue>>
    BY <1>7 DEF M!Rows, M!readState
  <2>2. new \in {"none", "unread", "read"} /\ (row[m].at # "there" => new = "none")
    BY <2>1 DEF M!Reconciled, Line
  <2> QED
    BY <2>1, <2>2, IsDone, LinesSame, PageSame DEF MessagesTyped
<1> QED
  BY <1>1, <1>2, <1>3, <1>4, <1>5, <1>6, <1>7

LEMMA DeletionsAreTyped ==
    ASSUME MessagesTyped, NEW t \in Tasks
    PROVE  /\ M!DeleteMentions(t) => MessagesTyped'
           /\ M!DeleteRow(t) => MessagesTyped'
           /\ M!DeleteSend(t) => MessagesTyped'
           /\ M!RejectDecide(t) => MessagesTyped'
<1> USE SteadyTables, BusyMessage
<1>1. ASSUME M!DeleteMentions(t) PROVE MessagesTyped'
  <2>1. post[t].pc = "unmention" /\ M!Goto(t, "remove") /\ mention' = [mention EXCEPT ![post[t].msg] = "none"]
        /\ UNCHANGED <<row, review, watermark, conn, tab, queue>>
    BY <1>1 DEF M!DeleteMentions, M!readState
  <2>2. JobsTyped' /\ post'[t].msg = post[t].msg /\ post'[t].kind = post[t].kind
        /\ \A k \in Tasks : k # t => post'[k] = post[k]
    BY <2>1, GoesTo DEF JobPlaces
  <2> QED
    BY <2>1, <2>2, LinesSame, PageSame DEF MessagesTyped, Job
<1>2. ASSUME M!DeleteRow(t) PROVE MessagesTyped'
  <2>1. post[t].pc = "remove" /\ M!Goto(t, "tombstone") /\ row' = M!Removed(post[t].msg, "request")
        /\ UNCHANGED <<review, mention, watermark, conn, tab, queue>>
    BY <1>2 DEF M!DeleteRow, M!readState
  <2>2. JobsTyped' /\ post'[t].msg = post[t].msg /\ post'[t].kind = post[t].kind
        /\ \A k \in Tasks : k # t => post'[k] = post[k]
    BY <2>1, GoesTo DEF JobPlaces
  <2>3. row' \in [Mid -> Line] /\ \A m \in Mid : row'[m].at = row[m].at
    BY <2>1 DEF Line, M!Removed
  <2> QED
    BY <2>1, <2>2, <2>3, LinesSame, PageSame DEF MessagesTyped, Job
<1>3. ASSUME M!DeleteSend(t) PROVE MessagesTyped'
  <2>1. post[t].pc = "tombstone" /\ M!Finish(t) /\ M!Broadcast("deleted", post[t].msg, M!NoRow.body)
        /\ UNCHANGED <<row, review, mention, watermark, conn, tab>>
    BY <1>3 DEF M!DeleteSend, M!readState
  <2>2. PageTyped'
    BY <2>1, BlankJob, PageTold DEF MessagesTyped
  <2> QED
    BY <2>1, <2>2, IsDone, LinesSame DEF MessagesTyped
<1>4. ASSUME M!RejectDecide(t) PROVE MessagesTyped'
  <2>1. /\ post[t].pc = "decide" /\ M!Finish(t)
        /\ review' = IF review[post[t].msg] = "none" THEN review
                     ELSE [review EXCEPT ![post[t].msg] = "reject"]
        /\ UNCHANGED <<row, mention, watermark, conn, tab, queue>>
    BY <1>4 DEF M!RejectDecide, M!readState
  <2>2. review' \in [Mid -> {"none", "pending", "approve", "reject"}]
        /\ \A m \in Mid : row[m].at # "there" => review'[m] = "none"
    BY <2>1 DEF MessagesTyped, LinesTyped
  <2> QED
    BY <2>1, <2>2, IsDone, LinesSame, PageSame DEF MessagesTyped
<1> QED
  BY <1>1, <1>2, <1>3, <1>4

(* A handler that begins at a message. *)
LEMMA LinesBegun ==
    ASSUME MessagesTyped, NEW t \in Tasks, NEW m \in Mid, post'[t].msg = m,
           \A k \in Tasks : k # t => post'[k] = post[k],
           row' \in [Mid -> Line],
           review' \in [Mid -> {"none", "pending", "approve", "reject"}],
           mention' \in [Mid -> {"none", "unread", "read"}],
           \A k \in Mid : k # m => row'[k].at = row[k].at,
           row'[m].at # "none",
           \A k \in Mid : row'[k].at # "there" => mention'[k] = "none" /\ review'[k] = "none",
           post'[t].kind = "post" => row'[m].at = "there",
           row'[m].at = "there" \/ \A k \in Tasks : ~(post[k].kind = "post" /\ post[k].msg = m)
    PROVE  LinesTyped'
<1>1. ASSUME NEW k \in Tasks, post'[k].msg # 0
      PROVE  /\ row'[post'[k].msg].at # "none"
             /\ post'[k].kind = "post" => row'[post'[k].msg].at = "there"
  <2>1. CASE k = t
    BY <2>1
  <2>2. CASE k # t
    <3>1. post'[k] = post[k] /\ post[k].msg \in Mid
      BY <1>1, <2>2 DEF MessagesTyped, JobsTyped, Job, Mid
    <3>2. /\ row[post[k].msg].at # "none"
          /\ post[k].kind = "post" => row[post[k].msg].at = "there"
      BY <1>1, <3>1 DEF MessagesTyped, LinesTyped
    <3> QED
      BY <3>1, <3>2
  <2> QED
    BY <2>1, <2>2
<1> QED
  BY <1>1 DEF LinesTyped

LEMMA RequestsAreTyped ==
    ASSUME MessagesTyped, NEW t \in Tasks, NEW m \in Mid
    PROVE  /\ \A b \in Bodies, hold \in BOOLEAN : M!PostInsert(t, m, b, hold) => MessagesTyped'
           /\ \A b \in Bodies : M!EditCheck(t, m, b) => MessagesTyped'
           /\ M!DeleteCheck(t, m) => MessagesTyped'
           /\ M!CoyotePurge(t, m) => MessagesTyped'
           /\ M!Purge(t, m) => MessagesTyped'
           /\ M!Approve(t, m) => MessagesTyped'
           /\ M!Reject(t, m) => MessagesTyped'
<1>0. /\ JobsTyped /\ PageTyped /\ row \in [Mid -> Line]
      /\ review \in [Mid -> {"none", "pending", "approve", "reject"}]
      /\ mention \in [Mid -> {"none", "unread", "read"}]
      /\ \A k \in Mid : row[k].at # "there" => mention[k] = "none" /\ review[k] = "none"
  BY DEF MessagesTyped, LinesTyped
<1>1. ASSUME NEW b \in Bodies, NEW hold \in BOOLEAN, M!PostInsert(t, m, b, hold) PROVE MessagesTyped'
  <2> DEFINE place == IF hold THEN "flip" ELSE "render"
  <2>1. /\ M!Begin(t, "post", m, place, b) /\ row[m].at = "none"
        /\ row' = [row EXCEPT ![m] = [M!NoRow EXCEPT !.at = "there", !.body = b]]
        /\ UNCHANGED <<review, mention, watermark, conn, tab, queue>>
    BY <1>1 DEF M!PostInsert, M!readState
  <2>2. place \in JobPlaces \ {"idle", "upto", "seen"} /\ "post" \in KindsAt(place)
    BY KindsAre DEF JobPlaces
  <2> HIDE DEF place
  <2>3. JobsTyped' /\ post'[t].msg = m /\ \A k \in Tasks : k # t => post'[k] = post[k]
    BY <1>0, <2>1, <2>2, Begins
  <2>4. PICK r \in Line : r = M!NoRow
    BY BlankJob
  <2>5. row' = [row EXCEPT ![m] = [r EXCEPT !.at = "there", !.body = b]]
    BY <2>1, <2>4
  <2>6. [r EXCEPT !.at = "there", !.body = b] \in Line /\ [r EXCEPT !.at = "there", !.body = b].at = "there"
    BY DEF Line
  <2>7. row' \in [Mid -> Line] /\ row'[m].at = "there" /\ \A k \in Mid : k # m => row'[k] = row[k]
    BY <1>0, <2>5, <2>6
  <2> QED
    BY <1>0, <2>1, <2>3, <2>7, LinesBegun, PageSame DEF MessagesTyped
<1>2. ASSUME NEW b \in Bodies, M!EditCheck(t, m, b) PROVE MessagesTyped'
  <2>1. /\ M!Begin(t, "edit", m, "write", b) /\ row[m].at = "there"
        /\ UNCHANGED <<row, review, mention, watermark, conn, tab, queue>>
    BY <1>2 DEF M!EditCheck, M!readState, M!Visible
  <2>2. "write" \in JobPlaces \ {"idle", "upto", "seen"} /\ "edit" \in KindsAt("write")
    BY KindsAre DEF JobPlaces
  <2>3. JobsTyped' /\ post'[t].msg = m /\ \A k \in Tasks : k # t => post'[k] = post[k]
    BY <1>0, <2>1, <2>2, Begins
  <2> QED
    BY <1>0, <2>1, <2>3, LinesBegun, PageSame DEF MessagesTyped
<1>3. ASSUME M!DeleteCheck(t, m) PROVE MessagesTyped'
  <2>1. /\ M!Begin(t, "delete", m, "unmention", M!NoRow.body) /\ row[m].at = "there"
        /\ UNCHANGED <<row, review, mention, watermark, conn, tab, queue>>
    BY <1>3 DEF M!DeleteCheck, M!readState, M!Visible
  <2>2. "unmention" \in JobPlaces \ {"idle", "upto", "seen"} /\ "delete" \in KindsAt("unmention")
    BY KindsAre DEF JobPlaces
  <2>3. JobsTyped' /\ post'[t].msg = m /\ \A k \in Tasks : k # t => post'[k] = post[k]
    BY <1>0, <2>1, <2>2, Begins, BlankJob
  <2> QED
    BY <1>0, <2>1, <2>3, LinesBegun, PageSame DEF MessagesTyped
<1>4. ASSUME M!CoyotePurge(t, m) PROVE MessagesTyped'
  <2>1. /\ M!Begin(t, "coyote", m, "tombstone", M!NoRow.body) /\ row[m].at = "there"
        /\ row' = M!Removed(m, "moderation")
        /\ UNCHANGED <<review, mention, watermark, conn, tab, queue>>
    BY <1>4 DEF M!CoyotePurge, M!readState
  <2>2. "tombstone" \in JobPlaces \ {"idle", "upto", "seen"} /\ "coyote" \in KindsAt("tombstone")
    BY KindsAre DEF JobPlaces
  <2>3. JobsTyped' /\ post'[t].msg = m /\ \A k \in Tasks : k # t => post'[k] = post[k]
    BY <1>0, <2>1, <2>2, Begins, BlankJob
  <2>4. row' \in [Mid -> Line] /\ \A k \in Mid : row'[k].at = row[k].at
    BY <1>0, <2>1 DEF M!Removed, Line
  <2> QED
    BY <1>0, <2>1, <2>3, <2>4, LinesBegun, PageSame DEF MessagesTyped
<1>5. ASSUME M!Purge(t, m) PROVE MessagesTyped'
  <2>1. /\ M!Begin(t, "sweep", m, "tombstone", M!NoRow.body) /\ row[m].at = "there"
        /\ \A k \in Tasks : ~(post[k].kind = "post" /\ post[k].msg = m)
        /\ row' = [row EXCEPT ![m] = [M!NoRow EXCEPT !.at = "purged"]]
        /\ review' = [review EXCEPT ![m] = "none"] /\ mention' = [mention EXCEPT ![m] = "none"]
        /\ UNCHANGED <<watermark, conn, tab, queue>>
    BY <1>5 DEF M!Purge, M!readState, M!Cascade
  <2>2. "tombstone" \in JobPlaces \ {"idle", "upto", "seen"} /\ "sweep" \in KindsAt("tombstone")
    BY KindsAre DEF JobPlaces
  <2>3. /\ JobsTyped' /\ post'[t].msg = m /\ post'[t].kind = "sweep"
        /\ \A k \in Tasks : k # t => post'[k] = post[k]
    BY <1>0, <2>1, <2>2, Begins, BlankJob
  <2>4. PICK r \in Line : r = M!NoRow
    BY BlankJob
  <2>5. [r EXCEPT !.at = "purged"] \in Line /\ [r EXCEPT !.at = "purged"].at = "purged"
    BY DEF Line
  <2>6. row' \in [Mid -> Line] /\ row'[m].at = "purged" /\ \A k \in Mid : k # m => row'[k] = row[k]
    BY <1>0, <2>1, <2>4, <2>5
  <2>7. /\ review' \in [Mid -> {"none", "pending", "approve", "reject"}]
        /\ mention' \in [Mid -> {"none", "unread", "read"}]
        /\ review'[m] = "none" /\ mention'[m] = "none"
        /\ \A k \in Mid : k # m => review'[k] = review[k] /\ mention'[k] = mention[k]
    BY <1>0, <2>1
  <2>8. \A k \in Mid : row'[k].at # "there" => mention'[k] = "none" /\ review'[k] = "none"
    BY <1>0, <2>6, <2>7
  <2> QED
    BY <2>1, <2>3, <2>6, <2>7, <2>8, <1>0, LinesBegun, PageSame DEF MessagesTyped
<1>6. ASSUME M!Approve(t, m) PROVE MessagesTyped'
  <2>1. /\ M!Begin(t, "approve", m, "render", M!NoRow.body) /\ row[m].at = "there"
        /\ row' = [row EXCEPT ![m].held = FALSE] /\ review' = [review EXCEPT ![m] = "approve"]
        /\ UNCHANGED <<mention, watermark, conn, tab, queue>>
    BY <1>0, <1>6 DEF M!Approve, M!readState
  <2>2. "render" \in JobPlaces \ {"idle", "upto", "seen"} /\ "approve" \in KindsAt("render")
    BY KindsAre DEF JobPlaces
  <2>3. JobsTyped' /\ post'[t].msg = m /\ \A k \in Tasks : k # t => post'[k] = post[k]
    BY <1>0, <2>1, <2>2, Begins, BlankJob
  <2>4. row' \in [Mid -> Line] /\ \A k \in Mid : row'[k].at = row[k].at
    BY <1>0, <2>1, ZenonT(60) DEF Line
  <2>5. /\ review' \in [Mid -> {"none", "pending", "approve", "reject"}]
        /\ \A k \in Mid : k # m => review'[k] = review[k]
    BY <1>0, <2>1
  <2>6. \A k \in Mid : row'[k].at # "there" => mention'[k] = "none" /\ review'[k] = "none"
    BY <1>0, <2>1, <2>4, <2>5
  <2> QED
    BY <1>0, <2>1, <2>3, <2>4, <2>5, <2>6, LinesBegun, PageSame, ZenonT(60) DEF MessagesTyped
<1>7. ASSUME M!Reject(t, m) PROVE MessagesTyped'
  <2>1. /\ M!Begin(t, "reject", m, "decide", M!NoRow.body) /\ row[m].at = "there"
        /\ row' = M!Removed(m, "moderation")
        /\ UNCHANGED <<review, mention, watermark, conn, tab, queue>>
    BY <1>0, <1>7 DEF M!Reject, M!readState
  <2>2. "decide" \in JobPlaces \ {"idle", "upto", "seen"} /\ "reject" \in KindsAt("decide")
    BY KindsAre DEF JobPlaces
  <2>3. JobsTyped' /\ post'[t].msg = m /\ \A k \in Tasks : k # t => post'[k] = post[k]
    BY <1>0, <2>1, <2>2, Begins, BlankJob
  <2>4. row' \in [Mid -> Line] /\ \A k \in Mid : row'[k].at = row[k].at
    BY <1>0, <2>1 DEF M!Removed, Line
  <2> QED
    BY <1>0, <2>1, <2>3, <2>4, LinesBegun, PageSame DEF MessagesTyped
<1> QED
  BY <1>1, <1>2, <1>3, <1>4, <1>5, <1>6, <1>7

(* The sidebar's button. *)
LEMMA ReadingsAreTyped ==
    ASSUME MessagesTyped, NEW t \in Tasks
    PROVE  /\ M!MarkRead(t) => MessagesTyped'
           /\ M!MarkedRead(t) => MessagesTyped' /\ post[t].upto \in 0..Last
           /\ M!MarkedMentions(t) => MessagesTyped'
<1>0. /\ JobsTyped /\ PageTyped /\ row \in [Mid -> Line] /\ post[t] \in Job
      /\ review \in [Mid -> {"none", "pending", "approve", "reject"}]
      /\ mention \in [Mid -> {"none", "unread", "read"}] /\ watermark \in 0..Last
      /\ \A k \in Mid : row[k].at # "there" => mention[k] = "none" /\ review[k] = "none"
  BY DEF MessagesTyped, LinesTyped, JobsTyped, PageTyped
<1>1. ASSUME M!MarkRead(t) PROVE MessagesTyped'
  <2> DEFINE rows == {m \in Mid : row[m].at = "there"}
             d == [M!Idle EXCEPT !.pc = "upto", !.kind = "read", !.upto = M!Newest(rows)]
  <2>1. /\ post[t].pc = "idle" /\ post' = [post EXCEPT ![t] = d]
        /\ UNCHANGED <<row, review, mention, watermark, conn, tab, queue>>
    BY <1>1, MessageBounds DEF M!MarkRead, M!readState
  <2>2. M!Newest(rows) \in 0..Last
    BY NewestIsThere
  <2>3. PICK r \in Job : r = M!Idle /\ r.msg = 0
    BY BlankJob
  <2>4. d \in Job /\ d.pc = "upto" /\ d.kind = "read" /\ d.msg = 0
    <3>1. d = [r EXCEPT !.pc = "upto", !.kind = "read", !.upto = M!Newest(rows)]
      BY <2>3
    <3> HIDE DEF d
    <3> QED
      BY <2>2, <2>3, <3>1, ZenonT(60) DEF Job, JobPlaces, JobKinds
  <2> HIDE DEF d
  <2>5. Fitting(d)
    BY <2>4, KindsAre DEF Fitting
  <2>6. JobsTyped' /\ post'[t].msg = 0 /\ \A k \in Tasks : k # t => post'[k] = post[k]
    BY <1>0, <2>1, <2>4, <2>5 DEF JobsTyped
  <2> QED
    BY <1>0, <2>1, <2>6, LinesSame, PageSame DEF MessagesTyped
<1>2. ASSUME M!MarkedRead(t) PROVE MessagesTyped'
  <2>1. /\ post[t].pc = "upto" /\ M!Goto(t, "seen") /\ watermark' = M!Advanced(post[t].upto)
        /\ UNCHANGED <<row, review, mention, conn, tab, queue>>
    BY <1>2 DEF M!MarkedRead
  <2>2. post[t].msg = 0 /\ post[t].kind \in KindsAt("seen")
    BY <1>0, <2>1, KindsAre DEF JobsTyped, Fitting
  <2>3. /\ JobsTyped' /\ post'[t] = [post[t] EXCEPT !.pc = "seen"]
        /\ \A k \in Tasks : k # t => post'[k] = post[k]
    BY <1>0, <2>1, <2>2, GoesOn DEF JobPlaces
  <2>4. post'[t].msg = 0
    BY <1>0, <2>2, <2>3 DEF Job
  <2>5. watermark' \in 0..Last
    BY <1>0, <2>1 DEF M!Advanced, Job
  <2> QED
    BY <1>0, <2>1, <2>3, <2>4, <2>5, LinesSame DEF MessagesTyped, PageTyped
<1>3. ASSUME M!MarkedMentions(t) PROVE MessagesTyped'
  <2>1. /\ M!Finish(t) /\ mention' = M!MentionsRead(post[t].upto)
        /\ UNCHANGED <<row, review, watermark, conn, tab, queue>>
    BY <1>3 DEF M!MarkedMentions, M!readState
  <2>2. /\ mention' \in [Mid -> {"none", "unread", "read"}]
        /\ \A m \in Mid : mention[m] = "none" => mention'[m] = "none"
    BY <1>0, <2>1, MessageBounds DEF M!MentionsRead
  <2> QED
    BY <1>0, <2>1, <2>2, IsDone, LinesSame, PageSame DEF MessagesTyped
<1>4. post[t].upto \in 0..Last
  BY <1>0 DEF Job
<1> QED
  BY <1>1, <1>2, <1>3, <1>4
(* The page. *)
LEMMA PagesAreTyped ==
    ASSUME MessagesTyped
    PROVE  /\ M!OpenPage => MessagesTyped'
           /\ M!PageRead => MessagesTyped'
           /\ M!PageMentions => MessagesTyped'
           /\ M!PageOpen => MessagesTyped'
           /\ M!ClosePage => MessagesTyped'
           /\ M!DeliverRead => MessagesTyped'
           /\ M!DeliverNew => MessagesTyped'
           /\ M!DeliverChange => MessagesTyped'
           /\ \A m \in Mid : M!MarkUnread(m) => MessagesTyped'
<1>0. /\ JobsTyped /\ LinesTyped /\ PageTyped
      /\ row \in [Mid -> Line] /\ mention \in [Mid -> {"none", "unread", "read"}]
      /\ tab \in [Mid -> Looks] /\ queue \in Seq(Event) /\ watermark \in 0..Last
      /\ conn \in [pc : {"closed", "loading", "open", "marking"}, msg : 0..Last,
                   at : {"none", "list", "read", "sent"}]
      /\ M!NoConn = [pc |-> "closed", msg |-> 0, at |-> "none"] /\ 0 \in 0..Last
  BY MessageBounds DEF MessagesTyped, LinesTyped, PageTyped, M!NoConn
<1>1. UNCHANGED post => JobsTyped'
  BY <1>0 DEF JobsTyped
<1>2. UNCHANGED <<post, row, review, mention>> => LinesTyped'
  BY <1>0 DEF LinesTyped
<1>3. UNCHANGED <<post, row, review>> /\ (\E u \in 0..Last : mention' = M!MentionsRead(u)) => LinesTyped'
  <2> SUFFICES ASSUME UNCHANGED <<post, row, review>>, NEW u \in 0..Last, mention' = M!MentionsRead(u)
               PROVE  LinesTyped'
    OBVIOUS
  <2>1. /\ mention' \in [Mid -> {"none", "unread", "read"}]
        /\ \A m \in Mid : mention[m] = "none" => mention'[m] = "none"
    BY <1>0, MessageBounds DEF M!MentionsRead
  <2> QED
    BY <1>0, <2>1 DEF LinesTyped
<1>4. \A e \in Event : e.msg \in Mid /\ e.msg \in 0..Last /\ e.body \in Bodies
                       /\ e.what \in {"new", "edit", "deleted"}
  BY MessageBounds DEF Event, Mid
<1>5. queue # <<>> => Head(queue) \in Event /\ Tail(queue) \in Seq(Event)
  BY <1>0
<1>6. ASSUME M!OpenPage PROVE MessagesTyped'
  <2>1. M!Newest({m \in M!Ids : M!Listed(m)}) \in 0..Last
    BY NewestIsThere, MessageBounds
  <2>2. tab' \in [Mid -> Looks]
    BY <1>0, <1>6, MessageBounds DEF M!OpenPage, Looks, Line
  <2>3. conn' = [pc |-> "loading", msg |-> M!Newest({m \in M!Ids : M!Listed(m)}), at |-> "list"]
    BY <1>6 DEF M!OpenPage
  <2>4. UNCHANGED <<row, review, mention, watermark, post, queue>> /\ conn.pc = "closed"
    BY <1>6 DEF M!OpenPage
  <2>5. PageTyped'
    BY <1>0, <2>1, <2>2, <2>3, <2>4 DEF PageTyped
  <2> QED
    BY <1>1, <1>2, <2>4, <2>5 DEF MessagesTyped
<1>7. ASSUME M!PageRead PROVE MessagesTyped'
  <2>1. PageTyped'
    BY <1>0, <1>7 DEF M!PageRead, M!Advanced, PageTyped
  <2> QED
    BY <1>1, <1>2, <1>7, <2>1 DEF MessagesTyped, M!PageRead
<1>8. ASSUME M!PageMentions PROVE MessagesTyped'
  <2>1. PageTyped'
    BY <1>0, <1>8 DEF M!PageMentions, PageTyped
  <2> QED
    BY <1>0, <1>1, <1>3, <1>8, <2>1 DEF MessagesTyped, M!PageMentions
<1>9. ASSUME M!PageOpen PROVE MessagesTyped'
  <2>1. conn' = [pc |-> "open", msg |-> 0, at |-> "none"] /\ conn.at = "sent"
        /\ UNCHANGED <<row, review, mention, watermark, post, tab, queue>>
    BY <1>0, <1>9 DEF M!PageOpen
  <2>2. PageTyped'
    BY <1>0, <2>1 DEF PageTyped
  <2> QED
    BY <1>1, <1>2, <2>1, <2>2 DEF MessagesTyped
<1>10. ASSUME M!ClosePage PROVE MessagesTyped'
  <2>1. PageTyped'
    BY <1>0, <1>10, MessageBounds DEF M!ClosePage, PageTyped, Looks
  <2> QED
    BY <1>1, <1>2, <1>10, <2>1 DEF MessagesTyped, M!ClosePage
<1>11. ASSUME M!DeliverRead PROVE MessagesTyped'
  <2>1. PageTyped'
    BY <1>0, <1>4, <1>5, <1>11 DEF M!DeliverRead, PageTyped, M!Advanced
  <2> QED
    BY <1>1, <1>2, <1>11, <2>1 DEF MessagesTyped, M!DeliverRead
<1>12. ASSUME M!DeliverNew PROVE MessagesTyped'
  <2>1. /\ conn' = [pc |-> "open", msg |-> 0, at |-> "none"] /\ conn.pc = "marking"
        /\ tab' = [tab EXCEPT ![conn.msg] = Head(queue).body] /\ queue' = Tail(queue)
        /\ UNCHANGED <<row, review, watermark, post>> /\ mention' = M!MentionsRead(conn.msg)
    BY <1>0, <1>12 DEF M!DeliverNew
  <2>2. queue # <<>> /\ conn.msg \in Mid
    BY <1>0, <2>1 DEF PageTyped
  <2>3. tab' \in [Mid -> Looks] /\ queue' \in Seq(Event)
    BY <1>0, <1>4, <1>5, <2>1, <2>2 DEF Looks
  <2>4. PageTyped'
    BY <1>0, <2>1, <2>3 DEF PageTyped
  <2> QED
    BY <1>0, <1>1, <1>3, <2>1, <2>4 DEF MessagesTyped
<1>13. ASSUME M!DeliverChange PROVE MessagesTyped'
  <2>1. /\ conn.pc = "open" /\ queue # <<>> /\ queue' = Tail(queue)
        /\ tab' = IF tab[Head(queue).msg] = "absent" THEN tab
                  ELSE [tab EXCEPT ![Head(queue).msg] =
                          IF Head(queue).what = "edit" THEN Head(queue).body ELSE "gone"]
        /\ UNCHANGED <<row, review, mention, watermark, post, conn>>
    BY <1>13 DEF M!DeliverChange
  <2>2. tab' \in [Mid -> Looks] /\ queue' \in Seq(Event)
    BY <1>0, <1>4, <1>5, <2>1 DEF Looks
  <2>3. PageTyped'
    BY <1>0, <2>1, <2>2 DEF PageTyped
  <2> QED
    BY <1>1, <1>2, <2>1, <2>3 DEF MessagesTyped
<1>14. ASSUME NEW m \in Mid, M!MarkUnread(m) PROVE MessagesTyped'
  <2>1. PageTyped'
    BY <1>0, <1>14, MessageBounds DEF M!MarkUnread, PageTyped, Mid
  <2> QED
    BY <1>1, <1>2, <1>14, <2>1 DEF MessagesTyped, M!MarkUnread
<1> QED
  BY <1>6, <1>7, <1>8, <1>9, <1>10, <1>11, <1>12, <1>13, <1>14

(* Every step is one of these. *)
LEMMA MessageSteps ==
    ASSUME M!Next
    PROVE  \/ \E t \in Tasks, m \in Mid :
                 \/ \E b \in Bodies, hold \in BOOLEAN : M!PostInsert(t, m, b, hold)
                 \/ \E b \in Bodies : M!EditCheck(t, m, b)
                 \/ M!DeleteCheck(t, m) \/ M!CoyotePurge(t, m) \/ M!Purge(t, m)
                 \/ M!Approve(t, m) \/ M!Reject(t, m)
           \/ \E t \in Tasks :
                 \/ M!PostFlip(t) \/ M!PostEnqueue(t) \/ M!EditWrite(t)
                 \/ M!Render(t) \/ M!Send(t) \/ M!Mentions(t) \/ M!Rows(t)
                 \/ M!DeleteMentions(t) \/ M!DeleteRow(t) \/ M!DeleteSend(t) \/ M!RejectDecide(t)
                 \/ M!MarkRead(t) \/ M!MarkedRead(t) \/ M!MarkedMentions(t)
           \/ M!OpenPage \/ M!PageRead \/ M!PageMentions \/ M!PageOpen \/ M!ClosePage
           \/ M!DeliverRead \/ M!DeliverNew \/ M!DeliverChange
           \/ \E m \in Mid : M!MarkUnread(m)
BY MessageBounds DEF M!Next

LEMMA MessagesTypedStep == MessagesTyped /\ [M!Next]_thread => MessagesTyped'
<1> SUFFICES ASSUME MessagesTyped, [M!Next]_thread PROVE MessagesTyped'
  OBVIOUS
<1>1. CASE UNCHANGED thread
  BY <1>1 DEF thread, MessagesTyped, JobsTyped, LinesTyped, PageTyped
<1>2. CASE M!Next
  BY <1>2, MessageSteps, StatementsAreTyped, DeletionsAreTyped, RequestsAreTyped, ReadingsAreTyped,
     PagesAreTyped
<1> QED
  BY <1>1, <1>2

(* Only a request of the reader lowers the watermark. *)
LEMMA OnlyTheReaderLowersIt ==
    MessagesTyped /\ [M!Next]_thread => (watermark' < watermark => \E m \in M!Ids : M!MarkUnread(m))
<1> SUFFICES ASSUME MessagesTyped, [M!Next]_thread, watermark' < watermark
             PROVE  \E m \in M!Ids : M!MarkUnread(m)
  OBVIOUS
<1>0. watermark \in 0..Last /\ conn.msg \in 0..Last /\ \A t \in Tasks : post[t].upto \in 0..Last
  BY DEF MessagesTyped, PageTyped, JobsTyped, Job
<1>1. watermark' # watermark /\ M!Next
  <2>1. watermark' # watermark
    BY <1>0, MessageBounds
  <2> QED
    BY <2>1 DEF thread
<1>2. \A u \in 0..Last : ~(M!Advanced(u) < watermark)
  BY <1>0, MessageBounds DEF M!Advanced
<1>3. \A t \in Tasks : ~M!MarkedRead(t)
  BY <1>0, <1>2 DEF M!MarkedRead
<1>4. ~M!PageRead
  BY <1>0, <1>2 DEF M!PageRead
<1>5. ~M!DeliverRead
  <2> SUFFICES ASSUME M!DeliverRead PROVE FALSE
    OBVIOUS
  <2>1. Head(queue) \in Event /\ watermark' = M!Advanced(Head(queue).msg)
    BY DEF M!DeliverRead, MessagesTyped, PageTyped
  <2>2. Head(queue).msg \in 0..Last
    BY <2>1, MessageBounds DEF Event, Mid
  <2> QED
    BY <1>2, <2>1, <2>2
<1> QED
  BY <1>1, <1>3, <1>4, <1>5, MessageSteps, MessageBounds, ZenonT(60)
     DEF M!PostInsert, M!EditCheck, M!DeleteCheck, M!CoyotePurge, M!Purge, M!Approve, M!Reject,
         M!PostFlip, M!PostEnqueue, M!EditWrite, M!Render, M!Send, M!Mentions, M!Rows,
         M!DeleteMentions, M!DeleteRow, M!DeleteSend, M!RejectDecide, M!MarkRead, M!MarkedMentions,
         M!OpenPage, M!PageMentions, M!PageOpen, M!ClosePage, M!DeliverNew, M!DeliverChange,
         M!readState
(* A mention the watermark has passed is read, or about to be. *)
ReadFollows ==
    \A m \in Mid \ behind : mention[m] = "unread" /\ m <= watermark =>
        \/ \E t \in Tasks : post[t].pc = "seen" /\ m <= post[t].upto
        \/ conn.at = "read" /\ m <= conn.msg
        \/ conn.pc = "marking" /\ m <= conn.msg

LEMMA ReadFollowsInit == M!Init => ReadFollows
BY MessageBounds DEF M!Init, ReadFollows

(* What a step about the messages, not the reader, leaves of it. *)
LEMMA ReadKept ==
    ASSUME MessagesTyped, ReadFollows, NEW t \in Tasks,
           \A k \in Tasks : k # t => post'[k] = post[k],
           post[t].pc # "seen", UNCHANGED <<watermark, conn>>,
           behind \subseteq behind',
           \A m \in Mid \ behind' : mention'[m] = "unread" => mention[m] = "unread" \/ m > watermark
    PROVE  ReadFollows'
<1> SUFFICES ASSUME NEW m \in Mid \ behind', mention'[m] = "unread", m <= watermark
             PROVE  \/ \E k \in Tasks : post'[k].pc = "seen" /\ m <= post'[k].upto
                    \/ conn.at = "read" /\ m <= conn.msg
                    \/ conn.pc = "marking" /\ m <= conn.msg
  BY DEF ReadFollows
<1>1. m \in Mid \ behind /\ mention[m] = "unread"
  BY MessageBounds DEF MessagesTyped, PageTyped, Mid
<1> QED
  BY <1>1 DEF ReadFollows

LEMMA ReadFollowsStep == MessagesTyped /\ ReadFollows /\ [M!Next]_thread => ReadFollows'
<1> SUFFICES ASSUME MessagesTyped, ReadFollows, [M!Next]_thread PROVE ReadFollows'
  OBVIOUS
<1>0. /\ JobsTyped /\ PageTyped /\ mention \in [Mid -> {"none", "unread", "read"}]
      /\ post \in [Tasks -> Job] /\ watermark \in 0..Last
      /\ conn \in [pc : {"closed", "loading", "open", "marking"}, msg : 0..Last,
                   at : {"none", "list", "read", "sent"}]
      /\ conn.pc = "loading" <=> conn.at # "none"
      /\ M!NoConn = [pc |-> "closed", msg |-> 0, at |-> "none"]
      /\ Mid \subseteq Nat /\ 0..Last \subseteq Nat
  BY MessageBounds DEF MessagesTyped, JobsTyped, PageTyped, LinesTyped, M!NoConn, Mid
<1>1. \A u : \A m \in Mid : M!MentionsRead(u)[m] = "unread" => mention[m] = "unread" /\ ~(m <= u)
  BY <1>0, MessageBounds DEF M!MentionsRead
<1>2. \A t \in Tasks : \A kind, m, place, b : M!Begin(t, kind, m, place, b) =>
          /\ post[t].pc = "idle" /\ behind' = behind /\ \A k \in Tasks : k # t => post'[k] = post[k]
  BY <1>0 DEF M!Begin
<1>3. \A t \in Tasks : \A place : M!Goto(t, place) => \A k \in Tasks : k # t => post'[k] = post[k]
  BY <1>0 DEF M!Goto
<1>4. \A t \in Tasks : M!Finish(t) => \A k \in Tasks : k # t => post'[k] = post[k]
  BY <1>0 DEF M!Finish
<1>5. ASSUME NEW t \in Tasks, NEW m \in Mid,
             \/ \E b \in Bodies, hold \in BOOLEAN : M!PostInsert(t, m, b, hold)
             \/ \E b \in Bodies : M!EditCheck(t, m, b)
             \/ M!DeleteCheck(t, m) \/ M!CoyotePurge(t, m) \/ M!Purge(t, m)
             \/ M!Approve(t, m) \/ M!Reject(t, m)
      PROVE  ReadFollows'
  <2>1. \E kind, place, b : M!Begin(t, kind, m, place, b)
    BY <1>5 DEF M!PostInsert, M!EditCheck, M!DeleteCheck, M!CoyotePurge, M!Purge, M!Approve, M!Reject
  <2>2. UNCHANGED <<watermark, conn>> /\ \A k \in Mid : mention'[k] = "unread" => mention[k] = "unread"
    BY <1>0, <1>5 DEF M!PostInsert, M!EditCheck, M!DeleteCheck, M!CoyotePurge, M!Purge, M!Approve,
       M!Reject, M!readState, M!Cascade
  <2> QED
    BY <1>2, <2>1, <2>2, ReadKept
<1>6. ASSUME NEW t \in Tasks,
             \/ M!PostFlip(t) \/ M!PostEnqueue(t) \/ M!EditWrite(t) \/ M!Render(t) \/ M!Send(t)
             \/ M!Mentions(t) \/ M!DeleteMentions(t) \/ M!DeleteRow(t) \/ M!DeleteSend(t)
             \/ M!RejectDecide(t)
      PROVE  ReadFollows'
  <2>1. post[t].pc # "seen" /\ \A k \in Tasks : k # t => post'[k] = post[k]
    BY <1>0, <1>3, <1>4, <1>6 DEF M!PostFlip, M!PostEnqueue, M!EditWrite, M!Render, M!Send,
       M!Mentions, M!DeleteMentions, M!DeleteRow, M!DeleteSend, M!RejectDecide
  <2>2. /\ UNCHANGED <<watermark, conn, behind>>
        /\ \A k \in Mid : mention'[k] = "unread" => mention[k] = "unread"
    BY <1>0, <1>6 DEF M!PostFlip, M!PostEnqueue, M!EditWrite, M!Render, M!Send,
       M!Mentions, M!DeleteMentions, M!DeleteRow, M!DeleteSend, M!RejectDecide, M!readState,
       M!history, M!Broadcast
  <2> QED
    BY <2>1, <2>2, ReadKept
<1>7. ASSUME NEW t \in Tasks, M!Rows(t) PROVE ReadFollows'
  <2> DEFINE m == post[t].msg
             new == IF row[m].at = "purged" THEN "none" ELSE M!Reconciled(t, mention[m])
  <2>1. /\ post[t].pc = "rows" /\ M!Finish(t) /\ mention' = [mention EXCEPT ![m] = new]
        /\ behind' = (IF mention[m] = "none" /\ new = "unread" /\ m <= watermark
                      THEN behind \cup {m} ELSE behind)
        /\ UNCHANGED <<watermark, conn>>
    BY <1>7 DEF M!Rows, M!readState
  <2>2. m \in Mid
    BY <2>1, BusyMessage
  <2>3. new = "unread" => mention[m] \in {"none", "unread"}
    BY <1>0, <2>2 DEF M!Reconciled
  <2> HIDE DEF m, new
  <2>4. \A k \in Mid \ behind' : mention'[k] = "unread" => mention[k] = "unread" \/ k > watermark
    BY <1>0, <2>1, <2>2, <2>3
  <2>5. \A k \in Tasks : k # t => post'[k] = post[k]
    BY <1>4, <2>1
  <2>6. behind \subseteq behind' /\ post[t].pc # "seen"
    BY <2>1
  <2> QED
    BY <2>1, <2>4, <2>5, <2>6, ReadKept
<1>8. ASSUME NEW t \in Tasks, M!MarkRead(t) PROVE ReadFollows'
  <2>1. /\ post[t].pc = "idle" /\ \A k \in Tasks : k # t => post'[k] = post[k]
        /\ UNCHANGED <<watermark, conn, behind, mention>>
    BY <1>0, <1>8 DEF M!MarkRead, M!readState, M!history
  <2> QED
    BY <2>1, ReadKept
<1>9. ASSUME NEW t \in Tasks, M!MarkedRead(t) PROVE ReadFollows'
  <2>1. /\ post[t].pc = "upto" /\ watermark' = M!Advanced(post[t].upto)
        /\ UNCHANGED <<conn, mention, behind>> /\ post' = [post EXCEPT ![t].pc = "seen"]
    BY <1>9 DEF M!MarkedRead, M!history, M!Goto
  <2>2. /\ post'[t].pc = "seen" /\ post'[t].upto = post[t].upto
        /\ \A k \in Tasks : k # t => post'[k] = post[k]
        /\ post[t].upto \in Nat
    BY <1>0, <2>1 DEF Job
  <2>3. \A m \in Mid : m <= watermark' => m <= watermark \/ m <= post[t].upto
    BY <2>1 DEF M!Advanced
  <2> QED
    BY <2>1, <2>2, <2>3 DEF ReadFollows
<1>10. ASSUME NEW t \in Tasks, M!MarkedMentions(t) PROVE ReadFollows'
  <2>1. /\ M!Finish(t) /\ mention' = M!MentionsRead(post[t].upto)
        /\ UNCHANGED <<watermark, conn, behind>>
    BY <1>10 DEF M!MarkedMentions, M!readState, M!history
  <2> QED
    BY <1>1, <1>4, <2>1 DEF ReadFollows
<1>11. ASSUME M!OpenPage PROVE ReadFollows'
  <2>1. /\ conn.pc = "closed" /\ conn.at = "none" /\ UNCHANGED <<watermark, mention, behind, post>>
    BY <1>0, <1>11 DEF M!OpenPage
  <2> QED
    BY <2>1 DEF ReadFollows
<1>12. ASSUME M!PageRead PROVE ReadFollows'
  <2>1. /\ conn.at = "list" /\ watermark' = M!Advanced(conn.msg)
        /\ conn' = [conn EXCEPT !.at = "read"] /\ UNCHANGED <<mention, behind, post>>
    BY <1>12 DEF M!PageRead, M!history
  <2>2. conn'.at = "read" /\ conn'.msg = conn.msg /\ conn.pc = "loading"
    BY <1>0, <2>1
  <2>3. \A m \in Mid : m <= watermark' => m <= watermark \/ m <= conn.msg
    BY <2>1 DEF M!Advanced
  <2> QED
    BY <2>1, <2>2, <2>3 DEF ReadFollows
<1>13. ASSUME M!PageMentions PROVE ReadFollows'
  <2>1. /\ conn.at = "read" /\ mention' = M!MentionsRead(conn.msg)
        /\ conn' = [conn EXCEPT !.at = "sent"] /\ UNCHANGED <<watermark, behind, post>>
    BY <1>13 DEF M!PageMentions, M!history
  <2>2. conn.pc = "loading"
    BY <1>0, <2>1
  <2> QED
    BY <1>1, <2>1, <2>2 DEF ReadFollows
<1>14. ASSUME M!PageOpen PROVE ReadFollows'
  <2>1. /\ conn.at = "sent" /\ UNCHANGED <<watermark, behind, post, mention>>
    BY <1>14 DEF M!PageOpen, M!history
  <2>2. conn.pc = "loading"
    BY <1>0, <2>1
  <2> QED
    BY <2>1, <2>2 DEF ReadFollows
<1>15. ASSUME M!ClosePage PROVE ReadFollows'
  <2>1. /\ conn.pc = "open" /\ UNCHANGED <<watermark, behind, post, mention>>
    BY <1>15 DEF M!ClosePage, M!history
  <2>2. conn.at = "none"
    BY <1>0, <2>1
  <2> QED
    BY <2>1, <2>2 DEF ReadFollows
<1>16. ASSUME M!DeliverRead PROVE ReadFollows'
  <2>1. /\ conn.pc = "open" /\ watermark' = M!Advanced(Head(queue).msg)
        /\ conn' = [pc |-> "marking", msg |-> Head(queue).msg, at |-> "none"]
        /\ UNCHANGED <<behind, post, mention>>
    BY <1>16 DEF M!DeliverRead, M!history
  <2>2. conn.at = "none"
    BY <1>0, <2>1
  <2>3. \A m \in Mid : m <= watermark' => m <= watermark \/ m <= Head(queue).msg
    BY <2>1 DEF M!Advanced
  <2> QED
    BY <2>1, <2>2, <2>3 DEF ReadFollows
<1>17. ASSUME M!DeliverNew PROVE ReadFollows'
  <2>1. /\ conn.pc = "marking" /\ mention' = M!MentionsRead(conn.msg)
        /\ UNCHANGED <<watermark, behind, post>>
    BY <1>17 DEF M!DeliverNew, M!history
  <2>2. conn.at = "none"
    BY <1>0, <2>1
  <2> QED
    BY <1>1, <2>1, <2>2 DEF ReadFollows
<1>18. ASSUME M!DeliverChange PROVE ReadFollows'
  BY <1>18 DEF M!DeliverChange, M!history, ReadFollows
<1>19. ASSUME NEW m \in Mid, M!MarkUnread(m) PROVE ReadFollows'
  <2>1. /\ watermark' = m - 1 /\ behind' = behind \cup {k \in Mid : k < m /\ mention[k] = "unread"}
        /\ mention' = mention
    BY <1>19, MessageBounds DEF M!MarkUnread
  <2>2. \A k \in Mid \ behind' : mention'[k] = "unread" => ~(k <= watermark')
    BY <1>0, <2>1
  <2> QED
    BY <2>2 DEF ReadFollows
<1>20. CASE UNCHANGED thread
  BY <1>20 DEF thread, ReadFollows
<1>21. CASE M!Next
  BY <1>5, <1>6, <1>7, <1>8, <1>9, <1>10, <1>11, <1>12, <1>13, <1>14, <1>15, <1>16, <1>17, <1>18,
     <1>19, <1>21, MessageSteps
<1> QED
  BY <1>20, <1>21

LEMMA ReadFollowsGives == MessagesTyped /\ ReadFollows => M!TypeOK /\ M!ReadCoversMentions
<1> SUFFICES ASSUME MessagesTyped, ReadFollows PROVE M!TypeOK /\ M!ReadCoversMentions
  OBVIOUS
<1>1. M!TypeOK
  BY MessageBounds DEF MessagesTyped, JobsTyped, LinesTyped, PageTyped, M!TypeOK, Line, Job
<1>2. M!ReadCoversMentions
  <2>1. Mid \subseteq Nat /\ watermark \in Nat
    BY MessageBounds DEF MessagesTyped, PageTyped, Mid
  <2> QED
    BY <2>1, MessageBounds DEF ReadFollows, M!ReadCoversMentions
<1> QED
  BY <1>1, <1>2
(* One message: while no two handlers are known to have crossed at it, the   *)
(* one at work finds the row as it left it.                                  *)
Uncrossed(m) == m \notin overlapped \/ (conn.pc # "closed" /\ m \notin missed)

RowFits(t, m) ==
    /\ post[t].pc \in {"flip", "write", "send", "mentions", "rows", "unmention", "remove"} => M!Visible(m)
    /\ post[t].pc = "render" /\ post[t].kind # "approve" => M!Visible(m)
    /\ post[t].pc = "enqueue" => row[m].at = "there" /\ row[m].deleted = "no" /\ row[m].held
    /\ post[t].kind = "post" => row[m].body = post[t].body
    /\ post[t].kind = "edit" /\ post[t].pc # "write" => row[m].body = post[t].body
    /\ post[t].pc = "send" => post[t].read = row[m].body
    /\ post[t].pc = "tombstone" => ~M!Visible(m)
    /\ post[t].pc = "decide" => row[m].deleted = "moderation"

Sole(m) == \A t, k \in Tasks : post[t].msg = m /\ post[k].msg = m => t = k

WorkSound(m) ==
    Uncrossed(m) => Sole(m) /\ \A t \in Tasks : post[t].msg = m => RowFits(t, m)

\* What the statements of a handler have in common: they keep to its message.
Moves(t) ==
    /\ post[t].msg \in Mid /\ post'[t].msg \in {0, post[t].msg}
    /\ \A k \in Tasks : k # t => post'[k] = post[k]
    /\ UNCHANGED <<conn, tab, overlapped>> /\ missed \subseteq missed'
    /\ \A n \in Mid : n # post[t].msg =>
          row'[n] = row[n] /\ review'[n] = review[n] /\ mention'[n] = mention[n]
    /\ \/ queue' = queue
       \/ \E e \in Event :
             /\ e.msg = post[t].msg
             /\ queue' = IF conn.pc \in {"open", "marking"} THEN Append(queue, e) ELSE queue
             /\ conn.pc = "loading" => post[t].msg \in missed'

\* And the requests.
Starts(t, m) ==
    /\ post[t].msg = 0 /\ post'[t].msg = m
    /\ \A k \in Tasks : k # t => post'[k] = post[k]
    /\ UNCHANGED <<conn, tab, queue>>
    /\ overlapped \subseteq overlapped' /\ missed \subseteq missed'
    /\ \A n \in Mid : n # m /\ n \in overlapped' => n \in overlapped
    /\ M!Working(m) => m \in overlapped' \cap missed'
    /\ ~M!Working(m) => UNCHANGED overlapped
    /\ \A n \in Mid : n # m =>
          row'[n] = row[n] /\ review'[n] = review[n] /\ mention'[n] = mention[n]

LEMMA MovesAre ==
    ASSUME MessagesTyped, NEW t \in Tasks
    PROVE  /\ M!PostFlip(t) => Moves(t)
           /\ M!PostEnqueue(t) => Moves(t)
           /\ M!EditWrite(t) => Moves(t)
           /\ M!Render(t) => Moves(t)
           /\ M!Send(t) => Moves(t)
           /\ M!Mentions(t) => Moves(t)
           /\ M!Rows(t) => Moves(t)
           /\ M!DeleteMentions(t) => Moves(t)
           /\ M!DeleteRow(t) => Moves(t)
           /\ M!DeleteSend(t) => Moves(t)
           /\ M!RejectDecide(t) => Moves(t)
<1> DEFINE m == post[t].msg
<1>0. /\ post \in [Tasks -> Job] /\ row \in [Mid -> Line] /\ JobsTyped
      /\ review \in [Mid -> {"none", "pending", "approve", "reject"}]
      /\ mention \in [Mid -> {"none", "unread", "read"}]
  BY DEF MessagesTyped, JobsTyped, LinesTyped
<1>1. post[t].pc \notin {"idle", "upto", "seen"} => m \in Mid
  BY BusyMessage
<1>2. \A place : M!Goto(t, place) => post'[t].msg = m /\ \A k \in Tasks : k # t => post'[k] = post[k]
  BY <1>0 DEF M!Goto, Job
<1>3. M!Finish(t) => post'[t].msg = 0 /\ \A k \in Tasks : k # t => post'[k] = post[k]
  BY <1>0, IsDone
<1>4. ASSUME m \in Mid, NEW what \in {"new", "edit", "deleted"}, NEW b \in Bodies, M!Broadcast(what, m, b)
      PROVE  /\ UNCHANGED overlapped /\ missed \subseteq missed'
             /\ \E e \in Event :
                  /\ e.msg = m
                  /\ queue' = IF conn.pc \in {"open", "marking"} THEN Append(queue, e) ELSE queue
                  /\ conn.pc = "loading" => m \in missed'
  <2> DEFINE e == [what |-> what, msg |-> m, body |-> b]
  <2>1. e \in Event /\ e.msg = m
    BY <1>4 DEF Event
  <2>2. /\ queue' = IF conn.pc \in {"open", "marking"} THEN Append(queue, e) ELSE queue
        /\ conn.pc = "loading" => m \in missed'
        /\ UNCHANGED overlapped /\ missed \subseteq missed'
    BY <1>4 DEF M!Broadcast
  <2> QED
    BY <2>1, <2>2
<1>5. ASSUME M!PostFlip(t) PROVE Moves(t)
  BY <1>0, <1>1, <1>2, <1>5 DEF M!PostFlip, M!readState, M!history, Moves
<1>6. ASSUME M!PostEnqueue(t) PROVE Moves(t)
  BY <1>0, <1>1, <1>3, <1>6 DEF M!PostEnqueue, M!readState, M!history, Moves
<1>7. ASSUME M!EditWrite(t) PROVE Moves(t)
  BY <1>0, <1>1, <1>2, <1>3, <1>7 DEF M!EditWrite, M!readState, M!history, Moves
<1>8. ASSUME M!Render(t) PROVE Moves(t)
  <2>1. post'[t].msg \in {0, m} /\ \A k \in Tasks : k # t => post'[k] = post[k]
    BY <1>0, <1>2, <1>3, <1>8 DEF M!Render, Job
  <2> QED
    BY <1>1, <1>8, <2>1 DEF M!Render, M!readState, M!history, Moves
<1>9. ASSUME M!Send(t) PROVE Moves(t)
  <2>1. post'[t].msg \in {0, m} /\ \A k \in Tasks : k # t => post'[k] = post[k]
    BY <1>2, <1>3, <1>9 DEF M!Send
  <2>2. post[t].pc = "send" /\ m \in Mid /\ post[t].read \in Bodies
    BY <1>0, <1>1, <1>9 DEF M!Send, Job
  <2>3. \E what \in {"new", "edit", "deleted"} : M!Broadcast(what, m, post[t].read)
    BY <1>9 DEF M!Send
  <2> QED
    BY <1>4, <1>9, <2>1, <2>2, <2>3 DEF M!Send, M!readState, Moves
<1>10. ASSUME M!Mentions(t) PROVE Moves(t)
  <2>1. post'[t].msg \in {0, m} /\ \A k \in Tasks : k # t => post'[k] = post[k]
    BY <1>0, <1>3, <1>10 DEF M!Mentions, Job
  <2> QED
    BY <1>1, <1>10, <2>1 DEF M!Mentions, M!readState, M!history, Moves
<1>11. ASSUME M!Rows(t) PROVE Moves(t)
  BY <1>0, <1>1, <1>3, <1>11 DEF M!Rows, M!readState, Moves
<1>12. ASSUME M!DeleteMentions(t) PROVE Moves(t)
  BY <1>0, <1>1, <1>2, <1>12 DEF M!DeleteMentions, M!readState, M!history, Moves
<1>13. ASSUME M!DeleteRow(t) PROVE Moves(t)
  BY <1>0, <1>1, <1>2, <1>13 DEF M!DeleteRow, M!Removed, M!readState, M!history, Moves
<1>14. ASSUME M!DeleteSend(t) PROVE Moves(t)
  <2>1. post[t].pc = "tombstone" /\ m \in Mid /\ M!Broadcast("deleted", m, M!NoRow.body)
    BY <1>1, <1>14 DEF M!DeleteSend
  <2> QED
    BY <1>3, <1>4, <1>14, <2>1, BlankJob DEF M!DeleteSend, M!readState, Moves
<1>15. ASSUME M!RejectDecide(t) PROVE Moves(t)
  BY <1>0, <1>1, <1>3, <1>15 DEF M!RejectDecide, M!readState, M!history, Moves
<1> QED
  BY <1>5, <1>6, <1>7, <1>8, <1>9, <1>10, <1>11, <1>12, <1>13, <1>14, <1>15

LEMMA StartsAre ==
    ASSUME MessagesTyped, NEW t \in Tasks, NEW m \in Mid,
           \/ \E b \in Bodies, hold \in BOOLEAN : M!PostInsert(t, m, b, hold)
           \/ \E b \in Bodies : M!EditCheck(t, m, b)
           \/ M!DeleteCheck(t, m) \/ M!CoyotePurge(t, m) \/ M!Purge(t, m)
           \/ M!Approve(t, m) \/ M!Reject(t, m)
    PROVE  Starts(t, m)
<1>0. /\ post \in [Tasks -> Job] /\ row \in [Mid -> Line]
      /\ review \in [Mid -> {"none", "pending", "approve", "reject"}]
      /\ mention \in [Mid -> {"none", "unread", "read"}]
      /\ \A k \in Tasks : post[k].pc = "idle" => post[k].msg = 0
  BY DEF MessagesTyped, JobsTyped, LinesTyped, Fitting
<1>1. \E kind, place, b : M!Begin(t, kind, m, place, b)
  BY DEF M!PostInsert, M!EditCheck, M!DeleteCheck, M!CoyotePurge, M!Purge, M!Approve, M!Reject
<1>2. PICK kind, place, b : M!Begin(t, kind, m, place, b)
  BY <1>1
<1>3. \E blank \in Bodies : M!Idle = [pc |-> "idle", kind |-> "none", msg |-> 0, body |-> blank,
                                      read |-> blank, had |-> FALSE, upto |-> 0]
  BY BlankRow, BlankJob
<1>4. /\ post[t].pc = "idle" /\ post[t].msg = 0 /\ post'[t].msg = m
      /\ \A k \in Tasks : k # t => post'[k] = post[k]
  BY <1>0, <1>2, <1>3 DEF M!Begin
<1>5. /\ overlapped \subseteq overlapped' /\ missed \subseteq missed'
      /\ \A n \in Mid : n # m /\ n \in overlapped' => n \in overlapped
      /\ M!Working(m) => m \in overlapped' \cap missed'
      /\ ~M!Working(m) => UNCHANGED overlapped
  BY <1>2 DEF M!Begin
<1>6. /\ UNCHANGED <<conn, tab, queue>>
      /\ \A n \in Mid : n # m =>
            row'[n] = row[n] /\ review'[n] = review[n] /\ mention'[n] = mention[n]
  BY <1>0 DEF M!PostInsert, M!EditCheck, M!DeleteCheck, M!CoyotePurge, M!Purge, M!Approve, M!Reject,
     M!Removed, M!Cascade, M!readState
<1> QED
  BY <1>4, <1>5, <1>6 DEF Starts
\* What the reader's own steps leave alone.
Aside ==
    /\ \A k \in Tasks : post'[k].msg = post[k].msg /\ (post[k].msg # 0 => post'[k] = post[k])
    /\ UNCHANGED <<row, review, overlapped>>
    /\ \A n \in Mid : mention'[n] = "none" <=> mention[n] = "none"
    /\ M!OpenPage \/ (UNCHANGED missed /\ (conn'.pc # "closed" => conn.pc # "closed"))

LEMMA AsidesAre ==
    ASSUME MessagesTyped,
           \/ \E t \in Tasks : M!MarkRead(t) \/ M!MarkedRead(t) \/ M!MarkedMentions(t)
           \/ M!OpenPage \/ M!PageRead \/ M!PageMentions \/ M!PageOpen \/ M!ClosePage
           \/ M!DeliverRead \/ M!DeliverNew \/ M!DeliverChange
           \/ \E m \in Mid : M!MarkUnread(m)
           \/ UNCHANGED thread
    PROVE  Aside
<1>0. /\ post \in [Tasks -> Job] /\ mention \in [Mid -> {"none", "unread", "read"}] /\ JobsTyped
      /\ conn \in [pc : {"closed", "loading", "open", "marking"}, msg : 0..Last,
                   at : {"none", "list", "read", "sent"}]
      /\ conn.pc = "loading" <=> conn.at # "none"
      /\ M!NoConn = [pc |-> "closed", msg |-> 0, at |-> "none"]
      /\ \A k \in Tasks : post[k].pc \in {"idle", "upto", "seen"} => post[k].msg = 0
  BY DEF MessagesTyped, JobsTyped, LinesTyped, PageTyped, Fitting, M!NoConn
<1>1. \A u : \A n \in Mid : M!MentionsRead(u)[n] = "none" <=> mention[n] = "none"
  BY <1>0, MessageBounds DEF M!MentionsRead
<1>2. ASSUME NEW t \in Tasks, M!MarkRead(t) PROVE Aside
  <2> DEFINE upto == M!Newest({m \in M!Ids : row[m].at = "there"})
             d == [M!Idle EXCEPT !.pc = "upto", !.kind = "read", !.upto = upto]
  <2>1. d.msg = 0
    <3>1. PICK blank \in Bodies :
            M!Idle = [pc |-> "idle", kind |-> "none", msg |-> 0, body |-> blank, read |-> blank,
                      had |-> FALSE, upto |-> 0]
      BY BlankRow, BlankJob
    <3> QED
      BY <3>1
  <2>3. post' = [post EXCEPT ![t] = d] /\ post[t].pc = "idle"
    BY <1>2 DEF M!MarkRead
  <2> HIDE DEF d
  <2>2. \A k \in Tasks : post'[k].msg = post[k].msg /\ (post[k].msg # 0 => post'[k] = post[k])
    BY <1>0, <2>1, <2>3
  <2> QED
    BY <1>2, <2>2 DEF Aside, M!MarkRead, M!readState, M!history
<1>3. ASSUME NEW t \in Tasks, M!MarkedRead(t) PROVE Aside
  <2>1. \A k \in Tasks : post'[k].msg = post[k].msg /\ (post[k].msg # 0 => post'[k] = post[k])
    BY <1>0, <1>3 DEF M!MarkedRead, M!Goto, Job
  <2> QED
    BY <1>3, <2>1 DEF Aside, M!MarkedRead, M!history
<1>4. ASSUME NEW t \in Tasks, M!MarkedMentions(t) PROVE Aside
  <2>1. \A k \in Tasks : post'[k].msg = post[k].msg /\ (post[k].msg # 0 => post'[k] = post[k])
    BY <1>0, <1>4, IsDone DEF M!MarkedMentions
  <2> QED
    BY <1>1, <1>4, <2>1 DEF Aside, M!MarkedMentions, M!history, M!readState
<1>5. ASSUME M!OpenPage PROVE Aside
  BY <1>5 DEF Aside, M!OpenPage
<1>6. ASSUME M!PageRead PROVE Aside
  BY <1>0, <1>6 DEF Aside, M!PageRead, M!history
<1>7. ASSUME M!PageMentions PROVE Aside
  BY <1>0, <1>1, <1>7 DEF Aside, M!PageMentions, M!history
<1>8. ASSUME M!PageOpen PROVE Aside
  BY <1>0, <1>8 DEF Aside, M!PageOpen, M!history
<1>9. ASSUME M!ClosePage PROVE Aside
  BY <1>0, <1>9 DEF Aside, M!ClosePage, M!history
<1>10. ASSUME M!DeliverRead PROVE Aside
  BY <1>10 DEF Aside, M!DeliverRead, M!history
<1>11. ASSUME M!DeliverNew PROVE Aside
  BY <1>1, <1>11 DEF Aside, M!DeliverNew, M!history
<1>12. ASSUME M!DeliverChange PROVE Aside
  BY <1>12 DEF Aside, M!DeliverChange, M!history
<1>13. ASSUME NEW m \in Mid, M!MarkUnread(m) PROVE Aside
  BY <1>13 DEF Aside, M!MarkUnread
<1>14. ASSUME UNCHANGED thread PROVE Aside
  BY <1>14 DEF Aside, thread
<1> QED
  BY <1>2, <1>3, <1>4, <1>5, <1>6, <1>7, <1>8, <1>9, <1>10, <1>11, <1>12, <1>13, <1>14

(* What is settled was settled before, unless nobody was at it. *)
LEMMA SettledBefore ==
    ASSUME MessagesTyped, NEW n \in Mid, Uncrossed(n)'
    PROVE  /\ \A t \in Tasks : Moves(t) => Uncrossed(n)
           /\ \A t \in Tasks, m \in Mid : Starts(t, m) /\ (m # n \/ M!Working(n)) => Uncrossed(n) /\ m # n
           /\ Aside /\ M!Working(n) => Uncrossed(n)
<1>1. \A t \in Tasks : Moves(t) => Uncrossed(n)
  BY DEF Uncrossed, Moves
<1>2. \A t \in Tasks, m \in Mid : Starts(t, m) /\ (m # n \/ M!Working(n)) => Uncrossed(n) /\ m # n
  BY DEF Uncrossed, Starts
<1>3. Aside /\ M!Working(n) => Uncrossed(n)
  <2> SUFFICES ASSUME Aside, M!Working(n) PROVE Uncrossed(n)
    OBVIOUS
  <2>1. CASE M!OpenPage
    BY <2>1, MessageBounds DEF M!OpenPage, Uncrossed, Aside
  <2>2. CASE UNCHANGED missed /\ (conn'.pc # "closed" => conn.pc # "closed")
    BY <2>2 DEF Uncrossed, Aside
  <2> QED
    BY <2>1, <2>2 DEF Aside
<1> QED
  BY <1>1, <1>2, <1>3

LEMMA RowFitsSame ==
    ASSUME NEW t \in Tasks, NEW n \in Mid, post'[t] = post[t], row'[n] = row[n], RowFits(t, n)
    PROVE  RowFits(t, n)'
BY DEF RowFits, M!Visible

LEMMA WorkMoves ==
    ASSUME MessagesTyped, NEW t \in Tasks, Moves(t), NEW n \in Mid, WorkSound(n),
           post[t].msg = n /\ post'[t].msg = n /\ Uncrossed(n) /\ RowFits(t, n) => RowFits(t, n)'
    PROVE  WorkSound(n)'
<1> SUFFICES ASSUME Uncrossed(n)' PROVE Sole(n)' /\ \A k \in Tasks : post'[k].msg = n => RowFits(k, n)'
  BY DEF WorkSound
<1>1. Uncrossed(n) /\ Sole(n) /\ \A k \in Tasks : post[k].msg = n => RowFits(k, n)
  BY SettledBefore DEF WorkSound
<1>2. n # 0
  BY MessageBounds DEF Mid
<1>3. \A k \in Tasks : post'[k].msg = n => post[k].msg = n
  BY <1>2 DEF Moves
<1>4. ASSUME NEW k \in Tasks, post'[k].msg = n PROVE RowFits(k, n)'
  <2>1. CASE k = t
    BY <1>1, <1>3, <1>4, <2>1
  <2>2. CASE k # t
    <3>1. post[t].msg # n
      BY <1>1, <1>3, <1>4, <2>2 DEF Sole
    <3> QED
      BY <1>1, <1>3, <1>4, <2>2, <3>1, RowFitsSame DEF Moves
  <2> QED
    BY <2>1, <2>2
<1> QED
  BY <1>1, <1>3, <1>4 DEF Sole

LEMMA WorkStarts ==
    ASSUME MessagesTyped, NEW t \in Tasks, NEW m \in Mid, Starts(t, m), RowFits(t, m)',
           NEW n \in Mid, WorkSound(n)
    PROVE  WorkSound(n)'
<1> SUFFICES ASSUME Uncrossed(n)' PROVE Sole(n)' /\ \A k \in Tasks : post'[k].msg = n => RowFits(k, n)'
  BY DEF WorkSound
<1>1. CASE m = n
  <2>1. ~M!Working(n)
    BY <1>1, SettledBefore
  <2>2. \A k \in Tasks : post'[k].msg = n => k = t
    BY <1>1, <2>1 DEF Starts, M!Working
  <2> QED
    BY <1>1, <2>2 DEF Sole
<1>2. CASE m # n
  <2>1. Uncrossed(n) /\ Sole(n) /\ \A k \in Tasks : post[k].msg = n => RowFits(k, n)
    BY <1>2, SettledBefore DEF WorkSound
  <2>2. row'[n] = row[n] /\ \A k \in Tasks : post'[k].msg = n => k # t /\ post'[k] = post[k]
    BY <1>2 DEF Starts
  <2> QED
    BY <2>1, <2>2, RowFitsSame DEF Sole
<1> QED
  BY <1>1, <1>2

LEMMA WorkAside ==
    ASSUME MessagesTyped, Aside, NEW n \in Mid, WorkSound(n)
    PROVE  WorkSound(n)'
<1> SUFFICES ASSUME Uncrossed(n)' PROVE Sole(n)' /\ \A k \in Tasks : post'[k].msg = n => RowFits(k, n)'
  BY DEF WorkSound
<1>1. n # 0 /\ row'[n] = row[n] /\ \A k \in Tasks : post'[k].msg = n => post[k].msg = n /\ post'[k] = post[k]
  BY MessageBounds DEF Aside, Mid
<1>2. CASE M!Working(n)
  <2>1. Uncrossed(n) /\ Sole(n) /\ \A k \in Tasks : post[k].msg = n => RowFits(k, n)
    BY <1>2, SettledBefore DEF WorkSound
  <2> QED
    BY <1>1, <2>1, RowFitsSame DEF Sole
<1>3. CASE ~M!Working(n)
  BY <1>1, <1>3 DEF M!Working, Sole
<1> QED
  BY <1>2, <1>3

(* How each statement finds the row, and leaves it. *)
LEMMA RowFitsMoves ==
    ASSUME MessagesTyped, NEW t \in Tasks, NEW m \in Mid, post[t].msg = m, post'[t].msg = m, RowFits(t, m),
           \/ M!PostFlip(t) \/ M!PostEnqueue(t) \/ M!EditWrite(t) \/ M!Render(t) \/ M!Send(t)
           \/ M!Mentions(t) \/ M!Rows(t) \/ M!DeleteMentions(t) \/ M!DeleteRow(t)
           \/ M!DeleteSend(t) \/ M!RejectDecide(t)
    PROVE  RowFits(t, m)'
<1>0. /\ post \in [Tasks -> Job] /\ row \in [Mid -> Line] /\ post[t] \in Job /\ row[m] \in Line /\ JobsTyped
      /\ m # 0
  BY MessageBounds DEF MessagesTyped, JobsTyped, LinesTyped, Mid
<1>1. ~M!Finish(t)
  BY <1>0, IsDone
<1>2. \A place : M!Goto(t, place) => post'[t] = [post[t] EXCEPT !.pc = place]
  BY <1>0 DEF M!Goto
<1>3. post[t].pc \notin {"idle", "upto", "seen"} => post[t].kind \in KindsAt(post[t].pc)
  BY BusyMessage
<1>4. CASE M!PostFlip(t)
  <2>1. /\ post[t].pc = "flip" /\ post'[t] = [post[t] EXCEPT !.pc = "enqueue"]
        /\ row' = [row EXCEPT ![m].held = TRUE] /\ post[t].kind = "post"
    BY <1>2, <1>3, <1>4, KindsAre DEF M!PostFlip
  <2>2. /\ post'[t].pc = "enqueue" /\ post'[t].kind = "post" /\ post'[t].body = post[t].body
        /\ row'[m].at = row[m].at /\ row'[m].deleted = row[m].deleted /\ row'[m].held
        /\ row'[m].body = row[m].body
    BY <1>0, <2>1 DEF Job, Line
  <2> QED
    BY <2>1, <2>2 DEF RowFits, M!Visible
<1>5. CASE M!EditWrite(t)
  <2>1. /\ post[t].pc = "write" /\ post'[t] = [post[t] EXCEPT !.pc = "render"]
        /\ row' = [row EXCEPT ![m].body = post[t].body] /\ post[t].kind = "edit"
    BY <1>1, <1>2, <1>3, <1>5, KindsAre DEF M!EditWrite
  <2>2. /\ post'[t].pc = "render" /\ post'[t].kind = "edit" /\ post'[t].body = post[t].body
        /\ row'[m].at = row[m].at /\ row'[m].deleted = row[m].deleted /\ row'[m].held = row[m].held
        /\ row'[m].body = post[t].body
    BY <1>0, <2>1 DEF Job, Line
  <2> QED
    BY <2>1, <2>2 DEF RowFits, M!Visible
<1>6. CASE M!Render(t)
  <2>1. post[t].pc = "render" /\ row' = row
    BY <1>6 DEF M!Render
  <2>2. CASE M!Visible(m)
    <3>1. post' = [post EXCEPT ![t].pc = "send", ![t].read = row[m].body]
      BY <1>6, <2>2 DEF M!Render
    <3>2. /\ post'[t].pc = "send" /\ post'[t].read = row[m].body /\ post'[t].kind = post[t].kind
          /\ post'[t].body = post[t].body
      BY <1>0, <3>1 DEF Job
    <3> QED
      BY <2>1, <2>2, <3>2 DEF RowFits, M!Visible
  <2>3. CASE ~M!Visible(m)
    BY <1>1, <1>6, <2>1, <2>3 DEF M!Render, RowFits
  <2> QED
    BY <2>2, <2>3
<1>7. CASE M!Send(t)
  <2>1. /\ post[t].pc = "send" /\ post'[t] = [post[t] EXCEPT !.pc = "mentions"] /\ row' = row
    BY <1>1, <1>2, <1>7 DEF M!Send
  <2>2. post'[t].pc = "mentions" /\ post'[t].kind = post[t].kind /\ post'[t].body = post[t].body
    BY <1>0, <2>1 DEF Job
  <2> QED
    BY <2>1, <2>2 DEF RowFits, M!Visible
<1>8. CASE M!Mentions(t)
  <2>1. /\ post[t].pc = "mentions" /\ row' = row
        /\ post' = [post EXCEPT ![t].pc = "rows", ![t].had = mention[m] # "none"]
    BY <1>1, <1>8 DEF M!Mentions
  <2>2. post'[t].pc = "rows" /\ post'[t].kind = post[t].kind /\ post'[t].body = post[t].body
    BY <1>0, <2>1 DEF Job
  <2> QED
    BY <2>1, <2>2 DEF RowFits, M!Visible
<1>9. CASE M!DeleteMentions(t)
  <2>1. /\ post[t].pc = "unmention" /\ post'[t] = [post[t] EXCEPT !.pc = "remove"] /\ row' = row
        /\ post[t].kind = "delete"
    BY <1>2, <1>3, <1>9, KindsAre DEF M!DeleteMentions
  <2>2. post'[t].pc = "remove" /\ post'[t].kind = "delete"
    BY <1>0, <2>1 DEF Job
  <2> QED
    BY <2>1, <2>2 DEF RowFits, M!Visible
<1>10. CASE M!DeleteRow(t)
  <2>1. /\ post[t].pc = "remove" /\ post'[t] = [post[t] EXCEPT !.pc = "tombstone"]
        /\ row' = M!Removed(m, "request") /\ post[t].kind = "delete"
    BY <1>2, <1>3, <1>10, KindsAre DEF M!DeleteRow
  <2>2. post'[t].pc = "tombstone" /\ post'[t].kind = "delete"
    BY <1>0, <2>1 DEF Job
  <2>3. row'[m].deleted = "request"
    BY <1>0, <2>1 DEF RowFits, M!Visible, M!Removed, Line
  <2> QED
    BY <2>2, <2>3 DEF RowFits, M!Visible
<1>11. CASE \/ M!PostEnqueue(t) \/ M!Rows(t) \/ M!DeleteSend(t) \/ M!RejectDecide(t)
  BY <1>1, <1>11 DEF M!PostEnqueue, M!Rows, M!DeleteSend, M!RejectDecide
<1> QED
  BY <1>4, <1>5, <1>6, <1>7, <1>8, <1>9, <1>10, <1>11

LEMMA RowFitsStarts ==
    ASSUME MessagesTyped, NEW t \in Tasks, NEW m \in Mid,
           \/ \E b \in Bodies, hold \in BOOLEAN : M!PostInsert(t, m, b, hold)
           \/ \E b \in Bodies : M!EditCheck(t, m, b)
           \/ M!DeleteCheck(t, m) \/ M!CoyotePurge(t, m) \/ M!Purge(t, m)
           \/ M!Approve(t, m) \/ M!Reject(t, m)
    PROVE  RowFits(t, m)'
<1>0. /\ row \in [Mid -> Line] /\ JobsTyped /\ row[m] \in Line
      /\ review[m] # "none" => row[m].at = "there"
  BY DEF MessagesTyped, LinesTyped
<1>1. \A place \in JobPlaces \ {"idle", "upto", "seen"} : \A kind \in KindsAt(place), b \in Bodies :
        M!Begin(t, kind, m, place, b) =>
            post'[t].pc = place /\ post'[t].kind = kind /\ post'[t].body = b
  BY <1>0, Begins
<1>2. M!NoRow.body \in Bodies
  BY BlankJob
<1>3. ASSUME NEW b \in Bodies, NEW hold \in BOOLEAN, M!PostInsert(t, m, b, hold) PROVE RowFits(t, m)'
  <2>1. "post" \in KindsAt("flip") /\ "post" \in KindsAt("render")
    BY KindsAre
  <2>2. post'[t].pc \in {"flip", "render"} /\ post'[t].kind = "post" /\ post'[t].body = b
    BY <1>1, <1>3, <2>1 DEF M!PostInsert, JobPlaces
  <2>3. row' = [row EXCEPT ![m] = [M!NoRow EXCEPT !.at = "there", !.body = b]]
    BY <1>3 DEF M!PostInsert
  <2>4. PICK r \in Line : r = M!NoRow /\ r.deleted = "no" /\ ~r.held
    BY BlankJob
  <2>5. row'[m] = [r EXCEPT !.at = "there", !.body = b]
    BY <1>0, <2>3, <2>4
  <2>6. row'[m].at = "there" /\ row'[m].body = b /\ row'[m].deleted = "no" /\ ~row'[m].held
    BY <2>4, <2>5 DEF Line
  <2> QED
    BY <2>2, <2>6 DEF RowFits, M!Visible
<1>4. ASSUME NEW b \in Bodies, M!EditCheck(t, m, b) PROVE RowFits(t, m)'
  <2>1. post'[t].pc = "write" /\ post'[t].kind = "edit" /\ row' = row /\ M!Visible(m)
    BY <1>1, <1>4, KindsAre DEF M!EditCheck, JobPlaces
  <2> QED
    BY <2>1 DEF RowFits, M!Visible
<1>5. ASSUME M!DeleteCheck(t, m) PROVE RowFits(t, m)'
  <2>1. post'[t].pc = "unmention" /\ post'[t].kind = "delete" /\ row' = row /\ M!Visible(m)
    BY <1>1, <1>2, <1>5, KindsAre DEF M!DeleteCheck, JobPlaces
  <2> QED
    BY <2>1 DEF RowFits, M!Visible
<1>6. ASSUME M!CoyotePurge(t, m) PROVE RowFits(t, m)'
  <2>1. /\ post'[t].pc = "tombstone" /\ post'[t].kind = "coyote" /\ row[m].at = "there"
        /\ row' = M!Removed(m, "moderation")
    BY <1>1, <1>2, <1>6, KindsAre DEF M!CoyotePurge, JobPlaces
  <2>2. row'[m].deleted = "moderation"
    BY <1>0, <2>1 DEF M!Removed, Line
  <2> QED
    BY <2>1, <2>2 DEF RowFits, M!Visible
<1>7. ASSUME M!Purge(t, m) PROVE RowFits(t, m)'
  <2>1. /\ post'[t].pc = "tombstone" /\ post'[t].kind = "sweep"
        /\ row' = [row EXCEPT ![m] = [M!NoRow EXCEPT !.at = "purged"]]
    BY <1>1, <1>2, <1>7, KindsAre DEF M!Purge, JobPlaces
  <2>2. PICK r \in Line : r = M!NoRow
    BY BlankJob
  <2>3. row'[m].at = "purged"
    BY <1>0, <2>1, <2>2 DEF Line
  <2> QED
    BY <2>1, <2>3 DEF RowFits, M!Visible
<1>8. ASSUME M!Approve(t, m) PROVE RowFits(t, m)'
  <2>1. post'[t].pc = "render" /\ post'[t].kind = "approve"
    BY <1>1, <1>2, <1>8, KindsAre DEF M!Approve, JobPlaces
  <2> QED
    BY <2>1 DEF RowFits, M!Visible
<1>9. ASSUME M!Reject(t, m) PROVE RowFits(t, m)'
  <2>1. /\ post'[t].pc = "decide" /\ post'[t].kind = "reject" /\ row[m].at = "there"
        /\ row' = M!Removed(m, "moderation")
    BY <1>0, <1>1, <1>2, <1>9, KindsAre DEF M!Reject, JobPlaces
  <2>2. row'[m].deleted = "moderation"
    BY <1>0, <2>1 DEF M!Removed, Line
  <2> QED
    BY <2>1, <2>2 DEF RowFits, M!Visible
<1> QED
  BY <1>3, <1>4, <1>5, <1>6, <1>7, <1>8, <1>9

LEMMA WorkStep ==
    ASSUME MessagesTyped, [M!Next]_thread, NEW n \in Mid, WorkSound(n)
    PROVE  WorkSound(n)'
<1>1. ASSUME NEW t \in Tasks,
             \/ M!PostFlip(t) \/ M!PostEnqueue(t) \/ M!EditWrite(t) \/ M!Render(t) \/ M!Send(t)
             \/ M!Mentions(t) \/ M!Rows(t) \/ M!DeleteMentions(t) \/ M!DeleteRow(t)
             \/ M!DeleteSend(t) \/ M!RejectDecide(t)
      PROVE  WorkSound(n)'
  <2>1. Moves(t)
    BY <1>1, MovesAre
  <2>2. post[t].msg = n /\ post'[t].msg = n /\ RowFits(t, n) => RowFits(t, n)'
    BY <1>1, RowFitsMoves
  <2> QED
    BY <2>1, <2>2, WorkMoves
<1>2. ASSUME NEW t \in Tasks, NEW m \in Mid,
             \/ \E b \in Bodies, hold \in BOOLEAN : M!PostInsert(t, m, b, hold)
             \/ \E b \in Bodies : M!EditCheck(t, m, b)
             \/ M!DeleteCheck(t, m) \/ M!CoyotePurge(t, m) \/ M!Purge(t, m)
             \/ M!Approve(t, m) \/ M!Reject(t, m)
      PROVE  WorkSound(n)'
  BY <1>2, StartsAre, RowFitsStarts, WorkStarts
<1>3. CASE \/ \E t \in Tasks : M!MarkRead(t) \/ M!MarkedRead(t) \/ M!MarkedMentions(t)
           \/ M!OpenPage \/ M!PageRead \/ M!PageMentions \/ M!PageOpen \/ M!ClosePage
           \/ M!DeliverRead \/ M!DeliverNew \/ M!DeliverChange
           \/ \E m \in Mid : M!MarkUnread(m)
           \/ UNCHANGED thread
  BY <1>3, AsidesAre, WorkAside
<1> QED
  BY <1>1, <1>2, <1>3, MessageSteps
(* The reader's mention rows: what they say of a message nobody is at, and   *)
(* what a handler has made of them on its way.                               *)
MentionsFit(m) ==
    row[m].deleted # "moderation" =>
        /\ mention[m] # "none" => M!Visible(m) /\ row[m].body \in Mentioning
        /\ M!Visible(m) /\ row[m].body \in Mentioning /\ review[m] = "none" => mention[m] # "none"

MentionStage(t, m) ==
    /\ post[t].kind = "post" => mention[m] = "none" /\ review[m] = "none"
    /\ post[t].pc = "rows" => (post[t].had <=> mention[m] # "none")
    /\ post[t].pc = "remove" => mention[m] = "none"
    /\ post[t].pc = "tombstone" \/ post[t].kind = "approve" => MentionsFit(m)

MentionSound(m) ==
    m \notin overlapped =>
        /\ ~M!Working(m) => MentionsFit(m)
        /\ \A t \in Tasks : post[t].msg = m => MentionStage(t, m)

LEMMA MentionsSame ==
    ASSUME NEW n \in Mid, row'[n] = row[n], review'[n] = review[n], mention'[n] = "none" <=> mention[n] = "none"
    PROVE  /\ MentionsFit(n) => MentionsFit(n)'
           /\ \A t \in Tasks : post'[t] = post[t] /\ MentionStage(t, n) => MentionStage(t, n)'
<1>1. MentionsFit(n) => MentionsFit(n)'
  BY DEF MentionsFit, M!Visible
<1> QED
  BY <1>1 DEF MentionStage

LEMMA AloneAt ==
    ASSUME NEW n \in Mid, WorkSound(n), n \notin overlapped
    PROVE  Uncrossed(n) /\ Sole(n) /\ \A t \in Tasks : post[t].msg = n => RowFits(t, n)
BY DEF WorkSound, Uncrossed

LEMMA MentionMoves ==
    ASSUME MessagesTyped, NEW t \in Tasks, Moves(t), NEW n \in Mid, WorkSound(n), MentionSound(n),
           post[t].msg = n /\ RowFits(t, n) /\ MentionStage(t, n) =>
               IF post'[t].msg = n THEN MentionStage(t, n)' ELSE MentionsFit(n)'
    PROVE  MentionSound(n)'
<1> SUFFICES ASSUME n \notin overlapped'
             PROVE  /\ ~M!Working(n)' => MentionsFit(n)'
                    /\ \A k \in Tasks : post'[k].msg = n => MentionStage(k, n)'
  BY DEF MentionSound
<1>1. /\ n \notin overlapped /\ Sole(n) /\ n # 0
      /\ \A k \in Tasks : post[k].msg = n => RowFits(k, n) /\ MentionStage(k, n)
      /\ ~M!Working(n) => MentionsFit(n)
      /\ M!Working(n)' <=> \E k \in Tasks : post'[k].msg = n
      /\ \A k \in Tasks : k # t => post'[k] = post[k]
  BY AloneAt, MessageBounds DEF Moves, MentionSound, Mid, M!Working
<1>2. CASE post[t].msg = n
  <2>1. \A k \in Tasks : k # t => post'[k].msg # n
    BY <1>1, <1>2 DEF Sole
  <2>2. IF post'[t].msg = n THEN MentionStage(t, n)' ELSE MentionsFit(n)'
    BY <1>1, <1>2
  <2> QED
    BY <1>1, <2>1, <2>2
<1>3. CASE post[t].msg # n
  <2>1. row'[n] = row[n] /\ review'[n] = review[n] /\ mention'[n] = mention[n] /\ post'[t].msg # n
    BY <1>1, <1>3 DEF Moves
  <2>2. M!Working(n) => M!Working(n)'
    BY <1>1, <1>3 DEF M!Working
  <2> QED
    BY <1>1, <2>1, <2>2, MentionsSame
<1> QED
  BY <1>2, <1>3

LEMMA MentionStarts ==
    ASSUME MessagesTyped, NEW t \in Tasks, NEW m \in Mid, Starts(t, m),
           MentionsFit(m) => MentionStage(t, m)',
           NEW n \in Mid, MentionSound(n)
    PROVE  MentionSound(n)'
<1> SUFFICES ASSUME n \notin overlapped'
             PROVE  /\ ~M!Working(n)' => MentionsFit(n)'
                    /\ \A k \in Tasks : post'[k].msg = n => MentionStage(k, n)'
  BY DEF MentionSound
<1>1. /\ n \notin overlapped /\ post[t].msg = 0 /\ post'[t].msg = m /\ n # 0
      /\ \A k \in Tasks : k # t => post'[k] = post[k]
      /\ M!Working(n)' <=> \E k \in Tasks : post'[k].msg = n
      /\ M!Working(n) <=> \E k \in Tasks : post[k].msg = n
      /\ \A k \in Tasks : post[k].msg = n => MentionStage(k, n)
      /\ ~M!Working(n) => MentionsFit(n)
  BY MessageBounds DEF Starts, MentionSound, M!Working, Mid
<1>2. CASE m = n
  <2>1. ~M!Working(n)
    BY <1>2 DEF Starts
  <2> QED
    BY <1>1, <1>2, <2>1
<1>3. CASE m # n
  <2>1. row'[n] = row[n] /\ review'[n] = review[n] /\ mention'[n] = mention[n]
    BY <1>3 DEF Starts
  <2> QED
    BY <1>1, <1>3, <2>1, MentionsSame
<1> QED
  BY <1>2, <1>3

LEMMA MentionAside ==
    ASSUME MessagesTyped, Aside, NEW n \in Mid, MentionSound(n)
    PROVE  MentionSound(n)'
<1>1. /\ overlapped' = overlapped /\ row'[n] = row[n] /\ review'[n] = review[n]
      /\ mention'[n] = "none" <=> mention[n] = "none"
      /\ \A k \in Tasks : post'[k].msg = n <=> post[k].msg = n
      /\ \A k \in Tasks : post[k].msg = n => post'[k] = post[k]
  BY MessageBounds DEF Aside, Mid
<1>2. M!Working(n)' <=> M!Working(n)
  BY <1>1 DEF M!Working
<1> QED
  BY <1>1, <1>2, MentionsSame DEF MentionSound

LEMMA MentionStageMoves ==
    ASSUME MessagesTyped, NEW t \in Tasks, NEW m \in Mid, post[t].msg = m, RowFits(t, m), MentionStage(t, m),
           \/ M!PostFlip(t) \/ M!PostEnqueue(t) \/ M!EditWrite(t) \/ M!Render(t) \/ M!Send(t)
           \/ M!Mentions(t) \/ M!Rows(t) \/ M!DeleteMentions(t) \/ M!DeleteRow(t)
           \/ M!DeleteSend(t) \/ M!RejectDecide(t)
    PROVE  IF post'[t].msg = m THEN MentionStage(t, m)' ELSE MentionsFit(m)'
<1>0. /\ post \in [Tasks -> Job] /\ row \in [Mid -> Line] /\ post[t] \in Job /\ row[m] \in Line /\ JobsTyped
      /\ mention \in [Mid -> {"none", "unread", "read"}] /\ mention[m] \in {"none", "unread", "read"}
      /\ review \in [Mid -> {"none", "pending", "approve", "reject"}]
      /\ m # 0 /\ post[t].had \in BOOLEAN
  BY MessageBounds DEF MessagesTyped, JobsTyped, LinesTyped, Mid, Job
<1>1. M!Finish(t) => post'[t].msg # m
  BY <1>0, IsDone
<1>2. \A place : M!Goto(t, place) =>
        /\ post'[t] = [post[t] EXCEPT !.pc = place]
        /\ post'[t].pc = place /\ post'[t].kind = post[t].kind /\ post'[t].msg = m
        /\ post'[t].body = post[t].body /\ post'[t].had = post[t].had
  BY <1>0 DEF M!Goto, Job
<1>3. post[t].pc \notin {"idle", "upto", "seen"} => post[t].kind \in KindsAt(post[t].pc)
  BY BusyMessage
<1>4. CASE M!PostFlip(t)
  <2>1. /\ post[t].pc = "flip" /\ M!Goto(t, "enqueue") /\ mention' = mention /\ review' = review
        /\ post[t].kind = "post"
    BY <1>3, <1>4, KindsAre DEF M!PostFlip
  <2>2. /\ post'[t].pc = "enqueue" /\ post'[t].kind = post[t].kind /\ post'[t].msg = m
    BY <1>2, <2>1
  <2> QED
    BY <2>1, <2>2 DEF MentionStage
<1>5. CASE M!PostEnqueue(t)
  <2>1. /\ post[t].pc = "enqueue" /\ M!Finish(t) /\ mention' = mention /\ row' = row
        /\ post[t].kind = "post"
    BY <1>3, <1>5, KindsAre DEF M!PostEnqueue
  <2>2. mention'[m] = "none" /\ row'[m].held
    BY <2>1 DEF MentionStage, RowFits
  <2> QED
    BY <1>1, <2>1, <2>2 DEF MentionsFit, M!Visible
<1>6. CASE M!EditWrite(t)
  <2>1. post[t].pc = "write" /\ M!Goto(t, "render") /\ post[t].kind = "edit"
    BY <1>3, <1>6, KindsAre DEF M!EditWrite, RowFits, M!Visible
  <2>2. /\ post'[t].pc = "render" /\ post'[t].kind = post[t].kind /\ post'[t].msg = m
    BY <1>2, <2>1
  <2> QED
    BY <2>1, <2>2 DEF MentionStage
<1>7. CASE M!Render(t)
  <2>1. /\ post[t].pc = "render" /\ row' = row /\ mention' = mention /\ review' = review
        /\ MentionsFit(m) => MentionsFit(m)'
    BY <1>7, MentionsSame DEF M!Render
  <2>2. CASE M!Visible(m)
    <3>1. post' = [post EXCEPT ![t].pc = "send", ![t].read = row[m].body]
      BY <1>7, <2>2 DEF M!Render
    <3>2. post'[t].pc = "send" /\ post'[t].kind = post[t].kind /\ post'[t].msg = m
      BY <1>0, <3>1 DEF Job
    <3> QED
      BY <2>1, <3>2 DEF MentionStage
  <2>3. CASE ~M!Visible(m)
    <3>1. post[t].kind = "approve" /\ M!Finish(t)
      BY <1>7, <2>1, <2>3 DEF M!Render, RowFits
    <3> QED
      BY <1>1, <2>1, <3>1 DEF MentionStage
  <2> QED
    BY <2>2, <2>3
<1>8. CASE M!Send(t)
  <2>1. /\ post[t].pc = "send" /\ row' = row /\ mention' = mention /\ review' = review
        /\ MentionsFit(m) => MentionsFit(m)'
    BY <1>8, MentionsSame DEF M!Send
  <2>2. CASE post[t].kind = "approve" /\ M!Finish(t)
    BY <1>1, <2>1, <2>2 DEF MentionStage
  <2>3. CASE post[t].kind # "approve" /\ M!Goto(t, "mentions")
    <3>1. post'[t].pc = "mentions" /\ post'[t].kind = post[t].kind /\ post'[t].msg = m
      BY <1>2, <2>3
    <3> QED
      BY <2>1, <2>3, <3>1 DEF MentionStage
  <2> QED
    BY <1>8, <2>2, <2>3 DEF M!Send
<1>9. CASE M!Mentions(t)
  <2>1. /\ post[t].pc = "mentions" /\ row' = row /\ mention' = mention /\ review' = review
        /\ post[t].kind \in {"post", "edit"}
    BY <1>3, <1>9, KindsAre DEF M!Mentions
  <2>2. CASE post[t].kind = "post" /\ post[t].body \notin Mentioning /\ M!Finish(t)
    <3>1. mention'[m] = "none" /\ row'[m].body \notin Mentioning
      BY <2>1, <2>2 DEF MentionStage, RowFits
    <3> QED
      BY <1>1, <2>2, <3>1 DEF MentionsFit
  <2>3. CASE post' = [post EXCEPT ![t].pc = "rows", ![t].had = mention[m] # "none"]
    <3>1. /\ post'[t].pc = "rows" /\ post'[t].kind = post[t].kind
          /\ post'[t].had = (mention[m] # "none") /\ post'[t].msg = m
      BY <1>0, <2>3 DEF Job
    <3>2. post'[t].kind = "post" => mention'[m] = "none" /\ review'[m] = "none"
      BY <2>1, <3>1 DEF MentionStage
    <3>3. post'[t].had <=> mention'[m] # "none"
      BY <2>1, <3>1
    <3> QED
      BY <2>1, <3>1, <3>2, <3>3 DEF MentionStage
  <2> QED
    BY <1>9, <2>2, <2>3 DEF M!Mentions
<1>10. CASE M!Rows(t)
  <2>1. /\ post[t].pc = "rows" /\ row' = row /\ review' = review /\ M!Finish(t)
        /\ mention' = [mention EXCEPT ![m] = IF row[m].at = "purged" THEN "none"
                                             ELSE M!Reconciled(t, mention[m])]
        /\ post[t].kind \in {"post", "edit"}
    BY <1>3, <1>10, KindsAre DEF M!Rows
  <2>2. /\ M!Visible(m) /\ M!Visible(m)' /\ row'[m].body = row[m].body
        /\ mention'[m] = M!Reconciled(t, mention[m]) /\ row[m].body = post[t].body
    BY <1>0, <2>1 DEF RowFits, M!Visible
  <2>3. post[t].had <=> mention[m] # "none"
    BY <2>1 DEF MentionStage
  <2>4. CASE post[t].body \in Mentioning
    <3>1. mention'[m] # "none"
      BY <1>0, <2>2, <2>3, <2>4 DEF M!Reconciled
    <3> QED
      BY <1>1, <2>1, <2>2, <2>4, <3>1 DEF MentionsFit
  <2>5. CASE post[t].body \notin Mentioning
    <3>1. mention'[m] = "none"
      BY <1>0, <2>2, <2>3, <2>5 DEF M!Reconciled
    <3> QED
      BY <1>1, <2>1, <2>2, <2>5, <3>1 DEF MentionsFit
  <2> QED
    BY <2>4, <2>5
<1>11. CASE M!DeleteMentions(t)
  <2>1. /\ post[t].pc = "unmention" /\ M!Goto(t, "remove") /\ mention' = [mention EXCEPT ![m] = "none"]
        /\ post[t].kind = "delete"
    BY <1>3, <1>11, KindsAre DEF M!DeleteMentions
  <2>2. /\ post'[t].pc = "remove" /\ post'[t].kind = post[t].kind /\ post'[t].msg = m
    BY <1>2, <2>1
  <2>3. mention'[m] = "none"
    BY <1>0, <2>1
  <2> QED
    BY <2>1, <2>2, <2>3 DEF MentionStage
<1>12. CASE M!DeleteRow(t)
  <2>1. /\ post[t].pc = "remove" /\ M!Goto(t, "tombstone") /\ mention' = mention
        /\ row' = M!Removed(m, "request") /\ post[t].kind = "delete"
    BY <1>3, <1>12, KindsAre DEF M!DeleteRow
  <2>2. row'[m].deleted = "request" /\ mention'[m] = "none"
    BY <1>0, <2>1 DEF RowFits, M!Visible, M!Removed, Line, MentionStage
  <2>3. MentionsFit(m)'
    BY <2>2 DEF MentionsFit, M!Visible
  <2>4. /\ post'[t].pc = "tombstone" /\ post'[t].kind = post[t].kind /\ post'[t].msg = m
    BY <1>2, <2>1
  <2> QED
    BY <2>1, <2>3, <2>4 DEF MentionStage
<1>13. CASE M!DeleteSend(t)
  <2>1. post[t].pc = "tombstone" /\ M!Finish(t) /\ MentionsFit(m) => MentionsFit(m)'
    BY <1>13, MentionsSame DEF M!DeleteSend
  <2> QED
    BY <1>1, <1>13, <2>1 DEF MentionStage, M!DeleteSend
<1>14. CASE M!RejectDecide(t)
  <2>1. row'[m].deleted = "moderation" /\ M!Finish(t)
    BY <1>14 DEF M!RejectDecide, RowFits
  <2> QED
    BY <1>1, <2>1 DEF MentionsFit
<1> QED
  BY <1>4, <1>5, <1>6, <1>7, <1>8, <1>9, <1>10, <1>11, <1>12, <1>13, <1>14

LEMMA MentionStageStarts ==
    ASSUME MessagesTyped, NEW t \in Tasks, NEW m \in Mid, MentionsFit(m),
           \/ \E b \in Bodies, hold \in BOOLEAN : M!PostInsert(t, m, b, hold)
           \/ \E b \in Bodies : M!EditCheck(t, m, b)
           \/ M!DeleteCheck(t, m) \/ M!CoyotePurge(t, m) \/ M!Purge(t, m)
           \/ M!Approve(t, m) \/ M!Reject(t, m)
    PROVE  MentionStage(t, m)'
<1>0. /\ row \in [Mid -> Line] /\ JobsTyped /\ row[m] \in Line
      /\ review \in [Mid -> {"none", "pending", "approve", "reject"}]
      /\ mention \in [Mid -> {"none", "unread", "read"}]
      /\ row[m].at # "there" => mention[m] = "none" /\ review[m] = "none"
  BY DEF MessagesTyped, LinesTyped
<1>1. \A place \in JobPlaces \ {"idle", "upto", "seen"} : \A kind \in KindsAt(place), b \in Bodies :
        M!Begin(t, kind, m, place, b) =>
            post'[t].pc = place /\ post'[t].kind = kind /\ post'[t].body = b
  BY <1>0, Begins
<1>2. M!NoRow.body \in Bodies
  BY BlankJob
<1>3. ASSUME NEW b \in Bodies, NEW hold \in BOOLEAN, M!PostInsert(t, m, b, hold) PROVE MentionStage(t, m)'
  <2>1. "post" \in KindsAt("flip") /\ "post" \in KindsAt("render")
    BY KindsAre
  <2>2. post'[t].pc \in {"flip", "render"} /\ post'[t].kind = "post"
    BY <1>1, <1>3, <2>1 DEF M!PostInsert, JobPlaces
  <2>3. mention'[m] = "none" /\ review'[m] = "none"
    BY <1>0, <1>3 DEF M!PostInsert
  <2> QED
    BY <2>2, <2>3 DEF MentionStage
<1>4. ASSUME NEW b \in Bodies, M!EditCheck(t, m, b) PROVE MentionStage(t, m)'
  <2>1. post'[t].pc = "write" /\ post'[t].kind = "edit"
    BY <1>1, <1>4, KindsAre DEF M!EditCheck, JobPlaces
  <2> QED
    BY <2>1 DEF MentionStage
<1>5. ASSUME M!DeleteCheck(t, m) PROVE MentionStage(t, m)'
  <2>1. post'[t].pc = "unmention" /\ post'[t].kind = "delete"
    BY <1>1, <1>2, <1>5, KindsAre DEF M!DeleteCheck, JobPlaces
  <2> QED
    BY <2>1 DEF MentionStage
<1>6. ASSUME M!CoyotePurge(t, m) PROVE MentionStage(t, m)'
  <2>1. /\ post'[t].pc = "tombstone" /\ post'[t].kind = "coyote" /\ row[m].at = "there"
        /\ row' = M!Removed(m, "moderation")
    BY <1>1, <1>2, <1>6, KindsAre DEF M!CoyotePurge, JobPlaces
  <2>2. row'[m].deleted = "moderation"
    BY <1>0, <2>1 DEF M!Removed, Line
  <2> QED
    BY <2>1, <2>2 DEF MentionStage, MentionsFit
<1>7. ASSUME M!Purge(t, m) PROVE MentionStage(t, m)'
  <2>1. /\ post'[t].pc = "tombstone" /\ post'[t].kind = "sweep"
        /\ row' = [row EXCEPT ![m] = [M!NoRow EXCEPT !.at = "purged"]]
        /\ mention' = [mention EXCEPT ![m] = "none"]
    BY <1>1, <1>2, <1>7, KindsAre DEF M!Purge, JobPlaces, M!Cascade
  <2>2. PICK r \in Line : r = M!NoRow
    BY BlankJob
  <2>3. row'[m].at = "purged" /\ mention'[m] = "none"
    BY <1>0, <2>1, <2>2 DEF Line
  <2> QED
    BY <2>1, <2>3 DEF MentionStage, MentionsFit, M!Visible
<1>8. ASSUME M!Approve(t, m) PROVE MentionStage(t, m)'
  <2>1. /\ post'[t].pc = "render" /\ post'[t].kind = "approve"
        /\ row' = [row EXCEPT ![m].held = FALSE] /\ review' = [review EXCEPT ![m] = "approve"]
        /\ mention' = mention
    BY <1>1, <1>2, <1>8, KindsAre DEF M!Approve, JobPlaces
  <2>2. /\ review'[m] = "approve" /\ row'[m].at = row[m].at /\ row'[m].deleted = row[m].deleted
        /\ row'[m].body = row[m].body /\ ~row'[m].held
    BY <1>0, <2>1 DEF Line
  <2>3. MentionsFit(m)'
    BY <2>1, <2>2 DEF MentionsFit, M!Visible
  <2> QED
    BY <2>1, <2>3 DEF MentionStage
<1>9. ASSUME M!Reject(t, m) PROVE MentionStage(t, m)'
  <2>1. /\ post'[t].pc = "decide" /\ post'[t].kind = "reject"
    BY <1>0, <1>1, <1>2, <1>9, KindsAre DEF M!Reject, JobPlaces
  <2> QED
    BY <2>1 DEF MentionStage
<1> QED
  BY <1>3, <1>4, <1>5, <1>6, <1>7, <1>8, <1>9

LEMMA MentionStep ==
    ASSUME MessagesTyped, [M!Next]_thread, NEW n \in Mid, WorkSound(n), MentionSound(n)
    PROVE  MentionSound(n)'
<1>1. ASSUME NEW t \in Tasks,
             \/ M!PostFlip(t) \/ M!PostEnqueue(t) \/ M!EditWrite(t) \/ M!Render(t) \/ M!Send(t)
             \/ M!Mentions(t) \/ M!Rows(t) \/ M!DeleteMentions(t) \/ M!DeleteRow(t)
             \/ M!DeleteSend(t) \/ M!RejectDecide(t)
      PROVE  MentionSound(n)'
  <2>1. Moves(t)
    BY <1>1, MovesAre
  <2>2. post[t].msg = n /\ RowFits(t, n) /\ MentionStage(t, n) =>
            IF post'[t].msg = n THEN MentionStage(t, n)' ELSE MentionsFit(n)'
    BY <1>1, MentionStageMoves
  <2> QED
    BY <2>1, <2>2, MentionMoves
<1>2. ASSUME NEW t \in Tasks, NEW m \in Mid,
             \/ \E b \in Bodies, hold \in BOOLEAN : M!PostInsert(t, m, b, hold)
             \/ \E b \in Bodies : M!EditCheck(t, m, b)
             \/ M!DeleteCheck(t, m) \/ M!CoyotePurge(t, m) \/ M!Purge(t, m)
             \/ M!Approve(t, m) \/ M!Reject(t, m)
      PROVE  MentionSound(n)'
  BY <1>2, StartsAre, MentionStageStarts, MentionStarts
<1>3. CASE \/ \E t \in Tasks : M!MarkRead(t) \/ M!MarkedRead(t) \/ M!MarkedMentions(t)
           \/ M!OpenPage \/ M!PageRead \/ M!PageMentions \/ M!PageOpen \/ M!ClosePage
           \/ M!DeliverRead \/ M!DeliverNew \/ M!DeliverChange
           \/ \E m \in Mid : M!MarkUnread(m)
           \/ UNCHANGED thread
  BY <1>3, AsidesAre, MentionAside
<1> QED
  BY <1>1, <1>2, <1>3, MessageSteps
(* What a page shows of a message once it has taken its events.              *)
After(e, m, look) ==
    IF e.msg # m THEN look
    ELSE IF e.what = "new" THEN e.body
    ELSE IF look = "absent" THEN look
    ELSE IF e.what = "edit" THEN e.body ELSE "gone"

EndsOn(m, v) ==
    \E f \in [0..Len(queue) -> Looks] :
        /\ f[0] = tab[m] /\ f[Len(queue)] = v
        /\ \A i \in 1..Len(queue) : f[i] = After(queue[i], m, f[i - 1])

Right(m, v) == IF M!Visible(m) THEN v = row[m].body ELSE v \in {"absent", "gone"}

ScreenStage(t, m, v) ==
    /\ post[t].pc \in {"flip", "enqueue", "decide"} => v \in {"absent", "gone"}
    /\ post[t].kind = "edit" /\ post[t].pc \in {"write", "render", "send"} => v # "absent"
    /\ post[t].pc \in {"mentions", "rows"} => Right(m, v)
    /\ post[t].kind = "approve" /\ post[t].pc = "render" => M!Visible(m) \/ v \in {"absent", "gone"}

\* It is what the table holds, or what the handler at it will make good.
ScreenSound(m) ==
    conn.pc # "closed" /\ m \notin missed =>
        \E v \in Looks :
            /\ EndsOn(m, v)
            /\ ~M!Working(m) => Right(m, v)
            /\ \A t \in Tasks : post[t].msg = m => ScreenStage(t, m, v)

LEMMA AfterLooks ==
    ASSUME NEW e \in Event, NEW m \in Mid, NEW v \in Looks
    PROVE  After(e, m, v) \in Looks
BY DEF After, Looks, Event

LEMMA EndsKept ==
    ASSUME NEW m \in Mid, NEW v, queue' = queue, tab'[m] = tab[m], EndsOn(m, v)
    PROVE  EndsOn(m, v)'
BY DEF EndsOn

LEMMA EndsQuiet ==
    ASSUME NEW m \in Mid, NEW v, queue = <<>>, EndsOn(m, v)
    PROVE  v = tab[m]
BY DEF EndsOn

LEMMA EndsTold ==
    ASSUME PageTyped, NEW m \in Mid, NEW v \in Looks, NEW e \in Event, EndsOn(m, v),
           queue' = Append(queue, e), tab'[m] = tab[m],
           NEW w, w = After(e, m, v)
    PROVE  w \in Looks /\ EndsOn(m, w)'
<1>1. w \in Looks
  BY AfterLooks
<1>2. queue \in Seq(Event) /\ PageTyped
  BY DEF PageTyped
<1>3. PICK n \in Nat : n = Len(queue)
  BY <1>2
<1>4. PICK f \in [0..n -> Looks] :
        /\ f[0] = tab[m] /\ f[n] = v
        /\ \A i \in 1..n : f[i] = After(queue[i], m, f[i - 1])
  BY <1>3 DEF EndsOn
<1>5. /\ Len(queue') = n + 1 /\ queue'[n + 1] = e
      /\ \A i \in 1..n : queue'[i] = queue[i]
  BY <1>2, <1>3
<1> DEFINE g == [i \in 0..(n + 1) |-> IF i = n + 1 THEN w ELSE f[i]]
<1>6. g \in [0..(n + 1) -> Looks] /\ g[0] = tab'[m] /\ g[n + 1] = w
  BY <1>1, <1>3, <1>4
<1>7. \A i \in 1..(n + 1) : g[i] = After(queue'[i], m, g[i - 1])
  <2> TAKE i \in 1..(n + 1)
  <2>1. CASE i = n + 1
    <3>1. g[i] = w /\ g[i - 1] = v /\ queue'[i] = e
      BY <1>4, <1>5, <2>1
    <3> QED
      BY <3>1
  <2>2. CASE i # n + 1
    <3>1. i \in 1..n /\ g[i] = f[i] /\ g[i - 1] = f[i - 1]
      BY <2>2
    <3> QED
      BY <1>4, <1>5, <3>1
  <2> QED
    BY <2>1, <2>2
<1> HIDE DEF g
<1> QED
  BY <1>1, <1>5, <1>6, <1>7 DEF EndsOn

LEMMA EndsDelivered ==
    ASSUME PageTyped, NEW m \in Mid, NEW v, EndsOn(m, v), queue # <<>>, queue' = Tail(queue),
           tab'[m] = After(Head(queue), m, tab[m])
    PROVE  EndsOn(m, v)'
<1>1. queue \in Seq(Event) /\ Len(queue) \in Nat /\ Len(queue) # 0
  BY DEF PageTyped
<1>2. PICK n \in Nat : Len(queue) = n + 1
  <2>1. Len(queue) - 1 \in Nat /\ Len(queue) = (Len(queue) - 1) + 1
    BY <1>1
  <2> QED
    BY <2>1
<1>3. PICK f \in [0..(n + 1) -> Looks] :
        /\ f[0] = tab[m] /\ f[n + 1] = v
        /\ \A i \in 1..(n + 1) : f[i] = After(queue[i], m, f[i - 1])
  BY <1>2 DEF EndsOn
<1>4. Len(queue') = n /\ Head(queue) = queue[1] /\ \A i \in 1..n : queue'[i] = queue[i + 1]
  BY <1>1, <1>2
<1> DEFINE g == [i \in 0..n |-> f[i + 1]]
<1>5. g \in [0..n -> Looks] /\ g[n] = v
  BY <1>3
<1>6. g[0] = tab'[m]
  <2>1. f[1] = After(queue[1], m, f[0])
    BY <1>3
  <2> QED
    BY <1>3, <1>4, <2>1
<1>7. \A i \in 1..n : g[i] = After(queue'[i], m, g[i - 1])
  <2> TAKE i \in 1..n
  <2>1. g[i] = f[i + 1] /\ g[i - 1] = f[i] /\ i + 1 \in 1..(n + 1) /\ (i + 1) - 1 = i
    OBVIOUS
  <2>2. f[i + 1] = After(queue[i + 1], m, f[(i + 1) - 1])
    BY <1>3, <2>1
  <2> QED
    BY <1>4, <2>1, <2>2
<1> HIDE DEF g
<1> QED
  BY <1>4, <1>5, <1>6, <1>7 DEF EndsOn

LEMMA ScreensSame ==
    ASSUME NEW n \in Mid, NEW v, row'[n] = row[n]
    PROVE  /\ Right(n, v) <=> Right(n, v)'
           /\ \A t \in Tasks : post'[t] = post[t] /\ ScreenStage(t, n, v) => ScreenStage(t, n, v)'
<1>1. Right(n, v) <=> Right(n, v)'
  BY DEF Right, M!Visible
<1>2. M!Visible(n) <=> M!Visible(n)'
  BY DEF M!Visible
<1> QED
  BY <1>1, <1>2 DEF ScreenStage

LEMMA ScreenMoves ==
    ASSUME MessagesTyped, NEW t \in Tasks, Moves(t), NEW n \in Mid, WorkSound(n), ScreenSound(n),
           \A v \in Looks : post[t].msg = n /\ conn.pc # "closed" /\ n \notin missed' /\ EndsOn(n, v)
                             /\ RowFits(t, n) /\ ScreenStage(t, n, v) =>
               \E w \in Looks : EndsOn(n, w)'
                                /\ IF post'[t].msg = n THEN ScreenStage(t, n, w)' ELSE Right(n, w)'
    PROVE  ScreenSound(n)'
<1> SUFFICES ASSUME conn'.pc # "closed", n \notin missed'
             PROVE  \E v \in Looks :
                       /\ EndsOn(n, v)'
                       /\ ~M!Working(n)' => Right(n, v)'
                       /\ \A k \in Tasks : post'[k].msg = n => ScreenStage(k, n, v)'
  BY DEF ScreenSound
<1>1. /\ conn' = conn /\ conn.pc # "closed" /\ n \notin missed /\ n # 0 /\ tab' = tab
      /\ M!Working(n)' <=> \E k \in Tasks : post'[k].msg = n
      /\ M!Working(n) <=> \E k \in Tasks : post[k].msg = n
  BY MessageBounds DEF Moves, Mid, M!Working
<1>2. PICK v \in Looks :
        /\ EndsOn(n, v)
        /\ ~M!Working(n) => Right(n, v)
        /\ \A k \in Tasks : post[k].msg = n => ScreenStage(k, n, v)
  BY <1>1 DEF ScreenSound
<1>3. Sole(n) /\ \A k \in Tasks : post[k].msg = n => RowFits(k, n)
  BY <1>1 DEF WorkSound, Uncrossed
<1>4. CASE post[t].msg = n
  <2>1. PICK w \in Looks : EndsOn(n, w)' /\ IF post'[t].msg = n THEN ScreenStage(t, n, w)' ELSE Right(n, w)'
    BY <1>1, <1>2, <1>3, <1>4
  <2>2. \A k \in Tasks : k # t => post'[k].msg # n
    BY <1>3, <1>4 DEF Sole, Moves
  <2> QED
    BY <1>1, <2>1, <2>2
<1>5. CASE post[t].msg # n
  <2>1. row'[n] = row[n] /\ post'[t].msg # n /\ \A k \in Tasks : k # t => post'[k] = post[k]
    BY <1>1, <1>5 DEF Moves
  <2>2. EndsOn(n, v)'
    <3>1. CASE queue' = queue
      BY <1>1, <1>2, <3>1, EndsKept
    <3>2. ASSUME NEW e \in Event, e.msg # n, queue' = Append(queue, e) PROVE EndsOn(n, v)'
      <4>1. After(e, n, v) = v /\ PageTyped
        BY <3>2 DEF After, MessagesTyped
      <4> QED
        BY <1>1, <1>2, <3>2, <4>1, EndsTold
    <3> QED
      BY <1>5, <3>1, <3>2 DEF Moves
  <2>3. M!Working(n) => M!Working(n)'
    BY <1>1, <1>5, <2>1
  <2> QED
    BY <1>1, <1>2, <2>1, <2>2, <2>3, ScreensSame
<1> QED
  BY <1>4, <1>5

LEMMA ScreenStarts ==
    ASSUME MessagesTyped, NEW t \in Tasks, NEW m \in Mid, Starts(t, m), NEW n \in Mid, ScreenSound(n),
           \A v \in Looks : m \notin missed' /\ Right(m, v) => ScreenStage(t, m, v)'
    PROVE  ScreenSound(n)'
<1> SUFFICES ASSUME conn'.pc # "closed", n \notin missed'
             PROVE  \E v \in Looks :
                       /\ EndsOn(n, v)'
                       /\ ~M!Working(n)' => Right(n, v)'
                       /\ \A k \in Tasks : post'[k].msg = n => ScreenStage(k, n, v)'
  BY DEF ScreenSound
<1>1. /\ conn.pc # "closed" /\ n \notin missed /\ n # 0 /\ tab' = tab /\ queue' = queue
      /\ post[t].msg = 0 /\ post'[t].msg = m /\ \A k \in Tasks : k # t => post'[k] = post[k]
      /\ M!Working(n)' <=> \E k \in Tasks : post'[k].msg = n
      /\ M!Working(n) <=> \E k \in Tasks : post[k].msg = n
  BY MessageBounds DEF Starts, Mid, M!Working
<1>2. PICK v \in Looks :
        /\ EndsOn(n, v)
        /\ ~M!Working(n) => Right(n, v)
        /\ \A k \in Tasks : post[k].msg = n => ScreenStage(k, n, v)
  BY <1>1 DEF ScreenSound
<1>3. EndsOn(n, v)'
  BY <1>1, <1>2, EndsKept
<1>4. CASE m = n
  <2>1. ~M!Working(n)
    BY <1>4 DEF Starts
  <2>2. ScreenStage(t, n, v)'
    BY <1>2, <1>4, <2>1
  <2> QED
    BY <1>1, <1>3, <1>4, <2>1, <2>2
<1>5. CASE m # n
  <2>1. row'[n] = row[n]
    BY <1>5 DEF Starts
  <2> QED
    BY <1>1, <1>2, <1>3, <1>5, <2>1, ScreensSame
<1> QED
  BY <1>4, <1>5
LEMMA ScreenAside ==
    ASSUME MessagesTyped, Aside, NEW n \in Mid, ScreenSound(n),
           conn'.pc # "closed" => UNCHANGED missed /\ conn.pc # "closed",
           \A v \in Looks : conn'.pc # "closed" /\ EndsOn(n, v) => EndsOn(n, v)'
    PROVE  ScreenSound(n)'
<1> SUFFICES ASSUME conn'.pc # "closed", n \notin missed'
             PROVE  \E v \in Looks :
                       /\ EndsOn(n, v)'
                       /\ ~M!Working(n)' => Right(n, v)'
                       /\ \A k \in Tasks : post'[k].msg = n => ScreenStage(k, n, v)'
  BY DEF ScreenSound
<1>1. /\ conn.pc # "closed" /\ n \notin missed /\ row'[n] = row[n]
      /\ \A k \in Tasks : post'[k].msg = n <=> post[k].msg = n
      /\ \A k \in Tasks : post[k].msg = n => post'[k] = post[k]
  BY MessageBounds DEF Aside, Mid
<1>2. M!Working(n)' <=> M!Working(n)
  BY <1>1 DEF M!Working
<1>3. PICK v \in Looks :
        /\ EndsOn(n, v)
        /\ ~M!Working(n) => Right(n, v)
        /\ \A k \in Tasks : post[k].msg = n => ScreenStage(k, n, v)
  BY <1>1 DEF ScreenSound
<1> QED
  BY <1>1, <1>2, <1>3, ScreensSame

(* A page that opens shows what the table holds. *)
LEMMA ScreenOpens ==
    ASSUME MessagesTyped, M!OpenPage, NEW n \in Mid, WorkSound(n)
    PROVE  ScreenSound(n)'
<1> SUFFICES ASSUME n \notin missed'
             PROVE  \E v \in Looks :
                       /\ EndsOn(n, v)'
                       /\ ~M!Working(n)' => Right(n, v)'
                       /\ \A k \in Tasks : post'[k].msg = n => ScreenStage(k, n, v)'
  BY DEF ScreenSound
<1> DEFINE v == IF M!Visible(n) THEN row[n].body ELSE "absent"
<1>1. /\ queue = <<>> /\ queue' = queue /\ row' = row /\ post' = post /\ row[n].body \in Bodies
      /\ tab' = [m \in Mid |-> IF M!Listed(m) THEN row[m].body ELSE "absent"]
      /\ M!Listed(n) <=> M!Visible(n)
      /\ "absent" \notin Bodies
  BY MessageBounds DEF M!OpenPage, MessagesTyped, PageTyped, LinesTyped, Line, M!Listed, M!Visible
<1>2. v \in Looks /\ tab'[n] = v /\ (M!Visible(n) => v # "absent") /\ Right(n, v)
  BY <1>1 DEF Looks, Right
<1> HIDE DEF v
<1>3. PICK w \in Looks : w = v
  BY <1>2
<1>4. EndsOn(n, w)'
  <2> DEFINE f == [i \in 0..0 |-> w]
  <2>1. Len(queue') = 0
    BY <1>1
  <2>2. f \in [0..0 -> Looks] /\ f[0] = w
    OBVIOUS
  <2> HIDE DEF f
  <2> QED
    BY <1>2, <1>3, <2>1, <2>2 DEF EndsOn
<1>5. Right(n, w) /\ Right(n, w)'
  BY <1>1, <1>2, <1>3, ScreensSame
<1>6. ASSUME NEW k \in Tasks, post[k].msg = n PROVE ScreenStage(k, n, w)
  <2>1. /\ n \notin overlapped /\ post[k].pc # "flip"
    BY <1>1, <1>6, MessageBounds DEF M!OpenPage, M!Working
  <2>2. RowFits(k, n)
    BY <1>6, <2>1 DEF WorkSound, Uncrossed
  <2>3. post[k].pc \in {"enqueue", "decide"} => ~M!Visible(n)
    BY <2>2 DEF RowFits, M!Visible
  <2>4. post[k].kind = "edit" /\ post[k].pc \in {"write", "render", "send"} => M!Visible(n)
    BY <2>2 DEF RowFits
  <2>5. ~M!Visible(n) => w \in {"absent", "gone"}
    BY <1>5 DEF Right
  <2> QED
    BY <1>2, <1>3, <1>5, <2>1, <2>3, <2>4, <2>5 DEF ScreenStage
<1> QED
  BY <1>1, <1>4, <1>5, <1>6, ScreensSame

(* A page takes an event. *)
LEMMA ScreenDelivers ==
    ASSUME MessagesTyped, NEW n \in Mid, NEW v, EndsOn(n, v), M!DeliverNew \/ M!DeliverChange
    PROVE  EndsOn(n, v)'
<1>0. /\ PageTyped /\ queue \in Seq(Event) /\ tab \in [Mid -> Looks]
      /\ conn.pc = "marking" => /\ conn.msg \in Mid /\ queue # <<>>
                                /\ Head(queue).what = "new" /\ Head(queue).msg = conn.msg
  BY DEF MessagesTyped, PageTyped
<1>1. /\ queue # <<>> /\ queue' = Tail(queue)
      /\ M!DeliverNew => /\ Head(queue).what = "new" /\ Head(queue).msg = conn.msg
                         /\ tab' = [tab EXCEPT ![conn.msg] = Head(queue).body]
      /\ M!DeliverChange =>
            /\ Head(queue).what # "new"
            /\ tab' = IF tab[Head(queue).msg] = "absent" THEN tab
                      ELSE [tab EXCEPT ![Head(queue).msg] =
                                         IF Head(queue).what = "edit" THEN Head(queue).body ELSE "gone"]
  BY <1>0 DEF M!DeliverNew, M!DeliverChange
<1>2. PICK e \in Event : e = Head(queue)
  BY <1>0, <1>1
<1>3. e.msg \in Mid
  BY DEF Event
<1>4. tab'[n] = After(e, n, tab[n])
  <2>1. CASE M!DeliverNew
    BY <1>0, <1>1, <1>2, <1>3, <2>1 DEF After
  <2>2. CASE M!DeliverChange
    BY <1>0, <1>1, <1>2, <1>3, <2>2 DEF After
  <2> QED
    BY <2>1, <2>2
<1> QED
  BY <1>0, <1>1, <1>2, <1>4, EndsDelivered

(* What each statement leaves on the page, or sends it. *)
LEMMA ScreenStageMoves ==
    ASSUME MessagesTyped, NEW t \in Tasks, NEW m \in Mid, post[t].msg = m, RowFits(t, m), Moves(t),
           NEW v \in Looks, EndsOn(m, v), ScreenStage(t, m, v), conn.pc # "closed", m \notin missed',
           \/ M!PostFlip(t) \/ M!PostEnqueue(t) \/ M!EditWrite(t) \/ M!Render(t) \/ M!Send(t)
           \/ M!Mentions(t) \/ M!Rows(t) \/ M!DeleteMentions(t) \/ M!DeleteRow(t)
           \/ M!DeleteSend(t) \/ M!RejectDecide(t)
    PROVE  \E w \in Looks : EndsOn(m, w)'
                            /\ IF post'[t].msg = m THEN ScreenStage(t, m, w)' ELSE Right(m, w)'
<1>0. /\ post \in [Tasks -> Job] /\ row \in [Mid -> Line] /\ post[t] \in Job /\ row[m] \in Line /\ JobsTyped
      /\ m # 0 /\ PageTyped /\ queue \in Seq(Event) /\ tab' = tab
      /\ conn.pc \in {"closed", "loading", "open", "marking"}
  BY MessageBounds DEF MessagesTyped, JobsTyped, LinesTyped, PageTyped, Mid, Moves
<1>1. M!Finish(t) => post'[t].msg # m
  BY <1>0, IsDone
<1>2. \A place : M!Goto(t, place) =>
        /\ post'[t] = [post[t] EXCEPT !.pc = place]
        /\ post'[t].pc = place /\ post'[t].kind = post[t].kind /\ post'[t].msg = m
  BY <1>0 DEF M!Goto, Job
<1>3. post[t].pc \notin {"idle", "upto", "seen"} => post[t].kind \in KindsAt(post[t].pc)
  BY BusyMessage
<1>4. queue' = queue => EndsOn(m, v)'
  BY <1>0, EndsKept
<1>5. row' = row => (Right(m, v) => Right(m, v)') /\ (M!Visible(m) <=> M!Visible(m)')
  BY DEF Right, M!Visible
<1>6. CASE M!PostFlip(t)
  <2>1. /\ post[t].pc = "flip" /\ M!Goto(t, "enqueue") /\ queue' = queue /\ post[t].kind = "post"
    BY <1>3, <1>6, KindsAre DEF M!PostFlip
  <2>2. post'[t].pc = "enqueue" /\ post'[t].kind = "post" /\ post'[t].msg = m
    BY <1>2, <2>1
  <2>3. v \in {"absent", "gone"}
    BY <2>1 DEF ScreenStage
  <2>4. ScreenStage(t, m, v)'
    BY <2>2, <2>3 DEF ScreenStage
  <2> QED
    BY <1>4, <2>1, <2>2, <2>4
<1>7. CASE M!PostEnqueue(t)
  <2>1. post[t].pc = "enqueue" /\ M!Finish(t) /\ row' = row /\ queue' = queue
    BY <1>7 DEF M!PostEnqueue
  <2>2. row'[m].held /\ v \in {"absent", "gone"}
    BY <2>1 DEF ScreenStage, RowFits
  <2>3. Right(m, v)'
    BY <2>2 DEF Right, M!Visible
  <2> QED
    BY <1>1, <1>4, <2>1, <2>3
<1>8. CASE M!EditWrite(t)
  <2>1. post[t].pc = "write" /\ M!Goto(t, "render") /\ post[t].kind = "edit" /\ queue' = queue
    BY <1>3, <1>8, KindsAre DEF M!EditWrite, RowFits, M!Visible
  <2>2. post'[t].pc = "render" /\ post'[t].kind = "edit" /\ post'[t].msg = m
    BY <1>2, <2>1
  <2>3. v # "absent"
    BY <2>1 DEF ScreenStage
  <2>4. ScreenStage(t, m, v)'
    BY <2>2, <2>3 DEF ScreenStage
  <2> QED
    BY <1>4, <2>1, <2>2, <2>4
<1>9. CASE M!Render(t)
  <2>1. post[t].pc = "render" /\ row' = row /\ queue' = queue
    BY <1>9 DEF M!Render
  <2>2. CASE M!Visible(m)
    <3>1. post' = [post EXCEPT ![t].pc = "send", ![t].read = row[m].body]
      BY <1>9, <2>2 DEF M!Render
    <3>2. post'[t].pc = "send" /\ post'[t].kind = post[t].kind /\ post'[t].msg = m
      BY <1>0, <3>1 DEF Job
    <3>3. ScreenStage(t, m, v)'
      BY <2>1, <3>2 DEF ScreenStage
    <3> QED
      BY <1>4, <2>1, <3>2, <3>3
  <2>3. CASE ~M!Visible(m)
    <3>1. post[t].kind = "approve" /\ M!Finish(t)
      BY <1>9, <2>1, <2>3 DEF M!Render, RowFits
    <3>2. Right(m, v)
      BY <2>1, <2>3, <3>1 DEF ScreenStage, Right
    <3> QED
      BY <1>1, <1>4, <1>5, <2>1, <3>1, <3>2
  <2> QED
    BY <2>2, <2>3
<1>10. CASE M!Mentions(t)
  <2>1. /\ post[t].pc = "mentions" /\ row' = row /\ queue' = queue /\ Right(m, v)
        /\ post[t].kind \in {"post", "edit"}
    BY <1>3, <1>10, KindsAre DEF M!Mentions, ScreenStage
  <2>2. CASE M!Finish(t)
    BY <1>1, <1>4, <1>5, <2>1, <2>2
  <2>3. CASE post' = [post EXCEPT ![t].pc = "rows", ![t].had = mention[m] # "none"]
    <3>1. post'[t].pc = "rows" /\ post'[t].msg = m
      BY <1>0, <2>3 DEF Job
    <3>2. ScreenStage(t, m, v)'
      BY <1>5, <2>1, <3>1 DEF ScreenStage
    <3> QED
      BY <1>4, <2>1, <3>1, <3>2
  <2> QED
    BY <1>10, <2>2, <2>3 DEF M!Mentions
<1>11. CASE M!Rows(t)
  <2>1. post[t].pc = "rows" /\ row' = row /\ queue' = queue /\ M!Finish(t) /\ Right(m, v)
    BY <1>11 DEF M!Rows, ScreenStage
  <2> QED
    BY <1>1, <1>4, <1>5, <2>1
<1>12. CASE M!DeleteMentions(t) \/ M!DeleteRow(t)
  <2>1. PICK place \in {"remove", "tombstone"} : M!Goto(t, place)
    BY <1>12 DEF M!DeleteMentions, M!DeleteRow
  <2>2. /\ post[t].kind = "delete" /\ queue' = queue
    BY <1>3, <1>12, KindsAre DEF M!DeleteMentions, M!DeleteRow
  <2>3. post'[t].pc = place /\ post'[t].kind = "delete" /\ post'[t].msg = m
    BY <1>2, <2>1, <2>2
  <2>4. ScreenStage(t, m, v)'
    BY <2>3 DEF ScreenStage
  <2> QED
    BY <1>4, <2>2, <2>3, <2>4
<1>13. CASE M!RejectDecide(t)
  <2>1. post[t].pc = "decide" /\ row' = row /\ queue' = queue /\ M!Finish(t)
    BY <1>13 DEF M!RejectDecide
  <2>2. Right(m, v)
    BY <2>1 DEF RowFits, ScreenStage, Right, M!Visible
  <2> QED
    BY <1>1, <1>4, <1>5, <2>1, <2>2
<1>14. ASSUME NEW what \in {"new", "edit", "deleted"}, NEW b \in Bodies, M!Broadcast(what, m, b),
              NEW w, w = After([what |-> what, msg |-> m, body |-> b], m, v)
       PROVE  w \in Looks /\ EndsOn(m, w)'
  <2> DEFINE e == [what |-> what, msg |-> m, body |-> b]
  <2>1. e \in Event
    BY DEF Event
  <2>2. queue' = Append(queue, e)
    BY <1>0, <1>14 DEF M!Broadcast
  <2> HIDE DEF e
  <2>3. w = After(e, m, v)
    BY <1>14 DEF e
  <2> QED
    BY <1>0, <2>1, <2>2, <2>3, EndsTold
<1>15. CASE M!Send(t)
  <2>1. /\ post[t].pc = "send" /\ row' = row /\ post[t].read \in Bodies
        /\ M!Broadcast(IF post[t].kind = "edit" THEN "edit" ELSE "new", m, post[t].read)
    BY <1>0, <1>15 DEF M!Send, Job
  <2>2. PICK b \in Bodies, what \in {"new", "edit", "deleted"} :
          /\ b = post[t].read /\ what = IF post[t].kind = "edit" THEN "edit" ELSE "new"
    BY <2>1
  <2>3. M!Broadcast(what, m, b)
    BY <2>1, <2>2
  <2>4. b = row[m].body /\ M!Visible(m) /\ (what = "edit" => v # "absent") /\ what # "deleted"
    BY <2>1, <2>2 DEF RowFits, ScreenStage
  <2>5. After([what |-> what, msg |-> m, body |-> b], m, v) = b
    BY <2>4 DEF After
  <2>6. b \in Looks /\ EndsOn(m, b)'
    BY <1>14, <2>3, <2>5
  <2>7. Right(m, b)'
    BY <1>5, <2>1, <2>4 DEF Right, M!Visible
  <2>8. CASE M!Finish(t)
    BY <1>1, <2>6, <2>7, <2>8
  <2>9. CASE M!Goto(t, "mentions")
    <3>1. post'[t].pc = "mentions" /\ post'[t].msg = m
      BY <1>2, <2>9
    <3>2. ScreenStage(t, m, b)'
      BY <2>7, <3>1 DEF ScreenStage
    <3> QED
      BY <2>6, <3>1, <3>2
  <2> QED
    BY <1>15, <2>8, <2>9 DEF M!Send
<1>16. CASE M!DeleteSend(t)
  <2>1. /\ post[t].pc = "tombstone" /\ row' = row /\ M!Finish(t)
        /\ M!Broadcast("deleted", m, M!NoRow.body) /\ M!NoRow.body \in Bodies
    BY <1>16, BlankJob DEF M!DeleteSend
  <2>2. PICK w \in {"absent", "gone"} : w = After([what |-> "deleted", msg |-> m, body |-> M!NoRow.body], m, v)
    BY DEF After
  <2>3. w \in Looks /\ EndsOn(m, w)'
    BY <1>14, <2>1, <2>2
  <2>4. Right(m, w)'
    BY <2>1, <2>2 DEF Right, RowFits, M!Visible
  <2> QED
    BY <1>1, <2>1, <2>3, <2>4
<1> QED
  BY <1>6, <1>7, <1>8, <1>9, <1>10, <1>11, <1>12, <1>13, <1>15, <1>16
LEMMA ScreenStageStarts ==
    ASSUME MessagesTyped, NEW t \in Tasks, NEW m \in Mid, m \notin missed', NEW v \in Looks, Right(m, v),
           \/ \E b \in Bodies, hold \in BOOLEAN : M!PostInsert(t, m, b, hold)
           \/ \E b \in Bodies : M!EditCheck(t, m, b)
           \/ M!DeleteCheck(t, m) \/ M!CoyotePurge(t, m) \/ M!Purge(t, m)
           \/ M!Approve(t, m) \/ M!Reject(t, m)
    PROVE  ScreenStage(t, m, v)'
<1>0. /\ row \in [Mid -> Line] /\ JobsTyped /\ row[m] \in Line
      /\ "absent" \notin Bodies
  BY MessageBounds DEF MessagesTyped, LinesTyped
<1>1. \A place \in JobPlaces \ {"idle", "upto", "seen"} : \A kind \in KindsAt(place), b \in Bodies :
        M!Begin(t, kind, m, place, b) =>
            post'[t].pc = place /\ post'[t].kind = kind /\ post'[t].body = b
  BY <1>0, Begins
<1>2. M!NoRow.body \in Bodies
  BY BlankJob
<1>3. ASSUME NEW b \in Bodies, NEW hold \in BOOLEAN, M!PostInsert(t, m, b, hold) PROVE ScreenStage(t, m, v)'
  <2>1. "post" \in KindsAt("flip") /\ "post" \in KindsAt("render")
    BY KindsAre
  <2>2. post'[t].pc \in {"flip", "render"} /\ post'[t].kind = "post"
    BY <1>1, <1>3, <2>1 DEF M!PostInsert, JobPlaces
  <2>3. v \in {"absent", "gone"}
    BY <1>3 DEF M!PostInsert, Right, M!Visible
  <2> QED
    BY <2>2, <2>3 DEF ScreenStage
<1>4. ASSUME NEW b \in Bodies, M!EditCheck(t, m, b) PROVE ScreenStage(t, m, v)'
  <2>1. post'[t].pc = "write" /\ post'[t].kind = "edit" /\ M!Visible(m)
    BY <1>1, <1>4, KindsAre DEF M!EditCheck, JobPlaces
  <2>2. v # "absent"
    BY <1>0, <2>1 DEF Right, Line
  <2> QED
    BY <2>1, <2>2 DEF ScreenStage
<1>5. ASSUME M!DeleteCheck(t, m) PROVE ScreenStage(t, m, v)'
  <2>1. post'[t].pc = "unmention" /\ post'[t].kind = "delete"
    BY <1>1, <1>2, <1>5, KindsAre DEF M!DeleteCheck, JobPlaces
  <2> QED
    BY <2>1 DEF ScreenStage
<1>6. ASSUME M!CoyotePurge(t, m) PROVE ScreenStage(t, m, v)'
  <2>1. post'[t].pc = "tombstone" /\ post'[t].kind = "coyote"
    BY <1>1, <1>2, <1>6, KindsAre DEF M!CoyotePurge, JobPlaces
  <2> QED
    BY <2>1 DEF ScreenStage
<1>7. ASSUME M!Purge(t, m) PROVE ScreenStage(t, m, v)'
  <2>1. post'[t].pc = "tombstone" /\ post'[t].kind = "sweep"
    BY <1>1, <1>2, <1>7, KindsAre DEF M!Purge, JobPlaces
  <2> QED
    BY <2>1 DEF ScreenStage
<1>8. ASSUME M!Approve(t, m) PROVE ScreenStage(t, m, v)'
  <2>1. /\ post'[t].pc = "render" /\ post'[t].kind = "approve"
        /\ row' = [row EXCEPT ![m].held = FALSE]
    BY <1>1, <1>2, <1>8, KindsAre DEF M!Approve, JobPlaces
  <2>2. M!Visible(m) => M!Visible(m)'
    BY <1>0, <2>1 DEF M!Visible, Line
  <2> QED
    BY <2>1, <2>2 DEF ScreenStage, Right
<1>9. ASSUME M!Reject(t, m) PROVE ScreenStage(t, m, v)'
  <2>1. post'[t].pc = "decide" /\ post'[t].kind = "reject" /\ M!Begin(t, "reject", m, "decide", M!NoRow.body)
    BY <1>1, <1>2, <1>9, KindsAre DEF M!Reject, JobPlaces
  <2>2. ~M!Visible(m)
    BY <2>1 DEF M!Begin
  <2> QED
    BY <2>1, <2>2 DEF ScreenStage, Right
<1> QED
  BY <1>3, <1>4, <1>5, <1>6, <1>7, <1>8, <1>9

LEMMA ScreenStep ==
    ASSUME MessagesTyped, [M!Next]_thread, NEW n \in Mid, WorkSound(n), ScreenSound(n)
    PROVE  ScreenSound(n)'
<1>1. ASSUME NEW t \in Tasks,
             \/ M!PostFlip(t) \/ M!PostEnqueue(t) \/ M!EditWrite(t) \/ M!Render(t) \/ M!Send(t)
             \/ M!Mentions(t) \/ M!Rows(t) \/ M!DeleteMentions(t) \/ M!DeleteRow(t)
             \/ M!DeleteSend(t) \/ M!RejectDecide(t)
      PROVE  ScreenSound(n)'
  <2>1. Moves(t)
    BY <1>1, MovesAre
  <2>2. ASSUME NEW v \in Looks, post[t].msg = n, conn.pc # "closed", n \notin missed', EndsOn(n, v),
               RowFits(t, n), ScreenStage(t, n, v)
        PROVE  \E w \in Looks : EndsOn(n, w)'
                                /\ IF post'[t].msg = n THEN ScreenStage(t, n, w)' ELSE Right(n, w)'
    BY <1>1, <2>1, <2>2, ScreenStageMoves
  <2> QED
    BY <2>1, <2>2, ScreenMoves
<1>2. ASSUME NEW t \in Tasks, NEW m \in Mid,
             \/ \E b \in Bodies, hold \in BOOLEAN : M!PostInsert(t, m, b, hold)
             \/ \E b \in Bodies : M!EditCheck(t, m, b)
             \/ M!DeleteCheck(t, m) \/ M!CoyotePurge(t, m) \/ M!Purge(t, m)
             \/ M!Approve(t, m) \/ M!Reject(t, m)
      PROVE  ScreenSound(n)'
  <2>1. Starts(t, m)
    BY <1>2, StartsAre
  <2>2. \A v \in Looks : m \notin missed' /\ Right(m, v) => ScreenStage(t, m, v)'
    BY <1>2, ScreenStageStarts
  <2> QED
    BY <2>1, <2>2, ScreenStarts
<1>3. CASE M!OpenPage
  BY <1>3, ScreenOpens
<1>4. CASE M!DeliverNew \/ M!DeliverChange
  <2>1. Aside /\ UNCHANGED missed /\ conn.pc # "closed"
    BY <1>4, AsidesAre DEF M!DeliverNew, M!DeliverChange, M!history
  <2> QED
    BY <1>4, <2>1, ScreenDelivers, ScreenAside
<1>5. CASE \/ \E t \in Tasks : M!MarkRead(t) \/ M!MarkedRead(t) \/ M!MarkedMentions(t)
           \/ M!PageRead \/ M!PageMentions \/ M!PageOpen \/ M!DeliverRead
           \/ \E m \in Mid : M!MarkUnread(m)
           \/ UNCHANGED thread
  <2>1. Aside
    BY <1>5, AsidesAre
  <2>2. UNCHANGED <<missed, tab, queue>>
    BY <1>5 DEF M!MarkRead, M!MarkedRead, M!MarkedMentions, M!PageRead, M!PageMentions, M!PageOpen,
       M!DeliverRead, M!MarkUnread, M!readState, M!history, thread
  <2>3. conn'.pc # "closed" => conn.pc # "closed"
    <3>1. /\ conn \in [pc : {"closed", "loading", "open", "marking"}, msg : 0..Last,
                       at : {"none", "list", "read", "sent"}]
          /\ conn.pc = "loading" <=> conn.at # "none"
      BY DEF MessagesTyped, PageTyped
    <3> QED
      BY <1>5, <3>1 DEF M!MarkRead, M!MarkedRead, M!MarkedMentions, M!PageRead, M!PageMentions,
         M!PageOpen, M!DeliverRead, M!MarkUnread, M!readState, thread
  <2> QED
    BY <2>1, <2>2, <2>3, EndsKept, ScreenAside
<1>6. CASE M!ClosePage
  <2>1. conn'.pc = "closed"
    BY <1>6 DEF M!ClosePage, M!NoConn
  <2> QED
    BY <2>1 DEF ScreenSound
<1> QED
  BY <1>1, <1>2, <1>3, <1>4, <1>5, <1>6, MessageSteps

MessageInv ==
    /\ MessagesTyped /\ ReadFollows
    /\ \A m \in Mid : WorkSound(m) /\ MentionSound(m) /\ ScreenSound(m)

LEMMA MessageInit == M!Init => MessageInv
<1> SUFFICES ASSUME M!Init PROVE MessageInv
  OBVIOUS
<1>1. MessagesTyped /\ ReadFollows
  BY MessagesTypedInit, ReadFollowsInit
<1>2. ASSUME NEW m \in Mid PROVE WorkSound(m) /\ MentionSound(m) /\ ScreenSound(m)
  <2>1. \A t \in Tasks : post[t].msg # m
    BY BlankJob, MessageBounds DEF M!Init, Mid
  <2>2. row[m].at = "none" /\ mention[m] = "none" /\ conn.pc = "closed"
    BY BlankJob, MessageBounds DEF M!Init, M!NoConn
  <2> QED
    BY <2>1, <2>2 DEF WorkSound, Sole, MentionSound, MentionsFit, M!Visible, ScreenSound
<1> QED
  BY <1>1, <1>2 DEF MessageInv

LEMMA MessageStep == MessageInv /\ [M!Next]_thread => MessageInv'
<1> SUFFICES ASSUME MessageInv, [M!Next]_thread PROVE MessageInv'
  OBVIOUS
<1>1. MessagesTyped' /\ ReadFollows'
  BY MessagesTypedStep, ReadFollowsStep DEF MessageInv
<1>2. ASSUME NEW m \in Mid PROVE WorkSound(m)' /\ MentionSound(m)' /\ ScreenSound(m)'
  BY WorkStep, MentionStep, ScreenStep DEF MessageInv
<1> QED
  BY <1>1, <1>2 DEF MessageInv

LEMMA MessageInvGives ==
    MessageInv => M!TypeOK /\ M!ScreensAgree /\ M!MentionsFollow /\ M!ReadCoversMentions
<1> SUFFICES ASSUME MessageInv PROVE M!ScreensAgree /\ M!MentionsFollow
  BY ReadFollowsGives DEF MessageInv
<1>1. M!MentionsFollow
  BY MessageBounds DEF MessageInv, MentionSound, MentionsFit, M!MentionsFollow
<1>2. M!ScreensAgree
  <2> SUFFICES ASSUME conn.pc = "open", \A t \in Tasks : post[t].pc = "idle", queue = <<>>,
                      NEW m \in Mid \ missed
               PROVE  IF M!Visible(m) THEN tab[m] = row[m].body ELSE tab[m] \in {"absent", "gone"}
    BY MessageBounds DEF M!ScreensAgree, M!Quiet
  <2>1. ~M!Working(m)
    BY MessageBounds DEF MessageInv, MessagesTyped, JobsTyped, Fitting, M!Working, Mid
  <2>2. PICK v \in Looks : EndsOn(m, v) /\ Right(m, v)
    BY <2>1 DEF MessageInv, ScreenSound
  <2>3. v = tab[m]
    BY <2>2, EndsQuiet
  <2> QED
    BY <2>2, <2>3 DEF Right
<1> QED
  BY <1>1, <1>2

(* A channel and its reader, for any number of messages, bodies and          *)
(* handlers: an open page ends on what the table holds, the mention rows say *)
(* what the messages say, and what the watermark has passed is read: each    *)
(* but for the crossings Messages names.                                     *)
THEOREM ReaderIsRight ==
    M!Spec => [](M!TypeOK /\ M!ScreensAgree /\ M!MentionsFollow /\ M!ReadCoversMentions)
<1>1. MessageInv /\ [M!Next]_(M!vars) => MessageInv'
  BY MessageStep DEF M!vars, thread
<1> QED
  BY <1>1, MessageInit, MessageInvGives, PTL DEF M!Spec
-------------------------------------------------------------------------------
(* The hub, for every set of users and connections.                          *)

USE HubAssumption

(* The handler steps during which the index lists the connection. *)
Listed == {"first", "live", "subscribing", "moving", "closing"}

LEMMA GotoTyped ==
    ASSUME TypeOK, NEW c \in Conns, NEW to \in ConnPC, Goto(c, to)
    PROVE  /\ pc' \in [Conns -> ConnPC]
           /\ blurred' \subseteq Users
           /\ Overlapping(pc') \subseteq blurred'
           /\ blurred \subseteq blurred'
BY DEF TypeOK, Goto, Overlapping

(* Type correctness of the hub's maps (ws/hub.rs) and of the handlers;     *)
(* connections are collected only once a removal drops them.               *)
THEOREM TypeCorrect == Spec => []TypeOK
<1>1. Init => TypeOK
  BY DEF Init, TypeOK, NoEntry, Idle, ConnPC
<1>2. TypeOK /\ [Next]_vars => TypeOK'
  <2> SUFFICES ASSUME TypeOK, [Next]_vars PROVE TypeOK'
    OBVIOUS
  <2> USE DEF TypeOK
  <2>1. ASSUME NEW c \in Conns, ConnStep(c) PROVE TypeOK'
    <3> USE GotoTyped DEF ConnPC
    <3>1. CASE Register(c)
      <4>1. Goto(c, "registered")
        BY <3>1 DEF Register
      <4> QED
        BY <3>1, <4>1, GotoTyped DEF Register
    <3>2. CASE Index(c)
      BY <3>2 DEF Index
    <3>3. CASE Announce(c)
      BY <3>3 DEF Announce
    <3>9. CASE AnnounceFails(c)
      BY <3>9 DEF AnnounceFails
    <3>4. CASE SubscribeCheck(c) \/ PageCheck(c) \/ PageElsewhere(c)
      <4>1. PICK to \in ConnPC : Goto(c, to)
        BY <3>4 DEF SubscribeCheck, PageCheck, PageElsewhere
      <4> QED
        BY <3>4, <4>1 DEF SubscribeCheck, PageCheck, PageElsewhere
    <3>5. CASE Subscribe(c) \/ PageMove(c)
      BY <3>5 DEF Subscribe, PageMove, JoinTopic, LeaveTopic
    <3>6. CASE Close(c) \/ Forget(c) \/ Goodbye(c)
      BY <3>6 DEF Close, Forget, Goodbye
    <3>7. CASE Unindex(c)
      <4>1. index' \in [Users -> [there: BOOLEAN, ids: SUBSET Conns]]
        BY <3>7, SMTT(60) DEF Unindex, Remaining
      <4>2. PICK to \in ConnPC : Goto(c, to)
        BY <3>7 DEF Unindex
      <4> QED
        BY <3>7, <4>1, <4>2, GotoTyped DEF Unindex
    <3>8. CASE RemoveEntry(c)
      BY <3>8 DEF RemoveEntry, NoEntry
    <3> QED
      BY <2>1, <3>1, <3>2, <3>3, <3>4, <3>5, <3>6, <3>7, <3>8, <3>9 DEF ConnStep
  <2>2. ASSUME NEW u \in Users, MemberStep(u) PROVE TypeOK'
    <3>1. CASE Remove(u)
      BY <3>1 DEF Remove, Idle
    <3>2. CASE Collect(u)
      BY <3>2 DEF Collect
    <3>3. ASSUME NEW c \in Conns, Drop(u, c) PROVE TypeOK'
      BY <3>3 DEF Drop
    <3>4. CASE Dropped(u)
      BY <3>4 DEF Dropped, Idle
    <3>5. CASE Join(u)
      BY <3>5 DEF Join
    <3> QED
      BY <2>2, <3>1, <3>2, <3>3, <3>4, <3>5 DEF MemberStep
  <2>3. CASE UNCHANGED vars
    BY <2>3 DEF vars
  <2> QED
    BY <2>1, <2>2, <2>3 DEF Next
<1> QED
  BY <1>1, <1>2, PTL DEF Spec

-----------------------------------------------------------------------------
(* What the handlers keep true between the maps.                           *)

(* The index lists a connection only for its owner and only while its      *)
(* handler is between its two calls on the index; a closed connection is   *)
(* in no map.                                                              *)
MapsFollow ==
    /\ \A c \in connections :
          pc[c] \in {"registered", "first", "live", "subscribing", "moving"}
    /\ \A c \in topic :
          pc[c] \notin {"new", "registered", "first", "backstops", "gone"}
    /\ \A u \in Users : \A c \in index[u].ids : Owner[c] = u /\ pc[c] \in Listed
    /\ \A u \in Users : index[u].ids # {} => index[u].there

LEMMA MapsFollowInv == Spec => []MapsFollow
<1>1. Init => MapsFollow
  BY DEF Init, MapsFollow, NoEntry
<1>2. TypeOK /\ MapsFollow /\ [Next]_vars => MapsFollow'
  <2> SUFFICES ASSUME TypeOK, MapsFollow, [Next]_vars PROVE MapsFollow'
    OBVIOUS
  <2> USE DEF TypeOK, MapsFollow, Listed
  <2>1. ASSUME NEW c \in Conns, ConnStep(c) PROVE MapsFollow'
    <3> USE DEF Goto
    <3>1. CASE Register(c)
      BY <3>1 DEF Register
    <3>2. CASE Index(c)
      BY <3>2 DEF Index
    <3>3. CASE Announce(c)
      BY <3>3 DEF Announce
    <3>4. CASE AnnounceFails(c)
      BY <3>4 DEF AnnounceFails
    <3>5. CASE SubscribeCheck(c)
      BY <3>5 DEF SubscribeCheck
    <3>6. CASE Subscribe(c)
      BY <3>6 DEF Subscribe, JoinTopic
    <3>7. CASE PageCheck(c)
      BY <3>7 DEF PageCheck
    <3>8. CASE PageElsewhere(c)
      BY <3>8 DEF PageElsewhere
    <3>9. CASE PageMove(c)
      BY <3>9 DEF PageMove, LeaveTopic
    <3>10. CASE Close(c)
      BY <3>10 DEF Close
    <3>11. CASE Unindex(c)
      BY <3>11 DEF Unindex, Remaining
    <3>12. CASE RemoveEntry(c)
      BY <3>12 DEF RemoveEntry, NoEntry
    <3>13. CASE Forget(c)
      BY <3>13 DEF Forget
    <3>14. CASE Goodbye(c)
      BY <3>14 DEF Goodbye
    <3> QED
      BY <2>1, <3>1, <3>2, <3>3, <3>4, <3>5, <3>6, <3>7, <3>8, <3>9, <3>10,
         <3>11, <3>12, <3>13, <3>14 DEF ConnStep
  <2>2. ASSUME NEW u \in Users, MemberStep(u) PROVE MapsFollow'
    BY <2>2 DEF MemberStep, Remove, Collect, Drop, Dropped, Join
  <2>3. CASE UNCHANGED vars
    BY <2>3 DEF vars
  <2> QED
    BY <2>1, <2>2, <2>3 DEF Next
<1> QED
  BY <1>1, <1>2, TypeCorrect, PTL DEF Spec

(* A closed connection is in none of the hub's maps. *)
THEOREM Forgotten == Spec => []ClosedIsForgotten
<1>1. MapsFollow /\ TypeOK => ClosedIsForgotten
  BY DEF MapsFollow, ClosedIsForgotten, Listed, TypeOK
<1> QED
  BY <1>1, MapsFollowInv, TypeCorrect, PTL

-----------------------------------------------------------------------------
(* Removals.                                                               *)

(* The removal's claim, and what it is while the loop still has           *)
(* connections to unsubscribe.                                            *)
Reaching ==
    \A c \in topic :
        /\ Owner[c] \notin member
        /\ removal[Owner[c]].step # "removed"
        => c \in late \/ c \notin index[Owner[c]].ids \/ c \in removal[Owner[c]].ids

LEMMA ReachingInv == Spec => []Reaching
<1>1. Init => Reaching
  BY DEF Init, Reaching
<1>2. TypeOK /\ MapsFollow /\ Reaching /\ [Next]_vars => Reaching'
  <2> SUFFICES ASSUME TypeOK, MapsFollow, Reaching, [Next]_vars PROVE Reaching'
    OBVIOUS
  <2> USE DEF TypeOK, Reaching
  <2>1. ASSUME NEW c \in Conns, ConnStep(c) PROVE Reaching'
    <3>1. CASE Index(c)
      <4>1. c \notin topic
        BY <3>1 DEF Index, MapsFollow
      <4> QED
        BY <3>1, <4>1 DEF Index
    <3>2. CASE Subscribe(c)
      BY <3>2 DEF Subscribe, JoinTopic
    <3>3. CASE PageMove(c)
      BY <3>3 DEF PageMove, LeaveTopic
    <3>4. CASE Unindex(c)
      BY <3>4 DEF Unindex, Remaining
    <3>5. CASE RemoveEntry(c)
      BY <3>5 DEF RemoveEntry, NoEntry
    <3>6. CASE Forget(c)
      BY <3>6 DEF Forget
    <3>7. CASE Register(c) \/ Announce(c) \/ AnnounceFails(c) \/ SubscribeCheck(c)
               \/ PageCheck(c) \/ PageElsewhere(c) \/ Close(c) \/ Goodbye(c)
      BY <3>7 DEF Register, Announce, AnnounceFails, SubscribeCheck, PageCheck,
         PageElsewhere, Close, Goodbye
    <3> QED
      BY <2>1, <3>1, <3>2, <3>3, <3>4, <3>5, <3>6, <3>7 DEF ConnStep
  <2>2. ASSUME NEW u \in Users, MemberStep(u) PROVE Reaching'
    <3>1. CASE Remove(u)
      BY <3>1 DEF Remove, Idle
    <3>2. CASE Collect(u)
      BY <3>2 DEF Collect
    <3>3. ASSUME NEW c \in Conns, Drop(u, c) PROVE Reaching'
      BY <3>3 DEF Drop
    <3>4. CASE Dropped(u)
      BY <3>4 DEF Dropped, Idle
    <3>5. CASE Join(u)
      BY <3>5 DEF Join
    <3> QED
      BY <2>2, <3>1, <3>2, <3>3, <3>4, <3>5 DEF MemberStep
  <2>3. CASE UNCHANGED vars
    BY <2>3 DEF vars
  <2> QED
    BY <2>1, <2>2, <2>3 DEF Next
<1> QED
  BY <1>1, <1>2, TypeCorrect, MapsFollowInv, PTL DEF Spec

(* After a removal returned, only a connection that entered late or that   *)
(* the index had lost is still on the topic.                               *)
THEOREM RemovalIsThorough == Spec => []RemovalReachesTopic
<1>1. TypeOK /\ Reaching => RemovalReachesTopic
  <2> SUFFICES ASSUME TypeOK, Reaching, NEW c \in topic,
                      Owner[c] \notin member, removal[Owner[c]].step = "idle"
               PROVE  c \in late \/ c \notin index[Owner[c]].ids
    BY DEF RemovalReachesTopic
  <2>1. c \in Conns /\ Owner[c] \in Users
    BY DEF TypeOK
  <2>2. removal[Owner[c]].ids = {}
    BY <2>1 DEF TypeOK
  <2> QED
    BY <2>1, <2>2 DEF Reaching
<1> QED
  BY <1>1, TypeCorrect, ReachingInv, PTL

-----------------------------------------------------------------------------
(* Presence.                                                               *)

Leaving == {"emptied", "last", "backstops"}

(* For a user none of whose connections opened while another closed: the   *)
(* index lists exactly the connections that are up, it is empty while one  *)
(* goes offline, and the presence follows it while nobody announces.       *)
IndexIsUp ==
    \A c \in Conns : Owner[c] \notin blurred =>
        /\ pc[c] \in Listed => c \in index[Owner[c]].ids
        /\ pc[c] \in Leaving => index[Owner[c]].ids = {}

Announcing(u) == \E c \in Conns : Owner[c] = u /\ pc[c] \in Leaving \cup {"first"}

ShownFollows ==
    \A u \in Users : u \notin blurred =>
        Announcing(u) \/ (shown[u] = "online" <=> index[u].ids # {})

Following == Overlapping(pc) \subseteq blurred /\ IndexIsUp /\ ShownFollows

LEMMA FollowingInv == Spec => []Following
<1>1. Init => Following
  BY DEF Init, Following, IndexIsUp, ShownFollows, Overlapping, Opening, Closing, Listed, Leaving, NoEntry
<1>2. TypeOK /\ TypeOK' /\ MapsFollow /\ Following /\ [Next]_vars => Following'
  <2> SUFFICES ASSUME TypeOK, TypeOK', MapsFollow, Following, [Next]_vars PROVE Following'
    OBVIOUS
  <2> USE DEF TypeOK, Following, IndexIsUp, ShownFollows, Announcing, Listed, Leaving
  <2>1. ASSUME NEW c \in Conns, ConnStep(c) PROVE Following'
    <3> USE DEF Goto
    <3>1. CASE Register(c)
      <4>1. Overlapping(pc)' \subseteq blurred'
        BY <3>1 DEF Register
      <4>2. IndexIsUp'
        BY <3>1 DEF Register
      <4>3. ShownFollows'
        BY <3>1 DEF Register
      <4> QED
        BY <4>1, <4>2, <4>3
    <3>2. CASE Index(c)
      <4>1. Overlapping(pc)' \subseteq blurred'
        BY <3>2 DEF Index
      <4>2. IndexIsUp'
        BY <3>2 DEF Index, Overlapping, Opening, Closing
      <4>3. ASSUME NEW u \in Users, u \notin blurred'
            PROVE  Announcing(u)' \/ (shown[u] = "online" <=> index[u].ids # {})'
        <5>1. shown' = shown /\ pc[c] = "registered" /\ u \notin blurred
          BY <3>2, <4>3 DEF Index
        <5>2. CASE Announcing(u)
          <6>1. PICK d \in Conns : Owner[d] = u /\ pc[d] \in Leaving \cup {"first"}
            BY <5>2
          <6>2. pc'[d] = pc[d]
            BY <3>2, <5>1, <6>1 DEF Index
          <6> QED
            BY <6>1, <6>2
        <5>3. CASE ~Announcing(u) /\ u = Owner[c] /\ index[u].ids = {}
          <6>1. pc'[c] = "first"
            BY <3>2, <5>3 DEF Index
          <6> QED
            BY <5>3, <6>1
        <5>4. CASE ~Announcing(u) /\ (u # Owner[c] \/ index[u].ids # {})
          <6>1. index'[u].ids # {} <=> index[u].ids # {}
            BY <3>2, <5>4 DEF Index
          <6> QED
            BY <5>1, <5>4, <6>1
        <5> QED
          BY <5>2, <5>3, <5>4
      <4> QED
        BY <4>1, <4>2, <4>3
    <3>3. CASE Announce(c)
      BY <3>3 DEF Announce
    <3>4. CASE AnnounceFails(c)
      <4>1. Overlapping(pc)' \subseteq blurred'
        BY <3>4 DEF AnnounceFails, Overlapping, Opening, Closing
      <4>2. IndexIsUp'
        BY <3>4 DEF AnnounceFails
      <4>3. ShownFollows'
        BY <3>4 DEF AnnounceFails
      <4> QED
        BY <4>1, <4>2, <4>3
    <3>5. CASE SubscribeCheck(c) \/ PageCheck(c) \/ PageElsewhere(c)
      BY <3>5 DEF SubscribeCheck, PageCheck, PageElsewhere
    <3>6. CASE Subscribe(c) \/ PageMove(c)
      <4>1. /\ pc[c] \in {"subscribing", "moving"}
            /\ Goto(c, "live")
            /\ UNCHANGED <<index, shown>>
        BY <3>6 DEF Subscribe, PageMove
      <4>2. IndexIsUp'
        BY <4>1
      <4>3. ShownFollows'
        BY <4>1
      <4> QED
        BY <4>1, <4>2, <4>3
    <3>7. CASE Close(c)
      BY <3>7, SMTT(60) DEF Close
    <3>8. CASE Unindex(c)
      <4>1. Overlapping(pc)' \subseteq blurred'
        BY <3>8 DEF Unindex
      <4>2. IndexIsUp'
        BY <3>8 DEF Unindex, Remaining, LastOne, MapsFollow
      <4>3. ShownFollows'
        BY <3>8 DEF Unindex, Remaining, LastOne, MapsFollow
      <4> QED
        BY <4>1, <4>2, <4>3
    <3>9. CASE RemoveEntry(c)
      BY <3>9 DEF RemoveEntry, NoEntry
    <3>10. CASE Forget(c)
      BY <3>10 DEF Forget
    <3>11. CASE Goodbye(c)
      <4>1. Overlapping(pc)' \subseteq blurred'
        BY <3>11 DEF Goodbye
      <4>2. IndexIsUp'
        BY <3>11 DEF Goodbye
      <4>3. ShownFollows'
        BY <3>11 DEF Goodbye
      <4> QED
        BY <4>1, <4>2, <4>3
    <3> QED
      BY <2>1, <3>1, <3>2, <3>3, <3>4, <3>5, <3>6, <3>7, <3>8, <3>9, <3>10,
         <3>11 DEF ConnStep
  <2>2. ASSUME NEW u \in Users, MemberStep(u) PROVE Following'
    BY <2>2 DEF MemberStep, Remove, Collect, Drop, Dropped, Join, Overlapping
  <2>3. CASE UNCHANGED vars
    BY <2>3 DEF vars, Overlapping
  <2> QED
    BY <2>1, <2>2, <2>3 DEF Next
<1> QED
  BY <1>1, <1>2, TypeCorrect, MapsFollowInv, PTL DEF Spec

(* The presence everybody was told last, and the index behind              *)
(* is_user_connected, agree with the connections of every such user.       *)
THEOREM PresenceIsRight == Spec => []PresenceSettles
<1>1. TypeOK /\ MapsFollow /\ Following => PresenceSettles
  <2> SUFFICES ASSUME TypeOK, MapsFollow, Following,
                      NEW u \in Users, Settled(u), u \notin blurred
               PROVE  /\ shown[u] = "online" <=> Open(u) # {}
                      /\ index[u].ids = Open(u)
    BY DEF PresenceSettles
  <2>1. \A c \in Conns : Owner[c] = u => pc[c] \in {"new", "live", "gone"}
    BY DEF Settled, Of
  <2>2. ~Announcing(u)
    BY <2>1 DEF Announcing, Leaving
  <2>3. Open(u) = {c \in Conns : Owner[c] = u /\ pc[c] = "live"}
    BY <2>1 DEF Open, Of, Closing
  <2>4. index[u].ids = {c \in Conns : Owner[c] = u /\ pc[c] = "live"}
    <3>1. ASSUME NEW c \in index[u].ids PROVE c \in Conns /\ Owner[c] = u /\ pc[c] = "live"
      BY <2>1, <3>1 DEF MapsFollow, TypeOK, Listed
    <3>2. ASSUME NEW c \in Conns, Owner[c] = u, pc[c] = "live" PROVE c \in index[u].ids
      BY <3>2 DEF Following, IndexIsUp, Listed
    <3> QED
      BY <3>1, <3>2
  <2>5. shown[u] = "online" <=> index[u].ids # {}
    BY <2>2 DEF Following, ShownFollows
  <2> QED
    BY <2>3, <2>4, <2>5
<1> QED
  BY <1>1, TypeCorrect, MapsFollowInv, FollowingInv, PTL

-------------------------------------------------------------------------------
(* The parts of a room together: whichever of them runs, it takes its own    *)
(* steps and leaves the state of the others alone.                           *)
roomsVars == <<part, vars, thread, poll, enclave, limits, mailing>>

LEMMA PartsTakeTheirOwnSteps ==
    [RoomsNext]_roomsVars =>
        /\ [M!Next]_thread /\ [P!Next]_(P!vars) /\ [N!Next]_(N!vars) /\ [L!Next]_(L!vars)
        /\ [D!Next]_(D!vars)
<1> SUFFICES ASSUME [RoomsNext]_roomsVars
             PROVE  /\ [M!Next]_thread /\ [P!Next]_(P!vars) /\ [N!Next]_(N!vars)
                    /\ [L!Next]_(L!vars) /\ [D!Next]_(D!vars)
  OBVIOUS
<1>1. UNCHANGED poll => UNCHANGED P!vars
  BY DEF poll, P!vars
<1>2. UNCHANGED enclave => UNCHANGED N!vars
  BY DEF enclave, N!vars, N!tables, N!history
<1>3. UNCHANGED limits => UNCHANGED L!vars
  BY DEF limits, L!vars
<1>4. UNCHANGED mailing => UNCHANGED D!vars
  BY DEF mailing, D!vars
<1>5. CASE UNCHANGED roomsVars
  BY <1>1, <1>2, <1>3, <1>4, <1>5 DEF roomsVars
<1>6. CASE Watching
  BY <1>1, <1>2, <1>3, <1>4, <1>6 DEF Watching
<1>7. CASE Writing
  BY <1>1, <1>2, <1>3, <1>4, <1>7 DEF Writing
<1>8. CASE Voting
  BY <1>1, <1>2, <1>3, <1>4, <1>8 DEF Voting
<1>9. CASE Belonging
  BY <1>1, <1>2, <1>3, <1>4, <1>9 DEF Belonging
<1>10. CASE Limiting
  BY <1>1, <1>2, <1>3, <1>4, <1>10 DEF Limiting
<1>11. CASE Digesting
  BY <1>1, <1>2, <1>3, <1>4, <1>11 DEF Digesting
<1> QED
  BY <1>5, <1>6, <1>7, <1>8, <1>9, <1>10, <1>11 DEF RoomsNext

RoomsInv == MessageInv /\ PollInv /\ EnclaveInv /\ LimitInv /\ DigestInv

LEMMA RoomsInduction == RoomsSpec => []RoomsInv
<1>1. RoomsInit => RoomsInv
  BY MessageInit, PollInit, EnclaveInit, LimitInit, DigestInit DEF RoomsInit, RoomsInv
<1>2. RoomsInv /\ [RoomsNext]_roomsVars => RoomsInv'
  <2> SUFFICES ASSUME RoomsInv, [RoomsNext]_roomsVars PROVE RoomsInv'
    OBVIOUS
  <2>1. /\ [M!Next]_thread /\ [P!Next]_(P!vars) /\ [N!Next]_(N!vars) /\ [L!Next]_(L!vars)
        /\ [D!Next]_(D!vars)
    BY PartsTakeTheirOwnSteps
  <2>2. MessageInv' /\ PollInv'
    BY <2>1, MessageStep, PollStep DEF RoomsInv
  <2>3. EnclaveInv' /\ LimitInv' /\ DigestInv'
    BY <2>1, EnclaveStep, LimitStep, DigestStep DEF RoomsInv
  <2> QED
    BY <2>2, <2>3 DEF RoomsInv
<1> QED
  BY <1>1, <1>2, PTL DEF RoomsSpec, roomsVars

(* The reader, beside the other parts: the page ends on what the table       *)
(* holds, the mention rows follow the messages, and what the watermark has   *)
(* passed has no mention unread.                                             *)
THEOREM ReaderSeesTheRoomForever == RoomsSpec => []ReaderSeesTheRoom
<1>1. RoomsInv => ReaderSeesTheRoom
  BY MessageInvGives DEF RoomsInv, ReaderSeesTheRoom
<1> QED
  BY <1>1, RoomsInduction, PTL

(* The reader's watermark goes back only when the reader asks: by no send,   *)
(* page, event or button, whatever the order they arrive in.                 *)
THEOREM NothingTurnsUnread == RoomsSpec => NeverUnreadAgain
<1>1. RoomsInv /\ [RoomsNext]_roomsVars =>
          [watermark' < watermark => \E m \in M!Ids : M!MarkUnread(m)]_(M!vars)
  BY PartsTakeTheirOwnSteps, OnlyTheReaderLowersIt DEF RoomsInv, MessageInv
<1> QED
  BY <1>1, RoomsInduction, PTL DEF RoomsSpec, roomsVars, NeverUnreadAgain, M!NeverUnreadAgain

(* The enclave, beside the other parts: it keeps an owner, a ban keeps its   *)
(* member out and sweeps their messages, and a deleted account leaves        *)
(* nothing behind.                                                           *)
THEOREM EnclaveHoldsForever == RoomsSpec => []EnclaveHolds
<1>1. RoomsInv => EnclaveHolds
  BY EnclaveInvGives DEF RoomsInv, EnclaveHolds
<1> QED
  BY <1>1, RoomsInduction, PTL

(* What is counted, beside the other parts: every page ends on the tally of  *)
(* a poll, no limit lets more through than it says, and one absence brings   *)
(* one digest.                                                               *)
THEOREM CountsHoldForever == RoomsSpec => []CountsHold
<1>1. RoomsInv => CountsHold
  BY PollInvGives, DigestInvGives DEF RoomsInv, LimitInv, CountsHold
<1> QED
  BY <1>1, RoomsInduction, PTL

(* The composition runs the tabs as their specification has them. *)
LEMMA RoomsRunTheTabs == RoomsSpec => Spec
<1>1. RoomsInit => Init
  BY DEF RoomsInit
<1>2. [RoomsNext]_roomsVars => [Next]_vars
  BY DEF RoomsNext, Watching, Writing, Voting, Belonging, Limiting, Digesting, roomsVars
<1> QED
  BY <1>1, <1>2, PTL DEF RoomsSpec, Spec, roomsVars

(* The tabs, beside the other parts: presence settles on who is there, a     *)
(* removal reaches the subscriptions and a closed connection is forgotten.   *)
THEOREM TabsHoldBesideTheRest ==
    RoomsSpec => [](PresenceSettles /\ RemovalReachesTopic /\ ClosedIsForgotten)
BY RoomsRunTheTabs, PresenceIsRight, RemovalIsThorough, Forgotten, PTL
================================================================================
