------------------------------ MODULE JobsProofs ------------------------------
(* Proofs about the background jobs, each for any number of its rows, users, *)
(* mails, hooks and pages: the sweep of uploads, the recaps, the reminders,  *)
(* the mail folder, the deliveries of webhooks, the documentation of the     *)
(* help desk and the vectors; and that they hold when the jobs of MCJobs     *)
(* stand side by side.                                                       *)
EXTENDS MCJobs, FiniteSetTheorems, InductionLemmas, TLAPS

USE DEF RowIds, Candidates

LEMMA NoUploadIsNoUpload == NoUpload \notin Upload
  BY DEF NoUpload, Upload

LEMMA LinkedType ==
    ASSUME TypeOK, NEW r \in RowIds, Exists(r)
    PROVE  /\ Linked(r) \in [RowIds -> Upload \cup {NoUpload}]
           /\ Linked(r)[r] # NoUpload
           /\ Linked(r)[r].content = up[r].content /\ Linked(r)[r].linked
           /\ \A q \in RowIds \ {r} : Linked(r)[q] = up[q]
<1>1. up[r] \in Upload
  BY DEF TypeOK, Exists
<1>2. [up[r] EXCEPT !.linked = TRUE] \in Upload
  BY <1>1 DEF Upload
<1> QED
  BY <1>1, <1>2, NoUploadIsNoUpload DEF Linked, TypeOK, Upload

-------------------------------------------------------------------------------
LEMMA InitHolds == Init => IndInv
  BY UploadAssumption DEF Init, IndInv, TypeOK, CandidatesAreOld, KeptAreNoCandidates,
     NoSiblingAppears, AttachmentsSurvive, Exists, Sleeping, NoUpload, NotStoring

(* What most sender actions have in common: they leave the sweep and the   *)
(* files alone, add no row, and take nothing out of use that stays kept.   *)
SenderFrame ==
    /\ sweep' = sweep /\ files \subseteq files' /\ nextRow' = nextRow
    /\ \A r \in RowIds : up'[r] # NoUpload =>
          up[r] # NoUpload /\ up'[r].content = up[r].content
    /\ \A r \in kept' : /\ up'[r] # NoUpload /\ up'[r].content \in files'
                        /\ up'[r].linked \/ sched'[r] = "pending"
                        /\ <<r, up'[r].content>> \notin sweep.left

LEMMA FramedStep ==
    ASSUME IndInv, TypeOK', SenderFrame
    PROVE  IndInv'
<1>1. CandidatesAreOld'
  BY DEF IndInv, CandidatesAreOld, SenderFrame, Exists
<1>2. KeptAreNoCandidates' /\ AttachmentsSurvive'
  BY DEF KeptAreNoCandidates, AttachmentsSurvive, SenderFrame, Exists
<1>3. NoSiblingAppears'
  BY DEF IndInv, NoSiblingAppears, SenderFrame, Siblings, Exists
<1> QED
  BY <1>1, <1>2, <1>3 DEF IndInv

(* Putting r to use. *)
LEMMA UseStep ==
    ASSUME IndInv, TypeOK', NEW r \in RowIds, Exists(r),
           sweep' = sweep, files' = files, nextRow' = nextRow, kept' = KeptIfWhole(r),
           \/ up' = Linked(r) /\ \A q \in RowIds \ {r} : sched'[q] = sched[q]
           \/ up' = up /\ sched'[r] = "pending"
                       /\ \A q \in RowIds \ {r} : sched'[q] = sched[q]
    PROVE  IndInv'
<1>1. /\ up'[r] # NoUpload /\ up'[r].content = up[r].content
      /\ \A q \in RowIds \ {r} : up'[q] = up[q]
      /\ up'[r].linked \/ sched'[r] = "pending"
  BY LinkedType DEF IndInv, Exists
<1>2. \A q \in kept : /\ up[q] # NoUpload /\ up[q].content \in files
                      /\ up[q].linked \/ sched[q] = "pending"
                      /\ <<q, up[q].content>> \notin sweep.left
  BY DEF IndInv, AttachmentsSurvive, KeptAreNoCandidates, Exists
<1>3. kept \subseteq RowIds
  BY DEF IndInv, TypeOK
<1>4. SenderFrame
  BY <1>1, <1>2, <1>3 DEF SenderFrame, KeptIfWhole, Exists
<1> QED
  BY <1>4, FramedStep

-------------------------------------------------------------------------------
LEMMA StoreStep ==
    ASSUME IndInv, NEW u \in Users,
           StoreWrite(u) \/ \E c \in Contents : StoreCheck(u, c)
    PROVE  IndInv'
<1>1. TypeOK'
  <2>1. ASSUME NEW c \in Contents, StoreCheck(u, c) PROVE TypeOK'
    BY <2>1 DEF IndInv, TypeOK, StoreCheck
  <2>2. ASSUME StoreWrite(u) PROVE TypeOK'
    <3>1. storing[u] \in [pc: {"write", "insert"}, content: Contents]
      BY <2>2 DEF IndInv, TypeOK, StoreWrite, NotStoring
    <3>2. [storing[u] EXCEPT !.pc = "insert"] \in [pc: {"write", "insert"}, content: Contents]
      BY <3>1
    <3>3. storing' \in [Users -> {NotStoring} \cup [pc: {"write", "insert"}, content: Contents]]
      BY <2>2, <3>2 DEF IndInv, TypeOK, StoreWrite
    <3>4. files' \subseteq Contents /\ faults' \in 0..MaxFaults
      BY <2>2, <3>1, UploadAssumption DEF IndInv, TypeOK, StoreWrite, Written
    <3> QED
      BY <2>2, <3>3, <3>4 DEF IndInv, TypeOK, StoreWrite
  <2> QED
    BY <2>1, <2>2
<1>2. SenderFrame
  BY DEF IndInv, StoreCheck, StoreWrite, Written, SenderFrame, KeptAreNoCandidates,
     AttachmentsSurvive, Exists
<1> QED
  BY <1>1, <1>2, FramedStep

LEMMA InsertStep ==
    ASSUME IndInv, NEW u \in Users, StoreInsert(u)
    PROVE  IndInv'
<1> DEFINE new == [owner |-> u, content |-> storing[u].content,
                   linked |-> FALSE, old |-> FALSE]
<1>1. storing[u].content \in Contents /\ new \in Upload
  BY DEF IndInv, StoreInsert, TypeOK, NotStoring, Upload
<1>2. /\ up'[nextRow] = new /\ nextRow \in RowIds /\ nextRow' = nextRow + 1
      /\ \A q \in RowIds \ {nextRow} : up'[q] = up[q]
      /\ sweep' = sweep /\ kept' = kept /\ files' = files /\ sched' = sched
  BY DEF IndInv, TypeOK, StoreInsert
<1>3. TypeOK'
  BY <1>1, UploadAssumption DEF IndInv, TypeOK, StoreInsert
<1>4. CandidatesAreOld'
  BY <1>2 DEF IndInv, TypeOK, CandidatesAreOld, Exists
<1>5. nextRow \notin kept
  BY DEF IndInv, TypeOK, CandidatesAreOld, AttachmentsSurvive
<1>6. KeptAreNoCandidates' /\ AttachmentsSurvive'
  BY <1>2, <1>5 DEF IndInv, TypeOK, KeptAreNoCandidates, AttachmentsSurvive, Exists
<1>7. NoSiblingAppears'
  BY <1>2 DEF StoreInsert, Unlocked, NoSiblingAppears
<1> QED
  BY <1>3, <1>4, <1>6, <1>7 DEF IndInv

LEMMA PostStep ==
    ASSUME IndInv, NEW u \in Users,
           PostLink(u) \/ \E r \in RowIds : PostCheck(u, r)
    PROVE  IndInv'
<1>1. CASE \E r \in RowIds : PostCheck(u, r)
  <2>1. TypeOK'
    BY <1>1 DEF IndInv, TypeOK, PostCheck
  <2>2. SenderFrame
    BY <1>1 DEF IndInv, PostCheck, SenderFrame, KeptAreNoCandidates, AttachmentsSurvive, Exists
  <2> QED
    BY <2>1, <2>2, FramedStep
<1>2. CASE PostLink(u) /\ UNCHANGED <<up, kept>>
  <2>1. TypeOK'
    BY <1>2 DEF IndInv, TypeOK, PostLink
  <2>2. SenderFrame
    BY <1>2 DEF IndInv, PostLink, SenderFrame, KeptAreNoCandidates, AttachmentsSurvive, Exists
  <2> QED
    BY <2>1, <2>2, FramedStep
<1>3. CASE PostLink(u) /\ ~UNCHANGED <<up, kept>>
  <2>1. posting[u] \in RowIds /\ Exists(posting[u])
        /\ up' = Linked(posting[u]) /\ kept' = KeptIfWhole(posting[u])
    BY <1>3 DEF IndInv, TypeOK, PostLink
  <2>2. TypeOK'
    BY <1>3, <2>1, LinkedType DEF IndInv, TypeOK, PostLink, KeptIfWhole
  <2> QED
    BY <1>3, <2>1, <2>2, UseStep DEF PostLink
<1> QED
  BY <1>1, <1>2, <1>3

LEMMA PurgeStep ==
    ASSUME IndInv, NEW u \in Users, Purge(u)
    PROVE  IndInv'
<1>1. TypeOK'
  BY DEF IndInv, TypeOK, Purge
<1>2. SenderFrame
  BY DEF IndInv, TypeOK, Purge, SenderFrame, KeptAreNoCandidates, AttachmentsSurvive, Exists
<1> QED
  BY <1>1, <1>2, FramedStep

LEMMA AttachmentStep ==
    ASSUME IndInv, NEW r \in RowIds,
           \/ DeleteMessage(r) \/ Schedule(r) \/ Unschedule(r)
           \/ Deliver(r) \/ DeliverLink(r) \/ Age(r)
    PROVE  IndInv'
<1>1. \A q \in kept : /\ up[q] # NoUpload /\ up[q].content \in files
                      /\ up[q].linked \/ sched[q] = "pending"
                      /\ <<q, up[q].content>> \notin sweep.left /\ q \in RowIds
  BY DEF IndInv, TypeOK, AttachmentsSurvive, KeptAreNoCandidates, Exists
<1>2. \A b \in BOOLEAN : Exists(r) =>
        /\ [up[r] EXCEPT !.linked = b] \in Upload /\ [up[r] EXCEPT !.old = b] \in Upload
        /\ [up[r] EXCEPT !.linked = b].content = up[r].content
        /\ [up[r] EXCEPT !.old = b].content = up[r].content
        /\ [up[r] EXCEPT !.old = b].linked = up[r].linked
  <2>1. Exists(r) => up[r] \in Upload
    BY DEF IndInv, TypeOK, Exists
  <2> QED
    BY <2>1 DEF Upload
<1>3. CASE DeleteMessage(r)
  <2>1. up'[r] = [up[r] EXCEPT !.linked = FALSE] /\ \A q \in RowIds \ {r} : up'[q] = up[q]
    BY <1>3 DEF DeleteMessage, IndInv, TypeOK
  <2>2. TypeOK'
    BY <1>2, <1>3 DEF DeleteMessage, IndInv, TypeOK
  <2>3. SenderFrame
    BY <1>1, <1>2, <1>3, <2>1 DEF DeleteMessage, SenderFrame, Exists
  <2> QED
    BY <2>2, <2>3, FramedStep
<1>4. CASE Age(r)
  <2>1. up'[r] = [up[r] EXCEPT !.old = TRUE] /\ \A q \in RowIds \ {r} : up'[q] = up[q]
    BY <1>4 DEF Age, IndInv, TypeOK
  <2>2. TypeOK'
    BY <1>2, <1>4 DEF Age, IndInv, TypeOK
  <2>3. up'[r] # NoUpload
    BY <1>2, <1>4, <2>1, NoUploadIsNoUpload DEF Age
  <2>4. SenderFrame
    BY <1>1, <1>2, <1>4, <2>1, <2>3 DEF Age, SenderFrame, Exists
  <2> QED
    BY <2>2, <2>4, FramedStep
<1>5. CASE Schedule(r)
  <2>1. TypeOK'
    BY <1>5 DEF Schedule, IndInv, TypeOK, KeptIfWhole
  <2> QED
    BY <1>5, <2>1, UseStep DEF Schedule, IndInv, TypeOK
<1>6. CASE Unschedule(r) \/ Deliver(r)
  <2>1. TypeOK'
    BY <1>6 DEF Unschedule, Deliver, IndInv, TypeOK
  <2>2. \A q \in RowIds \ {r} : sched'[q] = sched[q]
    BY <1>6 DEF Unschedule, Deliver, IndInv, TypeOK
  <2>3. SenderFrame
    BY <1>1, <1>6, <2>2 DEF Unschedule, Deliver, SenderFrame
  <2> QED
    BY <2>1, <2>3, FramedStep
<1>7. CASE DeliverLink(r)
  <2>1. CASE Exists(r) /\ ~up[r].linked
    <3>1. TypeOK'
      <4>1. up' \in [RowIds -> Upload \cup {NoUpload}]
        BY <1>7, <2>1, LinkedType DEF DeliverLink, IndInv
      <4>2. kept' \subseteq RowIds
        BY <1>7, <2>1 DEF DeliverLink, IndInv, TypeOK, KeptIfWhole
      <4> QED
        BY <1>7, <4>1, <4>2 DEF DeliverLink, IndInv, TypeOK
    <3> QED
      BY <1>7, <2>1, <3>1, UseStep DEF DeliverLink, IndInv, TypeOK
  <2>2. CASE ~(Exists(r) /\ ~up[r].linked)
    <3>1. TypeOK'
      BY <1>7, <2>2 DEF DeliverLink, IndInv, TypeOK
    <3>2. SenderFrame
      BY <1>1, <1>7, <2>2 DEF DeliverLink, SenderFrame, IndInv, TypeOK
    <3> QED
      BY <3>1, <3>2, FramedStep
  <2> QED
    BY <2>1, <2>2
<1> QED
  BY <1>3, <1>4, <1>5, <1>6, <1>7

-------------------------------------------------------------------------------
LEMMA NextCandidateType ==
    ASSUME TypeOK
    PROVE  /\ NextCandidate.left \subseteq sweep.left
           /\ NextCandidate.pc \in {"idle", "next"}
           /\ NextCandidate.left = {} <=> NextCandidate.pc = "idle"
           /\ NextCandidate \in [pc: {"idle", "next"}, left: SUBSET sweep.left, cur: {<<>>}]
  BY DEF NextCandidate, Sleeping, TypeOK

LEMMA SweepKeeps ==
    ASSUME IndInv, SweepStep \/ Crash
    PROVE  IndInv'
<1>1. CASE SweepSelect
  <2>1. sweep' = [pc |-> "next", cur |-> <<>>,
                  left |-> {<<r, up[r].content>> : r \in {q \in RowIds : Orphan(q)}}]
    BY <1>1 DEF SweepSelect, Sleeping
  <2>2. \A r \in RowIds : Orphan(r) => up[r].content \in Contents /\ r < nextRow
    BY DEF IndInv, TypeOK, CandidatesAreOld, Orphan, Exists, Upload
  <2> DEFINE orphans == {<<r, up[r].content>> : r \in {q \in RowIds : Orphan(q)}}
  <2>3. /\ sweep'.pc = "next" /\ sweep'.left = orphans /\ sweep'.cur = <<>>
        /\ sweep' \in [pc: {"next"}, left: {orphans}, cur: {<<>>}]
    BY <2>1
  <2>4. orphans \subseteq Candidates /\ orphans # {}
    <3>1. orphans \subseteq Candidates
      BY <2>2
    <3>2. PICK r \in RowIds : Orphan(r)
      BY <1>1 DEF SweepSelect
    <3>3. <<r, up[r].content>> \in orphans
      BY <3>2, Zenon
    <3> QED
      BY <3>1, <3>3
  <2>5. \A r \in RowIds, c \in Contents : <<r, c>> \in orphans =>
          Orphan(r) /\ up[r].content = c /\ r < nextRow
    BY <2>2
  <2> HIDE DEF orphans
  <2>6. TypeOK'
    BY <1>1, <2>3, <2>4 DEF SweepSelect, IndInv, TypeOK
  <2>7. CandidatesAreOld'
    BY <1>1, <2>3, <2>5 DEF SweepSelect, IndInv, CandidatesAreOld, Exists
  <2>8. \A r \in kept : ~Orphan(r) /\ r \in RowIds /\ up[r].content \in Contents
    BY DEF IndInv, TypeOK, KeptAreNoCandidates, AttachmentsSurvive, Orphan
  <2>9. KeptAreNoCandidates' /\ AttachmentsSurvive' /\ NoSiblingAppears'
    BY <1>1, <2>3, <2>5, <2>8 DEF SweepSelect, IndInv, KeptAreNoCandidates,
       AttachmentsSurvive, NoSiblingAppears, Exists
  <2> QED
    BY <2>6, <2>7, <2>9 DEF IndInv
<1>2. ASSUME NEW k \in Candidates, SweepCount(k)
      PROVE  IndInv'
  <2>1. /\ sweep'.left = sweep.left /\ sweep'.cur = k /\ k \in sweep.left
        /\ sweep'.pc \in {"counted", "removed"}
        /\ sweep'.pc = "counted" => Siblings(k[1], k[2]) = {}
    BY <1>2 DEF SweepCount, IndInv, TypeOK
  <2>2. TypeOK'
    BY <1>2, <2>1 DEF SweepCount, IndInv, TypeOK
  <2>3. NoSiblingAppears'
    BY <1>2, <2>1 DEF SweepCount, NoSiblingAppears, Siblings, Exists
  <2>4. CandidatesAreOld' /\ KeptAreNoCandidates' /\ AttachmentsSurvive'
    BY <1>2, <2>1 DEF SweepCount, IndInv, CandidatesAreOld, KeptAreNoCandidates,
       AttachmentsSurvive, Exists
  <2> QED
    BY <2>2, <2>3, <2>4 DEF IndInv
<1>3. CASE SweepRemove
  <2>1. \/ sweep'.left = sweep.left /\ sweep'.cur = sweep.cur /\ sweep'.pc = "removed"
        \/ sweep' = NextCandidate
    BY <1>3 DEF SweepRemove, IndInv, TypeOK
  <2>2. sweep'.left \subseteq sweep.left
    BY <2>1, NextCandidateType DEF IndInv
  <2>3. TypeOK'
    BY <1>3, <2>1, NextCandidateType, UploadAssumption, SMTT(60) DEF SweepRemove, IndInv, TypeOK
  <2>4. \A r \in kept : up[r].content # sweep.cur[2]
    <3>1. sweep.cur \in sweep.left /\ sweep.cur \in Candidates
      BY <1>3 DEF SweepRemove, IndInv, TypeOK
    <3>2. PICK q \in RowIds, c \in Contents : sweep.cur = <<q, c>>
      BY <3>1
    <3>3. Siblings(q, c) = {}
      BY <1>3, <3>2 DEF SweepRemove, IndInv, NoSiblingAppears
    <3> QED
      BY <3>1, <3>2, <3>3
         DEF IndInv, TypeOK, KeptAreNoCandidates, AttachmentsSurvive, Siblings
  <2>5. KeptAreNoCandidates' /\ AttachmentsSurvive' /\ CandidatesAreOld'
    BY <1>3, <2>2, <2>4 DEF SweepRemove, IndInv, CandidatesAreOld, KeptAreNoCandidates,
       AttachmentsSurvive, Exists
  <2>6. NoSiblingAppears'
    BY <2>1, NextCandidateType DEF IndInv, NoSiblingAppears
  <2> QED
    BY <2>3, <2>5, <2>6 DEF IndInv
<1>4. CASE SweepCommit
  <2>1. sweep' = NextCandidate /\ sweep'.left \subseteq sweep.left
    BY <1>4, NextCandidateType DEF SweepCommit, IndInv
  <2>2. PICK q \in RowIds, c \in Contents : sweep.cur = <<q, c>> /\ <<q, c>> \in sweep.left
    BY <1>4 DEF SweepCommit, IndInv, TypeOK
  <2>3. q \notin kept
    BY <2>2 DEF IndInv, CandidatesAreOld, KeptAreNoCandidates, AttachmentsSurvive
  <2>4. /\ up'[q] = NoUpload /\ \A r \in RowIds \ {q} : up'[r] = up[r] /\ sched'[r] = sched[r]
    BY <1>4, <2>2 DEF SweepCommit, Swept
  <2>5. TypeOK'
    BY <1>4, <2>1, NextCandidateType DEF SweepCommit, Swept, IndInv, TypeOK
  <2>6. KeptAreNoCandidates' /\ AttachmentsSurvive'
    BY <1>4, <2>1, <2>3, <2>4 DEF SweepCommit, IndInv, TypeOK, KeptAreNoCandidates,
       AttachmentsSurvive, Exists
  <2>7. CandidatesAreOld'
    BY <1>4, <2>1, <2>4 DEF SweepCommit, IndInv, CandidatesAreOld, Exists
  <2>8. NoSiblingAppears'
    BY <2>1, NextCandidateType DEF IndInv, NoSiblingAppears
  <2> QED
    BY <2>5, <2>6, <2>7, <2>8 DEF IndInv
<1>5. CASE Crash
  <2>1. sweep' = Sleeping /\ up' = up /\ kept' = kept /\ files' = files /\ nextRow' = nextRow
        /\ \A r \in RowIds : sched[r] = "pending" => sched'[r] = "pending"
    BY <1>5 DEF Crash, IndInv, TypeOK
  <2>2. TypeOK'
    BY <1>5, UploadAssumption DEF Crash, IndInv, TypeOK, Sleeping
  <2>3. KeptAreNoCandidates' /\ AttachmentsSurvive' /\ CandidatesAreOld' /\ NoSiblingAppears'
    BY <2>1 DEF IndInv, TypeOK, KeptAreNoCandidates, AttachmentsSurvive, CandidatesAreOld,
       NoSiblingAppears, Exists, Sleeping
  <2> QED
    BY <2>2, <2>3 DEF IndInv
<1> QED
  BY <1>1, <1>2, <1>3, <1>4, <1>5 DEF SweepStep

-------------------------------------------------------------------------------
LEMMA UploadInduction == Spec => []IndInv
<1>1. IndInv /\ [Next]_vars => IndInv'
  <2> SUFFICES ASSUME IndInv, [Next]_vars PROVE IndInv'
    OBVIOUS
  <2>1. CASE SenderStep
    BY <2>1, StoreStep, InsertStep, PostStep, PurgeStep, AttachmentStep DEF SenderStep, Pipeline
  <2>2. CASE UNCHANGED vars
    BY <2>2 DEF vars, IndInv, TypeOK, CandidatesAreOld, KeptAreNoCandidates,
       NoSiblingAppears, AttachmentsSurvive, Exists, Siblings
  <2> QED
    BY <2>1, <2>2, SweepKeeps DEF Next
<1> QED
  BY <1>1, InitHolds, PTL DEF Spec

(* The sweep, the senders and the table stay well typed: a sweep in the     *)
(* middle of a row is always about a row that was in its list.              *)
THEOREM UploadsAreTyped == Spec => []TypeOK
<1>1. IndInv => TypeOK
  BY DEF IndInv
<1> QED
  BY <1>1, UploadInduction, PTL

(* An upload put to use before a sweep had it as a candidate keeps its row *)
(* and its file as long as it stays in use: the argument behind the one    *)
(* transaction around count, file removal and row deletion in sweep_one.   *)
THEOREM AttachedUploadsSurvive == Spec => []AttachmentsSurvive
<1>1. IndInv => AttachmentsSurvive
  BY DEF IndInv
<1> QED
  BY <1>1, UploadInduction, PTL
-------------------------------------------------------------------------------
(* The recaps: a stamp stands before its recap is asked for, so what is in *)
(* hand is stamped and not yet posted, and what is to come is not stamped.  *)
RecapInv ==
    /\ K!TypeOK /\ recaps \in [Reminded -> Nat]
    /\ K!OneRecapPerInterval /\ K!StampStandsForRecap
    /\ \A s \in Reminded : recaps[s] = 1 => s \in stamped
    /\ telling \in {"compose", "post"} => subject \in stamped /\ recaps[subject] = 0
    /\ todo \cap stamped = {}

LEMMA RecapInit == K!Init => RecapInv
  BY RecapsAssumption DEF K!RecapsAssumption, K!Init, RecapInv, K!TypeOK,
     K!OneRecapPerInterval, K!StampStandsForRecap

LEMMA RecapStep == RecapInv /\ [K!Next]_(K!vars) => RecapInv'
<1> SUFFICES ASSUME RecapInv, [K!Next]_(K!vars) PROVE RecapInv'
  OBVIOUS
<1> USE DEF RecapInv, K!TypeOK, K!OneRecapPerInterval, K!StampStandsForRecap
<1>1. CASE K!Select
  BY <1>1 DEF K!Select
<1>2. ASSUME NEW s \in Reminded, K!Stamp(s) PROVE RecapInv'
  BY <1>2 DEF K!Stamp, K!StampedFirst
<1>3. CASE K!Compose
  BY <1>3 DEF K!Compose
<1>4. CASE K!Post
  BY <1>4 DEF K!Post
<1>5. CASE K!EndOfTick
  BY <1>5 DEF K!EndOfTick
<1>6. CASE K!Stop
  BY <1>6 DEF K!Stop
<1>7. ASSUME NEW s \in Reminded, K!NextInterval(s) PROVE RecapInv'
  BY <1>7 DEF K!NextInterval
<1>8. ASSUME NEW s \in Reminded, K!OptOut(s) PROVE RecapInv'
  BY <1>8 DEF K!OptOut
<1>9. CASE UNCHANGED K!vars
  BY <1>9 DEF K!vars
<1> QED
  BY <1>1, <1>2, <1>3, <1>4, <1>5, <1>6, <1>7, <1>8, <1>9 DEF K!Next, K!TickStep

(* No stop and no failure tells a room or a user of one interval twice, and *)
(* a stamp stands for a recap, one in hand, or what the history names.      *)
THEOREM RecapsHold == K!Spec => [](K!OneRecapPerInterval /\ K!StampStandsForRecap)
<1>1. RecapInv => K!OneRecapPerInterval /\ K!StampStandsForRecap
  BY DEF RecapInv
<1> QED
  BY RecapInit, RecapStep, <1>1, PTL DEF K!Spec

(* The reminders: one that did not fire has pinged nobody and is not among   *)
(* the cancelled, and the one in hand was claimed and has not pinged yet.    *)
ReminderInv ==
    /\ R!TypeOK /\ pings \in [Reminded -> Nat]
    /\ R!FiredWasPinged
    /\ \A r \in Reminded :
          /\ pings[r] <= 1
          /\ reminder[r] \in {"none", "pending", "due"} => pings[r] = 0 /\ r \notin cancelled
          /\ r \in cancelled => pings[r] = 0
    /\ pinging \in {"check", "ping"} =>
          reminder[inHand] \in {"fired", "removed"} /\ pings[inHand] = 0 /\ inHand \notin cancelled

LEMMA ReminderInit == R!Init => ReminderInv
  BY ReminderAssumption DEF R!BatchIsPositive, R!Init, R!NoRow, ReminderInv, R!TypeOK, R!FiredWasPinged

LEMMA ReminderStep == ReminderInv /\ [R!Next]_(R!vars) => ReminderInv'
<1> SUFFICES ASSUME ReminderInv, [R!Next]_(R!vars) PROVE ReminderInv'
  OBVIOUS
<1> USE DEF ReminderInv, R!TypeOK, R!FiredWasPinged, R!NoRow, R!outside, R!history
<1>1. CASE R!Select
  BY <1>1 DEF R!Select, R!Selectable
<1>2. ASSUME NEW r \in Reminded, R!Claim(r) PROVE ReminderInv'
  BY <1>2 DEF R!Claim, R!Takes
<1>3. CASE R!CheckAccess
  BY <1>3 DEF R!CheckAccess
<1>4. CASE R!Ping
  BY <1>4 DEF R!Ping
<1>5. CASE R!EndOfTick
  BY <1>5 DEF R!EndOfTick
<1>6. CASE R!Stop
  BY <1>6 DEF R!Stop
<1>7. CASE R!Leave
  BY <1>7 DEF R!Leave
<1>8. ASSUME NEW r \in Reminded, R!Create(r) \/ R!FallsDue(r) \/ R!DeleteMessage(r)
      PROVE  ReminderInv'
  BY <1>8 DEF R!Create, R!FallsDue, R!DeleteMessage
<1>9. ASSUME NEW r \in Reminded, R!Cancel(r) PROVE ReminderInv'
  BY <1>9 DEF R!Cancel
<1>10. CASE UNCHANGED R!vars
  BY <1>10 DEF R!vars
<1> QED
  BY <1>1, <1>2, <1>3, <1>4, <1>5, <1>6, <1>7, <1>8, <1>9, <1>10 DEF R!Next, R!TickStep

(* A reminder pings at most once and never once it was cancelled, whatever  *)
(* stops and fails, and one that stands as fired pinged, lost its room, met *)
(* a fault after its claim, or is in hand.                                   *)
THEOREM RemindersHold == R!Spec => [](R!PingedAtMostOnce /\ R!FiredWasPinged)
<1>1. ReminderInv => R!PingedAtMostOnce /\ R!FiredWasPinged
  BY DEF ReminderInv, R!PingedAtMostOnce
<1> QED
  BY ReminderInit, ReminderStep, <1>1, PTL DEF R!Spec

-------------------------------------------------------------------------------
Positions(q, S) == {k \in 1..Len(q) : q[k] \in S}

LEMMA PositionsAreCounted ==
    ASSUME NEW q \in Seq(Mails), NEW m \in Mails, NEW S
    PROVE  /\ Cardinality(Positions(q, S)) \in Nat
           /\ Positions(q, S) \subseteq Positions(Append(q, m), S)
           /\ Cardinality(Positions(Append(q, m), S)) =
                 Cardinality(Positions(q, S)) + (IF m \in S THEN 1 ELSE 0)
           /\ m \in S => Positions(Append(q, m), S) # {}
<1>1. IsFiniteSet(Positions(q, S))
  <2>1. IsFiniteSet(1..Len(q)) /\ Positions(q, S) \in SUBSET (1..Len(q))
    BY FS_Interval DEF Positions
  <2> QED
    BY <2>1, FS_Subset
<1>2. Len(q) + 1 \notin Positions(q, S)
  BY DEF Positions
<1>3. Positions(Append(q, m), S) =
         IF m \in S THEN Positions(q, S) \cup {Len(q) + 1} ELSE Positions(q, S)
  BY DEF Positions
<1> QED
  BY <1>1, <1>2, <1>3, FS_CardinalityType, FS_AddElement

WithId(i) == Cardinality(Positions(mailPosts, E!Carrying(i)))
ToToken(t) == Cardinality(Positions(mailPosts, E!Answering(t)))
Became(m) == Positions(mailPosts, {m}) # {}

(* The mail: a Message-ID has become no more messages than there were       *)
(* faults until it is processed or its message is yet to be recorded, and a *)
(* reply token until it is spent; what was inserted, or logged as dropped,  *)
(* is on record before it is marked.                                        *)
IdHasBeenPaid(i) ==
    /\ WithId(i) <= 1 + mailFaults
    /\ WithId(i) <= mailFaults \/ i \in processed \/ (at \in {"inserted", "used"} /\ Id[mail] = i)
    /\ at \in {"fresh", "resolved"} /\ Id[mail] = i => WithId(i) <= mailFaults

TokenHasBeenPaid(t) ==
    /\ ToToken(t) <= 1 + mailFaults
    /\ \/ ToToken(t) <= mailFaults \/ token[t] \in {"expired", "gone"}
       \/ at = "inserted" /\ Target[mail] = t
    /\ at = "resolved" /\ Target[mail] = t => ToToken(t) <= mailFaults

MailInv ==
    /\ E!TypeOK
    /\ \A i \in Ids : IdHasBeenPaid(i)
    /\ \A t \in Tokens : TokenHasBeenPaid(t)
    /\ \A m \in Mails : box[m] = "seen" => Became(m) \/ drop[m] # "none"
    /\ at \in {"inserted", "used"} => Became(mail)
    /\ at = "settled" => Became(mail) \/ drop[mail] # "none"

LEMMA MailInit == E!Init => MailInv
<1> SUFFICES ASSUME E!Init PROVE MailInv
  OBVIOUS
<1>1. Positions(mailPosts, {}) = {} /\ \A S : Positions(mailPosts, S) = {}
  BY DEF E!Init, Positions
<1>2. (\A i \in Ids : WithId(i) = 0) /\ (\A t \in Tokens : ToToken(t) = 0)
  BY <1>1, FS_EmptySet DEF WithId, ToToken
<1> QED
  BY <1>2, MailAssumption DEF E!MailsAreAddressed, E!Init, MailInv, E!TypeOK, E!Stages,
     IdHasBeenPaid, TokenHasBeenPaid

LEMMA NothingInserted ==
    ASSUME mailPosts' = mailPosts
    PROVE  /\ \A i \in Ids : WithId(i)' = WithId(i)
           /\ \A t \in Tokens : ToToken(t)' = ToToken(t)
           /\ \A m : Became(m)' = Became(m)
  BY DEF WithId, ToToken, Became, E!Carrying, E!Answering, Positions

LEMMA OneInserted ==
    ASSUME E!TypeOK, mail \in Mails, mailPosts' = Append(mailPosts, mail), mail' = mail
    PROVE  /\ \A i \in Ids : WithId(i)' = WithId(i) + (IF Id[mail] = i THEN 1 ELSE 0)
           /\ \A t \in Tokens : ToToken(t)' = ToToken(t) + (IF Target[mail] = t THEN 1 ELSE 0)
           /\ \A m \in Mails : Became(m) => Became(m)'
           /\ Became(mail)'
<1>1. mailPosts \in Seq(Mails)
  BY DEF E!TypeOK
<1>2. ASSUME NEW i \in Ids PROVE WithId(i)' = WithId(i) + (IF Id[mail] = i THEN 1 ELSE 0)
  <2>1. mail \in E!Carrying(i) <=> Id[mail] = i
    BY DEF E!Carrying
  <2>2. Cardinality(Positions(Append(mailPosts, mail), E!Carrying(i))) =
            Cardinality(Positions(mailPosts, E!Carrying(i)))
              + (IF mail \in E!Carrying(i) THEN 1 ELSE 0)
    BY <1>1, PositionsAreCounted
  <2>3. WithId(i)' = Cardinality(Positions(Append(mailPosts, mail), E!Carrying(i)))
    BY DEF WithId, E!Carrying
  <2> QED
    BY <2>1, <2>2, <2>3 DEF WithId
<1>3. ASSUME NEW t \in Tokens
      PROVE  ToToken(t)' = ToToken(t) + (IF Target[mail] = t THEN 1 ELSE 0)
  <2>1. mail \in E!Answering(t) <=> Target[mail] = t
    BY DEF E!Answering
  <2>2. Cardinality(Positions(Append(mailPosts, mail), E!Answering(t))) =
            Cardinality(Positions(mailPosts, E!Answering(t)))
              + (IF mail \in E!Answering(t) THEN 1 ELSE 0)
    BY <1>1, PositionsAreCounted
  <2>3. ToToken(t)' = Cardinality(Positions(Append(mailPosts, mail), E!Answering(t)))
    BY DEF ToToken, E!Answering
  <2> QED
    BY <2>1, <2>2, <2>3 DEF ToToken
<1>4. \A m \in Mails : (Became(m) \/ m = mail) => Became(m)'
  BY <1>1, PositionsAreCounted DEF Became
<1> QED
  BY <1>2, <1>3, <1>4

LEMMA CountsAreNaturals ==
    ASSUME E!TypeOK
    PROVE  (\A i \in Ids : WithId(i) \in Nat) /\ (\A t \in Tokens : ToToken(t) \in Nat)
<1>1. mailPosts \in Seq(Mails)
  BY DEF E!TypeOK
<1>2. ASSUME NEW S PROVE Cardinality(Positions(mailPosts, S)) \in Nat
  <2>1. IsFiniteSet(1..Len(mailPosts)) /\ Positions(mailPosts, S) \in SUBSET (1..Len(mailPosts))
    BY <1>1, FS_Interval DEF Positions
  <2> QED
    BY <2>1, FS_Subset, FS_CardinalityType
<1> QED
  BY <1>2 DEF WithId, ToToken

LEMMA MailStep == MailInv /\ [E!Next]_(E!vars) => MailInv'
<1> SUFFICES ASSUME MailInv, [E!Next]_(E!vars) PROVE MailInv'
  OBVIOUS
<1>0. /\ \A i \in Ids : WithId(i) \in Nat
      /\ \A t \in Tokens : ToToken(t) \in Nat
      /\ mailFaults \in Nat
  BY MailAssumption, CountsAreNaturals DEF MailInv, E!TypeOK, E!MailsAreAddressed
<1> USE <1>0, MailAssumption DEF E!MailsAreAddressed, MailInv, E!TypeOK, E!Stages,
     E!mailbox, E!tables, E!tick, E!Fault, IdHasBeenPaid, TokenHasBeenPaid
<1>1. ASSUME NEW t \in Tokens, E!Mint(t) \/ E!Expire(t) \/ E!TokenGoes(t) PROVE MailInv'
  <2>1. CASE E!Mint(t)
    BY <2>1, NothingInserted DEF E!Mint
  <2>2. CASE E!Expire(t)
    BY <2>2, NothingInserted DEF E!Expire
  <2>3. CASE E!TokenGoes(t)
    BY <2>3, NothingInserted DEF E!TokenGoes
  <2> QED
    BY <1>1, <2>1, <2>2, <2>3
<1>2. ASSUME NEW m \in Mails, E!Arrive(m) PROVE MailInv'
  BY <1>2, NothingInserted DEF E!Arrive
<1>3. ASSUME NEW i \in Inboxes, E!Revoke(i) PROVE MailInv'
  BY <1>3, NothingInserted DEF E!Revoke
<1>4. CASE E!Search
  BY <1>4, NothingInserted DEF E!Search, E!Found, E!Unseen
<1>5. ASSUME NEW m \in Mails, E!Fetch(m) PROVE MailInv'
  BY <1>5, NothingInserted DEF E!Fetch, E!Peeked
<1>6. CASE E!EndTick
  BY <1>6, NothingInserted DEF E!EndTick
<1>7. CASE E!Dedup
  BY <1>7, NothingInserted DEF E!Dedup, E!AlreadyProcessed
<1>8. CASE E!Resolve
  BY <1>8, NothingInserted DEF E!Resolve, E!Open
<1>9. CASE E!Deny
  BY <1>9, NothingInserted DEF E!Deny
<1>10. CASE E!Insert
  <2>1. /\ mail \in Mails /\ mailPosts' = Append(mailPosts, mail) /\ mailPosts' \in Seq(Mails)
         /\ mail' = mail
    BY <1>10 DEF E!Insert
  <2>2. \A i \in Ids : IdHasBeenPaid(i)'
    BY <1>10, <2>1, OneInserted DEF E!Insert
  <2>3. \A t \in Tokens : TokenHasBeenPaid(t)'
    BY <1>10, <2>1, OneInserted DEF E!Insert, E!IsReply
  <2> QED
    BY <1>10, <2>1, <2>2, <2>3, OneInserted DEF E!Insert
<1>11. CASE E!Consume
  BY <1>11, NothingInserted DEF E!Consume, E!Spent, E!IsReply
<1>12. CASE E!Record
  BY <1>12, NothingInserted DEF E!Record
<1>13. CASE E!LogDrop
  <2>1. mail \in Mails /\ \E x \in {"row", "lost"} : drop' = [drop EXCEPT ![mail] = x]
    BY <1>13 DEF E!LogDrop
  <2>2. drop' \in [Mails -> {"none", "row", "lost"}] /\ drop'[mail] # "none"
        /\ \A m \in Mails : drop[m] # "none" => drop'[m] # "none"
    BY <2>1
  <2>3. /\ at = "dropped" /\ at' = "settled" /\ mailFaults' \in 0..MailFaults
        /\ mailFaults <= mailFaults'
        /\ UNCHANGED <<box, token, revoked, processed, mailPosts, mailBatch, mail>>
    BY <1>13 DEF E!LogDrop
  <2>4. E!TypeOK'
    BY <2>2, <2>3
  <2> QED
    BY <2>2, <2>3, <2>4, NothingInserted
<1>14. CASE E!MarkSeen
  <2>1. /\ mail \in Mails /\ (Became(mail) \/ drop[mail] # "none")
        /\ at' = "next" /\ mailFaults' \in 0..MailFaults /\ mailFaults <= mailFaults'
        /\ UNCHANGED <<token, revoked, processed, mailPosts, drop, mailBatch, mail>>
        /\ box' = box \/ box' = [box EXCEPT ![mail] = "seen"]
    BY <1>14 DEF E!MarkSeen, E!Read
  <2>2. /\ box' \in [Mails -> {"away", "unseen", "seen"}]
        /\ \A m \in Mails : box'[m] = "seen" => box[m] = "seen" \/ m = mail
        /\ \A m \in Mails : box'[m] = "away" => box[m] = "away"
    BY <2>1
  <2>3. E!TypeOK'
    BY <2>1, <2>2
  <2>4. (\A i \in Ids : WithId(i)' = WithId(i)) /\ (\A t \in Tokens : ToToken(t)' = ToToken(t))
    BY <2>1, NothingInserted
  <2>6. mailFaults' \in Nat /\ mailFaults <= mailFaults' /\ at = "settled" /\ at' = "next"
    BY <1>14 DEF E!MarkSeen
  <2>7. ASSUME NEW i \in Ids PROVE IdHasBeenPaid(i)'
    <3>1. IdHasBeenPaid(i) /\ WithId(i) \in Nat
      OBVIOUS
    <3>2. processed' = processed /\ WithId(i)' = WithId(i)
      BY <2>1, <2>4
    <3> QED
      BY <2>6, <3>1, <3>2
  <2>8. ASSUME NEW t \in Tokens PROVE TokenHasBeenPaid(t)'
    <3>1. TokenHasBeenPaid(t) /\ ToToken(t) \in Nat
      OBVIOUS
    <3>2. token' = token /\ ToToken(t)' = ToToken(t)
      BY <2>1, <2>4
    <3> QED
      BY <2>6, <3>1, <3>2
  <2>5. \A m \in Mails : box'[m] = "seen" => Became(m)' \/ drop'[m] # "none"
    BY <2>1, <2>2, NothingInserted
  <2> QED
    BY <2>1, <2>3, <2>5, <2>7, <2>8
<1>15. CASE E!Stop
  BY <1>15, NothingInserted DEF E!Stop
<1>16. CASE UNCHANGED E!vars
  BY <1>16, NothingInserted DEF E!vars
<1> QED
  BY <1>1, <1>2, <1>3, <1>4, <1>5, <1>6, <1>7, <1>8, <1>9, <1>10, <1>11, <1>12, <1>13, <1>14,
     <1>15, <1>16 DEF E!Next, E!TickStep

LEMMA CardinalityOfMail == \A S : E!Cardinality(S) = Cardinality(S)
  BY DEF E!Cardinality, Cardinality

LEMMA MailInvGives ==
    MailInv => E!TypeOK /\ E!ExtraPostsCostFaults /\ E!ReadMailIsAccountedFor
<1>1. \A S : E!Messages(S) = Positions(mailPosts, S)
  BY DEF E!Messages, Positions
<1>2. MailInv => E!ExtraPostsCostFaults
  <2>1. ASSUME MailInv, NEW i \in Ids
        PROVE  E!Cardinality(E!Messages(E!Carrying(i))) <= 1 + mailFaults
    BY <2>1, <1>1, CardinalityOfMail DEF MailInv, IdHasBeenPaid, WithId
  <2>2. ASSUME MailInv, NEW t \in Tokens
        PROVE  E!Cardinality(E!Messages(E!Answering(t))) <= 1 + mailFaults
    BY <2>2, <1>1, CardinalityOfMail DEF MailInv, TokenHasBeenPaid, ToToken
  <2> QED
    BY <2>1, <2>2 DEF E!ExtraPostsCostFaults
<1>3. MailInv => E!TypeOK /\ E!ReadMailIsAccountedFor
  BY <1>1 DEF MailInv, Became, E!ReadMailIsAccountedFor
<1> QED
  BY <1>2, <1>3

(* A Message-ID or a reply token becomes a second message only for a fault, *)
(* and no mail is marked as read that neither became a message nor stands   *)
(* in the drop log, wherever the server stopped.                            *)
THEOREM MailIsAccountedFor ==
    E!Spec => [](E!ExtraPostsCostFaults /\ E!ReadMailIsAccountedFor)
  BY MailInit, MailStep, MailInvGives, PTL DEF E!Spec

-------------------------------------------------------------------------------
LEMMA CardinalityOfHooks == \A S : W!Cardinality(S) = Cardinality(S)
  BY DEF W!Cardinality, Cardinality

Injective(q) == \A i, j \in 1..Len(q) : q[i] = q[j] => i = j

(* The queue without what is not in S: of it, in S, and each row still once. *)
LEMMA KeepingKeeps ==
    ASSUME queue \in Seq(W!Rows), Injective(queue), NEW S
    PROVE  /\ W!Keeping(S) \in Seq(W!Rows) /\ Injective(W!Keeping(S))
           /\ \A i \in 1..Len(W!Keeping(S)) :
                 /\ W!Keeping(S)[i] \in S
                 /\ \E j \in 1..Len(queue) : queue[j] = W!Keeping(S)[i]
<1> DEFINE n == Len(queue)
           X == Seq(W!Rows)
           G == [i \in 1..n |-> [x \in X |-> IF queue[i] \in S THEN Append(x, queue[i]) ELSE x]]
           Eqn(F) == F = [i \in 0..n |->
                             IF i = 0 THEN <<>>
                             ELSE IF queue[i] \in S THEN Append(F[i - 1], queue[i]) ELSE F[i - 1]]
           K1 == CHOOSE F : Eqn(F)
<1>1. n \in Nat /\ <<>> \in X /\ G \in [1..n -> [X -> X]]
  OBVIOUS
<1>2. PICK F : Recursive(F, n, X, <<>>, G)
  <2> HIDE DEF n, X, G
  <2> QED
    BY <1>1, RecursionExists
<1>3. Eqn(F)
  <2>1. /\ F \in [0..n -> X] /\ F[0] = <<>>
        /\ \A i \in 1..n : F[i] = G[i][F[i - 1]]
    BY <1>2 DEF Recursive
  <2>2. ASSUME NEW i \in 1..n
        PROVE  F[i] = IF queue[i] \in S THEN Append(F[i - 1], queue[i]) ELSE F[i - 1]
    <3>1. i - 1 \in 0..n
      BY <1>1
    <3>2. F[i - 1] \in X
      BY <3>1, <2>1
    <3> QED
      BY <3>2, <2>1
  <2>3. \A i \in 0..n :
            F[i] = IF i = 0 THEN <<>>
                   ELSE IF queue[i] \in S THEN Append(F[i - 1], queue[i]) ELSE F[i - 1]
    <3>1. n \in Nat /\ F[0] = <<>>
      BY <2>1
    <3> HIDE DEF n, X, G
    <3>2. \A i \in 0..n : i = 0 \/ i \in 1..n
      BY <3>1
    <3> QED
      BY <3>1, <3>2, <2>2
  <2>4. F = [i \in 0..n |-> F[i]]
    BY <2>1
  <2> HIDE DEF n, X, G
  <2> QED
    BY <2>3, <2>4, Zenon
<1>4. Eqn(K1)
  <2> HIDE DEF n, X, G, Eqn
  <2> QED
    BY <1>3
<1>5. W!Keeping(S) = K1[n]
  BY DEF W!Keeping
<1>6. /\ K1[0] = <<>>
      /\ \A i \in 1..n :
            K1[i] = IF queue[i] \in S THEN Append(K1[i - 1], queue[i]) ELSE K1[i - 1]
  <2>1. n \in Nat
    OBVIOUS
  <2> HIDE DEF K1, n
  <2>2. 0 \in 0..n /\ \A i \in 1..n : i \in 0..n /\ i # 0
    BY <2>1
  <2>3. K1 = [i \in 0..n |->
                 IF i = 0 THEN <<>>
                 ELSE IF queue[i] \in S THEN Append(K1[i - 1], queue[i]) ELSE K1[i - 1]]
    BY <1>4
  <2>4. \A i \in 0..n :
            K1[i] = IF i = 0 THEN <<>>
                    ELSE IF queue[i] \in S THEN Append(K1[i - 1], queue[i]) ELSE K1[i - 1]
    <3> DEFINE e(i) == IF i = 0 THEN <<>>
                       ELSE IF queue[i] \in S THEN Append(K1[i - 1], queue[i]) ELSE K1[i - 1]
    <3>1. K1 = [i \in 0..n |-> e(i)]
      BY <2>3
    <3> HIDE DEF e
    <3>2. \A i \in 0..n : K1[i] = e(i)
      BY <3>1
    <3> QED
      BY <3>2 DEF e
  <2> QED
    BY <2>2, <2>4
<1>n. n \in Nat /\ n = Len(queue)
  OBVIOUS
<1> HIDE DEF K1, X, G, n
<1> DEFINE Fine(q, i) ==
              /\ q \in Seq(W!Rows) /\ Injective(q)
              /\ \A k \in 1..Len(q) : q[k] \in S /\ \E j \in 1..i : queue[j] = q[k]
           T == {i \in 0..n : Fine(K1[i], i)}
<1>7. 0 \in T
  <2>1. 0 \in 0..n
    BY <1>n
  <2>2. Fine(K1[0], 0)
    BY <1>6 DEF Injective
  <2> QED
    BY <2>1, <2>2
<1>8. ASSUME NEW i \in 0..(n - 1), i \in T PROVE i + 1 \in T
  <2>1. i + 1 \in 1..n /\ (i + 1) - 1 = i /\ Fine(K1[i], i)
    <3>1. Fine(K1[i], i)
      BY <1>8
    <3> HIDE DEF Fine
    <3> QED
      BY <3>1, <1>n
  <2>2. K1[i + 1] = IF queue[i + 1] \in S THEN Append(K1[i], queue[i + 1]) ELSE K1[i]
    BY <2>1, <1>6
  <2>3. queue[i + 1] \in W!Rows /\ \A j \in 1..i : queue[j] # queue[i + 1]
    BY <2>1, <1>n DEF Injective
  <2>4. ASSUME NEW q, Fine(q, i), queue[i + 1] \in S
        PROVE  Fine(Append(q, queue[i + 1]), i + 1)
    <3> DEFINE r == Append(q, queue[i + 1])
    <3>1. /\ r \in Seq(W!Rows) /\ Len(r) = Len(q) + 1
          /\ r[Len(q) + 1] = queue[i + 1] /\ \A k \in 1..Len(q) : r[k] = q[k]
      BY <2>3, <2>4
    <3>2. \A k \in 1..Len(q) : q[k] # queue[i + 1]
      BY <2>3, <2>4
    <3>3. Injective(r)
      BY <3>1, <3>2, <2>4 DEF Injective
    <3>4. \A k \in 1..Len(r) : r[k] \in S /\ \E j \in 1..(i + 1) : queue[j] = r[k]
      BY <3>1, <2>1, <2>4
    <3> QED
      BY <3>1, <3>3, <3>4
  <2>5. Fine(K1[i + 1], i + 1)
    <3>1. CASE queue[i + 1] \in S
      <4> HIDE DEF Fine
      <4> QED
        BY <3>1, <2>1, <2>2, <2>4
    <3>2. CASE queue[i + 1] \notin S
      BY <3>2, <2>1, <2>2
    <3> QED
      BY <3>1, <3>2
  <2> HIDE DEF Fine
  <2> QED
    BY <2>1, <2>5, <1>n
<1>9. n \in T
  <2>1. n \in 0..n
    BY <1>n
  <2> HIDE DEF T
  <2>2. 0..n \subseteq T
    BY <1>n, <1>7, <1>8, SetInduction
  <2> QED
    BY <2>1, <2>2
<1> QED
  BY <1>5, <1>9, <1>n

(* The deliveries: what a tick has read is pending, or went with its hook,   *)
(* and is in hand once; a pending row has attempts left.                     *)
HookShape ==
    /\ queue \in Seq(W!Rows) /\ batch \in Seq(W!Rows) /\ cur \in W!Rows \cup {0}
    /\ posts \in [W!Rows -> Nat] /\ used \in 0..Last /\ hookFaults \in Nat
    /\ matched \subseteq Hooks /\ used + Cardinality(matched) <= Last

InHand ==
    /\ Injective(batch)
    /\ \A i \in 1..Len(batch) : batch[i] # cur /\ row[batch[i]].st \in {"pending", "gone"}
    /\ cur # 0 => row[cur].st # "none"
    /\ cur # 0 /\ answer \in {"none", "ok", "bad"} => row[cur].st \in {"pending", "gone"}

AttemptsLeft ==
    \A d \in W!Rows : /\ row[d].st = "none" => row[d].attempt = 0
                      /\ row[d].st = "pending" => row[d].attempt < Attempts

HookInv ==
    /\ W!TypeOK /\ W!PostsAreOnRecord /\ W!EnabledIsBelowThreshold
    /\ HookShape /\ InHand /\ AttemptsLeft

LEMMA HookInit == W!Init => HookInv
<1> SUFFICES ASSUME W!Init PROVE HookInv
  OBVIOUS
<1>1. Cardinality(matched) = 0 /\ matched = {}
  BY FS_EmptySet DEF W!Init
<1>2. \A d \in W!Rows : d > 0
  BY HookAssumption DEF W!Rows, W!BoundsAreCounts
<1> QED
  BY <1>1, <1>2, HookAssumption DEF W!BoundsAreCounts, W!Init, W!NoRow, HookInv, W!TypeOK,
     HookShape, InHand, AttemptsLeft,
     W!PostsAreOnRecord, W!EnabledIsBelowThreshold, W!There, W!Pending, W!Done, Injective

LEMMA HookFacts ==
    ASSUME HookInv
    PROVE  /\ Last \in Nat \ {0} /\ Attempts \in Nat \ {0} /\ Threshold \in Nat \ {0}
           /\ Batch \in Nat \ {0} /\ HookFaults \in Nat
           /\ Injective(queue)
           /\ \A S : S \subseteq Hooks => IsFiniteSet(S) /\ Cardinality(S) \in Nat
<1>1. \A S : S \subseteq Hooks => IsFiniteSet(S) /\ Cardinality(S) \in Nat
  BY HookAssumption, FS_Subset, FS_CardinalityType, ZenonT(60) DEF W!BoundsAreCounts, W!IsFiniteSet, IsFiniteSet
<1>2. Injective(queue)
  BY DEF HookInv, W!TypeOK, Injective
<1> QED
  BY <1>1, <1>2, HookAssumption DEF W!BoundsAreCounts

Deliveries ==
    [W!Rows -> [of : Hooks, attempt : 0..Attempts,
                st : {"none", "pending", "delivered", "failed", "gone", "pruned"}]]
Aside == UNCHANGED <<hook, row, queue, used, ticking, batch, cur, answer, posts, hookFaults>>

LEMMA HookMatched ==
    ASSUME HookInv, Aside, matched' \subseteq Hooks, used + Cardinality(matched') <= Last
    PROVE  HookInv'
<1>1. W!TypeOK' /\ AttemptsLeft'
  BY DEF HookInv, W!TypeOK, W!Pending, W!Done, AttemptsLeft, Aside
<1>2. HookShape'
  BY DEF HookInv, HookShape, Aside
<1>3. InHand'
  BY DEF HookInv, InHand, Aside, Injective
<1>4. W!PostsAreOnRecord' /\ W!EnabledIsBelowThreshold'
  BY DEF HookInv, W!PostsAreOnRecord, W!EnabledIsBelowThreshold, W!There, Aside
<1> QED
  BY <1>1, <1>2, <1>3, <1>4 DEF HookInv

LEMMA HookMatch == ASSUME HookInv, NEW hs \in SUBSET Hooks, W!Match(hs) PROVE HookInv'
<1>1. matched' = hs /\ used + Cardinality(hs) <= Last /\ Aside
  BY CardinalityOfHooks DEF W!Match, W!tick, Aside
<1> QED
  BY <1>1, HookMatched

LEMMA HookEnqueue == ASSUME HookInv, NEW h \in Hooks, W!Enqueue(h) PROVE HookInv'
<1>1. /\ h \in matched /\ matched' = matched \ {h}
      /\ UNCHANGED <<hook, ticking, batch, cur, answer, posts, edits, hookFaults>>
  BY DEF W!Enqueue, W!tick
<1>2. matched \subseteq Hooks /\ Cardinality(matched') = Cardinality(matched) - 1
      /\ Cardinality(matched) \in Nat /\ Cardinality(matched') \in Nat
      /\ used \in 0..Last /\ used + Cardinality(matched) <= Last
  BY <1>1, HookFacts, FS_RemoveElement DEF HookInv, HookShape
<1>3. CASE UNCHANGED <<row, queue, used>>
  <2>1. matched' \subseteq Hooks /\ used + Cardinality(matched') <= Last
    BY <1>1, <1>2, HookFacts
  <2> QED
    BY <1>1, <1>3, <2>1, HookMatched DEF Aside
<1>4. CASE ~UNCHANGED <<row, queue, used>>
  <2> DEFINE d == used + 1
  <2>1. /\ used' = d
        /\ row' = [row EXCEPT ![d] = [of |-> h, attempt |-> 0, st |-> "pending"]]
        /\ queue' = Append(queue, d)
    BY <1>4 DEF W!Enqueue
  <2>2. d \in W!Rows /\ d \in 1..Last /\ used \in Nat /\ row[d].st = "none" /\ row[d].attempt = 0
    BY <1>2, HookFacts DEF HookInv, W!TypeOK, W!Rows, AttemptsLeft
  <2>3. /\ row' \in Deliveries
        /\ row'[d].st = "pending" /\ row'[d].attempt = 0
        /\ \A e \in W!Rows \ {d} : row'[e] = row[e]
    BY <2>1, <2>2, HookFacts DEF HookInv, W!TypeOK, Deliveries
  <2>4. queue \in Seq(W!Rows) /\ queue' \in Seq(W!Rows) /\ Len(queue') = Len(queue) + 1
        /\ queue'[Len(queue) + 1] = d
        /\ \A i \in 1..Len(queue) : queue'[i] = queue[i] /\ queue[i] \in W!Rows /\ queue[i] # d
                                    /\ row[queue[i]].st = "pending"
    BY <2>1, <2>2, SMTT(60) DEF HookInv, HookShape, W!TypeOK, W!Pending
  <2> HIDE DEF d
  <2>5. \A i \in 1..Len(queue') : row'[queue'[i]].st = "pending"
    <3>1. \A i \in 1..Len(queue) : row'[queue'[i]].st = "pending"
      BY <2>3, <2>4
    <3> QED
      BY <2>3, <2>4, <3>1
  <2>6. \A i, j \in 1..Len(queue') : queue'[i] = queue'[j] => i = j
    BY <2>4, HookFacts DEF Injective
  <2>7. \A e \in W!Rows : e > used' <=> row'[e].st = "none"
    <3>1. \A e \in W!Rows \ {d} : e > used' <=> e > used
      BY <2>1, <2>2 DEF W!Rows, d
    <3> QED
      BY <2>1, <2>2, <2>3, <3>1 DEF HookInv, W!TypeOK, W!Rows
  <2>8. W!TypeOK'
    BY <1>1, <2>3, <2>5, <2>6, <2>7 DEF HookInv, W!TypeOK, W!Pending, W!Done, Deliveries
  <2>9. W!PostsAreOnRecord'
    BY <1>1, <2>2, <2>3 DEF HookInv, W!PostsAreOnRecord, W!There
  <2>10. HookShape'
    BY <1>1, <1>2, <2>1, <2>2, <2>4, HookFacts, SMTT(60) DEF HookInv, HookShape, d
  <2>11. InHand'
    <3>1. \A i \in 1..Len(batch) : batch[i] \in W!Rows /\ row'[batch[i]] = row[batch[i]]
      <4>1. \A i \in 1..Len(batch) :
               batch[i] \in W!Rows /\ row[batch[i]].st \in {"pending", "gone"}
        BY DEF HookInv, HookShape, InHand
      <4> QED
        BY <4>1, <2>2, <2>3
    <3>2. cur # 0 => row'[cur] = row[cur]
      BY <2>2, <2>3 DEF HookInv, HookShape, InHand
    <3> QED
      BY <1>1, <3>1, <3>2 DEF HookInv, InHand, Injective
  <2>12. AttemptsLeft'
    BY <2>3, HookFacts DEF HookInv, AttemptsLeft
  <2>13. W!EnabledIsBelowThreshold'
    BY <1>1 DEF HookInv, W!EnabledIsBelowThreshold
  <2> QED
    BY <2>8, <2>9, <2>10, <2>11, <2>12, <2>13 DEF HookInv
<1> QED
  BY <1>3, <1>4

LEMMA HookSetEnabled ==
    ASSUME HookInv, NEW h \in Hooks, NEW on \in BOOLEAN, W!SetEnabled(h, on) PROVE HookInv'
<1>1. PICK x \in [st : {"on", "off", "gone"}, failures : Nat] :
          /\ hook' = [hook EXCEPT ![h] = x]
          /\ x.st = "on" => x.failures < Threshold
  <2>1. hook[h] \in [st : {"on", "off", "gone"}, failures : Nat]
    BY DEF HookInv, W!TypeOK
  <2>2. CASE on
    <3>1. hook' = [hook EXCEPT ![h] = [st |-> "on", failures |-> 0]]
      BY <2>2 DEF W!SetEnabled, W!Enabled
    <3>2. [st |-> "on", failures |-> 0] \in [st : {"on", "off", "gone"}, failures : Nat] /\ 0 < Threshold
      BY HookFacts
    <3> QED
      BY <3>1, <3>2
  <2>3. CASE ~on
    <3>1. [hook[h] EXCEPT !.st = "off"] \in [st : {"on", "off", "gone"}, failures : Nat]
          /\ [hook[h] EXCEPT !.st = "off"].st = "off"
      BY <2>1
    <3>2. hook' = [hook EXCEPT ![h] = [hook[h] EXCEPT !.st = "off"]]
      BY <2>3 DEF W!SetEnabled
    <3> QED
      BY <3>1, <3>2
  <2> QED
    BY <2>2, <2>3
<1>2. hook' \in [Hooks -> [st : {"on", "off", "gone"}, failures : Nat]] /\ W!EnabledIsBelowThreshold'
  BY <1>1 DEF HookInv, W!TypeOK, W!EnabledIsBelowThreshold
<1>3. UNCHANGED <<row, queue, used, matched, ticking, batch, cur, answer, posts, hookFaults>>
  BY DEF W!SetEnabled, W!tick
<1>4. W!TypeOK' /\ AttemptsLeft'
  BY <1>2, <1>3 DEF HookInv, W!TypeOK, W!Pending, W!Done, AttemptsLeft
<1>5. HookShape' /\ InHand'
  BY <1>3 DEF HookInv, HookShape, InHand, Injective
<1>6. W!PostsAreOnRecord'
  BY <1>3 DEF HookInv, W!PostsAreOnRecord, W!There
<1> QED
  BY <1>2, <1>4, <1>5, <1>6 DEF HookInv

(* What changes rows and takes the rows that are no longer pending out of    *)
(* the queue.                                                                *)
RowsGo(S) ==
    /\ queue' = W!Keeping(S)
    /\ row' \in Deliveries
    /\ \A d \in W!Rows :
          /\ row'[d].st = "none" <=> row[d].st = "none"
          /\ row[d].st = "none" => row'[d].attempt = 0
          /\ row'[d].st = "pending" => row[d].st = "pending" /\ row'[d].attempt < Attempts
          /\ d \in S /\ row[d].st = "pending" => row'[d].st = "pending"

LEMMA RowsGoQueue ==
    ASSUME HookInv, NEW S, RowsGo(S)
    PROVE  /\ queue' \in Seq(W!Rows)
           /\ \A i \in 1..Len(queue') :
                 row'[queue'[i]].st = "pending"
                 /\ \A j \in 1..Len(queue') : queue'[i] = queue'[j] => i = j
           /\ \A d \in W!Rows : d > used <=> row'[d].st = "none"
           /\ AttemptsLeft'
<1>1. queue \in Seq(W!Rows) /\ Injective(queue)
      /\ \A j \in 1..Len(queue) : queue[j] \in W!Rows /\ row[queue[j]].st = "pending"
  BY HookFacts DEF HookInv, HookShape, W!TypeOK, W!Pending
<1>2. /\ queue' \in Seq(W!Rows) /\ Injective(queue')
      /\ \A i \in 1..Len(queue') : queue'[i] \in S /\ \E j \in 1..Len(queue) : queue[j] = queue'[i]
  <2>1. queue' = W!Keeping(S)
    BY DEF RowsGo
  <2> QED
    BY <1>1, <2>1, KeepingKeeps
<1>3. ASSUME NEW i \in 1..Len(queue') PROVE row'[queue'[i]].st = "pending"
  <2>1. queue'[i] \in W!Rows /\ queue'[i] \in S /\ row[queue'[i]].st = "pending"
    BY <1>1, <1>2
  <2> QED
    BY <2>1 DEF RowsGo
<1>4. \A d \in W!Rows : d > used <=> row'[d].st = "none"
  BY DEF RowsGo, HookInv, W!TypeOK
<1>5. AttemptsLeft'
  BY DEF RowsGo, AttemptsLeft
<1> QED
  BY <1>2, <1>3, <1>4, <1>5 DEF Injective

LEMMA HookDelete == ASSUME HookInv, NEW h \in Hooks, W!Delete(h) PROVE HookInv'
<1>1. /\ hook' = [hook EXCEPT ![h] = [st |-> "gone", failures |-> 0]]
      /\ row' = [d \in W!Rows |-> IF row[d].of = h /\ row[d].st # "none"
                                  THEN [row[d] EXCEPT !.st = "gone"] ELSE row[d]]
      /\ queue' = W!Keeping({d \in W!Rows : row[d].of # h})
      /\ UNCHANGED <<used, matched, ticking, batch, cur, answer, posts, hookFaults>>
  BY DEF W!Delete, W!tick
<1>2. \A d \in W!Rows : /\ row[d] \in [of : Hooks, attempt : 0..Attempts,
                               st : {"none", "pending", "delivered", "failed", "gone", "pruned"}]
                        /\ row'[d] = IF row[d].of = h /\ row[d].st # "none"
                                     THEN [row[d] EXCEPT !.st = "gone"] ELSE row[d]
                        /\ row[d].st = "pending" => row[d].attempt < Attempts
                        /\ row[d].st = "none" => row[d].attempt = 0
  BY <1>1 DEF HookInv, W!TypeOK, AttemptsLeft
<1>3. \A d \in W!Rows : /\ row'[d].of = row[d].of /\ row'[d].attempt = row[d].attempt
                        /\ row'[d].st = row[d].st \/ (row[d].st # "none" /\ row'[d].st = "gone")
                        /\ row[d].of # h => row'[d].st = row[d].st
                        /\ row'[d] \in [of : Hooks, attempt : 0..Attempts,
                               st : {"none", "pending", "delivered", "failed", "gone", "pruned"}]
  BY <1>2
<1>4. row' \in Deliveries
  BY <1>1, <1>3 DEF Deliveries
<1>5. RowsGo({d \in W!Rows : row[d].of # h})
  BY <1>1, <1>2, <1>3, <1>4 DEF RowsGo
<1>6. W!TypeOK'
  BY <1>1, <1>4, <1>5, RowsGoQueue DEF HookInv, W!TypeOK, W!Pending, W!Done, Deliveries
<1>7. HookShape' /\ AttemptsLeft'
  BY <1>1, <1>5, RowsGoQueue DEF HookInv, HookShape
<1>8. InHand'
  <2>1. \A i \in 1..Len(batch) : batch[i] \in W!Rows
    BY DEF HookInv, HookShape
  <2>2. cur # 0 => cur \in W!Rows
    BY DEF HookInv, HookShape
  <2> QED
    BY <1>1, <1>3, <2>1, <2>2 DEF HookInv, InHand, Injective
<1>9. W!PostsAreOnRecord' /\ W!EnabledIsBelowThreshold'
  BY <1>1, <1>3 DEF HookInv, W!PostsAreOnRecord, W!EnabledIsBelowThreshold, W!There, W!TypeOK
<1> QED
  BY <1>6, <1>7, <1>8, <1>9 DEF HookInv

LEMMA HookFallsDue == ASSUME HookInv, NEW d \in W!Rows, W!FallsDue(d) PROVE HookInv'
<1>1. /\ row[d].st = "pending" /\ queue' = Append(queue, d)
      /\ \A i \in 1..Len(queue) : queue[i] # d
      /\ UNCHANGED <<hook, row, used, matched, ticking, batch, cur, answer, posts, hookFaults>>
  BY DEF W!FallsDue, W!tick, W!Pending, W!InQueue
<1>2. queue \in Seq(W!Rows) /\ queue' \in Seq(W!Rows) /\ Len(queue') = Len(queue) + 1
      /\ queue'[Len(queue) + 1] = d
      /\ \A i \in 1..Len(queue) : queue'[i] = queue[i] /\ row[queue[i]].st = "pending"
  BY <1>1 DEF HookInv, HookShape, W!TypeOK, W!Pending
<1>3. \A i \in 1..Len(queue') : row[queue'[i]].st = "pending"
  BY <1>1, <1>2
<1>4. \A i, j \in 1..Len(queue') : queue'[i] = queue'[j] => i = j
  BY <1>1, <1>2, HookFacts DEF Injective
<1>5. W!TypeOK' /\ AttemptsLeft'
  BY <1>1, <1>3, <1>4 DEF HookInv, W!TypeOK, W!Pending, W!Done, AttemptsLeft
<1>6. HookShape' /\ InHand'
  BY <1>1, <1>2 DEF HookInv, HookShape, InHand, Injective
<1>7. W!PostsAreOnRecord' /\ W!EnabledIsBelowThreshold'
  BY <1>1 DEF HookInv, W!PostsAreOnRecord, W!EnabledIsBelowThreshold, W!There
<1> QED
  BY <1>5, <1>6, <1>7 DEF HookInv

LEMMA HookSelect == ASSUME HookInv, W!Select PROVE HookInv'
<1> DEFINE n == IF Len(queue) < Batch THEN Len(queue) ELSE Batch
<1>1. /\ ~ticking /\ ticking' = TRUE /\ batch' = SubSeq(queue, 1, n)
      /\ UNCHANGED <<hook, row, queue, used, matched, cur, answer, posts, hookFaults>>
  BY DEF W!Select
<1>2. queue \in Seq(W!Rows) /\ n \in 0..Len(queue)
  BY HookFacts DEF HookInv, HookShape
<1> HIDE DEF n
<1>3. batch' \in Seq(W!Rows) /\ Len(batch') = n /\ \A i \in 1..n : batch'[i] = queue[i]
  BY <1>1, <1>2
<1>4. cur = 0
  BY <1>1 DEF HookInv, W!TypeOK, W!Done
<1>5. \A i \in 1..n : queue[i] \in W!Rows /\ row[queue[i]].st = "pending"
  BY <1>2 DEF HookInv, W!TypeOK, W!Pending
<1>6. W!TypeOK' /\ AttemptsLeft' /\ HookShape'
  BY <1>1, <1>3 DEF HookInv, W!TypeOK, W!Pending, W!Done, AttemptsLeft, HookShape
<1>7. InHand'
  <2>1. Injective(batch')
    BY <1>2, <1>3, HookFacts, SMTT(60) DEF Injective
  <2>2. 0 \notin W!Rows
    BY DEF W!Rows
  <2> QED
    BY <1>1, <1>3, <1>4, <1>5, <2>1, <2>2 DEF InHand
<1>8. W!PostsAreOnRecord' /\ W!EnabledIsBelowThreshold'
  BY <1>1 DEF HookInv, W!PostsAreOnRecord, W!EnabledIsBelowThreshold, W!There
<1> QED
  BY <1>6, <1>7, <1>8 DEF HookInv

LEMMA HookAnswer == ASSUME HookInv, NEW a \in {"ok", "bad"}, W!Answer(a) PROVE HookInv'
<1>1. /\ cur # 0 /\ answer = "none" /\ answer' = a
      /\ UNCHANGED <<hook, row, queue, used, matched, ticking, batch, cur, posts, hookFaults>>
  BY DEF W!Answer
<1>2. W!TypeOK' /\ AttemptsLeft' /\ HookShape'
  BY <1>1 DEF HookInv, W!TypeOK, W!Pending, W!Done, AttemptsLeft, HookShape
<1>3. InHand'
  BY <1>1 DEF HookInv, InHand, Injective
<1>4. W!PostsAreOnRecord' /\ W!EnabledIsBelowThreshold'
  BY <1>1 DEF HookInv, W!PostsAreOnRecord, W!EnabledIsBelowThreshold, W!There
<1> QED
  BY <1>2, <1>3, <1>4 DEF HookInv

LEMMA HookStop == ASSUME HookInv, W!Stop PROVE HookInv'
<1>1. /\ ticking' = FALSE /\ batch' = <<>> /\ cur' = 0 /\ answer' = "none"
      /\ hookFaults \in Nat /\ hookFaults' = hookFaults + 1
      /\ UNCHANGED <<hook, row, queue, used, matched, posts>>
  BY DEF W!Stop, W!Fault, HookInv, HookShape
<1>2. W!TypeOK' /\ AttemptsLeft' /\ HookShape'
  BY <1>1 DEF HookInv, W!TypeOK, W!Pending, W!Done, AttemptsLeft, HookShape
<1>3. InHand'
  BY <1>1 DEF InHand, Injective
<1>4. W!EnabledIsBelowThreshold'
  BY <1>1 DEF HookInv, W!EnabledIsBelowThreshold
<1>5. W!PostsAreOnRecord'
  <2>1. \A d \in W!Rows : d # 0 /\ posts[d] \in Nat /\ row[d].attempt \in Nat
    <3>1. row \in Deliveries /\ posts \in [W!Rows -> Nat]
      BY DEF HookInv, HookShape, W!TypeOK, Deliveries
    <3>2. \A d \in W!Rows : d # 0 /\ row[d].attempt \in 0..Attempts
      BY <3>1 DEF Deliveries, W!Rows
    <3> QED
      BY <3>1, <3>2, HookFacts
  <2> QED
    BY <1>1, <2>1 DEF HookInv, W!PostsAreOnRecord, W!There
<1> QED
  BY <1>2, <1>3, <1>4, <1>5 DEF HookInv

LEMMA DeliveryTypes ==
    ASSUME HookInv, NEW d \in W!Rows
    PROVE  /\ row[d] \in [of : Hooks, attempt : 0..Attempts,
                          st : {"none", "pending", "delivered", "failed", "gone", "pruned"}]
           /\ row[d].attempt \in Nat /\ posts[d] \in Nat /\ d # 0
           /\ row[d].st = "pending" => row[d].attempt + 1 \in 0..Attempts
<1>1. row[d] \in [of : Hooks, attempt : 0..Attempts,
                  st : {"none", "pending", "delivered", "failed", "gone", "pruned"}]
      /\ posts[d] \in Nat /\ d # 0 /\ (row[d].st = "pending" => row[d].attempt < Attempts)
  BY DEF HookInv, HookShape, AttemptsLeft, W!TypeOK, W!Rows
<1> QED
  BY <1>1, HookFacts

(* The attempt on a row in hand is counted; a row that went is left alone.   *)
LEMMA HookSettle ==
    ASSUME HookInv, NEW d \in W!Rows, row[d].st \in {"pending", "gone"}, queue' = W!Without(d),
           \/ \E how \in {"delivered", "failed"} : W!Settle(d, how)
           \/ W!Retries(d) /\ W!Reschedule(d)
    PROVE  /\ RowsGo(W!Rows \ {d})
           /\ \A e \in W!Rows \ {d} : row'[e] = row[e]
           /\ row'[d].of = row[d].of /\ row'[d].st # "none"
           /\ row'[d].st # "gone" => row[d].st # "gone" /\ row'[d].attempt = row[d].attempt + 1
           /\ row'[d].st # "pruned"
<1>1. PICK st \in {"pending", "delivered", "failed"} :
          /\ row' = IF row[d].st # "gone"
                    THEN [row EXCEPT ![d] = [of |-> row[d].of, attempt |-> row[d].attempt + 1, st |-> st]]
                    ELSE row
          /\ st = "pending" => row[d].attempt + 1 < Attempts
  <2>1. row[d] = [of |-> row[d].of, attempt |-> row[d].attempt, st |-> row[d].st]
    BY DeliveryTypes
  <2>2. ASSUME NEW how \in {"delivered", "failed"}, W!Settle(d, how)
        PROVE  row' = IF row[d].st # "gone"
                    THEN [row EXCEPT ![d] = [of |-> row[d].of, attempt |-> row[d].attempt + 1, st |-> how]]
                    ELSE row
    BY <2>1, <2>2 DEF W!Settle, W!There, HookInv, W!TypeOK
  <2>4. ASSUME W!Reschedule(d)
        PROVE  row' = IF row[d].st # "gone"
                      THEN [row EXCEPT ![d].attempt = @ + 1] ELSE row
    BY <2>4 DEF W!Reschedule, W!There
  <2>5. row[d].st = "pending" =>
            [row EXCEPT ![d].attempt = @ + 1]
              = [row EXCEPT ![d] = [of |-> row[d].of, attempt |-> row[d].attempt + 1, st |-> "pending"]]
    <3>1. row[d].st = "pending" =>
              [row[d] EXCEPT !.attempt = row[d].attempt + 1]
                = [of |-> row[d].of, attempt |-> row[d].attempt + 1, st |-> "pending"]
      BY DeliveryTypes
    <3> QED
      BY <3>1
  <2>3. ASSUME W!Retries(d), W!Reschedule(d)
        PROVE  /\ row' = IF row[d].st # "gone"
                      THEN [row EXCEPT ![d] = [of |-> row[d].of, attempt |-> row[d].attempt + 1,
                                               st |-> "pending"]]
                      ELSE row
               /\ row[d].attempt + 1 < Attempts
    BY <2>3, <2>4, <2>5 DEF W!Retries
  <2> QED
    BY <2>2, <2>3
<1>2. CASE row[d].st = "gone"
  <2>1. row' = row
    BY <1>1, <1>2
  <2>2. row' \in Deliveries
    BY <2>1 DEF HookInv, W!TypeOK, Deliveries
  <2> QED
    BY <1>2, <2>1, <2>2 DEF RowsGo, W!Without, W!There, HookInv, AttemptsLeft
<1>3. CASE row[d].st = "pending"
  <2> DEFINE new == [of |-> row[d].of, attempt |-> row[d].attempt + 1, st |-> st]
  <2>1. row' = [row EXCEPT ![d] = new] /\ row \in Deliveries
    BY <1>1, <1>3 DEF HookInv, W!TypeOK, Deliveries
  <2>2. new \in [of : Hooks, attempt : 0..Attempts,
                 st : {"none", "pending", "delivered", "failed", "gone", "pruned"}]
    BY <1>1, <1>3, DeliveryTypes
  <2>3. row' \in Deliveries /\ row'[d] = new /\ \A e \in W!Rows \ {d} : row'[e] = row[e]
    BY <2>1, <2>2 DEF Deliveries
  <2>4. new.of = row[d].of /\ new.attempt = row[d].attempt + 1 /\ new.st = st
    OBVIOUS
  <2>5. st = "pending" => new.attempt < Attempts
    BY <1>1
  <2> HIDE DEF new
  <2>6. \A e \in W!Rows :
          /\ row'[e].st = "none" <=> row[e].st = "none"
          /\ row[e].st = "none" => row'[e].attempt = 0
          /\ row'[e].st = "pending" => row[e].st = "pending" /\ row'[e].attempt < Attempts
          /\ e \in W!Rows \ {d} /\ row[e].st = "pending" => row'[e].st = "pending"
    <3>1. ASSUME NEW e \in W!Rows, e = d
          PROVE  /\ row'[e].st # "none" /\ row[e].st # "none"
                 /\ row'[e].st = "pending" => row[e].st = "pending" /\ row'[e].attempt < Attempts
      BY <3>1, <2>3, <2>4, <2>5, <1>1, <1>3
    <3>2. ASSUME NEW e \in W!Rows, e # d
          PROVE  /\ row'[e] = row[e]
                 /\ row[e].st = "none" => row[e].attempt = 0
                 /\ row[e].st = "pending" => row[e].attempt < Attempts
      BY <3>2, <2>3 DEF HookInv, AttemptsLeft
    <3> QED
      BY <3>1, <3>2
  <2>7. RowsGo(W!Rows \ {d})
    BY <2>3, <2>6 DEF RowsGo, W!Without
  <2> QED
    BY <1>1, <1>3, <2>3, <2>4, <2>7 DEF W!There
<1> QED
  BY <1>2, <1>3

LEMMA HookTake == ASSUME HookInv, W!Take PROVE HookInv'
<1>0. PICK d \in W!Rows : d = Head(batch)
  <2>1. batch # <<>> /\ batch \in Seq(W!Rows)
    BY DEF W!Take, HookInv, HookShape
  <2> QED
    BY <2>1
<1>1. /\ cur = 0 /\ batch # <<>> /\ batch' = Tail(batch) /\ answer' = answer /\ ticking
      /\ UNCHANGED <<hook, used, matched, ticking, answer, hookFaults>>
  BY DEF W!Take, HookInv, W!TypeOK, W!Done
<1>2. /\ d \in W!Rows /\ Len(batch) >= 1 /\ d = batch[1] /\ batch' \in Seq(W!Rows)
      /\ Len(batch') = Len(batch) - 1 /\ Len(batch') \in Nat
      /\ \A i \in 1..Len(batch') : batch'[i] = batch[i + 1] /\ i + 1 \in 1..Len(batch)
  BY <1>0, <1>1 DEF HookInv, HookShape
<1>3. /\ row[d].st \in {"pending", "gone"} /\ answer = "none"
      /\ Injective(batch') /\ \A i \in 1..Len(batch') : batch'[i] # d /\ batch'[i] \in W!Rows
                                 /\ row[batch'[i]].st \in {"pending", "gone"}
  <2>1. \A i \in 1..Len(batch) : row[batch[i]].st \in {"pending", "gone"}
    BY DEF HookInv, InHand
  <2>2. \A i, j \in 1..Len(batch) : batch[i] = batch[j] => i = j
    BY DEF HookInv, InHand, Injective
  <2>3. row[d].st \in {"pending", "gone"} /\ answer = "none"
    BY <1>1, <1>2, <2>1 DEF HookInv, W!TypeOK
  <2>4. \A i \in 1..Len(batch') : batch'[i] # d /\ batch'[i] \in W!Rows
                                  /\ row[batch'[i]].st \in {"pending", "gone"}
    BY <1>2, <2>1, <2>2
  <2>5. \A i, j \in 1..Len(batch') : batch'[i] = batch'[j] => i = j
    BY <1>2, <2>2
  <2> QED
    BY <2>3, <2>4, <2>5 DEF Injective
<1>4. \/ W!Refuse(d) /\ cur' = cur /\ posts' = posts
      \/ cur' = d /\ posts' = [posts EXCEPT ![d] = @ + 1] /\ row' = row /\ queue' = queue
  BY <1>0 DEF W!Take
<1>5. CASE W!Refuse(d) /\ cur' = cur /\ posts' = posts
  <2>1. W!Settle(d, "failed") /\ queue' = W!Without(d)
    BY <1>5 DEF W!Refuse, W!Settle
  <2>2. /\ RowsGo(W!Rows \ {d})
        /\ \A e \in W!Rows \ {d} : row'[e] = row[e]
        /\ row'[d].st # "gone" => row[d].st # "gone" /\ row'[d].attempt = row[d].attempt + 1
        /\ row'[d].st # "pruned"
    BY <1>2, <1>3, <2>1, HookSettle
  <2>3. W!TypeOK' /\ AttemptsLeft' /\ HookShape'
    BY <1>1, <1>2, <1>5, <2>2, RowsGoQueue
       DEF HookInv, HookShape, RowsGo, W!TypeOK, W!Pending, W!Done, Deliveries
  <2>4. InHand'
    BY <1>1, <1>3, <1>5, <2>2, DeliveryTypes DEF InHand
  <2>5. W!PostsAreOnRecord'
    <3>1. ASSUME NEW e \in W!Rows, W!There(e)'
          PROVE  W!There(e) /\ posts'[e] = posts[e] /\ row'[e].attempt >= row[e].attempt
      <4>1. CASE e = d
        BY <3>1, <4>1, <1>2, <1>3, <1>5, <2>2, DeliveryTypes DEF W!There
      <4>2. CASE e # d
        <5>1. row'[e] = row[e] /\ row[e].attempt \in Nat
          BY <4>2, <2>2, DeliveryTypes
        <5> QED
          BY <3>1, <5>1, <1>5 DEF W!There
      <4> QED
        BY <4>1, <4>2
    <3>2. \A e \in W!Rows : row'[e].attempt \in Nat
      BY <2>2, HookFacts DEF RowsGo, Deliveries
    <3>3. ASSUME NEW e \in W!Rows, W!There(e)'
          PROVE  posts'[e] <= row'[e].attempt + hookFaults
      <4>1. posts[e] <= row[e].attempt + hookFaults + 0 /\ hookFaults \in Nat
        BY <1>1, <3>1, <3>3, DeliveryTypes DEF HookInv, HookShape, W!PostsAreOnRecord
      <4> QED
        BY <4>1, <3>1, <3>2, <3>3, DeliveryTypes
    <3>4. cur' = 0 /\ hookFaults' = hookFaults /\ hookFaults \in Nat
      BY <1>1, <1>5 DEF HookInv, HookShape
    <3> QED
      BY <3>2, <3>3, <3>4, DeliveryTypes DEF W!PostsAreOnRecord
  <2> QED
    BY <1>1, <2>3, <2>4, <2>5 DEF HookInv, W!EnabledIsBelowThreshold
<1>6. CASE cur' = d /\ posts' = [posts EXCEPT ![d] = @ + 1] /\ row' = row /\ queue' = queue
  <2>0. posts' \in [W!Rows -> Nat] /\ d # 0
    BY <1>2, <1>6, DeliveryTypes DEF HookInv, HookShape
  <2>4. W!TypeOK' /\ AttemptsLeft'
    BY <1>1, <1>2, <1>3, <1>6, <2>0 DEF HookInv, AttemptsLeft, W!TypeOK, W!Pending, W!Done
  <2>5. HookShape'
    BY <1>1, <1>2, <1>6, <2>0 DEF HookInv, HookShape
  <2>1. W!TypeOK' /\ AttemptsLeft' /\ HookShape'
    BY <2>4, <2>5
  <2>2. InHand'
    BY <1>1, <1>3, <1>6 DEF InHand
  <2>3. W!PostsAreOnRecord'
    <3>1. \A e \in W!Rows : posts'[e] = IF e = d THEN posts[e] + 1 ELSE posts[e]
      BY <1>6 DEF HookInv, HookShape
    <3>2. SUFFICES ASSUME NEW e \in W!Rows, W!There(e)'
          PROVE  posts'[e] <= row'[e].attempt + hookFaults'
                    + IF cur' = e /\ answer' \in {"none", "ok", "bad"} THEN 1 ELSE 0
      BY DEF W!PostsAreOnRecord
    <3>3. posts[e] <= row[e].attempt + hookFaults
                    + IF cur = e /\ answer \in {"none", "ok", "bad"} THEN 1 ELSE 0
      <4>1. row[e].st \notin {"gone", "pruned"}
        BY <1>6, <3>2 DEF W!There
      <4> QED
        BY <4>1, <3>2 DEF HookInv, W!PostsAreOnRecord, W!There
    <3>4. cur # e
      BY <1>1, <3>2, DeliveryTypes
    <3>5. row'[e] = row[e] /\ hookFaults' = hookFaults /\ row[e].attempt \in Nat
          /\ posts[e] \in Nat /\ hookFaults \in Nat
      BY <1>1, <1>6, DeliveryTypes DEF HookInv, HookShape
    <3>6. cur' = d /\ answer' = "none"
      BY <1>1, <1>3, <1>6
    <3> QED
      BY <3>1, <3>3, <3>4, <3>5, <3>6
  <2> QED
    BY <1>1, <2>1, <2>2, <2>3 DEF HookInv, W!EnabledIsBelowThreshold
<1> QED
  BY <1>4, <1>5, <1>6

LEMMA HookUpdate == ASSUME HookInv, W!Update PROVE HookInv'
<1>1. /\ cur # 0 /\ answer \in {"ok", "bad"} /\ answer' \in {"success", "failure", "retried"}
      /\ UNCHANGED <<hook, used, matched, ticking, batch, cur, posts, hookFaults>>
      /\ \/ \E how \in {"delivered", "failed"} : W!Settle(cur, how)
         \/ W!Retries(cur) /\ W!Reschedule(cur)
      /\ queue' = W!Without(cur)
  BY DEF W!Update, W!Settle, W!Reschedule
<1>2. cur \in W!Rows /\ row[cur].st \in {"pending", "gone"}
  BY <1>1 DEF HookInv, HookShape, InHand
<1>3. /\ RowsGo(W!Rows \ {cur})
      /\ \A e \in W!Rows \ {cur} : row'[e] = row[e]
      /\ row'[cur].st # "none"
      /\ row'[cur].st # "gone" => row[cur].st # "gone" /\ row'[cur].attempt = row[cur].attempt + 1
      /\ row'[cur].st # "pruned"
  BY <1>1, <1>2, HookSettle
<1>4. W!TypeOK' /\ AttemptsLeft' /\ HookShape'
  BY <1>1, <1>3, RowsGoQueue
     DEF HookInv, HookShape, RowsGo, W!TypeOK, W!Pending, W!Done, Deliveries
<1>5. InHand'
  <2>1. \A i \in 1..Len(batch) : batch[i] \in W!Rows \ {cur}
    BY DEF HookInv, HookShape, InHand
  <2> QED
    BY <1>1, <1>3, <2>1 DEF HookInv, InHand, Injective
<1>6. W!PostsAreOnRecord'
  <2>1. ASSUME NEW e \in W!Rows, W!There(e)'
        PROVE  posts'[e] <= row'[e].attempt + hookFaults'
    <3>1. CASE e = cur
      <4>1. W!There(e) /\ row'[e].attempt = row[e].attempt + 1
        BY <2>1, <3>1, <1>2, <1>3 DEF W!There
      <4> QED
        BY <3>1, <4>1, <1>1, <1>2, DeliveryTypes DEF HookInv, HookShape, W!PostsAreOnRecord
    <3>2. CASE e # cur
      <4>1. W!There(e) /\ row'[e] = row[e]
        BY <2>1, <3>2, <1>3 DEF W!There
      <4> QED
        BY <3>2, <4>1, <1>1, DeliveryTypes DEF HookInv, HookShape, W!PostsAreOnRecord
    <3> QED
      BY <3>1, <3>2
  <2> QED
    <3>1. \A e \in W!Rows : posts'[e] = posts[e] /\ posts[e] \in Nat
      BY <1>1, DeliveryTypes
    <3>2. ~(answer' \in {"none", "ok", "bad"})
      BY <1>1
    <3>3. \A e \in W!Rows : row'[e].attempt \in Nat /\ hookFaults' \in Nat
      BY <1>3, <1>4, HookFacts DEF RowsGo, Deliveries, HookShape
    <3> QED
      BY <2>1, <3>1, <3>2, <3>3 DEF W!PostsAreOnRecord
<1> QED
  BY <1>1, <1>4, <1>5, <1>6 DEF HookInv, W!EnabledIsBelowThreshold

LEMMA HookAccount == ASSUME HookInv, W!Account PROVE HookInv'
<1> DEFINE h == row[cur].of
<1>1. /\ answer \in {"success", "failure", "retried"} /\ cur' = 0 /\ answer' = "none"
      /\ hook' = [hook EXCEPT ![h] = W!Outcome(h)]
      /\ UNCHANGED <<row, queue, used, matched, ticking, batch, posts, hookFaults>>
  BY DEF W!Account
<1>2. cur \in W!Rows /\ h \in Hooks
  BY <1>1, DeliveryTypes DEF HookInv, HookShape, W!TypeOK
<1> HIDE DEF h
<1>3. /\ hook[h] \in [st : {"on", "off", "gone"}, failures : Nat]
      /\ hook[h].st = "on" => hook[h].failures < Threshold
  BY <1>2 DEF HookInv, W!TypeOK, W!EnabledIsBelowThreshold
<1>4. /\ W!Outcome(h) \in [st : {"on", "off", "gone"}, failures : Nat]
      /\ W!Outcome(h).st = "on" => W!Outcome(h).failures < Threshold
  <2>1. CASE hook[h].st = "gone" \/ answer = "retried"
    <3>1. W!Outcome(h) = hook[h]
      BY <1>1, <2>1 DEF W!Outcome
    <3> QED
      BY <1>3, <3>1
  <2>2. CASE ~(hook[h].st = "gone" \/ answer = "retried") /\ answer = "success"
    <3>1. W!Outcome(h) = [hook[h] EXCEPT !.failures = 0]
      BY <2>2 DEF W!Outcome
    <3> QED
      BY <1>3, <3>1, HookFacts
  <2>3. CASE ~(hook[h].st = "gone" \/ answer = "retried") /\ answer = "failure"
    <3>1. W!Outcome(h) = W!OneMore(h)
      BY <2>3 DEF W!Outcome
    <3> QED
      BY <1>3, <3>1, HookFacts DEF W!OneMore
  <2> QED
    BY <1>1, <2>1, <2>2, <2>3
<1>5. hook' \in [Hooks -> [st : {"on", "off", "gone"}, failures : Nat]] /\ W!EnabledIsBelowThreshold'
  BY <1>1, <1>2, <1>4 DEF HookInv, W!TypeOK, W!EnabledIsBelowThreshold
<1>6. ticking
  BY <1>1, <1>2, DeliveryTypes DEF HookInv, W!TypeOK, W!Done
<1>7. W!TypeOK' /\ AttemptsLeft' /\ HookShape'
  BY <1>1, <1>5, <1>6 DEF HookInv, HookShape, AttemptsLeft, W!TypeOK, W!Pending, W!Done
<1>8. InHand'
  <2>1. \A i \in 1..Len(batch) : batch[i] # 0
    BY DeliveryTypes DEF HookInv, HookShape
  <2> QED
    BY <1>1, <2>1 DEF HookInv, InHand, Injective
<1>9. W!PostsAreOnRecord'
  <2>1. \A e \in W!Rows : e # 0
    BY DeliveryTypes
  <2> QED
    BY <1>1, <2>1 DEF HookInv, W!PostsAreOnRecord, W!There
<1> QED
  BY <1>5, <1>7, <1>8, <1>9 DEF HookInv

LEMMA HookPrune == ASSUME HookInv, W!Prune PROVE HookInv'
<1>1. /\ batch = <<>> /\ cur = 0 /\ ticking' = FALSE
      /\ row' = [d \in W!Rows |-> IF d \in W!Pruned THEN [row[d] EXCEPT !.st = "pruned"] ELSE row[d]]
      /\ queue' = W!Keeping(W!Rows \ W!Pruned)
      /\ UNCHANGED <<hook, used, matched, batch, cur, answer, posts, hookFaults>>
  BY DEF W!Prune, W!Done
<1>2. \A d \in W!Pruned : d \in W!Rows /\ row[d].st # "none"
  BY DEF W!Pruned
<1>3. \A d \in W!Rows :
         /\ row'[d].of = row[d].of /\ row'[d].attempt = row[d].attempt
         /\ row'[d].st = IF d \in W!Pruned THEN "pruned" ELSE row[d].st
         /\ row'[d] \in [of : Hooks, attempt : 0..Attempts,
                         st : {"none", "pending", "delivered", "failed", "gone", "pruned"}]
  BY <1>1, DeliveryTypes
<1>4. row' \in Deliveries
  BY <1>1, <1>3 DEF Deliveries
<1>5. RowsGo(W!Rows \ W!Pruned)
  BY <1>1, <1>2, <1>3, <1>4 DEF RowsGo, HookInv, AttemptsLeft
<1>6. W!TypeOK'
  BY <1>1, <1>4, <1>5, RowsGoQueue DEF HookInv, W!TypeOK, W!Pending, W!Done, Deliveries
<1>7. HookShape' /\ AttemptsLeft'
  BY <1>1, <1>5, RowsGoQueue DEF HookInv, HookShape
<1>8. InHand'
  BY <1>1 DEF InHand, Injective
<1>9. W!PostsAreOnRecord' /\ W!EnabledIsBelowThreshold'
  BY <1>1, <1>3 DEF HookInv, W!PostsAreOnRecord, W!EnabledIsBelowThreshold, W!There
<1> QED
  BY <1>6, <1>7, <1>8, <1>9 DEF HookInv

LEMMA HookStep == HookInv /\ [W!Next]_(W!vars) => HookInv'
<1> SUFFICES ASSUME HookInv, [W!Next]_(W!vars) PROVE HookInv'
  OBVIOUS
<1>1. CASE UNCHANGED W!vars
  BY <1>1, HookMatched DEF W!vars, Aside, HookInv, HookShape
<1> QED
  BY <1>1, HookMatch, HookEnqueue, HookDelete, HookSetEnabled, HookFallsDue, HookSelect, HookTake,
     HookUpdate, HookAccount, HookPrune, HookAnswer, HookStop DEF W!Next, W!TickStep

(* A receiver sees one request per attempt on record, but for the one in     *)
(* hand and those a fault hid; and no enabled hook is at its threshold.      *)
THEOREM DeliveriesHold == W!Spec => [](W!PostsAreOnRecord /\ W!EnabledIsBelowThreshold)
<1>1. HookInv => W!PostsAreOnRecord /\ W!EnabledIsBelowThreshold
  BY DEF HookInv
<1> QED
  BY HookInit, HookStep, <1>1, PTL DEF W!Spec

-------------------------------------------------------------------------------
(* The documentation: a run is in hand only under the lock, and alone.  A    *)
(* page being written holds the chunks written so far; of a source that is   *)
(* gone through, what is kept is still to come, in hand or visited.          *)
DocStages ==
    {"idle", "load", "source", "pages", "read", "embed", "clear", "write", "prune", "drop", "release"}
InPage == {"read", "embed", "clear", "write"}
InSource == InPage \cup {"pages"}
DocRun ==
    [at : DocStages, known : SUBSET DocSources, todo : SUBSET DocSources, source : DocSources,
     pages : SUBSET DocPages, visited : SUBSET DocPages, page : DocPages,
     hash : 0..DocChunks, n : 0..DocChunks]

RunOk(r) ==
    LET at1 == run[r].at
        page == run[r].page
        source == run[r].source
    IN  /\ at1 # "write" => run[r].n = 0
        /\ at1 \in {"embed", "clear", "write"} => run[r].hash # 0
        /\ at1 = "write" =>
              /\ run[r].n < run[r].hash
              /\ chunks[page] = [i \in 1..DocChunks |-> IF i <= run[r].n THEN run[r].hash ELSE 0]
        /\ at1 = "read" /\ run[r].hash = 0 => page \notin docsKept
        /\ at1 \in InSource => source \in run[r].known /\ \A p \in run[r].pages : DocSource[p] = source
        /\ at1 \in InPage => DocSource[page] = source
        /\ at1 \in InSource => \A p \in docsKept : DocSource[p] = source =>
              p \in run[r].pages \/ p \in run[r].visited \/ (at1 \in InPage /\ p = page)
        /\ at1 \in InSource \cup {"source", "prune"} => run[r].todo \subseteq run[r].known
        /\ at1 \in InSource \cup {"source", "prune", "drop"} =>
              \A p \in docsKept : DocSource[p] \in run[r].known
        /\ at1 = "prune" => \A p \in run[r].pages : p \in docsKept => DocSource[p] # source
        /\ at1 = "drop" => \A q \in run[r].todo : \A s \in run[r].known : product[s] # q

DocInv ==
    /\ H!TypeOK /\ product \in [DocSources -> DocSources]
    /\ run \in [H!Runs -> DocRun]
    /\ \A r \in H!Runs : run[r] # H!NoRun => lock /\ \A q \in H!Runs \ {r} : run[q] = H!NoRun
    /\ \A r \in H!Runs : RunOk(r)
    /\ \A p \in docsKept : p \in DocPages /\ H!Wanted(p)
    /\ H!PagesAreWhole /\ H!KeptPagesStand

LEMMA DocNoRun == H!NoRun \in DocRun /\ H!NoRun.at = "idle" /\ H!NoRun.n = 0
  BY DocsAssumption DEF H!DocsAssumption, H!NoRun, DocRun, DocStages

LEMMA DocInit == H!Init => DocInv
<1> SUFFICES ASSUME H!Init PROVE DocInv
  OBVIOUS
<1>1. \A r \in H!Runs : RunOk(r)
  BY DocNoRun DEF H!Init, RunOk, InSource, InPage
<1>2. H!TypeOK /\ run \in [H!Runs -> DocRun]
  <2>1. \A r \in H!Runs : run[r] = H!NoRun
    BY DEF H!Init
  <2>2. H!NoRun.visited \cup H!NoRun.pages \subseteq DocPages
    BY DEF H!NoRun
  <2> QED
    BY <2>1, <2>2, DocNoRun, DocsAssumption DEF H!DocsAssumption, H!Init, H!TypeOK, H!Empty, H!Whole
<1>3. H!PagesAreWhole /\ H!KeptPagesStand
  BY DocsAssumption DEF H!DocsAssumption, H!Init, H!PagesAreWhole, H!KeptPagesStand, H!Empty
<1> QED
  BY <1>1, <1>2, <1>3 DEF DocInv, H!Init

LEMMA DocFrame ==
    ASSUME DocInv, NEW r \in H!Runs, run[r].at # "idle",
           NEW x \in DocRun, run' = [run EXCEPT ![r] = x], UNCHANGED <<lock, product>>,
           text' \in [DocPages -> 0..DocChunks] /\ linked' \subseteq DocPages /\ configured' \subseteq DocSources,
           chunks' \in [DocPages -> [1..DocChunks -> 0..DocChunks]],
           RunOk(r)', \A p \in docsKept' : p \in DocPages /\ H!Wanted(p)',
           H!PagesAreWhole', H!KeptPagesStand'
    PROVE  DocInv'
<1>1. run[r] # H!NoRun /\ lock /\ \A q \in H!Runs \ {r} : run[q] = H!NoRun
  BY DocNoRun DEF DocInv
<1>2. run' \in [H!Runs -> DocRun] /\ \A q \in H!Runs \ {r} : run'[q] = H!NoRun
  BY <1>1 DEF DocInv
<1>3. ASSUME NEW q \in H!Runs PROVE RunOk(q)'
  <2>1. CASE q = r
    BY <2>1
  <2>2. CASE q # r
    BY <1>2, <2>2, DocNoRun DEF RunOk, InSource, InPage
  <2> QED
    BY <2>1, <2>2
<1>4. \A q \in H!Runs : run'[q].visited \cup run'[q].pages \subseteq DocPages
  BY <1>2 DEF DocRun
<1>5. H!TypeOK'
  BY <1>4 DEF H!TypeOK
<1>6. \A q \in H!Runs : run'[q] # H!NoRun => lock' /\ \A o \in H!Runs \ {q} : run'[o] = H!NoRun
  BY <1>1, <1>2
<1> QED
  BY <1>2, <1>3, <1>5, <1>6 DEF DocInv

(* Nothing is being written before or after. *)
LEMMA DocReads ==
    ASSUME DocInv, NEW r \in H!Runs, run[r].at \notin {"idle", "write"}, H!Reads,
           NEW x \in DocRun, run' = [run EXCEPT ![r] = x], RunOk(r)'
    PROVE  DocInv'
<1>1. \A p : ~H!Writing(p)
  BY DocNoRun DEF DocInv, H!Writing
<1>2. UNCHANGED <<lock, product, text, linked, configured, chunks, torn, lost, docsKept>>
  BY DEF H!Reads, H!sites, H!history
<1>3. H!PagesAreWhole' /\ H!KeptPagesStand'
  BY <1>1, <1>2 DEF DocInv, H!PagesAreWhole, H!KeptPagesStand, H!Stored, H!Empty, H!Whole
<1>4. \A p \in docsKept' : p \in DocPages /\ H!Wanted(p)'
  BY <1>2 DEF DocInv, H!Wanted
<1>5. /\ text' \in [DocPages -> 0..DocChunks] /\ linked' \subseteq DocPages
      /\ configured' \subseteq DocSources
      /\ chunks' \in [DocPages -> [1..DocChunks -> 0..DocChunks]]
  BY <1>2 DEF DocInv, H!TypeOK
<1> QED
  BY <1>2, <1>3, <1>4, <1>5, DocFrame

LEMMA DocRunType == ASSUME DocInv, NEW r \in H!Runs PROVE run[r] \in DocRun /\ RunOk(r)
  BY DEF DocInv

(* A step of a run that reads: the conditions on what it makes of the run.   *)
LEMMA DocReadStep ==
    ASSUME DocInv, NEW r \in H!Runs, run[r].at \notin {"idle", "write"}, H!Reads,
           NEW x \in DocRun, run' = [run EXCEPT ![r] = x],
           x.at # "write" /\ x.n = 0,
           x.at \in {"embed", "clear"} => x.hash # 0,
           x.at = "read" /\ x.hash = 0 => x.page \notin docsKept,
           x.at \in InSource => x.source \in x.known /\ \A p \in x.pages : DocSource[p] = x.source,
           x.at \in InPage => DocSource[x.page] = x.source,
           x.at \in InSource => \A p \in docsKept : DocSource[p] = x.source =>
              p \in x.pages \/ p \in x.visited \/ (x.at \in InPage /\ p = x.page),
           x.at \in InSource \cup {"source", "prune"} => x.todo \subseteq x.known,
           x.at \in InSource \cup {"source", "prune", "drop"} =>
              \A p \in docsKept : DocSource[p] \in x.known,
           x.at = "prune" => \A p \in x.pages : p \in docsKept => DocSource[p] # x.source,
           x.at = "drop" => \A q \in x.todo : \A s \in x.known : product[s] # q
    PROVE  DocInv'
<1>1. run'[r] = x /\ UNCHANGED <<product, docsKept>>
  BY DEF DocInv, H!Reads, H!sites, H!history
<1>2. RunOk(r)'
  BY <1>1 DEF RunOk
<1> QED
  BY <1>2, DocReads

LEMMA DocLoad == ASSUME DocInv, NEW r \in H!Runs, H!Load(r) PROVE DocInv'
<1>1. run[r] \in DocRun /\ run[r].at = "load" /\ run[r].n = 0 /\ H!Reads
  BY DocRunType DEF H!Load, RunOk
<1>2. configured \subseteq DocSources /\ \A p \in docsKept : DocSource[p] \in configured
  BY DEF DocInv, H!TypeOK, H!Wanted
<1>3. CASE run' = [run EXCEPT ![r].at = "release"]
  <2> DEFINE x == [run[r] EXCEPT !.at = "release"]
  <2>1. x \in DocRun /\ x.n = 0 /\ x.at = "release"
    BY <1>1 DEF DocRun, DocStages
  <2>2. run' = [run EXCEPT ![r] = x]
    BY <1>3
  <2> HIDE DEF x
  <2> QED
    BY <1>1, <2>1, <2>2, DocReadStep DEF InSource, InPage
<1>4. CASE run' = [run EXCEPT ![r].at = IF configured = {} THEN "release" ELSE "source",
                              ![r].known = configured, ![r].todo = configured]
  <2> DEFINE x == [run[r] EXCEPT !.at = IF configured = {} THEN "release" ELSE "source",
                                 !.known = configured, !.todo = configured]
  <2>1. /\ x \in DocRun /\ x.n = 0 /\ x.at \in {"release", "source"}
        /\ x.known = configured /\ x.todo = configured
    BY <1>1, <1>2 DEF DocRun, DocStages
  <2>2. run' = [run EXCEPT ![r] = x]
    BY <1>4
  <2> HIDE DEF x
  <2> QED
    BY <1>1, <1>2, <2>1, <2>2, DocReadStep DEF InSource, InPage
<1> QED
  BY <1>3, <1>4 DEF H!Load

LEMMA DocFetchIndex ==
    ASSUME DocInv, NEW r \in H!Runs, NEW s \in DocSources, H!FetchIndex(r, s) PROVE DocInv'
<1>1. /\ run[r] \in DocRun /\ run[r].at = "source" /\ run[r].n = 0 /\ H!Reads
      /\ run[r].todo \subseteq run[r].known /\ s \in run[r].todo
      /\ \A p \in docsKept : DocSource[p] \in run[r].known
  BY DocRunType DEF H!FetchIndex, RunOk
<1>2. linked \subseteq DocPages /\ docsKept \subseteq linked
  BY DEF DocInv, H!TypeOK, H!Wanted
<1>3. CASE run' = [run EXCEPT ![r].todo = @ \ {s}]
  <2> DEFINE x == [run[r] EXCEPT !.todo = @ \ {s}]
  <2>1. /\ x \in DocRun /\ x.n = 0 /\ x.at = "source"
        /\ x.known = run[r].known /\ x.todo = run[r].todo \ {s}
    BY <1>1 DEF DocRun, DocStages
  <2>2. run' = [run EXCEPT ![r] = x]
    BY <1>3
  <2> HIDE DEF x
  <2> QED
    BY <1>1, <2>1, <2>2, DocReadStep DEF InSource, InPage
<1>4. CASE run' = [run EXCEPT ![r].at = "pages", ![r].todo = @ \ {s}, ![r].source = s,
                              ![r].pages = {p \in linked : DocSource[p] = s}, ![r].visited = {}]
  <2> DEFINE x == [run[r] EXCEPT !.at = "pages", !.todo = @ \ {s}, !.source = s,
                                 !.pages = {p \in linked : DocSource[p] = s}, !.visited = {}]
  <2>1. /\ x \in DocRun /\ x.n = 0 /\ x.at = "pages" /\ x.source = s
        /\ x.known = run[r].known /\ x.todo = run[r].todo \ {s}
        /\ x.pages = {p \in linked : DocSource[p] = s}
    BY <1>1, <1>2 DEF DocRun, DocStages
  <2>2. run' = [run EXCEPT ![r] = x]
    BY <1>4
  <2> HIDE DEF x
  <2> QED
    BY <1>1, <1>2, <2>1, <2>2, DocReadStep DEF InSource, InPage
<1> QED
  BY <1>3, <1>4 DEF H!FetchIndex

LEMMA DocFetchPage ==
    ASSUME DocInv, NEW r \in H!Runs, NEW p \in DocPages, H!FetchPage(r, p) PROVE DocInv'
<1>1. /\ run[r] \in DocRun /\ run[r].at = "pages" /\ run[r].n = 0 /\ H!Reads
      /\ p \in run[r].pages /\ run[r].todo \subseteq run[r].known
      /\ run[r].source \in run[r].known
      /\ \A q \in run[r].pages : DocSource[q] = run[r].source
      /\ \A q \in docsKept : DocSource[q] = run[r].source => q \in run[r].pages \/ q \in run[r].visited
      /\ \A q \in docsKept : DocSource[q] \in run[r].known
  BY DocRunType DEF H!FetchPage, RunOk, InSource, InPage
<1>2. text[p] \in 0..DocChunks /\ (text[p] = 0 => p \notin docsKept)
  BY DEF DocInv, H!TypeOK, H!Wanted
<1>3. CASE run' = [run EXCEPT ![r].pages = @ \ {p}, ![r].visited = H!AfterFailure(@, p)]
  <2> DEFINE x == [run[r] EXCEPT !.pages = @ \ {p}, !.visited = @ \cup {p}]
  <2>1. /\ x \in DocRun /\ x.n = 0 /\ x.at = "pages" /\ x.source = run[r].source
        /\ x.known = run[r].known /\ x.todo = run[r].todo
        /\ x.pages = run[r].pages \ {p} /\ x.visited = run[r].visited \cup {p}
    BY <1>1 DEF DocRun, DocStages
  <2>2. run' = [run EXCEPT ![r] = x]
    BY <1>3 DEF H!AfterFailure
  <2> HIDE DEF x
  <2> QED
    BY <1>1, <2>1, <2>2, DocReadStep DEF InSource, InPage
<1>4. CASE run' = [run EXCEPT ![r].at = "read", ![r].page = p, ![r].hash = text[p],
                              ![r].pages = @ \ {p}]
  <2> DEFINE x == [run[r] EXCEPT !.at = "read", !.page = p, !.hash = text[p], !.pages = @ \ {p}]
  <2>1. /\ x \in DocRun /\ x.n = 0 /\ x.at = "read" /\ x.source = run[r].source
        /\ x.known = run[r].known /\ x.todo = run[r].todo /\ x.page = p /\ x.hash = text[p]
        /\ x.pages = run[r].pages \ {p} /\ x.visited = run[r].visited
    BY <1>1, <1>2 DEF DocRun, DocStages
  <2>2. run' = [run EXCEPT ![r] = x]
    BY <1>4
  <2> HIDE DEF x
  <2> QED
    BY <1>1, <1>2, <2>1, <2>2, DocReadStep DEF InSource, InPage
<1> QED
  BY <1>3, <1>4 DEF H!FetchPage

(* What a run with a page in hand knows. *)
PageInHand(r) ==
    /\ run[r] \in DocRun /\ run[r].todo \subseteq run[r].known
    /\ run[r].source \in run[r].known /\ DocSource[run[r].page] = run[r].source
    /\ \A q \in run[r].pages : DocSource[q] = run[r].source
    /\ \A q \in docsKept : DocSource[q] = run[r].source =>
          q \in run[r].pages \/ q \in run[r].visited \/ q = run[r].page
    /\ \A q \in docsKept : DocSource[q] \in run[r].known

LEMMA DocPageInHand ==
    ASSUME DocInv, NEW r \in H!Runs, run[r].at \in InPage PROVE PageInHand(r)
  BY DocRunType DEF RunOk, InSource, InPage, PageInHand

\* After the page.
Visited(r) ==
    [run[r] EXCEPT !.at = "pages", !.hash = 0, !.n = 0, !.visited = @ \cup {run[r].page}]

LEMMA DocVisited ==
    ASSUME DocInv, NEW r \in H!Runs, run[r].at \in InPage
    PROVE  /\ Visited(r) \in DocRun /\ Visited(r).n = 0 /\ Visited(r).at = "pages"
           /\ Visited(r).source = run[r].source /\ Visited(r).known = run[r].known
           /\ Visited(r).todo = run[r].todo /\ Visited(r).pages = run[r].pages
           /\ Visited(r).visited = run[r].visited \cup {run[r].page}
           /\ H!Fails(r) \/ H!Succeeds(r) => run' = [run EXCEPT ![r] = Visited(r)]
<1>1. run[r] \in DocRun
  BY DocRunType
<1>2. H!Fails(r) \/ H!Succeeds(r) => run' = [run EXCEPT ![r] = Visited(r)]
  BY DEF H!Fails, H!Succeeds, H!AfterFailure, Visited
<1>3. 0 \in 0..DocChunks
  BY DocsAssumption DEF H!DocsAssumption
<1> QED
  BY <1>1, <1>2, <1>3 DEF Visited, DocRun, DocStages

LEMMA DocLeavesPage ==
    ASSUME DocInv, NEW r \in H!Runs, run[r].at \in InPage \ {"write"}, H!Reads,
           H!Fails(r) \/ H!Succeeds(r)
    PROVE  DocInv'
<1>1. PageInHand(r)
  BY DocPageInHand
<1> DEFINE x == Visited(r)
<1>2. /\ x \in DocRun /\ x.n = 0 /\ x.at = "pages" /\ x.source = run[r].source
      /\ x.known = run[r].known /\ x.todo = run[r].todo /\ x.pages = run[r].pages
      /\ x.visited = run[r].visited \cup {run[r].page} /\ run' = [run EXCEPT ![r] = x]
  BY DocVisited
<1> HIDE DEF x
<1>3. run[r].at \notin {"idle", "write"}
  BY DEF InPage
<1>4. /\ x.source \in x.known /\ x.todo \subseteq x.known
      /\ \A p \in x.pages : DocSource[p] = x.source
      /\ \A p \in docsKept : DocSource[p] \in x.known
      /\ \A p \in docsKept : DocSource[p] = x.source => p \in x.pages \/ p \in x.visited
  BY <1>1, <1>2 DEF PageInHand
<1>5. x.at \notin InPage /\ x.at \notin {"prune", "drop", "read", "embed", "clear", "write"}
  BY <1>2 DEF InPage
<1> QED
  BY <1>2, <1>3, <1>4, <1>5, DocReadStep

LEMMA DocMovesOn ==
    ASSUME DocInv, NEW r \in H!Runs, run[r].at \in InPage \ {"write"}, H!Reads,
           run[r].hash # 0, NEW a \in {"embed", "clear"}, run' = [run EXCEPT ![r].at = a]
    PROVE  DocInv'
<1>1. PageInHand(r) /\ run[r].n = 0
  BY DocPageInHand, DocRunType DEF RunOk
<1> DEFINE x == [run[r] EXCEPT !.at = a]
<1>2. /\ x \in DocRun /\ x.at = a /\ x.n = 0 /\ x.hash = run[r].hash /\ x.page = run[r].page
      /\ x.source = run[r].source /\ x.known = run[r].known
      /\ x.todo = run[r].todo /\ x.pages = run[r].pages /\ x.visited = run[r].visited
  BY <1>1 DEF DocRun, DocStages, PageInHand
<1>3. run' = [run EXCEPT ![r] = x]
  OBVIOUS
<1> HIDE DEF x
<1>4. run[r].at \notin {"idle", "write"} /\ a \in InPage /\ a \in InSource
  BY DEF InPage, InSource
<1>5. a # "read" /\ a # "prune" /\ a # "drop" /\ a # "write"
  OBVIOUS
<1>6. /\ x.source \in x.known /\ x.todo \subseteq x.known /\ DocSource[x.page] = x.source
      /\ \A p \in x.pages : DocSource[p] = x.source
      /\ \A p \in docsKept : DocSource[p] \in x.known
      /\ \A p \in docsKept : DocSource[p] = x.source =>
            p \in x.pages \/ p \in x.visited \/ p = x.page
  BY <1>1, <1>2 DEF PageInHand
<1> QED
  BY <1>2, <1>3, <1>4, <1>5, <1>6, DocReadStep

LEMMA DocCompare == ASSUME DocInv, NEW r \in H!Runs, H!Compare(r) PROVE DocInv'
<1>1. run[r].at = "read" /\ run[r].hash # 0 /\ H!Reads
  BY DEF H!Compare
<1>2. H!Succeeds(r) \/ run' = [run EXCEPT ![r].at = "embed"]
  BY DEF H!Compare
<1> QED
  BY <1>1, <1>2, DocLeavesPage, DocMovesOn DEF InPage

LEMMA DocEmbed == ASSUME DocInv, NEW r \in H!Runs, H!Embed(r) PROVE DocInv'
<1>1. run[r].at = "embed" /\ run[r].hash # 0 /\ H!Reads
  BY DocRunType DEF H!Embed, RunOk
<1>2. H!Fails(r) \/ run' = [run EXCEPT ![r].at = "clear"]
  BY DEF H!Embed
<1> QED
  BY <1>1, <1>2, DocLeavesPage, DocMovesOn DEF InPage

LEMMA DocListPages == ASSUME DocInv, NEW r \in H!Runs, H!ListPages(r) PROVE DocInv'
<1>1. /\ run[r] \in DocRun /\ run[r].at = "pages" /\ run[r].n = 0 /\ H!Reads
      /\ run[r].pages = {} /\ run[r].todo \subseteq run[r].known
      /\ \A q \in docsKept : DocSource[q] = run[r].source => q \in run[r].visited
      /\ \A q \in docsKept : DocSource[q] \in run[r].known
  BY DocRunType DEF H!ListPages, RunOk, InSource, InPage
<1> DEFINE ofProduct == {p \in H!Stored : H!ProductOf(p) = product[run[r].source]}
           x == [run[r] EXCEPT !.at = "prune", !.pages = ofProduct \ run[r].visited]
           y == [run[r] EXCEPT !.at = "source"]
<1>2. ofProduct \subseteq DocPages
  BY DEF H!Stored
<1> HIDE DEF ofProduct
<1>3. /\ x \in DocRun /\ x.n = 0 /\ x.at = "prune" /\ x.source = run[r].source
      /\ x.known = run[r].known /\ x.todo = run[r].todo /\ x.pages = ofProduct \ run[r].visited
  BY <1>1, <1>2 DEF DocRun, DocStages
<1>4. y \in DocRun /\ y.n = 0 /\ y.at = "source" /\ y.known = run[r].known /\ y.todo = run[r].todo
  BY <1>1 DEF DocRun, DocStages
<1>5. run' = [run EXCEPT ![r] = x] \/ run' = [run EXCEPT ![r] = y]
  BY DEF H!ListPages, ofProduct
<1> HIDE DEF x, y
<1>6. CASE run' = [run EXCEPT ![r] = x]
  BY <1>1, <1>3, <1>6, DocReadStep DEF InSource, InPage
<1>7. CASE run' = [run EXCEPT ![r] = y]
  BY <1>1, <1>4, <1>7, DocReadStep DEF InSource, InPage
<1> QED
  BY <1>5, <1>6, <1>7

LEMMA DocListProducts == ASSUME DocInv, NEW r \in H!Runs, H!ListProducts(r) PROVE DocInv'
<1>1. /\ run[r] \in DocRun /\ run[r].at = "source" /\ run[r].n = 0 /\ H!Reads
      /\ \A q \in docsKept : DocSource[q] \in run[r].known
  BY DocRunType DEF H!ListProducts, RunOk
<1> DEFINE stale == {H!ProductOf(p) : p \in H!Stored} \ H!Products(run[r].known)
           x == [run[r] EXCEPT !.at = "drop", !.todo = stale]
           y == [run[r] EXCEPT !.at = "release"]
<1>2. stale \subseteq DocSources /\ \A q \in stale : \A s \in run[r].known : product[s] # q
  BY DocsAssumption DEF H!DocsAssumption, H!Stored, H!ProductOf, H!Products, DocInv
<1> HIDE DEF stale
<1>3. /\ x \in DocRun /\ x.n = 0 /\ x.at = "drop" /\ x.known = run[r].known /\ x.todo = stale
  BY <1>1, <1>2 DEF DocRun, DocStages
<1>4. y \in DocRun /\ y.n = 0 /\ y.at = "release"
  BY <1>1 DEF DocRun, DocStages
<1>5. run' = [run EXCEPT ![r] = x] \/ run' = [run EXCEPT ![r] = y]
  BY DEF H!ListProducts, stale
<1> HIDE DEF x, y
<1>6. CASE run' = [run EXCEPT ![r] = x]
  BY <1>1, <1>2, <1>3, <1>6, DocReadStep DEF InSource, InPage
<1>7. CASE run' = [run EXCEPT ![r] = y]
  BY <1>1, <1>4, <1>7, DocReadStep DEF InSource, InPage
<1> QED
  BY <1>5, <1>6, <1>7

LEMMA DocEndOfPruning == ASSUME DocInv, NEW r \in H!Runs, H!EndOfPruning(r) PROVE DocInv'
<1>1. run[r] \in DocRun /\ run[r].n = 0 /\ H!Reads
  BY DocRunType DEF H!EndOfPruning, RunOk
<1>2. CASE run[r].at = "prune" /\ run' = [run EXCEPT ![r].at = "source"]
  <2> DEFINE x == [run[r] EXCEPT !.at = "source"]
  <2>1. /\ x \in DocRun /\ x.n = 0 /\ x.at = "source" /\ x.known = run[r].known
        /\ x.todo = run[r].todo /\ run' = [run EXCEPT ![r] = x]
    BY <1>1, <1>2 DEF DocRun, DocStages
  <2>2. run[r].todo \subseteq run[r].known /\ \A q \in docsKept : DocSource[q] \in run[r].known
    BY <1>2, DocRunType DEF RunOk
  <2> HIDE DEF x
  <2> QED
    BY <1>1, <1>2, <2>1, <2>2, DocReadStep DEF InSource, InPage
<1>3. CASE run[r].at = "drop" /\ run' = [run EXCEPT ![r].at = "release"]
  <2> DEFINE x == [run[r] EXCEPT !.at = "release"]
  <2>1. x \in DocRun /\ x.n = 0 /\ x.at = "release" /\ run' = [run EXCEPT ![r] = x]
    BY <1>1, <1>3 DEF DocRun, DocStages
  <2> HIDE DEF x
  <2> QED
    BY <1>1, <1>3, <2>1, DocReadStep DEF InSource, InPage
<1> QED
  BY <1>2, <1>3 DEF H!EndOfPruning

(* Chunks are deleted, of pages that are not kept, or that are lost for it or *)
(* about to be written.                                                       *)
LEMMA DocErase ==
    ASSUME DocInv, NEW r \in H!Runs, run[r].at \notin {"idle", "write"}, NEW S, H!Delete(S),
           torn' = torn \ S, docsKept' = docsKept, lost \subseteq lost',
           UNCHANGED <<text, linked, product, configured, lock>>,
           NEW x \in DocRun, run' = [run EXCEPT ![r] = x], RunOk(r)',
           \A p \in S : p \in docsKept => p \in lost' \/ (x.at = "write" /\ x.page = p)
    PROVE  DocInv'
<1>1. \A p : ~H!Writing(p)
  BY DocNoRun DEF DocInv, H!Writing
<1>2. \A p \in DocPages : chunks'[p] = IF p \in S THEN H!Empty ELSE chunks[p]
  BY DEF H!Delete
<1>3. H!Empty \in [1..DocChunks -> 0..DocChunks] /\ H!Empty = H!Whole(0) /\ 0 \in 0..DocChunks
  BY DocsAssumption DEF H!DocsAssumption, H!Empty, H!Whole
<1>4. /\ text' \in [DocPages -> 0..DocChunks] /\ linked' \subseteq DocPages
      /\ configured' \subseteq DocSources
      /\ chunks' \in [DocPages -> [1..DocChunks -> 0..DocChunks]]
  BY <1>3 DEF DocInv, H!TypeOK, H!Delete
<1>5. \A p \in docsKept' : p \in DocPages /\ H!Wanted(p)'
  BY DEF DocInv, H!Wanted
<1>6. H!PagesAreWhole'
  <2>1. ASSUME NEW p \in DocPages
        PROVE  (\E t \in 0..DocChunks : chunks'[p] = H!Whole(t)) \/ p \in torn'
    <3>1. CASE p \in S
      BY <1>2, <1>3, <3>1
    <3>2. CASE p \notin S
      BY <1>1, <1>2, <3>2 DEF DocInv, H!PagesAreWhole
    <3> QED
      BY <3>1, <3>2
  <2> QED
    BY <2>1 DEF H!PagesAreWhole, H!Whole
<1>7. H!KeptPagesStand'
  <2>1. run'[r] = x
    BY DEF DocInv
  <2>2. ASSUME NEW p \in docsKept PROVE p \in H!Stored' \/ p \in lost' \/ H!Writing(p)'
    <3>1. p \in DocPages /\ (p \in H!Stored \/ p \in lost)
      BY <1>1 DEF DocInv, H!KeptPagesStand
    <3>2. CASE p \in S
      BY <3>2, <2>1 DEF H!Writing
    <3>3. CASE p \notin S
      BY <1>2, <3>1, <3>3 DEF H!Stored, H!Empty, H!Whole
    <3> QED
      BY <3>2, <3>3
  <2> QED
    BY <2>2 DEF H!KeptPagesStand
<1> QED
  BY <1>4, <1>5, <1>6, <1>7, DocFrame

LEMMA DocBlank == ASSUME DocInv, NEW r \in H!Runs, H!Blank(r) PROVE DocInv'
<1>1. /\ run[r].at = "read" /\ run[r].hash = 0 /\ H!Fails(r) /\ run[r].page \notin docsKept
      /\ UNCHANGED <<text, linked, product, configured, lock, lost, docsKept>>
  BY DocRunType DEF H!Blank, H!sites, RunOk
<1>2. CASE UNCHANGED <<chunks, torn>>
  BY <1>1, <1>2, DocLeavesPage DEF H!Reads, H!sites, H!history, InPage
<1>3. CASE H!Delete({run[r].page}) /\ torn' = torn \ {run[r].page}
  <2> DEFINE x == Visited(r)
  <2>1. /\ x \in DocRun /\ x.n = 0 /\ x.at = "pages" /\ x.source = run[r].source
        /\ x.known = run[r].known /\ x.todo = run[r].todo /\ x.pages = run[r].pages
        /\ x.visited = run[r].visited \cup {run[r].page} /\ run' = [run EXCEPT ![r] = x]
    BY <1>1, DocVisited DEF InPage
  <2> HIDE DEF x
  <2>2. PageInHand(r) /\ run'[r] = x
    BY <1>1, <2>1, DocPageInHand DEF InPage, DocInv
  <2>3. RunOk(r)'
    BY <1>1, <2>1, <2>2 DEF RunOk, PageInHand, InSource, InPage
  <2>4. PICK S : S = {run[r].page}
    OBVIOUS
  <2> QED
    BY <1>1, <1>3, <2>1, <2>3, <2>4, DocErase, ZenonT(60)
<1> QED
  BY <1>2, <1>3 DEF H!Blank

(* Of a page that is being written. *)
LEMMA DocRunOkWriting ==
    ASSUME NEW r \in H!Runs, NEW x \in DocRun, run'[r] = x, x.at = "write", x.hash # 0, x.n < x.hash,
           chunks'[x.page] = [i \in 1..DocChunks |-> IF i <= x.n THEN x.hash ELSE 0],
           x.source \in x.known, x.todo \subseteq x.known, DocSource[x.page] = x.source,
           \A p \in x.pages : DocSource[p] = x.source,
           \A p \in docsKept' : DocSource[p] \in x.known,
           \A p \in docsKept' : DocSource[p] = x.source =>
              p \in x.pages \/ p \in x.visited \/ p = x.page
    PROVE  RunOk(r)'
<1>1. "write" \in InSource /\ "write" \in InPage
  BY DEF InSource, InPage
<1> QED
  BY <1>1 DEF RunOk

LEMMA DocClear == ASSUME DocInv, NEW r \in H!Runs, H!Clear(r) PROVE DocInv'
<1>1. /\ run[r].at = "clear" /\ run[r].hash # 0 /\ run[r].n = 0
      /\ UNCHANGED <<text, linked, product, configured, lock, lost, docsKept>>
  BY DocRunType DEF H!Clear, H!sites, RunOk
<1>2. CASE H!Fails(r) /\ UNCHANGED <<chunks, torn>>
  BY <1>1, <1>2, DocLeavesPage DEF H!Reads, H!sites, H!history, InPage
<1>3. CASE /\ H!Delete({run[r].page}) /\ torn' = torn \ {run[r].page}
           /\ run' = [run EXCEPT ![r].at = "write"]
  <2> DEFINE x == [run[r] EXCEPT !.at = "write"]
  <2>1. PageInHand(r)
    BY <1>1, DocPageInHand DEF InPage
  <2>2. /\ x \in DocRun /\ x.n = 0 /\ x.at = "write" /\ x.hash = run[r].hash /\ x.page = run[r].page
        /\ x.source = run[r].source /\ x.known = run[r].known /\ x.todo = run[r].todo
        /\ x.pages = run[r].pages /\ x.visited = run[r].visited /\ run' = [run EXCEPT ![r] = x]
    BY <1>1, <1>3, <2>1 DEF PageInHand, DocRun, DocStages
  <2> HIDE DEF x
  <2>3. run'[r] = x /\ x.page \in DocPages /\ x.hash \in Nat
    BY <2>2, DocsAssumption DEF DocInv, DocRun, H!DocsAssumption
  <2>4. chunks'[x.page] = [i \in 1..DocChunks |-> IF i <= x.n THEN x.hash ELSE 0]
    <3>1. chunks'[x.page] = H!Empty
      BY <1>3, <2>2, <2>3 DEF H!Delete
    <3>2. H!Empty = [i \in 1..DocChunks |-> 0]
      BY DEF H!Empty, H!Whole
    <3>3. [i \in 1..DocChunks |-> IF i <= x.n THEN x.hash ELSE 0] = [i \in 1..DocChunks |-> 0]
      BY <2>2
    <3> QED
      BY <3>1, <3>2, <3>3
  <2>5. RunOk(r)'
    <3>1. x.n < x.hash /\ x.hash # 0
      BY <1>1, <2>2, <2>3
    <3>2. /\ x.source \in x.known /\ x.todo \subseteq x.known /\ DocSource[x.page] = x.source
          /\ \A p \in x.pages : DocSource[p] = x.source
          /\ \A p \in docsKept' : DocSource[p] \in x.known
          /\ \A p \in docsKept' : DocSource[p] = x.source =>
                p \in x.pages \/ p \in x.visited \/ p = x.page
      BY <1>1, <2>1, <2>2 DEF PageInHand
    <3> QED
      BY <2>2, <2>3, <2>4, <3>1, <3>2, DocRunOkWriting
  <2>6. PICK S : S = {run[r].page}
    OBVIOUS
  <2>7. /\ \A p \in S : p \in docsKept => p \in lost' \/ (x.at = "write" /\ x.page = p)
        /\ H!Delete(S) /\ torn' = torn \ S /\ lost \subseteq lost'
        /\ run[r].at \notin {"idle", "write"}
    BY <1>1, <1>3, <2>2, <2>6
  <2> QED
    BY <1>1, <2>2, <2>5, <2>7, DocErase
<1> QED
  BY <1>2, <1>3 DEF H!Clear, H!Cleared

LEMMA DocPrune ==
    ASSUME DocInv, NEW r \in H!Runs, NEW p \in DocPages, H!Prune(r, p) PROVE DocInv'
<1>1. /\ run[r] \in DocRun /\ run[r].at = "prune" /\ run[r].n = 0 /\ p \in run[r].pages
      /\ UNCHANGED <<text, linked, product, configured, lock, docsKept>>
      /\ run[r].todo \subseteq run[r].known /\ \A q \in docsKept : DocSource[q] \in run[r].known
      /\ \A q \in run[r].pages : q \in docsKept => DocSource[q] # run[r].source
      /\ run' = [run EXCEPT ![r].pages = @ \ {p}]
  BY DocRunType DEF H!Prune, H!sites, RunOk
<1> DEFINE x == [run[r] EXCEPT !.pages = @ \ {p}]
<1>2. /\ x \in DocRun /\ x.n = 0 /\ x.at = "prune" /\ x.source = run[r].source
      /\ x.known = run[r].known /\ x.todo = run[r].todo /\ x.pages = run[r].pages \ {p}
      /\ run' = [run EXCEPT ![r] = x]
  BY <1>1 DEF DocRun, DocStages
<1> HIDE DEF x
<1>c. /\ x.todo \subseteq x.known /\ \A q \in docsKept : DocSource[q] \in x.known
      /\ \A q \in x.pages : q \in docsKept => DocSource[q] # x.source
      /\ x.at \notin InSource /\ x.at \notin InPage
      /\ run[r].at \notin {"idle", "write"}
  BY <1>1, <1>2 DEF InSource, InPage
<1>3. CASE UNCHANGED <<chunks, torn, lost>>
  <2>1. H!Reads
    BY <1>1, <1>3 DEF H!Reads, H!sites, H!history
  <2> QED
    BY <1>2, <1>c, <2>1, DocReadStep
<1>4. CASE /\ H!Delete({p}) /\ torn' = torn \ {p}
           /\ lost' = IF run[r].source # DocSource[p] THEN lost \cup {p} ELSE lost
  <2>1. run'[r] = x
    BY <1>2 DEF DocInv
  <2>2. RunOk(r)'
    BY <1>1, <1>2, <2>1 DEF RunOk, InSource, InPage
  <2>3. PICK S : S = {p}
    OBVIOUS
  <2>4. /\ \A q \in S : q \in docsKept => q \in lost'
        /\ H!Delete(S) /\ torn' = torn \ S /\ lost \subseteq lost'
    BY <1>1, <1>4, <2>3
  <2> QED
    BY <1>1, <1>2, <1>c, <2>2, <2>4, DocErase
<1>5. \/ UNCHANGED <<chunks, torn, lost>>
      \/ /\ H!Delete({p}) /\ torn' = torn \ {p}
         /\ lost' = IF run[r].source # DocSource[p] THEN lost \cup {p} ELSE lost
  BY DEF H!Prune
<1> QED
  BY <1>3, <1>4, <1>5

LEMMA DocDrop ==
    ASSUME DocInv, NEW r \in H!Runs, NEW q \in DocSources, H!Drop(r, q) PROVE DocInv'
<1>1. /\ run[r] \in DocRun /\ run[r].at = "drop" /\ run[r].n = 0 /\ q \in run[r].todo
      /\ UNCHANGED <<text, linked, product, configured, lock, lost, docsKept>>
      /\ \A p \in docsKept : DocSource[p] \in run[r].known
      /\ \A o \in run[r].todo : \A s \in run[r].known : product[s] # o
      /\ run' = [run EXCEPT ![r].todo = @ \ {q}]
  BY DocRunType DEF H!Drop, H!sites, RunOk
<1> DEFINE x == [run[r] EXCEPT !.todo = @ \ {q}]
           erased == {p \in DocPages : H!ProductOf(p) = q}
<1>2. /\ x \in DocRun /\ x.n = 0 /\ x.at = "drop"
      /\ x.known = run[r].known /\ x.todo = run[r].todo \ {q}
      /\ run' = [run EXCEPT ![r] = x]
  BY <1>1 DEF DocRun, DocStages
<1> HIDE DEF x
<1>3. CASE UNCHANGED <<chunks, torn>>
  BY <1>1, <1>2, <1>3, DocReadStep DEF H!Reads, H!sites, H!history, InSource, InPage
<1>4. CASE H!Delete(erased) /\ torn' = torn \ erased
  <2>1. run'[r] = x
    BY <1>2 DEF DocInv
  <2>2. RunOk(r)'
    BY <1>1, <1>2, <2>1 DEF RunOk, InSource, InPage
  <2>3. \A p \in erased : p \notin docsKept
    BY <1>1 DEF H!ProductOf
  <2>4. PICK S : S = erased
    OBVIOUS
  <2> HIDE DEF erased
  <2> QED
    BY <1>1, <1>2, <1>4, <2>2, <2>3, <2>4, DocErase
<1> QED
  BY <1>3, <1>4 DEF H!Drop

LEMMA DocWrite == ASSUME DocInv, NEW r \in H!Runs, H!Write(r) PROVE DocInv'
<1>0. PICK p \in DocPages, n \in Nat, h \in 0..DocChunks :
          p = run[r].page /\ n = run[r].n /\ h = run[r].hash
  <2>1. run[r].page \in DocPages /\ run[r].n \in Nat /\ run[r].hash \in 0..DocChunks
    BY DocRunType, DocsAssumption DEF DocRun, H!DocsAssumption
  <2> QED
    BY <2>1
<1>1. /\ run[r].at = "write" /\ PageInHand(r) /\ h # 0 /\ n < h
      /\ chunks[p] = [i \in 1..DocChunks |-> IF i <= n THEN h ELSE 0]
      /\ UNCHANGED <<text, linked, product, configured, lock>>
      /\ DocChunks \in Nat /\ n + 1 \in 1..DocChunks /\ p \in DocPages
  BY <1>0, DocRunType, DocPageInHand, DocsAssumption, SMTT(60)
     DEF H!Write, H!sites, RunOk, InPage, H!DocsAssumption
<1>2. \A q : H!Writing(q) <=> q = p
  BY <1>0, <1>1, DocNoRun DEF DocInv, H!Writing
<1>3. /\ text' \in [DocPages -> 0..DocChunks] /\ linked' \subseteq DocPages
      /\ configured' \subseteq DocSources
  BY <1>1 DEF DocInv, H!TypeOK
<1>v. Visited(r) \in DocRun
  BY <1>1, DocVisited DEF InPage
<1>4. PICK x \in DocRun :
          /\ run' = [run EXCEPT ![r] = x]
          /\ x.source = run[r].source /\ x.known = run[r].known
          /\ x.todo = run[r].todo /\ x.pages = run[r].pages
          /\ \/ /\ x.at = "pages" /\ x.n = 0 /\ x.visited = run[r].visited \cup {p}
             \/ /\ x.at = "write" /\ x.n = n + 1 /\ n + 1 # h /\ x.visited = run[r].visited
                /\ x.page = p /\ x.hash = h
          /\ \/ /\ chunks' = [chunks EXCEPT ![p][n + 1] = h] /\ lost' = lost \ {p} /\ torn' = torn
                /\ x.at = "pages" => n + 1 = h
                /\ docsKept' = docsKept
                   \/ (x.at = "pages" /\ H!Wanted(p) /\ docsKept' = docsKept \cup {p})
             \/ /\ x.at = "pages" /\ chunks' = chunks /\ docsKept' = docsKept
                /\ torn' = IF n > 0 THEN torn \cup {p} ELSE torn
                /\ lost' = IF n = 0 THEN lost \cup {p} ELSE lost
  <2> DEFINE y == [run[r] EXCEPT !.n = n + 1]
  <2>1. /\ y \in DocRun /\ y.at = "write" /\ y.n = n + 1 /\ y.page = p /\ y.hash = h
        /\ y.source = run[r].source /\ y.known = run[r].known /\ y.todo = run[r].todo
        /\ y.pages = run[r].pages /\ y.visited = run[r].visited
    BY <1>0, <1>1, DocRunType, SMTT(60) DEF DocRun, DocStages
  <2> DEFINE z == Visited(r)
  <2>2. /\ z \in DocRun /\ z.n = 0 /\ z.at = "pages" /\ z.source = run[r].source
        /\ z.known = run[r].known /\ z.todo = run[r].todo /\ z.pages = run[r].pages
        /\ z.visited = run[r].visited \cup {p}
        /\ H!Fails(r) \/ H!Succeeds(r) => run' = [run EXCEPT ![r] = z]
    BY <1>0, <1>1, DocVisited DEF InPage
  <2>3. CASE H!Fails(r) /\ H!Breaks(r) /\ UNCHANGED <<chunks, docsKept>>
    <3> HIDE DEF z, y
    <3>1. /\ torn' = IF n > 0 THEN torn \cup {p} ELSE torn
          /\ lost' = IF n = 0 THEN lost \cup {p} ELSE lost
      BY <1>0, <2>3 DEF H!Breaks
    <3> QED
      BY <2>2, <2>3, <3>1
  <2>4. CASE /\ chunks' = [chunks EXCEPT ![p][n + 1] = h] /\ lost' = lost \ {p} /\ torn' = torn
             /\ n + 1 = h /\ H!Succeeds(r) /\ docsKept' = IF H!Wanted(p) THEN docsKept \cup {p} ELSE docsKept
    <3> HIDE DEF z, y
    <3> QED
      BY <2>2, <2>4
  <2>5. CASE /\ chunks' = [chunks EXCEPT ![p][n + 1] = h] /\ lost' = lost \ {p} /\ torn' = torn
             /\ n + 1 # h /\ run' = [run EXCEPT ![r].n = n + 1] /\ docsKept' = docsKept
    <3>1. run' = [run EXCEPT ![r] = y]
      BY <2>5
    <3> HIDE DEF z, y
    <3> QED
      BY <2>1, <2>5, <3>1
  <2> QED
    BY <1>0, <2>3, <2>4, <2>5 DEF H!Write
<1>5. run'[r] = x /\ \A q \in docsKept' : q \in DocPages /\ H!Wanted(q)'
  BY <1>1, <1>4 DEF DocInv, H!Wanted
<1>6. chunks' \in [DocPages -> [1..DocChunks -> 0..DocChunks]]
      /\ \A q \in DocPages \ {p} : chunks'[q] = chunks[q]
  <2>1. chunks \in [DocPages -> [1..DocChunks -> 0..DocChunks]]
    BY DEF DocInv, H!TypeOK
  <2>2. [chunks[p] EXCEPT ![n + 1] = h] \in [1..DocChunks -> 0..DocChunks]
    BY <1>1, <2>1
  <2>3. chunks' = chunks \/ chunks' = [chunks EXCEPT ![p] = [chunks[p] EXCEPT ![n + 1] = h]]
    BY <1>4
  <2> QED
    BY <2>1, <2>2, <2>3
<1>7. chunks' = [chunks EXCEPT ![p][n + 1] = h] =>
          chunks'[p] = [i \in 1..DocChunks |-> IF i <= n + 1 THEN h ELSE 0]
  <2>1. chunks' = [chunks EXCEPT ![p][n + 1] = h] =>
          chunks'[p] = [[i \in 1..DocChunks |-> IF i <= n THEN h ELSE 0] EXCEPT ![n + 1] = h]
    BY <1>1 DEF DocInv, H!TypeOK
  <2>2. [[i \in 1..DocChunks |-> IF i <= n THEN h ELSE 0] EXCEPT ![n + 1] = h]
          = [i \in 1..DocChunks |-> IF i <= n + 1 THEN h ELSE 0]
    BY <1>1, SMTT(60)
  <2> QED
    BY <2>1, <2>2
<1>8. RunOk(r)'
  <2>1. /\ x.source \in x.known /\ x.todo \subseteq x.known
        /\ \A q \in x.pages : DocSource[q] = x.source
        /\ \A q \in docsKept' : DocSource[q] \in x.known
        /\ \A q \in docsKept' : DocSource[q] = x.source =>
              q \in x.pages \/ q \in x.visited \/ q = p
    BY <1>0, <1>1, <1>4 DEF PageInHand
  <2>2. CASE x.at = "write"
    <3>0. /\ x.page = p /\ x.hash = h /\ x.n = n + 1 /\ n + 1 # h
          /\ chunks' = [chunks EXCEPT ![p][n + 1] = h]
      BY <1>4, <2>2
    <3>a. n + 1 < h /\ h # 0 /\ DocSource[p] = run[r].source
      BY <1>0, <1>1, <3>0 DEF PageInHand
    <3>1. /\ chunks'[x.page] = [i \in 1..DocChunks |-> IF i <= x.n THEN x.hash ELSE 0]
          /\ x.hash # 0 /\ x.n < x.hash /\ DocSource[x.page] = x.source /\ x.page = p
      BY <1>4, <1>7, <3>0, <3>a
    <3> QED
      BY <1>5, <2>1, <2>2, <3>1, DocRunOkWriting
  <2>3. CASE x.at = "pages"
    <3>1. x.n = 0 /\ p \in x.visited
      BY <1>4, <2>3
    <3> QED
      BY <1>5, <2>1, <2>3, <3>1 DEF RunOk, InSource, InPage
  <2> QED
    BY <1>4, <2>2, <2>3
<1>9. H!PagesAreWhole'
  <2>1. ASSUME NEW q \in DocPages \ {p}
        PROVE  (\E t \in 0..DocChunks : chunks'[q] = H!Whole(t)) \/ q \in torn'
    BY <1>2, <1>4, <1>6 DEF DocInv, H!PagesAreWhole
  <2>2. (\E t \in 0..DocChunks : chunks'[p] = H!Whole(t)) \/ p \in torn' \/ H!Writing(p)'
    <3>1. CASE x.at = "write"
      BY <1>4, <1>5, <3>1 DEF H!Writing
    <3>2. CASE x.at = "pages" /\ chunks' = [chunks EXCEPT ![p][n + 1] = h]
      <4>1. h \in 0..DocChunks /\ chunks'[p] = H!Whole(h)
        BY <1>1, <1>4, <1>7, <3>2 DEF H!Whole
      <4> QED
        BY <4>1
    <3>3. CASE chunks' = chunks /\ n > 0 /\ torn' = torn \cup {p}
      BY <3>3
    <3>4. CASE chunks' = chunks /\ n = 0
      <4>1. 0 \in 0..DocChunks /\ chunks'[p] = H!Whole(0)
        BY <1>1, <3>4 DEF H!Whole
      <4> QED
        BY <4>1
    <3> QED
      BY <1>4, <3>1, <3>2, <3>3, <3>4
  <2> QED
    BY <2>1, <2>2 DEF H!PagesAreWhole, H!Whole
<1>10. H!KeptPagesStand'
  <2>1. ASSUME NEW q \in docsKept, q # p PROVE q \in H!Stored' \/ q \in lost'
    BY <1>2, <1>4, <1>6, <2>1 DEF DocInv, H!KeptPagesStand, H!Stored, H!Empty, H!Whole
  <2>2. p \in H!Stored' \/ p \in lost' \/ H!Writing(p)'
    <3>1. CASE x.at = "write"
      BY <1>4, <1>5, <3>1 DEF H!Writing
    <3>2. CASE chunks' = [chunks EXCEPT ![p][n + 1] = h]
      <4>1. chunks'[p][n + 1] # H!Empty[n + 1]
        BY <1>1, <1>7, <3>2 DEF H!Empty, H!Whole
      <4> QED
        BY <1>1, <4>1 DEF H!Stored, H!Empty, H!Whole
    <3>3. CASE chunks' = chunks /\ n > 0
      <4>1. 1 \in 1..DocChunks /\ chunks'[p][1] # H!Empty[1]
        BY <1>1, <3>3 DEF H!Empty, H!Whole
      <4> QED
        BY <1>1, <4>1 DEF H!Stored, H!Empty, H!Whole
    <3>4. CASE chunks' = chunks /\ n = 0 /\ x.at = "pages" /\ lost' = lost \cup {p}
      BY <3>4
    <3> QED
      BY <1>4, <3>1, <3>2, <3>3, <3>4
  <2>3. docsKept' \subseteq docsKept \cup {p}
    BY <1>4
  <2> QED
    BY <2>1, <2>2, <2>3 DEF H!KeptPagesStand
<1> QED
  BY <1>1, <1>3, <1>4, <1>5, <1>6, <1>8, <1>9, <1>10, DocFrame

LEMMA DocAcquire == ASSUME DocInv, NEW r \in H!Runs, H!Acquire(r) PROVE DocInv'
<1>1. /\ run[r] = H!NoRun /\ ~lock /\ lock' = TRUE
      /\ run' = [run EXCEPT ![r].at = "load"]
      /\ UNCHANGED <<text, linked, product, configured, chunks, torn, lost, docsKept>>
  BY DEF H!Acquire, H!Grants, H!sites, H!history
<1>2. \A q \in H!Runs : run[q] = H!NoRun
  BY <1>1 DEF DocInv
<1> DEFINE x == [H!NoRun EXCEPT !.at = "load"]
<1>3. x \in DocRun /\ x.at = "load" /\ x.n = 0
  BY DocNoRun DEF DocRun, DocStages
<1>4. run' = [run EXCEPT ![r] = x]
  BY <1>1
<1> HIDE DEF x
<1>5. run' \in [H!Runs -> DocRun] /\ run'[r] = x /\ \A q \in H!Runs \ {r} : run'[q] = H!NoRun
  BY <1>2, <1>3, <1>4 DEF DocInv
<1>6. \A q \in H!Runs : RunOk(q)'
  BY <1>3, <1>5, DocNoRun DEF RunOk, InSource, InPage
<1>7. \A q \in H!Runs : run'[q].visited \cup run'[q].pages \subseteq DocPages
  BY <1>5 DEF DocRun
<1>8. H!TypeOK'
  BY <1>1, <1>7 DEF DocInv, H!TypeOK
<1>9. \A q : ~H!Writing(q)
  BY <1>2, DocNoRun DEF H!Writing
<1>10. H!PagesAreWhole' /\ H!KeptPagesStand'
  BY <1>1, <1>9 DEF DocInv, H!PagesAreWhole, H!KeptPagesStand, H!Stored, H!Empty, H!Whole
<1>11. \A p \in docsKept' : p \in DocPages /\ H!Wanted(p)'
  BY <1>1 DEF DocInv, H!Wanted
<1>12. \A q \in H!Runs : run'[q] # H!NoRun => lock' /\ \A o \in H!Runs \ {q} : run'[o] = H!NoRun
  BY <1>1, <1>5
<1> QED
  BY <1>1, <1>5, <1>6, <1>8, <1>10, <1>11, <1>12 DEF DocInv

(* No run goes on. *)
LEMMA DocAllIdle ==
    ASSUME DocInv, \A q \in H!Runs : run'[q] = H!NoRun, run' \in [H!Runs -> DocRun],
           UNCHANGED <<text, linked, product, configured, chunks, docsKept>>,
           torn \subseteq torn', lost \subseteq lost',
           \A p \in DocPages : H!Writing(p) =>
              /\ (\E t \in 0..DocChunks : chunks[p] = H!Whole(t)) \/ p \in torn'
              /\ p \in H!Stored \/ p \in lost'
    PROVE  DocInv'
<1>1. \A q \in H!Runs : RunOk(q)'
  BY DocNoRun DEF RunOk, InSource, InPage
<1>2. \A q \in H!Runs : run'[q].visited \cup run'[q].pages \subseteq DocPages
  BY DEF DocRun
<1>3. H!TypeOK'
  BY <1>2 DEF DocInv, H!TypeOK
<1>4. H!PagesAreWhole'
  BY DEF DocInv, H!PagesAreWhole, H!Whole
<1>5. H!KeptPagesStand'
  BY DEF DocInv, H!KeptPagesStand, H!Stored, H!Empty, H!Whole
<1>6. \A p \in docsKept' : p \in DocPages /\ H!Wanted(p)'
  BY DEF DocInv, H!Wanted
<1> QED
  BY <1>1, <1>3, <1>4, <1>5, <1>6 DEF DocInv

LEMMA DocRelease == ASSUME DocInv, NEW r \in H!Runs, H!Release(r) PROVE DocInv'
<1>1. /\ run[r].at = "release" /\ run' = [run EXCEPT ![r] = H!NoRun]
      /\ UNCHANGED <<text, linked, product, configured, chunks, torn, lost, docsKept>>
  BY DEF H!Release, H!sites, H!history
<1>2. \A q \in H!Runs \ {r} : run[q] = H!NoRun
  BY <1>1, DocNoRun DEF DocInv
<1>3. run' \in [H!Runs -> DocRun] /\ \A q \in H!Runs : run'[q] = H!NoRun
  BY <1>1, <1>2, DocNoRun DEF DocInv
<1>4. \A q : ~H!Writing(q)
  BY <1>1, <1>2, DocNoRun DEF H!Writing
<1> QED
  BY <1>1, <1>3, <1>4, DocAllIdle

LEMMA DocStop == ASSUME DocInv, NEW r \in H!Runs, H!Stop(r) PROVE DocInv'
<1>1. /\ run[r] # H!NoRun /\ run' = [q \in H!Runs |-> H!NoRun]
      /\ UNCHANGED <<text, linked, product, configured, chunks, docsKept>>
      /\ IF run[r].at = "write" THEN H!Breaks(r) ELSE UNCHANGED <<torn, lost>>
  BY DEF H!Stop, H!sites
<1>2. \A q \in H!Runs \ {r} : run[q] = H!NoRun
  BY <1>1 DEF DocInv
<1>3. run' \in [H!Runs -> DocRun] /\ \A q \in H!Runs : run'[q] = H!NoRun
  BY <1>1, DocNoRun
<1>4. torn \subseteq torn' /\ lost \subseteq lost'
  BY <1>1 DEF H!Breaks
<1>5. ASSUME NEW p \in DocPages, H!Writing(p)
      PROVE  /\ (\E t \in 0..DocChunks : chunks[p] = H!Whole(t)) \/ p \in torn'
             /\ p \in H!Stored \/ p \in lost'
  <2>1. run[r].at = "write" /\ run[r].page = p
    BY <1>2, <1>5, DocNoRun DEF H!Writing
  <2>2. /\ chunks[p] = [i \in 1..DocChunks |-> IF i <= run[r].n THEN run[r].hash ELSE 0]
        /\ run[r].hash # 0 /\ run[r].n < run[r].hash
        /\ run[r].n \in 0..DocChunks /\ run[r].hash \in 0..DocChunks /\ DocChunks \in Nat
    BY <2>1, DocRunType, DocsAssumption DEF RunOk, DocRun, H!DocsAssumption
  <2>3. CASE run[r].n > 0
    <3>1. p \in torn'
      BY <1>1, <2>1, <2>3 DEF H!Breaks
    <3>2. 1 \in 1..DocChunks /\ chunks[p][1] # H!Empty[1]
      BY <2>2, <2>3 DEF H!Empty, H!Whole
    <3> QED
      BY <3>1, <3>2 DEF H!Stored
  <2>4. CASE run[r].n = 0
    <3>1. p \in lost'
      BY <1>1, <2>1, <2>4 DEF H!Breaks
    <3>2. 0 \in 0..DocChunks /\ chunks[p] = H!Whole(0)
      BY <2>2, <2>4 DEF H!Whole
    <3> QED
      BY <3>1, <3>2
  <2> QED
    BY <2>2, <2>3, <2>4
<1> QED
  BY <1>1, <1>3, <1>4, <1>5, DocAllIdle

LEMMA DocEdit == ASSUME DocInv, H!Edit PROVE DocInv'
<1>1. /\ UNCHANGED <<product, chunks, lock, run, torn, lost>>
      /\ docsKept' = {p \in docsKept : H!Wanted(p)'}
  BY DEF H!Edit
<1>2. /\ text' \in [DocPages -> 0..DocChunks] /\ linked' \subseteq DocPages
      /\ configured' \subseteq DocSources
  BY DEF H!Edit, DocInv, H!TypeOK
<1>3. ASSUME NEW r \in H!Runs PROVE RunOk(r)'
  <2>1. RunOk(r) /\ docsKept' \subseteq docsKept /\ UNCHANGED <<run, chunks, product>>
    BY <1>1 DEF DocInv
  <2> QED
    BY <2>1 DEF RunOk
<1>4. H!TypeOK'
  BY <1>1, <1>2 DEF DocInv, H!TypeOK
<1>5. H!PagesAreWhole' /\ H!KeptPagesStand'
  BY <1>1 DEF DocInv, H!PagesAreWhole, H!KeptPagesStand, H!Writing, H!Stored, H!Empty, H!Whole
<1>6. \A p \in docsKept' : p \in DocPages /\ H!Wanted(p)'
  BY <1>1 DEF DocInv
<1> QED
  BY <1>1, <1>3, <1>4, <1>5, <1>6 DEF DocInv

LEMMA DocStep == DocInv /\ [H!Next]_(H!vars) => DocInv'
<1> SUFFICES ASSUME DocInv, [H!Next]_(H!vars) PROVE DocInv'
  OBVIOUS
<1>1. CASE UNCHANGED H!vars
  <2>1. UNCHANGED <<text, linked, product, configured, chunks, lock, run, torn, lost, docsKept>>
    BY <1>1 DEF H!vars, H!sites, H!history
  <2>2. \A r \in H!Runs : RunOk(r)'
    BY <2>1 DEF DocInv, RunOk
  <2>3. \A p \in docsKept' : p \in DocPages /\ H!Wanted(p)'
    BY <2>1 DEF DocInv, H!Wanted
  <2>4. H!TypeOK' /\ H!PagesAreWhole' /\ H!KeptPagesStand'
    BY <2>1 DEF DocInv, H!TypeOK, H!PagesAreWhole, H!KeptPagesStand, H!Writing, H!Stored, H!Empty,
       H!Whole
  <2> QED
    BY <2>1, <2>2, <2>3, <2>4 DEF DocInv
<1>2. ASSUME NEW r \in H!Runs, H!Step(r) PROVE DocInv'
  BY <1>2, DocLoad, DocBlank, DocCompare, DocEmbed, DocClear, DocWrite, DocListPages, DocListProducts,
     DocEndOfPruning, DocRelease, DocFetchIndex, DocDrop, DocFetchPage, DocPrune DEF H!Step
<1>3. "tick" \in H!Runs /\ "admin" \in H!Runs
  BY DEF H!Runs
<1> QED
  BY <1>1, <1>2, <1>3, DocAcquire, DocEdit, DocStop DEF H!Next, H!RunStep

(* What is cited of a page is one text of it from end to end, and a page     *)
(* stays while its source is configured and links it; but for a writing that *)
(* failed, and for a rival source of the product.                            *)
THEOREM DocsHold == H!Spec => [](H!PagesAreWhole /\ H!KeptPagesStand)
<1>1. DocInv => H!PagesAreWhole /\ H!KeptPagesStand
  BY DEF DocInv
<1> QED
  BY DocInit, DocStep, <1>1, PTL DEF H!Spec

-------------------------------------------------------------------------------
(* The vectors: of finitely many ids no more than n are among the n newest,  *)
(* so a tick has no more than a batch in hand, of messages there are.        *)
LEMMA VectorCardinality == \A S : V!Cardinality(S) = Cardinality(S)
  BY DEF V!Cardinality, Cardinality

(* Of a set of naturals, those with fewer than n above them are at most n. *)
LEMMA FewAbove ==
    ASSUME NEW n \in Nat, NEW S \in SUBSET Nat, IsFiniteSet(S), NEW N \in SUBSET S,
           \A m \in N : Cardinality({k \in S : k > m}) < n
    PROVE  Cardinality(N) <= n
<1> DEFINE Above(m) == {k \in S : k > m}
<1>2. IsFiniteSet(N) /\ Cardinality(N) \in Nat
  BY FS_Subset, FS_CardinalityType
<1>3. CASE N = {}
  <2>1. Cardinality(N) = 0
    BY <1>3, FS_EmptySet
  <2> QED
    BY <2>1
<1>4. CASE N # {}
  <2>1. PICK u \in N : \A v \in N : u <= v
    BY <1>4, LeastNatural
  <2>2. N \ {u} \in SUBSET Above(u) /\ Above(u) \in SUBSET S
    BY <2>1
  <2>3. IsFiniteSet(Above(u)) /\ Cardinality(Above(u)) \in Nat
    BY <2>2, FS_Subset, FS_CardinalityType
  <2>4. Cardinality(N \ {u}) <= Cardinality(Above(u))
    BY <2>2, <2>3, FS_Subset
  <2>5. Cardinality(N \ {u}) = Cardinality(N) - 1
    BY <1>2, <2>1, FS_RemoveElement
  <2>6. Cardinality(Above(u)) < n
    BY <2>1
  <2> QED
    BY <1>2, <2>3, <2>4, <2>5, <2>6
<1> QED
  BY <1>3, <1>4

(* The n newest of a set are not more than n. *)
LEMMA NewestAreFew ==
    ASSUME NEW n \in Nat, NEW S \in SUBSET Nat, IsFiniteSet(S)
    PROVE  Cardinality(V!Newest(n, S)) <= n
<1>1. PICK N : N = V!Newest(n, S)
  OBVIOUS
<1>2. N \in SUBSET S /\ \A m \in N : Cardinality({k \in S : k > m}) < n
  BY <1>1, VectorCardinality DEF V!Newest
<1>3. Cardinality(N) <= n
  BY <1>2, FewAbove
<1> QED
  BY <1>1, <1>3

VectorFits ==
    /\ Vectored \in Nat /\ VectorBatch \in Nat
    /\ posted \in 0..Vectored /\ deleted \cup embedding \cup backlog \subseteq 1..posted
    /\ vector \in [1..Vectored -> {"none", "old", "new"}] /\ noVectors \subseteq VectorRooms
    /\ IsFiniteSet(backlog) /\ Cardinality(backlog) <= VectorBatch

LEMMA VectorFitsIsType == VectorFits <=> V!TypeOK
<1>1. V!TypeOK => IsFiniteSet(backlog)
  <2> SUFFICES ASSUME V!TypeOK PROVE IsFiniteSet(backlog)
    OBVIOUS
  <2>1. posted \in Int /\ backlog \in SUBSET (1..posted)
    BY EmbeddingsAssumption DEF V!EmbeddingsAssumption, V!TypeOK
  <2>2. IsFiniteSet(1..posted)
    BY <2>1, FS_Interval
  <2> QED
    BY <2>1, <2>2, FS_Subset
<1> QED
  BY <1>1, VectorCardinality, EmbeddingsAssumption
     DEF VectorFits, V!TypeOK, V!EmbeddingsAssumption, V!MessageIds

LEMMA VectorInit == V!Init => V!TypeOK
<1>1. V!Init => VectorFits
  BY EmbeddingsAssumption, FS_EmptySet
     DEF V!Init, VectorFits, V!EmbeddingsAssumption, V!MessageIds
<1> QED
  BY <1>1, VectorFitsIsType

(* A batch from which a message is taken still fits. *)
LEMMA VectorSmaller ==
    ASSUME NEW B, NEW C \in SUBSET B, IsFiniteSet(B), NEW n \in Nat, Cardinality(B) <= n
    PROVE  IsFiniteSet(C) /\ Cardinality(C) <= n
  BY FS_Subset, FS_CardinalityType

LEMMA VectorStep == V!TypeOK /\ [V!Next]_(V!vars) => V!TypeOK'
<1> SUFFICES ASSUME VectorFits, [V!Next]_(V!vars) PROVE VectorFits'
  <2>1. VectorFits' <=> V!TypeOK'
    BY VectorFitsIsType, PTL
  <2> QED
    BY <2>1, VectorFitsIsType
<1>1. ASSUME posted' = posted, deleted' \subseteq 1..posted, embedding' \subseteq embedding,
             backlog' \subseteq backlog, noVectors' \subseteq noVectors,
             vector' \in [1..Vectored -> {"none", "old", "new"}]
      PROVE  VectorFits'
  <2>1. IsFiniteSet(backlog') /\ Cardinality(backlog') <= VectorBatch
    BY <1>1, VectorSmaller DEF VectorFits
  <2> QED
    BY <1>1, <2>1 DEF VectorFits
<1>2. CASE V!Post
  BY <1>2 DEF V!Post, VectorFits
<1>3. CASE V!Select
  <2>1. backlog' = V!Newest(VectorBatch, V!Unembedded)
    BY <1>3 DEF V!Select, V!Listed
  <2>2. V!Unembedded \in SUBSET (1..posted) /\ posted \in Nat
    BY DEF V!Unembedded, VectorFits
  <2>a. IsFiniteSet(1..posted)
    BY <2>2, FS_Interval
  <2>b. IsFiniteSet(V!Unembedded)
    BY <2>2, <2>a, FS_Subset
  <2>3. IsFiniteSet(V!Unembedded) /\ V!Unembedded \in SUBSET Nat
    BY <2>2, <2>b
  <2>4. backlog' \in SUBSET V!Unembedded
    BY <2>1 DEF V!Newest
  <2>5. IsFiniteSet(backlog') /\ Cardinality(backlog') <= VectorBatch
    BY <2>1, <2>3, <2>4, FS_Subset, NewestAreFew DEF VectorFits
  <2> QED
    BY <1>3, <2>2, <2>4, <2>5 DEF V!Select, VectorFits
<1>4. ASSUME NEW m \in V!MessageIds, V!Delete(m) \/ V!EmbedPosted(m) \/ V!Backfill(m)
      PROVE  VectorFits'
  BY <1>1, <1>4
     DEF V!Delete, V!EmbedPosted, V!Backfill, V!Embed, V!Fault, VectorFits, V!MessageIds
<1>5. CASE V!SwapModel
  BY <1>1, <1>5 DEF V!SwapModel, V!Fault, VectorFits, V!MessageIds
<1>6. ASSUME NEW r \in VectorRooms, V!OptIn(r) PROVE VectorFits'
  BY <1>1, <1>6 DEF V!OptIn, VectorFits
<1>7. CASE UNCHANGED V!vars
  BY <1>1, <1>7 DEF V!vars, VectorFits
<1> QED
  BY <1>2, <1>3, <1>4, <1>5, <1>6, <1>7 DEF V!Next, V!TickStep

(* The batch of a tick fits its limit whatever is posted, deleted or swapped *)
(* around it, and no message that was never posted is ever embedded.         *)
THEOREM BatchesFit == V!Spec => []V!TypeOK
  BY VectorInit, VectorStep, PTL DEF V!Spec

-------------------------------------------------------------------------------
(* The jobs together: whichever of them runs, it takes its own steps and     *)
(* leaves the state of the others alone.                                     *)
jobsVars == <<part, vars, mails, hooks, reminders, recapping, vectors, docs>>

LEMMA PartsTakeTheirOwnSteps ==
    [JobsNext]_jobsVars =>
        /\ [E!Next]_(E!vars) /\ [W!Next]_(W!vars) /\ [R!Next]_(R!vars) /\ [K!Next]_(K!vars)
        /\ [V!Next]_(V!vars) /\ [H!Next]_(H!vars)
<1> SUFFICES ASSUME [JobsNext]_jobsVars
             PROVE  /\ [E!Next]_(E!vars) /\ [W!Next]_(W!vars) /\ [R!Next]_(R!vars)
                    /\ [K!Next]_(K!vars) /\ [V!Next]_(V!vars) /\ [H!Next]_(H!vars)
  OBVIOUS
<1>1. /\ UNCHANGED mails => UNCHANGED E!vars
      /\ UNCHANGED recapping => UNCHANGED K!vars
  BY DEF mails, recapping, E!vars, K!vars
<1>2. UNCHANGED hooks => UNCHANGED W!vars
  BY DEF hooks, W!vars
<1>3. UNCHANGED reminders => UNCHANGED R!vars
  BY DEF reminders, R!vars, R!outside, R!history
<1>4. UNCHANGED vectors => UNCHANGED V!vars
  BY DEF vectors, V!vars
<1>5. UNCHANGED docs => UNCHANGED H!vars
  BY DEF docs, H!vars, H!sites, H!bounds, H!history
<1>6. CASE UNCHANGED jobsVars
  BY <1>1, <1>2, <1>3, <1>4, <1>5, <1>6 DEF jobsVars
<1>7. CASE Uploads
  BY <1>1, <1>2, <1>3, <1>4, <1>5, <1>7 DEF Uploads, Alone
<1>8. CASE Mail
  BY <1>1, <1>2, <1>3, <1>4, <1>5, <1>8 DEF Mail, Alone
<1>9. CASE Webhooks
  BY <1>1, <1>2, <1>3, <1>4, <1>5, <1>9 DEF Webhooks, Alone
<1>10. CASE Reminding
  BY <1>1, <1>2, <1>3, <1>4, <1>5, <1>10 DEF Reminding, Alone
<1>11. CASE Recapping
  BY <1>1, <1>2, <1>3, <1>4, <1>5, <1>11 DEF Recapping, Alone
<1>12. CASE Embedding
  BY <1>1, <1>2, <1>3, <1>4, <1>5, <1>12 DEF Embedding, Alone
<1>13. CASE Documenting
  BY <1>1, <1>2, <1>3, <1>4, <1>5, <1>13 DEF Documenting, Alone
<1> QED
  BY <1>6, <1>7, <1>8, <1>9, <1>10, <1>11, <1>12, <1>13 DEF JobsNext

JobsInv == MailInv /\ HookInv /\ ReminderInv /\ RecapInv /\ V!TypeOK /\ DocInv

LEMMA JobsInduction == JobsSpec => []JobsInv
<1>1. JobsInit => JobsInv
  BY MailInit, HookInit, ReminderInit, RecapInit, VectorInit, DocInit DEF JobsInit, JobsInv
<1>2. JobsInv /\ [JobsNext]_jobsVars => JobsInv'
  <2> SUFFICES ASSUME JobsInv, [JobsNext]_jobsVars PROVE JobsInv'
    OBVIOUS
  <2>1. /\ [E!Next]_(E!vars) /\ [W!Next]_(W!vars) /\ [R!Next]_(R!vars) /\ [K!Next]_(K!vars)
        /\ [V!Next]_(V!vars) /\ [H!Next]_(H!vars)
    BY PartsTakeTheirOwnSteps
  <2>2. MailInv' /\ HookInv'
    BY <2>1, MailStep, HookStep DEF JobsInv
  <2>3. ReminderInv' /\ RecapInv'
    BY <2>1, ReminderStep, RecapStep DEF JobsInv
  <2>4. V!TypeOK' /\ DocInv'
    BY <2>1, VectorStep, DocStep DEF JobsInv
  <2> QED
    BY <2>2, <2>3, <2>4 DEF JobsInv
<1> QED
  BY <1>1, <1>2, PTL DEF JobsSpec, jobsVars

(* The mail folder, beside the other jobs: a mail posts again only for an    *)
(* error or a stop, and what is marked as read is accounted for.             *)
THEOREM MailIsKeptForever == JobsSpec => []MailIsKept
<1>1. JobsInv => MailIsKept
  BY MailInvGives DEF JobsInv, MailIsKept
<1> QED
  BY <1>1, JobsInduction, PTL

(* What falls due is served once and stands on record, for any number of     *)
(* hooks, deliveries, reminders, recaps, messages and pages: the webhooks,   *)
(* the reminders, the recaps, the batches of vectors and the documentation.  *)
THEOREM DueIsServedForever == JobsSpec => []DueIsServed
<1>1. JobsInv => DueIsServed
  BY DEF JobsInv, DueIsServed, HookInv, ReminderInv, R!PingedAtMostOnce, RecapInv, DocInv
<1> QED
  BY <1>1, JobsInduction, PTL

(* The composition runs the uploads as their specification has them. *)
LEMMA JobsRunTheUploads == JobsSpec => Spec
<1>1. JobsInit => Init
  BY DEF JobsInit
<1>2. [JobsNext]_jobsVars => [Next]_vars
  BY DEF JobsNext, Uploads, Mail, Webhooks, Reminding, Recapping, Embedding, Documenting,
         Alone, jobsVars
<1> QED
  BY <1>1, <1>2, PTL DEF JobsSpec, Spec, jobsVars

(* The uploads, beside the other jobs: what was put to use before a sweep    *)
(* had it as a candidate keeps its row and its file.                         *)
THEOREM UploadsHoldBesideTheRest == JobsSpec => []AttachmentsSurvive
BY JobsRunTheUploads, AttachedUploadsSurvive, PTL
===============================================================================
