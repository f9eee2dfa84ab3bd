---------------------------- MODULE TranscriptProofs ---------------------------
(***************************************************************************)
(* Theorems about TranscriptSession, for every number of start requests,   *)
(* closers and sessions.                                                   *)
(***************************************************************************)
EXTENDS TranscriptSession, TLAPS

USE TranscriptAssumption

StartRec == [pc: StartPC, sess: Marker, created: BOOLEAN]
CloseRec == [pc: ClosePC, sess: Marker, own: BOOLEAN, won: BOOLEAN]

LEMMA TypeInit == Init => TypeOK
BY DEF Init, TypeOK, NoStart, NoClose, StartPC, ClosePC, Marker, Ids, None

(* A session that is closed keeps its place among the rows. *)
LEMMA EndKeepsRows ==
    ASSUME TypeOK, NEW s \in DOMAIN rows, rows' = [rows EXCEPT ![s] = "ended"]
    PROVE  /\ rows' \in Seq({"active", "ended"})
           /\ Len(rows') = Len(rows) /\ DOMAIN rows' = DOMAIN rows
           /\ rows'[s] = "ended"
           /\ \A r \in DOMAIN rows : r # s => rows'[r] = rows[r]
<1>1. rows \in Seq({"active", "ended"})
  BY DEF TypeOK
<1> QED
  BY <1>1

LEMMA AppendGrowsRows ==
    ASSUME TypeOK, Len(rows) < MaxSessions, rows' = Append(rows, "active")
    PROVE  /\ rows' \in Seq({"active", "ended"})
           /\ Len(rows) + 1 \in Ids
           /\ Len(rows') = Len(rows) + 1 /\ Len(rows') <= MaxSessions
           /\ DOMAIN rows' = DOMAIN rows \cup {Len(rows) + 1}
           /\ Len(rows) + 1 \notin DOMAIN rows
           /\ rows'[Len(rows) + 1] = "active"
           /\ \A r \in DOMAIN rows : rows'[r] = rows[r]
<1>1. rows \in Seq({"active", "ended"})
  BY DEF TypeOK
<1> QED
  BY <1>1 DEF Ids

LEMMA RowsAreIds == TypeOK => DOMAIN rows \subseteq Ids
BY DEF TypeOK, Ids

(* A start request or a closer that moves on to a fitting record. *)
LEMMA StartMoves ==
    ASSUME TypeOK, NEW p \in Starters, NEW k \in StartRec,
           start' = [start EXCEPT ![p] = k], DOMAIN rows \subseteq DOMAIN rows',
           k.pc \in {"opened", "telling"} => k.sess \in DOMAIN rows'
    PROVE  /\ start' \in [Starters -> StartRec]
           /\ \A q \in Starters :
                 start'[q].pc \in {"opened", "telling"} => start'[q].sess \in DOMAIN rows'
BY DEF TypeOK, StartRec

LEMMA CloseMoves ==
    ASSUME TypeOK, NEW c \in Closers, NEW k \in CloseRec,
           close' = [close EXCEPT ![c] = k], DOMAIN rows \subseteq DOMAIN rows',
           k.pc # "idle" => k.sess \in DOMAIN rows'
    PROVE  /\ close' \in [Closers -> CloseRec]
           /\ \A b \in Closers : close'[b].pc # "idle" => close'[b].sess \in DOMAIN rows'
BY DEF TypeOK, CloseRec

LEMMA StartKeepsType ==
    ASSUME TypeOK, NEW p \in Starters, StartStep(p)
    PROVE  TypeOK'
<1> USE DEF StartPC, Marker, None
<1>1. DOMAIN rows \subseteq Ids
  BY RowsAreIds
<1>2. start[p] \in StartRec /\ NoStart \in StartRec
  BY DEF TypeOK, StartRec, NoStart
<1>3. CASE StartInsert(p)
  <2>1. CASE rows' = Append(rows, "active") /\ Len(rows) < MaxSessions
             /\ start' = [start EXCEPT ![p] =
                   [pc |-> "opened", sess |-> Len(rows) + 1, created |-> TRUE]]
    <3>1. PICK k \in StartRec :
             k = [pc |-> "opened", sess |-> Len(rows) + 1, created |-> TRUE]
      BY <2>1, AppendGrowsRows DEF StartRec
    <3>2. /\ start' \in [Starters -> StartRec]
          /\ \A q \in Starters :
                start'[q].pc \in {"opened", "telling"} => start'[q].sess \in DOMAIN rows'
      BY <2>1, <3>1, AppendGrowsRows, StartMoves
    <3> QED
      BY <1>3, <2>1, <3>2, AppendGrowsRows DEF StartInsert, TypeOK, StartRec
  <2>2. CASE rows' = rows /\ start' = [start EXCEPT ![p].pc = "finding"]
    <3>1. PICK k \in StartRec : k = [start[p] EXCEPT !.pc = "finding"]
      BY <1>2 DEF StartRec
    <3>2. start' = [start EXCEPT ![p] = k] /\ k.pc = "finding"
      BY <2>2, <3>1, <1>2 DEF StartRec
    <3> QED
      BY <1>3, <2>2, <3>2, StartMoves, ZenonT(60) DEF StartInsert, TypeOK, StartRec
  <2> QED
    BY <1>3, <2>1, <2>2 DEF StartInsert
<1>4. CASE StartFind(p)
  <2>1. ASSUME NEW s \in Found,
               start' = [start EXCEPT ![p] = [pc |-> "opened", sess |-> s, created |-> FALSE]]
        PROVE  TypeOK'
    <3>1. s \in DOMAIN rows
      BY DEF Found, OpenIds
    <3>2. PICK k \in StartRec : k = [pc |-> "opened", sess |-> s, created |-> FALSE]
      BY <1>1, <3>1 DEF StartRec
    <3> QED
      BY <1>4, <2>1, <3>1, <3>2, StartMoves DEF StartFind, TypeOK, StartRec
  <2>2. CASE start' = [start EXCEPT ![p] = NoStart]
    BY <1>2, <1>4, <2>2, StartMoves DEF StartFind, TypeOK, StartRec, NoStart
  <2> QED
    BY <1>4, <2>1, <2>2 DEF StartFind
<1>5. CASE StartTrack(p)
  <2>1. PICK k \in StartRec : k = [start[p] EXCEPT !.pc = "telling"]
    BY <1>2 DEF StartRec
  <2>2. start' = [start EXCEPT ![p] = k] /\ k.sess \in DOMAIN rows /\ start[p].sess \in Marker
    BY <1>2, <1>5, <2>1 DEF StartTrack, TypeOK, StartRec
  <2> QED
    BY <1>5, <2>2, StartMoves DEF StartTrack, TypeOK, StartRec
<1>6. CASE StartTell(p)
  <2>1. start[p].sess \in Ids
    BY <1>1, <1>6 DEF StartTell, TypeOK
  <2>2. /\ start' \in [Starters -> StartRec]
        /\ \A q \in Starters :
              start'[q].pc \in {"opened", "telling"} => start'[q].sess \in DOMAIN rows'
    BY <1>2, <1>6, StartMoves DEF StartTell, NoStart
  <2>3. dispatched' \in [Ids -> Nat]
    <3>1. dispatched \in [Ids -> Nat]
      BY DEF TypeOK
    <3>2. \/ dispatched' = dispatched
          \/ dispatched' = [dispatched EXCEPT ![start[p].sess] = @ + 1]
      BY <1>6 DEF StartTell
    <3> QED
      BY <2>1, <3>1, <3>2
  <2>4. dispatch' \subseteq [sess: Ids, pc: {"asking", "arming", "telling"}]
    BY <1>6, <2>1 DEF StartTell, TypeOK
  <2> QED
    BY <1>6, <2>1, <2>2, <2>3, <2>4 DEF StartTell, TypeOK, StartRec
<1> QED
  BY <1>3, <1>4, <1>5, <1>6 DEF StartStep

LEMMA DispatchKeepsType ==
    ASSUME TypeOK, NEW d \in dispatch, DispatchStep(d)
    PROVE  TypeOK'
<1>1. d \in [sess: Ids, pc: {"asking", "arming", "telling"}]
  BY DEF TypeOK
<1>2. ASSUME NEW step \in {"asking", "arming", "telling"}, Becomes(d, step)
      PROVE  dispatch' \subseteq [sess: Ids, pc: {"asking", "arming", "telling"}]
  BY <1>1, <1>2 DEF Becomes, TypeOK
<1>3. CASE DispatchFails(d)
  BY <1>3 DEF DispatchFails, TypeOK
<1>4. CASE DispatchCheck(d)
  BY <1>2, <1>4 DEF DispatchCheck, TypeOK
<1>5. CASE DispatchArm(d)
  BY <1>1, <1>2, <1>5 DEF DispatchArm, TypeOK, Marker
<1>6. CASE DispatchTell(d)
  BY <1>1, <1>6 DEF DispatchTell, TypeOK
<1> QED
  BY <1>3, <1>4, <1>5, <1>6 DEF DispatchStep

LEMMA CloseKeepsType ==
    ASSUME TypeOK, NEW c \in Closers, CloseStep(c)
    PROVE  TypeOK'
<1> USE DEF ClosePC, Marker, None
<1>1. DOMAIN rows \subseteq Ids
  BY RowsAreIds
<1>2. close[c] \in CloseRec /\ NoClose \in CloseRec
  BY DEF TypeOK, CloseRec, NoClose
<1>3. ASSUME NEW way \in Ways, Close(c, way)
      PROVE  TypeOK'
  <2>1. PICK s \in DOMAIN rows : close' = [close EXCEPT ![c] =
             [pc |-> "ending", sess |-> s, own |-> way = "user", won |-> FALSE]]
    BY <1>3 DEF Close, OpenIds
  <2>2. PICK k \in CloseRec :
             k = [pc |-> "ending", sess |-> s, own |-> way = "user", won |-> FALSE]
    <3>1. (way = "user") \in BOOLEAN /\ s \in Ids
      BY <1>1
    <3> DEFINE k == [pc |-> "ending", sess |-> s, own |-> way = "user", won |-> FALSE]
    <3>2. k \in CloseRec
      BY <3>1, Zenon DEF CloseRec
    <3> QED
      BY <3>2
  <2> QED
    BY <1>3, <2>1, <2>2, CloseMoves DEF Close, TypeOK, CloseRec
<1>4. CASE CloseRow(c)
  <2>1. close[c].sess \in DOMAIN rows
    BY <1>4 DEF CloseRow, TypeOK
  <2>2. /\ rows' \in Seq({"active", "ended"})
        /\ Len(rows') = Len(rows) /\ DOMAIN rows' = DOMAIN rows
    BY <1>4, <2>1, EndKeepsRows DEF CloseRow
  <2>3. PICK k \in CloseRec :
             k = IF close[c].own /\ ~Wins(close[c].sess) THEN NoClose
                 ELSE [pc |-> "clearAgent", sess |-> close[c].sess, own |-> FALSE,
                       won |-> Wins(close[c].sess)]
    BY <1>1, <1>2, <2>1 DEF CloseRec, Wins
  <2>4. close' = [close EXCEPT ![c] = k]
    BY <1>4, <2>3 DEF CloseRow
  <2>5. k.pc # "idle" => k.sess \in DOMAIN rows'
    BY <2>1, <2>2, <2>3 DEF NoClose
  <2> QED
    BY <1>4, <2>2, <2>4, <2>5, CloseMoves DEF CloseRow, TypeOK, CloseRec
<1>5. ASSUME NEW step \in ClosePC, close' = [close EXCEPT ![c].pc = step],
             close[c].pc # "idle", rows' = rows
      PROVE  /\ close' \in [Closers -> CloseRec]
             /\ \A b \in Closers : close'[b].pc # "idle" => close'[b].sess \in DOMAIN rows'
  <2>1. PICK k \in CloseRec : k = [close[c] EXCEPT !.pc = step]
    BY <1>2 DEF CloseRec
  <2>2. close' = [close EXCEPT ![c] = k] /\ k.sess \in DOMAIN rows'
    BY <1>2, <1>5, <2>1 DEF TypeOK, CloseRec
  <2> QED
    BY <1>5, <2>2, CloseMoves
<1>6. CASE ClearAgent(c)
  BY <1>5, <1>6 DEF ClearAgent, TypeOK, CloseRec
<1>7. CASE ClearOpen(c)
  BY <1>5, <1>7 DEF ClearOpen, ClearedRecord, TypeOK, CloseRec
<1>8. CASE CloseTell(c)
  <2>1. CASE close[c].won
    <3>1. close' = [close EXCEPT ![c].pc = "saving"]
      BY <1>8, <2>1 DEF CloseTell
    <3> QED
      BY <1>5, <1>8, <3>1 DEF CloseTell, TypeOK, CloseRec
  <2>2. CASE ~close[c].won
    <3>1. close' = [close EXCEPT ![c] = NoClose]
      BY <1>8, <2>2 DEF CloseTell
    <3> QED
      BY <1>2, <1>8, <3>1, CloseMoves DEF CloseTell, TypeOK, CloseRec, NoClose
  <2> QED
    BY <2>1, <2>2
<1>9. CASE Save(c)
  <2>1. saved' \in [Ids -> Nat]
    BY <1>1, <1>9 DEF Save, TypeOK
  <2> QED
    BY <1>2, <1>9, <2>1, CloseMoves DEF Save, TypeOK, CloseRec, NoClose
<1> QED
  BY <1>3, <1>4, <1>6, <1>7, <1>8, <1>9 DEF CloseStep

LEMMA StepKeepsType == TypeOK /\ [Next]_vars => TypeOK'
<1>1. CASE UNCHANGED vars
  BY <1>1 DEF vars, TypeOK
<1> QED
  BY <1>1, StartKeepsType, DispatchKeepsType, CloseKeepsType DEF Next

(* Every handler past its look-up holds a session of the table, and the    *)
(* markers name none that was never opened.                                *)
THEOREM TypeCorrect == Spec => []TypeOK
BY TypeInit, StepKeepsType, PTL DEF Spec

-----------------------------------------------------------------------------
(* The notice of session s is still to come exactly while one closer, the  *)
(* one that ended it, is on its way to post it.                            *)
NoticeOf(s) ==
    /\ s \in DOMAIN rows /\ rows[s] = "ended" =>
          \/ saved[s] = 1 /\ Savers(s) = {}
          \/ saved[s] = 0 /\ \E c \in Closers : Savers(s) = {c}
    /\ s \in DOMAIN rows /\ rows[s] = "active" => saved[s] = 0 /\ Savers(s) = {}
    /\ s \notin DOMAIN rows => saved[s] = 0 /\ Savers(s) = {}

(* Only the closer that ended a session goes on to post its notice. *)
PostersWon ==
    \A c \in Closers :
        /\ close[c].pc = "saving" => close[c].won
        /\ close[c].won => close[c].pc \in {"clearAgent", "clearOpen", "telling", "saving"}

Notices == TypeOK /\ PostersWon /\ \A s \in Ids : NoticeOf(s)

LEMMA NoticesInit == Init => Notices
BY TypeInit DEF Init, Notices, PostersWon, NoticeOf, Savers, NoClose

LEMMA NoticesImplySavedOnce == Notices => SavedOnce
BY RowsAreIds DEF Notices, NoticeOf, SavedOnce, Savers, TypeOK

(* A closer that moves without posting keeps every notice where it was.    *)
LEMMA SaversKept ==
    ASSUME Notices, NEW c \in Closers, NEW k \in CloseRec,
           close' = [close EXCEPT ![c] = k],
           k.won = close[c].won, close[c].won => k.sess = close[c].sess,
           k.won => k.pc \in {"clearAgent", "clearOpen", "telling", "saving"},
           k.pc = "saving" => k.won,
           UNCHANGED <<rows, saved>>
    PROVE  PostersWon' /\ \A s \in Ids : NoticeOf(s)'
<1>1. close \in [Closers -> CloseRec]
  BY DEF Notices, TypeOK, CloseRec
<1>2. PostersWon'
  BY <1>1 DEF Notices, PostersWon
<1>3. \A s \in Ids : Savers(s)' = Savers(s)
  BY <1>1 DEF Savers
<1> QED
  BY <1>2, <1>3 DEF Notices, NoticeOf

LEMMA CloseKeepsNotices ==
    ASSUME Notices, NEW c \in Closers, CloseStep(c)
    PROVE  PostersWon' /\ \A s \in Ids : NoticeOf(s)'
<1> USE DEF ClosePC, Marker, None
<1>0. TypeOK
  BY DEF Notices
<1>1. close \in [Closers -> CloseRec] /\ DOMAIN rows \subseteq Ids /\ NoClose \in CloseRec
  BY <1>0, RowsAreIds DEF TypeOK, CloseRec, NoClose
<1>2. ASSUME NEW step \in {"clearAgent", "clearOpen", "telling", "saving"},
             close' = [close EXCEPT ![c].pc = step],
             close[c].pc \in {"clearAgent", "clearOpen", "telling"},
             step = "saving" => close[c].won,
             UNCHANGED <<rows, saved>>
      PROVE  PostersWon' /\ \A s \in Ids : NoticeOf(s)'
  <2>1. PICK k \in CloseRec : k = [close[c] EXCEPT !.pc = step]
    BY <1>1 DEF CloseRec
  <2>2. /\ close' = [close EXCEPT ![c] = k]
        /\ k.won = close[c].won /\ k.sess = close[c].sess /\ k.pc = step
    BY <1>1, <1>2, <2>1 DEF CloseRec
  <2> QED
    BY <1>2, <2>2, SaversKept
<1>3. ASSUME NEW way \in Ways, Close(c, way)
      PROVE  PostersWon' /\ \A s \in Ids : NoticeOf(s)'
  <2>1. PICK s \in DOMAIN rows : close' = [close EXCEPT ![c] =
             [pc |-> "ending", sess |-> s, own |-> way = "user", won |-> FALSE]]
    BY <1>3 DEF Close, OpenIds
  <2>2. PICK k \in CloseRec :
             k = [pc |-> "ending", sess |-> s, own |-> way = "user", won |-> FALSE]
    <3>1. (way = "user") \in BOOLEAN /\ s \in Ids
      BY <1>1
    <3> DEFINE k == [pc |-> "ending", sess |-> s, own |-> way = "user", won |-> FALSE]
    <3>2. k \in CloseRec
      BY <3>1, Zenon DEF CloseRec
    <3> QED
      BY <3>2
  <2>3. ~close[c].won
    BY <1>1, <1>3 DEF Close, Notices, PostersWon, CloseRec
  <2>4. close' = [close EXCEPT ![c] = k] /\ k.pc = "ending" /\ k.won = FALSE
    BY <2>1, <2>2
  <2>5. close[c].won = FALSE
    BY <1>1, <2>3 DEF CloseRec
  <2> QED
    BY <1>3, <2>4, <2>5, SaversKept DEF Close
<1>4. CASE CloseRow(c)
  <2>1. close[c].sess \in DOMAIN rows /\ close[c].pc = "ending"
    BY <1>0, <1>4 DEF CloseRow, TypeOK
  <2>2. PICK t \in DOMAIN rows : t = close[c].sess
    BY <2>1
  <2>3. /\ DOMAIN rows' = DOMAIN rows /\ rows'[t] = "ended"
        /\ \A r \in DOMAIN rows : r # t => rows'[r] = rows[r]
    BY <1>0, <1>4, <2>2, EndKeepsRows DEF CloseRow
  <2>4. close[c].won = FALSE
    BY <1>1, <2>1 DEF Notices, PostersWon, CloseRec
  <2>5. saved' = saved
    BY <1>4 DEF CloseRow
  <2>6. CASE rows[t] = "active"
    <3>1. close' = [close EXCEPT ![c] =
             [pc |-> "clearAgent", sess |-> t, own |-> FALSE, won |-> TRUE]]
      BY <1>4, <2>2, <2>6 DEF CloseRow, Wins
    <3>2. PostersWon'
      BY <1>1, <3>1 DEF Notices, PostersWon
    <3>3. saved[t] = 0 /\ Savers(t) = {}
      BY <1>1, <2>6 DEF Notices, NoticeOf
    <3>4. Savers(t)' = {c}
      <4>1. \A b \in Closers : b # c => close'[b] = close[b]
        BY <1>1, <3>1
      <4>2. close'[c].sess = t /\ close'[c].won
        BY <1>1, <3>1
      <4> QED
        BY <3>3, <4>1, <4>2 DEF Savers
    <3>5. \A s \in Ids \ {t} : Savers(s)' = Savers(s)
      BY <1>1, <2>4, <3>1 DEF Savers
    <3>6. ASSUME NEW s \in Ids PROVE NoticeOf(s)'
      <4>1. CASE s = t
        BY <2>2, <2>3, <2>5, <3>3, <3>4, <4>1 DEF NoticeOf
      <4>2. CASE s # t
        BY <2>3, <2>5, <3>5, <4>2 DEF Notices, NoticeOf
      <4> QED
        BY <4>1, <4>2
    <3> QED
      BY <3>2, <3>6
  <2>7. CASE rows[t] # "active"
    <3>1. rows' = rows
      BY <1>0, <1>4, <2>2, <2>7 DEF CloseRow, TypeOK
    <3>2. PICK k \in {NoClose, [pc |-> "clearAgent", sess |-> t, own |-> FALSE, won |-> FALSE]} :
             close' = [close EXCEPT ![c] = k]
      BY <1>4, <2>2, <2>7 DEF CloseRow, Wins
    <3>3. k \in CloseRec /\ k.won = FALSE /\ k.pc # "saving"
      <4>1. t \in Ids
        BY <1>1
      <4>2. [pc |-> "clearAgent", sess |-> t, own |-> FALSE, won |-> FALSE] \in CloseRec
        BY <4>1 DEF CloseRec
      <4>3. CASE k = NoClose
        BY <1>1, <4>3 DEF NoClose
      <4>4. CASE k = [pc |-> "clearAgent", sess |-> t, own |-> FALSE, won |-> FALSE]
        BY <4>2, <4>4
      <4> QED
        BY <3>2, <4>3, <4>4
    <3> QED
      BY <2>4, <2>5, <3>1, <3>2, <3>3, SaversKept
  <2> QED
    BY <2>6, <2>7
<1>5. CASE ClearAgent(c)
  BY <1>2, <1>5 DEF ClearAgent
<1>6. CASE ClearOpen(c)
  BY <1>2, <1>6 DEF ClearOpen
<1>7. CASE CloseTell(c)
  <2>1. CASE close[c].won
    <3>1. close' = [close EXCEPT ![c].pc = "saving"]
      BY <1>7, <2>1 DEF CloseTell
    <3> QED
      BY <1>2, <1>7, <2>1, <3>1 DEF CloseTell
  <2>2. CASE ~close[c].won
    <3>1. close' = [close EXCEPT ![c] = NoClose]
      BY <1>7, <2>2 DEF CloseTell
    <3>2. NoClose.won = FALSE /\ NoClose.pc = "idle" /\ close[c].won = FALSE
      BY <1>1, <2>2 DEF NoClose, CloseRec
    <3> QED
      BY <1>1, <1>7, <3>1, <3>2, SaversKept DEF CloseTell
  <2> QED
    BY <2>1, <2>2
<1>8. CASE Save(c)
  <2>1. PICK t \in DOMAIN rows : t = close[c].sess
    BY <1>0, <1>8 DEF Save, TypeOK
  <2>2. close[c].won /\ c \in Savers(t)
    BY <1>8, <2>1 DEF Save, Notices, PostersWon, Savers
  <2>3. Savers(t) = {c} /\ saved[t] = 0 /\ rows[t] = "ended"
    BY <1>0, <1>1, <2>2 DEF Notices, NoticeOf, TypeOK
  <2>4. rows' = rows /\ close' = [close EXCEPT ![c] = NoClose] /\ NoClose.won = FALSE
    BY <1>8 DEF Save, NoClose
  <2>5. saved'[t] = 1 /\ \A s \in Ids : s # t => saved'[s] = saved[s]
    BY <1>0, <1>1, <1>8, <2>1, <2>3 DEF Save, TypeOK
  <2>6. Savers(t)' = {}
    BY <1>1, <2>3, <2>4 DEF Savers
  <2>7. \A s \in Ids : s # t => Savers(s)' = Savers(s)
    BY <1>1, <2>1, <2>4 DEF Savers
  <2>8. PostersWon'
    BY <1>1, <2>4 DEF Notices, PostersWon, NoClose
  <2>9. ASSUME NEW s \in Ids PROVE NoticeOf(s)'
    <3>1. CASE s = t
      BY <2>3, <2>4, <2>5, <2>6, <3>1 DEF NoticeOf
    <3>2. CASE s # t
      BY <2>4, <2>5, <2>7, <3>2 DEF Notices, NoticeOf
    <3> QED
      BY <3>1, <3>2
  <2> QED
    BY <2>8, <2>9
<1> QED
  BY <1>3, <1>4, <1>5, <1>6, <1>7, <1>8 DEF CloseStep

LEMMA OthersKeepNotices ==
    ASSUME Notices, UNCHANGED <<close, saved>>,
           \/ rows' = rows
           \/ rows' = Append(rows, "active") /\ Len(rows) < MaxSessions
    PROVE  PostersWon' /\ \A s \in Ids : NoticeOf(s)'
<1>1. PostersWon' /\ \A s \in Ids : Savers(s)' = Savers(s)
  BY DEF Notices, PostersWon, Savers
<1>2. CASE rows' = rows
  BY <1>1, <1>2 DEF Notices, NoticeOf
<1>3. CASE rows' = Append(rows, "active") /\ Len(rows) < MaxSessions
  BY <1>1, <1>3, AppendGrowsRows DEF Notices, NoticeOf
<1> QED
  BY <1>2, <1>3

LEMMA StepKeepsNotices == Notices /\ [Next]_vars => Notices'
<1> SUFFICES ASSUME Notices, [Next]_vars
             PROVE  Notices'
  OBVIOUS
<1>1. TypeOK'
  BY StepKeepsType DEF Notices
<1>2. CASE UNCHANGED vars
  BY <1>1, <1>2, OthersKeepNotices DEF vars, Notices
<1>3. ASSUME NEW p \in Starters, StartStep(p)
      PROVE  Notices'
  BY <1>1, <1>3, OthersKeepNotices
     DEF StartStep, StartInsert, StartFind, StartTrack, StartTell, Notices
<1>4. ASSUME NEW d \in dispatch, DispatchStep(d)
      PROVE  Notices'
  BY <1>1, <1>4, OthersKeepNotices
     DEF DispatchStep, DispatchFails, DispatchCheck, DispatchArm, DispatchTell, Notices
<1>5. ASSUME NEW c \in Closers, CloseStep(c)
      PROVE  Notices'
  BY <1>1, <1>5, CloseKeepsNotices DEF Notices
<1> QED
  BY <1>2, <1>3, <1>4, <1>5 DEF Next

(* However many end requests and backstops race, the "transcript saved"    *)
(* notice of a session is posted at most once, by the closer whose         *)
(* end_session changed the row, and no ended session loses its closer.     *)
THEOREM NoticePostedOnce == Spec => []SavedOnce
<1>1. Notices /\ [Next]_vars => Notices'
  BY StepKeepsNotices
<1> QED
  BY <1>1, NoticesInit, NoticesImplySavedOnce, PTL DEF Spec

-----------------------------------------------------------------------------
OneOpen == \A r, s \in DOMAIN rows : rows[r] = "active" /\ rows[s] = "active" => r = s

(* Creating(p, s): p inserted session s and has yet to send for its agent. *)
Creating(p, s) ==
    start[p].created /\ start[p].sess = s /\ start[p].pc \in {"opened", "telling"}

(* The agent of a session is sent for by the one request that inserted it. *)
OneCreator ==
    /\ \A p \in Starters : start[p].created => start[p].pc \in {"opened", "telling"}
    /\ \A s \in Ids : dispatched[s] <= 1
    /\ \A s \in Ids \ DOMAIN rows : dispatched[s] = 0
    /\ \A p \in Starters, s \in Ids : Creating(p, s) => dispatched[s] = 0
    /\ \A p, q \in Starters, s \in Ids : Creating(p, s) /\ Creating(q, s) => p = q

Unforked == TypeOK /\ OneOpen /\ OneCreator

LEMMA UnforkedInit == Init => Unforked
BY TypeInit DEF Init, Unforked, OneOpen, OneCreator, Creating, NoStart

LEMMA UnforkedImplies == Unforked => CallsDoNotFork
BY DEF Unforked, OneOpen, OneCreator, CallsDoNotFork, OpenIds

(* A request that moves on without having inserted anything new.           *)
LEMMA CreatorKept ==
    ASSUME Unforked, NEW p \in Starters, NEW k \in StartRec,
           start' = [start EXCEPT ![p] = k],
           k.created => /\ start[p].created /\ k.sess = start[p].sess
                        /\ k.pc \in {"opened", "telling"},
           UNCHANGED <<rows, dispatched>>
    PROVE  OneOpen' /\ OneCreator'
<1>1. start \in [Starters -> StartRec]
  BY DEF Unforked, TypeOK, StartRec
<1>2. OneOpen'
  BY DEF Unforked, OneOpen
<1>3. \A q \in Starters, s \in Ids : Creating(q, s)' => Creating(q, s)
  BY <1>1 DEF Creating, Unforked, OneCreator
<1>4. \A q \in Starters : start'[q].created => start'[q].pc \in {"opened", "telling"}
  BY <1>1 DEF Unforked, OneCreator
<1> QED
  BY <1>2, <1>3, <1>4 DEF Unforked, OneCreator

LEMMA StartKeepsUnforked ==
    ASSUME Unforked, NEW p \in Starters, StartStep(p)
    PROVE  OneOpen' /\ OneCreator'
<1> USE DEF StartPC, Marker, None
<1>0. TypeOK /\ DOMAIN rows \subseteq Ids
  BY RowsAreIds DEF Unforked
<1>1. start \in [Starters -> StartRec] /\ start[p] \in StartRec /\ NoStart \in StartRec
  BY <1>0 DEF TypeOK, StartRec, NoStart
<1>2. CASE StartInsert(p)
  <2>1. CASE /\ ~RoomTaken /\ Len(rows) < MaxSessions
             /\ rows' = Append(rows, "active")
             /\ start' = [start EXCEPT ![p] =
                   [pc |-> "opened", sess |-> Len(rows) + 1, created |-> TRUE]]
    <3>1. PICK t \in Ids : t = Len(rows) + 1
      BY <1>0, <2>1, AppendGrowsRows
    <3>2. /\ DOMAIN rows' = DOMAIN rows \cup {t} /\ t \notin DOMAIN rows
          /\ \A r \in DOMAIN rows : rows'[r] = rows[r] /\ rows[r] # "active"
      BY <1>0, <2>1, <3>1, AppendGrowsRows DEF RoomTaken, OpenIds
    <3>3. OneOpen'
      BY <3>2 DEF OneOpen
    <3>4. dispatched' = dispatched /\ dispatched[t] = 0
      BY <1>2, <3>1, <3>2 DEF StartInsert, Unforked, OneCreator
    <3>5. start' = [start EXCEPT ![p] = [pc |-> "opened", sess |-> t, created |-> TRUE]]
      BY <2>1, <3>1
    <3>6. \A q \in Starters : ~Creating(q, t)
      BY <1>0, <3>2 DEF Creating, TypeOK
    <3>7. \A q \in Starters, s \in Ids :
             Creating(q, s)' => (q = p /\ s = t) \/ (q # p /\ s # t /\ Creating(q, s))
      BY <1>1, <3>5, <3>6 DEF Creating
    <3>8. \A q \in Starters : start'[q].created => start'[q].pc \in {"opened", "telling"}
      BY <1>1, <3>5 DEF Unforked, OneCreator
    <3> QED
      BY <3>2, <3>3, <3>4, <3>7, <3>8 DEF Unforked, OneCreator
  <2>2. CASE rows' = rows /\ start' = [start EXCEPT ![p].pc = "finding"]
    <3>1. PICK k \in StartRec : k = [start[p] EXCEPT !.pc = "finding"]
      BY <1>1 DEF StartRec
    <3>2. start[p].created = FALSE
      BY <1>1, <1>2 DEF StartInsert, Unforked, OneCreator, StartRec
    <3>3. start' = [start EXCEPT ![p] = k] /\ k.created = FALSE /\ dispatched' = dispatched
      BY <1>1, <1>2, <2>2, <3>1, <3>2 DEF StartInsert, StartRec
    <3> QED
      BY <2>2, <3>3, CreatorKept
  <2> QED
    BY <1>2, <2>1, <2>2 DEF StartInsert
<1>3. CASE StartFind(p)
  <2>1. ASSUME NEW s \in Found,
               start' = [start EXCEPT ![p] = [pc |-> "opened", sess |-> s, created |-> FALSE]]
        PROVE  OneOpen' /\ OneCreator'
    <3>1. s \in Ids
      BY <1>0 DEF Found, OpenIds
    <3>2. PICK k \in StartRec : k = [pc |-> "opened", sess |-> s, created |-> FALSE]
      BY <3>1 DEF StartRec
    <3> QED
      BY <1>3, <2>1, <3>2, CreatorKept DEF StartFind
  <2>2. CASE start' = [start EXCEPT ![p] = NoStart]
    <3>1. NoStart.created = FALSE
      BY DEF NoStart
    <3> QED
      BY <1>1, <1>3, <2>2, <3>1, CreatorKept DEF StartFind
  <2> QED
    BY <1>3, <2>1, <2>2 DEF StartFind
<1>4. CASE StartTrack(p)
  <2>1. PICK k \in StartRec : k = [start[p] EXCEPT !.pc = "telling"]
    BY <1>1 DEF StartRec
  <2>2. /\ start' = [start EXCEPT ![p] = k] /\ k.sess = start[p].sess
        /\ k.created = start[p].created /\ k.pc = "telling"
    BY <1>1, <1>4, <2>1 DEF StartTrack, StartRec
  <2>3. k.created => /\ start[p].created /\ k.sess = start[p].sess
                     /\ k.pc \in {"opened", "telling"}
    BY <2>2
  <2>4. start' = [start EXCEPT ![p] = k] /\ UNCHANGED <<rows, dispatched>>
    BY <1>4, <2>2 DEF StartTrack
  <2> QED
    BY <2>3, <2>4, CreatorKept
<1>5. CASE StartTell(p)
  <2>1. PICK t \in Ids : t = start[p].sess
    BY <1>0, <1>5 DEF StartTell, TypeOK
  <2>2. start' = [start EXCEPT ![p] = NoStart] /\ NoStart.created = FALSE /\ rows' = rows
    BY <1>5 DEF StartTell, NoStart
  <2>3. CASE dispatched' = dispatched
    BY <1>1, <2>2, <2>3, CreatorKept
  <2>4. CASE SendsForAgent(p) /\ dispatched' = [dispatched EXCEPT ![t] = @ + 1]
    <3>1. Creating(p, t) /\ t \in DOMAIN rows
      BY <1>0, <1>5, <2>1, <2>4 DEF StartTell, SendsForAgent, Creating, TypeOK
    <3>2. dispatched[t] = 0 /\ \A q \in Starters : Creating(q, t) => q = p
      BY <3>1 DEF Unforked, OneCreator
    <3>3. dispatched'[t] = 1 /\ \A s \in Ids : s # t => dispatched'[s] = dispatched[s]
      BY <1>0, <2>4, <3>2 DEF TypeOK
    <3>4. \A q \in Starters, s \in Ids : Creating(q, s)' => q # p /\ s # t /\ Creating(q, s)
      BY <1>1, <2>2, <3>2 DEF Creating
    <3>5. \A q \in Starters : start'[q].created => start'[q].pc \in {"opened", "telling"}
      BY <1>1, <2>2 DEF Unforked, OneCreator
    <3>6. OneOpen'
      BY <2>2 DEF Unforked, OneOpen
    <3>7. \A s \in Ids : dispatched'[s] <= 1
      BY <3>3 DEF Unforked, OneCreator
    <3>8. \A s \in Ids \ DOMAIN rows' : dispatched'[s] = 0
      BY <2>2, <3>1, <3>3 DEF Unforked, OneCreator
    <3>9. \A q \in Starters, s \in Ids : Creating(q, s)' => dispatched'[s] = 0
      BY <3>3, <3>4 DEF Unforked, OneCreator
    <3>10. \A q, r \in Starters, s \in Ids : Creating(q, s)' /\ Creating(r, s)' => q = r
      BY <3>4 DEF Unforked, OneCreator
    <3> QED
      BY <3>5, <3>6, <3>7, <3>8, <3>9, <3>10 DEF OneCreator
  <2> QED
    BY <1>5, <2>1, <2>3, <2>4 DEF StartTell
<1> QED
  BY <1>2, <1>3, <1>4, <1>5 DEF StartStep

LEMMA OthersKeepUnforked ==
    ASSUME Unforked, UNCHANGED <<start, dispatched>>,
           \/ rows' = rows
           \/ \E t \in DOMAIN rows : rows' = [rows EXCEPT ![t] = "ended"]
    PROVE  OneOpen' /\ OneCreator'
<1>1. DOMAIN rows' = DOMAIN rows /\ \A r \in DOMAIN rows : rows'[r] = "active" => rows[r] = "active"
  BY EndKeepsRows DEF Unforked
<1> QED
  BY <1>1 DEF Unforked, OneOpen, OneCreator, Creating

LEMMA StepKeepsUnforked == Unforked /\ [Next]_vars => Unforked'
<1> SUFFICES ASSUME Unforked, [Next]_vars
             PROVE  Unforked'
  OBVIOUS
<1>1. TypeOK'
  BY StepKeepsType DEF Unforked
<1>2. CASE UNCHANGED vars
  BY <1>1, <1>2, OthersKeepUnforked DEF vars, Unforked
<1>3. ASSUME NEW p \in Starters, StartStep(p)
      PROVE  Unforked'
  BY <1>1, <1>3, StartKeepsUnforked DEF Unforked
<1>4. ASSUME NEW d \in dispatch, DispatchStep(d)
      PROVE  Unforked'
  BY <1>1, <1>4, OthersKeepUnforked
     DEF DispatchStep, DispatchFails, DispatchCheck, DispatchArm, DispatchTell, Unforked
<1>5. ASSUME NEW c \in Closers, CloseStep(c)
      PROVE  Unforked'
  <2>1. CASE CloseRow(c)
    <3>1. close[c].sess \in DOMAIN rows
      BY <2>1 DEF CloseRow, Unforked, TypeOK
    <3> QED
      BY <1>1, <2>1, <3>1, OthersKeepUnforked DEF CloseRow, Unforked
  <2>2. CASE ~CloseRow(c)
    BY <1>1, <1>5, <2>2, OthersKeepUnforked
       DEF CloseStep, Close, ClearAgent, ClearOpen, CloseTell, Save, Unforked
  <2> QED
    BY <2>1, <2>2
<1> QED
  BY <1>2, <1>3, <1>4, <1>5 DEF Next

(* LC-914: however many participants start transcription at once, and      *)
(* whichever sessions end meanwhile, the room has one open session and the *)
(* agent is sent for once per session, by the request that inserted it.    *)
THEOREM NoForks == Spec => []CallsDoNotFork
BY UnforkedInit, StepKeepsUnforked, UnforkedImplies, PTL DEF Spec

-----------------------------------------------------------------------------
(* A closer has yet to clear what session s left behind. *)
Clearing(s, pcs) == \E c \in Closers : close[c].sess = s /\ close[c].pc \in pcs

(* Session s may be behind a marker: it is open, or a closer at one of the *)
(* steps is on its way to the marker.                                      *)
Behind(s, pcs) == s \in DOMAIN rows /\ (rows[s] = "active" \/ Clearing(s, pcs))

(* A marker stays behind only as long as a closer is on its way to it, and *)
(* the agent is armed for an open session only.                            *)
Traced ==
    /\ TypeOK
    /\ \A d \in dispatch : /\ d.sess \in DOMAIN rows
                           /\ d.pc = "arming" => rows[d.sess] = "active"
    /\ open # None => Behind(open, {"clearAgent", "clearOpen"})
    /\ agent # None => Behind(agent, {"clearAgent"})

LEMMA TracedInit == Init => Traced
BY TypeInit DEF Init, Traced

LEMMA TracedAtRest == Traced /\ AtRest => agent \in OpenIds \cup {None}
<1> SUFFICES ASSUME Traced, AtRest, agent # None
             PROVE  agent \in OpenIds
  OBVIOUS
<1>1. \A c \in Closers : close[c].pc = "idle"
  BY DEF AtRest, NoClose
<1> QED
  BY <1>1 DEF Traced, Behind, Clearing, OpenIds

LEMMA StartKeepsTraced ==
    ASSUME Traced, TypeOK', ~CutShort, NEW p \in Starters, StartStep(p)
    PROVE  Traced'
<1>1. /\ close' = close /\ agent' = agent
      /\ DOMAIN rows \subseteq DOMAIN rows'
      /\ \A s \in DOMAIN rows : rows'[s] = rows[s]
  BY AppendGrowsRows
     DEF StartStep, StartInsert, StartFind, StartTrack, StartTell, Traced
<1>2. \A d \in dispatch' \ dispatch : d.sess \in DOMAIN rows /\ d.pc = "asking"
  BY DEF StartStep, StartInsert, StartFind, StartTrack, StartTell, Traced, TypeOK
<1>3. open' # open => Behind(open', {"clearAgent", "clearOpen"})
  <2>1. CASE StartTrack(p)
    <3>1. start[p].sess \in DOMAIN rows /\ rows[start[p].sess] \in {"active", "ended"}
      BY <2>1 DEF StartTrack, Traced, TypeOK
    <3>2. rows[start[p].sess] # "ended"
      BY <2>1 DEF StartTrack, CutShort
    <3> QED
      BY <2>1, <3>1, <3>2 DEF StartTrack, Behind
  <2>2. CASE ~StartTrack(p)
    BY <2>2 DEF StartStep, StartInsert, StartFind, StartTell
  <2> QED
    BY <2>1, <2>2
<1>4. (open # None => Behind(open, {"clearAgent", "clearOpen"}))'
  BY <1>1, <1>3 DEF Traced, Behind, Clearing
<1>5. (agent # None => Behind(agent, {"clearAgent"}))'
  BY <1>1 DEF Traced, Behind, Clearing
<1>6. \A d \in dispatch' : /\ d.sess \in DOMAIN rows'
                           /\ d.pc = "arming" => rows'[d.sess] = "active"
  BY <1>1, <1>2 DEF Traced
<1> QED
  BY <1>4, <1>5, <1>6 DEF Traced

LEMMA DispatchKeepsTraced ==
    ASSUME Traced, TypeOK', ~CutShort', NEW d \in dispatch, DispatchStep(d)
    PROVE  Traced'
<1>1. UNCHANGED <<rows, open, close>> /\ d.sess \in Ids /\ d.sess \in DOMAIN rows
  BY DEF DispatchStep, DispatchFails, DispatchCheck, DispatchArm, DispatchTell,
         Traced, TypeOK
<1>2. (open # None => Behind(open, {"clearAgent", "clearOpen"}))'
  BY <1>1 DEF Traced, Behind, Clearing
<1>3. CASE DispatchCheck(d)
  <2>1. PICK e \in [sess : Ids, pc : {"asking", "arming", "telling"}] :
           e = [d EXCEPT !.pc = IF OnRecord(d.sess) THEN "arming" ELSE "telling"]
    BY DEF Traced, TypeOK
  <2>2. /\ e.sess = d.sess /\ (e.pc = "arming" => open = d.sess)
        /\ dispatch' = (dispatch \ {d}) \cup {e} /\ agent' = agent
    BY <1>3, <2>1 DEF DispatchCheck, Becomes, OnRecord, Traced, TypeOK
  <2>3. e.pc = "arming" => rows[d.sess] = "active"
    <3>1. SUFFICES ASSUME e.pc = "arming", rows[d.sess] # "active"
                   PROVE  FALSE
      OBVIOUS
    <3>2. open = d.sess /\ open # None
      BY <1>1, <2>2, <3>1 DEF Ids, None
    <3>3. PICK c \in Closers : close[c].sess = d.sess /\ close[c].pc \in {"clearAgent", "clearOpen"}
      BY <3>1, <3>2 DEF Traced, Behind, Clearing
    <3>4. e \in dispatch' /\ close'[c] = close[c]
      BY <1>1, <2>2
    <3> QED
      BY <2>2, <3>1, <3>3, <3>4 DEF CutShort
  <2>4. (agent # None => Behind(agent, {"clearAgent"}))'
    BY <1>1, <2>2 DEF Traced, Behind, Clearing
  <2> QED
    BY <1>1, <1>2, <2>2, <2>3, <2>4 DEF Traced
<1>4. CASE DispatchArm(d)
  <2>1. PICK e \in [sess : Ids, pc : {"asking", "arming", "telling"}] : e = [d EXCEPT !.pc = "telling"]
    BY DEF Traced, TypeOK
  <2>2. /\ e.sess = d.sess /\ e.pc = "telling" /\ dispatch' = (dispatch \ {d}) \cup {e}
        /\ agent' = d.sess /\ rows[d.sess] = "active"
    BY <1>4, <2>1 DEF DispatchArm, Becomes, Traced, TypeOK
  <2>3. (agent # None => Behind(agent, {"clearAgent"}))'
    BY <1>1, <2>2 DEF Behind
  <2> QED
    BY <1>1, <1>2, <2>2, <2>3 DEF Traced
<1>5. CASE DispatchFails(d) \/ DispatchTell(d)
  <2>1. dispatch' \subseteq dispatch /\ agent' = agent
    BY <1>5 DEF DispatchFails, DispatchTell
  <2>2. (agent # None => Behind(agent, {"clearAgent"}))'
    BY <1>1, <2>1 DEF Traced, Behind, Clearing
  <2> QED
    BY <1>1, <1>2, <2>1, <2>2 DEF Traced
<1> QED
  BY <1>3, <1>4, <1>5 DEF DispatchStep

(* A closer that moves on keeps those that clear a session, itself apart. *)
LEMMA CloserMoves ==
    ASSUME TypeOK, NEW c \in Closers, NEW k \in CloseRec, close' = [close EXCEPT ![c] = k]
    PROVE  /\ close'[c] = k
           /\ \A b \in Closers \ {c} : close'[b] = close[b]
BY DEF TypeOK, CloseRec

LEMMA CloseRowKeepsTraced ==
    ASSUME Traced, TypeOK', ~CutShort', NEW c \in Closers, CloseRow(c)
    PROVE  Traced'
<1> PICK s : s = close[c].sess
  OBVIOUS
<1>1. /\ close[c].pc = "ending" /\ s \in DOMAIN rows /\ rows' = [rows EXCEPT ![s] = "ended"]
      /\ UNCHANGED <<open, agent, dispatch>> /\ rows[s] \in {"active", "ended"}
      /\ s \in Marker
  BY DEF CloseRow, Traced, TypeOK, Marker
<1>2. /\ DOMAIN rows' = DOMAIN rows /\ rows'[s] = "ended"
      /\ \A r \in DOMAIN rows : r # s => rows'[r] = rows[r]
  BY <1>1, EndKeepsRows DEF Traced
<1>3. PICK k \in CloseRec :
         k = IF close[c].own /\ ~Wins(s) THEN NoClose
             ELSE [pc |-> "clearAgent", sess |-> s, own |-> FALSE, won |-> Wins(s)]
  <2>1. NoClose \in CloseRec
    BY DEF NoClose, CloseRec, ClosePC, Marker
  <2>2. ASSUME NEW w \in BOOLEAN
        PROVE  [pc |-> "clearAgent", sess |-> s, own |-> FALSE, won |-> w] \in CloseRec
    BY <1>1 DEF CloseRec, ClosePC
  <2>3. Wins(s) \in BOOLEAN
    BY DEF Wins
  <2> QED
    BY <2>1, <2>2, <2>3
<1>4. /\ close' = [close EXCEPT ![c] = k]
      /\ rows[s] = "active" => k.sess = s /\ k.pc = "clearAgent"
  BY <1>3 DEF CloseRow, Wins
<1>5. close'[c] = k /\ \A b \in Closers \ {c} : close'[b] = close[b]
  BY <1>4, CloserMoves DEF Traced
<1>6. \A r, pcs : "ending" \notin pcs /\ Clearing(r, pcs) =>
         \E b \in Closers : close'[b].sess = r /\ close'[b].pc \in pcs
  BY <1>1, <1>5 DEF Clearing
<1>7. (open # None => Behind(open, {"clearAgent", "clearOpen"}))'
  <2>1. SUFFICES ASSUME open # None
                 PROVE  /\ open \in DOMAIN rows
                        /\ \/ rows'[open] = "active"
                           \/ \E b \in Closers : /\ close'[b].sess = open
                                                 /\ close'[b].pc \in {"clearAgent", "clearOpen"}
    BY <1>1, <1>2 DEF Behind, Clearing
  <2>2. Behind(open, {"clearAgent", "clearOpen"})
    BY <2>1 DEF Traced
  <2>3. CASE rows[open] = "active"
    BY <1>1, <1>2, <1>4, <1>5, <2>1, <2>2, <2>3 DEF Behind
  <2>4. CASE Clearing(open, {"clearAgent", "clearOpen"})
    BY <1>6, <2>2, <2>4 DEF Behind
  <2> QED
    BY <2>2, <2>3, <2>4 DEF Behind
<1>8. (agent # None => Behind(agent, {"clearAgent"}))'
  <2>1. SUFFICES ASSUME agent # None
                 PROVE  /\ agent \in DOMAIN rows
                        /\ \/ rows'[agent] = "active"
                           \/ \E b \in Closers : /\ close'[b].sess = agent
                                                 /\ close'[b].pc \in {"clearAgent"}
    BY <1>1, <1>2 DEF Behind, Clearing
  <2>2. Behind(agent, {"clearAgent"})
    BY <2>1 DEF Traced
  <2>3. CASE rows[agent] = "active"
    BY <1>1, <1>2, <1>4, <1>5, <2>1, <2>2, <2>3 DEF Behind
  <2>4. CASE Clearing(agent, {"clearAgent"})
    BY <1>6, <2>2, <2>4 DEF Behind
  <2> QED
    BY <2>2, <2>3, <2>4 DEF Behind
<1>9. \A d \in dispatch' : /\ d.sess \in DOMAIN rows'
                           /\ d.pc = "arming" => rows'[d.sess] = "active"
  <2>1. SUFFICES ASSUME NEW d \in dispatch, d.pc = "arming", d.sess = s
                 PROVE  FALSE
    BY <1>1, <1>2 DEF Traced
  <2>2. rows[s] = "active"
    BY <2>1 DEF Traced
  <2>3. close'[c].sess = d.sess /\ close'[c].pc = "clearAgent" /\ d \in dispatch'
    BY <1>1, <1>4, <1>5, <2>1, <2>2
  <2> QED
    BY <2>1, <2>3 DEF CutShort
<1> QED
  BY <1>7, <1>8, <1>9 DEF Traced

LEMMA CloseKeepsTraced ==
    ASSUME Traced, TypeOK', ~CutShort', NEW c \in Closers, CloseStep(c), ~CloseRow(c)
    PROVE  Traced'
<1>1. PICK k \in CloseRec :
         /\ close' = [close EXCEPT ![c] = k]
         /\ \/ close[c].pc \notin {"clearAgent", "clearOpen"} /\ UNCHANGED <<open, agent>>
            \/ /\ close[c].pc = "clearAgent" /\ agent' = None /\ open' = open
               /\ k.pc = "clearOpen" /\ k.sess = close[c].sess
            \/ /\ close[c].pc = "clearOpen" /\ agent' = agent
               /\ open' = IF open = close[c].sess THEN None ELSE open
  <2>1. close[c] \in CloseRec
    BY DEF Traced, TypeOK, CloseRec
  <2>2. CASE \E way \in Ways : Close(c, way)
    <3>0. PICK way \in Ways : Close(c, way)
      BY <2>2
    <3>1. PICK s \in DOMAIN rows :
             close' = [close EXCEPT ![c] = [pc |-> "ending", sess |-> s, own |-> way = "user",
                                            won |-> FALSE]]
      BY <3>0 DEF Close, OpenIds
    <3>2. [pc |-> "ending", sess |-> s, own |-> way = "user", won |-> FALSE] \in CloseRec
      BY RowsAreIds DEF Traced, CloseRec, ClosePC, Marker
    <3> QED
      BY <2>2, <3>1, <3>2 DEF Close
  <2>3. CASE ClearAgent(c)
    <3>1. PICK k \in CloseRec : k = [close[c] EXCEPT !.pc = "clearOpen"]
      BY <2>1 DEF CloseRec, ClosePC
    <3> QED
      BY <2>1, <2>3, <3>1 DEF ClearAgent, CloseRec
  <2>4. CASE ClearOpen(c)
    <3>1. PICK k \in CloseRec : k = [close[c] EXCEPT !.pc = "telling"]
      BY <2>1 DEF CloseRec, ClosePC
    <3> QED
      BY <2>1, <2>4, <3>1 DEF ClearOpen, ClearedRecord
  <2>5. CASE CloseTell(c)
    <3>1. PICK k \in CloseRec :
             k = IF close[c].won THEN [close[c] EXCEPT !.pc = "saving"] ELSE NoClose
      BY <2>1 DEF CloseRec, ClosePC, NoClose, Marker
    <3> QED
      BY <2>1, <2>5, <3>1 DEF CloseTell
  <2>6. CASE Save(c)
    BY <2>6 DEF Save, CloseRec, ClosePC, NoClose, Marker
  <2> QED
    BY <2>2, <2>3, <2>4, <2>5, <2>6 DEF CloseStep
<1>2. UNCHANGED <<rows, dispatch>>
  BY DEF CloseStep, Close, ClearAgent, ClearOpen, CloseTell, Save
<1>3. close'[c] = k /\ \A b \in Closers \ {c} : close'[b] = close[b]
  BY <1>1, CloserMoves DEF Traced
<1>4. (open # None => Behind(open, {"clearAgent", "clearOpen"}))'
  BY <1>1, <1>2, <1>3 DEF Traced, Behind, Clearing
<1>5. (agent # None => Behind(agent, {"clearAgent"}))'
  BY <1>1, <1>2, <1>3 DEF Traced, Behind, Clearing
<1> QED
  BY <1>2, <1>4, <1>5 DEF Traced

LEMMA StepKeepsTraced ==
    Traced /\ ~CutShort /\ ~CutShort' /\ [Next]_vars => Traced'
<1> SUFFICES ASSUME Traced, ~CutShort, ~CutShort', [Next]_vars
             PROVE  Traced'
  OBVIOUS
<1>1. TypeOK'
  BY StepKeepsType DEF Traced
<1>2. CASE UNCHANGED vars
  BY <1>1, <1>2 DEF vars, Traced, Behind, Clearing
<1>3. CASE Next
  BY <1>1, <1>3, StartKeepsTraced, DispatchKeepsTraced, CloseRowKeepsTraced, CloseKeepsTraced
     DEF Next
<1> QED
  BY <1>2, <1>3

(* LC-1033, for any number of start requests, closers and sessions: in a   *)
(* room where no session is cut short, the agent's marker is never left on *)
(* a session that has ended.                                               *)
THEOREM LateDispatchIsHarmless == Spec => LateDispatchLeavesNoMarker
<1>1. Spec /\ []~CutShort => []Traced
  BY TracedInit, StepKeepsTraced, PTL DEF Spec
<1> QED
  BY <1>1, TracedAtRest, PTL DEF LateDispatchLeavesNoMarker

-----------------------------------------------------------------------------
(* Start requests at one of these steps. *)
Starting(pcs) == \E p \in Starters : start[p].pc \in pcs

(* Only the newest session is open, on record, covered or captured ...     *)
NewestOnly ==
    /\ \A s \in DOMAIN rows : rows[s] = "active" => s = Len(rows)
    /\ \A c \in Closers :
          close[c].pc \notin {"idle", "ending"} => rows[close[c].sess] = "ended"
    /\ {open, agent} \subseteq {None, Len(rows)}
    /\ capturing \cup covered \subseteq {Len(rows)} \ {None}
    /\ \A d \in dispatch : d.sess \in DOMAIN rows

(* ... while it is open, the start requests and the tasks that send for    *)
(* the agent bring the markers about, ...                                  *)
OpenIsMarked ==
    OpenIds # {} =>
        /\ dispatch # {} \/ Starting({"telling"}) => open = Len(rows)
        /\ open = Len(rows) \/ Starting({"opened"})
        /\ capturing = {Len(rows)} \/ Starting({"opened", "telling"})
        /\ \A d \in dispatch : d.pc = "telling" => agent = Len(rows)
        /\ agent = Len(rows) => covered = {Len(rows)} \/ \E d \in dispatch : d.pc = "telling"
        /\ covered # {} => agent = Len(rows)

(* ... and once it has ended, the closers take them away.                  *)
EndedIsCleared ==
    OpenIds = {} =>
        /\ open # None => Clearing(open, {"clearAgent", "clearOpen"})
        /\ agent # None => Clearing(agent, {"clearAgent"})
        /\ \A s \in capturing \cup covered : Clearing(s, {"clearAgent", "clearOpen", "telling"})

Followed == TypeOK /\ NewestOnly /\ OpenIsMarked /\ EndedIsCleared

LEMMA FollowedInit == Init => Followed
<1> SUFFICES ASSUME Init
             PROVE  Followed
  OBVIOUS
<1>1. TypeOK /\ OpenIds = {}
  BY TypeInit DEF Init, OpenIds
<1> QED
  BY <1>1 DEF Init, Followed, NewestOnly, OpenIsMarked, EndedIsCleared, NoClose, None

(* Where nothing is overtaken, every handler is about the newest session.  *)
LEMMA NobodyBehind ==
    ASSUME Followed, ~Overtaken, NEW n, n = Len(rows)
    PROVE  /\ n \in Nat /\ DOMAIN rows = 1..n
           /\ OpenIds = {} \/ (OpenIds = {n} /\ n \in 1..n)
           /\ \A p \in Starters : start[p].pc \in {"opened", "telling"} =>
                 start[p].sess = n /\ OpenIds = {n}
           /\ \A d \in dispatch : d.sess = n /\ OpenIds = {n}
           /\ \A c \in Closers :
                 /\ close[c].pc # "idle" => close[c].sess = n
                 /\ close[c].pc \notin {"idle", "ending"} => OpenIds = {}
<1>1. /\ rows \in Seq({"active", "ended"}) /\ n \in Nat /\ DOMAIN rows = 1..n
      /\ \A s \in DOMAIN rows : rows[s] \in {"active", "ended"}
  BY DEF Followed, TypeOK
<1>2. OpenIds \subseteq {n}
  BY DEF Followed, NewestOnly, OpenIds
<1>3. \A s \in DOMAIN rows : rows[s] = "active" => s = n /\ OpenIds = {n}
  BY <1>2 DEF Followed, NewestOnly, OpenIds
<1>4. \A p \in Starters : start[p].pc \in {"opened", "telling"} =>
         start[p].sess = n /\ OpenIds = {n}
  BY <1>1, <1>3 DEF Followed, TypeOK, Overtaken
<1>5. \A d \in dispatch : d.sess = n /\ OpenIds = {n}
  BY <1>1, <1>3 DEF Followed, NewestOnly, Overtaken
<1>6. \A c \in Closers : close[c].pc # "idle" => close[c].sess = n
  BY DEF Overtaken
<1>7. \A c \in Closers : close[c].pc \notin {"idle", "ending"} => OpenIds = {}
  BY <1>2, <1>6 DEF Followed, NewestOnly, OpenIds
<1>8. OpenIds = {} \/ (OpenIds = {n} /\ n \in 1..n)
  BY <1>1, <1>2 DEF OpenIds
<1> QED
  BY <1>1, <1>4, <1>5, <1>6, <1>7, <1>8

LEMMA FollowedAtRest ==
    Followed /\ ~Overtaken /\ AtRest =>
        /\ open = (IF OpenIds = {} THEN None ELSE Len(rows))
        /\ capturing = OpenIds
        /\ covered = {agent} \ {None}
        /\ covered \subseteq OpenIds
<1> SUFFICES ASSUME Followed, ~Overtaken, AtRest
             PROVE  /\ open = (IF OpenIds = {} THEN None ELSE Len(rows))
                    /\ capturing = OpenIds
                    /\ covered = {agent} \ {None}
                    /\ covered \subseteq OpenIds
  OBVIOUS
<1> PICK n : n = Len(rows)
  OBVIOUS
<1>1. OpenIds = {} \/ (OpenIds = {n} /\ n # None)
  BY NobodyBehind DEF None
<1>2. /\ dispatch = {}
      /\ \A p \in Starters : start[p].pc = "idle"
      /\ \A c \in Closers : close[c].pc = "idle"
  BY DEF AtRest, NoStart, NoClose
<1>3. CASE OpenIds = {}
  BY <1>2, <1>3 DEF Followed, EndedIsCleared, Clearing
<1>4. CASE OpenIds = {n} /\ n # None
  <2>1. open = n /\ capturing = {n} /\ (agent = n => covered = {n}) /\ (covered # {} => agent = n)
    BY <1>2, <1>4 DEF Followed, OpenIsMarked, Starting
  <2>2. agent \in {None, n} /\ covered \subseteq {n}
    BY DEF Followed, NewestOnly
  <2> QED
    BY <1>4, <2>1, <2>2
<1> QED
  BY <1>1, <1>3, <1>4

(* A step that leaves the table and the closers alone while a session is   *)
(* open.                                                                   *)
LEMMA OpenStays ==
    ASSUME Followed, ~Overtaken, TypeOK', NEW n, n = Len(rows), OpenIds = {n},
           UNCHANGED <<rows, close>>,
           open' \in {None, n}, agent' \in {None, n},
           capturing' \cup covered' \subseteq {n},
           \A d \in dispatch' : d.sess = n,
           dispatch' # {} \/ Starting({"telling"})' => open' = n,
           open' = n \/ Starting({"opened"})',
           capturing' = {n} \/ Starting({"opened", "telling"})',
           \A d \in dispatch' : d.pc = "telling" => agent' = n,
           agent' = n => covered' = {n} \/ \E d \in dispatch' : d.pc = "telling",
           covered' # {} => agent' = n
    PROVE  Followed'
<1>1. n \in 1..n /\ DOMAIN rows = 1..n /\ n # None
  BY NobodyBehind DEF None
<1>2. OpenIds' = {n} /\ Len(rows') = n /\ DOMAIN rows' = DOMAIN rows
  BY DEF OpenIds
<1>3. NewestOnly'
  BY <1>1, <1>2 DEF Followed, NewestOnly
<1>4. OpenIsMarked'
  BY <1>2 DEF OpenIsMarked
<1>5. EndedIsCleared'
  BY <1>2 DEF EndedIsCleared
<1> QED
  BY <1>3, <1>4, <1>5 DEF Followed

LEMMA InsertKeepsFollowed ==
    ASSUME Followed, TypeOK', ~Overtaken, ~Overtaken', NEW p \in Starters, StartInsert(p),
           ~RoomTaken
    PROVE  Followed'
<1> PICK n : n = Len(rows)
  OBVIOUS
<1>1. /\ OpenIds = {} /\ Len(rows) < MaxSessions /\ rows' = Append(rows, "active")
      /\ start' = [start EXCEPT ![p] = [pc |-> "opened", sess |-> n + 1, created |-> TRUE]]
      /\ UNCHANGED <<open, agent, close, dispatch, capturing, covered>>
  BY DEF StartInsert, RoomTaken
<1>2. /\ n \in Nat /\ DOMAIN rows = 1..n /\ dispatch = {}
      /\ \A q \in Starters : start[q].pc \notin {"opened", "telling"}
  BY <1>1, NobodyBehind
<1>3. /\ Len(rows') = n + 1 /\ DOMAIN rows' = DOMAIN rows \cup {n + 1}
      /\ n + 1 \notin DOMAIN rows /\ rows'[n + 1] = "active"
      /\ \A r \in DOMAIN rows : rows'[r] = rows[r]
  BY <1>1, AppendGrowsRows DEF Followed
<1>4. OpenIds' = {n + 1}
  BY <1>1, <1>3 DEF OpenIds
<1>5. \A c \in Closers : close[c].pc = "idle"
  <2>1. \A c \in Closers : close[c].pc # "idle" => close[c].sess = n + 1
    BY <1>1, <1>3 DEF Overtaken
  <2> QED
    BY <1>3, <2>1 DEF Followed, TypeOK
<1>6. open = None /\ agent = None /\ capturing = {} /\ covered = {}
  BY <1>1, <1>5 DEF Followed, EndedIsCleared, Clearing
<1>7. /\ start'[p].pc = "opened"
      /\ \A q \in Starters \ {p} : start'[q] = start[q]
  BY <1>1 DEF Followed, TypeOK
<1>8. ~Starting({"telling"})' /\ Starting({"opened"})' /\ Starting({"opened", "telling"})'
  BY <1>2, <1>7 DEF Starting
<1>9. NewestOnly'
  <2>1. \A s \in DOMAIN rows' : rows'[s] = "active" => s = n + 1
    BY <1>4 DEF OpenIds
  <2> QED
    BY <1>1, <1>2, <1>3, <1>5, <1>6, <2>1 DEF NewestOnly
<1>10. OpenIsMarked'
  <2>1. n + 1 # None
    BY <1>2 DEF None
  <2> QED
    BY <1>1, <1>2, <1>3, <1>6, <1>8, <2>1 DEF OpenIsMarked
<1>11. EndedIsCleared'
  BY <1>4 DEF EndedIsCleared
<1> QED
  BY <1>9, <1>10, <1>11 DEF Followed

LEMMA StartKeepsFollowed ==
    ASSUME Followed, TypeOK', ~Overtaken, ~Overtaken', NEW p \in Starters, StartStep(p)
    PROVE  Followed'
<1> PICK n : n = Len(rows)
  OBVIOUS
<1>1. /\ OpenIds = {} \/ OpenIds = {n}
      /\ start[p].pc \in {"opened", "telling"} => start[p].sess = n /\ OpenIds = {n}
      /\ \A d \in dispatch : d.sess = n
  BY NobodyBehind
<1>2. /\ open \in {None, n} /\ agent \in {None, n}
      /\ capturing \cup covered \subseteq {n}
  BY DEF Followed, NewestOnly
<1>3. CASE StartInsert(p) /\ ~RoomTaken
  BY <1>3, InsertKeepsFollowed
<1>4. CASE ~(StartInsert(p) /\ ~RoomTaken) /\ OpenIds = {}
  <2>1. UNCHANGED <<rows, open, agent, close, dispatch, capturing, covered>>
    BY <1>1, <1>4 DEF StartStep, StartInsert, RoomTaken, StartFind, Found, StartTrack, StartTell
  <2>2. OpenIds' = {}
    BY <1>4, <2>1 DEF OpenIds
  <2> QED
    BY <1>4, <2>1, <2>2
       DEF Followed, NewestOnly, OpenIsMarked, EndedIsCleared, Clearing
<1>5. CASE ~(StartInsert(p) /\ ~RoomTaken) /\ OpenIds = {n}
  <2>1. /\ dispatch # {} \/ Starting({"telling"}) => open = n
        /\ open = n \/ Starting({"opened"})
        /\ capturing = {n} \/ Starting({"opened", "telling"})
        /\ \A d \in dispatch : d.pc = "telling" => agent = n
        /\ agent = n => covered = {n} \/ \E d \in dispatch : d.pc = "telling"
        /\ covered # {} => agent = n
    BY <1>5 DEF Followed, OpenIsMarked
  <2>2. start \in [Starters -> StartRec]
    BY DEF Followed, TypeOK, StartRec
  <2>3. CASE \/ StartInsert(p) \/ StartFind(p)
    <3>1. /\ UNCHANGED <<rows, open, agent, close, dispatch, capturing, covered>>
          /\ start[p].pc \in {"idle", "finding"} /\ start'[p].pc # "telling"
          /\ \A q \in Starters \ {p} : start'[q] = start[q]
      BY <1>5, <2>2, <2>3 DEF StartInsert, StartFind, NoStart, StartRec
    <3>2. /\ Starting({"telling"})' => Starting({"telling"})
          /\ Starting({"opened"}) => Starting({"opened"})'
          /\ Starting({"opened", "telling"}) => Starting({"opened", "telling"})'
      BY <3>1 DEF Starting
    <3> QED
      BY <1>1, <1>2, <1>5, <2>1, <3>1, <3>2, OpenStays
  <2>4. CASE StartTrack(p)
    <3>1. /\ open' = n /\ UNCHANGED <<rows, agent, close, dispatch, capturing, covered>>
          /\ start'[p].pc = "telling"
      BY <1>1, <2>2, <2>4 DEF StartTrack, StartRec
    <3>2. Starting({"opened", "telling"})'
      BY <3>1 DEF Starting
    <3> QED
      BY <1>1, <1>2, <1>5, <2>1, <3>1, <3>2, OpenStays
  <2>5. CASE StartTell(p)
    <3>1. /\ open' = open /\ open = n
          /\ UNCHANGED <<rows, agent, close, covered>> /\ capturing' = {n}
          /\ dispatch \subseteq dispatch'
          /\ \A d \in dispatch' \ dispatch : d.sess = n /\ d.pc = "asking"
      BY <1>1, <1>2, <2>1, <2>5 DEF StartTell, Starting
    <3>2. \A d \in dispatch' : /\ d.sess = n
                               /\ d.pc = "telling" => agent' = n
      BY <1>1, <2>1, <3>1
    <3>3. agent' = n => covered' = {n} \/ \E d \in dispatch' : d.pc = "telling"
      BY <2>1, <3>1
    <3> QED
      BY <1>2, <1>5, <2>1, <3>1, <3>2, <3>3, OpenStays
  <2> QED
    BY <2>3, <2>4, <2>5 DEF StartStep
<1> QED
  BY <1>1, <1>3, <1>4, <1>5

LEMMA DispatchKeepsFollowed ==
    ASSUME Followed, TypeOK', ~Overtaken, NEW d \in dispatch, DispatchStep(d)
    PROVE  Followed'
<1> PICK n : n = Len(rows)
  OBVIOUS
<1>1. /\ OpenIds = {n} /\ \A e \in dispatch : e.sess = n
      /\ UNCHANGED <<rows, open, start, close, capturing>>
  BY NobodyBehind DEF DispatchStep, DispatchFails, DispatchCheck, DispatchArm, DispatchTell
<1>2. /\ open = n /\ agent \in {None, n} /\ capturing \cup covered \subseteq {n}
  BY <1>1 DEF Followed, NewestOnly, OpenIsMarked
<1>3. /\ capturing = {n} \/ Starting({"opened", "telling"})
      /\ \A e \in dispatch : e.pc = "telling" => agent = n
      /\ agent = n => covered = {n} \/ \E e \in dispatch : e.pc = "telling"
      /\ covered # {} => agent = n
  BY <1>1 DEF Followed, OpenIsMarked
<1>4. capturing' = {n} \/ Starting({"opened", "telling"})'
  BY <1>1, <1>3 DEF Starting
<1>5. d \in [sess : Ids, pc : {"asking", "arming", "telling"}]
  BY DEF Followed, TypeOK
<1>6. /\ agent' \in {None, n} /\ covered' \subseteq {n}
      /\ \A e \in dispatch' : e.sess = n /\ (e.pc = "telling" => agent' = n)
      /\ agent' = n => covered' = {n} \/ \E e \in dispatch' : e.pc = "telling"
      /\ covered' # {} => agent' = n
  <2>1. CASE DispatchFails(d)
    BY <1>1, <1>2, <1>3, <2>1 DEF DispatchFails
  <2>2. CASE DispatchCheck(d)
    <3>1. PICK e : e = [d EXCEPT !.pc = "arming"]
      OBVIOUS
    <3>2. /\ dispatch' = (dispatch \ {d}) \cup {e} /\ e.sess = n /\ e.pc = "arming"
          /\ UNCHANGED <<agent, covered>> /\ d.pc = "asking"
      BY <1>1, <1>2, <1>5, <2>2, <3>1 DEF DispatchCheck, Becomes, OnRecord
    <3> QED
      BY <1>1, <1>2, <1>3, <3>2
  <2>3. CASE DispatchArm(d)
    <3>1. PICK e : e = [d EXCEPT !.pc = "telling"]
      OBVIOUS
    <3>2. /\ dispatch' = (dispatch \ {d}) \cup {e} /\ e.sess = n /\ e.pc = "telling"
          /\ agent' = n /\ covered' = covered
      BY <1>1, <1>5, <2>3, <3>1 DEF DispatchArm, Becomes
    <3> QED
      BY <1>1, <1>2, <1>3, <3>2
  <2>4. CASE DispatchTell(d)
    BY <1>1, <1>2, <1>3, <2>4 DEF DispatchTell
  <2> QED
    BY <2>1, <2>2, <2>3, <2>4 DEF DispatchStep
<1> QED
  BY <1>1, <1>2, <1>4, <1>6, OpenStays

LEMMA CloseRowKeepsFollowed ==
    ASSUME Followed, TypeOK', ~Overtaken, ~Overtaken', NEW c \in Closers, CloseRow(c)
    PROVE  Followed'
<1> PICK n : n = Len(rows)
  OBVIOUS
<1>1. /\ close[c].pc = "ending" /\ close[c].sess = n /\ n \in DOMAIN rows
      /\ rows' = [rows EXCEPT ![n] = "ended"]
      /\ UNCHANGED <<open, agent, start, dispatch, capturing, covered>>
      /\ OpenIds = {} \/ OpenIds = {n}
      /\ \A s \in DOMAIN rows : rows[s] = "active" => s = n
      /\ n \in Marker /\ n # None
  <2>1. close[c].pc = "ending" /\ close[c].sess \in DOMAIN rows
    BY DEF CloseRow, Followed, TypeOK
  <2>2. /\ close[c].sess = n
        /\ OpenIds = {} \/ OpenIds = {n}
        /\ DOMAIN rows = 1..n /\ n \in Nat
    <3>1. close[c].pc # "idle"
      BY <2>1
    <3> QED
      BY <3>1, NobodyBehind
  <2>3. n \in Marker /\ n # None
    BY <2>1, <2>2, RowsAreIds DEF Followed, Marker, None
  <2> QED
    BY <2>1, <2>2, <2>3 DEF CloseRow, Followed, NewestOnly
<1>2. /\ DOMAIN rows' = DOMAIN rows /\ rows'[n] = "ended" /\ Len(rows') = n
      /\ \A r \in DOMAIN rows : r # n => rows'[r] = rows[r]
  BY <1>1, EndKeepsRows DEF Followed
<1>3. PICK k \in CloseRec :
         k = IF close[c].own /\ ~Wins(n) THEN NoClose
             ELSE [pc |-> "clearAgent", sess |-> n, own |-> FALSE, won |-> Wins(n)]
  <2>1. NoClose \in CloseRec
    BY DEF NoClose, CloseRec, ClosePC, Marker
  <2>2. ASSUME NEW w \in BOOLEAN
        PROVE  [pc |-> "clearAgent", sess |-> n, own |-> FALSE, won |-> w] \in CloseRec
    BY <1>1 DEF CloseRec, ClosePC
  <2>3. Wins(n) \in BOOLEAN
    BY DEF Wins
  <2> QED
    BY <2>1, <2>2, <2>3
<1>4. /\ close' = [close EXCEPT ![c] = k]
      /\ rows[n] = "active" => k.sess = n /\ k.pc = "clearAgent"
      /\ k.pc # "idle" => k.sess = n
  BY <1>1, <1>3 DEF CloseRow, Wins, NoClose
<1>5. close'[c] = k /\ \A b \in Closers \ {c} : close'[b] = close[b]
  BY <1>4, CloserMoves DEF Followed
<1>6. OpenIds' = {} /\ dispatch' = {}
  <2>1. \A s \in DOMAIN rows' : rows'[s] # "active"
    BY <1>1, <1>2
  <2>2. \A d \in dispatch : d.sess = n
    BY NobodyBehind
  <2>3. \A d \in dispatch' : rows'[d.sess] # "ended"
    BY DEF Overtaken
  <2> QED
    BY <1>1, <1>2, <2>1, <2>2, <2>3 DEF OpenIds
<1>7. NewestOnly'
  <2>1. \A b \in Closers : close'[b].pc \notin {"idle", "ending"} => close'[b].sess = n
    BY <1>2 DEF Overtaken
  <2> QED
    BY <1>1, <1>2, <1>6, <2>1 DEF Followed, NewestOnly, OpenIds
<1>8. OpenIsMarked'
  BY <1>6 DEF OpenIsMarked
<1>9. EndedIsCleared'
  <2>1. CASE OpenIds = {n}
    <3>1. close'[c].sess = n /\ close'[c].pc = "clearAgent"
      BY <1>4, <1>5, <2>1 DEF OpenIds
    <3>2. open \in {None, n} /\ agent \in {None, n} /\ capturing \cup covered \subseteq {n}
      BY DEF Followed, NewestOnly
    <3> QED
      BY <1>1, <3>1, <3>2 DEF EndedIsCleared, Clearing
  <2>2. CASE OpenIds = {}
    <3>1. \A s, pcs : "ending" \notin pcs /\ Clearing(s, pcs) =>
             \E b \in Closers : close'[b].sess = s /\ close'[b].pc \in pcs
      BY <1>1, <1>5 DEF Clearing
    <3>2. open # None => \E b \in Closers : /\ close'[b].sess = open
                                            /\ close'[b].pc \in {"clearAgent", "clearOpen"}
      BY <2>2, <3>1 DEF Followed, EndedIsCleared
    <3>3. agent # None => \E b \in Closers : /\ close'[b].sess = agent
                                             /\ close'[b].pc \in {"clearAgent"}
      BY <2>2, <3>1 DEF Followed, EndedIsCleared
    <3>4. \A s \in capturing \cup covered :
             \E b \in Closers : /\ close'[b].sess = s
                                /\ close'[b].pc \in {"clearAgent", "clearOpen", "telling"}
      BY <2>2, <3>1 DEF Followed, EndedIsCleared
    <3> QED
      BY <1>1, <3>2, <3>3, <3>4 DEF EndedIsCleared, Clearing
  <2> QED
    BY <1>1, <2>1, <2>2
<1> QED
  BY <1>7, <1>8, <1>9 DEF Followed

(* A closer that is not at the table: it reads a session, or it clears     *)
(* away what an ended one left behind.                                     *)
LEMMA CloseKeepsFollowed ==
    ASSUME Followed, TypeOK', ~Overtaken, ~Overtaken', NEW c \in Closers, CloseStep(c),
           ~CloseRow(c)
    PROVE  Followed'
<1> PICK n : n = Len(rows)
  OBVIOUS
<1>1. /\ UNCHANGED <<rows, start, dispatch>> /\ OpenIds' = OpenIds
      /\ OpenIds = {} \/ OpenIds = {n}
  BY NobodyBehind
     DEF CloseStep, Close, ClearAgent, ClearOpen, CloseTell, Save, OpenIds
<1>2. /\ open \in {None, n} /\ agent \in {None, n} /\ capturing \cup covered \subseteq {n} \ {None}
      /\ close \in [Closers -> CloseRec]
  BY DEF Followed, NewestOnly, TypeOK, CloseRec
<1>3. \A b \in Closers : /\ close[b].pc # "idle" => close[b].sess = n
                         /\ close'[b].pc # "idle" => close'[b].sess = n
                         /\ close[b].pc \notin {"idle", "ending"} => OpenIds = {}
  <2>1. \A b \in Closers : /\ close[b].pc # "idle" => close[b].sess = n
                           /\ close[b].pc \notin {"idle", "ending"} => OpenIds = {}
    BY NobodyBehind
  <2>2. \A b \in Closers : close'[b].pc # "idle" => close'[b].sess = n
    BY <1>1 DEF Overtaken
  <2> QED
    BY <2>1, <2>2
<1>4. \A b \in Closers \ {c} : close'[b] = close[b]
  BY <1>2 DEF CloseStep, Close, ClearAgent, ClearOpen, CloseTell, Save
<1>5. \/ /\ close[c].pc = "idle" /\ close'[c].pc = "ending"
         /\ UNCHANGED <<open, agent, capturing, covered>>
      \/ /\ close[c].pc = "clearAgent" /\ close'[c].pc = "clearOpen" /\ agent' = None
         /\ UNCHANGED <<open, capturing, covered>>
      \/ /\ close[c].pc = "clearOpen" /\ close'[c].pc = "telling" /\ open' = None
         /\ UNCHANGED <<agent, capturing, covered>>
      \/ /\ close[c].pc = "telling" /\ close'[c].pc \in {"idle", "saving"}
         /\ capturing' = {} /\ covered' = {} /\ UNCHANGED <<open, agent>>
      \/ /\ close[c].pc = "saving" /\ close'[c].pc = "idle"
         /\ UNCHANGED <<open, agent, capturing, covered>>
  <2>1. CASE \E way \in Ways : Close(c, way)
    BY <1>2, <2>1 DEF Close
  <2>2. CASE ClearAgent(c)
    BY <1>2, <2>2 DEF ClearAgent, CloseRec
  <2>3. CASE ClearOpen(c)
    BY <1>2, <1>3, <2>3 DEF ClearOpen, ClearedRecord, CloseRec
  <2>4. CASE CloseTell(c)
    BY <1>2, <1>3, <2>4 DEF CloseTell, CloseRec, NoClose
  <2>5. CASE Save(c)
    BY <1>2, <2>5 DEF Save, NoClose
  <2> QED
    BY <2>1, <2>2, <2>3, <2>4, <2>5 DEF CloseStep
<1>6. /\ open' \in {None, n} /\ agent' \in {None, n}
      /\ capturing' \cup covered' \subseteq {n} \ {None}
  BY <1>2, <1>5
<1>7. NewestOnly'
  <2>1. \A b \in Closers : close'[b].pc \notin {"idle", "ending"} =>
           close[b].pc \notin {"idle", "ending"} /\ close[b].sess = close'[b].sess
    BY <1>3, <1>4, <1>5
  <2> QED
    BY <1>1, <1>6, <2>1 DEF Followed, NewestOnly
<1>8. CASE OpenIds = {n}
  <2>1. UNCHANGED <<open, agent, capturing, covered>>
    BY <1>3, <1>5, <1>8
  <2>2. OpenIsMarked'
    BY <1>1, <2>1 DEF Followed, OpenIsMarked, Starting
  <2>3. EndedIsCleared'
    BY <1>1, <1>8 DEF EndedIsCleared
  <2> QED
    BY <1>7, <2>2, <2>3 DEF Followed
<1>9. CASE OpenIds = {}
  <2>1. OpenIsMarked'
    BY <1>1, <1>9 DEF OpenIsMarked
  <2>2. /\ open # None => Clearing(open, {"clearAgent", "clearOpen"})
        /\ agent # None => Clearing(agent, {"clearAgent"})
        /\ \A s \in capturing \cup covered : Clearing(s, {"clearAgent", "clearOpen", "telling"})
    BY <1>9 DEF Followed, EndedIsCleared
  <2>3. (open # None => Clearing(open, {"clearAgent", "clearOpen"}))'
    BY <1>3, <1>4, <1>5, <2>2 DEF Clearing
  <2>4. (agent # None => Clearing(agent, {"clearAgent"}))'
    BY <1>3, <1>4, <1>5, <2>2 DEF Clearing
  <2>5. (\A s \in capturing \cup covered : Clearing(s, {"clearAgent", "clearOpen", "telling"}))'
    <3>1. SUFFICES ASSUME NEW s \in capturing' \cup covered'
                   PROVE  \E b \in Closers : /\ close'[b].sess = s
                                             /\ close'[b].pc \in {"clearAgent", "clearOpen", "telling"}
      BY DEF Clearing
    <3>2. s \in capturing \cup covered
      BY <1>5
    <3>3. PICK b \in Closers : /\ close[b].sess = s
                               /\ close[b].pc \in {"clearAgent", "clearOpen", "telling"}
      BY <2>2, <3>2 DEF Clearing
    <3> QED
      BY <1>3, <1>4, <1>5, <3>3
  <2> QED
    BY <1>7, <2>1, <2>3, <2>4, <2>5 DEF Followed, EndedIsCleared
<1> QED
  BY <1>1, <1>8, <1>9

LEMMA StepKeepsFollowed ==
    Followed /\ ~Overtaken /\ ~Overtaken' /\ [Next]_vars => Followed'
<1> SUFFICES ASSUME Followed, ~Overtaken, ~Overtaken', [Next]_vars
             PROVE  Followed'
  OBVIOUS
<1>1. TypeOK'
  BY StepKeepsType DEF Followed
<1>2. CASE UNCHANGED vars
  <2>1. OpenIds' = OpenIds
    BY <1>2 DEF vars, OpenIds
  <2> QED
    BY <1>1, <1>2, <2>1
       DEF vars, Followed, NewestOnly, OpenIsMarked, EndedIsCleared, Starting, Clearing
<1>3. CASE Next
  BY <1>1, <1>3, StartKeepsFollowed, DispatchKeepsFollowed, CloseRowKeepsFollowed,
     CloseKeepsFollowed DEF Next
<1> QED
  BY <1>2, <1>3

(* For any number of start requests, closers and sessions: where nothing   *)
(* is overtaken, the markers and what the members know agree with the      *)
(* table whenever the handlers are at rest.                                *)
THEOREM MarkersAgree == Spec => MarkersSettle
<1>1. Spec /\ []~Overtaken => []Followed
  BY FollowedInit, StepKeepsFollowed, PTL DEF Spec
<1> QED
  BY <1>1, FollowedAtRest, PTL DEF MarkersSettle

(* Both, as the runs check them: what the hub keeps about a transcript     *)
(* follows its session.                                                    *)
THEOREM MarkersFollow == Spec => MarkersHold
BY LateDispatchIsHarmless, MarkersAgree DEF MarkersHold
=============================================================================
