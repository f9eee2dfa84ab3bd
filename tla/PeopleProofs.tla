------------------------------ MODULE PeopleProofs ------------------------------
(***************************************************************************)
(* Theorems about the ways in and out of a site (MCPeople), for any users, *)
(* subjects, addresses, handles and requests in flight: accounts with      *)
(* their roles, bans and sessions (Accounts), the approval of an           *)
(* unfamiliar sign-on (LoginApproval) and handles (Handles).               *)
(***************************************************************************)
EXTENDS MCPeople, FiniteSetTheorems, TLAPS

-------------------------------------------------------------------------------
(* Handles *)

(* Who is being given a first handle has none, and nobody else works on    *)
(* it; a welcome page is open for an account that has one.                 *)
FormsFit ==
    /\ form \in [Tasks -> [pc: {"idle", "insert", "welcome"}, user: Users \cup {None},
                           name: Names \cup {None}, was: Names \cup {None, Deleted}]]
    /\ \A t \in Tasks : form[t].pc # "idle" => form[t].user \in Users /\ form[t].name \in Names
    /\ \A t \in Tasks : form[t].pc = "insert" =>
          /\ handle[form[t].user] = None
          /\ \A k \in Tasks \ {t} : form[k].user # form[t].user
    /\ \A t \in Tasks : form[t].pc = "welcome" => handle[form[t].user] # None

(* Whoever a handle is kept for has had one.                               *)
KeptForHolders ==
    \A h \in Names : /\ reserved[h] # None => handle[reserved[h]] # None
                     /\ given[h] # None => handle[given[h]] # None

(* What is given up is reserved, but where a stale check came between.     *)
GivenIsReserved ==
    \A h \in Names : given[h] # None /\ h \notin raced => reserved[h] = given[h]

HandlesInv ==
    /\ H!TypeOK /\ FormsFit /\ KeptForHolders /\ GivenIsReserved
    /\ H!GivenUpIsKept /\ H!NoLingeringReservation

-------------------------------------------------------------------------------
(* The approval of a sign-on *)

ApprovalTyped ==
    /\ known \subseteq Devices /\ country \in Countries \cup {None}
    /\ nextChal \in 1..MaxApprovals + 1
    /\ compared \in [A!Ids -> Nat] /\ minted \in [A!Ids -> Nat]

(* A challenge that is not issued yet, or whose mail is still to be        *)
(* inserted, is nobody else's and was never tried.                         *)
Fresh(i) == ~chal[i].open /\ chal[i].attempts = 0 /\ compared[i] = 0 /\ minted[i] = 0

ChallengesFit ==
    /\ \A i \in A!Ids : i >= nextChal => Fresh(i)
    /\ \A t \in Tasks : login[t].id < nextChal
    /\ \A t \in Tasks : login[t].pc \in {"issue", "mail", "compare"} => login[t].id \in A!Ids
    /\ \A t \in Tasks : login[t].pc = "issue" =>
          /\ Fresh(login[t].id)
          /\ \A k \in Tasks \ {t} : login[k].id # login[t].id

(* Attempts are comparisons, and an open challenge led to no session.      *)
GuessesCount ==
    \A i \in A!Ids : /\ compared[i] = chal[i].attempts
                     /\ minted[i] <= 1
                     /\ chal[i].open => minted[i] = 0

(* What a sign-on is about to leave as the baseline is earned already.     *)
ContextEarned(t) ==
    /\ login[t].pc \in {"issue", "mail"} => login[t].presented = login[t].ctx.device
    /\ login[t].pc = "complete" =>
          /\ login[t].ctx.country # None =>
                \E ctx \in earned : ctx.country = login[t].ctx.country
          /\ login[t].ctx.device # None =>
                \E ctx \in earned \cup failedOpen : ctx.device = login[t].ctx.device
          /\ (login[t].ctx.device = None /\ login[t].presented # None) =>
                \E ctx \in earned \cup failedOpen : ctx.device = login[t].presented

ContextsEarned == \A t \in Tasks : ContextEarned(t)

ApprovalInv ==
    /\ A!TypeOK /\ ApprovalTyped /\ ChallengesFit /\ GuessesCount
    /\ A!BaselineIsEarned /\ ContextsEarned

-------------------------------------------------------------------------------
(* Accounts *)

Guarded == {"ban", "demote", "deleteSessions", "delete"}
SignIn == {"link", "linked", "promote", "mirror", "stamp", "mint"}

(* A row of users, and no two with one subject or one address.             *)
RowsFit ==
    /\ row \in [Users -> [here: BOOLEAN, role: Roles, banned: BOOLEAN, sub: Subs \cup {None},
                          email: Emails \cup {None}, verified: BOOLEAN]]
    /\ \A u \in Users : Here(u) \/ row[u] = Gone
    /\ \A u, v \in Users : row[u].sub = row[v].sub /\ row[u].sub # None => u = v
    /\ \A u, v \in Users : row[u].email = row[v].email /\ row[u].email # None => u = v
    /\ session \subseteq {u \in Users : Here(u)}

TasksFit ==
    /\ task \in [Tasks -> [pc: Pcs, op: {"none", "login", "admin"}, user: Users \cup {None},
                           sub: Subs \cup {None}, email: Emails \cup {None},
                           ok: BOOLEAN, admin: BOOLEAN]]
    /\ \A t \in Tasks : task[t].pc \in SignIn \cup Removing \cup {"release", "signOut"} =>
          task[t].user \in Users
    /\ \A t \in Tasks : task[t].pc \in {"release", "link", "provision"} => task[t].sub \in Subs
    /\ \A t \in Tasks : task[t].ok =>
          /\ task[t].sub \in Subs /\ task[t].email \in Emails
          /\ <<task[t].sub, task[t].email>> \in vouched

HistoryFits ==
    /\ vouched \subseteq (Subs \cup {None}) \X Emails
    /\ crossed \subseteq Users
    /\ excused \subseteq {"overlap", "mirror", "banned counted"}

(* A sign-on of a banned user is one the ban crossed.                      *)
SignInsAreCrossed ==
    \A t \in Tasks : task[t].pc \in SignIn /\ row[task[t].user].banned =>
        task[t].user \in crossed

(* What keeps an administrator, while nothing was excused: one removal at  *)
(* a time, which leaves another active administrator or an empty site; and *)
(* one first account at a time, which is alone unless there is one.        *)
SomeAdmin == \E u \in Users : ActiveAdmin(u)
AloneAt(u) == \A v \in Users : Here(v) => v = u

OneAtATime ==
    \A t, k \in Tasks : t # k =>
        /\ ~(task[t].pc \in Removing /\ task[k].pc \in Removing)
        /\ ~(task[t].pc = "promote" /\ task[k].pc = "promote")

RemovalsLeaveOne ==
    \A t \in Tasks, u \in Users : task[t].user = u =>
        /\ task[t].pc \in Guarded => OtherActiveAdmin(u)
        /\ task[t].pc = "leave" => OtherActiveAdmin(u) \/ AloneAt(u)

FirstIsAlone ==
    \A t \in Tasks, u \in Users : task[t].pc = "promote" /\ task[t].user = u =>
        SomeAdmin \/ (AloneAt(u) /\ ~row[u].banned)

AdminsInv == excused = {} => /\ OneAtATime /\ RemovalsLeaveOne /\ FirstIsAlone /\ AdminRemains

AccountsInv ==
    /\ RowsFit /\ TasksFit /\ HistoryFits
    /\ VerifiedWasVouched /\ BanEndsSessions /\ SignInsAreCrossed /\ AdminsInv

-------------------------------------------------------------------------------
(* Handles, step by step                                                   *)

LEMMA NamesApart ==
    /\ None \notin Users /\ None \notin Names /\ None # Deleted
    /\ Deleted \notin Users /\ Deleted \notin Names
BY HandlesAssumption DEF H!HandlesAssumption

LEMMA HandlesInit == H!Init => HandlesInv
<1> SUFFICES ASSUME H!Init PROVE HandlesInv
  OBVIOUS
<1> USE NamesApart DEF H!Init, H!Idle
<1>1. H!TypeOK
  BY DEF H!TypeOK
<1>2. FormsFit
  BY DEF FormsFit
<1>3. KeptForHolders /\ GivenIsReserved /\ H!GivenUpIsKept /\ H!NoLingeringReservation
  BY DEF KeptForHolders, GivenIsReserved, H!GivenUpIsKept, H!NoLingeringReservation
<1> QED
  BY <1>1, <1>2, <1>3 DEF HandlesInv

(* A request that ends leaves the others as they were.                     *)
LEMMA FormEnds ==
    ASSUME FormsFit, NEW t \in Tasks, H!Finish(t),
           \A k \in Tasks \ {t} : form[k].pc # "idle" =>
              /\ handle[form[k].user] = None <=> handle'[form[k].user] = None
    PROVE  FormsFit'
<1> USE NamesApart DEF FormsFit
<1>1. form' = [form EXCEPT ![t] = H!Idle]
  BY DEF H!Finish
<1>2. H!Idle \in [pc: {"idle", "insert", "welcome"}, user: Users \cup {None},
                  name: Names \cup {None}, was: Names \cup {None, Deleted}]
      /\ H!Idle.pc = "idle" /\ H!Idle.user = None
  BY DEF H!Idle
<1>3. /\ form'[t].pc = "idle" /\ form'[t].user = None
      /\ \A k \in Tasks \ {t} : form'[k] = form[k]
  BY <1>1, <1>2
<1>4. form' \in [Tasks -> [pc: {"idle", "insert", "welcome"}, user: Users \cup {None},
                           name: Names \cup {None}, was: Names \cup {None, Deleted}]]
  BY <1>1, <1>2
<1>5. \A k \in Tasks : form'[k].pc # "idle" =>
          k # t /\ form'[k] = form[k] /\ form'[k].user \in Users /\ form'[k].name \in Names
  BY <1>3
<1>6. ASSUME NEW k \in Tasks, form'[k].pc = "insert"
      PROVE  handle'[form'[k].user] = None /\ \A j \in Tasks \ {k} : form'[j].user # form'[k].user
  <2>1. k # t /\ form'[k] = form[k] /\ form[k].user \in Users
    BY <1>5, <1>6
  <2>2. handle'[form[k].user] = None
    BY <1>6, <2>1
  <2>3. ASSUME NEW j \in Tasks \ {k} PROVE form'[j].user # form'[k].user
    BY <1>3, <1>6, <2>1
  <2> QED
    BY <2>1, <2>2, <2>3
<1>7. ASSUME NEW k \in Tasks, form'[k].pc = "welcome" PROVE handle'[form'[k].user] # None
  BY <1>5, <1>7
<1> QED
  BY <1>4, <1>5, <1>6, <1>7

(* Requests are as they were, and nobody gets or loses a handle.           *)
LEMMA FormsStay ==
    ASSUME FormsFit, form' = form,
           \A u \in Users : handle[u] = None <=> handle'[u] = None
    PROVE  FormsFit'
BY DEF FormsFit

LEMMA FormStarts ==
    ASSUME FormsFit, NEW t \in Tasks, form[t].pc = "idle", handle' = handle,
           NEW r \in [pc: {"insert", "welcome"}, user: Users, name: Names,
                      was: Names \cup {None, Deleted}],
           form' = [form EXCEPT ![t] = r],
           r.pc = "insert" => handle[r.user] = None /\ \A k \in Tasks : form[k].user # r.user,
           r.pc = "welcome" => handle[r.user] # None
    PROVE  FormsFit'
<1> USE NamesApart DEF FormsFit
<1>1. /\ r \in [pc: {"idle", "insert", "welcome"}, user: Users \cup {None},
                name: Names \cup {None}, was: Names \cup {None, Deleted}]
      /\ r.pc \in {"insert", "welcome"} /\ r.user \in Users /\ r.name \in Names
  OBVIOUS
<1>2. form' = [form EXCEPT ![t] = r]
  OBVIOUS
<1>3. form'[t] = r /\ \A k \in Tasks \ {t} : form'[k] = form[k]
  BY <1>2
<1>4. form' \in [Tasks -> [pc: {"idle", "insert", "welcome"}, user: Users \cup {None},
                           name: Names \cup {None}, was: Names \cup {None, Deleted}]]
  BY <1>1, <1>2
<1>5. ASSUME NEW k \in Tasks, form'[k].pc = "insert"
      PROVE  handle[form'[k].user] = None /\ \A j \in Tasks \ {k} : form'[j].user # form'[k].user
  <2>1. CASE k = t
    BY <1>1, <1>3, <1>5, <2>1
  <2>2. CASE k # t
    <3>1. form'[k] = form[k] /\ handle[form[k].user] = None
      BY <1>3, <1>5, <2>2
    <3>2. ASSUME NEW j \in Tasks \ {k} PROVE form'[j].user # form[k].user
      <4>1. CASE j = t
        <5>1. r.pc = "insert" => form[k].user # r.user
          BY <2>2
        <5>2. r.pc = "welcome" => r.user # form[k].user
          BY <3>1
        <5> QED
          BY <1>1, <1>3, <4>1, <5>1, <5>2
      <4>2. CASE j # t
        BY <1>3, <1>5, <2>2, <4>2
      <4> QED
        BY <4>1, <4>2
    <3> QED
      BY <3>1, <3>2
  <2> QED
    BY <2>1, <2>2
<1>6. ASSUME NEW k \in Tasks
      PROVE  /\ form'[k].pc # "idle" => form'[k].user \in Users /\ form'[k].name \in Names
             /\ form'[k].pc = "welcome" => handle[form'[k].user] # None
  BY <1>1, <1>3
<1> QED
  BY <1>4, <1>5, <1>6

(* The transaction of change_username.                                     *)
LEMMA AssignKeeps ==
    ASSUME H!TypeOK, KeptForHolders, GivenIsReserved, H!GivenUpIsKept, H!NoLingeringReservation,
           NEW u \in Users, NEW new \in Names, NEW reserve \in BOOLEAN,
           handle[u] \in Names, H!Available(new, u), H!Assign(u, new, reserve),
           raced \subseteq raced', raced' \subseteq Names,
           reserve \/ u \notin confirmed \/ handle[u] = new \/ handle[u] \in raced'
    PROVE  /\ H!TypeOK' /\ KeptForHolders' /\ GivenIsReserved'
           /\ H!GivenUpIsKept' /\ H!NoLingeringReservation'
           /\ \A v \in Users : handle[v] = None <=> handle'[v] = None
<1> USE NamesApart
<1> PICK old \in Names : old = handle[u]
  OBVIOUS
<1>1. /\ handle \in [Users -> Names \cup {None, Deleted}]
      /\ \A v, w \in Users : handle[v] = handle[w] /\ handle[v] \in Names => v = w
      /\ confirmed \cup cooling \subseteq {v \in Users : handle[v] \in Names}
      /\ reserved \in [Names -> Users \cup {None}] /\ given \in [Names -> Users \cup {None}]
  BY DEF H!TypeOK
<1>2. /\ reserved' = [h \in Names |-> IF h = new /\ reserved[h] = u THEN None
                                      ELSE IF reserve /\ h = old /\ old # new THEN u
                                      ELSE reserved[h]]
      /\ handle' = [handle EXCEPT ![u] = new]
      /\ confirmed' = confirmed \cup {u}
      /\ cooling' = IF reserve THEN cooling \cup {u} ELSE cooling
      /\ given' = [h \in Names |-> IF h = new /\ given[h] = u THEN None
                                   ELSE IF h = old /\ old # new /\ u \in confirmed THEN u
                                   ELSE given[h]]
  BY DEF H!Assign, H!Reservations
<1>3. (\A v \in Users \ {u} : handle[v] # new) /\ reserved[new] \in {None, u}
  BY DEF H!Available, H!HeldByOther
<1>4. handle'[u] = new /\ (\A v \in Users \ {u} : handle'[v] = handle[v])
      /\ handle' \in [Users -> Names \cup {None, Deleted}]
  BY <1>1, <1>2
<1>5. \A v \in Users : handle[v] = None <=> handle'[v] = None
  BY <1>4
<1>6. /\ reserved' \in [Names -> Users \cup {None}] /\ given' \in [Names -> Users \cup {None}]
  <2>1. \A h \in Names : reserved[h] \in Users \cup {None} /\ given[h] \in Users \cup {None}
    BY <1>1
  <2> QED
    BY <1>2, <2>1
<1>7. H!TypeOK'
  <2>1. \A v, w \in Users : handle'[v] = handle'[w] /\ handle'[v] \in Names => v = w
    BY <1>1, <1>3, <1>4
  <2>2. confirmed' \cup cooling' \subseteq {v \in Users : handle'[v] \in Names}
    BY <1>1, <1>2, <1>4
  <2> QED
    BY <1>4, <1>6, <2>1, <2>2 DEF H!TypeOK
<1>8. \A h \in Names : /\ reserved'[h] \in {None, u, reserved[h]}
                       /\ given'[h] \in {None, u, given[h]}
  BY <1>2
<1>9. KeptForHolders'
  <2>1. ASSUME NEW h \in Names, reserved'[h] # None PROVE handle'[reserved'[h]] # None
    <3>1. CASE reserved'[h] = u
      BY <1>4, <3>1
    <3>2. CASE reserved'[h] # u
      <4>1. reserved'[h] = reserved[h] /\ reserved[h] # None /\ reserved[h] \in Users
        BY <1>1, <1>8, <2>1, <3>2
      <4> QED
        BY <1>5, <4>1 DEF KeptForHolders
    <3> QED
      BY <3>1, <3>2
  <2>2. ASSUME NEW h \in Names, given'[h] # None PROVE handle'[given'[h]] # None
    <3>1. CASE given'[h] = u
      BY <1>4, <3>1
    <3>2. CASE given'[h] # u
      <4>1. given'[h] = given[h] /\ given[h] # None /\ given[h] \in Users
        BY <1>1, <1>8, <2>2, <3>2
      <4> QED
        BY <1>5, <4>1 DEF KeptForHolders
    <3> QED
      BY <3>1, <3>2
  <2> QED
    BY <2>1, <2>2 DEF KeptForHolders
<1>10. H!NoLingeringReservation'
  <2>1. ASSUME NEW h \in Names, reserved'[h] # None PROVE handle'[reserved'[h]] # h
    <3>1. CASE reserved'[h] = u
      <4>1. h # new \/ reserved[h] # u
        BY <1>2, <2>1, <3>1
      <4>2. h # new
        BY <1>2, <1>3, <2>1, <3>1, <4>1
      <4> QED
        BY <1>4, <3>1, <4>2
    <3>2. CASE reserved'[h] # u
      <4>1. reserved'[h] = reserved[h] /\ reserved[h] # None /\ reserved[h] \in Users
        BY <1>1, <1>8, <2>1, <3>2
      <4>2. handle'[reserved[h]] = handle[reserved[h]]
        BY <1>4, <3>2, <4>1
      <4> QED
        BY <4>1, <4>2 DEF H!NoLingeringReservation
    <3> QED
      BY <3>1, <3>2
  <2> QED
    BY <2>1 DEF H!NoLingeringReservation
<1>11. GivenIsReserved'
  <2>1. ASSUME NEW h \in Names, given'[h] # None, h \notin raced' PROVE reserved'[h] = given'[h]
    <3>1. CASE h = old /\ old # new /\ u \in confirmed
      BY <1>2, <2>1, <3>1
    <3>2. CASE ~(h = old /\ old # new /\ u \in confirmed)
      <4>1. given'[h] = given[h] /\ ~(h = new /\ given[h] = u)
        BY <1>2, <2>1, <3>2
      <4>2. reserved[h] = given[h]
        BY <2>1, <4>1 DEF GivenIsReserved
      <4>3. h # new
        BY <1>3, <2>1, <4>1, <4>2
      <4>4. CASE reserve /\ h = old
        <5>1. u \notin confirmed
          BY <3>2, <4>3, <4>4
        <5>2. handle[given[h]] # h
          BY <2>1, <4>1, <4>2 DEF H!NoLingeringReservation
        <5>3. given[h] = u
          BY <1>1, <2>1, <4>1, <4>4 DEF H!GivenUpIsKept
        <5> QED
          BY <4>4, <5>2, <5>3
      <4>5. CASE ~(reserve /\ h = old)
        BY <1>2, <4>1, <4>2, <4>3, <4>5
      <4> QED
        BY <4>4, <4>5
    <3> QED
      BY <3>1, <3>2
  <2> QED
    BY <2>1 DEF GivenIsReserved
<1>12. H!GivenUpIsKept'
  <2>1. ASSUME NEW h \in Names, given'[h] # None, h \notin raced', NEW v \in Users, handle'[v] = h
        PROVE  v = given'[h]
    <3>1. CASE v = u
      <4>1. h = new /\ given'[h] = given[h] /\ given[h] # u
        BY <1>2, <1>4, <2>1, <3>1
      <4>2. reserved[h] = given[h]
        BY <2>1, <4>1 DEF GivenIsReserved
      <4> QED
        BY <1>3, <2>1, <4>1, <4>2
    <3>2. CASE v # u
      <4>1. handle[v] = h /\ h # old
        BY <1>1, <1>4, <2>1, <3>2
      <4>2. given'[h] = given[h]
        BY <1>2, <2>1, <4>1
      <4> QED
        BY <2>1, <4>1, <4>2 DEF H!GivenUpIsKept
    <3> QED
      BY <3>1, <3>2
  <2> QED
    BY <2>1 DEF H!GivenUpIsKept
<1> QED
  BY <1>5, <1>7, <1>9, <1>10, <1>11, <1>12

LEMMA PickKeeps ==
    ASSUME HandlesInv, NEW t \in Tasks,
           H!PickInsert(t) \/ \E u \in Users, h \in Names : H!PickCheck(t, u, h)
    PROVE  HandlesInv'
<1> USE NamesApart
<1>1. ASSUME NEW u \in Users, NEW h \in Names, H!PickCheck(t, u, h) PROVE HandlesInv'
  <2>1. /\ UNCHANGED <<handle, confirmed, cooling, reserved, given, raced>>
        /\ form[t].pc = "idle" /\ handle[u] = None /\ \A k \in Tasks : form[k].user # u
        /\ form' = [form EXCEPT ![t] = [H!Idle EXCEPT !.pc = "insert", !.user = u, !.name = h]]
    BY <1>1 DEF H!PickCheck
  <2> PICK r : r = [H!Idle EXCEPT !.pc = "insert", !.user = u, !.name = h]
    OBVIOUS
  <2>2. /\ r \in [pc: {"insert", "welcome"}, user: Users, name: Names,
                  was: Names \cup {None, Deleted}]
        /\ r.pc = "insert" /\ r.user = u
    BY DEF H!Idle
  <2>3. FormsFit'
    BY <2>1, <2>2, FormStarts DEF HandlesInv
  <2> QED
    BY <2>1, <2>3 DEF HandlesInv, H!TypeOK, KeptForHolders, GivenIsReserved,
                      H!GivenUpIsKept, H!NoLingeringReservation
<1>2. CASE H!PickInsert(t)
  <2> PICK u : u = form[t].user
    OBVIOUS
  <2> PICK h : h = form[t].name
    OBVIOUS
  <2>1. u \in Users /\ h \in Names /\ handle[u] = None
        /\ \A k \in Tasks \ {t} : form[k].user # u
    BY <1>2 DEF H!PickInsert, HandlesInv, FormsFit
  <2>2. H!Finish(t) /\ UNCHANGED <<confirmed, cooling, reserved, given>>
    BY <1>2 DEF H!PickInsert
  <2>3. CASE H!HeldByOther(h, u)
    <3>1. UNCHANGED <<handle, raced>>
      BY <1>2, <2>3 DEF H!PickInsert
    <3>2. FormsFit'
      BY <2>2, <3>1, FormEnds DEF HandlesInv
    <3> QED
      BY <2>2, <3>1, <3>2 DEF HandlesInv, H!TypeOK, KeptForHolders, GivenIsReserved,
                              H!GivenUpIsKept, H!NoLingeringReservation
  <2>4. CASE ~H!HeldByOther(h, u)
    <3>1. /\ handle' = [handle EXCEPT ![u] = h]
          /\ raced' = IF reserved[h] # None \/ given[h] # None THEN raced \cup {h} ELSE raced
          /\ \A v \in Users \ {u} : handle[v] # h
      BY <1>2, <2>4 DEF H!PickInsert, H!HeldByOther
    <3>2. /\ handle \in [Users -> Names \cup {None, Deleted}]
          /\ \A v, w \in Users : handle[v] = handle[w] /\ handle[v] \in Names => v = w
          /\ confirmed \cup cooling \subseteq {v \in Users : handle[v] \in Names}
          /\ reserved \in [Names -> Users \cup {None}] /\ given \in [Names -> Users \cup {None}]
          /\ raced \subseteq Names
      BY DEF HandlesInv, H!TypeOK
    <3>3. handle'[u] = h /\ (\A v \in Users \ {u} : handle'[v] = handle[v])
          /\ handle' \in [Users -> Names \cup {None, Deleted}]
      BY <2>1, <3>1, <3>2
    <3>4. FormsFit'
      BY <2>1, <2>2, <3>3, FormEnds DEF HandlesInv, FormsFit
    <3>5. H!TypeOK'
      <4>1. \A v, w \in Users : handle'[v] = handle'[w] /\ handle'[v] \in Names => v = w
        BY <3>1, <3>2, <3>3
      <4>2. confirmed' \cup cooling' \subseteq {v \in Users : handle'[v] \in Names}
        BY <2>1, <2>2, <3>2, <3>3
      <4>3. raced' \subseteq Names
        BY <2>1, <3>1, <3>2
      <4> QED
        BY <2>2, <3>2, <3>3, <4>1, <4>2, <4>3 DEF H!TypeOK
    <3>6. \A g \in Names : reserved[g] # u /\ given[g] # u
      BY <2>1 DEF HandlesInv, KeptForHolders
    <3>7. KeptForHolders'
      BY <2>2, <3>2, <3>3, <3>6 DEF HandlesInv, KeptForHolders
    <3>8. GivenIsReserved'
      BY <2>2, <3>1 DEF HandlesInv, GivenIsReserved
    <3>9. H!NoLingeringReservation'
      BY <2>2, <3>2, <3>3, <3>6 DEF HandlesInv, H!NoLingeringReservation
    <3>10. H!GivenUpIsKept'
      <4>1. ASSUME NEW g \in Names, given'[g] # None, g \notin raced', NEW v \in Users, handle'[v] = g
            PROVE  v = given'[g]
        <5>1. given[g] # None /\ g \notin raced /\ g # h
          BY <2>2, <3>1, <4>1
        <5>2. v # u /\ handle[v] = g
          BY <3>3, <4>1, <5>1
        <5> QED
          BY <2>2, <4>1, <5>1, <5>2 DEF HandlesInv, H!GivenUpIsKept
      <4> QED
        BY <4>1 DEF H!GivenUpIsKept
    <3> QED
      BY <3>4, <3>5, <3>7, <3>8, <3>9, <3>10 DEF HandlesInv
  <2> QED
    BY <2>3, <2>4
<1> QED
  BY <1>1, <1>2

LEMMA WelcomeKeeps ==
    ASSUME HandlesInv, NEW t \in Tasks,
           H!Welcome(t) \/ \E u \in Users, h \in Names : H!WelcomeOpen(t, u, h)
    PROVE  HandlesInv'
<1> USE NamesApart
<1>1. ASSUME NEW u \in Users, NEW h \in Names, H!WelcomeOpen(t, u, h) PROVE HandlesInv'
  <2>1. /\ UNCHANGED <<handle, confirmed, cooling, reserved, given, raced>>
        /\ form[t].pc = "idle" /\ handle[u] \in Names
        /\ form' = [form EXCEPT ![t] =
                      [pc |-> "welcome", user |-> u, name |-> h, was |-> handle[u]]]
    BY <1>1 DEF H!WelcomeOpen
  <2> PICK r : r = [pc |-> "welcome", user |-> u, name |-> h, was |-> handle[u]]
    OBVIOUS
  <2>3. /\ r \in [pc: {"insert", "welcome"}, user: Users, name: Names,
                  was: Names \cup {None, Deleted}]
        /\ r.pc = "welcome" /\ r.user = u
    BY <2>1
  <2>2. FormsFit'
    BY <2>1, <2>3, FormStarts DEF HandlesInv
  <2> QED
    BY <2>1, <2>2 DEF HandlesInv, H!TypeOK, KeptForHolders, GivenIsReserved,
                      H!GivenUpIsKept, H!NoLingeringReservation
<1>2. CASE H!Welcome(t)
  <2> PICK u : u = form[t].user
    OBVIOUS
  <2> PICK h : h = form[t].name
    OBVIOUS
  <2>1. u \in Users /\ h \in Names /\ handle[u] # None /\ handle[u] \in Names \cup {None, Deleted}
    BY <1>2 DEF H!Welcome, HandlesInv, FormsFit, H!TypeOK
  <2>2. H!Finish(t)
    BY <1>2 DEF H!Welcome
  <2>3. CASE UNCHANGED <<handle, confirmed, cooling, reserved, given, raced>>
    <3>1. FormsFit'
      BY <2>2, <2>3, FormEnds DEF HandlesInv
    <3> QED
      BY <2>3, <3>1 DEF HandlesInv, H!TypeOK, KeptForHolders, GivenIsReserved,
                        H!GivenUpIsKept, H!NoLingeringReservation
  <2>4. CASE /\ handle[u] # Deleted /\ confirmed' = confirmed \cup {u}
             /\ UNCHANGED <<handle, cooling, reserved, given, raced>>
    <3>1. FormsFit'
      BY <2>2, <2>4, FormEnds DEF HandlesInv
    <3>2. H!TypeOK'
      BY <2>1, <2>4 DEF HandlesInv, H!TypeOK
    <3> QED
      BY <2>4, <3>1, <3>2 DEF HandlesInv, KeptForHolders, GivenIsReserved,
                              H!GivenUpIsKept, H!NoLingeringReservation
  <2>5. CASE /\ handle[u] # Deleted /\ H!Available(h, u) /\ H!Assign(u, h, FALSE)
             /\ raced' = IF u \in confirmed /\ handle[u] # h THEN raced \cup {handle[u]} ELSE raced
    <3>1. handle[u] \in Names /\ raced \subseteq Names
      BY <2>1, <2>5 DEF HandlesInv, H!TypeOK
    <3>2. /\ raced \subseteq raced' /\ raced' \subseteq Names
          /\ u \notin confirmed \/ handle[u] = h \/ handle[u] \in raced'
      BY <2>5, <3>1
    <3>3. /\ H!TypeOK' /\ KeptForHolders' /\ GivenIsReserved'
          /\ H!GivenUpIsKept' /\ H!NoLingeringReservation'
          /\ \A v \in Users : handle[v] = None <=> handle'[v] = None
      BY <2>1, <2>5, <3>1, <3>2, AssignKeeps DEF HandlesInv
    <3>4. FormsFit'
      BY <2>2, <3>3, FormEnds DEF HandlesInv, FormsFit
    <3> QED
      BY <3>3, <3>4 DEF HandlesInv
  <2> QED
    BY <1>2, <2>3, <2>4, <2>5 DEF H!Welcome
<1> QED
  BY <1>1, <1>2

LEMMA SettingsKeep ==
    ASSUME HandlesInv, NEW u \in Users, NEW h \in Names, NEW admin \in BOOLEAN,
           H!SettingsChange(u, h, admin)
    PROVE  HandlesInv'
<1>1. /\ u \in confirmed /\ H!Available(h, u) /\ H!Assign(u, h, TRUE)
      /\ UNCHANGED <<form, raced>>
  BY DEF H!SettingsChange
<1>2. handle[u] \in Names /\ raced \subseteq Names
  BY <1>1 DEF HandlesInv, H!TypeOK
<1>3. /\ H!TypeOK' /\ KeptForHolders' /\ GivenIsReserved'
      /\ H!GivenUpIsKept' /\ H!NoLingeringReservation'
      /\ \A v \in Users : handle[v] = None <=> handle'[v] = None
  BY <1>1, <1>2, AssignKeeps DEF HandlesInv
<1>4. FormsFit'
  BY <1>1, <1>3, FormsStay DEF HandlesInv
<1> QED
  BY <1>3, <1>4 DEF HandlesInv

LEMMA HandleTimeKeeps ==
    ASSUME HandlesInv,
           \/ \E u \in Users : H!CoolOff(u) \/ H!Delete(u)
           \/ \E h \in Names : H!Expire(h)
    PROVE  HandlesInv'
<1> USE NamesApart
<1>1. ASSUME NEW u \in Users, H!CoolOff(u) PROVE HandlesInv'
  <2>1. UNCHANGED <<handle, confirmed, reserved, form, given, raced>> /\ cooling' \subseteq cooling
    BY <1>1 DEF H!CoolOff
  <2>2. FormsFit'
    BY <2>1, FormsStay DEF HandlesInv
  <2> QED
    BY <2>1, <2>2 DEF HandlesInv, H!TypeOK, KeptForHolders, GivenIsReserved,
                      H!GivenUpIsKept, H!NoLingeringReservation
<1>2. ASSUME NEW u \in Users, H!Delete(u) PROVE HandlesInv'
  <2>1. /\ handle[u] \in Names /\ handle' = [handle EXCEPT ![u] = Deleted]
        /\ confirmed' = confirmed \ {u} /\ cooling' = cooling \ {u}
        /\ UNCHANGED <<reserved, form, given, raced>>
    BY <1>2 DEF H!Delete
  <2>2. handle \in [Users -> Names \cup {None, Deleted}]
    BY DEF HandlesInv, H!TypeOK
  <2>3. handle'[u] = Deleted /\ (\A v \in Users \ {u} : handle'[v] = handle[v])
        /\ handle' \in [Users -> Names \cup {None, Deleted}]
    BY <2>1, <2>2
  <2>4. \A v \in Users : handle[v] = None <=> handle'[v] = None
    BY <2>1, <2>3
  <2>5. FormsFit'
    BY <2>1, <2>4, FormsStay DEF HandlesInv
  <2>6. H!TypeOK'
    BY <2>1, <2>3 DEF HandlesInv, H!TypeOK
  <2>7. reserved \in [Names -> Users \cup {None}] /\ given \in [Names -> Users \cup {None}]
    BY DEF HandlesInv, H!TypeOK
  <2>8. KeptForHolders' /\ GivenIsReserved'
    BY <2>1, <2>4, <2>7 DEF HandlesInv, KeptForHolders, GivenIsReserved
  <2>9. H!GivenUpIsKept' /\ H!NoLingeringReservation'
    BY <2>1, <2>3, <2>7 DEF HandlesInv, H!GivenUpIsKept, H!NoLingeringReservation
  <2> QED
    BY <2>5, <2>6, <2>8, <2>9 DEF HandlesInv
<1>3. ASSUME NEW h \in Names, H!Expire(h) PROVE HandlesInv'
  <2>1. /\ reserved' = [reserved EXCEPT ![h] = None] /\ given' = [given EXCEPT ![h] = None]
        /\ UNCHANGED <<handle, confirmed, cooling, form, raced>>
    BY <1>3 DEF H!Expire
  <2>2. reserved \in [Names -> Users \cup {None}] /\ given \in [Names -> Users \cup {None}]
    BY DEF HandlesInv, H!TypeOK
  <2>3. /\ reserved' \in [Names -> Users \cup {None}] /\ given' \in [Names -> Users \cup {None}]
        /\ reserved'[h] = None /\ given'[h] = None
        /\ \A g \in Names \ {h} : reserved'[g] = reserved[g] /\ given'[g] = given[g]
    BY <2>1, <2>2
  <2>4. FormsFit'
    BY <2>1, FormsStay DEF HandlesInv
  <2>5. H!TypeOK'
    BY <2>1, <2>3 DEF HandlesInv, H!TypeOK
  <2>6. KeptForHolders' /\ GivenIsReserved'
    BY <2>1, <2>3 DEF HandlesInv, KeptForHolders, GivenIsReserved
  <2>7. H!GivenUpIsKept' /\ H!NoLingeringReservation'
    BY <2>1, <2>3 DEF HandlesInv, H!GivenUpIsKept, H!NoLingeringReservation
  <2> QED
    BY <2>4, <2>5, <2>6, <2>7 DEF HandlesInv
<1> QED
  BY <1>1, <1>2, <1>3

LEMMA HandlesStep == HandlesInv /\ [H!Next]_names => HandlesInv'
<1> SUFFICES ASSUME HandlesInv, [H!Next]_names PROVE HandlesInv'
  OBVIOUS
<1>1. CASE UNCHANGED names
  <2>1. UNCHANGED <<handle, confirmed, cooling, reserved, form, given, raced>>
    BY <1>1 DEF names
  <2>2. FormsFit'
    BY <2>1, FormsStay DEF HandlesInv
  <2> QED
    BY <2>1, <2>2 DEF HandlesInv, H!TypeOK, KeptForHolders, GivenIsReserved,
                      H!GivenUpIsKept, H!NoLingeringReservation
<1>2. CASE H!Next
  BY <1>2, PickKeeps, WelcomeKeeps, SettingsKeep, HandleTimeKeeps DEF H!Next
<1> QED
  BY <1>1, <1>2

-------------------------------------------------------------------------------
(* The approval of a sign-on, step by step                                 *)

LoginRecord == [pc: {"idle", "issue", "mail", "compare", "complete"}, ctx: A!Context,
                presented: Devices \cup {None}, id: 0..MaxApprovals, right: BOOLEAN,
                attempt: 0..MaxAttempts]
ChalRecord == [open: BOOLEAN, expired: BOOLEAN, attempts: 0..MaxAttempts, ctx: A!Context]

LEMMA ApprovalBounds ==
    /\ None \notin Devices /\ None \notin Countries
    /\ MaxAttempts \in Nat \ {0} /\ MaxApprovals \in Nat /\ MaxTries \in Nat /\ MaxFaults \in Nat
BY ApprovalAssumption DEF A!ApprovalAssumption

LEMMA IdleTyped ==
    /\ A!Idle \in LoginRecord /\ A!Idle.pc = "idle" /\ A!Idle.id = 0
    /\ A!NoChal \in ChalRecord /\ A!NoChal.open = FALSE /\ A!NoChal.attempts = 0
    /\ A!Nowhere \in A!Context /\ A!Nowhere.country = None /\ A!Nowhere.device = None
<1> USE ApprovalBounds
<1>1. 0 \in 0..MaxApprovals /\ 0 \in 0..MaxAttempts
  OBVIOUS
<1>2. A!Nowhere \in A!Context /\ A!Nowhere.country = None /\ A!Nowhere.device = None
  BY DEF A!Nowhere, A!Context
<1> QED
  BY <1>1, <1>2 DEF A!NoChal, A!Idle, ChalRecord, LoginRecord

LEMMA ApprovalInit == A!Init => ApprovalInv
<1> SUFFICES ASSUME A!Init PROVE ApprovalInv
  OBVIOUS
<1> USE ApprovalBounds DEF A!Init, A!Ids
<1>1. A!NoChal \in ChalRecord /\ A!Idle \in LoginRecord /\ A!Idle.pc = "idle" /\ A!Idle.id = 0
      /\ A!NoChal.open = FALSE /\ A!NoChal.attempts = 0
  BY IdleTyped
<1>2. /\ chal \in [A!Ids -> ChalRecord] /\ login \in [Tasks -> LoginRecord]
      /\ \A t \in Tasks : login[t].pc = "idle" /\ login[t].id = 0
      /\ \A i \in A!Ids : ~chal[i].open /\ chal[i].attempts = 0
  BY <1>1
<1>3. A!TypeOK
  BY <1>2 DEF A!TypeOK, ChalRecord, LoginRecord
<1>4. ApprovalTyped
  BY DEF ApprovalTyped
<1>5. ChallengesFit /\ GuessesCount
  BY <1>2, SMTT(60) DEF ChallengesFit, GuessesCount, Fresh
<1>6. A!BaselineIsEarned /\ ContextsEarned
  BY <1>2 DEF A!BaselineIsEarned, ContextsEarned, ContextEarned
<1> QED
  BY <1>3, <1>4, <1>5, <1>6 DEF ApprovalInv

(* One request moves on.                                                   *)
LEMMA LoginMoves ==
    ASSUME ApprovalInv, NEW t \in Tasks, NEW r \in LoginRecord, login' = [login EXCEPT ![t] = r]
    PROVE  /\ login' \in [Tasks -> LoginRecord] /\ login'[t] = r
           /\ \A k \in Tasks \ {t} : login'[k] = login[k]
BY DEF ApprovalInv, A!TypeOK, LoginRecord

LEMMA LoginTyped ==
    ASSUME ApprovalInv, NEW t \in Tasks
    PROVE  /\ login[t] \in LoginRecord /\ login[t].id \in Nat
           /\ login[t].ctx \in A!Context /\ login[t].presented \in Devices \cup {None}
BY DEF ApprovalInv, A!TypeOK, LoginRecord

(* What is earned stays so.                                                *)
LEMMA ContextsStay ==
    ASSUME ContextsEarned, earned \subseteq earned', failedOpen \subseteq failedOpen',
           NEW t \in Tasks, \A k \in Tasks \ {t} : login'[k] = login[k], ContextEarned(t)'
    PROVE  ContextsEarned'
<1>1. ASSUME NEW k \in Tasks \ {t} PROVE ContextEarned(k)'
  BY <1>1 DEF ContextsEarned, ContextEarned
<1> QED
  BY <1>1 DEF ContextsEarned

LEMMA BaselineStays ==
    ASSUME A!BaselineIsEarned, earned \subseteq earned', failedOpen \subseteq failedOpen',
           known' = known, country' = country
    PROVE  A!BaselineIsEarned'
BY DEF A!BaselineIsEarned

(* A step that ends a request, or takes it on under the challenge it has,  *)
(* and leaves the challenges as they are or closes some.                   *)
LEMMA ChallengesStay ==
    ASSUME ApprovalInv, UNCHANGED <<nextChal, compared, minted>>,
           \A i \in A!Ids : /\ chal'[i].attempts = chal[i].attempts
                            /\ chal'[i].open => chal[i].open,
           \A k \in Tasks : \/ login'[k] = login[k]
                            \/ /\ login'[k].pc \in {"idle", "complete"}
                               /\ login'[k].id \in {0, login[k].id}
    PROVE  ChallengesFit' /\ GuessesCount'
<1> USE ApprovalBounds
<1>1. nextChal \in Nat \ {0}
  BY DEF ApprovalInv, ApprovalTyped
<1>2. \A k \in Tasks : login'[k].id < nextChal
  BY <1>1 DEF ApprovalInv, ChallengesFit
<1>3. \A i \in A!Ids : Fresh(i) => Fresh(i)'
  BY DEF Fresh
<1>4. ASSUME NEW k \in Tasks, login'[k].pc = "issue"
      PROVE  /\ \E i \in A!Ids : i = login'[k].id /\ Fresh(i)'
             /\ \A j \in Tasks \ {k} : login'[j].id # login'[k].id
  <2>1. login'[k] = login[k] /\ login[k].id \in A!Ids /\ Fresh(login[k].id)
        /\ \A j \in Tasks \ {k} : login[j].id # login[k].id
    BY <1>4 DEF ApprovalInv, ChallengesFit
  <2> PICK i \in A!Ids : i = login[k].id
    BY <2>1
  <2>2. Fresh(i)'
    BY <2>1 DEF Fresh
  <2>3. login[k].id # 0
    BY <2>1 DEF A!Ids
  <2> QED
    BY <2>1, <2>2, <2>3
<1>5. \A k \in Tasks : login'[k].pc \in {"issue", "mail", "compare"} => login'[k].id \in A!Ids
  BY DEF ApprovalInv, ChallengesFit
<1>6. ChallengesFit'
  <2>1. \A i \in A!Ids : i >= nextChal' => Fresh(i)'
    BY <1>3 DEF ApprovalInv, ChallengesFit
  <2> QED
    BY <1>2, <1>4, <1>5, <2>1 DEF ChallengesFit, Fresh
<1> QED
  BY <1>6 DEF ApprovalInv, GuessesCount

LEMMA GuardKeeps ==
    ASSUME ApprovalInv, NEW t \in Tasks, NEW ctx \in A!Context, A!Guard(t, ctx)
    PROVE  ApprovalInv'
<1> USE ApprovalBounds
<1> PICK clear : clear = [A!Idle EXCEPT !.pc = "complete", !.ctx = ctx, !.presented = ctx.device]
  OBVIOUS
<1> PICK issue : issue = [clear EXCEPT !.pc = "issue", !.id = nextChal]
  OBVIOUS
<1>1. /\ clear \in LoginRecord /\ clear.pc = "complete" /\ clear.id = 0
      /\ clear.ctx = ctx /\ clear.presented = ctx.device
  <2>1. A!Idle \in LoginRecord /\ A!Idle.id = 0
    BY IdleTyped
  <2>2. ctx.device \in Devices \cup {None}
    BY DEF A!Context
  <2> QED
    BY <2>1, <2>2 DEF LoginRecord
<1>2. nextChal \in A!Ids /\ nextChal \in 1..MaxApprovals /\ nextChal' = nextChal + 1
      /\ UNCHANGED <<known, country, chal, compared, minted, failedOpen>>
  BY DEF A!Guard, A!Ids
<1>3. /\ issue \in LoginRecord /\ issue.pc = "issue" /\ issue.id = nextChal
      /\ issue.ctx = ctx /\ issue.presented = ctx.device
  <2>1. nextChal \in 0..MaxApprovals
    BY <1>2
  <2> QED
    BY <1>1, <2>1 DEF LoginRecord
<1>4. \/ login' = [login EXCEPT ![t] = clear] /\ earned' = earned \cup {ctx}
      \/ login' = [login EXCEPT ![t] = issue] /\ earned' = earned
  BY DEF A!Guard
<1>5. PICK r \in LoginRecord :
        /\ login' = [login EXCEPT ![t] = r]
        /\ r.ctx = ctx /\ r.presented = ctx.device
        /\ \/ r.pc = "complete" /\ r.id = 0 /\ earned' = earned \cup {ctx}
           \/ r.pc = "issue" /\ r.id = nextChal /\ earned' = earned
  BY <1>1, <1>3, <1>4
<1>6. /\ login' \in [Tasks -> LoginRecord] /\ login'[t] = r
      /\ \A k \in Tasks \ {t} : login'[k] = login[k]
  BY <1>5, LoginMoves
<1>7. A!TypeOK' /\ ApprovalTyped'
  BY <1>2, <1>5, <1>6 DEF ApprovalInv, A!TypeOK, ApprovalTyped, LoginRecord
<1>8. ChallengesFit'
  <2>1. \A k \in Tasks \ {t} : login'[k].id < nextChal /\ login'[k].id \in Nat
    BY <1>6, LoginTyped DEF ApprovalInv, ChallengesFit
  <2>2. \A k \in Tasks : login'[k].id < nextChal'
    BY <1>2, <1>5, <1>6, <2>1
  <2>3. \A i \in A!Ids : i >= nextChal' => Fresh(i)'
    BY <1>2 DEF ApprovalInv, ChallengesFit, Fresh, A!Ids
  <2>4. \A k \in Tasks : login'[k].pc \in {"issue", "mail", "compare"} => login'[k].id \in A!Ids
    BY <1>2, <1>5, <1>6 DEF ApprovalInv, ChallengesFit
  <2>5. ASSUME NEW k \in Tasks, login'[k].pc = "issue"
        PROVE  /\ \E i \in A!Ids : i = login'[k].id /\ Fresh(i)'
               /\ \A j \in Tasks \ {k} : login'[j].id # login'[k].id
    <3>1. CASE k = t
      <4>1. login'[k].id = nextChal
        BY <1>5, <1>6, <2>5, <3>1
      <4>2. Fresh(nextChal)
        BY <1>2 DEF ApprovalInv, ChallengesFit
      <4> PICK i \in A!Ids : i = nextChal
        BY <1>2
      <4>3. Fresh(i)'
        BY <1>2, <4>2 DEF Fresh
      <4> QED
        BY <1>2, <2>1, <3>1, <4>1, <4>3
    <3>2. CASE k # t
      <4>1. login'[k] = login[k] /\ login[k].id \in A!Ids /\ Fresh(login[k].id)
            /\ \A j \in Tasks \ {k} : login[j].id # login[k].id
        BY <1>6, <2>5, <3>2 DEF ApprovalInv, ChallengesFit
      <4> PICK i \in A!Ids : i = login[k].id
        BY <4>1
      <4>2. Fresh(i)'
        BY <1>2, <4>1 DEF Fresh
      <4>3. login'[t].id # login[k].id
        BY <1>2, <1>5, <1>6, <2>1, <3>2, <4>1 DEF A!Ids
      <4> QED
        BY <1>6, <4>1, <4>2, <4>3
    <3> QED
      BY <3>1, <3>2
  <2> QED
    BY <2>2, <2>3, <2>4, <2>5 DEF ChallengesFit, Fresh
<1>9. GuessesCount' /\ A!BaselineIsEarned'
  BY <1>2, <1>5, BaselineStays DEF ApprovalInv, GuessesCount
<1>10. ContextEarned(t)'
  BY <1>5, <1>6 DEF ContextEarned
<1>11. ContextsEarned'
  BY <1>2, <1>5, <1>6, <1>10, ContextsStay DEF ApprovalInv
<1> QED
  BY <1>7, <1>8, <1>9, <1>11 DEF ApprovalInv

(* A sign-on whose code did not go out.                                    *)
LEMMA FailOpenKeeps ==
    ASSUME ApprovalInv, NEW t \in Tasks, login[t].pc \in {"issue", "mail"}, A!FailOpen(t),
           UNCHANGED <<known, country, earned>>
    PROVE  /\ login' \in [Tasks -> LoginRecord]
           /\ login'[t].pc = "complete" /\ login'[t].id = 0
           /\ \A k \in Tasks \ {t} : login'[k] = login[k]
           /\ failedOpen' \subseteq A!Context
           /\ ContextsEarned' /\ A!BaselineIsEarned'
<1> PICK r : r = [login[t] EXCEPT !.pc = "complete", !.ctx = A!Nowhere, !.id = 0]
  OBVIOUS
<1>1. login[t] \in LoginRecord /\ login[t].ctx \in A!Context /\ A!Nowhere \in A!Context
      /\ A!Nowhere.country = None /\ A!Nowhere.device = None
  BY LoginTyped, IdleTyped
<1>2. /\ r \in LoginRecord /\ r.pc = "complete" /\ r.id = 0 /\ r.ctx = A!Nowhere
      /\ r.presented = login[t].presented
  <2>1. 0 \in 0..MaxApprovals
    BY ApprovalBounds
  <2> QED
    BY <1>1, <2>1 DEF LoginRecord
<1>3. login' = [login EXCEPT ![t] = r] /\ failedOpen' = failedOpen \cup {login[t].ctx}
  BY DEF A!FailOpen, A!Unblessed, ApprovalInv, A!TypeOK
<1>4. /\ login' \in [Tasks -> LoginRecord] /\ login'[t] = r
      /\ \A k \in Tasks \ {t} : login'[k] = login[k]
  BY <1>2, <1>3, LoginMoves
<1>5. login[t].presented = login[t].ctx.device
  BY DEF ApprovalInv, ContextsEarned, ContextEarned
<1>6. ContextEarned(t)'
  BY <1>1, <1>2, <1>3, <1>4, <1>5 DEF ContextEarned
<1>7. ContextsEarned' /\ A!BaselineIsEarned'
  BY <1>3, <1>4, <1>6, ContextsStay, BaselineStays DEF ApprovalInv
<1> QED
  BY <1>1, <1>2, <1>3, <1>4, <1>7 DEF ApprovalInv, A!TypeOK

LEMMA FinishKeeps ==
    ASSUME ApprovalInv, NEW t \in Tasks, A!Finish(t)
    PROVE  /\ login' \in [Tasks -> LoginRecord]
           /\ login'[t].pc = "idle" /\ login'[t].id = 0
           /\ \A k \in Tasks \ {t} : login'[k] = login[k]
<1> PICK r : r = A!Idle
  OBVIOUS
<1>1. r \in LoginRecord /\ login' = [login EXCEPT ![t] = r] /\ r.pc = "idle" /\ r.id = 0
  BY IdleTyped DEF A!Finish
<1> QED
  BY <1>1, LoginMoves

LEMMA ChalTyped ==
    ASSUME ApprovalInv
    PROVE  /\ chal \in [A!Ids -> ChalRecord]
           /\ \A i \in A!Ids : /\ chal[i] \in ChalRecord /\ chal[i].ctx \in A!Context
                               /\ chal[i].attempts \in 0..MaxAttempts
<1>1. chal \in [A!Ids -> ChalRecord]
  BY DEF ApprovalInv, A!TypeOK, ChalRecord
<1> QED
  BY <1>1 DEF ChalRecord

LEMMA SpendKeeps ==
    ASSUME ApprovalInv, NEW i \in A!Ids, chal' = [chal EXCEPT ![i].open = FALSE]
    PROVE  /\ chal' \in [A!Ids -> ChalRecord] /\ ~chal'[i].open
           /\ \A j \in A!Ids : /\ chal'[j].attempts = chal[j].attempts
                               /\ chal'[j].open => chal[j].open
<1> PICK c : c = [chal[i] EXCEPT !.open = FALSE]
  OBVIOUS
<1>1. c \in ChalRecord /\ c.open = FALSE /\ c.attempts = chal[i].attempts
  BY ChalTyped DEF ChalRecord
<1>2. chal' = [chal EXCEPT ![i] = c]
  BY ChalTyped
<1>3. chal'[i] = c /\ (\A j \in A!Ids \ {i} : chal'[j] = chal[j]) /\ chal' \in [A!Ids -> ChalRecord]
  BY <1>1, <1>2, ChalTyped
<1> QED
  BY <1>1, <1>3

LEMMA IssueKeeps ==
    ASSUME ApprovalInv, NEW t \in Tasks, A!Issue(t)
    PROVE  ApprovalInv'
<1> USE ApprovalBounds
<1> PICK i : i = login[t].id
  OBVIOUS
<1>1. /\ login[t].pc = "issue" /\ i \in A!Ids /\ i < nextChal /\ Fresh(i)
      /\ \A k \in Tasks \ {t} : login[k].id # i
      /\ UNCHANGED <<known, country, nextChal, compared, minted, earned>>
  BY DEF A!Issue, ApprovalInv, ChallengesFit
<1>2. CASE A!FailOpen(t) /\ chal' = chal
  <2>1. /\ login' \in [Tasks -> LoginRecord]
        /\ login'[t].pc = "complete" /\ login'[t].id = 0
        /\ \A k \in Tasks \ {t} : login'[k] = login[k]
        /\ failedOpen' \subseteq A!Context
        /\ ContextsEarned' /\ A!BaselineIsEarned'
    BY <1>1, <1>2, FailOpenKeeps
  <2>2. ChallengesFit' /\ GuessesCount'
    BY <1>1, <1>2, <2>1, ChallengesStay
  <2>3. A!TypeOK' /\ ApprovalTyped'
    BY <1>1, <1>2, <2>1 DEF ApprovalInv, A!TypeOK, ApprovalTyped, LoginRecord
  <2> QED
    BY <2>1, <2>2, <2>3 DEF ApprovalInv
<1>3. CASE /\ chal' = [chal EXCEPT ![i] = [A!NoChal EXCEPT !.open = TRUE, !.ctx = login[t].ctx]]
           /\ login' = [login EXCEPT ![t].pc = "mail"]
           /\ failedOpen' = failedOpen
  <2> PICK c : c = [A!NoChal EXCEPT !.open = TRUE, !.ctx = login[t].ctx]
    OBVIOUS
  <2> PICK r : r = [login[t] EXCEPT !.pc = "mail"]
    OBVIOUS
  <2>1. c \in ChalRecord /\ c.attempts = 0
    <3>1. A!NoChal \in ChalRecord /\ A!NoChal.attempts = 0 /\ login[t].ctx \in A!Context
      BY IdleTyped, LoginTyped
    <3> QED
      BY <3>1 DEF ChalRecord
  <2>2. /\ r \in LoginRecord /\ r.pc = "mail" /\ r.id = i
        /\ r.ctx = login[t].ctx /\ r.presented = login[t].presented
    BY LoginTyped DEF LoginRecord
  <2>3. login' = [login EXCEPT ![t] = r]
    BY <1>3 DEF ApprovalInv, A!TypeOK
  <2>4. /\ login' \in [Tasks -> LoginRecord] /\ login'[t] = r
        /\ \A k \in Tasks \ {t} : login'[k] = login[k]
    BY <2>2, <2>3, LoginMoves
  <2>5. /\ chal' \in [A!Ids -> ChalRecord] /\ chal'[i] = c
        /\ \A j \in A!Ids \ {i} : chal'[j] = chal[j]
    BY <1>1, <1>3, <2>1, ChalTyped
  <2>6. A!TypeOK' /\ ApprovalTyped'
    BY <1>1, <1>3, <2>4, <2>5
       DEF ApprovalInv, A!TypeOK, ApprovalTyped, LoginRecord, ChalRecord
  <2>7. GuessesCount'
    BY <1>1, <2>1, <2>5 DEF ApprovalInv, GuessesCount, Fresh
  <2>8. ChallengesFit'
    <3>1. \A j \in A!Ids \ {i} : Fresh(j) => Fresh(j)'
      BY <1>1, <2>5 DEF Fresh
    <3>2. \A j \in A!Ids : j >= nextChal' => Fresh(j)'
      BY <1>1, <3>1 DEF ApprovalInv, ChallengesFit, ApprovalTyped, A!Ids
    <3>3. \A k \in Tasks : login'[k].id = login[k].id
      BY <2>2, <2>4
    <3>4. \A k \in Tasks : login'[k].pc \in {"issue", "mail", "compare"} => login'[k].id \in A!Ids
      BY <1>1, <2>2, <2>4 DEF ApprovalInv, ChallengesFit
    <3>5. ASSUME NEW k \in Tasks, login'[k].pc = "issue"
          PROVE  /\ \E j \in A!Ids : j = login'[k].id /\ Fresh(j)'
                 /\ \A j \in Tasks \ {k} : login'[j].id # login'[k].id
      <4>1. k # t /\ login[k].pc = "issue"
        BY <2>2, <2>4, <3>5
      <4> PICK j \in A!Ids : j = login[k].id
        BY <4>1 DEF ApprovalInv, ChallengesFit
      <4>2. Fresh(j) /\ j # i /\ \A l \in Tasks \ {k} : login[l].id # j
        BY <1>1, <4>1 DEF ApprovalInv, ChallengesFit
      <4> QED
        BY <3>1, <3>3, <4>2
    <3>6. \A k \in Tasks : login'[k].id < nextChal'
      BY <1>1, <3>3 DEF ApprovalInv, ChallengesFit
    <3> QED
      BY <3>2, <3>4, <3>5, <3>6 DEF ChallengesFit, Fresh
  <2>9. ContextEarned(t)'
    BY <1>1, <2>2, <2>4 DEF ApprovalInv, ContextsEarned, ContextEarned
  <2>10. ContextsEarned' /\ A!BaselineIsEarned'
    BY <1>1, <1>3, <2>4, <2>9, ContextsStay, BaselineStays DEF ApprovalInv
  <2> QED
    BY <2>6, <2>7, <2>8, <2>10 DEF ApprovalInv
<1> QED
  BY <1>2, <1>3 DEF A!Issue

LEMMA MailKeeps ==
    ASSUME ApprovalInv, NEW t \in Tasks, A!Mail(t)
    PROVE  ApprovalInv'
<1> PICK i : i = login[t].id
  OBVIOUS
<1>1. /\ login[t].pc = "mail" /\ i \in A!Ids
      /\ UNCHANGED <<known, country, nextChal, compared, minted, earned>>
  BY DEF A!Mail, ApprovalInv, ChallengesFit
<1>2. CASE A!Finish(t) /\ UNCHANGED <<chal, failedOpen>>
  <2>1. /\ login' \in [Tasks -> LoginRecord]
        /\ login'[t].pc = "idle" /\ login'[t].id = 0
        /\ \A k \in Tasks \ {t} : login'[k] = login[k]
    BY <1>2, FinishKeeps
  <2>2. ChallengesFit' /\ GuessesCount'
    BY <1>1, <1>2, <2>1, ChallengesStay
  <2>3. A!TypeOK' /\ ApprovalTyped'
    BY <1>1, <1>2, <2>1 DEF ApprovalInv, A!TypeOK, ApprovalTyped, LoginRecord
  <2>4. ContextEarned(t)'
    BY <2>1 DEF ContextEarned
  <2>5. ContextsEarned' /\ A!BaselineIsEarned'
    BY <1>1, <1>2, <2>1, <2>4, ContextsStay, BaselineStays DEF ApprovalInv
  <2> QED
    BY <2>2, <2>3, <2>5 DEF ApprovalInv
<1>3. CASE A!FailOpen(t) /\ chal' = [chal EXCEPT ![i].open = FALSE]
  <2>1. /\ login' \in [Tasks -> LoginRecord]
        /\ login'[t].pc = "complete" /\ login'[t].id = 0
        /\ \A k \in Tasks \ {t} : login'[k] = login[k]
        /\ failedOpen' \subseteq A!Context
        /\ ContextsEarned' /\ A!BaselineIsEarned'
    BY <1>1, <1>3, FailOpenKeeps
  <2>2. /\ chal' \in [A!Ids -> ChalRecord]
        /\ \A j \in A!Ids : /\ chal'[j].attempts = chal[j].attempts
                            /\ chal'[j].open => chal[j].open
    BY <1>1, <1>3, SpendKeeps
  <2>3. ChallengesFit' /\ GuessesCount'
    BY <1>1, <2>1, <2>2, ChallengesStay
  <2>4. A!TypeOK' /\ ApprovalTyped'
    BY <1>1, <2>1, <2>2 DEF ApprovalInv, A!TypeOK, ApprovalTyped, LoginRecord, ChalRecord
  <2> QED
    BY <2>1, <2>3, <2>4 DEF ApprovalInv
<1> QED
  BY <1>2, <1>3 DEF A!Mail

LEMMA SubmitKeeps ==
    ASSUME ApprovalInv, NEW t \in Tasks, NEW i \in A!Ids, NEW right \in BOOLEAN,
           NEW d \in Devices \cup {None}, A!Submit(t, i, right, d)
    PROVE  ApprovalInv'
<1> USE ApprovalBounds
<1>1. /\ chal[i].open /\ chal[i].attempts < MaxAttempts
      /\ chal' = [chal EXCEPT ![i].attempts = @ + 1]
      /\ compared' = [compared EXCEPT ![i] = @ + 1]
      /\ UNCHANGED <<known, country, nextChal, minted, earned, failedOpen>>
  BY DEF A!Submit, A!Claimable
<1> PICK n \in 1..MaxAttempts : n = chal[i].attempts + 1
  BY <1>1, ChalTyped
<1> PICK c : c = [chal[i] EXCEPT !.attempts = n]
  OBVIOUS
<1> PICK r : r = [A!Idle EXCEPT !.pc = "compare", !.presented = d, !.id = i,
                                !.right = right, !.attempt = chal[i].attempts + 1]
  OBVIOUS
<1>2. c \in ChalRecord /\ c.attempts = n /\ c.open = chal[i].open
  BY ChalTyped DEF ChalRecord
<1>3. r \in LoginRecord /\ r.pc = "compare" /\ r.id = i
  <2>1. i \in 0..MaxApprovals /\ n \in 0..MaxAttempts
    BY DEF A!Ids
  <2>2. r = [A!Idle EXCEPT !.pc = "compare", !.presented = d, !.id = i,
                           !.right = right, !.attempt = n]
    OBVIOUS
  <2> QED
    BY <2>1, <2>2, IdleTyped DEF LoginRecord
<1>4. login' = [login EXCEPT ![t] = r]
  BY DEF A!Submit
<1>5. /\ login' \in [Tasks -> LoginRecord] /\ login'[t] = r
      /\ \A k \in Tasks \ {t} : login'[k] = login[k]
  BY <1>3, <1>4, LoginMoves
<1>6. chal' = [chal EXCEPT ![i] = c]
  BY <1>1, ChalTyped
<1>7. /\ chal' \in [A!Ids -> ChalRecord] /\ chal'[i] = c
      /\ \A j \in A!Ids \ {i} : chal'[j] = chal[j]
  BY <1>2, <1>6, ChalTyped
<1>8. /\ compared' \in [A!Ids -> Nat] /\ compared'[i] = compared[i] + 1
      /\ \A j \in A!Ids \ {i} : compared'[j] = compared[j]
  BY <1>1 DEF ApprovalInv, ApprovalTyped
<1>9. A!TypeOK' /\ ApprovalTyped'
  BY <1>1, <1>5, <1>7, <1>8
     DEF ApprovalInv, A!TypeOK, ApprovalTyped, LoginRecord, ChalRecord
<1>10. GuessesCount'
  BY <1>1, <1>2, <1>7, <1>8 DEF ApprovalInv, GuessesCount
<1>11. ~Fresh(i) /\ i < nextChal
  BY <1>1 DEF Fresh, ApprovalInv, ChallengesFit, ApprovalTyped, A!Ids
<1>12. ChallengesFit'
  <2>1. \A j \in A!Ids \ {i} : Fresh(j) => Fresh(j)'
    BY <1>1, <1>7, <1>8 DEF Fresh
  <2>2. \A j \in A!Ids : j >= nextChal' => Fresh(j)'
    BY <1>1, <1>11, <2>1 DEF ApprovalInv, ChallengesFit
  <2>3. \A k \in Tasks : login'[k].id < nextChal'
    <3>1. login'[t].id = i /\ nextChal' = nextChal
      BY <1>1, <1>3, <1>5
    <3>2. ASSUME NEW k \in Tasks \ {t}
          PROVE  login'[k].id < nextChal
      BY <1>5 DEF ApprovalInv, ChallengesFit
    <3> QED
      BY <1>11, <3>1, <3>2
  <2>4. \A k \in Tasks : login'[k].pc \in {"issue", "mail", "compare"} => login'[k].id \in A!Ids
    BY <1>3, <1>5 DEF ApprovalInv, ChallengesFit
  <2>5. ASSUME NEW k \in Tasks, login'[k].pc = "issue"
        PROVE  /\ \E j \in A!Ids : j = login'[k].id /\ Fresh(j)'
               /\ \A j \in Tasks \ {k} : login'[j].id # login'[k].id
    <3>1. k # t /\ login'[k] = login[k]
      BY <1>3, <1>5, <2>5
    <3> PICK j \in A!Ids : j = login[k].id
      BY <2>5, <3>1 DEF ApprovalInv, ChallengesFit
    <3>2. Fresh(j) /\ \A l \in Tasks \ {k} : login[l].id # j
      BY <2>5, <3>1 DEF ApprovalInv, ChallengesFit
    <3>3. j # i
      BY <1>11, <3>2
    <3> QED
      BY <1>3, <1>5, <2>1, <3>1, <3>2, <3>3
  <2> QED
    BY <2>2, <2>3, <2>4, <2>5 DEF ChallengesFit, Fresh
<1>13. ContextEarned(t)'
  BY <1>3, <1>5 DEF ContextEarned
<1>14. ContextsEarned' /\ A!BaselineIsEarned'
  BY <1>1, <1>5, <1>13, ContextsStay, BaselineStays DEF ApprovalInv
<1> QED
  BY <1>9, <1>10, <1>12, <1>14 DEF ApprovalInv

LEMMA RightCodeKeeps ==
    ASSUME ApprovalInv, NEW t \in Tasks, NEW i \in A!Ids, login[t].id = i, chal[i].open,
           chal' = [chal EXCEPT ![i].open = FALSE],
           login' = [login EXCEPT ![t].pc = "complete", ![t].ctx = chal[i].ctx],
           minted' = [minted EXCEPT ![i] = @ + 1],
           earned' = earned \cup {chal[i].ctx,
               [chal[i].ctx EXCEPT !.device = IF @ = None THEN login[t].presented ELSE @]},
           UNCHANGED <<known, country, nextChal, compared, failedOpen>>
    PROVE  ApprovalInv'
<1> USE ApprovalBounds
<1> PICK ctx : ctx = chal[i].ctx
  OBVIOUS
<1> PICK shown : shown = login[t].presented
  OBVIOUS
<1> PICK full : full = [ctx EXCEPT !.device = IF ctx.device = None THEN shown ELSE ctx.device]
  OBVIOUS
<1> PICK r : r = [login[t] EXCEPT !.pc = "complete", !.ctx = ctx]
  OBVIOUS
<1>1. /\ ctx \in A!Context /\ shown \in Devices \cup {None}
      /\ full \in A!Context /\ (ctx.device = None => full.device = shown)
  <2>1. ctx \in A!Context /\ shown \in Devices \cup {None}
    BY ChalTyped, LoginTyped
  <2> QED
    BY <2>1 DEF A!Context
<1>2. r \in LoginRecord /\ r.pc = "complete" /\ r.id = i /\ r.ctx = ctx /\ r.presented = shown
  BY <1>1, LoginTyped DEF LoginRecord
<1>3. login' = [login EXCEPT ![t] = r]
  BY DEF ApprovalInv, A!TypeOK
<1>4. /\ login' \in [Tasks -> LoginRecord] /\ login'[t] = r
      /\ \A k \in Tasks \ {t} : login'[k] = login[k]
  BY <1>2, <1>3, LoginMoves
<1>5. /\ chal' \in [A!Ids -> ChalRecord] /\ ~chal'[i].open
      /\ \A j \in A!Ids : /\ chal'[j].attempts = chal[j].attempts
                          /\ chal'[j].open => chal[j].open
  BY SpendKeeps
<1>6. /\ minted' \in [A!Ids -> Nat] /\ minted'[i] = minted[i] + 1
      /\ \A j \in A!Ids \ {i} : minted'[j] = minted[j]
  BY DEF ApprovalInv, ApprovalTyped
<1>7. earned' = earned \cup {ctx, full}
  OBVIOUS
<1>8. A!TypeOK' /\ ApprovalTyped'
  BY <1>1, <1>4, <1>5, <1>6, <1>7
     DEF ApprovalInv, A!TypeOK, ApprovalTyped, LoginRecord, ChalRecord
<1>9. GuessesCount'
  <2>1. minted[i] = 0
    BY DEF ApprovalInv, GuessesCount
  <2> QED
    BY <1>5, <1>6, <2>1 DEF ApprovalInv, GuessesCount
<1>10. ChallengesFit'
  <2>1. ~Fresh(i) /\ \A j \in A!Ids \ {i} : Fresh(j) => Fresh(j)'
    BY <1>5, <1>6 DEF Fresh
  <2>2. \A j \in A!Ids : j >= nextChal' => Fresh(j)'
    BY <2>1 DEF ApprovalInv, ChallengesFit
  <2>3. \A k \in Tasks : login'[k].id = login[k].id
    BY <1>2, <1>4
  <2>4. \A k \in Tasks : login'[k].id < nextChal'
    BY <2>3 DEF ApprovalInv, ChallengesFit
  <2>5. \A k \in Tasks : login'[k].pc \in {"issue", "mail", "compare"} => login'[k].id \in A!Ids
    BY <1>2, <1>4 DEF ApprovalInv, ChallengesFit
  <2>6. ASSUME NEW k \in Tasks, login'[k].pc = "issue"
        PROVE  /\ \E j \in A!Ids : j = login'[k].id /\ Fresh(j)'
               /\ \A j \in Tasks \ {k} : login'[j].id # login'[k].id
    <3>1. k # t /\ login'[k] = login[k]
      BY <1>2, <1>4, <2>6
    <3> PICK j \in A!Ids : j = login[k].id
      BY <2>6, <3>1 DEF ApprovalInv, ChallengesFit
    <3>2. Fresh(j) /\ \A l \in Tasks \ {k} : login[l].id # j
      BY <2>6, <3>1 DEF ApprovalInv, ChallengesFit
    <3> QED
      BY <2>1, <2>3, <3>1, <3>2
  <2> QED
    <3>1. \A k \in Tasks : login'[k].pc = "issue" =>
             /\ ~chal'[login'[k].id].open /\ chal'[login'[k].id].attempts = 0
             /\ compared'[login'[k].id] = 0 /\ minted'[login'[k].id] = 0
             /\ \A j \in Tasks \ {k} : login'[j].id # login'[k].id
      <4> TAKE k \in Tasks
      <4> HAVE login'[k].pc = "issue"
      <4>1. PICK j \in A!Ids : j = login'[k].id /\ Fresh(j)'
        BY <2>6
      <4>2. ~chal'[j].open /\ chal'[j].attempts = 0 /\ compared'[j] = 0 /\ minted'[j] = 0
        BY <4>1, Zenon DEF Fresh
      <4>3. \A l \in Tasks \ {k} : login'[l].id # login'[k].id
        BY <2>6
      <4> QED
        BY <4>1, <4>2, <4>3, Zenon
    <3> QED
      BY <2>2, <2>4, <2>5, <3>1, Zenon DEF ChallengesFit, Fresh
<1>11. ContextEarned(t)'
  <2>1. ctx \in earned' /\ full \in earned'
    BY <1>7
  <2>2. /\ login'[t].pc = "complete" /\ login'[t].ctx = ctx /\ login'[t].presented = shown
    BY <1>2, <1>4
  <2>4. \E c \in earned' : c.country = ctx.country
    BY <2>1
  <2>5. \E c \in earned' \cup failedOpen' : c.device = ctx.device
    BY <2>1
  <2>6. ctx.device = None => \E c \in earned' \cup failedOpen' : c.device = shown
    BY <1>1, <2>1
  <2> QED
    BY <2>2, <2>4, <2>5, <2>6 DEF ContextEarned
<1>12. ContextsEarned' /\ A!BaselineIsEarned'
  BY <1>4, <1>7, <1>11, ContextsStay, BaselineStays DEF ApprovalInv
<1> QED
  BY <1>8, <1>9, <1>10, <1>12 DEF ApprovalInv

LEMMA CompareKeeps ==
    ASSUME ApprovalInv, NEW t \in Tasks, A!Compare(t)
    PROVE  ApprovalInv'
<1> PICK i : i = login[t].id
  OBVIOUS
<1>1. i \in A!Ids /\ UNCHANGED <<known, country, nextChal, compared, failedOpen>>
  BY DEF A!Compare, ApprovalInv, ChallengesFit
<1>2. CASE /\ chal[i].open /\ chal' = [chal EXCEPT ![i].open = FALSE]
           /\ login' = [login EXCEPT ![t].pc = "complete", ![t].ctx = chal[i].ctx]
           /\ minted' = [minted EXCEPT ![i] = @ + 1]
           /\ earned' = earned \cup {chal[i].ctx,
                  [chal[i].ctx EXCEPT !.device = IF @ = None THEN login[t].presented ELSE @]}
  BY <1>1, <1>2, RightCodeKeeps
<1>3. CASE /\ A!Finish(t) /\ UNCHANGED <<minted, earned>>
           /\ chal' = chal \/ chal' = [chal EXCEPT ![i].open = FALSE]
  <2>1. /\ login' \in [Tasks -> LoginRecord]
        /\ login'[t].pc = "idle" /\ login'[t].id = 0
        /\ \A k \in Tasks \ {t} : login'[k] = login[k]
    BY <1>3, FinishKeeps
  <2>2. /\ chal' \in [A!Ids -> ChalRecord]
        /\ \A j \in A!Ids : /\ chal'[j].attempts = chal[j].attempts
                            /\ chal'[j].open => chal[j].open
    <3>1. CASE chal' = chal
      BY <3>1, ChalTyped
    <3>2. CASE chal' = [chal EXCEPT ![i].open = FALSE]
      BY <1>1, <3>2, SpendKeeps
    <3> QED
      BY <1>3, <3>1, <3>2
  <2>3. ChallengesFit' /\ GuessesCount'
    BY <1>1, <1>3, <2>1, <2>2, ChallengesStay
  <2>4. A!TypeOK' /\ ApprovalTyped'
    BY <1>1, <1>3, <2>1, <2>2 DEF ApprovalInv, A!TypeOK, ApprovalTyped, LoginRecord, ChalRecord
  <2>5. ContextEarned(t)'
    BY <2>1 DEF ContextEarned
  <2>6. ContextsEarned' /\ A!BaselineIsEarned'
    BY <1>1, <1>3, <2>1, <2>5, ContextsStay, BaselineStays DEF ApprovalInv
  <2> QED
    BY <2>3, <2>4, <2>6 DEF ApprovalInv
<1> QED
  BY <1>2, <1>3 DEF A!Compare, A!Spend, A!Consumes

LEMMA CompleteKeeps ==
    ASSUME ApprovalInv, NEW t \in Tasks, A!Complete(t)
    PROVE  ApprovalInv'
<1> USE ApprovalBounds
<1> PICK ctx : ctx = login[t].ctx
  OBVIOUS
<1> PICK shown : shown = login[t].presented
  OBVIOUS
<1> PICK device : device = IF ctx.device = None THEN shown ELSE ctx.device
  OBVIOUS
<1>1. /\ login[t].pc = "complete"
      /\ country' = IF ctx.country = None THEN country ELSE ctx.country
      /\ \/ device # None /\ known' = known \cup {device} /\ earned' = earned
         \/ /\ device = None
            /\ \E new \in Devices \ known :
                 /\ known' = known \cup {new}
                 /\ earned' = earned \cup {[A!Nowhere EXCEPT !.device = new]}
      /\ A!Finish(t)
      /\ UNCHANGED <<chal, nextChal, compared, minted, failedOpen>>
  BY DEF A!Complete
<1>2. /\ ctx \in A!Context /\ ctx.device \in Devices \cup {None} /\ shown \in Devices \cup {None}
      /\ ctx.country \in Countries \cup {None} /\ device \in Devices \cup {None}
  <2>1. ctx \in A!Context /\ shown \in Devices \cup {None}
    BY LoginTyped
  <2> QED
    BY <2>1 DEF A!Context
<1>3. /\ login' \in [Tasks -> LoginRecord]
      /\ login'[t].pc = "idle" /\ login'[t].id = 0
      /\ \A k \in Tasks \ {t} : login'[k] = login[k]
  BY <1>1, FinishKeeps
<1>4. ChallengesFit' /\ GuessesCount'
  BY <1>1, <1>3, ChallengesStay
<1>5. /\ ctx.country # None => \E c \in earned : c.country = ctx.country
      /\ device # None => \E c \in earned \cup failedOpen : c.device = device
  BY <1>1 DEF ApprovalInv, ContextsEarned, ContextEarned
<1>6. PICK found \in Devices \cup {None} :
        /\ known' = known \cup {found} /\ found \in Devices
        /\ earned \subseteq earned' /\ earned' \subseteq A!Context
        /\ \E c \in earned' \cup failedOpen : c.device = found
  <2>1. CASE device # None /\ known' = known \cup {device} /\ earned' = earned
    BY <1>2, <1>5, <2>1 DEF ApprovalInv, A!TypeOK
  <2>2. ASSUME NEW new \in Devices \ known, known' = known \cup {new},
               earned' = earned \cup {[A!Nowhere EXCEPT !.device = new]}
        PROVE  /\ earned \subseteq earned' /\ earned' \subseteq A!Context
               /\ \E c \in earned' \cup failedOpen : c.device = new
    <3> PICK c : c = [A!Nowhere EXCEPT !.device = new]
      OBVIOUS
    <3>1. c \in A!Context /\ c.device = new
      BY IdleTyped DEF A!Context
    <3>2. earned' = earned \cup {c}
      BY <2>2
    <3> QED
      BY <3>1, <3>2 DEF ApprovalInv, A!TypeOK
  <2> QED
    BY <1>1, <2>1, <2>2
<1>7. country' \in Countries \cup {None} /\ known' \subseteq Devices
  BY <1>1, <1>2, <1>6 DEF ApprovalInv, A!TypeOK
<1>8. A!TypeOK' /\ ApprovalTyped'
  BY <1>1, <1>3, <1>6, <1>7 DEF ApprovalInv, A!TypeOK, ApprovalTyped, LoginRecord
<1>9. A!BaselineIsEarned'
  <2>1. country' # None => \E c \in earned' : c.country = country'
    BY <1>1, <1>5, <1>6 DEF ApprovalInv, A!BaselineIsEarned
  <2>2. \A d \in known' : \E c \in earned' \cup failedOpen' : c.device = d
    BY <1>1, <1>6 DEF ApprovalInv, A!BaselineIsEarned
  <2> QED
    BY <2>1, <2>2 DEF A!BaselineIsEarned
<1>10. ContextEarned(t)'
  BY <1>3 DEF ContextEarned
<1>11. ContextsEarned'
  BY <1>1, <1>3, <1>6, <1>10, ContextsStay DEF ApprovalInv
<1> QED
  BY <1>4, <1>8, <1>9, <1>11 DEF ApprovalInv

LEMMA ApprovalStep == ApprovalInv /\ [A!Next]_approval => ApprovalInv'
<1> SUFFICES ASSUME ApprovalInv, [A!Next]_approval PROVE ApprovalInv'
  OBVIOUS
<1>1. CASE /\ UNCHANGED <<known, country, nextChal, login, compared, minted, earned, failedOpen>>
           /\ chal' \in [A!Ids -> ChalRecord]
           /\ \A i \in A!Ids : /\ chal'[i].attempts = chal[i].attempts
                               /\ chal'[i].open => chal[i].open
  <2>1. ChallengesFit' /\ GuessesCount'
    BY <1>1, ChallengesStay
  <2>2. A!TypeOK' /\ ApprovalTyped'
    BY <1>1 DEF ApprovalInv, A!TypeOK, ApprovalTyped, LoginRecord, ChalRecord
  <2>3. ContextsEarned' /\ A!BaselineIsEarned'
    BY <1>1 DEF ApprovalInv, ContextsEarned, ContextEarned, A!BaselineIsEarned
  <2> QED
    BY <2>1, <2>2, <2>3 DEF ApprovalInv
<1>2. ASSUME NEW i \in A!Ids, A!Expire(i) PROVE ApprovalInv'
  <2> PICK c : c = [chal[i] EXCEPT !.expired = TRUE]
    OBVIOUS
  <2>1. c \in ChalRecord /\ c.attempts = chal[i].attempts /\ c.open = chal[i].open
    BY ChalTyped DEF ChalRecord
  <2>2. chal' = [chal EXCEPT ![i] = c]
    BY <1>2, ChalTyped DEF A!Expire
  <2>3. /\ chal'[i] = c /\ (\A j \in A!Ids \ {i} : chal'[j] = chal[j])
        /\ chal' \in [A!Ids -> ChalRecord]
    BY <2>1, <2>2, ChalTyped
  <2> QED
    BY <1>1, <1>2, <2>1, <2>3 DEF A!Expire
<1>3. CASE UNCHANGED approval
  BY <1>1, <1>3, ChalTyped DEF approval
<1>4. CASE A!Next
  BY <1>2, <1>4, GuardKeeps, IssueKeeps, MailKeeps, SubmitKeeps, CompareKeeps, CompleteKeeps
     DEF A!Next
<1> QED
  BY <1>3, <1>4

-------------------------------------------------------------------------------
(* Accounts, step by step                                                  *)

UserRow == [here: BOOLEAN, role: Roles, banned: BOOLEAN, sub: Subs \cup {None},
            email: Emails \cup {None}, verified: BOOLEAN]
TaskRecord == [pc: Pcs, op: {"none", "login", "admin"}, user: Users \cup {None},
               sub: Subs \cup {None}, email: Emails \cup {None},
               ok: BOOLEAN, admin: BOOLEAN]

LEMMA NoneIsNobody == None \notin Users /\ None \notin Subs /\ None \notin Emails
BY AccountsAssumption

LEMMA GoneTyped ==
    /\ Gone \in UserRow /\ Gone.here = FALSE /\ Gone.banned = FALSE /\ Gone.role = "user"
    /\ Gone.sub = None /\ Gone.email = None /\ Gone.verified = FALSE
BY DEF Gone, UserRow, Roles

LEMMA RequestIdle ==
    /\ Idle \in TaskRecord /\ Idle.pc = "idle" /\ ~Idle.ok
BY DEF Idle, TaskRecord, Pcs

LEMMA RowTyped ==
    ASSUME RowsFit
    PROVE  /\ row \in [Users -> UserRow]
           /\ \A u \in Users : row[u] \in UserRow
BY DEF RowsFit, UserRow

LEMMA TaskTyped ==
    ASSUME TasksFit
    PROVE  /\ task \in [Tasks -> TaskRecord]
           /\ \A t \in Tasks : task[t] \in TaskRecord
BY DEF TasksFit, TaskRecord

LEMMA SameRow ==
    ASSUME NEW p \in UserRow, NEW q \in UserRow, p.here = q.here, p.role = q.role,
           p.banned = q.banned, p.sub = q.sub, p.email = q.email, p.verified = q.verified
    PROVE  p = q
BY DEF UserRow

(* One row changes: its subject and its address are its own.               *)
LEMMA RowMoves ==
    ASSUME RowsFit, NEW u \in Users, NEW r \in UserRow, row' = [row EXCEPT ![u] = r],
           r.here \/ r = Gone,
           r.sub \in {None, row[u].sub} \/ BySub(r.sub) = {},
           r.email \in {None, row[u].email} \/ Owner(r.email) = {},
           session' \subseteq session \cup {u}, r.here \/ u \notin session'
    PROVE  /\ RowsFit' /\ row'[u] = r
           /\ \A v \in Users \ {u} : row'[v] = row[v]
<1>1. /\ row' \in [Users -> UserRow] /\ row'[u] = r
      /\ \A v \in Users \ {u} : row'[v] = row[v]
  BY RowTyped
<1>2. \A v \in Users : Here(v)' \/ row'[v] = Gone
  BY <1>1 DEF RowsFit, Here
<1>3. session' \subseteq {v \in Users : Here(v)'}
  BY <1>1 DEF RowsFit, Here
<1>4. ASSUME NEW v \in Users \ {u}
      PROVE  /\ row[v].sub = r.sub => r.sub = None
             /\ row[v].email = r.email => r.email = None
  <2>1. Here(v) \/ (row[v].sub = None /\ row[v].email = None)
    BY GoneTyped DEF RowsFit
  <2>4. row[v].sub = r.sub => r.sub = None
    <3>1. BySub(r.sub) = {} /\ row[v].sub = r.sub => ~Here(v)
      BY DEF BySub
    <3>2. r.sub = row[u].sub /\ row[v].sub = r.sub => r.sub = None
      BY DEF RowsFit
    <3> QED
      BY <2>1, <3>1, <3>2
  <2>5. row[v].email = r.email => r.email = None
    <3>1. Owner(r.email) = {} /\ r.email # None /\ row[v].email = r.email => ~Here(v)
      BY DEF Owner
    <3>2. r.email = row[u].email /\ row[v].email = r.email => r.email = None
      BY DEF RowsFit
    <3> QED
      BY <2>1, <3>1, <3>2
  <2> QED
    BY <2>4, <2>5
<1>5. \A v, w \in Users : row'[v].sub = row'[w].sub /\ row'[v].sub # None => v = w
  BY <1>1, <1>4 DEF RowsFit
<1>6. \A v, w \in Users : row'[v].email = row'[w].email /\ row'[v].email # None => v = w
  BY <1>1, <1>4 DEF RowsFit
<1> QED
  BY <1>1, <1>2, <1>3, <1>5, <1>6 DEF RowsFit, UserRow

(* One request moves.                                                      *)
LEMMA RequestMoves ==
    ASSUME TasksFit, vouched \subseteq vouched', NEW t \in Tasks, NEW r \in TaskRecord,
           task' = [task EXCEPT ![t] = r],
           r.pc \in SignIn \cup Removing \cup {"release", "signOut"} => r.user \in Users,
           r.pc \in {"release", "link", "provision"} => r.sub \in Subs,
           r.ok => /\ r.sub \in Subs /\ r.email \in Emails
                   /\ <<r.sub, r.email>> \in vouched'
    PROVE  /\ TasksFit' /\ task'[t] = r
           /\ \A k \in Tasks \ {t} : task'[k] = task[k]
<1>1. /\ task' \in [Tasks -> TaskRecord] /\ task'[t] = r
      /\ \A k \in Tasks \ {t} : task'[k] = task[k]
  BY TaskTyped
<1>2. \A k \in Tasks : task'[k].pc \in SignIn \cup Removing \cup {"release", "signOut"} =>
          task'[k].user \in Users
  BY <1>1 DEF TasksFit
<1>3. \A k \in Tasks : task'[k].pc \in {"release", "link", "provision"} => task'[k].sub \in Subs
  BY <1>1 DEF TasksFit
<1>4. \A k \in Tasks : task'[k].ok => /\ task'[k].sub \in Subs /\ task'[k].email \in Emails
                                      /\ <<task'[k].sub, task'[k].email>> \in vouched'
  BY <1>1 DEF TasksFit
<1> QED
  BY <1>1, <1>2, <1>3, <1>4 DEF TasksFit, TaskRecord

LEMMA RequestsStay ==
    ASSUME TasksFit, vouched \subseteq vouched', task' = task
    PROVE  TasksFit'
BY DEF TasksFit

(* A request that ends.                                                    *)
LEMMA RequestEnds ==
    ASSUME TasksFit, vouched \subseteq vouched', NEW t \in Tasks, Finish(t)
    PROVE  /\ TasksFit' /\ task'[t].pc = "idle"
           /\ \A k \in Tasks \ {t} : task'[k] = task[k]
<1> PICK r : r = Idle
  OBVIOUS
<1>1. r \in TaskRecord /\ r.pc = "idle" /\ ~r.ok /\ task' = [task EXCEPT ![t] = r]
  BY RequestIdle DEF Finish
<1> QED
  BY <1>1, RequestMoves DEF SignIn, Removing

(* A request that goes on to another step with what it knows.              *)
LEMMA RequestGoes ==
    ASSUME TasksFit, vouched \subseteq vouched', NEW t \in Tasks, NEW pc \in Pcs, Set(t, pc),
           pc \in SignIn \cup Removing \cup {"release", "signOut"} => task[t].user \in Users,
           pc \notin {"release", "link", "provision"}
    PROVE  /\ TasksFit' /\ task'[t].pc = pc /\ task'[t].user = task[t].user
           /\ \A k \in Tasks \ {t} : task'[k] = task[k]
<1> PICK r : r = [task[t] EXCEPT !.pc = pc]
  OBVIOUS
<1>1. /\ r \in TaskRecord /\ r.pc = pc /\ r.user = task[t].user /\ r.ok = task[t].ok
      /\ r.sub = task[t].sub /\ r.email = task[t].email
  BY TaskTyped DEF TaskRecord
<1>2. task' = [task EXCEPT ![t] = r]
  BY TaskTyped DEF Set
<1>3. r.ok => /\ r.sub \in Subs /\ r.email \in Emails /\ <<r.sub, r.email>> \in vouched'
  BY <1>1 DEF TasksFit
<1>4. TasksFit' /\ task'[t] = r /\ \A k \in Tasks \ {t} : task'[k] = task[k]
  BY <1>1, <1>2, <1>3, RequestMoves, ZenonT(60)
<1> QED
  BY <1>1, <1>4

(* An address stays vouched for.                                           *)
LEMMA VouchedStays ==
    ASSUME VerifiedWasVouched, vouched \subseteq vouched',
           \A u \in Users : row'[u].verified =>
              \/ row[u].verified /\ row'[u].email = row[u].email
              \/ \E s \in Subs \cup {None} : <<s, row'[u].email>> \in vouched'
    PROVE  VerifiedWasVouched'
BY DEF VerifiedWasVouched

(* Nobody is banned anew, and nobody signs in.                             *)
LEMMA BansStay ==
    ASSUME BanEndsSessions, SignInsAreCrossed, RowsFit, TasksFit,
           session' \subseteq session, crossed \subseteq crossed',
           \A u \in Users : row'[u].banned => row[u].banned,
           \A k \in Tasks : /\ task[k].pc = "signOut" =>
                                  task'[k].pc = "signOut" /\ task'[k].user = task[k].user
                            /\ task'[k].pc \in SignIn =>
                                  \/ task[k].pc \in SignIn /\ task'[k].user = task[k].user
                                  \/ task'[k].user \in Users /\ ~row'[task'[k].user].banned
    PROVE  BanEndsSessions' /\ SignInsAreCrossed'
<1>1. ASSUME NEW u \in session', row'[u].banned
      PROVE  u \in crossed' \/ \E k \in Tasks : task'[k].pc = "signOut" /\ task'[k].user = u
  <2>1. u \in session /\ u \in Users
    BY DEF RowsFit
  <2>2. u \in crossed \/ \E k \in Tasks : task[k].pc = "signOut" /\ task[k].user = u
    BY <1>1, <2>1 DEF BanEndsSessions
  <2> QED
    BY <2>2
<1>2. ASSUME NEW k \in Tasks, task'[k].pc \in SignIn, row'[task'[k].user].banned
      PROVE  task'[k].user \in crossed'
  <2>1. task[k].pc \in SignIn /\ task'[k].user = task[k].user
    BY <1>2
  <2>2. task[k].user \in Users
    BY <2>1 DEF TasksFit
  <2> QED
    BY <1>2, <2>1, <2>2 DEF SignInsAreCrossed
<1> QED
  BY <1>1, <1>2 DEF BanEndsSessions, SignInsAreCrossed

(* No administrator is lost, nobody comes or is banned, and no removal and *)
(* no first account begins.                                                *)
LEMMA AdminsStay ==
    ASSUME AdminsInv, RowsFit, TasksFit,
           excused' = {} => excused = {},
           excused' = {} => \A v \in Users : ActiveAdmin(v) => ActiveAdmin(v)',
           \A v \in Users : /\ Here(v)' => Here(v)
                            /\ row'[v].banned => row[v].banned,
           \A k \in Tasks :
              /\ task'[k].pc \in Guarded => task[k].pc \in Guarded
              /\ task'[k].pc = "leave" => task[k].pc = "leave"
              /\ task'[k].pc = "promote" <=> task[k].pc = "promote"
              /\ task'[k].pc \in Removing \cup {"promote"} => task'[k].user = task[k].user
    PROVE  AdminsInv'
<1> SUFFICES ASSUME excused' = {}
             PROVE  OneAtATime' /\ RemovalsLeaveOne' /\ FirstIsAlone' /\ AdminRemains'
  BY DEF AdminsInv
<1>1. /\ OneAtATime /\ RemovalsLeaveOne /\ FirstIsAlone /\ AdminRemains /\ excused = {}
      /\ \A v \in Users : ActiveAdmin(v) => ActiveAdmin(v)'
  BY DEF AdminsInv
<1>2. \A k \in Tasks : task'[k].pc \in Removing => task[k].pc \in Removing
  BY DEF Removing, Guarded
<1>3. OneAtATime'
  BY <1>1, <1>2 DEF OneAtATime
<1>4. ASSUME NEW u \in Users
      PROVE  /\ OtherActiveAdmin(u) => OtherActiveAdmin(u)'
             /\ AloneAt(u) => AloneAt(u)'
  BY <1>1 DEF OtherActiveAdmin, AloneAt
<1>5. SomeAdmin => SomeAdmin'
  BY <1>1 DEF SomeAdmin
<1>6. RemovalsLeaveOne'
  <2>1. ASSUME NEW k \in Tasks, NEW u \in Users, task'[k].user = u
        PROVE  /\ task'[k].pc \in Guarded => OtherActiveAdmin(u)'
               /\ task'[k].pc = "leave" => OtherActiveAdmin(u)' \/ AloneAt(u)'
    <3>1. CASE task'[k].pc \in Guarded
      <4>1. task[k].user = u /\ task[k].pc \in Guarded
        BY <2>1, <3>1 DEF Guarded, Removing
      <4> QED
        BY <1>1, <1>4, <3>1, <4>1 DEF RemovalsLeaveOne, Guarded
    <3>2. CASE task'[k].pc = "leave"
      <4>1. task[k].user = u /\ task[k].pc = "leave"
        BY <2>1, <3>2 DEF Removing
      <4> QED
        BY <1>1, <1>4, <3>2, <4>1 DEF RemovalsLeaveOne, Guarded
    <3> QED
      BY <3>1, <3>2
  <2> QED
    BY <2>1 DEF RemovalsLeaveOne
<1>7. FirstIsAlone'
  <2>1. ASSUME NEW k \in Tasks, NEW u \in Users, task'[k].pc = "promote", task'[k].user = u
        PROVE  SomeAdmin' \/ (AloneAt(u)' /\ ~row'[u].banned)
    <3>1. task[k].pc = "promote" /\ task[k].user = u
      BY <2>1
    <3> QED
      BY <1>1, <1>4, <1>5, <3>1 DEF FirstIsAlone
  <2> QED
    BY <2>1 DEF FirstIsAlone
<1>8. AdminRemains'
  <2>1. ASSUME \E u \in Users : Here(u)', ~Busy({"promote"})' PROVE SomeAdmin'
    <3>1. (\E u \in Users : Here(u)) /\ ~Busy({"promote"})
      BY <2>1 DEF Busy
    <3>2. SomeAdmin
      BY <1>1, <3>1 DEF AdminRemains, SomeAdmin
    <3> QED
      BY <1>5, <3>2
  <2> QED
    BY <2>1 DEF AdminRemains, SomeAdmin
<1> QED
  BY <1>3, <1>6, <1>7, <1>8

LEMMA AccountsGive == AccountsInv => AccountsHold
<1> SUFFICES ASSUME AccountsInv PROVE AccountsHold
  OBVIOUS
<1> USE NoneIsNobody
<1>1. ASSUME NEW s \in Subs PROVE Cardinality(BySub(s)) <= 1
  <2>1. \A u, v \in BySub(s) : u = v
    BY DEF BySub, AccountsInv, RowsFit
  <2>2. CASE BySub(s) = {}
    BY <2>2, FS_EmptySet
  <2>3. CASE BySub(s) # {}
    <3>1. PICK u : BySub(s) = {u}
      BY <2>1, <2>3
    <3> QED
      BY <3>1, FS_Singleton
  <2> QED
    BY <2>2, <2>3
<1>2. ASSUME NEW e \in Emails PROVE Cardinality(Owner(e)) <= 1
  <2>0. Owner(e) = {u \in Users : Here(u) /\ row[u].email = e}
    BY DEF Owner
  <2>1. \A u, v \in Owner(e) : u = v
    BY <2>0 DEF AccountsInv, RowsFit
  <2>2. CASE Owner(e) = {}
    BY <2>2, FS_EmptySet
  <2>3. CASE Owner(e) # {}
    <3>1. PICK u : Owner(e) = {u}
      BY <2>1, <2>3
    <3>2. Cardinality({u}) = 1
      BY FS_Singleton
    <3> QED
      BY <3>1, <3>2
  <2> QED
    BY <2>2, <2>3
<1>3. TypeOK
  BY <1>1, <1>2 DEF TypeOK, AccountsInv, RowsFit, TasksFit, HistoryFits
<1>4. AdminRemains
  BY DEF AccountsInv, AdminsInv, AdminRemains
<1> QED
  BY <1>3, <1>4 DEF AccountsHold, AccountsInv

LEMMA AccountsInit == Init => AccountsInv
<1> SUFFICES ASSUME Init PROVE AccountsInv
  OBVIOUS
<1>1. /\ \A t \in Tasks : task[t].pc = "idle" /\ ~task[t].ok
      /\ task \in [Tasks -> TaskRecord]
      /\ vouched = {} /\ crossed = {} /\ excused = {}
  BY RequestIdle DEF Init
<1>2. TasksFit /\ HistoryFits /\ SignInsAreCrossed
  BY <1>1 DEF TasksFit, HistoryFits, SignInsAreCrossed, TaskRecord, SignIn, Removing
<1>3. OneAtATime /\ RemovalsLeaveOne /\ FirstIsAlone
  BY <1>1 DEF OneAtATime, RemovalsLeaveOne, FirstIsAlone, Removing, Guarded
<1>4. CASE row = [u \in Users |-> Gone] /\ session = {}
  <2>1. \A u \in Users : row[u] = Gone /\ ~Here(u)
    BY <1>4, GoneTyped DEF Here
  <2>2. RowsFit
    BY <1>4, <2>1, GoneTyped DEF RowsFit, UserRow
  <2>3. VerifiedWasVouched /\ BanEndsSessions /\ AdminRemains
    BY <1>4, <2>1, GoneTyped DEF VerifiedWasVouched, BanEndsSessions, AdminRemains
  <2> QED
    BY <1>2, <1>3, <2>2, <2>3 DEF AccountsInv, AdminsInv
<1>5. CASE \E u, v \in Users : \E s \in [{u, v} -> Subs] :
             /\ u # v /\ s[u] # s[v]
             /\ row = Established(u, v, s)
             /\ session = {u, v}
  <2>1. PICK u \in Users, v \in Users : \E s \in [{u, v} -> Subs] :
             /\ u # v /\ s[u] # s[v]
             /\ row = Established(u, v, s)
             /\ session = {u, v}
    BY <1>5
  <2>2. PICK s \in [{u, v} -> Subs] :
             /\ u # v /\ s[u] # s[v]
             /\ row = Established(u, v, s)
             /\ session = {u, v}
    BY <2>1
  <2> DEFINE Founder(w) == [Gone EXCEPT !.here = TRUE, !.role = "admin", !.sub = s[w]]
  <2>3. \A w \in {u, v} : /\ Founder(w) \in UserRow /\ Founder(w).here /\ Founder(w).role = "admin"
                          /\ Founder(w).sub = s[w] /\ s[w] \in Subs
                          /\ Founder(w).email = None
                          /\ ~Founder(w).verified /\ ~Founder(w).banned
    BY GoneTyped DEF UserRow, Roles
  <2>4. row = [w \in Users |-> IF w \in {u, v} THEN Founder(w) ELSE Gone]
    BY <2>2 DEF Established
  <2> HIDE DEF Founder
  <2>5. /\ \A w \in Users \ {u, v} : row[w] = Gone
        /\ row[u] = Founder(u) /\ row[v] = Founder(v)
        /\ row \in [Users -> UserRow]
    BY <2>3, <2>4, GoneTyped
  <2>6. RowsFit
    <3>1. \A w \in Users : Here(w) \/ row[w] = Gone
      BY <2>3, <2>5 DEF Here
    <3>2. \A w \in Users : row[w].email = None
      BY <2>3, <2>5, GoneTyped
    <3>3. \A w, x \in Users : row[w].sub = row[x].sub /\ row[w].sub # None => w = x
      BY <2>2, <2>3, <2>5, GoneTyped
    <3>4. session \subseteq {w \in Users : Here(w)}
      BY <2>2, <2>3, <2>5 DEF Here
    <3> QED
      BY <2>5, <3>1, <3>2, <3>3, <3>4 DEF RowsFit, UserRow
  <2>7. VerifiedWasVouched
    BY <2>3, <2>5, GoneTyped DEF VerifiedWasVouched
  <2>8. BanEndsSessions
    BY <2>2, <2>3, <2>5 DEF BanEndsSessions
  <2>9. AdminRemains
    BY <2>3, <2>5 DEF AdminRemains, ActiveAdmin, IsAdmin, Here
  <2> QED
    BY <1>2, <1>3, <2>6, <2>7, <2>8, <2>9 DEF AccountsInv, AdminsInv
<1> QED
  BY <1>4, <1>5 DEF Init

-------------------------------------------------------------------------------
(* Signing on                                                              *)

(* A step of a sign-on that touches nobody's row.                          *)
LEMMA SignInMoves ==
    ASSUME AccountsInv, TasksFit', UNCHANGED <<row, crossed>>,
           excused \subseteq excused', excused' \subseteq {"overlap", "mirror", "banned counted"},
           session' \subseteq session,
           vouched \subseteq vouched', vouched' \subseteq (Subs \cup {None}) \X Emails,
           NEW t \in Tasks, \A k \in Tasks \ {t} : task'[k] = task[k],
           task[t].pc \notin {"signOut", "promote"},
           task'[t].pc \notin Removing \cup {"promote"},
           task'[t].pc \in SignIn =>
              \/ task[t].pc \in SignIn /\ task'[t].user = task[t].user
              \/ task'[t].user \in Users /\ ~row[task'[t].user].banned
    PROVE  AccountsInv'
<1>1. RowsFit'
  BY DEF AccountsInv, RowsFit, Here
<1>2. HistoryFits'
  BY DEF AccountsInv, HistoryFits
<1>3. VerifiedWasVouched'
  BY VouchedStays DEF AccountsInv
<1>4. BanEndsSessions' /\ SignInsAreCrossed'
  BY BansStay DEF AccountsInv
<1>5. AdminsInv'
  <2>1. \A v \in Users : (ActiveAdmin(v) => ActiveAdmin(v)') /\ (Here(v)' => Here(v))
    BY DEF ActiveAdmin, IsAdmin, Here
  <2>2. \A k \in Tasks :
              /\ task'[k].pc \in Guarded => task[k].pc \in Guarded
              /\ task'[k].pc = "leave" => task[k].pc = "leave"
              /\ task'[k].pc = "promote" <=> task[k].pc = "promote"
              /\ task'[k].pc \in Removing \cup {"promote"} => task'[k].user = task[k].user
    BY DEF Removing, Guarded
  <2> QED
    BY <2>1, <2>2, AdminsStay DEF AccountsInv
<1> QED
  BY <1>1, <1>2, <1>3, <1>4, <1>5 DEF AccountsInv

LEMMA ResolveKeeps ==
    ASSUME AccountsInv, NEW t \in Tasks, NEW s \in Subs, NEW e \in Emails \cup {None},
           NEW ok \in BOOLEAN, NEW admin \in BOOLEAN, LoginResolve(t, s, e, ok, admin)
    PROVE  AccountsInv'
<1>1. /\ task[t].pc = "idle" /\ (ok => e # None)
      /\ vouched' = IF ok THEN vouched \cup {<<s, e>>} ELSE vouched
      /\ UNCHANGED <<row, session, crossed, excused>>
  BY DEF LoginResolve
<1>2. PICK pc \in {"mirror", "release", "link", "provision"}, u \in Users \cup {None} :
        /\ task' = [task EXCEPT ![t] = [pc |-> pc, op |-> "login", user |-> u, sub |-> s,
                                        email |-> e, ok |-> ok, admin |-> admin]]
        /\ pc # "provision" => u \in Users /\ ~row[u].banned
  BY DEF LoginResolve, Resolve, BySub, Owner
<1> PICK r : r = [pc |-> pc, op |-> "login", user |-> u, sub |-> s,
                  email |-> e, ok |-> ok, admin |-> admin]
  OBVIOUS
<1>3. /\ r \in TaskRecord /\ r.pc = pc /\ r.user = u /\ r.sub = s /\ r.email = e /\ r.ok = ok
      /\ task' = [task EXCEPT ![t] = r]
  BY <1>2 DEF TaskRecord, Pcs
<1>4. vouched \subseteq vouched' /\ vouched' \subseteq (Subs \cup {None}) \X Emails
      /\ (ok => e \in Emails /\ <<s, e>> \in vouched')
  <2>1. vouched \subseteq (Subs \cup {None}) \X Emails
    BY DEF AccountsInv, HistoryFits
  <2>2. CASE ok
    <3>1. e \in Emails /\ <<s, e>> \in (Subs \cup {None}) \X Emails
      BY <1>1, <2>2
    <3> QED
      BY <1>1, <2>1, <2>2, <3>1
  <2>3. CASE ~ok
    BY <1>1, <2>1, <2>3
  <2> QED
    BY <2>2, <2>3
<1>5. /\ TasksFit' /\ task'[t] = r
      /\ \A k \in Tasks \ {t} : task'[k] = task[k]
  BY <1>2, <1>3, <1>4, RequestMoves, ZenonT(60) DEF AccountsInv, SignIn, Removing
<1>7. excused' = excused /\ excused' \subseteq {"overlap", "mirror", "banned counted"}
  BY <1>1 DEF AccountsInv, HistoryFits
<1>6. pc \notin Removing \cup {"promote"} /\ (pc \in SignIn => u \in Users /\ ~row[u].banned)
  BY <1>2 DEF Removing, SignIn
<1>8. /\ task'[t].pc \notin Removing \cup {"promote"} /\ task[t].pc \notin {"signOut", "promote"}
      /\ UNCHANGED <<row, crossed>> /\ session' \subseteq session
  BY <1>1, <1>3, <1>5, <1>6
<1>9. task'[t].pc \in SignIn => task'[t].user \in Users /\ ~row[task'[t].user].banned
  BY <1>3, <1>5, <1>6
<1>10. excused \subseteq excused' /\ TasksFit' /\ \A k \in Tasks \ {t} : task'[k] = task[k]
  BY <1>5, <1>7
<1>11. vouched \subseteq vouched' /\ vouched' \subseteq (Subs \cup {None}) \X Emails
  BY <1>4
<1>12. excused' \subseteq {"overlap", "mirror", "banned counted"}
  BY <1>7
<1> QED
  BY <1>8, <1>9, <1>10, <1>11, <1>12, SignInMoves

LEMMA LinkedKeeps ==
    ASSUME AccountsInv, NEW t \in Tasks, LoginLinked(t)
    PROVE  AccountsInv'
<1>1. /\ task[t].pc = "linked" /\ session' = session \ {task[t].user} /\ Set(t, "mirror")
      /\ UNCHANGED <<row, vouched, crossed, excused>>
  BY DEF LoginLinked
<1>2. "mirror" \in Pcs /\ task[t].user \in Users /\ task[t].pc \in SignIn
  BY <1>1 DEF Pcs, AccountsInv, TasksFit, SignIn
<1>3. /\ TasksFit' /\ task'[t].pc = "mirror" /\ task'[t].user = task[t].user
      /\ \A k \in Tasks \ {t} : task'[k] = task[k]
  BY <1>1, <1>2, RequestGoes DEF AccountsInv
<1>4. vouched \subseteq vouched' /\ vouched' \subseteq (Subs \cup {None}) \X Emails
  BY <1>1 DEF AccountsInv, HistoryFits
<1>5. excused' = excused /\ excused' \subseteq {"overlap", "mirror", "banned counted"}
  BY <1>1 DEF AccountsInv, HistoryFits
<1> QED
  BY <1>1, <1>2, <1>3, <1>4, <1>5, SignInMoves DEF Removing

(* A step of a sign-on that changes the row of its user, whom it neither   *)
(* bans nor removes.                                                       *)
LEMMA SignInWrites ==
    ASSUME AccountsInv, TasksFit', UNCHANGED <<session, vouched, crossed>>,
           NEW t \in Tasks, \A k \in Tasks \ {t} : task'[k] = task[k],
           task[t].pc \notin {"signOut", "promote"},
           task'[t].pc \notin Removing \cup {"promote"},
           task'[t].pc \in SignIn => task[t].pc \in SignIn /\ task'[t].user = task[t].user,
           NEW u \in Users, NEW r \in UserRow, row' = [row EXCEPT ![u] = r],
           r.here = row[u].here, r.banned = row[u].banned, r.here \/ r = Gone,
           r.sub \in {None, row[u].sub} \/ BySub(r.sub) = {},
           r.email \in {None, row[u].email},
           r.verified => \/ row[u].verified /\ r.email = row[u].email
                         \/ \E s \in Subs \cup {None} : <<s, r.email>> \in vouched,
           excused \subseteq excused', excused' \subseteq {"overlap", "mirror", "banned counted"},
           excused' = {} => r.role = row[u].role \/ r.role = "admin"
    PROVE  AccountsInv'
<1>1. session' \subseteq session \cup {u} /\ (r.here \/ u \notin session')
  BY DEF AccountsInv, RowsFit, Here
<1>2. /\ RowsFit' /\ row'[u] = r
      /\ \A v \in Users \ {u} : row'[v] = row[v]
  BY <1>1, RowMoves DEF AccountsInv
<1>3. HistoryFits'
  BY DEF AccountsInv, HistoryFits
<1>4. VerifiedWasVouched'
  <2>1. ASSUME NEW v \in Users, row'[v].verified
        PROVE  \/ row[v].verified /\ row'[v].email = row[v].email
               \/ \E s \in Subs \cup {None} : <<s, row'[v].email>> \in vouched'
    <3>1. CASE v = u
      <4>1. r.verified /\ row'[v].email = r.email /\ UNCHANGED vouched
        BY <1>2, <2>1, <3>1, ZenonT(60)
      <4> QED
        BY <3>1, <4>1
    <3>2. CASE v # u
      BY <1>2, <2>1, <3>2
    <3> QED
      BY <3>1, <3>2
  <2> QED
    BY <2>1, VouchedStays DEF AccountsInv
<1>5. \A v \in Users : row'[v].banned = row[v].banned /\ Here(v)' = Here(v)
  BY <1>2 DEF Here
<1>6. BanEndsSessions' /\ SignInsAreCrossed'
  BY <1>5, BansStay DEF AccountsInv
<1>7. excused' = {} => \A v \in Users : ActiveAdmin(v) => ActiveAdmin(v)'
  BY <1>2, <1>5 DEF ActiveAdmin, IsAdmin
<1>8. AdminsInv'
  <2>1. \A k \in Tasks :
              /\ task'[k].pc \in Guarded => task[k].pc \in Guarded
              /\ task'[k].pc = "leave" => task[k].pc = "leave"
              /\ task'[k].pc = "promote" <=> task[k].pc = "promote"
              /\ task'[k].pc \in Removing \cup {"promote"} => task'[k].user = task[k].user
    BY DEF Removing, Guarded
  <2>2. excused' = {} => excused = {}
    OBVIOUS
  <2> QED
    BY <1>5, <1>7, <2>1, <2>2, AdminsStay DEF AccountsInv
<1> QED
  BY <1>2, <1>3, <1>4, <1>6, <1>8 DEF AccountsInv

LEMMA ReleaseKeeps ==
    ASSUME AccountsInv, NEW t \in Tasks, LoginRelease(t)
    PROVE  AccountsInv'
<1> PICK u : u = task[t].user
  OBVIOUS
<1>1. /\ task[t].pc = "release" /\ UNCHANGED <<session, vouched, crossed, excused>>
      /\ row' = [row EXCEPT ![u].email = None, ![u].verified = FALSE]
      /\ task' = [task EXCEPT ![t].pc = "provision", ![t].user = None]
  BY DEF LoginRelease
<1>2. u \in Users /\ task[t] \in TaskRecord /\ row[u] \in UserRow
  BY <1>1, TaskTyped, RowTyped DEF AccountsInv, TasksFit
<1> PICK q : q = [row[u] EXCEPT !.email = None, !.verified = FALSE]
  OBVIOUS
<1> PICK r : r = [task[t] EXCEPT !.pc = "provision", !.user = None]
  OBVIOUS
<1>3. /\ q \in UserRow /\ q.here = row[u].here /\ q.banned = row[u].banned /\ q.sub = row[u].sub
      /\ q.email = None /\ q.verified = FALSE /\ q.role = row[u].role
  BY <1>2 DEF UserRow
<1>4. row' = [row EXCEPT ![u] = q]
  BY <1>1, RowTyped DEF AccountsInv
<1>5. q.here \/ q = Gone
  <2>1. CASE Here(u)
    BY <1>3, <2>1 DEF Here
  <2>2. CASE row[u] = Gone
    <3>1. /\ q.here = Gone.here /\ q.role = Gone.role /\ q.banned = Gone.banned
          /\ q.sub = Gone.sub /\ q.email = Gone.email /\ q.verified = Gone.verified
      BY <1>3, <2>2, GoneTyped
    <3>2. q = Gone
      BY <1>3, <3>1, GoneTyped, SameRow, Zenon
    <3> QED
      BY <3>2
  <2> QED
    BY <1>2, <2>1, <2>2 DEF AccountsInv, RowsFit
<1>6. /\ r \in TaskRecord /\ r.pc = "provision" /\ r.ok = task[t].ok
      /\ r.sub = task[t].sub /\ r.email = task[t].email
  BY <1>2 DEF TaskRecord, Pcs
<1>7. task' = [task EXCEPT ![t] = r]
  BY <1>1, TaskTyped DEF AccountsInv
<1>8. r.sub \in Subs
  BY <1>1, <1>6 DEF AccountsInv, TasksFit
<1>10. r.ok => /\ r.sub \in Subs /\ r.email \in Emails /\ <<r.sub, r.email>> \in vouched'
  BY <1>1, <1>6 DEF AccountsInv, TasksFit
<1>9. /\ TasksFit' /\ task'[t] = r
      /\ \A k \in Tasks \ {t} : task'[k] = task[k]
  BY <1>1, <1>6, <1>7, <1>8, <1>10, RequestMoves, ZenonT(60) DEF AccountsInv, SignIn, Removing
<1>11. task'[t].pc \notin Removing \cup {"promote"} /\ task'[t].pc \notin SignIn
  BY <1>6, <1>9 DEF Removing, SignIn
<1>12. excused' = excused /\ excused' \subseteq {"overlap", "mirror", "banned counted"}
  BY <1>1 DEF AccountsInv, HistoryFits
<1>13. task[t].pc \notin {"signOut", "promote"} /\ UNCHANGED <<session, vouched, crossed>>
  BY <1>1
<1>14. /\ q.sub \in {None, row[u].sub} \/ BySub(q.sub) = {}
       /\ q.email \in {None, row[u].email}
       /\ q.verified => \/ row[u].verified /\ q.email = row[u].email
                        \/ \E s \in Subs \cup {None} : <<s, q.email>> \in vouched
       /\ excused' = {} => q.role = row[u].role \/ q.role = "admin"
  BY <1>3
<1>15. task'[t].pc \in SignIn => task[t].pc \in SignIn /\ task'[t].user = task[t].user
  BY <1>11
<1> QED
  BY <1>2, <1>3, <1>4, <1>5, <1>9, <1>11, <1>12, <1>13, <1>14, <1>15, SignInWrites

LEMMA LinkKeeps ==
    ASSUME AccountsInv, NEW t \in Tasks, LoginLink(t)
    PROVE  AccountsInv'
<1> PICK u : u = task[t].user
  OBVIOUS
<1> PICK s : s = task[t].sub
  OBVIOUS
<1>1. /\ task[t].pc = "link" /\ UNCHANGED <<session, vouched, crossed, excused>>
      /\ \/ Linkable(u, s) /\ Keep(u, [row[u] EXCEPT !.sub = s]) /\ Set(t, "linked")
         \/ Finish(t) /\ row' = row
  BY DEF LoginLink
<1>2. u \in Users /\ s \in Subs /\ row[u] \in UserRow /\ task[t].pc \in SignIn
  BY <1>1, RowTyped DEF AccountsInv, TasksFit, SignIn
<1>3. CASE Linkable(u, s) /\ Keep(u, [row[u] EXCEPT !.sub = s]) /\ Set(t, "linked")
  <2> PICK q : q = [row[u] EXCEPT !.sub = s]
    OBVIOUS
  <2>1. /\ q \in UserRow /\ q.here = row[u].here /\ q.banned = row[u].banned /\ q.sub = s
        /\ q.email = row[u].email /\ q.verified = row[u].verified /\ q.role = row[u].role
    BY <1>2 DEF UserRow
  <2>2. row' = [row EXCEPT ![u] = q] /\ q.here /\ BySub(q.sub) = {}
    BY <1>3, <2>1 DEF Keep, Linkable, Here
  <2>3. "linked" \in Pcs
    BY DEF Pcs
  <2>4. /\ TasksFit' /\ task'[t].pc = "linked" /\ task'[t].user = task[t].user
        /\ \A k \in Tasks \ {t} : task'[k] = task[k]
    BY <1>1, <1>2, <1>3, <2>3, RequestGoes DEF AccountsInv
  <2>5. q.verified => \/ row[u].verified /\ q.email = row[u].email
                      \/ \E x \in Subs \cup {None} : <<x, q.email>> \in vouched
    BY <2>1
  <2> QED
    BY <1>1, <1>2, <2>1, <2>2, <2>4, <2>5, SignInWrites DEF AccountsInv, HistoryFits, SignIn, Removing
<1>4. CASE Finish(t) /\ row' = row
  <2>1. /\ TasksFit' /\ task'[t].pc = "idle"
        /\ \A k \in Tasks \ {t} : task'[k] = task[k]
    BY <1>1, <1>4, RequestEnds DEF AccountsInv
  <2>2. vouched \subseteq vouched' /\ vouched' \subseteq (Subs \cup {None}) \X Emails
    BY <1>1 DEF AccountsInv, HistoryFits
  <2> QED
    BY <1>1, <1>4, <2>1, <2>2, SignInMoves DEF SignIn, Removing, AccountsInv, HistoryFits
<1> QED
  BY <1>1, <1>3, <1>4

(* A new account; it crosses no removal and no other first account, or     *)
(* else it is excused.                                                     *)
LEMMA ProvisionKeeps ==
    ASSUME AccountsInv, NEW t \in Tasks, LoginProvision(t)
    PROVE  AccountsInv'
<1> PICK s : s = task[t].sub
  OBVIOUS
<1> PICK e : e = task[t].email
  OBVIOUS
<1>1. /\ task[t].pc = "provision" /\ UNCHANGED <<session, vouched, crossed>>
      /\ excused' = excused \cup
               IF Busy({"promote", "leave"} \cup Removing) THEN {"overlap"} ELSE {}
      /\ \/ \E u \in Free :
                 /\ BySub(s) = {} /\ Owner(e) = {}
                 /\ Keep(u, [Gone EXCEPT !.here = TRUE, !.sub = s, !.email = e])
                 /\ task' = [task EXCEPT ![t].pc = "promote", ![t].user = u]
         \/ Finish(t) /\ row' = row
  BY DEF LoginProvision
<1>2. s \in Subs /\ e \in Emails \cup {None} /\ task[t] \in TaskRecord
  <2>1. task[t] \in TaskRecord /\ s \in Subs
    BY <1>1, TaskTyped DEF AccountsInv, TasksFit
  <2> QED
    BY <2>1 DEF TaskRecord
<1>3. /\ excused \subseteq excused' /\ excused' \subseteq {"overlap", "mirror", "banned counted"}
      /\ excused' = {} => excused = {} /\ ~Busy({"promote", "leave"} \cup Removing)
  BY <1>1 DEF AccountsInv, HistoryFits
<1>4. CASE Finish(t) /\ row' = row
  <2>1. /\ TasksFit' /\ task'[t].pc = "idle"
        /\ \A k \in Tasks \ {t} : task'[k] = task[k]
    BY <1>1, <1>4, RequestEnds DEF AccountsInv
  <2>2. vouched \subseteq vouched' /\ vouched' \subseteq (Subs \cup {None}) \X Emails
    BY <1>1 DEF AccountsInv, HistoryFits
  <2> QED
    BY <1>1, <1>3, <1>4, <2>1, <2>2, SignInMoves DEF SignIn, Removing
<1>5. ASSUME NEW u \in Free, BySub(s) = {}, Owner(e) = {},
             Keep(u, [Gone EXCEPT !.here = TRUE, !.sub = s, !.email = e]),
             task' = [task EXCEPT ![t].pc = "promote", ![t].user = u]
      PROVE  AccountsInv'
  <2> PICK q : q = [Gone EXCEPT !.here = TRUE, !.sub = s, !.email = e]
    OBVIOUS
  <2> PICK r : r = [task[t] EXCEPT !.pc = "promote", !.user = u]
    OBVIOUS
  <2>1. u \in Users /\ ~Here(u)
    BY DEF Free
  <2>2. /\ q \in UserRow /\ q.here /\ q.sub = s /\ q.email = e /\ ~q.verified /\ ~q.banned
    BY <1>2, GoneTyped DEF UserRow
  <2>3. row' = [row EXCEPT ![u] = q]
    BY <1>5 DEF Keep
  <2>4. /\ RowsFit' /\ row'[u] = q
        /\ \A v \in Users \ {u} : row'[v] = row[v]
    BY <1>1, <1>5, <2>1, <2>2, <2>3, RowMoves DEF AccountsInv
  <2>5. /\ r \in TaskRecord /\ r.pc = "promote" /\ r.user = u /\ r.ok = task[t].ok
        /\ r.sub = task[t].sub /\ r.email = task[t].email
    BY <1>2, <2>1 DEF TaskRecord, Pcs
  <2>6. task' = [task EXCEPT ![t] = r]
    BY <1>5, TaskTyped DEF AccountsInv
  <2>7. r.ok => /\ r.sub \in Subs /\ r.email \in Emails /\ <<r.sub, r.email>> \in vouched'
    BY <1>1, <2>5 DEF AccountsInv, TasksFit
  <2>8. /\ TasksFit' /\ task'[t] = r
        /\ \A k \in Tasks \ {t} : task'[k] = task[k]
    BY <1>1, <2>1, <2>5, <2>6, <2>7, RequestMoves DEF AccountsInv
  <2>9. HistoryFits'
    BY <1>1, <1>3 DEF AccountsInv, HistoryFits
  <2>10. VerifiedWasVouched'
    BY <1>1, <2>2, <2>4, VouchedStays DEF AccountsInv
  <2>11. BanEndsSessions' /\ SignInsAreCrossed'
    <3>1. \A v \in Users : row'[v].banned => row[v].banned
      BY <2>2, <2>4
    <3>2. ASSUME NEW k \in Tasks
          PROVE  /\ task[k].pc = "signOut" =>
                       task'[k].pc = "signOut" /\ task'[k].user = task[k].user
                 /\ task'[k].pc \in SignIn =>
                       \/ task[k].pc \in SignIn /\ task'[k].user = task[k].user
                       \/ task'[k].user \in Users /\ ~row'[task'[k].user].banned
      <4>1. CASE k = t
        <5>1. task[k].pc # "signOut" /\ task'[k].user = u /\ row'[u] = q
          BY <1>1, <2>4, <2>5, <2>8, <4>1
        <5>2. task'[k].user \in Users /\ ~row'[task'[k].user].banned
          BY <2>1, <2>2, <5>1
        <5> QED
          BY <5>1, <5>2
      <4>2. CASE k # t
        BY <2>8, <4>2
      <4> QED
        BY <4>1, <4>2
    <3> QED
      BY <1>1, <3>1, <3>2, BansStay DEF AccountsInv
  <2>12. AdminsInv'
    <3> SUFFICES ASSUME excused' = {}
                 PROVE  OneAtATime' /\ RemovalsLeaveOne' /\ FirstIsAlone' /\ AdminRemains'
      BY DEF AdminsInv
    <3>1. excused = {} /\ \A k \in Tasks \ {t} : task[k].pc \notin {"promote", "leave"} \cup Removing
      BY <1>3 DEF Busy
    <3>2. /\ task'[t].pc = "promote" /\ task'[t].user = u
          /\ \A k \in Tasks \ {t} : task'[k].pc \notin {"promote"} \cup Removing
      BY <2>5, <2>8, <3>1
    <3>3. OneAtATime'
      BY <3>2 DEF OneAtATime, Removing
    <3>4. RemovalsLeaveOne'
      BY <3>2 DEF RemovalsLeaveOne, Removing, Guarded
    <3>5. AdminRemains'
      BY <3>2 DEF AdminRemains, Busy
    <3>6. SomeAdmin' \/ (AloneAt(u)' /\ ~row'[u].banned)
      <4>1. CASE \E v \in Users : Here(v)
        <5>1. ~Busy({"promote"})
          BY <1>3, <3>1 DEF Busy
        <5>2. PICK v \in Users : ActiveAdmin(v)
          BY <3>1, <4>1, <5>1 DEF AccountsInv, AdminsInv, AdminRemains
        <5>3. v # u
          BY <2>1, <5>2 DEF ActiveAdmin, IsAdmin
        <5> QED
          BY <2>4, <5>2, <5>3 DEF SomeAdmin, ActiveAdmin, IsAdmin, Here
      <4>2. CASE ~\E v \in Users : Here(v)
        BY <2>2, <2>4, <4>2 DEF AloneAt, Here
      <4> QED
        BY <4>1, <4>2
    <3>7. FirstIsAlone'
      BY <3>2, <3>6 DEF FirstIsAlone
    <3> QED
      BY <3>3, <3>4, <3>5, <3>7
  <2> QED
    BY <2>4, <2>8, <2>9, <2>10, <2>11, <2>12 DEF AccountsInv
<1> QED
  BY <1>1, <1>4, <1>5

(* The first account becomes an administrator.                             *)
LEMMA FirstKeeps ==
    ASSUME AccountsInv, NEW t \in Tasks, LoginPromote(t)
    PROVE  AccountsInv'
<1> PICK u : u = task[t].user
  OBVIOUS
<1>1. /\ task[t].pc = "promote" /\ UNCHANGED <<session, vouched, crossed, excused>>
      /\ row' = IF First(u) THEN [row EXCEPT ![u].role = "admin"] ELSE row
      /\ Set(t, "mirror")
  BY DEF LoginPromote
<1>2. u \in Users /\ row[u] \in UserRow
  BY <1>1, RowTyped DEF AccountsInv, TasksFit, SignIn
<1> PICK q : q = IF First(u) THEN [row[u] EXCEPT !.role = "admin"] ELSE row[u]
  OBVIOUS
<1>3. /\ q \in UserRow /\ q.here = row[u].here /\ q.banned = row[u].banned /\ q.sub = row[u].sub
      /\ q.email = row[u].email /\ q.verified = row[u].verified
      /\ q.role = row[u].role \/ q.role = "admin"
      /\ First(u) => q.role = "admin"
  BY <1>2 DEF UserRow, Roles
<1>4. row' = [row EXCEPT ![u] = q]
  BY <1>1, RowTyped DEF AccountsInv
<1>5. q.here \/ q = Gone
  <2>1. CASE First(u)
    <3>1. u \in Users \ Free
      BY <2>1 DEF First
    <3> QED
      BY <1>3, <3>1 DEF Free, Here
  <2>2. CASE ~First(u)
    BY <1>2, <2>2 DEF AccountsInv, RowsFit, Here
  <2> QED
    BY <2>1, <2>2
<1>6. "mirror" \in Pcs
  BY DEF Pcs
<1>7. /\ TasksFit' /\ task'[t].pc = "mirror" /\ task'[t].user = u
      /\ \A k \in Tasks \ {t} : task'[k] = task[k]
  BY <1>1, <1>2, <1>6, RequestGoes DEF AccountsInv
<1>8. u \in session' => q.here
  BY <1>1, <1>3 DEF AccountsInv, RowsFit, Here
<1>9. /\ RowsFit' /\ row'[u] = q
      /\ \A v \in Users \ {u} : row'[v] = row[v]
  BY <1>1, <1>2, <1>3, <1>4, <1>5, <1>8, RowMoves, ZenonT(60) DEF AccountsInv
<1>10. HistoryFits'
  BY <1>1 DEF AccountsInv, HistoryFits
<1>11. \A v \in Users : /\ row'[v].banned = row[v].banned /\ Here(v)' = Here(v)
                        /\ row'[v].verified = row[v].verified /\ row'[v].email = row[v].email
                        /\ ActiveAdmin(v) => ActiveAdmin(v)'
  BY <1>3, <1>9 DEF Here, ActiveAdmin, IsAdmin
<1>12. VerifiedWasVouched'
  BY <1>1, <1>11, VouchedStays DEF AccountsInv
<1>13. BanEndsSessions' /\ SignInsAreCrossed'
  <2>1. \A k \in Tasks : /\ task[k].pc = "signOut" =>
                                  task'[k].pc = "signOut" /\ task'[k].user = task[k].user
                         /\ task'[k].pc \in SignIn =>
                                  task[k].pc \in SignIn /\ task'[k].user = task[k].user
    BY <1>1, <1>7 DEF SignIn
  <2> QED
    BY <1>1, <1>11, <2>1, BansStay DEF AccountsInv
<1>14. AdminsInv'
  <2> SUFFICES ASSUME excused' = {}
               PROVE  OneAtATime' /\ RemovalsLeaveOne' /\ FirstIsAlone' /\ AdminRemains'
    BY DEF AdminsInv
  <2>1. OneAtATime /\ RemovalsLeaveOne /\ FirstIsAlone
    BY <1>1 DEF AccountsInv, AdminsInv
  <2>2. \A k \in Tasks : /\ task'[k].pc # "promote"
                         /\ task'[k].pc \in Removing => task[k] = task'[k]
    BY <1>1, <1>7, <2>1 DEF OneAtATime, Removing
  <2>3. OneAtATime'
    BY <2>1, <2>2 DEF OneAtATime
  <2>4. FirstIsAlone'
    BY <2>2 DEF FirstIsAlone
  <2>5. ASSUME NEW w \in Users
        PROVE  /\ OtherActiveAdmin(w) => OtherActiveAdmin(w)'
               /\ AloneAt(w) => AloneAt(w)'
    BY <1>11 DEF OtherActiveAdmin, AloneAt
  <2>6. RemovalsLeaveOne'
    <3>1. \A k \in Tasks : task'[k].pc \in Guarded \cup {"leave"} => task[k] = task'[k]
      BY <2>2 DEF Guarded, Removing
    <3> QED
      BY <2>1, <2>5, <3>1 DEF RemovalsLeaveOne
  <2>7. AdminRemains'
    <3>1. CASE SomeAdmin
      BY <1>11, <3>1 DEF SomeAdmin, AdminRemains
    <3>2. CASE AloneAt(u) /\ ~row[u].banned
      <4>1. CASE Here(u)
        <5>1. First(u)
          BY <1>2, <3>2, <4>1 DEF First, Free, AloneAt
        <5>2. ActiveAdmin(u)'
          BY <1>3, <1>9, <3>2, <4>1, <5>1 DEF ActiveAdmin, IsAdmin, Here
        <5> QED
          BY <1>2, <5>2 DEF AdminRemains
      <4>2. CASE ~Here(u)
        BY <1>11, <3>2, <4>2 DEF AdminRemains, AloneAt
      <4> QED
        BY <4>1, <4>2
    <3> QED
      BY <1>1, <1>2, <2>1, <3>1, <3>2 DEF FirstIsAlone
  <2> QED
    BY <2>3, <2>4, <2>6, <2>7
<1> QED
  BY <1>7, <1>9, <1>10, <1>12, <1>13, <1>14 DEF AccountsInv

(* The provider's claim; it excuses itself when it demotes.                *)
LEMMA MirrorKeeps ==
    ASSUME AccountsInv, NEW t \in Tasks, LoginMirror(t)
    PROVE  AccountsInv'
<1> PICK u : u = task[t].user
  OBVIOUS
<1> PICK role : role = Mirrored(u, task[t].admin)
  OBVIOUS
<1>1. /\ task[t].pc = "mirror" /\ UNCHANGED <<session, vouched, crossed>>
      /\ row' = IF Here(u) THEN [row EXCEPT ![u].role = role] ELSE row
      /\ excused' = excused \cup
               IF IsAdmin(u) /\ role # "admin" THEN {"mirror"} ELSE {}
      /\ Set(t, "stamp")
  BY DEF LoginMirror
<1>2. u \in Users /\ row[u] \in UserRow /\ role \in Roles /\ task[t].pc \in SignIn
  BY <1>1, RowTyped DEF AccountsInv, TasksFit, SignIn, Mirrored, Roles
<1> PICK q : q = IF Here(u) THEN [row[u] EXCEPT !.role = role] ELSE row[u]
  OBVIOUS
<1>3. /\ q \in UserRow /\ q.here = row[u].here /\ q.banned = row[u].banned /\ q.sub = row[u].sub
      /\ q.email = row[u].email /\ q.verified = row[u].verified
      /\ q.role = IF Here(u) THEN role ELSE row[u].role
  BY <1>2 DEF UserRow
<1>4. row' = [row EXCEPT ![u] = q]
  BY <1>1, RowTyped DEF AccountsInv
<1>5. q.here \/ q = Gone
  BY <1>2 DEF AccountsInv, RowsFit, Here
<1>6. "stamp" \in Pcs
  BY DEF Pcs
<1>7. /\ TasksFit' /\ task'[t].pc = "stamp" /\ task'[t].user = task[t].user
      /\ \A k \in Tasks \ {t} : task'[k] = task[k]
  BY <1>1, <1>2, <1>6, RequestGoes DEF AccountsInv
<1>8. excused \subseteq excused' /\ excused' \subseteq {"overlap", "mirror", "banned counted"}
  BY <1>1 DEF AccountsInv, HistoryFits
<1>9. excused' = {} => q.role = row[u].role \/ q.role = "admin"
  <2>1. CASE Here(u) /\ role # "admin"
    <3>1. excused' = {} => ~IsAdmin(u)
      BY <1>1, <2>1
    <3>2. ~IsAdmin(u) => row[u].role = role
      BY <1>2, <2>1 DEF IsAdmin, UserRow, Roles
    <3> QED
      BY <1>3, <2>1, <3>1, <3>2
  <2> QED
    BY <1>3, <2>1
<1>10. /\ task[t].pc \notin {"signOut", "promote"} /\ UNCHANGED <<session, vouched, crossed>>
       /\ task'[t].pc \notin Removing \cup {"promote"}
       /\ task'[t].pc \in SignIn => task[t].pc \in SignIn /\ task'[t].user = task[t].user
  BY <1>1, <1>2, <1>7 DEF Removing
<1>11. /\ q.sub \in {None, row[u].sub} \/ BySub(q.sub) = {}
       /\ q.email \in {None, row[u].email}
       /\ q.verified => \/ row[u].verified /\ q.email = row[u].email
                        \/ \E s \in Subs \cup {None} : <<s, q.email>> \in vouched
       /\ q.here = row[u].here /\ q.banned = row[u].banned
  BY <1>3
<1> QED
  BY <1>2, <1>3, <1>4, <1>5, <1>7, <1>8, <1>9, <1>10, <1>11, SignInWrites, ZenonT(60)

(* The stamp goes to the address the provider vouched for.                 *)
LEMMA StampKeeps ==
    ASSUME AccountsInv, NEW t \in Tasks, LoginStamp(t)
    PROVE  AccountsInv'
<1> PICK u : u = task[t].user
  OBVIOUS
<1>1. /\ task[t].pc = "stamp" /\ UNCHANGED <<session, vouched, crossed, excused>>
      /\ row' = IF task[t].ok /\ Stampable(u, task[t].email)
                THEN [row EXCEPT ![u].verified = TRUE] ELSE row
      /\ Set(t, "mint")
  BY DEF LoginStamp
<1>2. u \in Users /\ row[u] \in UserRow /\ task[t].pc \in SignIn
  BY <1>1, RowTyped DEF AccountsInv, TasksFit, SignIn
<1> PICK q : q = IF task[t].ok /\ Stampable(u, task[t].email)
                 THEN [row[u] EXCEPT !.verified = TRUE] ELSE row[u]
  OBVIOUS
<1>3. /\ q \in UserRow /\ q.here = row[u].here /\ q.banned = row[u].banned /\ q.sub = row[u].sub
      /\ q.email = row[u].email /\ q.role = row[u].role
      /\ q.verified => row[u].verified \/ (task[t].ok /\ row[u].email = task[t].email)
  BY <1>2 DEF UserRow, Stampable
<1>4. row' = [row EXCEPT ![u] = q]
  BY <1>1, RowTyped DEF AccountsInv
<1>5. q.here \/ q = Gone
  BY <1>2 DEF AccountsInv, RowsFit, Here, Stampable
<1>6. "mint" \in Pcs
  BY DEF Pcs
<1>7. /\ TasksFit' /\ task'[t].pc = "mint" /\ task'[t].user = task[t].user
      /\ \A k \in Tasks \ {t} : task'[k] = task[k]
  BY <1>1, <1>2, <1>6, RequestGoes DEF AccountsInv
<1>8. excused \subseteq excused' /\ excused' \subseteq {"overlap", "mirror", "banned counted"}
  BY <1>1 DEF AccountsInv, HistoryFits
<1>9. q.verified => \/ row[u].verified /\ q.email = row[u].email
                    \/ \E s \in Subs \cup {None} : <<s, q.email>> \in vouched
  BY <1>3 DEF AccountsInv, TasksFit
<1>10. /\ task[t].pc \notin {"signOut", "promote"} /\ UNCHANGED <<session, vouched, crossed>>
       /\ task'[t].pc \notin Removing \cup {"promote"}
       /\ task'[t].pc \in SignIn => task[t].pc \in SignIn /\ task'[t].user = task[t].user
  BY <1>1, <1>2, <1>7 DEF Removing
<1>11. /\ q.sub \in {None, row[u].sub} \/ BySub(q.sub) = {}
       /\ q.email \in {None, row[u].email}
       /\ excused' = {} => q.role = row[u].role \/ q.role = "admin"
       /\ q.here = row[u].here /\ q.banned = row[u].banned
  BY <1>3
<1> QED
  BY <1>2, <1>3, <1>4, <1>5, <1>7, <1>8, <1>9, <1>10, <1>11, SignInWrites

(* A step that leaves the rows alone.                                      *)
LEMMA SameRows ==
    ASSUME AccountsInv, TasksFit', UNCHANGED <<row, vouched>>,
           session' \subseteq {u \in Users : Here(u)},
           crossed' \subseteq Users, excused' \subseteq {"overlap", "mirror", "banned counted"},
           BanEndsSessions', SignInsAreCrossed', AdminsInv'
    PROVE  AccountsInv'
<1>1. RowsFit'
  BY DEF AccountsInv, RowsFit, Here
<1>2. HistoryFits' /\ VerifiedWasVouched'
  BY DEF AccountsInv, HistoryFits, VerifiedWasVouched
<1> QED
  BY <1>1, <1>2 DEF AccountsInv

(* A session comes of a sign-on: who is banned by now was banned while it  *)
(* ran.                                                                    *)
LEMMA MintKeeps ==
    ASSUME AccountsInv, NEW t \in Tasks, LoginMint(t)
    PROVE  AccountsInv'
<1> PICK u : u = task[t].user
  OBVIOUS
<1>1. /\ task[t].pc = "mint" /\ UNCHANGED <<row, vouched, crossed, excused>>
      /\ session' = IF Here(u) THEN session \cup {u} ELSE session
      /\ Finish(t)
  BY DEF LoginMint
<1>2. u \in Users /\ task[t].pc \in SignIn
  BY <1>1 DEF AccountsInv, TasksFit, SignIn
<1>3. /\ TasksFit' /\ task'[t].pc = "idle"
      /\ \A k \in Tasks \ {t} : task'[k] = task[k]
  BY <1>1, RequestEnds DEF AccountsInv
<1>4. session' \subseteq {v \in Users : Here(v)} /\ crossed' \subseteq Users
      /\ excused' \subseteq {"overlap", "mirror", "banned counted"}
  BY <1>1, <1>2 DEF AccountsInv, RowsFit, HistoryFits
<1>5. BanEndsSessions'
  <2>1. ASSUME NEW v \in session', row'[v].banned
        PROVE  v \in crossed' \/ \E k \in Tasks : task'[k].pc = "signOut" /\ task'[k].user = v
    <3>1. CASE v \in session
      <4>1. v \in crossed \/ \E k \in Tasks : task[k].pc = "signOut" /\ task[k].user = v
        BY <1>1, <2>1, <3>1 DEF AccountsInv, BanEndsSessions
      <4>2. \A k \in Tasks : task[k].pc = "signOut" => k # t
        BY <1>1
      <4> QED
        BY <1>1, <1>3, <4>1, <4>2
    <3>2. CASE v = u
      BY <1>1, <1>2, <2>1, <3>2 DEF AccountsInv, SignInsAreCrossed
    <3> QED
      BY <1>1, <2>1, <3>1, <3>2
  <2> QED
    BY <2>1 DEF BanEndsSessions
<1>6. SignInsAreCrossed'
  <2>1. \A k \in Tasks : task'[k].pc \in SignIn => task'[k] = task[k]
    BY <1>3 DEF SignIn
  <2> QED
    BY <1>1, <2>1 DEF AccountsInv, SignInsAreCrossed
<1>7. AdminsInv'
  <2>1. \A v \in Users : (ActiveAdmin(v) => ActiveAdmin(v)') /\ (Here(v)' => Here(v))
    BY <1>1 DEF ActiveAdmin, IsAdmin, Here
  <2>2. \A k \in Tasks :
              /\ task'[k].pc \in Guarded => task[k].pc \in Guarded
              /\ task'[k].pc = "leave" => task[k].pc = "leave"
              /\ task'[k].pc = "promote" <=> task[k].pc = "promote"
              /\ task'[k].pc \in Removing \cup {"promote"} => task'[k].user = task[k].user
    BY <1>1, <1>3 DEF Removing, Guarded
  <2> QED
    BY <1>1, <2>1, <2>2, AdminsStay DEF AccountsInv
<1> QED
  BY <1>1, <1>3, <1>4, <1>5, <1>6, <1>7, SameRows

-------------------------------------------------------------------------------
(* Administration                                                          *)

(* A removal begins: it is the only one, or it is excused, and the guard   *)
(* has just seen another administrator or an otherwise empty site.         *)
LEMMA RemovalBegins ==
    ASSUME AccountsInv, NEW t \in Tasks, NEW u \in Users, NEW pc \in Removing,
           task[t].pc = "idle",
           task' = [task EXCEPT ![t] = [Idle EXCEPT !.pc = pc, !.op = "admin", !.user = u]],
           UNCHANGED <<row, session, vouched, crossed>>,
           excused \subseteq excused', excused' \subseteq {"overlap", "mirror", "banned counted"},
           excused' = {} => ~Busy(Removing),
           excused' = {} => /\ pc \in Guarded => OtherActiveAdmin(u)
                            /\ pc = "leave" => OtherActiveAdmin(u) \/ AloneAt(u)
    PROVE  AccountsInv'
<1> PICK r : r = [Idle EXCEPT !.pc = pc, !.op = "admin", !.user = u]
  OBVIOUS
<1>1. /\ r \in TaskRecord /\ r.pc = pc /\ r.user = u /\ ~r.ok
      /\ task' = [task EXCEPT ![t] = r]
  BY RequestIdle DEF TaskRecord, Pcs
<1>2. pc \notin SignIn \cup {"release", "link", "provision", "signOut", "promote"}
  BY DEF Removing, SignIn
<1>3. /\ TasksFit' /\ task'[t] = r
      /\ \A k \in Tasks \ {t} : task'[k] = task[k]
  BY <1>1, <1>2, RequestMoves, ZenonT(60) DEF AccountsInv
<1>4. BanEndsSessions' /\ SignInsAreCrossed'
  <2>1. \A k \in Tasks : /\ task[k].pc = "signOut" =>
                                  task'[k].pc = "signOut" /\ task'[k].user = task[k].user
                         /\ task'[k].pc \in SignIn =>
                                  task[k].pc \in SignIn /\ task'[k].user = task[k].user
    BY <1>1, <1>2, <1>3
  <2> QED
    BY <2>1, BansStay DEF AccountsInv
<1>5. AdminsInv'
  <2> SUFFICES ASSUME excused' = {}
               PROVE  OneAtATime' /\ RemovalsLeaveOne' /\ FirstIsAlone' /\ AdminRemains'
    BY DEF AdminsInv
  <2>1. OneAtATime /\ RemovalsLeaveOne /\ FirstIsAlone /\ AdminRemains /\ ~Busy(Removing)
    BY DEF AccountsInv, AdminsInv
  <2>2. \A k \in Tasks \ {t} : task'[k] = task[k] /\ task'[k].pc \notin Removing
    BY <1>3, <2>1 DEF Busy
  <2>3. task'[t].pc = pc /\ task'[t].user = u /\ pc # "promote" /\ task[t].pc # "promote"
    BY <1>1, <1>2, <1>3
  <2>4. OneAtATime'
    BY <2>1, <2>2, <2>3 DEF OneAtATime
  <2>5. \A v \in Users : /\ OtherActiveAdmin(v)' <=> OtherActiveAdmin(v)
                         /\ AloneAt(v)' <=> AloneAt(v)
    BY DEF OtherActiveAdmin, AloneAt, ActiveAdmin, IsAdmin, Here
  <2>6. RemovalsLeaveOne'
    <3>1. ASSUME NEW k \in Tasks, NEW v \in Users, task'[k].user = v
          PROVE  /\ task'[k].pc \in Guarded => OtherActiveAdmin(v)'
                 /\ task'[k].pc = "leave" => OtherActiveAdmin(v)' \/ AloneAt(v)'
      <4>1. CASE k = t
        BY <2>3, <2>5, <3>1, <4>1
      <4>2. CASE k # t
        BY <2>2, <4>2 DEF Guarded, Removing
      <4> QED
        BY <4>1, <4>2
    <3> QED
      BY <3>1 DEF RemovalsLeaveOne
  <2>7. FirstIsAlone'
    <3>1. \A k \in Tasks : task'[k].pc = "promote" => task'[k] = task[k]
      BY <2>2, <2>3
    <3>2. SomeAdmin => SomeAdmin'
      BY DEF SomeAdmin, ActiveAdmin, IsAdmin, Here
    <3> QED
      BY <2>1, <2>5, <3>1, <3>2, ZenonT(60) DEF FirstIsAlone
  <2>8. AdminRemains'
    <3>1. Busy({"promote"})' <=> Busy({"promote"})
      BY <2>2, <2>3 DEF Busy
    <3> QED
      BY <2>1, <3>1 DEF AdminRemains, ActiveAdmin, IsAdmin, Here
  <2> QED
    BY <2>4, <2>6, <2>7, <2>8
<1>6. session' \subseteq {v \in Users : Here(v)} /\ crossed' \subseteq Users
  BY DEF AccountsInv, RowsFit, HistoryFits
<1> QED
  BY <1>3, <1>4, <1>5, <1>6, SameRows

LEMMA RemovalGuardKeeps ==
    ASSUME AccountsInv, NEW t \in Tasks, NEW a \in Users, NEW u \in Users,
           NEW pc \in {"ban", "demote", "deleteSessions"}, AdminGuard(t, a, u, pc)
    PROVE  AccountsInv'
<1>1. /\ task[t].pc = "idle" /\ AdminUser(a) /\ GuardPasses(u)
      /\ task' = [task EXCEPT ![t] = [Idle EXCEPT !.pc = pc, !.op = "admin", !.user = u]]
      /\ excused' = excused \cup IF Busy(Removing) THEN {"overlap"} ELSE {}
      /\ UNCHANGED <<row, session, vouched, crossed>>
  BY DEF AdminGuard
<1>2. pc \in Removing /\ pc # "leave"
  BY DEF Removing
<1>3. OtherActiveAdmin(u)
  BY <1>1 DEF AdminUser, SignedIn, GuardPasses, OtherActiveAdmin, ActiveAdmin
<1>4. /\ excused \subseteq excused' /\ excused' \subseteq {"overlap", "mirror", "banned counted"}
      /\ excused' = {} => ~Busy(Removing)
  BY <1>1 DEF AccountsInv, HistoryFits
<1> QED
  BY <1>1, <1>2, <1>3, <1>4, RemovalBegins

LEMMA LeaveKeeps ==
    ASSUME AccountsInv, NEW t \in Tasks, NEW u \in Users, LeaveCheck(t, u)
    PROVE  AccountsInv'
<1>1. /\ task[t].pc = "idle" /\ SignedIn(u)
      /\ task' = [task EXCEPT ![t] = [Idle EXCEPT !.pc = "leave", !.op = "admin", !.user = u]]
      /\ excused' = excused
           \cup (IF Busy(Removing \cup {"provision"}) THEN {"overlap"} ELSE {})
           \cup (IF ActiveAdmin(u) /\ ~OtherActiveAdmin(u) /\ Users \ Free # {u}
                 THEN {"banned counted"} ELSE {})
      /\ UNCHANGED <<row, session, vouched, crossed>>
  BY DEF LeaveCheck
<1>2. /\ excused \subseteq excused' /\ excused' \subseteq {"overlap", "mirror", "banned counted"}
      /\ excused' = {} => excused = {} /\ ~Busy(Removing \cup {"provision"})
      /\ excused' = {} => ~(ActiveAdmin(u) /\ ~OtherActiveAdmin(u) /\ Users \ Free # {u})
  BY <1>1 DEF AccountsInv, HistoryFits
<1>3. excused' = {} => ~Busy(Removing)
  BY <1>2 DEF Busy
<1>4. ASSUME excused' = {} PROVE OtherActiveAdmin(u) \/ AloneAt(u)
  <2>1. CASE ActiveAdmin(u)
    BY <1>2, <1>4, <2>1 DEF AloneAt, Free
  <2>2. CASE ~ActiveAdmin(u)
    <3>1. Here(u) /\ excused = {} /\ FirstIsAlone /\ AdminRemains
      BY <1>1, <1>2, <1>4 DEF SignedIn, AccountsInv, AdminsInv
    <3>2. SomeAdmin => OtherActiveAdmin(u)
      BY <2>2 DEF SomeAdmin, OtherActiveAdmin
    <3>3. CASE Busy({"promote"})
      <4>1. PICK k \in Tasks : task[k].pc = "promote"
        BY <3>3 DEF Busy
      <4>2. task[k].user \in Users
        BY <4>1 DEF AccountsInv, TasksFit, SignIn
      <4>3. SomeAdmin \/ AloneAt(task[k].user)
        BY <3>1, <4>1, <4>2 DEF FirstIsAlone
      <4> QED
        BY <3>1, <3>2, <4>3 DEF AloneAt
    <3>4. CASE ~Busy({"promote"})
      BY <1>2, <1>4, <3>1, <3>2, <3>4 DEF AdminRemains, SomeAdmin
    <3> QED
      BY <3>3, <3>4
  <2> QED
    BY <2>1, <2>2
<1>5. "leave" \in Removing /\ "leave" \notin Guarded
  BY DEF Removing, Guarded
<1> QED
  BY <1>1, <1>2, <1>3, <1>4, <1>5, RemovalBegins

(* A removal is done: whoever it left behind is still there.               *)
LEMMA RemovalEnds ==
    ASSUME RowsFit, TasksFit, AdminsInv, NEW t \in Tasks, NEW u \in Users,
           task[t].pc \in Removing, task[t].user = u, excused' = excused,
           task'[t].pc \notin Removing \cup {"promote"},
           \A k \in Tasks \ {t} : task'[k] = task[k],
           \A v \in Users \ {u} : row'[v] = row[v],
           task[t].pc = "leave" => row'[u] = Gone
    PROVE  AdminsInv'
<1> SUFFICES ASSUME excused = {}
             PROVE  OneAtATime' /\ RemovalsLeaveOne' /\ FirstIsAlone' /\ AdminRemains'
  BY DEF AdminsInv
<1>1. OneAtATime /\ RemovalsLeaveOne
  BY DEF AdminsInv
<1>2. \A k \in Tasks : task'[k].pc \notin Removing
  BY <1>1 DEF OneAtATime
<1>3. OneAtATime'
  BY <1>1, <1>2 DEF OneAtATime
<1>4. RemovalsLeaveOne'
  BY <1>2 DEF RemovalsLeaveOne, Guarded, Removing
<1>5. CASE OtherActiveAdmin(u)
  <2>1. SomeAdmin'
    BY <1>5 DEF OtherActiveAdmin, SomeAdmin, ActiveAdmin, IsAdmin, Here
  <2> QED
    BY <1>3, <1>4, <2>1 DEF FirstIsAlone, AdminRemains, SomeAdmin
<1>6. CASE AloneAt(u) /\ task[t].pc = "leave"
  <2>1. \A v \in Users : ~Here(v)' /\ ~row'[v].banned
    <3>1. \A v \in Users \ {u} : row[v] = Gone
      BY <1>6 DEF AloneAt, RowsFit
    <3>2. \A v \in Users : row'[v] = Gone
      BY <1>6, <3>1
    <3> QED
      BY <3>2, GoneTyped DEF Here
  <2>2. FirstIsAlone'
    BY <2>1 DEF FirstIsAlone, AloneAt
  <2>3. AdminRemains'
    BY <2>1 DEF AdminRemains
  <2> QED
    BY <1>3, <1>4, <2>2, <2>3
<1>7. OtherActiveAdmin(u) \/ (AloneAt(u) /\ task[t].pc = "leave")
  BY <1>1 DEF RemovalsLeaveOne, Guarded, Removing
<1> QED
  BY <1>5, <1>6, <1>7

(* A ban: the sessions of the banned are about to be deleted.              *)
LEMMA BanKeeps ==
    ASSUME AccountsInv, NEW t \in Tasks, BanWrite(t)
    PROVE  AccountsInv'
<1> PICK u : u = task[t].user
  OBVIOUS
<1>1. /\ task[t].pc = "ban" /\ UNCHANGED <<session, vouched, excused>>
      /\ row' = IF Here(u) THEN [row EXCEPT ![u].banned = TRUE] ELSE row
      /\ crossed' = IF SigningIn(u) THEN crossed \cup {u} ELSE crossed
      /\ Set(t, "signOut")
  BY DEF BanWrite
<1>2. u \in Users /\ row[u] \in UserRow
  BY <1>1, RowTyped DEF AccountsInv, TasksFit, Removing
<1>0. PICK q : q = IF Here(u) THEN [row[u] EXCEPT !.banned = TRUE] ELSE row[u]
  OBVIOUS
<1>3. /\ q \in UserRow /\ q.here = row[u].here /\ q.sub = row[u].sub
      /\ q.email = row[u].email /\ q.verified = row[u].verified
  BY <1>0, <1>2 DEF UserRow
<1>4. row' = [row EXCEPT ![u] = q] /\ (q.here \/ q = Gone)
  BY <1>0, <1>1, <1>2, <1>3, RowTyped DEF AccountsInv, RowsFit, Here
<1>5. "signOut" \in Pcs
  BY DEF Pcs
<1>6. /\ TasksFit' /\ task'[t].pc = "signOut" /\ task'[t].user = u
      /\ \A k \in Tasks \ {t} : task'[k] = task[k]
  BY <1>1, <1>2, <1>5, RequestGoes DEF AccountsInv
<1>7. u \in session' => q.here
  BY <1>1, <1>3 DEF AccountsInv, RowsFit, Here
<1>8. /\ RowsFit' /\ row'[u] = q
      /\ \A v \in Users \ {u} : row'[v] = row[v]
  <2>1. RowsFit /\ u \in Users /\ q \in UserRow
    BY <1>2, <1>3 DEF AccountsInv
  <2>2. row' = [row EXCEPT ![u] = q]
    BY <1>4
  <2>3. q.here \/ q = Gone
    BY <1>4
  <2>4. q.sub \in {None, row[u].sub} \/ BySub(q.sub) = {}
    BY <1>3
  <2>5. q.email \in {None, row[u].email} \/ Owner(q.email) = {}
    BY <1>3
  <2>6. session' \subseteq session \cup {u}
    BY <1>1
  <2>7. q.here \/ u \notin session'
    BY <1>7
  <2> QED
    BY <2>1, <2>2, <2>3, <2>4, <2>5, <2>6, <2>7, RowMoves
<1>9. HistoryFits'
  BY <1>1, <1>2 DEF AccountsInv, HistoryFits
<1>10. VerifiedWasVouched'
  <2>1. \A v \in Users : row'[v].verified = row[v].verified /\ row'[v].email = row[v].email
    BY <1>3, <1>8
  <2> QED
    BY <1>1, <2>1, VouchedStays DEF AccountsInv
<1>11. BanEndsSessions'
  <2>1. ASSUME NEW v \in session', row'[v].banned
        PROVE  v \in crossed' \/ \E k \in Tasks : task'[k].pc = "signOut" /\ task'[k].user = v
    <3>1. CASE v = u
      BY <1>6, <3>1
    <3>2. CASE v # u
      <4>1. v \in Users /\ row[v].banned /\ v \in session
        BY <1>1, <1>8, <2>1, <3>2 DEF AccountsInv, RowsFit
      <4>2. v \in crossed \/ \E k \in Tasks : task[k].pc = "signOut" /\ task[k].user = v
        BY <4>1 DEF AccountsInv, BanEndsSessions
      <4>3. \A k \in Tasks : task[k].pc = "signOut" => task'[k] = task[k]
        BY <1>1, <1>6
      <4> QED
        BY <1>1, <4>2, <4>3
    <3> QED
      BY <3>1, <3>2
  <2> QED
    BY <2>1 DEF BanEndsSessions
<1>12. SignInsAreCrossed'
  <2>1. ASSUME NEW k \in Tasks, task'[k].pc \in SignIn, row'[task'[k].user].banned
        PROVE  task'[k].user \in crossed'
    <3>1. task'[k] = task[k] /\ task[k].user \in Users
      BY <1>6, <2>1 DEF SignIn, AccountsInv, TasksFit
    <3>2. CASE task[k].user = u
      <4>1. SigningIn(u)
        BY <2>1, <3>1, <3>2 DEF SigningIn, SignIn
      <4> QED
        BY <1>1, <3>1, <3>2, <4>1
    <3>3. CASE task[k].user # u
      BY <1>1, <1>8, <2>1, <3>1, <3>3 DEF AccountsInv, SignInsAreCrossed
    <3> QED
      BY <3>2, <3>3
  <2> QED
    BY <2>1 DEF SignInsAreCrossed
<1>13. AdminsInv'
  <2>1. task[t].pc \in Removing /\ task'[t].pc \notin Removing \cup {"promote"} /\ excused' = excused
        /\ task[t].pc # "leave"
    BY <1>1, <1>6 DEF Removing
  <2> QED
    BY <1>2, <1>6, <1>8, <2>1, RemovalEnds DEF AccountsInv
<1> QED
  BY <1>6, <1>8, <1>9, <1>10, <1>11, <1>12, <1>13 DEF AccountsInv

LEMMA DemoteKeeps ==
    ASSUME AccountsInv, NEW t \in Tasks, DemoteWrite(t)
    PROVE  AccountsInv'
<1> PICK u : u = task[t].user
  OBVIOUS
<1>1. /\ task[t].pc = "demote" /\ UNCHANGED <<session, vouched, crossed, excused>>
      /\ row' = IF Here(u) THEN [row EXCEPT ![u].role = "user"] ELSE row
      /\ Finish(t)
  BY DEF DemoteWrite
<1>2. u \in Users /\ row[u] \in UserRow
  BY <1>1, RowTyped DEF AccountsInv, TasksFit, Removing
<1>0. PICK q : q = IF Here(u) THEN [row[u] EXCEPT !.role = "user"] ELSE row[u]
  OBVIOUS
<1>3. /\ q \in UserRow /\ q.here = row[u].here /\ q.sub = row[u].sub /\ q.banned = row[u].banned
      /\ q.email = row[u].email /\ q.verified = row[u].verified
  BY <1>0, <1>2 DEF UserRow, Roles
<1>4. row' = [row EXCEPT ![u] = q] /\ (q.here \/ q = Gone)
  BY <1>0, <1>1, <1>2, <1>3, RowTyped DEF AccountsInv, RowsFit, Here
<1>6. /\ TasksFit' /\ task'[t].pc = "idle"
      /\ \A k \in Tasks \ {t} : task'[k] = task[k]
  BY <1>1, RequestEnds DEF AccountsInv
<1>7. u \in session' => q.here
  BY <1>1, <1>3 DEF AccountsInv, RowsFit, Here
<1>8. /\ RowsFit' /\ row'[u] = q
      /\ \A v \in Users \ {u} : row'[v] = row[v]
  <2>1. RowsFit /\ u \in Users /\ q \in UserRow
    BY <1>2, <1>3 DEF AccountsInv
  <2>2. row' = [row EXCEPT ![u] = q]
    BY <1>4
  <2>3. q.here \/ q = Gone
    BY <1>4
  <2>4. q.sub \in {None, row[u].sub} \/ BySub(q.sub) = {}
    BY <1>3
  <2>5. q.email \in {None, row[u].email} \/ Owner(q.email) = {}
    BY <1>3
  <2>6. session' \subseteq session \cup {u}
    BY <1>1
  <2>7. q.here \/ u \notin session'
    BY <1>7
  <2> QED
    BY <2>1, <2>2, <2>3, <2>4, <2>5, <2>6, <2>7, RowMoves
<1>9. HistoryFits'
  BY <1>1 DEF AccountsInv, HistoryFits
<1>10. \A v \in Users : /\ row'[v].verified = row[v].verified /\ row'[v].email = row[v].email
                        /\ row'[v].banned = row[v].banned
  BY <1>3, <1>8
<1>11. VerifiedWasVouched'
  BY <1>1, <1>10, VouchedStays DEF AccountsInv
<1>12. BanEndsSessions' /\ SignInsAreCrossed'
  <2>1. \A k \in Tasks : /\ task[k].pc = "signOut" =>
                                  task'[k].pc = "signOut" /\ task'[k].user = task[k].user
                         /\ task'[k].pc \in SignIn =>
                                  task[k].pc \in SignIn /\ task'[k].user = task[k].user
    BY <1>1, <1>6 DEF SignIn
  <2> QED
    BY <1>1, <1>10, <2>1, BansStay DEF AccountsInv
<1>13. AdminsInv'
  <2>1. task[t].pc \in Removing /\ task'[t].pc \notin Removing \cup {"promote"} /\ excused' = excused
        /\ task[t].pc # "leave"
    BY <1>1, <1>6 DEF Removing
  <2> QED
    BY <1>2, <1>6, <1>8, <2>1, RemovalEnds DEF AccountsInv
<1> QED
  BY <1>6, <1>8, <1>9, <1>11, <1>12, <1>13 DEF AccountsInv

LEMMA DeleteKeeps ==
    ASSUME AccountsInv, NEW t \in Tasks, DeleteWrite(t)
    PROVE  AccountsInv'
<1> PICK u : u = task[t].user
  OBVIOUS
<1>1. /\ task[t].pc \in {"delete", "leave"} /\ UNCHANGED <<vouched, excused>>
      /\ row' = [row EXCEPT ![u] = Gone]
      /\ session' = session \ {u} /\ crossed' = crossed \ {u}
      /\ Finish(t)
  BY DEF DeleteWrite, Keep
<1>2. u \in Users
  BY <1>1 DEF AccountsInv, TasksFit, Removing
<1>3. /\ TasksFit' /\ task'[t].pc = "idle"
      /\ \A k \in Tasks \ {t} : task'[k] = task[k]
  BY <1>1, RequestEnds DEF AccountsInv
<1>4. /\ RowsFit' /\ row'[u] = Gone
      /\ \A v \in Users \ {u} : row'[v] = row[v]
  <2>1. session' \subseteq session \cup {u} /\ u \notin session'
    BY <1>1
  <2>2. Gone \in UserRow /\ Gone.sub \in {None, row[u].sub} /\ Gone.email \in {None, row[u].email}
    BY GoneTyped
  <2> QED
    BY <1>1, <1>2, <2>1, <2>2, RowMoves DEF AccountsInv
<1>5. HistoryFits'
  BY <1>1 DEF AccountsInv, HistoryFits
<1>6. VerifiedWasVouched'
  BY <1>1, <1>4, GoneTyped, VouchedStays DEF AccountsInv
<1>7. ASSUME NEW v \in Users, row'[v].banned PROVE v # u /\ row'[v] = row[v]
  BY <1>4, <1>7, GoneTyped
<1>8. BanEndsSessions'
  <2>1. ASSUME NEW v \in session', row'[v].banned
        PROVE  v \in crossed' \/ \E k \in Tasks : task'[k].pc = "signOut" /\ task'[k].user = v
    <3>1. v \in Users /\ v \in session /\ v # u
      BY <1>1 DEF AccountsInv, RowsFit
    <3>2. v \in crossed \/ \E k \in Tasks : task[k].pc = "signOut" /\ task[k].user = v
      BY <1>7, <2>1, <3>1 DEF AccountsInv, BanEndsSessions
    <3>3. \A k \in Tasks : task[k].pc = "signOut" => task'[k] = task[k]
      BY <1>1, <1>3
    <3> QED
      BY <1>1, <3>1, <3>2, <3>3
  <2> QED
    BY <2>1 DEF BanEndsSessions
<1>9. SignInsAreCrossed'
  <2>1. ASSUME NEW k \in Tasks, task'[k].pc \in SignIn, row'[task'[k].user].banned
        PROVE  task'[k].user \in crossed'
    <3>1. task'[k] = task[k] /\ task[k].user \in Users
      BY <1>3, <2>1 DEF SignIn, AccountsInv, TasksFit
    <3>2. task[k].user # u /\ row[task[k].user].banned
      BY <1>7, <2>1, <3>1
    <3> QED
      BY <1>1, <2>1, <3>1, <3>2 DEF AccountsInv, SignInsAreCrossed
  <2> QED
    BY <2>1 DEF SignInsAreCrossed
<1>10. AdminsInv'
  <2>1. task[t].pc \in Removing /\ task'[t].pc \notin Removing \cup {"promote"} /\ excused' = excused
    BY <1>1, <1>3 DEF Removing
  <2> QED
    BY <1>2, <1>3, <1>4, <2>1, RemovalEnds DEF AccountsInv
<1> QED
  BY <1>3, <1>4, <1>5, <1>6, <1>8, <1>9, <1>10 DEF AccountsInv

(* The sessions of the banned or the unlinked go.                          *)
LEMMA SignOutKeeps ==
    ASSUME AccountsInv, NEW t \in Tasks, SignOut(t)
    PROVE  AccountsInv'
<1> PICK u : u = task[t].user
  OBVIOUS
<1>1. /\ task[t].pc = "signOut" /\ UNCHANGED <<row, vouched, crossed, excused>>
      /\ session' = session \ {u} /\ Finish(t)
  BY DEF SignOut, SignedOut
<1>2. /\ TasksFit' /\ task'[t].pc = "idle"
      /\ \A k \in Tasks \ {t} : task'[k] = task[k]
  BY <1>1, RequestEnds DEF AccountsInv
<1>3. session' \subseteq {v \in Users : Here(v)} /\ crossed' \subseteq Users
      /\ excused' \subseteq {"overlap", "mirror", "banned counted"}
  BY <1>1 DEF AccountsInv, RowsFit, HistoryFits
<1>4. BanEndsSessions'
  <2>1. ASSUME NEW v \in session', row'[v].banned
        PROVE  v \in crossed' \/ \E k \in Tasks : task'[k].pc = "signOut" /\ task'[k].user = v
    <3>1. v \in session /\ v # u /\ row[v].banned
      BY <1>1, <2>1
    <3>2. v \in crossed \/ \E k \in Tasks : task[k].pc = "signOut" /\ task[k].user = v
      BY <3>1 DEF AccountsInv, BanEndsSessions
    <3> QED
      BY <1>1, <1>2, <3>1, <3>2
  <2> QED
    BY <2>1 DEF BanEndsSessions
<1>5. SignInsAreCrossed'
  <2>1. \A k \in Tasks : task'[k].pc \in SignIn => task'[k] = task[k]
    BY <1>2 DEF SignIn
  <2> QED
    BY <1>1, <2>1 DEF AccountsInv, SignInsAreCrossed
<1>6. AdminsInv'
  <2>1. \A v \in Users : (ActiveAdmin(v) => ActiveAdmin(v)') /\ (Here(v)' => Here(v))
    BY <1>1 DEF ActiveAdmin, IsAdmin, Here
  <2>2. \A k \in Tasks :
              /\ task'[k].pc \in Guarded => task[k].pc \in Guarded
              /\ task'[k].pc = "leave" => task[k].pc = "leave"
              /\ task'[k].pc = "promote" <=> task[k].pc = "promote"
              /\ task'[k].pc \in Removing \cup {"promote"} => task'[k].user = task[k].user
    BY <1>1, <1>2 DEF Removing, Guarded
  <2> QED
    BY <1>1, <2>1, <2>2, AdminsStay DEF AccountsInv
<1> QED
  BY <1>1, <1>2, <1>3, <1>4, <1>5, <1>6, SameRows

LEMMA DeleteSessionsKeeps ==
    ASSUME AccountsInv, NEW t \in Tasks, DeleteSessions(t)
    PROVE  AccountsInv'
<1>1. /\ task[t].pc = "deleteSessions" /\ UNCHANGED <<row, vouched, crossed, excused>>
      /\ session' \subseteq session /\ Set(t, "delete")
  BY DEF DeleteSessions
<1>2. "delete" \in Pcs /\ task[t].user \in Users
  BY <1>1 DEF Pcs, Removing, AccountsInv, TasksFit
<1>3. /\ TasksFit' /\ task'[t].pc = "delete" /\ task'[t].user = task[t].user
      /\ \A k \in Tasks \ {t} : task'[k] = task[k]
  BY <1>1, <1>2, RequestGoes DEF AccountsInv
<1>4. session' \subseteq {v \in Users : Here(v)} /\ crossed' \subseteq Users
      /\ excused' \subseteq {"overlap", "mirror", "banned counted"}
  BY <1>1 DEF AccountsInv, RowsFit, HistoryFits
<1>5. BanEndsSessions' /\ SignInsAreCrossed'
  <2>1. \A k \in Tasks : /\ task[k].pc = "signOut" =>
                                  task'[k].pc = "signOut" /\ task'[k].user = task[k].user
                         /\ task'[k].pc \in SignIn =>
                                  task[k].pc \in SignIn /\ task'[k].user = task[k].user
    BY <1>1, <1>3 DEF SignIn
  <2> QED
    BY <1>1, <2>1, BansStay DEF AccountsInv
<1>6. AdminsInv'
  <2>1. \A v \in Users : (ActiveAdmin(v) => ActiveAdmin(v)') /\ (Here(v)' => Here(v))
    BY <1>1 DEF ActiveAdmin, IsAdmin, Here
  <2>2. \A k \in Tasks :
              /\ task'[k].pc \in Guarded => task[k].pc \in Guarded
              /\ task'[k].pc = "leave" => task[k].pc = "leave"
              /\ task'[k].pc = "promote" <=> task[k].pc = "promote"
              /\ task'[k].pc \in Removing \cup {"promote"} => task'[k].user = task[k].user
    BY <1>1, <1>3 DEF Removing, Guarded
  <2> QED
    BY <1>1, <2>1, <2>2, AdminsStay DEF AccountsInv
<1> QED
  BY <1>1, <1>3, <1>4, <1>5, <1>6, SameRows

(* An account is edited: nobody is banned or demoted by it, and at most a  *)
(* sign-out begins.                                                        *)
LEMMA Edited ==
    ASSUME AccountsInv, TasksFit', UNCHANGED <<vouched, crossed, excused>>, session' \subseteq session,
           \A k \in Tasks : \/ task'[k] = task[k]
                            \/ task[k].pc = "idle" /\ task'[k].pc = "signOut",
           NEW u \in Users, NEW r \in UserRow, row' = [row EXCEPT ![u] = r],
           Here(u), r.here, r.banned => row[u].banned, r.role = row[u].role \/ r.role = "admin",
           r.sub \in {None, row[u].sub},
           r.email = row[u].email \/ Owner(r.email) = {},
           r.verified => row[u].verified /\ r.email = row[u].email
    PROVE  AccountsInv'
<1>1. /\ RowsFit' /\ row'[u] = r
      /\ \A v \in Users \ {u} : row'[v] = row[v]
  BY RowMoves DEF AccountsInv
<1>2. HistoryFits'
  BY DEF AccountsInv, HistoryFits
<1>3. VerifiedWasVouched'
  BY <1>1, VouchedStays DEF AccountsInv
<1>4. \A v \in Users : (row'[v].banned => row[v].banned) /\ (Here(v)' => Here(v))
  BY <1>1 DEF Here
<1>5. BanEndsSessions' /\ SignInsAreCrossed'
  <2>1. \A k \in Tasks : /\ task[k].pc = "signOut" =>
                                  task'[k].pc = "signOut" /\ task'[k].user = task[k].user
                         /\ task'[k].pc \in SignIn =>
                                  task[k].pc \in SignIn /\ task'[k].user = task[k].user
    BY DEF SignIn
  <2> QED
    BY <1>4, <2>1, BansStay DEF AccountsInv
<1>6. AdminsInv'
  <2>1. \A v \in Users : ActiveAdmin(v) => ActiveAdmin(v)'
    BY <1>1 DEF ActiveAdmin, IsAdmin, Here
  <2>2. \A k \in Tasks :
              /\ task'[k].pc \in Guarded => task[k].pc \in Guarded
              /\ task'[k].pc = "leave" => task[k].pc = "leave"
              /\ task'[k].pc = "promote" <=> task[k].pc = "promote"
              /\ task'[k].pc \in Removing \cup {"promote"} => task'[k].user = task[k].user
    BY DEF Removing, Guarded
  <2> QED
    BY <1>4, <2>1, <2>2, AdminsStay DEF AccountsInv
<1> QED
  BY <1>1, <1>2, <1>3, <1>5, <1>6 DEF AccountsInv

LEMMA PromoteKeeps ==
    ASSUME AccountsInv, NEW a \in Users, NEW u \in Users, Promote(a, u)
    PROVE  AccountsInv'
<1> PICK r : r = [row[u] EXCEPT !.role = "admin"]
  OBVIOUS
<1>1. /\ Here(u) /\ row' = [row EXCEPT ![u] = r] /\ row[u] \in UserRow
      /\ UNCHANGED <<task, session, vouched, crossed, excused>>
  BY RowTyped DEF Promote, AccountsInv
<1>2. /\ r \in UserRow /\ r.here /\ r.banned = row[u].banned /\ r.role = "admin"
      /\ r.sub = row[u].sub /\ r.email = row[u].email /\ r.verified = row[u].verified
  BY <1>1 DEF UserRow, Roles, Here
<1>3. TasksFit'
  BY <1>1, RequestsStay DEF AccountsInv
<1> QED
  BY <1>1, <1>2, <1>3, Edited

LEMMA UnbanKeeps ==
    ASSUME AccountsInv, NEW a \in Users, NEW u \in Users, Unban(a, u)
    PROVE  AccountsInv'
<1> PICK r : r = [row[u] EXCEPT !.banned = FALSE]
  OBVIOUS
<1>1. /\ Here(u) /\ row' = [row EXCEPT ![u] = r] /\ row[u] \in UserRow
      /\ UNCHANGED <<task, session, vouched, crossed, excused>>
  BY RowTyped DEF Unban, AccountsInv
<1>2. /\ r \in UserRow /\ r.here /\ ~r.banned /\ r.role = row[u].role
      /\ r.sub = row[u].sub /\ r.email = row[u].email /\ r.verified = row[u].verified
  BY <1>1 DEF UserRow, Here
<1>3. TasksFit'
  BY <1>1, RequestsStay DEF AccountsInv
<1> QED
  BY <1>1, <1>2, <1>3, Edited

LEMMA UnlinkKeeps ==
    ASSUME AccountsInv, NEW t \in Tasks, NEW a \in Users, NEW u \in Users, Unlink(t, a, u)
    PROVE  AccountsInv'
<1> PICK q : q = [row[u] EXCEPT !.sub = None]
  OBVIOUS
<1> PICK r : r = [Idle EXCEPT !.pc = "signOut", !.op = "admin", !.user = u]
  OBVIOUS
<1>1. /\ task[t].pc = "idle" /\ Here(u) /\ row' = [row EXCEPT ![u] = q] /\ row[u] \in UserRow
      /\ task' = [task EXCEPT ![t] = r]
      /\ UNCHANGED <<session, vouched, crossed, excused>>
  BY RowTyped DEF Unlink, Keep, AccountsInv
<1>2. /\ q \in UserRow /\ q.here /\ q.banned = row[u].banned /\ q.role = row[u].role
      /\ q.sub = None /\ q.email = row[u].email /\ q.verified = row[u].verified
  BY <1>1 DEF UserRow, Here
<1>3. r \in TaskRecord /\ r.pc = "signOut" /\ r.user = u /\ ~r.ok
  BY RequestIdle DEF TaskRecord, Pcs
<1>4. /\ TasksFit' /\ task'[t] = r
      /\ \A k \in Tasks \ {t} : task'[k] = task[k]
  BY <1>1, <1>3, RequestMoves, ZenonT(60) DEF AccountsInv
<1>5. \A k \in Tasks : task'[k] = task[k] \/ (task[k].pc = "idle" /\ task'[k].pc = "signOut")
  BY <1>1, <1>3, <1>4
<1> QED
  BY <1>1, <1>2, <1>4, <1>5, Edited

LEMMA DriftKeeps ==
    ASSUME AccountsInv, NEW u \in Users, Drift(u)
    PROVE  AccountsInv'
<1> PICK r : r = row[u]
  OBVIOUS
<1>1. /\ Here(u) /\ row' = [row EXCEPT ![u] = r] /\ r \in UserRow /\ r.here
      /\ UNCHANGED <<task, vouched, crossed, excused>> /\ session' \subseteq session
  BY RowTyped DEF Drift, SignedIn, AccountsInv, Here
<1>2. TasksFit'
  BY <1>1, RequestsStay DEF AccountsInv
<1> QED
  BY <1>1, <1>2, Edited

LEMMA EditEmailKeeps ==
    ASSUME AccountsInv, NEW u \in Users, NEW e \in Emails \cup {None}, EditEmail(u, e)
    PROVE  AccountsInv'
<1> PICK r : r = [row[u] EXCEPT !.email = e, !.verified = FALSE]
  OBVIOUS
<1>1. /\ Here(u) /\ row' = [row EXCEPT ![u] = r] /\ row[u] \in UserRow /\ Owner(e) = {}
      /\ UNCHANGED <<task, session, vouched, crossed, excused>>
  BY RowTyped DEF EditEmail, SignedIn, Keep, AccountsInv
<1>2. /\ r \in UserRow /\ r.here /\ r.banned = row[u].banned /\ r.role = row[u].role
      /\ r.sub = row[u].sub /\ r.email = e /\ ~r.verified
  BY <1>1 DEF UserRow, Here
<1>3. TasksFit'
  BY <1>1, RequestsStay DEF AccountsInv
<1> QED
  BY <1>1, <1>2, <1>3, Edited

(* The seed comes to a site without an administrator, at rest.             *)
LEMMA SeedKeeps ==
    ASSUME AccountsInv, NEW e \in Emails, SeedAdmin(e)
    PROVE  AccountsInv'
<1>1. PICK u \in Free : row' = [row EXCEPT ![u] = [Gone EXCEPT !.here = TRUE, !.role = "admin",
                                                               !.email = e, !.verified = TRUE]]
  BY DEF SeedAdmin, Keep
<1> PICK r : r = [Gone EXCEPT !.here = TRUE, !.role = "admin", !.email = e, !.verified = TRUE]
  OBVIOUS
<1>2. /\ Owner(e) = {} /\ vouched' = vouched \cup {<<None, e>>}
      /\ \A k \in Tasks : task[k].pc = "idle"
      /\ UNCHANGED <<session, task, crossed, excused>>
  BY DEF SeedAdmin
<1>3. /\ r \in UserRow /\ r.here /\ ~r.banned /\ r.role = "admin" /\ r.sub = None
      /\ r.email = e /\ r.verified
  BY GoneTyped DEF UserRow, Roles
<1>4. u \in Users /\ ~Here(u) /\ row' = [row EXCEPT ![u] = r]
  BY <1>1 DEF Free
<1>5. /\ RowsFit' /\ row'[u] = r
      /\ \A v \in Users \ {u} : row'[v] = row[v]
  <2>1. RowsFit /\ u \in Users /\ r \in UserRow
    BY <1>3, <1>4 DEF AccountsInv
  <2>2. row' = [row EXCEPT ![u] = r]
    BY <1>4
  <2>3. r.here \/ r = Gone
    BY <1>3
  <2>4. r.sub \in {None, row[u].sub} \/ BySub(r.sub) = {}
    BY <1>3
  <2>5. r.email \in {None, row[u].email} \/ Owner(r.email) = {}
    BY <1>2, <1>3
  <2>6. session' \subseteq session \cup {u}
    BY <1>2
  <2>7. r.here \/ u \notin session'
    BY <1>3
  <2> QED
    BY <2>1, <2>2, <2>3, <2>4, <2>5, <2>6, <2>7, RowMoves
<1>6. TasksFit'
  BY <1>2, RequestsStay DEF AccountsInv
<1>7. HistoryFits'
  <2>1. <<None, e>> \in (Subs \cup {None}) \X Emails
    OBVIOUS
  <2>2. vouched' \subseteq (Subs \cup {None}) \X Emails
    BY <1>2, <2>1 DEF AccountsInv, HistoryFits
  <2> QED
    BY <1>2, <2>2 DEF AccountsInv, HistoryFits
<1>8. VerifiedWasVouched'
  <2>1. <<None, r.email>> \in vouched'
    BY <1>2, <1>3
  <2>2. \A v \in Users : row'[v].verified =>
              \/ row[v].verified /\ row'[v].email = row[v].email
              \/ \E s \in Subs \cup {None} : <<s, row'[v].email>> \in vouched'
    BY <1>5, <2>1
  <2> QED
    BY <1>2, <2>2, VouchedStays DEF AccountsInv
<1>9. BanEndsSessions' /\ SignInsAreCrossed'
  <2>1. \A v \in Users : row'[v].banned => row[v].banned
    BY <1>3, <1>5
  <2>2. \A k \in Tasks : task'[k].pc \notin SignIn
    BY <1>2 DEF SignIn
  <2> QED
    BY <1>2, <2>1, <2>2, BansStay DEF AccountsInv
<1>10. AdminsInv'
  <2>1. ActiveAdmin(u)'
    BY <1>3, <1>5 DEF ActiveAdmin, IsAdmin, Here
  <2>2. OneAtATime' /\ RemovalsLeaveOne' /\ FirstIsAlone'
    BY <1>2 DEF OneAtATime, RemovalsLeaveOne, FirstIsAlone, Guarded, Removing
  <2>3. AdminRemains'
    BY <1>4, <2>1 DEF AdminRemains
  <2> QED
    BY <2>2, <2>3 DEF AdminsInv
<1> QED
  BY <1>5, <1>6, <1>7, <1>8, <1>9, <1>10 DEF AccountsInv

LEMMA AccountsStep == AccountsInv /\ [Next]_vars => AccountsInv'
<1> SUFFICES ASSUME AccountsInv, [Next]_vars PROVE AccountsInv'
  OBVIOUS
<1>1. CASE UNCHANGED vars
  <2>1. UNCHANGED <<row, session, task, vouched, crossed, excused>>
    BY <1>1 DEF vars
  <2>2. TasksFit'
    BY <2>1, RequestsStay DEF AccountsInv
  <2>3. /\ session' \subseteq {u \in Users : Here(u)} /\ crossed' \subseteq Users
        /\ excused' \subseteq {"overlap", "mirror", "banned counted"}
    BY <2>1 DEF AccountsInv, RowsFit, HistoryFits
  <2>4. BanEndsSessions' /\ SignInsAreCrossed'
    BY <2>1 DEF AccountsInv, BanEndsSessions, SignInsAreCrossed
  <2>5. AdminsInv'
    <3>1. \A v \in Users : (ActiveAdmin(v) => ActiveAdmin(v)') /\ (Here(v)' => Here(v))
      BY <2>1 DEF ActiveAdmin, IsAdmin, Here
    <3> QED
      BY <2>1, <3>1, AdminsStay DEF AccountsInv
  <2> QED
    BY <2>1, <2>2, <2>3, <2>4, <2>5, SameRows
<1>2. ASSUME NEW t \in Tasks, NEW s \in Subs, NEW e \in Emails \cup {None},
             NEW ok \in BOOLEAN, NEW admin \in BOOLEAN, LoginResolve(t, s, e, ok, admin)
      PROVE  AccountsInv'
  BY <1>2, ResolveKeeps
<1>3. ASSUME NEW t \in Tasks, LoginStep(t) PROVE AccountsInv'
  BY <1>3, ReleaseKeeps, LinkKeeps, LinkedKeeps, ProvisionKeeps, FirstKeeps, MirrorKeeps,
     StampKeeps, MintKeeps DEF LoginStep
<1>4. ASSUME NEW t \in Tasks, NEW a \in Users, NEW u \in Users,
             \/ \E pc \in {"ban", "demote", "deleteSessions"} : AdminGuard(t, a, u, pc)
             \/ Unlink(t, a, u)
      PROVE  AccountsInv'
  BY <1>4, RemovalGuardKeeps, UnlinkKeeps
<1>5. ASSUME NEW t \in Tasks, BanWrite(t) \/ SignOut(t) \/ DemoteWrite(t) \/ DeleteSessions(t)
                              \/ DeleteWrite(t)
      PROVE  AccountsInv'
  BY <1>5, BanKeeps, SignOutKeeps, DemoteKeeps, DeleteSessionsKeeps, DeleteKeeps
<1>6. ASSUME NEW t \in Tasks, NEW u \in Users, LeaveCheck(t, u) PROVE AccountsInv'
  BY <1>6, LeaveKeeps
<1>7. ASSUME NEW a \in Users, NEW u \in Users, Promote(a, u) \/ Unban(a, u) PROVE AccountsInv'
  BY <1>7, PromoteKeeps, UnbanKeeps
<1>8. ASSUME NEW u \in Users, Drift(u) \/ \E e \in Emails \cup {None} : EditEmail(u, e)
      PROVE  AccountsInv'
  BY <1>8, DriftKeeps, EditEmailKeeps
<1>9. ASSUME NEW e \in Emails, SeedAdmin(e) PROVE AccountsInv'
  BY <1>9, SeedKeeps
<1> QED
  BY <1>1, <1>2, <1>3, <1>4, <1>5, <1>6, <1>7, <1>8, <1>9 DEF Next

-------------------------------------------------------------------------------
(* No row is re-pointed                                                    *)

Repoints(u) ==
    /\ Here(u) /\ row'[u].here /\ row'[u].sub # row[u].sub
    /\ None \notin {row[u].sub, row'[u].sub}

LEMMA OneRowMoves ==
    ASSUME RowsFit, NEW w \in Users, NEW r \in UserRow, row' = [row EXCEPT ![w] = r],
           Here(w) /\ r.here => r.sub = row[w].sub \/ None \in {row[w].sub, r.sub}
    PROVE  \A u \in Users : ~Repoints(u)
<1>1. row'[w] = r /\ \A v \in Users \ {w} : row'[v] = row[v]
  BY RowTyped
<1> QED
  BY <1>1 DEF Repoints

(* A subject is set where there was none, is cleared, or comes and goes    *)
(* with its row.                                                           *)
LEMMA NobodyRepoints ==
    ASSUME AccountsInv, [Next]_vars
    PROVE  \A u \in Users : ~Repoints(u)
<1> DEFINE Done == \A u \in Users : ~Repoints(u)
<1>1. row' = row => Done
  BY DEF Repoints
<1>2. ASSUME NEW w \in Users, NEW r, row' = [row EXCEPT ![w] = r], r \in UserRow,
             Here(w) /\ r.here => r.sub = row[w].sub \/ None \in {row[w].sub, r.sub}
      PROVE  Done
  BY <1>2, OneRowMoves DEF AccountsInv
<1>3. \A w \in Users : row[w] \in UserRow
  BY RowTyped DEF AccountsInv
<1>4. \A t \in Tasks : task[t].pc \in SignIn \cup Removing \cup {"release"} => task[t].user \in Users
  BY DEF AccountsInv, TasksFit
<1>5. RowsFit /\ row = [w \in Users |-> row[w]]
  BY DEF AccountsInv, RowsFit
<1> HIDE DEF Done
<1>6. ASSUME NEW t \in Tasks, LoginRelease(t) PROVE Done
  <2> PICK w : w = task[t].user
    OBVIOUS
  <2> PICK r : r = [row[w] EXCEPT !.email = None, !.verified = FALSE]
    OBVIOUS
  <2>1. w \in Users /\ row' = [row EXCEPT ![w].email = None, ![w].verified = FALSE]
    BY <1>4, <1>6 DEF LoginRelease
  <2>2. r \in UserRow /\ r.sub = row[w].sub
    BY <1>3, <2>1 DEF UserRow
  <2>3. row' = [row EXCEPT ![w] = r]
    BY <1>5, <2>1
  <2> QED
    BY <1>2, <2>1, <2>2, <2>3
<1>7. ASSUME NEW t \in Tasks, LoginLink(t) PROVE Done
  <2> PICK w : w = task[t].user
    OBVIOUS
  <2> PICK r : r = [row[w] EXCEPT !.sub = task[t].sub]
    OBVIOUS
  <2>1. /\ w \in Users /\ task[t].sub \in Subs
        /\ row' = row \/ (row[w].sub = None /\ row' = [row EXCEPT ![w] = r])
    BY <1>4, <1>7 DEF LoginLink, Linkable, Keep, SignIn, AccountsInv, TasksFit
  <2>2. r \in UserRow
    BY <1>3, <2>1 DEF UserRow
  <2> QED
    BY <1>1, <1>2, <2>1, <2>2
<1>8. ASSUME NEW t \in Tasks, LoginProvision(t) PROVE Done
  <2>1. CASE row' = row
    BY <1>1, <2>1
  <2>2. CASE row' # row
    <3>1. PICK w \in Free :
             Keep(w, [Gone EXCEPT !.here = TRUE, !.sub = task[t].sub, !.email = task[t].email])
      BY <1>8, <2>2 DEF LoginProvision
    <3> PICK r : r = [Gone EXCEPT !.here = TRUE, !.sub = task[t].sub, !.email = task[t].email]
      OBVIOUS
    <3>2. w \in Users /\ ~Here(w) /\ row' = [row EXCEPT ![w] = r]
      BY <3>1 DEF Free, Keep
    <3>3. task[t].sub \in Subs \cup {None} /\ task[t].email \in Emails \cup {None}
      BY TaskTyped DEF AccountsInv, TaskRecord
    <3>4. r \in UserRow
      BY <3>3, GoneTyped DEF UserRow
    <3> QED
      BY <1>2, <3>2, <3>4
  <2> QED
    BY <2>1, <2>2
<1>9. ASSUME NEW w \in Users, NEW role \in Roles, row' = [row EXCEPT ![w].role = role]
      PROVE  Done
  <2> PICK r : r = [row[w] EXCEPT !.role = role]
    OBVIOUS
  <2>1. r \in UserRow /\ r.sub = row[w].sub
    BY <1>3 DEF UserRow
  <2>2. row' = [row EXCEPT ![w] = r]
    BY <1>5, <1>9
  <2> QED
    BY <1>2, <2>1, <2>2
<1>10. ASSUME NEW t \in Tasks, LoginPromote(t) \/ LoginMirror(t) \/ DemoteWrite(t) PROVE Done
  <2>1. task[t].user \in Users
    BY <1>4, <1>10 DEF LoginPromote, LoginMirror, DemoteWrite, SignIn, Removing
  <2>2. row' = row \/ \E role \in Roles : row' = [row EXCEPT ![task[t].user].role = role]
    BY <1>10 DEF LoginPromote, LoginMirror, DemoteWrite, Mirrored, Roles
  <2> QED
    BY <1>1, <1>9, <2>1, <2>2
<1>11. ASSUME NEW t \in Tasks, LoginStamp(t) PROVE Done
  <2> PICK w : w = task[t].user
    OBVIOUS
  <2> PICK r : r = [row[w] EXCEPT !.verified = TRUE]
    OBVIOUS
  <2>1. w \in Users /\ (row' = row \/ row' = [row EXCEPT ![w].verified = TRUE])
    BY <1>4, <1>11 DEF LoginStamp, SignIn
  <2>2. r \in UserRow /\ r.sub = row[w].sub
    BY <1>3, <2>1 DEF UserRow
  <2>3. row' = row \/ row' = [row EXCEPT ![w] = r]
    BY <1>5, <2>1
  <2> QED
    BY <1>1, <1>2, <2>1, <2>2, <2>3
<1>12. ASSUME NEW w \in Users, NEW b \in BOOLEAN, row' = [row EXCEPT ![w].banned = b]
       PROVE  Done
  <2> PICK r : r = [row[w] EXCEPT !.banned = b]
    OBVIOUS
  <2>1. r \in UserRow /\ r.sub = row[w].sub
    BY <1>3 DEF UserRow
  <2>2. row' = [row EXCEPT ![w] = r]
    BY <1>5, <1>12
  <2> QED
    BY <1>2, <2>1, <2>2
<1>13. ASSUME NEW t \in Tasks, BanWrite(t) PROVE Done
  <2>1. task[t].user \in Users /\ (row' = row \/ row' = [row EXCEPT ![task[t].user].banned = TRUE])
    BY <1>4, <1>13 DEF BanWrite, Removing
  <2> QED
    BY <1>1, <1>12, <2>1
<1>14. ASSUME NEW t \in Tasks, DeleteWrite(t) PROVE Done
  <2>1. task[t].user \in Users /\ row' = [row EXCEPT ![task[t].user] = Gone]
    BY <1>4, <1>14 DEF DeleteWrite, Keep, Removing
  <2> QED
    BY <1>2, <2>1, GoneTyped
<1>15. ASSUME NEW t \in Tasks, NEW a \in Users, NEW u \in Users, Unlink(t, a, u) PROVE Done
  <2> PICK r : r = [row[u] EXCEPT !.sub = None]
    OBVIOUS
  <2>1. r \in UserRow /\ r.sub = None /\ row' = [row EXCEPT ![u] = r]
    BY <1>3, <1>15 DEF UserRow, Unlink, Keep
  <2> QED
    BY <1>2, <2>1
<1>16. ASSUME NEW u \in Users, NEW e \in Emails \cup {None}, EditEmail(u, e) PROVE Done
  <2> PICK r : r = [row[u] EXCEPT !.email = e, !.verified = FALSE]
    OBVIOUS
  <2>1. r \in UserRow /\ r.sub = row[u].sub /\ row' = [row EXCEPT ![u] = r]
    BY <1>3, <1>16 DEF UserRow, EditEmail, Keep
  <2> QED
    BY <1>2, <2>1
<1>17. ASSUME NEW e \in Emails, SeedAdmin(e) PROVE Done
  <2>1. PICK w \in Free : Keep(w, [Gone EXCEPT !.here = TRUE, !.role = "admin",
                                                !.email = e, !.verified = TRUE])
    BY <1>17 DEF SeedAdmin
  <2> PICK r : r = [Gone EXCEPT !.here = TRUE, !.role = "admin", !.email = e, !.verified = TRUE]
    OBVIOUS
  <2>2. w \in Users /\ ~Here(w) /\ row' = [row EXCEPT ![w] = r] /\ r \in UserRow
    BY <2>1, GoneTyped DEF Free, Keep, UserRow, Roles
  <2> QED
    BY <1>2, <2>2
<1>18. ASSUME NEW t \in Tasks, LoginStep(t) PROVE Done
  <2>1. LoginLinked(t) \/ LoginMint(t) => row' = row
    BY DEF LoginLinked, LoginMint
  <2> QED
    BY <1>1, <1>6, <1>7, <1>8, <1>10, <1>11, <1>18, <2>1 DEF LoginStep
<1>19. ASSUME NEW a \in Users, NEW u \in Users, Promote(a, u) \/ Unban(a, u) PROVE Done
  <2>1. Promote(a, u) => row' = [row EXCEPT ![u].role = "admin"]
    BY DEF Promote
  <2>2. Unban(a, u) => row' = [row EXCEPT ![u].banned = FALSE]
    BY DEF Unban
  <2>3. "admin" \in Roles /\ FALSE \in BOOLEAN
    BY DEF Roles
  <2> QED
    BY <1>9, <1>12, <1>19, <2>1, <2>2, <2>3
<1>20. ASSUME NEW t \in Tasks, SignOut(t) \/ DeleteSessions(t) PROVE Done
  BY <1>1, <1>20 DEF SignOut, DeleteSessions
<1>21. ASSUME NEW t \in Tasks, NEW s \in Subs, NEW e \in Emails \cup {None},
              NEW ok \in BOOLEAN, NEW admin \in BOOLEAN, LoginResolve(t, s, e, ok, admin)
       PROVE  Done
  BY <1>1, <1>21 DEF LoginResolve
<1>22. ASSUME NEW t \in Tasks, NEW a \in Users, NEW u \in Users,
              (\E pc \in {"ban", "demote", "deleteSessions"} : AdminGuard(t, a, u, pc))
                 \/ LeaveCheck(t, u)
       PROVE  Done
  BY <1>1, <1>22 DEF AdminGuard, LeaveCheck
<1>25. ASSUME NEW u \in Users, Drift(u) PROVE Done
  BY <1>1, <1>25 DEF Drift
<1>23. ASSUME UNCHANGED vars PROVE Done
  BY <1>1, <1>23 DEF vars
<1>24. ASSUME Next PROVE Done
  BY <1>10, <1>13, <1>14, <1>15, <1>16, <1>17, <1>18, <1>19, <1>20, <1>21, <1>22, <1>24, <1>25
     DEF Next
<1>26. Done
  BY <1>23, <1>24
<1> QED
  BY <1>26 DEF Done

-------------------------------------------------------------------------------
(* What holds of every run.                                                *)

LEMMA PeopleInitFits == PeopleInit => AccountsInv /\ ApprovalInv /\ HandlesInv
<1> SUFFICES ASSUME PeopleInit PROVE AccountsInv /\ ApprovalInv /\ HandlesInv
  OBVIOUS
<1> QED
  BY AccountsInit, ApprovalInit, HandlesInit DEF PeopleInit

(* A step of the composition is a step of one component.                   *)
LEMMA StepIsOfOne ==
    [PeopleNext]_<<part, vars, approval, names>> =>
        [Next]_vars /\ [A!Next]_approval /\ [H!Next]_names
BY DEF PeopleNext, Signing, Approving, Naming

(* For any users, subjects, addresses and requests in flight: a site with  *)
(* accounts keeps an administrator who can act, an address counts as       *)
(* verified only if it was vouched for, no two rows share a subject or an  *)
(* address, and a banned account has no session, but for the crossings     *)
(* that the code leaves open (routes/bunyip_sso.rs, routes/admin.rs,       *)
(* routes/account.rs, setup_admin.rs).                                     *)
THEOREM AccountsHoldForever == Spec => []AccountsHold
<1>1. AccountsInv => AccountsHold
  BY AccountsGive
<1>2. Init => AccountsInv
  BY AccountsInit
<1>3. AccountsInv /\ [Next]_vars => AccountsInv'
  BY AccountsStep
<1> QED
  BY <1>1, <1>2, <1>3, PTL DEF Spec

(* A row of users is never re-pointed from one subject to another without  *)
(* an administrator unlinking it in between, whatever sign-ons and         *)
(* administration overlap (LC-698, link_bunyip_sub of db/auth.rs).         *)
THEOREM SubjectsStay == Spec => NeverRepointed
<1>1. Init => AccountsInv
  BY AccountsInit
<1>2. AccountsInv /\ [Next]_vars => AccountsInv'
  BY AccountsStep
<1>3. AccountsInv /\ [Next]_vars =>
        [\A u \in Users : Here(u) /\ row'[u].here /\ row'[u].sub # row[u].sub =>
            None \in {row[u].sub, row'[u].sub}]_vars
  BY NobodyRepoints DEF Repoints
<1> QED
  BY <1>1, <1>2, <1>3, PTL DEF Spec, NeverRepointed

LEMMA LoginsGive == ApprovalInv /\ HandlesInv => LoginsHold
<1> SUFFICES ASSUME ApprovalInv, HandlesInv PROVE LoginsHold
  OBVIOUS
<1>1. A!ChallengeIsSingleUse
  BY ApprovalBounds DEF ApprovalInv, GuessesCount, A!TypeOK, A!ChallengeIsSingleUse
<1> QED
  BY <1>1 DEF ApprovalInv, HandlesInv, LoginsHold

(* The ways in: one challenge is good for MaxAttempts guesses and for one  *)
(* session however the requests that submit codes overlap, the baseline of *)
(* devices and countries was earned, and a handle given up stays with      *)
(* whoever gave it up (login_approval.rs, db/auth.rs, routes/settings.rs). *)
THEOREM LoginsHoldForever == PeopleSpec => []LoginsHold
<1>1. ApprovalInv /\ HandlesInv => LoginsHold
  BY LoginsGive
<1>2. PeopleInit => ApprovalInv /\ HandlesInv
  BY PeopleInitFits
<1>3. ApprovalInv /\ HandlesInv /\ [PeopleNext]_<<part, vars, approval, names>> =>
          (ApprovalInv /\ HandlesInv)'
  BY StepIsOfOne, ApprovalStep, HandlesStep
<1> QED
  BY <1>1, <1>2, <1>3, PTL DEF PeopleSpec

(* Accounts keep what they promise in the composition that the runs check. *)
THEOREM AccountsHoldBesideTheRest == PeopleSpec => []AccountsHold /\ NeverRepointed
<1>1. AccountsInv => AccountsHold
  BY AccountsGive
<1>2. PeopleInit => AccountsInv
  BY PeopleInitFits
<1>3. AccountsInv /\ [PeopleNext]_<<part, vars, approval, names>> => AccountsInv'
  BY StepIsOfOne, AccountsStep
<1>4. AccountsInv /\ [PeopleNext]_<<part, vars, approval, names>> =>
        [\A u \in Users : Here(u) /\ row'[u].here /\ row'[u].sub # row[u].sub =>
            None \in {row[u].sub, row'[u].sub}]_vars
  BY StepIsOfOne, NobodyRepoints DEF Repoints
<1> QED
  BY <1>1, <1>2, <1>3, <1>4, PTL DEF PeopleSpec, NeverRepointed
===============================================================================
