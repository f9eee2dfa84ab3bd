------------------------------ MODULE Handles -------------------------------
(***************************************************************************)
(* Chat handles (db/auth.rs, routes/settings.rs): a handle is derived when *)
(* the account is provisioned, confirmed or chosen on the welcome page,    *)
(* and changed in the settings; a handle given up is reserved for its last *)
(* owner for as long as that owner may not change again.                   *)
(*                                                                         *)
(* Spelling is left out: a handle is its case-insensitive key.  The two    *)
(* periods are equal in the code; here either may end first.               *)
(***************************************************************************)
EXTENDS Naturals, FiniteSets

CONSTANTS
    Users,
    Names,          \* handles nobody but accounts may hold
    Tasks,          \* requests between a check and the write it decides
    None, Deleted,  \* no account yet, no account any more
    MaxChanges      \* bound: handles assigned, confirmed or changed

\* What a configuration must give.
HandlesAssumption == {None, Deleted} \cap (Users \cup Names) = {} /\ None # Deleted /\ MaxChanges \in Nat

VARIABLES
    handle,         \* users.username
    confirmed,      \* users.username_confirmed_at is set
    cooling,        \* users.username_changed_at is within the period
    reserved,       \* reserved_usernames still in force
    task,
    changes,
    given,          \* history: who gave a confirmed handle up, this period
    raced           \* history: handles a stale check let through

vars == <<handle, confirmed, cooling, reserved, task, changes, given, raced>>

Idle == [pc |-> "idle", user |-> None, name |-> None, was |-> None]

Init ==
    /\ handle = [u \in Users |-> None]
    /\ confirmed = {} /\ cooling = {}
    /\ reserved = [h \in Names |-> None]
    /\ task = [t \in Tasks |-> Idle]
    /\ changes = 0
    /\ given = [h \in Names |-> None]
    /\ raced = {}

Change == changes < MaxChanges /\ changes' = changes + 1
Finish(t) == task' = [task EXCEPT ![t] = Idle]

(* Variant: only confirmed handles are looked at. *)
ConfirmedByOther(h, u) == \E v \in Users \ {u} : v \in confirmed /\ handle[v] = h

(* The unique index on username. *)
HeldByOther(h, u) == \E v \in Users \ {u} : handle[v] = h

(* Variant: reservations are not asked. *)
FreeOfHolders(h, u) == ~HeldByOther(h, u)

(* handle_available_for *)
Available(h, u) == ~HeldByOther(h, u) /\ reserved[h] \in {None, u}

-----------------------------------------------------------------------------
(* pick_username, then create_user_from_bunyip *)
PickCheck(t, u, h) ==
    /\ task[t].pc = "idle" /\ Change
    /\ handle[u] = None /\ \A k \in Tasks : task[k].user # u
    /\ Available(h, None)
    /\ task' = [task EXCEPT ![t] = [Idle EXCEPT !.pc = "insert", !.user = u, !.name = h]]
    /\ UNCHANGED <<handle, confirmed, cooling, reserved, given, raced>>

(* The unique index sees holders, not reservations. *)
PickInsert(t) ==
    LET u == task[t].user h == task[t].name
    IN  /\ task[t].pc = "insert"
        /\ IF HeldByOther(h, u) THEN UNCHANGED <<handle, raced>>
           ELSE /\ handle' = [handle EXCEPT ![u] = h]
                /\ raced' = IF reserved[h] # None \/ given[h] # None THEN raced \cup {h} ELSE raced
        /\ Finish(t)
        /\ UNCHANGED <<confirmed, cooling, reserved, changes, given>>

(* Variant: a reclaimed handle stays reserved. *)
NeverReclaims(u, old, new, reserve) ==
    [h \in Names |-> IF reserve /\ h = old /\ old # new THEN u ELSE reserved[h]]

(* change_username: the old handle is reserved, the new one reclaimed. *)
Reservations(u, old, new, reserve) ==
    [h \in Names |->
        IF h = new /\ reserved[h] = u THEN None
        ELSE IF reserve /\ h = old /\ old # new THEN u
        ELSE reserved[h]]

(* Its one transaction, for a request that found the cooldown over or does *)
(* not ask, and what the model remembers of the handle given up.           *)
Assign(u, new, reserve) ==
    LET old == handle[u]
    IN  /\ reserved' = Reservations(u, old, new, reserve)
        /\ handle' = [handle EXCEPT ![u] = new]
        /\ confirmed' = confirmed \cup {u}
        /\ cooling' = IF reserve THEN cooling \cup {u} ELSE cooling
        /\ given' = [h \in Names |->
               IF h = new /\ given[h] = u THEN None
               ELSE IF h = old /\ old # new /\ u \in confirmed THEN u ELSE given[h]]

(* post_profile: administrators do not wait. *)
SettingsChange(u, new, admin) ==
    /\ u \in confirmed /\ new # handle[u] /\ Change
    /\ admin \/ u \notin cooling
    /\ Available(new, u)
    /\ Assign(u, new, TRUE)
    /\ UNCHANGED <<task, raced>>

(* post_welcome_handle, for an account that was not confirmed when the     *)
(* request was let in ...                                                  *)
WelcomeOpen(t, u, h) ==
    /\ task[t].pc = "idle" /\ Change
    /\ handle[u] \in Names /\ u \notin confirmed
    /\ task' = [task EXCEPT ![t] = [pc |-> "welcome", user |-> u, name |-> h, was |-> handle[u]]]
    /\ UNCHANGED <<handle, confirmed, cooling, reserved, given, raced>>

(* ... accepts the derived handle, or chooses another.  By now it may be   *)
(* confirmed: the handle it gives up then is kept for nobody.              *)
Welcome(t) ==
    LET u == task[t].user h == task[t].name
    IN  /\ task[t].pc = "welcome" /\ Finish(t)
        /\ IF handle[u] = Deleted \/ ~Available(h, u)
           THEN UNCHANGED <<handle, confirmed, cooling, reserved, given, raced>>
           ELSE IF h = task[t].was
           THEN /\ confirmed' = confirmed \cup {u}
                /\ UNCHANGED <<handle, cooling, reserved, given, raced>>
           ELSE /\ Assign(u, h, FALSE)
                /\ raced' = IF u \in confirmed /\ handle[u] # h THEN raced \cup {handle[u]} ELSE raced
        /\ UNCHANGED changes

(* The period of a handle, and of a change, ends. *)
Expire(h) ==
    /\ reserved[h] # None \/ given[h] # None
    /\ reserved' = [reserved EXCEPT ![h] = None]
    /\ given' = [given EXCEPT ![h] = None]
    /\ UNCHANGED <<handle, confirmed, cooling, task, changes, raced>>

CoolOff(u) ==
    /\ u \in cooling
    /\ cooling' = cooling \ {u}
    /\ UNCHANGED <<handle, confirmed, reserved, task, changes, given, raced>>

(* delete_user: the row goes, its reservations stay. *)
Delete(u) ==
    /\ handle[u] \in Names /\ Change
    /\ handle' = [handle EXCEPT ![u] = Deleted]
    /\ confirmed' = confirmed \ {u} /\ cooling' = cooling \ {u}
    /\ UNCHANGED <<reserved, task, given, raced>>

Next ==
    \/ \E t \in Tasks :
          \/ \E u \in Users, h \in Names : PickCheck(t, u, h) \/ WelcomeOpen(t, u, h)
          \/ PickInsert(t) \/ Welcome(t)
    \/ \E u \in Users :
          \/ \E h \in Names, admin \in BOOLEAN : SettingsChange(u, h, admin)
          \/ CoolOff(u) \/ Delete(u)
    \/ \E h \in Names : Expire(h)

Spec == Init /\ [][Next]_vars

-----------------------------------------------------------------------------
(* Types; no handle is on two accounts. *)
TypeOK ==
    /\ handle \in [Users -> Names \cup {None, Deleted}]
    /\ \A u, v \in Users : handle[u] = handle[v] /\ handle[u] \in Names => u = v
    /\ confirmed \cup cooling \subseteq {u \in Users : handle[u] \in Names}
    /\ reserved \in [Names -> Users \cup {None}]
    /\ given \in [Names -> Users \cup {None}]
    /\ raced \subseteq Names

(* A handle its owner gave up this period resolves to nobody else (LC-766, *)
(* LC-913), but for a handle that was checked before it was given up and   *)
(* written after, and one given up by a stale welcome page.                *)
GivenUpIsKept ==
    \A h \in Names : given[h] # None /\ h \notin raced =>
        \A u \in Users : handle[u] = h => u = given[h]

(* Nobody holds a handle that is reserved for them: a change back drops    *)
(* the reservation it came from, so no later owner is blocked by it.       *)
NoLingeringReservation ==
    \A h \in Names : reserved[h] # None => handle[reserved[h]] # h
=============================================================================
