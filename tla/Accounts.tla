------------------------------ MODULE Accounts ------------------------------
(***************************************************************************)
(* Accounts, their roles and their identities: the callback of the single  *)
(* sign-on (routes/bunyip_sso.rs), the administrator's user page           *)
(* (routes/admin.rs), the deletion of one's own account                    *)
(* (routes/account.rs) and the seed of the first start (setup_admin.rs).   *)
(*                                                                         *)
(* A request is a task.  A step of a task ends where its handler awaits    *)
(* between a read and the write it decides, or between two statements.     *)
(* Bots, expiring sessions and the moderator role are left out: to the     *)
(* guard and to the mirror a moderator is a user.                          *)
(***************************************************************************)
EXTENDS Naturals, FiniteSets

CONSTANTS
    Users,          \* ids of rows of users
    Subs,           \* subjects of the identity provider
    Emails,
    Tasks,          \* requests in flight
    None,
    MaxLogins,      \* bound: sign-ons begun
    MaxEdits        \* bound: requests of signed-in people

ASSUME AccountsAssumption ==
    /\ None \notin Users \cup Subs \cup Emails
    /\ MaxLogins \in Nat /\ MaxEdits \in Nat

VARIABLES
    row,            \* users
    session,        \* the users with a row in sessions
    task,           \* what each request is doing
    logins, edits,
    vouched,        \* history: <<sub, email>> the provider called verified
    crossed,        \* history: users banned while a sign-on of theirs ran
    excused         \* history: the ways past the last administrator guard

vars == <<row, session, task, logins, edits, vouched, crossed, excused>>

Roles == {"user", "admin"}
Gone == [here |-> FALSE, role |-> "user", banned |-> FALSE, sub |-> None,
         email |-> None, verified |-> FALSE]
Idle == [pc |-> "idle", op |-> "none", user |-> None, sub |-> None, email |-> None,
         ok |-> FALSE, admin |-> FALSE]

Here(u) == row[u].here
Free == {u \in Users : ~Here(u)}
IsAdmin(u) == Here(u) /\ row[u].role = "admin"
ActiveAdmin(u) == IsAdmin(u) /\ ~row[u].banned
SignedIn(u) == u \in session /\ Here(u) /\ ~row[u].banned
AdminUser(u) == SignedIn(u) /\ IsAdmin(u)

(* An empty database, or a site with two administrators at work. *)
Established(u, v, s) ==
    [w \in Users |-> IF w \in {u, v}
        THEN [Gone EXCEPT !.here = TRUE, !.role = "admin", !.sub = s[w]]
        ELSE Gone]

Init ==
    /\ \/ row = [u \in Users |-> Gone] /\ session = {}
       \/ \E u, v \in Users : \E s \in [{u, v} -> Subs] :
             /\ u # v /\ s[u] # s[v]
             /\ row = Established(u, v, s)
             /\ session = {u, v}
    /\ task = [t \in Tasks |-> Idle]
    /\ logins = 0 /\ edits = 0
    /\ vouched = {} /\ crossed = {} /\ excused = {}

Set(t, pc) == task' = [task EXCEPT ![t].pc = pc]
Finish(t) == task' = [task EXCEPT ![t] = Idle]
Keep(u, r) == row' = [row EXCEPT ![u] = r]

Busy(pcs) == \E t \in Tasks : task[t].pc \in pcs
Removing == {"ban", "demote", "leave", "deleteSessions", "delete"}
SigningIn(u) ==
    \E t \in Tasks : task[t].user = u /\ task[t].pc \in {"link", "linked", "promote", "mirror", "stamp", "mint"}

-----------------------------------------------------------------------------
(* get_callback.  The provider has answered with a subject, a role claim   *)
(* and an address it may have verified.                                    *)

BySub(s) == {u \in Users : Here(u) /\ row[u].sub = s}
Owner(e) == {u \in Users : Here(u) /\ e # None /\ row[u].email = e}

(* resolve_or_provision_user: the reads, and where they lead. *)
Resolve(t, s, e, ok, admin) ==
    LET go(pc, u) == task' = [task EXCEPT ![t] =
            [pc |-> pc, op |-> "login", user |-> u, sub |-> s, email |-> e,
             ok |-> ok, admin |-> admin]]
    IN  \/ \E u \in BySub(s) : ~row[u].banned /\ go("mirror", u)
        \/ /\ BySub(s) = {} /\ ok
           /\ \E u \in Owner(e) :
                 \/ ~row[u].banned /\ ~row[u].verified /\ go("release", u)
                 \/ ~row[u].banned /\ row[u].verified /\ row[u].sub = None /\ go("link", u)
        \/ /\ BySub(s) = {} /\ (ok => Owner(e) = {})
           /\ go("provision", None)

LoginResolve(t, s, e, ok, admin) ==
    /\ task[t].pc = "idle" /\ logins < MaxLogins
    /\ ok => e # None
    /\ logins' = logins + 1
    /\ vouched' = IF ok THEN vouched \cup {<<s, e>>} ELSE vouched
    /\ Resolve(t, s, e, ok, admin)
    /\ UNCHANGED <<row, session, edits, crossed, excused>>

(* set_user_email(None): the row that never proved its address loses it. *)
LoginRelease(t) ==
    /\ task[t].pc = "release"
    /\ row' = [row EXCEPT ![task[t].user].email = None, ![task[t].user].verified = FALSE]
    /\ task' = [task EXCEPT ![t].pc = "provision", ![t].user = None]
    /\ UNCHANGED <<session, logins, edits, vouched, crossed, excused>>

(* Variant: the link is not conditional. *)
AlwaysLinks(u, s) == Here(u)

(* link_bunyip_sub (WHERE), and the unique index on the subject. *)
Linkable(u, s) == Here(u) /\ row[u].sub = None /\ BySub(s) = {}

LoginLink(t) ==
    LET u == task[t].user s == task[t].sub
    IN  /\ task[t].pc = "link"
        /\ \/ Linkable(u, s) /\ Keep(u, [row[u] EXCEPT !.sub = s]) /\ Set(t, "linked")
           \/ ~Linkable(u, s) /\ Finish(t) /\ UNCHANGED row
        /\ UNCHANGED <<session, logins, edits, vouched, crossed, excused>>

LoginLinked(t) ==
    /\ task[t].pc = "linked"
    /\ session' = session \ {task[t].user}
    /\ Set(t, "mirror")
    /\ UNCHANGED <<row, logins, edits, vouched, crossed, excused>>

(* create_user_from_bunyip; the unique indexes may refuse the row.  It     *)
(* crosses another first account that is not promoted yet, or the          *)
(* departure of the last account.                                          *)
LoginProvision(t) ==
    LET s == task[t].sub e == task[t].email
    IN  /\ task[t].pc = "provision"
        /\ \/ \E u \in Free :
                 /\ BySub(s) = {} /\ Owner(e) = {}
                 /\ Keep(u, [Gone EXCEPT !.here = TRUE, !.sub = s, !.email = e])
                 /\ task' = [task EXCEPT ![t].pc = "promote", ![t].user = u]
           \/ (BySub(s) # {} \/ Owner(e) # {}) /\ Finish(t) /\ UNCHANGED row
        /\ excused' = excused \cup
               IF Busy({"promote", "leave"} \cup Removing) THEN {"overlap"} ELSE {}
        /\ UNCHANGED <<session, logins, edits, vouched, crossed>>

(* promote_if_first_user *)
First(u) == Users \ Free = {u}

LoginPromote(t) ==
    LET u == task[t].user
    IN  /\ task[t].pc = "promote"
        /\ row' = IF First(u) THEN [row EXCEPT ![u].role = "admin"] ELSE row
        /\ Set(t, "mirror")
        /\ UNCHANGED <<session, logins, edits, vouched, crossed, excused>>

(* mirror_bunyip_admin_role: the provider's claim wins, with no guard. *)
Mirrored(u, claim) == IF claim THEN "admin" ELSE "user"

LoginMirror(t) ==
    LET u == task[t].user role == Mirrored(u, task[t].admin)
    IN  /\ task[t].pc = "mirror"
        /\ row' = IF Here(u) THEN [row EXCEPT ![u].role = role] ELSE row
        /\ excused' = excused \cup
               IF IsAdmin(u) /\ role # "admin" THEN {"mirror"} ELSE {}
        /\ Set(t, "stamp")
        /\ UNCHANGED <<session, logins, edits, vouched, crossed>>

(* Variant: whatever address the row holds is stamped. *)
StampsAny(u, e) == Here(u) /\ row[u].email # None

(* mark_email_verified_if_unset (WHERE) *)
Stampable(u, e) == Here(u) /\ e # None /\ row[u].email = e

LoginStamp(t) ==
    LET u == task[t].user
    IN  /\ task[t].pc = "stamp"
        /\ row' = IF task[t].ok /\ Stampable(u, task[t].email)
                  THEN [row EXCEPT ![u].verified = TRUE] ELSE row
        /\ Set(t, "mint")
        /\ UNCHANGED <<session, logins, edits, vouched, crossed, excused>>

(* create_session_with_origin: the user must exist, nothing else is asked. *)
LoginMint(t) ==
    LET u == task[t].user
    IN  /\ task[t].pc = "mint"
        /\ session' = IF Here(u) THEN session \cup {u} ELSE session
        /\ Finish(t)
        /\ UNCHANGED <<row, logins, edits, vouched, crossed, excused>>

LoginStep(t) ==
    \/ LoginRelease(t) \/ LoginLink(t) \/ LoginLinked(t) \/ LoginProvision(t)
    \/ LoginPromote(t) \/ LoginMirror(t) \/ LoginStamp(t) \/ LoginMint(t)

-----------------------------------------------------------------------------
(* The administrator's user page *)

Edit == edits < MaxEdits /\ edits' = edits + 1

(* Variant: a banned administrator counts. *)
OtherAdmin(u) == \E v \in Users \ {u} : IsAdmin(v)

(* other_active_admin_exists *)
OtherActiveAdmin(u) == \E v \in Users \ {u} : ActiveAdmin(v)

(* guard_not_last_admin *)
GuardPasses(u) == ActiveAdmin(u) => OtherActiveAdmin(u)

(* post_ban, post_role, post_delete_user: the guard, before any write.     *)
(* The guard sees only what is written: a removal that has passed it and   *)
(* has not written yet overlaps this one.                                  *)
AdminGuard(t, a, u, pc) ==
    /\ task[t].pc = "idle" /\ Edit
    /\ AdminUser(a)
    /\ pc = "deleteSessions" => u # a
    /\ GuardPasses(u)
    /\ task' = [task EXCEPT ![t] = [Idle EXCEPT !.pc = pc, !.op = "admin", !.user = u]]
    /\ excused' = excused \cup IF Busy(Removing) THEN {"overlap"} ELSE {}
    /\ UNCHANGED <<row, session, logins, vouched, crossed>>

BanWrite(t) ==
    LET u == task[t].user
    IN  /\ task[t].pc = "ban"
        /\ row' = IF Here(u) THEN [row EXCEPT ![u].banned = TRUE] ELSE row
        /\ crossed' = IF SigningIn(u) THEN crossed \cup {u} ELSE crossed
        /\ Set(t, "signOut")
        /\ UNCHANGED <<session, logins, edits, vouched, excused>>

(* Variant: the sessions stay. *)
NobodySignedOut(u) == session

(* delete_user_sessions *)
SignedOut(u) == session \ {u}

SignOut(t) ==
    /\ task[t].pc = "signOut"
    /\ session' = SignedOut(task[t].user)
    /\ Finish(t)
    /\ UNCHANGED <<row, logins, edits, vouched, crossed, excused>>

DemoteWrite(t) ==
    LET u == task[t].user
    IN  /\ task[t].pc = "demote"
        /\ row' = IF Here(u) THEN [row EXCEPT ![u].role = "user"] ELSE row
        /\ Finish(t)
        /\ UNCHANGED <<session, logins, edits, vouched, crossed, excused>>

DeleteSessions(t) ==
    /\ task[t].pc = "deleteSessions"
    /\ session' = session \ {task[t].user}
    /\ Set(t, "delete")
    /\ UNCHANGED <<row, logins, edits, vouched, crossed, excused>>

(* delete_user, and the cascade to sessions *)
DeleteWrite(t) ==
    LET u == task[t].user
    IN  /\ task[t].pc \in {"delete", "leave"}
        /\ Keep(u, Gone)
        /\ session' = session \ {u}
        /\ crossed' = crossed \ {u}
        /\ Finish(t)
        /\ UNCHANGED <<logins, edits, vouched, excused>>

(* post_role with the role admin, post_unban: nothing to guard. *)
Promote(a, u) ==
    /\ AdminUser(a) /\ Here(u) /\ Edit
    /\ row' = [row EXCEPT ![u].role = "admin"]
    /\ UNCHANGED <<session, task, logins, vouched, crossed, excused>>

Unban(a, u) ==
    /\ AdminUser(a) /\ Here(u) /\ Edit
    /\ row' = [row EXCEPT ![u].banned = FALSE]
    /\ UNCHANGED <<session, task, logins, vouched, crossed, excused>>

(* clear_bunyip_sub, then the sessions *)
Unlink(t, a, u) ==
    /\ task[t].pc = "idle" /\ Edit
    /\ AdminUser(a) /\ Here(u) /\ row[u].sub # None
    /\ Keep(u, [row[u] EXCEPT !.sub = None])
    /\ task' = [task EXCEPT ![t] = [Idle EXCEPT !.pc = "signOut", !.op = "admin", !.user = u]]
    /\ UNCHANGED <<session, logins, vouched, crossed, excused>>

-----------------------------------------------------------------------------
(* would_orphan_admin_role counts every other administrator, banned or not. *)
Orphans(u) ==
    /\ IsAdmin(u)
    /\ ~OtherAdmin(u)
    /\ \E v \in Users \ {u} : Here(v)

(* post_delete_account, up to the purge *)
LeaveCheck(t, u) ==
    /\ task[t].pc = "idle" /\ Edit
    /\ SignedIn(u) /\ ~Orphans(u)
    /\ task' = [task EXCEPT ![t] = [Idle EXCEPT !.pc = "leave", !.op = "admin", !.user = u]]
    /\ excused' = excused
           \cup (IF Busy(Removing \cup {"provision"}) THEN {"overlap"} ELSE {})
           \cup (IF ActiveAdmin(u) /\ ~OtherActiveAdmin(u) /\ Users \ Free # {u}
                 THEN {"banned counted"} ELSE {})
    /\ UNCHANGED <<row, session, logins, vouched, crossed>>

(* set_user_email from the profile form: a new address is unproven. *)
EditEmail(u, e) ==
    /\ SignedIn(u) /\ Edit
    /\ row[u].email # e /\ Owner(e) = {}
    /\ Keep(u, [row[u] EXCEPT !.email = e, !.verified = FALSE])
    /\ UNCHANGED <<session, task, logins, vouched, crossed, excused>>

(* inject_user: a session whose provider cookie names another subject *)
Drift(u) ==
    /\ SignedIn(u) /\ row[u].sub # None /\ Edit
    /\ session' = session \ {u}
    /\ UNCHANGED <<row, task, logins, vouched, crossed, excused>>

(* create_default_admin, at the start of a development build; the address  *)
(* is proven by decree.                                                    *)
SeedAdmin(e) ==
    /\ \A t \in Tasks : task[t].pc = "idle"
    /\ ~\E u \in Users : IsAdmin(u)
    /\ Owner(e) = {} /\ Edit
    /\ \E u \in Free : Keep(u, [Gone EXCEPT !.here = TRUE, !.role = "admin",
                                            !.email = e, !.verified = TRUE])
    /\ vouched' = vouched \cup {<<None, e>>}
    /\ UNCHANGED <<session, task, logins, crossed, excused>>

Next ==
    \/ \E t \in Tasks :
          \/ \E s \in Subs, e \in Emails \cup {None}, ok, admin \in BOOLEAN :
                LoginResolve(t, s, e, ok, admin)
          \/ LoginStep(t)
          \/ \E a, u \in Users :
                \/ \E pc \in {"ban", "demote", "deleteSessions"} : AdminGuard(t, a, u, pc)
                \/ Unlink(t, a, u)
          \/ BanWrite(t) \/ SignOut(t) \/ DemoteWrite(t)
          \/ DeleteSessions(t) \/ DeleteWrite(t)
          \/ \E u \in Users : LeaveCheck(t, u)
    \/ \E a, u \in Users : Promote(a, u) \/ Unban(a, u)
    \/ \E u \in Users : Drift(u) \/ \E e \in Emails \cup {None} : EditEmail(u, e)
    \/ \E e \in Emails : SeedAdmin(e)

Spec == Init /\ [][Next]_vars

-----------------------------------------------------------------------------
Pcs == {"idle", "release", "link", "linked", "provision", "promote", "mirror", "stamp",
        "mint", "signOut"} \cup Removing

(* Types; no subject and no address is on two rows, and nobody is signed   *)
(* in without a row.                                                       *)
TypeOK ==
    /\ row \in [Users -> [here: BOOLEAN, role: Roles, banned: BOOLEAN, sub: Subs \cup {None},
                          email: Emails \cup {None}, verified: BOOLEAN]]
    /\ \A u \in Users : Here(u) \/ row[u] = Gone
    /\ session \subseteq {u \in Users : Here(u)}
    /\ \A s \in Subs : Cardinality(BySub(s)) <= 1
    /\ \A e \in Emails : Cardinality(Owner(e)) <= 1
    /\ \A t \in Tasks : task[t].pc \in Pcs
    /\ vouched \subseteq (Subs \cup {None}) \X Emails
    /\ crossed \subseteq Users
    /\ excused \subseteq {"overlap", "mirror", "banned counted"}

(* A site with accounts keeps an administrator who can act: no ban,        *)
(* demotion, deletion or departure takes the last one, the first account   *)
(* becomes one, unless two of these requests overlapped, the provider's    *)
(* claim demoted somebody, or a departing administrator counted a banned   *)
(* one (guard_not_last_admin, would_orphan_admin_role,                     *)
(* promote_if_first_user).                                                 *)
AdminRemains ==
    (\E u \in Users : Here(u)) /\ ~Busy({"promote"}) /\ excused = {}
        => \E u \in Users : ActiveAdmin(u)

(* An address counts as verified only if the provider vouched for it, to   *)
(* whoever held it then, or the seed decreed it (LC-698): editing the      *)
(* address between two steps of a sign-on must not carry the stamp over.   *)
VerifiedWasVouched ==
    \A u \in Users : row[u].verified =>
        \E s \in Subs \cup {None} : <<s, row[u].email>> \in vouched

(* A banned user has no session, but for the ban that is about to delete   *)
(* it and for a sign-on the ban crossed after its only check.              *)
BanEndsSessions ==
    \A u \in session : row[u].banned =>
        u \in crossed \/ \E t \in Tasks : task[t].pc = "signOut" /\ task[t].user = u

(* A row is never re-pointed from one subject to another (LC-698): it must *)
(* be unlinked by an administrator in between.                             *)
NeverRepointed ==
    [][\A u \in Users : Here(u) /\ row'[u].here /\ row'[u].sub # row[u].sub =>
          None \in {row[u].sub, row'[u].sub}]_vars

(* "a Bunyip subscriber who was promoted on first sign-in stays admin"     *)
(* (mirror_bunyip_admin_role): once nobody is signing on, the only account *)
(* a site ever had is an administrator.                                    *)
FirstUserStaysAdmin ==
    edits = 0 /\ (\A t \in Tasks : task[t].pc = "idle") =>
        \A u \in Users : Users \ Free = {u} => IsAdmin(u)
=============================================================================
