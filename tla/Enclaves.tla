------------------------------ MODULE Enclaves ------------------------------
(***************************************************************************)
(* The membership of one enclave (routes/enclave.rs, db/enclave.rs): who   *)
(* is in it with which role, who is banned from it, who is invited; the    *)
(* messages that lead to a ban by Coyote Mode and the purge that follows   *)
(* it (routes/room.rs); the deletion of a member's account; and, for the   *)
(* General enclave, the joins at sign-up and at the start of the server.   *)
(*                                                                         *)
(* A request checks, then writes, and others run in between; a restart     *)
(* drops the requests in flight.  Rooms and their own members are left     *)
(* out: a message is in the enclave.                                       *)
(***************************************************************************)
EXTENDS Naturals, FiniteSets

CONSTANTS
    Users,
    SiteAdmins,
    Tasks,          \* requests between a check and its write
    None,
    Burst,          \* messages in a short time that make a bot
    MaxSteps,       \* bound: requests begun
    MaxBoots        \* bound: restarts

\* What a configuration must give.
EnclavesAssumption ==
    /\ SiteAdmins \subseteq Users /\ None \notin Users
    /\ Burst \in Nat \ {0} /\ MaxSteps \in Nat /\ MaxBoots \in Nat

VARIABLES
    general,        \* the enclave is the General one
    exists,
    account,        \* new, live or gone: the row of users
    role,           \* enclave_members
    banned,         \* enclave_bans
    invited,        \* enclave_invitations
    open,           \* public, or with a live code
    posts,          \* recent messages of each user, not deleted
    task,
    steps, boots,
    owned,          \* history: it has had an owner
    crossed,        \* history: a removal decided on another role hit the owner
    raced,          \* history: users whose join or message crossed their ban
    readmitted,     \* history: banned users an invitation or a start let in
    unswept,        \* history: users whose purge a restart dropped
    haunted         \* history: users a request wrote about after their purge

tables == <<exists, account, role, banned, invited, open, posts>>
history == <<owned, crossed, raced, readmitted, unswept, haunted>>
vars == <<general, tables, task, steps, boots, history>>

Ranks == {"none", "member", "admin", "owner"}
Idle == [pc |-> "idle", user |-> None, to |-> "none", was |-> "none", barred |-> FALSE]

Live(u) == account[u] = "live"
Member(u) == role[u] # "none"
Owners == {u \in Users : role[u] = "owner"}
Manages(m) == Live(m) /\ (m \in SiteAdmins \/ role[m] \in {"owner", "admin"})
ManagesAdmins(m) == Live(m) /\ (m \in SiteAdmins \/ role[m] = "owner")

(* A community somebody created, or the General enclave before anybody has *)
(* signed up.                                                              *)
Init ==
    /\ general \in BOOLEAN
    /\ exists = TRUE
    /\ account = [u \in Users |-> IF general THEN "new" ELSE "live"]
    /\ \/ general /\ role = [u \in Users |-> "none"]
       \/ ~general /\ \E o \in Users :
             role = [u \in Users |-> IF u = o THEN "owner" ELSE "none"]
    /\ owned = ~general
    /\ banned = {} /\ invited = {} /\ open = general
    /\ posts = [u \in Users |-> 0]
    /\ task = [t \in Tasks |-> Idle]
    /\ steps = 0 /\ boots = 0
    /\ crossed = FALSE /\ raced = {} /\ readmitted = {} /\ unswept = {} /\ haunted = {}

Step == exists /\ steps < MaxSteps /\ steps' = steps + 1
Finish(t) == task' = [task EXCEPT ![t] = Idle]

(* A row about somebody whose account is gone, or half gone. *)
Haunting(u) ==
    IF ~Live(u) \/ \E t \in Tasks : task[t].pc = "auth" /\ task[t].user = u
    THEN haunted \cup {u} ELSE haunted

(* A request has looked at u, and will write. *)
Decide(t, pc, u, to) ==
    /\ task[t].pc = "idle" /\ Live(u) /\ Step
    /\ task' = [task EXCEPT ![t] = [pc |-> pc, user |-> u, to |-> to, was |-> role[u],
                                    barred |-> u \in banned]]
    /\ UNCHANGED <<general, tables, boots, history>>

(* What a write leaves: the new role, and whether the write was decided    *)
(* when the user had another role than owner.                              *)
Give(t, u, r) ==
    /\ role' = [role EXCEPT ![u] = r]
    /\ crossed' = (crossed \/ (role[u] = "owner" /\ task[t].was # "owner"))

-----------------------------------------------------------------------------
(* Joining *)

(* Variant: the ban list is not asked. *)
Walkable(u) == open /\ ~Member(u)

(* post_discover_join, post_join_by_code: the checks *)
Joinable(u) == open /\ u \notin banned /\ ~Member(u)

JoinCheck(t, u) == Joinable(u) /\ Decide(t, "join", u, "member")

(* add_member, INSERT OR IGNORE *)
JoinWrite(t) ==
    LET u == task[t].user
    IN  /\ task[t].pc = "join" /\ exists
        /\ role' = IF Member(u) THEN role ELSE [role EXCEPT ![u] = "member"]
        /\ raced' = IF u \in banned /\ ~task[t].barred THEN raced \cup {u} ELSE raced
        /\ haunted' = Haunting(u)
        /\ Finish(t)
        /\ UNCHANGED <<general, exists, account, banned, invited, open, posts, steps, boots,
                       owned, crossed, readmitted, unswept>>

(* post_invite, and create_invitation, once per user *)
InviteCheck(t, m, u) ==
    Manages(m) /\ m # u /\ ~Member(u) /\ Decide(t, "invite", u, "none")

InviteWrite(t) ==
    LET u == task[t].user
    IN  /\ task[t].pc = "invite" /\ exists
        /\ invited' = invited \cup {u}
        /\ haunted' = Haunting(u)
        /\ Finish(t)
        /\ UNCHANGED <<general, exists, account, role, banned, open, posts, steps, boots,
                       owned, crossed, raced, readmitted, unswept>>

(* post_invitation_accept and the transaction of accept_invitation: the    *)
(* ban list is not asked.                                                  *)
Accept(u) ==
    /\ exists /\ u \in invited
    /\ role' = IF Member(u) THEN role ELSE [role EXCEPT ![u] = "member"]
    /\ invited' = invited \ {u}
    /\ readmitted' = IF u \in banned THEN readmitted \cup {u} ELSE readmitted
    /\ UNCHANGED <<general, exists, account, banned, open, posts, task, steps, boots, owned,
                   crossed, raced, unswept, haunted>>

Decline(u) ==
    /\ exists /\ u \in invited
    /\ invited' = invited \ {u}
    /\ UNCHANGED <<general, exists, account, role, banned, open, posts, task, steps, boots, history>>

(* The settings: is_public, regenerate_invite_code, clear_invite_code. *)
SetOpen(m, on) ==
    /\ Manages(m) /\ open # on /\ Step
    /\ open' = on
    /\ UNCHANGED <<general, exists, account, role, banned, invited, posts, task, boots, history>>

(* resolve_or_provision_user: everybody is in the General enclave. *)
SignUp(u) ==
    /\ general /\ exists /\ account[u] = "new"
    /\ account' = [account EXCEPT ![u] = "live"]
    /\ role' = [role EXCEPT ![u] = "member"]
    /\ UNCHANGED <<general, exists, banned, invited, open, posts, task, steps, boots, history>>

(* ensure_general_membership of backfill_general_membership, for one user: *)
(* the first administrator is to own it, if nobody does; a row there is    *)
(* stays as it is.                                                         *)
Backfilled(u, first) ==
    IF ~Live(u) \/ Member(u) THEN role[u]
    ELSE IF u = first THEN (IF Owners = {} THEN "owner" ELSE "none")
    ELSE IF u \in SiteAdmins THEN "admin" ELSE "member"

(* The server starts again: requests in flight are gone. *)
Boot ==
    /\ boots < MaxBoots /\ boots' = boots + 1
    /\ task' = [t \in Tasks |-> Idle]
    /\ unswept' = unswept \cup {task[t].user : t \in {k \in Tasks : task[k].pc = "purge"}}
    /\ \/ /\ general /\ exists
          /\ \E first \in {u \in SiteAdmins : Live(u)} :
                role' = [u \in Users |-> Backfilled(u, first)]
          /\ owned' = (owned \/ \E u \in Users : role'[u] = "owner")
          /\ readmitted' = readmitted \cup {u \in banned : role'[u] # role[u]}
       \/ /\ ~general \/ ~exists \/ ~\E u \in SiteAdmins : Live(u)
          /\ UNCHANGED <<role, owned, readmitted>>
    /\ UNCHANGED <<general, exists, account, banned, invited, open, posts, steps, crossed, raced,
                   haunted>>

-----------------------------------------------------------------------------
(* Roles and removals *)

(* Variant: the owner is not spared. *)
Anybody(u) == Member(u)

(* post_kick, post_member_role, post_leave: the owner is spared. *)
Removable(u) == Member(u) /\ role[u] # "owner"

KickCheck(t, m, u) == Manages(m) /\ Removable(u) /\ Decide(t, "remove", u, "none")
RoleCheck(t, m, u, r) == ManagesAdmins(m) /\ Removable(u) /\ Decide(t, "role", u, r)
LeaveCheck(t, u) == Removable(u) /\ Decide(t, "remove", u, "none")

(* remove_member, update_role *)
RoleWrite(t) ==
    LET u == task[t].user
    IN  /\ task[t].pc \in {"remove", "role"} /\ exists
        /\ IF Member(u) THEN Give(t, u, task[t].to) ELSE UNCHANGED <<role, crossed>>
        /\ Finish(t)
        /\ UNCHANGED <<general, exists, account, banned, invited, open, posts, steps, boots,
                       owned, raced, readmitted, unswept, haunted>>

(* post_transfer *)
TransferCheck(t, m, u) == ManagesAdmins(m) /\ Decide(t, "transfer", u, "owner")

(* transfer_ownership: both updates in one transaction *)
Transferred(u) ==
    [v \in Users |-> IF v = u THEN "owner" ELSE IF role[v] = "owner" THEN "admin" ELSE role[v]]

TransferWrite(t) ==
    LET u == task[t].user
    IN  /\ task[t].pc = "transfer" /\ exists
        /\ role' = IF Member(u) THEN Transferred(u) ELSE role
        /\ owned' = (owned \/ Member(u))
        /\ Finish(t)
        /\ UNCHANGED <<general, exists, account, banned, invited, open, posts, steps, boots,
                       crossed, raced, readmitted, unswept, haunted>>

(* post_delete, by the owner or a site administrator; and the cascade *)
DeleteEnclave(m) ==
    /\ ManagesAdmins(m) /\ Step
    /\ exists' = FALSE
    /\ role' = [u \in Users |-> "none"]
    /\ banned' = {} /\ invited' = {} /\ posts' = [u \in Users |-> 0]
    /\ UNCHANGED <<general, account, open, task, boots, history>>

(* A write to an enclave that is gone finds nothing. *)
Late(t) ==
    /\ ~exists /\ task[t].pc \notin {"idle", "account", "auth"}
    /\ Finish(t)
    /\ UNCHANGED <<general, tables, steps, boots, history>>

(* sole_owner_enclaves blocks the deletion of the account. *)
MayGo(u) == role[u] # "owner" \/ \A v \in Users \ {u} : ~Member(v)

AccountCheck(t, u) == MayGo(u) /\ Decide(t, "account", u, IF Cardinality({v \in Users : Member(v)}) = 1
                                                        THEN "alone" ELSE "none")

(* Variant: an invitation outlives the account. *)
KeepsInvited(u) == invited

(* The DELETE of enclave_invitations. *)
Uninvited(u) == invited \ {u}

(* purge_user_chat: an enclave it owns alone goes too.  A member who has   *)
(* joined since the check leaves the enclave without its owner.            *)
AccountPurge(t) ==
    LET u == task[t].user
        alone == role[u] = "owner" /\ \A v \in Users \ {u} : ~Member(v)
    IN  /\ task[t].pc = "account"
        /\ exists' = (exists /\ ~alone)
        /\ role' = [role EXCEPT ![u] = "none"]
        /\ crossed' = (crossed \/ (role[u] = "owner" /\ ~alone
                                   /\ (task[t].was # "owner" \/ task[t].to = "alone")))
        /\ invited' = IF alone THEN {} ELSE Uninvited(u)
        /\ banned' = IF alone THEN {} ELSE banned \ {u}
        /\ posts' = [v \in Users |-> IF alone \/ v = u THEN 0 ELSE posts[v]]
        /\ task' = [task EXCEPT ![t].pc = "auth"]
        /\ UNCHANGED <<general, account, open, steps, boots, owned, raced, readmitted, unswept,
                       haunted>>

(* purge_user_auth, in another database *)
AccountAuth(t) ==
    /\ task[t].pc = "auth"
    /\ account' = [account EXCEPT ![task[t].user] = "gone"]
    /\ Finish(t)
    /\ UNCHANGED <<general, exists, role, banned, invited, open, posts, steps, boots, history>>

-----------------------------------------------------------------------------
(* Messages, and Coyote Mode *)

(* Variant: the ban list is not asked. *)
Writable(u) == Member(u) \/ u \in SiteAdmins

(* is_room_accessible, and the ban of check_send_gates *)
MayPost(u) == (Member(u) \/ u \in SiteAdmins) /\ u \notin banned

PostGate(t, u) == MayPost(u) /\ posts[u] < Burst /\ Decide(t, "post", u, "none")

(* The message is there, and a task looks whether it was a burst. *)
Post(t) ==
    LET u == task[t].user
    IN  /\ task[t].pc = "post" /\ exists /\ posts[u] < Burst
        /\ posts' = [posts EXCEPT ![u] = @ + 1]
        /\ raced' = IF u \in banned /\ ~task[t].barred THEN raced \cup {u} ELSE raced
        /\ haunted' = Haunting(u)
        /\ task' = [task EXCEPT ![t].pc = "coyote"]
        /\ UNCHANGED <<general, exists, account, role, banned, invited, open, steps, boots,
                       owned, crossed, readmitted, unswept>>

(* maybe_coyote_ban: the mode may be off, the messages further apart. *)
Bot(u) == u \notin SiteAdmins /\ role[u] \notin {"owner", "admin"} /\ posts[u] >= Burst

CoyoteCheck(t) ==
    LET u == task[t].user
    IN  /\ task[t].pc = "coyote" /\ exists
        /\ \/ Bot(u) /\ task' = [task EXCEPT ![t].pc = "ban", ![t].was = role[u]]
           \/ Finish(t)
        /\ UNCHANGED <<general, tables, steps, boots, history>>

(* ban_from_enclave, one transaction *)
Expelled(u) == [role EXCEPT ![u] = "none"]

Ban(t) ==
    LET u == task[t].user
    IN  /\ task[t].pc = "ban" /\ exists
        /\ banned' = banned \cup {u}
        /\ role' = Expelled(u)
        /\ crossed' = (crossed \/ role[u] = "owner")
        /\ readmitted' = readmitted \ {u} /\ raced' = raced \ {u}
        /\ unswept' = unswept \ {u}
        /\ haunted' = Haunting(u)
        /\ task' = [task EXCEPT ![t].pc = "purge"]
        /\ UNCHANGED <<general, exists, account, invited, open, posts, steps, boots, owned>>

(* soft_delete_user_messages_in_enclave *)
Purge(t) ==
    /\ task[t].pc = "purge" /\ exists
    /\ posts' = [posts EXCEPT ![task[t].user] = 0]
    /\ Finish(t)
    /\ UNCHANGED <<general, exists, account, role, banned, invited, open, steps, boots, history>>

(* unban_from_enclave *)
Unban(m, u) ==
    /\ Manages(m) /\ u \in banned /\ Step
    /\ banned' = banned \ {u}
    /\ UNCHANGED <<general, exists, account, role, invited, open, posts, task, boots, history>>

Next ==
    \/ \E t \in Tasks :
          \/ \E u \in Users :
                \/ JoinCheck(t, u) \/ LeaveCheck(t, u) \/ AccountCheck(t, u) \/ PostGate(t, u)
                \/ \E m \in Users :
                      \/ InviteCheck(t, m, u) \/ KickCheck(t, m, u) \/ TransferCheck(t, m, u)
                      \/ \E r \in {"member", "admin"} : RoleCheck(t, m, u, r)
          \/ JoinWrite(t) \/ InviteWrite(t) \/ RoleWrite(t) \/ TransferWrite(t) \/ AccountPurge(t) \/ AccountAuth(t)
          \/ Post(t) \/ CoyoteCheck(t) \/ Ban(t) \/ Purge(t) \/ Late(t)
    \/ \E u \in Users :
          \/ Accept(u) \/ Decline(u) \/ SignUp(u)
          \/ \E m \in Users : Unban(m, u)
    \/ \E m \in Users : DeleteEnclave(m) \/ \E on \in BOOLEAN : SetOpen(m, on)
    \/ Boot

Spec == Init /\ [][Next]_vars

-----------------------------------------------------------------------------
(* Types; an enclave has at most one owner. *)
TypeOK ==
    /\ general \in BOOLEAN /\ exists \in BOOLEAN /\ open \in BOOLEAN
    /\ role \in [Users -> Ranks]
    /\ Cardinality(Owners) <= 1
    /\ account \in [Users -> {"new", "live", "gone"}]
    /\ invited \cup banned \subseteq Users
    /\ posts \in [Users -> 0..Burst]
    /\ \A t \in Tasks : task[t].was \in Ranks

(* An enclave that has had an owner keeps one: no kick, departure, role    *)
(* change, ban or deletion of an account takes the owner away (LC-351),    *)
(* unless it was decided before somebody became the owner, or before       *)
(* somebody joined an owner who was alone.                                 *)
OwnerRemains == exists /\ owned /\ ~crossed => Owners # {}

(* A banned user is not in the enclave (LC-339), but for a join that was   *)
(* checked before the ban, an invitation that was taken up, and a start of *)
(* the server.                                                             *)
BannedStayOut ==
    \A u \in banned : Member(u) => u \in raced \cup readmitted

(* Once its ban and its purge are done, a banned user has no message left, *)
(* but for one that had passed its gate before the ban, or a purge a       *)
(* restart dropped.                                                        *)
PurgeSweeps ==
    \A u \in banned : posts[u] > 0 =>
        \/ u \in raced \cup unswept
        \/ \E t \in Tasks : task[t].pc = "purge" /\ task[t].user = u

(* A deleted account leaves nothing in the enclave (LC-908, LC-923), but   *)
(* what a request checked before the account was gone writes after its     *)
(* rows were purged: the two purges are two transactions.                  *)
PurgedLeavesNothing ==
    \A u \in Users : account[u] = "gone" /\ u \notin haunted =>
        ~Member(u) /\ u \notin invited \cup banned /\ posts[u] = 0
=============================================================================
