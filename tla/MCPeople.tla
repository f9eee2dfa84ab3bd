------------------------------- MODULE MCPeople -------------------------------
(* What an account goes through, on small instances: sign-on, roles and bans,  *)
(* the approval of an unfamiliar login, and its handle.  Each is modelled for  *)
(* itself: a run is a run of one of them, chosen in the initial state, with    *)
(* the others at rest.                                                         *)
EXTENDS Accounts, TLC

CONSTANTS
    Devices, Countries, MaxAttempts, MaxApprovals, MaxTries, MaxFaults,
    Names, Deleted, MaxChanges

VARIABLES
    part,       \* the component that runs
    known, country, chal, nextChal, login, tries, faults, compared, minted, earned, failedOpen,
    handle, confirmed, cooling, reserved, form, changes, given, raced

A == INSTANCE LoginApproval WITH MaxLogins <- MaxApprovals, task <- login
H == INSTANCE Handles WITH task <- form

ASSUME ApprovalAssumption == A!ApprovalAssumption
ASSUME HandlesAssumption == H!HandlesAssumption

Symmetry ==
    Permutations(Users) \cup Permutations(Subs) \cup Permutations(Emails) \cup Permutations(Tasks)

approval == <<known, country, chal, nextChal, login, tries, faults, compared, minted, earned,
              failedOpen>>
names == <<handle, confirmed, cooling, reserved, form, changes, given, raced>>

PeopleInit ==
    /\ part \in {"accounts", "approval", "handles"}
    /\ Init /\ A!Init /\ H!Init
    /\ part # "accounts" => session = {}
Signing == part = "accounts" /\ Next /\ UNCHANGED <<part, approval, names>>
Approving == part = "approval" /\ A!Next /\ UNCHANGED <<part, vars, names>>
Naming == part = "handles" /\ H!Next /\ UNCHANGED <<part, vars, approval>>
PeopleNext == Signing \/ Approving \/ Naming

PeopleSpec == PeopleInit /\ [][PeopleNext]_<<part, vars, approval, names>>

(* Accounts: the site keeps an administrator, an address is verified only if   *)
(* it was vouched for, and a banned account has no session, but for the        *)
(* crossings Accounts names.                                                   *)
AccountsHold == TypeOK /\ AdminRemains /\ VerifiedWasVouched /\ BanEndsSessions

(* The ways in: a challenge is good for so many guesses and one session, what  *)
(* is trusted was earned, and a handle given up stays with whoever gave it up. *)
LoginsHold ==
    /\ A!TypeOK /\ A!ChallengeIsSingleUse /\ A!BaselineIsEarned
    /\ H!TypeOK /\ H!GivenUpIsKept /\ H!NoLingeringReservation
===============================================================================
