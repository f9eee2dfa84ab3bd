-------------------------------- MODULE Digest --------------------------------
(* The e-mail digest of digest.rs for one user: the hourly tick selects who *)
(* is away, gathers what they missed, asks a model for a subject, sends,    *)
(* and only then writes down that it did.                                   *)
EXTENDS Integers, FiniteSets

CONSTANTS
    Quiet,      \* quiet_period_secs
    MaxTime, MaxFaults

\* What a configuration must give.
TimesAreCounts == {Quiet, MaxTime} \subseteq Nat \ {0} /\ MaxFaults \in Nat

VARIABLES
    now,
    active,     \* the later of last_active_at and last_ws_seen_at
    digest,     \* last_digest_sent_at, -1 for NULL
    missed,     \* when the mentions and messages the user has not read came in
    at,         \* the tick: idle, or with the user in hand
    floor,      \* the activity_floor the tick selected
    mails,      \* digests sent, by the floor they were sent for
    faults

vars == <<now, active, digest, missed, at, floor, mails, faults>>
Never == -1
Times == 0..MaxTime

Init ==
    /\ now = 1 /\ active = 0 /\ digest = Never /\ missed = {}
    /\ at = "idle" /\ floor = Never
    /\ mails = [f \in Times |-> 0]
    /\ faults = 0

Fault == faults < MaxFaults /\ faults' = faults + 1

Tick ==
    /\ now < MaxTime /\ now' = now + 1
    /\ UNCHANGED <<active, digest, missed, at, floor, mails, faults>>

\* The user is back, and may look at what came in or not.
Active ==
    /\ active' = now
    /\ missed' \in {missed, {}}
    /\ UNCHANGED <<now, digest, at, floor, mails, faults>>

Mention ==
    /\ missed' = missed \cup {now}
    /\ UNCHANGED <<now, active, digest, at, floor, mails, faults>>

NotYetTold == digest = Never \/ digest < active

\* find_digest_candidates.
Select ==
    /\ at = "idle"
    /\ now - active > Quiet
    /\ NotYetTold
    /\ at' = "selected" /\ floor' = active
    /\ UNCHANGED <<now, active, digest, missed, mails, faults>>

SinceFloor == {t \in missed : t > floor}

\* load_missed_mentions and load_missed_dms: nothing missed is no digest, and
\* a user who is not to be disturbed keeps theirs for a later tick.
Gather ==
    /\ at = "selected"
    /\ \/ at' = "idle"
       \/ SinceFloor # {} /\ at' = "composed"
    /\ UNCHANGED <<now, active, digest, missed, floor, mails, faults>>

\* The subject takes a call to the model, the mail a call to its server.
Send ==
    /\ at = "composed"
    /\ \/ /\ at' = "sent" /\ UNCHANGED faults
          /\ mails' = [mails EXCEPT ![floor] = @ + 1]
       \/ at' = "idle" /\ UNCHANGED mails /\ Fault
    /\ UNCHANGED <<now, active, digest, missed, floor>>

ForgetsToMark == digest
Marked == now

\* set_last_digest_sent_at, after the mail is out.
Mark ==
    /\ at = "sent"
    /\ at' = "idle"
    /\ \/ digest' = Marked /\ UNCHANGED faults
       \/ digest' = digest /\ Fault
    /\ UNCHANGED <<now, active, missed, floor, mails>>

Next == Tick \/ Active \/ Mention \/ Select \/ Gather \/ Send \/ Mark
Spec == Init /\ [][Next]_vars

---------------------------------------------------------------------------
(* A tick has a user in hand only between its selection and its mark.       *)
TypeOK ==
    /\ now \in Times /\ active \in 0..now
    /\ digest \in {Never} \cup 0..now
    /\ missed \subseteq 0..now
    /\ at \in {"idle", "selected", "composed", "sent"}
    /\ at # "idle" => floor \in 0..now
    /\ \A f \in Times : mails[f] > 0 => f <= active

(* The digest is sent first and marked afterwards: one absence brings one   *)
(* mail, and one more only where the mark was lost to an error.              *)
OneMailPerAbsence == \A f \in Times : mails[f] <= 1 + faults
=============================================================================
