--------------------------- MODULE LoginApproval ----------------------------
(***************************************************************************)
(* The approval of a suspicious sign-on of one user (login_approval.rs,    *)
(* and complete_login in routes/bunyip_sso.rs): the context of a sign-on,  *)
(* its device and its country, is compared with what earlier ones left; a  *)
(* suspicious one gets no session but a code by mail, which may be tried   *)
(* MaxAttempts times, by requests that overlap.                            *)
(*                                                                         *)
(* A submitted code is right or wrong; every statement may fail.           *)
(***************************************************************************)
EXTENDS Naturals, FiniteSets

CONSTANTS
    Devices, Countries,
    Tasks,          \* requests in flight
    None,
    MaxAttempts,    \* MAX_ATTEMPTS
    MaxLogins,      \* bound: sign-ons
    MaxTries,       \* bound: codes submitted
    MaxFaults       \* bound: failed statements and mails

\* What a configuration must give.
ApprovalAssumption ==
    /\ None \notin Devices \cup Countries
    /\ MaxAttempts \in Nat \ {0} /\ MaxLogins \in Nat /\ MaxTries \in Nat /\ MaxFaults \in Nat

VARIABLES
    known,          \* user_login_devices
    country,        \* last_login_country
    chal,           \* login_approvals
    nextChal,
    task,
    tries, faults,
    compared,       \* history: codes compared with each challenge
    minted,         \* history: sessions each challenge led to
    earned,         \* history: contexts found clear, or approved by code
    failedOpen      \* history: contexts let through because no code went out

vars == <<known, country, chal, nextChal, task, tries, faults, compared, minted,
          earned, failedOpen>>

Ids == 1..MaxLogins
Context == [device: Devices \cup {None}, country: Countries \cup {None}]
Nowhere == [device |-> None, country |-> None]
NoChal == [open |-> FALSE, expired |-> FALSE, attempts |-> 0, ctx |-> Nowhere]
Idle == [pc |-> "idle", ctx |-> Nowhere, presented |-> None, id |-> 0, right |-> FALSE,
         attempt |-> 0]

Init ==
    /\ known = {} /\ country = None
    /\ chal = [i \in Ids |-> NoChal] /\ nextChal = 1
    /\ task = [t \in Tasks |-> Idle]
    /\ tries = 0 /\ faults = 0
    /\ compared = [i \in Ids |-> 0] /\ minted = [i \in Ids |-> 0]
    /\ earned = {} /\ failedOpen = {}

Fault == faults < MaxFaults /\ faults' = faults + 1
NoFault == faults' = faults
Finish(t) == task' = [task EXCEPT ![t] = Idle]

-----------------------------------------------------------------------------
(* location_decision, device_is_new, is_suspicious *)
NewCountry(c) == c # None /\ country \notin {None, c}
NewDevice(d) == d # None /\ known # {} /\ d \notin known
Signals(ctx) ==
    {s \in {"country", "device"} :
        IF s = "country" THEN NewCountry(ctx.country) ELSE NewDevice(ctx.device)}

(* guard: a look-up that fails hides its signal. *)
Guard(t, ctx) ==
    /\ task[t].pc = "idle" /\ nextChal \in Ids
    /\ nextChal' = nextChal + 1
    /\ LET clear == [Idle EXCEPT !.pc = "complete", !.ctx = ctx, !.presented = ctx.device]
           issue == [clear EXCEPT !.pc = "issue", !.id = nextChal]
           hidden == Cardinality(Signals(ctx))
       IN  \/ /\ faults + hidden <= MaxFaults /\ faults' = faults + hidden
              /\ task' = [task EXCEPT ![t] = clear] /\ earned' = earned \cup {ctx}
           \/ /\ Signals(ctx) # {} /\ NoFault
              /\ task' = [task EXCEPT ![t] = issue] /\ UNCHANGED earned
    /\ UNCHANGED <<known, country, chal, tries, compared, minted, failedOpen>>

(* Variant: the flagged context is kept. *)
Flagged(ctx) == ctx

(* What a sign-on that fails open leaves as its context. *)
Unblessed(ctx) == Nowhere

FailOpen(t) ==
    /\ task' = [task EXCEPT ![t].pc = "complete", ![t].ctx = Unblessed(@), ![t].id = 0]
    /\ failedOpen' = failedOpen \cup {task[t].ctx}

(* issue_challenge: no address, no mailer or a failed insert fails open. *)
Issue(t) ==
    /\ task[t].pc = "issue"
    /\ \/ /\ NoFault
          /\ chal' = [chal EXCEPT ![task[t].id] =
                [NoChal EXCEPT !.open = TRUE, !.ctx = task[t].ctx]]
          /\ task' = [task EXCEPT ![t].pc = "mail"]
          /\ UNCHANGED failedOpen
       \/ Fault /\ FailOpen(t) /\ UNCHANGED chal
    /\ UNCHANGED <<known, country, nextChal, tries, compared, minted, earned>>

(* A code that did not go out is spent at once, and its sign-on goes on. *)
Mail(t) ==
    /\ task[t].pc = "mail"
    /\ \/ NoFault /\ Finish(t) /\ UNCHANGED <<chal, failedOpen>>
       \/ Fault /\ FailOpen(t) /\ chal' = [chal EXCEPT ![task[t].id].open = FALSE]
    /\ UNCHANGED <<known, country, nextChal, tries, compared, minted, earned>>

-----------------------------------------------------------------------------
(* Variant: the cap is not part of the claim. *)
OpenOnly(i) == chal[i].open /\ ~chal[i].expired

(* claim_login_approval_attempt (WHERE) *)
Claimable(i) == chal[i].open /\ ~chal[i].expired /\ chal[i].attempts < MaxAttempts

(* verify: an attempt is claimed before the code is compared ... *)
Submit(t, i, right, d) ==
    /\ task[t].pc = "idle" /\ tries < MaxTries
    /\ \A k \in Tasks : task[k].pc = "mail" => task[k].id # i
    /\ Claimable(i)
    /\ tries' = tries + 1
    /\ chal' = [chal EXCEPT ![i].attempts = @ + 1]
    /\ compared' = [compared EXCEPT ![i] = @ + 1]
    /\ task' = [task EXCEPT ![t] = [Idle EXCEPT !.pc = "compare", !.presented = d, !.id = i,
                                        !.right = right, !.attempt = chal[i].attempts + 1]]
    /\ UNCHANGED <<known, country, nextChal, faults, minted, earned, failedOpen>>

(* consume_login_approval (WHERE) *)
Consumes(i) == chal[i].open

Spend(i) == chal' = [chal EXCEPT ![i].open = FALSE]

(* ... the right one wins if it is the one that consumes the challenge,    *)
(* and the last wrong one burns it.                                        *)
Compare(t) ==
    LET i == task[t].id
    IN  /\ task[t].pc = "compare"
        /\ \/ /\ task[t].right /\ Consumes(i) /\ NoFault
              /\ Spend(i)
              /\ task' = [task EXCEPT ![t].pc = "complete", ![t].ctx = chal[i].ctx]
              /\ minted' = [minted EXCEPT ![i] = @ + 1]
              /\ earned' = earned \cup {chal[i].ctx,
                     [chal[i].ctx EXCEPT !.device = IF @ = None THEN task[t].presented ELSE @]}
           \/ /\ task[t].right /\ (Fault \/ (~Consumes(i) /\ NoFault))
              /\ Finish(t) /\ UNCHANGED <<chal, minted, earned>>
           \/ /\ ~task[t].right
              /\ \/ task[t].attempt >= MaxAttempts /\ NoFault /\ Spend(i)
                 \/ task[t].attempt >= MaxAttempts /\ Fault /\ UNCHANGED chal
                 \/ task[t].attempt < MaxAttempts /\ NoFault /\ UNCHANGED chal
              /\ Finish(t) /\ UNCHANGED <<minted, earned>>
        /\ UNCHANGED <<known, country, nextChal, tries, compared, failedOpen>>

Expire(i) ==
    /\ chal[i].open /\ ~chal[i].expired
    /\ chal' = [chal EXCEPT ![i].expired = TRUE]
    /\ UNCHANGED <<known, country, nextChal, task, tries, faults, compared, minted, earned,
                   failedOpen>>

(* complete_login and apply_baseline: a session, and the context as the    *)
(* new baseline; a context without a device takes the one the browser      *)
(* presents, and a browser without one is given a new one.                 *)
Complete(t) ==
    LET ctx == task[t].ctx
        device == IF ctx.device = None THEN task[t].presented ELSE ctx.device
    IN  /\ task[t].pc = "complete"
        /\ country' = IF ctx.country = None THEN country ELSE ctx.country
        /\ \/ device # None /\ known' = known \cup {device} /\ UNCHANGED earned
           \/ /\ device = None
              /\ \E new \in Devices \ known :
                    /\ known' = known \cup {new}
                    /\ earned' = earned \cup {[Nowhere EXCEPT !.device = new]}
        /\ Finish(t)
        /\ UNCHANGED <<chal, nextChal, tries, faults, compared, minted, failedOpen>>

Next ==
    \/ \E t \in Tasks :
          \/ \E ctx \in Context : Guard(t, ctx)
          \/ Issue(t) \/ Mail(t)
          \/ \E i \in Ids, right \in BOOLEAN, d \in Devices \cup {None} : Submit(t, i, right, d)
          \/ Compare(t) \/ Complete(t)
    \/ \E i \in Ids : Expire(i)

Spec == Init /\ [][Next]_vars

-----------------------------------------------------------------------------
TypeOK ==
    /\ known \subseteq Devices /\ country \in Countries \cup {None}
    /\ chal \in [Ids -> [open: BOOLEAN, expired: BOOLEAN, attempts: 0..MaxAttempts, ctx: Context]]
    /\ nextChal \in 1..MaxLogins + 1
    /\ task \in [Tasks -> [pc: {"idle", "issue", "mail", "compare", "complete"}, ctx: Context,
                           presented: Devices \cup {None}, id: 0..MaxLogins, right: BOOLEAN,
                           attempt: 0..MaxAttempts]]
    /\ earned \cup failedOpen \subseteq Context

(* One challenge is good for MaxAttempts guesses and for one session,      *)
(* however the requests that submit codes overlap (LC-601).                *)
ChallengeIsSingleUse ==
    \A i \in Ids : compared[i] <= MaxAttempts /\ minted[i] <= 1

(* The baseline holds what a clear sign-on or a right code put there; a    *)
(* sign-on that failed open leaves at most its device, never its country.  *)
BaselineIsEarned ==
    /\ country # None => \E ctx \in earned : ctx.country = country
    /\ \A d \in known : \E ctx \in earned \cup failedOpen : ctx.device = d
=============================================================================
