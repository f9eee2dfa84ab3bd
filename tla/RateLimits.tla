----------------------------- MODULE RateLimits -----------------------------
(* The in-memory limiter of rate_limit.rs for one key: a counted window     *)
(* (check) and a minimum interval (check_cooldown, slowmode), in one map    *)
(* that every few calls is swept of entries older than the window.          *)
EXTENDS Integers, Sequences

CONSTANTS
    Window,     \* WINDOW
    Limit,      \* limit_per_minute
    Cooldown,   \* cooldown_seconds
    MaxTime, MaxCalls

\* check_cooldown asks its callers for the last one.
CallersCapCooldown ==
    /\ {Window, Limit, Cooldown} \subseteq Nat \ {0}
    /\ {MaxTime, MaxCalls} \subseteq Nat
    /\ Cooldown <= Window

VARIABLES
    now,
    window,     \* the entry of check: start and count, start -1 when absent
    cool,       \* the entry of check_cooldown: its start, -1 when absent
    allowed,    \* when check let a call pass, in order
    posted      \* the same of check_cooldown

vars == <<now, window, cool, allowed, posted>>

Absent == -1

Init ==
    /\ now = 0
    /\ window = [start |-> Absent, count |-> 0]
    /\ cool = Absent
    /\ allowed = <<>> /\ posted = <<>>

Tick == now < MaxTime /\ now' = now + 1 /\ UNCHANGED <<window, cool, allowed, posted>>

SweptEarly(start) == IF start # Absent /\ now - start + 1 < Window THEN start ELSE Absent
Swept(start) == IF start # Absent /\ now - start < Window THEN start ELSE Absent
\* The counter of calls is shared by all keys: any call may be the one that sweeps.
Kept(start) == {start, Swept(start)}

Opened(start, count) ==
    IF start = Absent \/ now - start >= Window
    THEN [start |-> now, count |-> 0] ELSE [start |-> start, count |-> count]

OneOver(w) == w.count > Limit
Full(w) == w.count >= Limit

Check ==
    /\ Len(allowed) < MaxCalls
    /\ \E s \in Kept(window.start), c \in Kept(cool) :
          LET w == Opened(s, window.count) IN
          /\ cool' = c
          /\ IF Full(w) THEN window' = w /\ UNCHANGED allowed
             ELSE /\ window' = [w EXCEPT !.count = @ + 1]
                  /\ allowed' = Append(allowed, now)
    /\ UNCHANGED <<now, posted>>

CheckCooldown ==
    /\ Len(posted) < MaxCalls
    /\ \E s \in Kept(window.start), c \in Kept(cool) :
          /\ window' = [window EXCEPT !.start = s]
          /\ IF c # Absent /\ now - c < Cooldown THEN cool' = c /\ UNCHANGED posted
             ELSE cool' = now /\ posted' = Append(posted, now)
    /\ UNCHANGED <<now, allowed>>

Next == Tick \/ Check \/ CheckCooldown
Spec == Init /\ [][Next]_vars

---------------------------------------------------------------------------
(* A window that counts calls started no later than now and never holds     *)
(* more than its limit.                                                     *)
TypeOK ==
    /\ now \in 0..MaxTime
    /\ window.start \in {Absent} \cup 0..now
    /\ window.count \in 0..Limit
    /\ cool \in {Absent} \cup 0..now
    /\ Len(allowed) <= MaxCalls /\ Len(posted) <= MaxCalls

(* A fixed window lets a burst through at the end of one minute and another *)
(* at the start of the next, and no more: within any span shorter than the  *)
(* window at most twice the limit passes, whichever calls happen to sweep.   *)
AtMostTwoWindows ==
    \A i \in 1..Len(allowed) :
        i > 2 * Limit => allowed[i] - allowed[i - 2 * Limit] >= Window

(* Slowmode holds although the sweep drops entries: two posts that pass are *)
(* at least the cooldown apart.                                             *)
PostsAreApart ==
    \A i \in 2..Len(posted) : posted[i] - posted[i - 1] >= Cooldown
=============================================================================
