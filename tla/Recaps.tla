------------------------------- MODULE Recaps -------------------------------
(* The two recaps a model writes: of a room's day (room_digest.rs) and of a *)
(* user's week (weekly_recap.rs).  A tick goes through what is due, stamps  *)
(* each first, then asks the model, then posts.                             *)
EXTENDS Naturals

CONSTANTS
    Subjects,   \* rooms or users
    MaxFaults   \* bound: statements and calls that fail, processes that stop

\* What a configuration must give.
RecapsAssumption == Subjects # {} /\ MaxFaults \in Nat

VARIABLES
    stamped,    \* digest_last_at or last_weekly_recap_at is of this interval
    optedOut,   \* rooms without the assistant
    todo,       \* what the tick has still to go through
    cur, at,
    posts,      \* recaps of this interval
    faults,
    excused     \* history: nothing to tell, or a fault after the stamp

vars == <<stamped, optedOut, todo, cur, at, posts, faults, excused>>

Init ==
    /\ stamped = {} /\ optedOut = {}
    /\ todo = {} /\ cur = (CHOOSE s \in Subjects : TRUE) /\ at = "idle"
    /\ posts = [s \in Subjects |-> 0]
    /\ faults = 0 /\ excused = {}

Fault == faults < MaxFaults /\ faults' = faults + 1

\* A day or a week later: nothing takes a tick that long.
NextInterval(s) ==
    /\ s \in stamped /\ (cur = s => at \in {"idle", "next"})
    /\ stamped' = stamped \ {s}
    /\ posts' = [posts EXCEPT ![s] = 0]
    /\ excused' = excused \ {s}
    /\ UNCHANGED <<optedOut, todo, cur, at, faults>>

OptOut(s) ==
    /\ s \notin optedOut /\ optedOut' = optedOut \cup {s}
    /\ UNCHANGED <<stamped, todo, cur, at, posts, faults, excused>>

(* rooms_due_for_digest, weekly_recap_candidates *)
Select ==
    /\ at = "idle" /\ Subjects \ stamped # {}
    /\ todo' = Subjects \ stamped /\ at' = "next"
    /\ UNCHANGED <<stamped, optedOut, cur, posts, faults, excused>>

\* Variant: the stamp is left to the end of the post, which may not come.
StampedLast(s) == stamped
StampedFirst(s) == stamped \cup {s}

\* set_room_digest_last_at, set_last_weekly_recap_at.  An error passes the
\* room over or ends the tick; of the users it ends the tick.
Stamp(s) ==
    /\ at = "next" /\ s \in todo
    /\ \/ /\ s \in optedOut /\ todo' = todo \ {s}
          /\ UNCHANGED <<stamped, cur, at, faults>>
       \/ /\ s \notin optedOut /\ todo' = todo \ {s}
          /\ stamped' = StampedFirst(s) /\ cur' = s /\ at' = "compose"
          /\ UNCHANGED faults
       \/ /\ Fault /\ todo' \in {{}, todo \ {s}}
          /\ UNCHANGED <<stamped, cur, at>>
    /\ UNCHANGED <<optedOut, posts, excused>>

(* The messages of the interval and the answer of the model. *)
Compose ==
    /\ at = "compose"
    /\ \/ at' = "post" /\ UNCHANGED <<faults, excused>>
       \/ at' = "next" /\ excused' = excused \cup {cur} /\ UNCHANGED faults
       \/ Fault /\ at' = "next" /\ excused' = excused \cup {cur}
    /\ UNCHANGED <<stamped, optedOut, todo, cur, posts>>

(* insert_message, then finalize_message_send, whose error is logged. *)
Post ==
    /\ at = "post" /\ at' = "next"
    /\ \/ posts' = [posts EXCEPT ![cur] = @ + 1] /\ UNCHANGED <<faults, excused>>
       \/ Fault /\ excused' = excused \cup {cur} /\ UNCHANGED posts
    /\ UNCHANGED <<stamped, optedOut, todo, cur>>

EndOfTick ==
    /\ at = "next" /\ todo = {} /\ at' = "idle"
    /\ UNCHANGED <<stamped, optedOut, todo, cur, posts, faults, excused>>

Stop ==
    /\ at # "idle" /\ Fault
    /\ at' = "idle" /\ todo' = {}
    /\ excused' = IF at \in {"compose", "post"} THEN excused \cup {cur} ELSE excused
    /\ UNCHANGED <<stamped, optedOut, cur, posts>>

TickStep == Select \/ (\E s \in Subjects : Stamp(s)) \/ Compose \/ Post \/ EndOfTick
Next == TickStep \/ Stop \/ \E s \in Subjects : NextInterval(s) \/ OptOut(s)

Spec == Init /\ [][Next]_vars /\ WF_vars(TickStep)

---------------------------------------------------------------------------
TypeOK ==
    /\ stamped \cup optedOut \cup todo \subseteq Subjects /\ cur \in Subjects
    /\ at \in {"idle", "next", "compose", "post"}

(* No stop and no failure makes a room or a user get a second recap of one  *)
(* interval: the stamp goes first.                                          *)
OneRecapPerInterval == \A s \in Subjects : posts[s] <= 1

(* A stamp stands for a recap, for one in hand, for an interval there is    *)
(* nothing to tell of, or for a fault: what failed is not told later.       *)
StampStandsForRecap ==
    \A s \in stamped :
        posts[s] = 1 \/ s \in excused \/ (cur = s /\ at \in {"compose", "post"})

(* Every room and user whose interval is up is come to, whatever the ticks    *)
(* trip over at another, unless the room opted out.                           *)
EveryoneIsComeTo == \A s \in Subjects : s \notin stamped ~> s \in stamped \cup optedOut
=============================================================================
