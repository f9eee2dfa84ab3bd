--------------------------- MODULE OutgoingWebhooks ---------------------------
(* The outgoing webhooks of outgoing.rs: an event of a room becomes a       *)
(* delivery row per matching hook, and one background tick posts the due    *)
(* rows, reschedules or fails them, and prunes what a hook keeps.  The rows *)
(* of a tick are read at its start; administrators toggle and delete hooks  *)
(* meanwhile, and a statement that errs ends the tick where it is.          *)
EXTENDS Integers, FiniteSets, Sequences

CONSTANTS
    Hooks,
    Last,       \* delivery rows made in a behaviour
    Attempts,   \* MAX_ATTEMPTS
    Threshold,  \* DISABLE_THRESHOLD
    Keep,       \* RETENTION_PER_WEBHOOK
    Batch,      \* BATCH
    MaxEdits,   \* toggles and deletions by administrators
    MaxFaults   \* errors and stops

\* What a configuration must give.
BoundsAreCounts ==
    /\ Hooks # {} /\ IsFiniteSet(Hooks)
    /\ {Last, Attempts, Threshold, Keep, Batch} \subseteq Nat \ {0}
    /\ {MaxEdits, MaxFaults} \subseteq Nat

Rows == 1..Last

VARIABLES
    hook,       \* outgoing_webhooks: enabled or not, with consecutive_failures
    row,        \* outgoing_webhook_deliveries, by id
    queue,      \* the rows that are due, in the order of scheduled_at
    used,       \* rows handed out; an id is never used twice
    matched,    \* hooks matched by an event in hand, not yet enqueued
    ticking,    \* a tick is under way
    batch,      \* what is left of the rows read by this tick
    cur,        \* the delivery in hand, 0 between two
    answer,     \* of its receiver: none yet, "ok" or "bad"
    posts,      \* requests sent for a row
    edits, faults

vars == <<hook, row, queue, used, matched, ticking, batch, cur, answer, posts, edits, faults>>
tick == <<ticking, batch, cur, answer>>

NoRow == [of |-> CHOOSE h \in Hooks : TRUE, attempt |-> 0, st |-> "none"]

Init ==
    /\ hook = [h \in Hooks |-> [st |-> "on", failures |-> 0]]
    /\ row = [d \in Rows |-> NoRow]
    /\ queue = <<>> /\ used = 0 /\ matched = {}
    /\ ticking = FALSE /\ batch = <<>> /\ cur = 0 /\ answer = "none"
    /\ posts = [d \in Rows |-> 0]
    /\ edits = 0 /\ faults = 0

Pending(d) == row[d].st = "pending"
InQueue(d) == \E i \in 1..Len(queue) : queue[i] = d

\* The queue without what is not in S: a SelectSeq the proofs can look into.
Keeping(S) ==
    LET Kept[i \in 0..Len(queue)] ==
            IF i = 0 THEN <<>>
            ELSE IF queue[i] \in S THEN Append(Kept[i - 1], queue[i]) ELSE Kept[i - 1]
    IN Kept[Len(queue)]
Without(d) == Keeping(Rows \ {d})
Fault == faults < MaxFaults /\ faults' = faults + 1
Edit == edits < MaxEdits /\ edits' = edits + 1

---------------------------------------------------------------------------
(* The request that caused the event, and the administrators. *)

\* matching reads the enabled hooks, the INSERTs follow one by one.
Match(hs) ==
    /\ matched = {}
    /\ hs # {}
    /\ \A h \in hs : hook[h].st = "on"
    /\ used + Cardinality(hs) <= Last
    /\ matched' = hs
    /\ UNCHANGED <<hook, row, queue, used, tick, posts, edits, faults>>

\* The foreign key refuses the row of a hook that is gone: logged, no more.
Enqueue(h) ==
    /\ h \in matched
    /\ matched' = matched \ {h}
    /\ IF hook[h].st = "gone" THEN UNCHANGED <<row, queue, used>>
       ELSE /\ used' = used + 1
            /\ row' = [row EXCEPT ![used + 1] =
                          [of |-> h, attempt |-> 0, st |-> "pending"]]
            /\ queue' = Append(queue, used + 1)
    /\ UNCHANGED <<hook, tick, posts, edits, faults>>

\* Variant: a hook enabled again keeps its count of failures.
OnlyEnables(h) == [hook[h] EXCEPT !.st = "on"]
Enabled(h) == [st |-> "on", failures |-> 0]

SetEnabled(h, enabled) ==
    /\ hook[h].st # "gone"
    /\ Edit
    /\ hook' = [hook EXCEPT ![h] = IF enabled THEN Enabled(h) ELSE [@ EXCEPT !.st = "off"]]
    /\ UNCHANGED <<row, queue, used, matched, tick, posts, faults>>

\* Its deliveries go with it.
Delete(h) ==
    /\ hook[h].st # "gone"
    /\ Edit
    /\ hook' = [hook EXCEPT ![h] = [st |-> "gone", failures |-> 0]]
    /\ row' = [d \in Rows |-> IF row[d].of = h /\ row[d].st # "none"
                              THEN [row[d] EXCEPT !.st = "gone"] ELSE row[d]]
    /\ queue' = Keeping({d \in Rows : row[d].of # h})
    /\ UNCHANGED <<used, matched, tick, posts, faults>>

\* The clock reaches the scheduled_at of a retry.
FallsDue(d) ==
    /\ Pending(d) /\ ~InQueue(d)
    /\ queue' = Append(queue, d)
    /\ UNCHANGED <<hook, row, used, matched, tick, posts, edits, faults>>

---------------------------------------------------------------------------
(* One tick. *)

Done == batch = <<>> /\ cur = 0

\* due_deliveries: the oldest of the due rows.
Select ==
    /\ ~ticking
    /\ ticking' = TRUE
    /\ batch' = SubSeq(queue, 1, IF Len(queue) < Batch THEN Len(queue) ELSE Batch)
    /\ UNCHANGED <<hook, row, queue, used, matched, cur, answer, posts, edits, faults>>

\* The UPDATEs name the row by its id and touch nothing when it is gone.
There(d) == row[d].st \notin {"gone", "pruned"}
Settle(d, how) ==
    /\ row' = IF There(d) THEN [row EXCEPT ![d].st = how, ![d].attempt = @ + 1] ELSE row
    /\ queue' = Without(d)

\* Variant: the attempt is not counted.
OnlyDelays(d) == queue' = Without(d) /\ UNCHANGED row
Reschedule(d) ==
    /\ row' = IF There(d) THEN [row EXCEPT ![d].attempt = @ + 1] ELSE row
    /\ queue' = Without(d)

\* Variant: a refused delivery is left as it is.
LeavesIt(d) == UNCHANGED <<row, queue>>
Refuse(d) == Settle(d, "failed")

\* The target is read afresh for each row: without an enabled hook, or with
\* an address that outbound_post refuses, the delivery has failed.
Take ==
    /\ cur = 0 /\ batch # <<>>
    /\ LET d == Head(batch) IN
          \/ Refuse(d) /\ UNCHANGED <<cur, posts>>
          \/ /\ hook[row[d].of].st = "on"
             /\ cur' = d
             /\ posts' = [posts EXCEPT ![d] = @ + 1]
             /\ UNCHANGED <<row, queue>>
    /\ batch' = Tail(batch)
    /\ UNCHANGED <<hook, used, matched, ticking, answer, edits, faults>>

\* The receiver answers with success, with another status, or not at all.
Answer(a) ==
    /\ cur # 0 /\ answer = "none"
    /\ answer' = a
    /\ UNCHANGED <<hook, row, queue, used, matched, ticking, batch, cur, posts, edits, faults>>

\* The attempt is the one the tick read with the row at its start.
Retries(d) == row[d].attempt + 1 < Attempts

\* mark_delivered, reschedule, or mark_failed.
Update ==
    /\ cur # 0 /\ answer \in {"ok", "bad"}
    /\ \/ answer = "ok" /\ Settle(cur, "delivered") /\ answer' = "success"
       \/ answer = "bad" /\ ~Retries(cur) /\ Settle(cur, "failed") /\ answer' = "failure"
       \/ answer = "bad" /\ Retries(cur) /\ Reschedule(cur) /\ answer' = "retried"
    /\ UNCHANGED <<hook, used, matched, ticking, batch, cur, posts, edits, faults>>

OneMore(h) == LET f == hook[h].failures + 1 IN
    [st |-> IF f >= Threshold THEN "off" ELSE hook[h].st, failures |-> f]

Outcome(h) ==
    IF hook[h].st = "gone" \/ answer = "retried" THEN hook[h]
    ELSE IF answer = "success" THEN [hook[h] EXCEPT !.failures = 0] ELSE OneMore(h)

\* record_success or record_failure, a statement of its own.
Account ==
    /\ answer \in {"success", "failure", "retried"}
    /\ hook' = [hook EXCEPT ![row[cur].of] = Outcome(row[cur].of)]
    /\ cur' = 0 /\ answer' = "none"
    /\ UNCHANGED <<row, queue, used, matched, ticking, batch, posts, edits, faults>>

Newer(d) == {e \in Rows : e > d /\ row[e].of = row[d].of /\ row[e].st # "none" /\ There(e)}
Pruned == {d \in Rows : row[d].st # "none" /\ There(d) /\ Cardinality(Newer(d)) >= Keep}

\* prune_deliveries ends a tick, due rows and retries included.
Prune ==
    /\ ticking /\ Done
    /\ ticking' = FALSE
    /\ row' = [d \in Rows |-> IF d \in Pruned THEN [row[d] EXCEPT !.st = "pruned"] ELSE row[d]]
    /\ queue' = Keeping(Rows \ Pruned)
    /\ UNCHANGED <<hook, used, matched, batch, cur, answer, posts, edits, faults>>

\* The server stops, or a statement errs: what is left of the batch waits for
\* the next tick.
Stop ==
    /\ ticking
    /\ Fault
    /\ ticking' = FALSE /\ batch' = <<>> /\ cur' = 0 /\ answer' = "none"
    /\ UNCHANGED <<hook, row, queue, used, matched, posts, edits>>

---------------------------------------------------------------------------
TickStep ==
    \/ Select \/ Take \/ Update \/ Account \/ Prune
    \/ \E a \in {"ok", "bad"} : Answer(a)

Next ==
    \/ \E hs \in SUBSET Hooks : Match(hs)
    \/ \E h \in Hooks : Enqueue(h) \/ Delete(h) \/ \E on \in BOOLEAN : SetEnabled(h, on)
    \/ \E d \in Rows : FallsDue(d)
    \/ TickStep \/ Stop

Spec == Init /\ [][Next]_vars

\* The tick runs every ten seconds, a receiver that is silent times out, and
\* the time of a retry comes.
FairSpec ==
    /\ Spec
    /\ WF_vars(TickStep)
    /\ \A d \in Rows : WF_vars(FallsDue(d))

---------------------------------------------------------------------------
(* A tick holds a delivery exactly while it waits for its receiver or for a *)
(* statement after it, and what is due is pending and queued once.          *)
TypeOK ==
    /\ hook \in [Hooks -> [st : {"on", "off", "gone"}, failures : Nat]]
    /\ row \in [Rows -> [of : Hooks, attempt : 0..Attempts,
                         st : {"none", "pending", "delivered", "failed", "gone", "pruned"}]]
    /\ \A i \in 1..Len(queue) :
          Pending(queue[i]) /\ \A j \in 1..Len(queue) : queue[i] = queue[j] => i = j
    /\ Done \/ ticking
    /\ cur = 0 => answer = "none"
    /\ \A d \in Rows : d > used <=> row[d].st = "none"

(* A receiver gets one request per attempt on record: one more only while   *)
(* the answer is awaited, or for an error or a stop that hid an attempt from *)
(* the table.                                                                *)
PostsAreOnRecord ==
    \A d \in Rows : There(d) =>
        posts[d] <= row[d].attempt + faults
                      + IF cur = d /\ answer \in {"none", "ok", "bad"} THEN 1 ELSE 0

(* A hook that still takes events is below the threshold of failures,       *)
(* whatever toggles, deliveries and errors came in between.                  *)
EnabledIsBelowThreshold ==
    \A h \in Hooks : hook[h].st = "on" => hook[h].failures < Threshold

(* A delivery does not wait for ever, not behind other rows, a receiver that *)
(* fails, or a hook that was disabled or deleted under it.                   *)
EveryDeliverySettles == \A d \in Rows : []<>~Pending(d)
===============================================================================
