----------------------------- MODULE Embeddings -----------------------------
(* The vectors semantic search ranks by (routes/related.rs,                 *)
(* db/message_embeddings.rs, post_message): a task of the post embeds the   *)
(* message, and a tick goes back over what has no vector of the model that  *)
(* is configured, the newest first, a batch at a time.                      *)
EXTENDS Naturals, FiniteSets

CONSTANTS
    Last,           \* message ids are 1 .. Last
    Rooms, Batch,
    MaxFaults       \* bound: calls and statements that fail, processes that stop

\* What a configuration must give.
EmbeddingsAssumption == {Last, Batch} \subseteq Nat \ {0} /\ MaxFaults \in Nat

VARIABLES
    posted,     \* how many messages there are
    room,       \* the room each is in
    deleted,
    vector,     \* message_embeddings: none, old (of another model) or new
    optedOut,   \* rooms with the assistant off
    task,       \* posts whose embedding is under way
    todo,       \* the batch of the tick
    faults

vars == <<posted, room, deleted, vector, optedOut, task, todo, faults>>
MessageIds == 1..Last

Init ==
    /\ posted = 0
    /\ room \in [MessageIds -> Rooms]
    /\ deleted = {}
    /\ vector = [m \in MessageIds |-> "none"]
    /\ optedOut \in SUBSET Rooms
    /\ task = {} /\ todo = {}
    /\ faults = 0

Fault == faults < MaxFaults /\ faults' = faults + 1

Post ==
    /\ posted < Last /\ posted' = posted + 1
    /\ task' = task \cup {posted'}
    /\ UNCHANGED <<room, deleted, vector, optedOut, todo, faults>>

Delete(m) ==
    /\ m <= posted /\ m \notin deleted
    /\ deleted' = deleted \cup {m}
    /\ UNCHANGED <<posted, room, vector, optedOut, task, todo, faults>>

OptIn(r) ==
    /\ r \in optedOut /\ optedOut' = optedOut \ {r}
    /\ UNCHANGED <<posted, room, deleted, vector, task, todo, faults>>

\* embed_message: an opted-out room and a failing endpoint leave no vector,
\* and are no error.
Embed(m) ==
    \/ /\ vector' = [vector EXCEPT ![m] = IF room[m] \in optedOut THEN @ ELSE "new"]
       /\ UNCHANGED faults
    \/ Fault /\ UNCHANGED vector

EmbedPosted(m) ==
    /\ m \in task /\ task' = task \ {m}
    /\ Embed(m)
    /\ UNCHANGED <<posted, room, deleted, optedOut, todo>>

Unembedded == {m \in 1..posted : vector[m] # "new" /\ m \notin deleted}

Newest(n, S) == {m \in S : Cardinality({k \in S : k > m}) < n}

\* Variant: a message with any vector counts as embedded.
AnyModel == Newest(Batch, {m \in Unembedded : vector[m] = "none"})

(* list_unembedded *)
Listed == Newest(Batch, Unembedded)

Select ==
    /\ todo = {} /\ Listed # {}
    /\ todo' = Listed
    /\ UNCHANGED <<posted, room, deleted, vector, optedOut, task, faults>>

\* An error of a statement ends the tick.
Backfill(m) ==
    /\ m \in todo
    /\ \/ todo' = todo \ {m} /\ Embed(m)
       \/ todo' = {} /\ Fault /\ UNCHANGED vector
    /\ UNCHANGED <<posted, room, deleted, optedOut, task>>

\* A start with another model: tasks and the batch are gone.
SwapModel ==
    /\ Fault
    /\ vector' = [m \in MessageIds |-> IF vector[m] = "none" THEN "none" ELSE "old"]
    /\ task' = {} /\ todo' = {}
    /\ UNCHANGED <<posted, room, deleted, optedOut>>

TickStep == Select \/ \E m \in MessageIds : Backfill(m)
Next ==
    \/ Post \/ TickStep \/ SwapModel
    \/ \E m \in MessageIds : Delete(m) \/ EmbedPosted(m)
    \/ \E r \in Rooms : OptIn(r)

Spec == Init /\ [][Next]_vars /\ WF_vars(TickStep)

---------------------------------------------------------------------------
TypeOK ==
    /\ posted \in 0..Last /\ deleted \cup task \cup todo \subseteq 1..posted
    /\ vector \in [MessageIds -> {"none", "old", "new"}] /\ optedOut \subseteq Rooms
    /\ Cardinality(todo) <= Batch

Wanting(m) == m \in Unembedded /\ room[m] \notin optedOut

\* Newer messages of rooms that opted out, as many as fit the batch: they are
\* listed again by every tick and never get a vector.
Clogged(m) ==
    Cardinality({k \in Unembedded : k > m /\ room[k] \in optedOut}) >= Batch

(* Every message of a room that lets it gets a vector of the model in use,  *)
(* a model swapped later included, unless newer messages of rooms that      *)
(* opted out fill the batch before it.                                      *)
EveryMessageIsEmbedded ==
    \A m \in MessageIds : Wanting(m) ~> ~Wanting(m) \/ Clogged(m)
=============================================================================
