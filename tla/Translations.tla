---------------------------- MODULE Translations ----------------------------
(* The cached translations of one message (routes/translate.rs,             *)
(* db/translations.rs) beside its edits (patch_message of routes/room.rs):  *)
(* a translation is of the body the request read, and is stored after the   *)
(* answer of the model.                                                     *)
EXTENDS Naturals

CONSTANTS
    Locales, None,
    Tasks,          \* requests to translate
    MaxEdits, MaxRequests

\* What a configuration must give.
TranslationsAssumption == {MaxEdits, MaxRequests} \subseteq Nat

VARIABLES
    body,       \* the message: how many edits it has had
    cache,      \* message_translations: of which body, by locale
    task,
    editing,    \* patch_message between its UPDATE and the invalidation
    requests,
    crossed     \* history: locales stored after an edit the request did not see, or not dropped

vars == <<body, cache, task, editing, requests, crossed>>
Idle == [at |-> "none", locale |-> None, of |-> None]

Init ==
    /\ body = 0
    /\ cache = [l \in Locales |-> None]
    /\ task = [t \in Tasks |-> Idle]
    /\ editing = FALSE /\ requests = 0 /\ crossed = {}

(* post_translate reads the message, and takes what is cached. *)
Read(t, l) ==
    /\ task[t] = Idle /\ requests < MaxRequests /\ requests' = requests + 1
    /\ task' = [task EXCEPT ![t] = [at |-> "read", locale |-> l, of |-> body]]
    /\ UNCHANGED <<body, cache, editing, crossed>>

Lookup(t) ==
    /\ task[t].at = "read"
    /\ task' = [task EXCEPT ![t] = IF cache[@.locale] # None THEN Idle ELSE [@ EXCEPT !.at = "asking"]]
    /\ UNCHANGED <<body, cache, editing, requests, crossed>>

(* complete_guarded, then the upsert; or an error, and nothing is stored. *)
Store(t) ==
    /\ task[t].at = "asking"
    /\ LET l == task[t].locale
       IN \/ /\ cache' = [cache EXCEPT ![l] = task[t].of]
             /\ crossed' = IF task[t].of # body /\ ~editing THEN crossed \cup {l} ELSE crossed \ {l}
          \/ UNCHANGED <<cache, crossed>>
    /\ task' = [task EXCEPT ![t] = Idle]
    /\ UNCHANGED <<body, editing, requests>>

(* update_message_body *)
Edit ==
    /\ ~editing /\ body < MaxEdits
    /\ body' = body + 1 /\ editing' = TRUE
    /\ UNCHANGED <<cache, task, requests, crossed>>

\* Variant: one locale is dropped, the editor's.
FirstOnly == [cache EXCEPT ![CHOOSE l \in Locales : TRUE] = None]

Dropped == [l \in Locales |-> None]

(* delete_for_message, whose error does not fail the edit. *)
Invalidate ==
    /\ editing /\ editing' = FALSE
    /\ \/ cache' = Dropped /\ crossed' = {}
       \/ UNCHANGED cache /\ crossed' = {l \in Locales : cache[l] # None}
    /\ UNCHANGED <<body, task, requests>>

Next ==
    \/ \E t \in Tasks : (\E l \in Locales : Read(t, l)) \/ Lookup(t) \/ Store(t)
    \/ Edit \/ Invalidate

Spec == Init /\ [][Next]_vars

---------------------------------------------------------------------------
TypeOK ==
    /\ body \in 0..MaxEdits
    /\ cache \in [Locales -> 0..MaxEdits \cup {None}]
    /\ \A t \in Tasks : task[t].at \in {"none", "read", "asking"}

(* Outside of an edit, what is cached is a translation of the body that     *)
(* stands, unless its request read the body before an edit that was done    *)
(* before the answer came, or the invalidation failed.                      *)
CacheIsOfTheBody ==
    ~editing => \A l \in Locales : cache[l] \in {None, body} \/ l \in crossed
=============================================================================
