------------------------------ MODULE HelpDocs ------------------------------
(* The documentation the help desk answers from (routes/help_docs.rs,       *)
(* db/doc_chunks.rs): a run goes through the configured sources, writes     *)
(* anew each page whose text changed, and prunes what left its index.  Two  *)
(* may begin a run, the tick and an administrator; a row of the settings    *)
(* database is the lock between them.                                       *)
EXTENDS Naturals

CONSTANTS
    Pages, Sources, SourceOf,
    Long,                           \* chunks of the longest text
    MaxEdits, MaxForced, MaxFaults  \* bounds: of sites and settings, of forced runs, of failures

\* What a configuration must give.
DocsAssumption ==
    /\ Pages # {} /\ SourceOf \in [Pages -> Sources]
    /\ {Long, MaxEdits, MaxForced, MaxFaults} \subseteq Nat

VARIABLES
    text, linked,   \* the sites: a text is told by its chunks, 0 for none; pages the indexes link
    product,        \* the product each source line names
    configured,     \* help_docs_sources
    chunks,         \* doc_chunks: of which text each chunk of a page is, or 0
    lock,           \* help_docs_reindex_lock
    run,            \* the tick's run, the administrator's
    edits, forced, faults,
    torn,           \* history: pages with some chunks, the writing failed before the last
    lost,           \* history: with none, it failed before the first or another source pruned them
    kept            \* history: written whole, and wanted ever since

sites == <<text, linked, product, configured>>
bounds == <<edits, forced, faults>>
history == <<torn, lost, kept>>
vars == <<sites, chunks, lock, run, bounds, history>>

Runs == {"tick", "admin"}
NoRun ==
    [at |-> "idle", known |-> {}, todo |-> {}, source |-> CHOOSE s \in Sources : TRUE,
     pages |-> {}, visited |-> {}, page |-> CHOOSE p \in Pages : TRUE, hash |-> 0, n |-> 0]
Whole(t) == [i \in 1..Long |-> IF i <= t THEN t ELSE 0]
Empty == Whole(0)
Stored == {p \in Pages : chunks[p] # Empty}
Products(S) == {product[s] : s \in S}
ProductOf(p) == product[SourceOf[p]]
Wanted(p) == p \in linked /\ SourceOf[p] \in configured /\ text[p] # 0

Init ==
    /\ text = [p \in Pages |-> Long] /\ linked = Pages
    /\ product \in [Sources -> Sources]
    /\ configured = Sources
    /\ chunks = [p \in Pages |-> Empty]
    /\ lock = FALSE /\ run = [r \in Runs |-> NoRun]
    /\ edits = 0 /\ forced = 0 /\ faults = 0
    /\ torn = {} /\ lost = {} /\ kept = {}

\* The sites, and post_help_docs_sources.
Edit ==
    /\ edits < MaxEdits /\ edits' = edits + 1
    /\ \/ /\ \E p \in Pages, t \in 0..Long : text' = [text EXCEPT ![p] = t]
          /\ UNCHANGED <<linked, configured>>
       \/ /\ \E p \in Pages : linked' \in {linked \cup {p}, linked \ {p}}
          /\ UNCHANGED <<text, configured>>
       \/ /\ configured' \in SUBSET Sources
          /\ UNCHANGED <<text, linked>>
    /\ kept' = {p \in kept : Wanted(p)'}
    /\ UNCHANGED <<product, chunks, lock, run, forced, faults, torn, lost>>

\* Variant: the runs may overlap.
Unguarded == TRUE

Grants == ~lock

(* try_acquire_reindex_lock: a run that finds the lock taken is none.  The  *)
(* tick saw sources before; by now they may be gone.                        *)
Acquire(r) ==
    /\ run[r] = NoRun /\ Grants
    /\ IF r = "admin" THEN forced < MaxForced /\ forced' = forced + 1 ELSE UNCHANGED forced
    /\ lock' = TRUE
    /\ run' = [run EXCEPT ![r].at = "load"]
    /\ UNCHANGED <<sites, chunks, edits, faults, history>>

\* A statement or a fetch goes as it should, or fails.
Fault == faults < MaxFaults /\ faults' = faults + 1 /\ UNCHANGED <<edits, forced>>
Fine == UNCHANGED bounds
Reads == UNCHANGED <<sites, chunks, lock, history>>

\* The setting is read once.  Without sources nothing is pruned either.
Load(r) ==
    /\ run[r].at = "load"
    /\ \/ /\ run' = [run EXCEPT ![r].at = IF configured = {} THEN "release" ELSE "source",
                                ![r].known = configured, ![r].todo = configured]
          /\ Fine
       \/ run' = [run EXCEPT ![r].at = "release"] /\ Fault
    /\ Reads

(* fetch_text of an index, parse_index_links: a failure leaves the source   *)
(* to the next run, unpruned.                                               *)
FetchIndex(r, s) ==
    /\ run[r].at = "source" /\ s \in run[r].todo
    /\ \/ /\ run' = [run EXCEPT ![r].at = "pages", ![r].todo = @ \ {s}, ![r].source = s,
                                ![r].pages = {p \in linked : SourceOf[p] = s},
                                ![r].visited = {}]
          /\ Fine
       \/ run' = [run EXCEPT ![r].todo = @ \ {s}] /\ Fault
    /\ Reads

\* Variant: a page that fails is taken for one that left the index.
Forgotten(visited, p) == visited

\* A page whose fetch, embedding or writing failed is still linked.
AfterFailure(visited, p) == visited \cup {p}

Fails(r) ==
    run' = [run EXCEPT ![r].at = "pages", ![r].hash = 0, ![r].n = 0,
                       ![r].visited = AfterFailure(@, run[r].page)]
Succeeds(r) ==
    run' = [run EXCEPT ![r].at = "pages", ![r].hash = 0, ![r].n = 0,
                       ![r].visited = @ \cup {run[r].page}]

FetchPage(r, p) ==
    /\ run[r].at = "pages" /\ p \in run[r].pages
    /\ \/ /\ run' = [run EXCEPT ![r].at = "read", ![r].page = p, ![r].hash = text[p],
                                ![r].pages = @ \ {p}]
          /\ Fine
       \/ /\ run' = [run EXCEPT ![r].pages = @ \ {p}, ![r].visited = AfterFailure(@, p)]
          /\ Fault
    /\ Reads

(* delete_by_source *)
Delete(S) == chunks' = [p \in Pages |-> IF p \in S THEN Empty ELSE chunks[p]]

\* A page without sections loses its chunks, and is an error either way.
Blank(r) ==
    /\ run[r].at = "read" /\ run[r].hash = 0
    /\ Fails(r)
    /\ \/ Delete({run[r].page}) /\ torn' = torn \ {run[r].page} /\ Fine
       \/ UNCHANGED <<chunks, torn>> /\ Fault
    /\ UNCHANGED <<sites, lock, lost, kept>>

(* source_content_hash: an administrator's run does not ask, and an error   *)
(* is no reason to skip the page.                                           *)
Compare(r) ==
    /\ run[r].at = "read" /\ run[r].hash # 0
    /\ LET same == \E i \in 1..Long : chunks[run[r].page][i] = run[r].hash
           embeds == run' = [run EXCEPT ![r].at = "embed"]
       IN \/ r = "tick" /\ same /\ Succeeds(r) /\ Fine
          \/ (r = "admin" \/ ~same) /\ embeds /\ Fine
          \/ r = "tick" /\ embeds /\ Fault
    /\ Reads

\* All chunks of the page, before the first is written.
Embed(r) ==
    /\ run[r].at = "embed"
    /\ \/ run' = [run EXCEPT ![r].at = "clear"] /\ Fine
       \/ Fails(r) /\ Fault
    /\ Reads

\* Variant: the chunks are overwritten in place.
InPlace(p) == UNCHANGED chunks

Cleared(p) == Delete({p})

Clear(r) ==
    /\ run[r].at = "clear"
    /\ \/ /\ Cleared(run[r].page)
          /\ run' = [run EXCEPT ![r].at = "write"]
          /\ torn' = torn \ {run[r].page}
          /\ Fine
       \/ Fails(r) /\ Fault /\ UNCHANGED <<chunks, torn>>
    /\ UNCHANGED <<sites, lock, lost, kept>>

\* What a writing leaves that fails or stops after n chunks.
Breaks(r) ==
    /\ torn' = IF run[r].n > 0 THEN torn \cup {run[r].page} ELSE torn
    /\ lost' = IF run[r].n = 0 THEN lost \cup {run[r].page} ELSE lost

(* upsert, chunk by chunk *)
Write(r) ==
    /\ run[r].at = "write"
    /\ LET p == run[r].page
           n == run[r].n + 1
       IN \/ /\ chunks' = [chunks EXCEPT ![p][n] = run[r].hash]
             /\ IF n = run[r].hash
                THEN Succeeds(r) /\ kept' = IF Wanted(p) THEN kept \cup {p} ELSE kept
                ELSE run' = [run EXCEPT ![r].n = n] /\ UNCHANGED kept
             /\ lost' = lost \ {p}
             /\ UNCHANGED torn /\ Fine
          \/ Fails(r) /\ Breaks(r) /\ Fault /\ UNCHANGED <<chunks, kept>>
    /\ UNCHANGED <<sites, lock>>

\* list_source_urls, which is authoritative for the product of the source.
ListPages(r) ==
    /\ run[r].at = "pages" /\ run[r].pages = {}
    /\ LET ofProduct == {p \in Stored : ProductOf(p) = product[run[r].source]}
       IN \/ /\ run' = [run EXCEPT ![r].at = "prune", ![r].pages = ofProduct \ run[r].visited]
             /\ Fine
          \/ run' = [run EXCEPT ![r].at = "source"] /\ Fault
    /\ Reads

Prune(r, p) ==
    /\ run[r].at = "prune" /\ p \in run[r].pages
    /\ run' = [run EXCEPT ![r].pages = @ \ {p}]
    /\ \/ /\ Delete({p}) /\ torn' = torn \ {p}
          /\ lost' = IF run[r].source # SourceOf[p] THEN lost \cup {p} ELSE lost
          /\ Fine
       \/ UNCHANGED <<chunks, torn, lost>> /\ Fault
    /\ UNCHANGED <<sites, lock, kept>>

(* distinct_products against the sources the run began with *)
ListProducts(r) ==
    /\ run[r].at = "source" /\ run[r].todo = {}
    /\ LET indexed == {ProductOf(p) : p \in Stored}
       IN \/ /\ run' = [run EXCEPT ![r].at = "drop",
                                   ![r].todo = indexed \ Products(run[r].known)]
             /\ Fine
          \/ run' = [run EXCEPT ![r].at = "release"] /\ Fault
    /\ Reads

(* delete_by_product *)
Drop(r, q) ==
    /\ run[r].at = "drop" /\ q \in run[r].todo
    /\ run' = [run EXCEPT ![r].todo = @ \ {q}]
    /\ LET gone == {p \in Pages : ProductOf(p) = q}
       IN \/ Delete(gone) /\ torn' = torn \ gone /\ Fine
          \/ UNCHANGED <<chunks, torn>> /\ Fault
    /\ UNCHANGED <<sites, lock, lost, kept>>

EndOfPruning(r) ==
    /\ \/ /\ run[r].at = "prune" /\ run[r].pages = {}
          /\ run' = [run EXCEPT ![r].at = "source"]
       \/ /\ run[r].at = "drop" /\ run[r].todo = {}
          /\ run' = [run EXCEPT ![r].at = "release"]
    /\ Reads /\ Fine

(* release_reindex_lock, whose failure leaves the row. *)
Release(r) ==
    /\ run[r].at = "release"
    /\ run' = [run EXCEPT ![r] = NoRun]
    /\ \/ lock' = FALSE /\ Fine
       \/ UNCHANGED lock /\ Fault
    /\ UNCHANGED <<sites, chunks, history>>

\* The process goes, the lock stays.
Stop(r) ==
    /\ run[r] # NoRun /\ Fault
    /\ run' = [q \in Runs |-> NoRun]
    /\ IF run[r].at = "write" THEN Breaks(r) ELSE UNCHANGED <<torn, lost>>
    /\ UNCHANGED <<sites, chunks, lock, kept>>

Step(r) ==
    \/ Load(r) \/ Blank(r) \/ Compare(r) \/ Embed(r) \/ Clear(r) \/ Write(r)
    \/ ListPages(r) \/ ListProducts(r) \/ EndOfPruning(r) \/ Release(r)
    \/ \E s \in Sources : FetchIndex(r, s) \/ Drop(r, s)
    \/ \E p \in Pages : FetchPage(r, p) \/ Prune(r, p)
RunStep == Acquire("tick") \/ \E r \in Runs : Step(r)
Next == RunStep \/ Acquire("admin") \/ Edit \/ \E r \in Runs : Stop(r)

Spec == Init /\ [][Next]_vars /\ WF_vars(RunStep)

---------------------------------------------------------------------------
TypeOK ==
    /\ text \in [Pages -> 0..Long] /\ linked \subseteq Pages /\ configured \subseteq Sources
    /\ chunks \in [Pages -> [1..Long -> 0..Long]]
    /\ \A r \in Runs : run[r].visited \cup run[r].pages \subseteq Pages

Writing(p) == \E r \in Runs : run[r].at = "write" /\ run[r].page = p

(* What the help desk cites of a page is one text of it, from the first     *)
(* chunk to the last, however the tick, an administrator and failures       *)
(* overlap; but for a page whose writing failed before its last chunk.      *)
PagesAreWhole ==
    \A p \in Pages : (\E t \in 0..Long : chunks[p] = Whole(t)) \/ p \in torn \/ Writing(p)

(* A page stays with the help desk as long as its source is configured and  *)
(* links it, whatever fetches and statements fail; but for a writing that   *)
(* failed before its first chunk, and for a second source of its product.   *)
KeptPagesStand == \A p \in kept : p \in Stored \/ p \in lost \/ Writing(p)

Rivalled(p) == Wanted(p) /\ \E s \in configured \ {SourceOf[p]} : product[s] = ProductOf(p)

\* A run that was stopped, or could not release: no other will begin.
Stuck == lock /\ \A r \in Runs : run[r] = NoRun

(* The corpus follows the sites: once they are left alone each page stands   *)
(* in the text it has, or is gone when it is blank, not linked or not        *)
(* configured; unless the lock is left behind, a torn writing is taken for   *)
(* the text, two sources name one product, or all sources went at once.      *)
CorpusFollows ==
    \A p \in Pages :
        <>[](\/ chunks[p] = Whole(IF Wanted(p) THEN text[p] ELSE 0)
             \/ Stuck \/ p \in torn \/ Rivalled(p) \/ configured = {})
=============================================================================
