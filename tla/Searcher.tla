------------------------------ MODULE Searcher ------------------------------
(***************************************************************************)
(* The state the searches of core/searcher.py share: the cached table      *)
(* handle, which writers of the index invalidate, and the LRU cache of     *)
(* query embeddings.  Rows, vectors and scores are left out.               *)
(*                                                                         *)
(* A handle is the version of the table it was opened at: the connection   *)
(* asks for no read consistency, so a handle never sees a later version.   *)
(* Attribute reads and writes of different threads interleave.             *)
(***************************************************************************)
EXTENDS Orders, SequencesExt

CONSTANTS
    Searchers,        \* threads that run searches
    Queries,
    NoTable,          \* _table is None
    CacheSize,        \* QUERY_EMBEDDING_CACHE_SIZE
    MaxSearches,      \* bound: operations started
    MaxCommits        \* bound: versions of the index

ASSUME SearcherAssumption ==
    /\ CacheSize \in Nat \ {0} /\ {MaxSearches, MaxCommits} \subseteq Nat

VARIABLES
    indexed,          \* version of the table on disk, 0 before the first
    owed,             \* commits whose writer has not invalidated yet
    table,            \* _table
    told,             \* version at the last invalidation
    raced,            \* the last invalidation met an opening in flight
    work,             \* what each thread is doing
    recent,           \* keys of _embedding_cache, least recently used first
    hits, misses,
    served,           \* queries an embedding was returned for, in order
    searches

searcherVars == <<indexed, owed, table, told, raced, work, recent, hits,
                  misses, served, searches>>
cacheVars == <<recent, hits, misses, served>>
handleVars == <<indexed, owed, table, told, raced>>

SearchKinds == {"search", "hybrid", "prewarm"}

NoWork == [step |-> "rest", kind |-> "search", query |-> CHOOSE q \in Queries :
             TRUE, ref |-> NoTable, opened |-> FALSE]

SearcherInit ==
    /\ indexed \in 0..1 /\ owed = 0 /\ table = NoTable
    /\ told = 0 /\ raced = FALSE
    /\ work = [t \in Searchers |-> NoWork]
    /\ recent = <<>> /\ hits = 0 /\ misses = 0 /\ served = <<>>
    /\ searches = 0

Turn(t, step) == work' = [work EXCEPT ![t].step = step]

EndWork(t) == work' = [work EXCEPT ![t] = NoWork]

\* search embeds first; search_hybrid and try_prewarm open the table first.
BeginWork(t) ==
    /\ work[t].step = "rest" /\ searches < MaxSearches
    /\ searches' = searches + 1
    /\ \E kind \in SearchKinds : \E q \in Queries :
          /\ kind = "prewarm" => q = NoWork.query
          /\ work' = [work EXCEPT ![t] =
                       [NoWork EXCEPT !.kind = kind, !.query = q,
                          !.step = IF kind = "search" THEN "lookup"
                                   ELSE "check"]]
    /\ UNCHANGED <<handleVars, cacheVars>>

\* The embedding of the thread's query is returned, and the search goes on
\* to open the table.
ServeEmbedding(t) ==
    /\ served' = Append(served, work[t].query)
    /\ Turn(t, "check")

\* Defect: a hit does not refresh the entry.
TouchNothing(key) == UNCHANGED recent

\* move_to_end.
MoveToEnd(key) == recent' = Append(Without(recent, key), key)

\* The first locked section of _embed_query.
LookUp(t) ==
    /\ work[t].step = "lookup"
    /\ IF Contains(recent, work[t].query)
       THEN /\ MoveToEnd(work[t].query) /\ hits' = hits + 1
            /\ ServeEmbedding(t)
       ELSE Turn(t, "embed") /\ UNCHANGED <<recent, hits, served>>
    /\ UNCHANGED <<handleVars, misses, searches>>

\* embed_queries, outside the lock; its error leaves the search.
EmbedQuery(t) ==
    /\ work[t].step = "embed"
    /\ Turn(t, "insert") \/ EndWork(t)
    /\ UNCHANGED <<handleVars, cacheVars, searches>>

\* Defect: the computed embedding is inserted without looking again.
InsertAgain(t) ==
    /\ work[t].step = "insert"
    /\ recent' = Append(IF Len(recent) >= CacheSize THEN Tail(recent)
                        ELSE recent, work[t].query)
    /\ misses' = misses + 1
    /\ ServeEmbedding(t)
    /\ UNCHANGED <<handleVars, hits, searches>>

\* The second locked section: an entry another thread inserted is kept.
InsertEmbedding(t) ==
    /\ work[t].step = "insert"
    /\ IF Contains(recent, work[t].query)
       THEN MoveToEnd(work[t].query)
       ELSE recent' = Append(IF Len(recent) >= CacheSize THEN Tail(recent)
                             ELSE recent, work[t].query)
    /\ misses' = misses + 1
    /\ ServeEmbedding(t)
    /\ UNCHANGED <<handleVars, hits, searches>>

\* _open_table: "if self._table is None", then the test that it exists.
CheckTable(t) ==
    /\ work[t].step = "check"
    /\ \/ table # NoTable /\ Turn(t, "return")
       \/ table = NoTable /\ indexed > 0 /\ Turn(t, "open")
       \/ table = NoTable /\ indexed = 0 /\ EndWork(t)
    /\ UNCHANGED <<handleVars, cacheVars, searches>>

\* db.open_table.
OpenTable(t) ==
    /\ work[t].step = "open"
    /\ work' = [work EXCEPT ![t].step = "store", ![t].ref = indexed]
    /\ UNCHANGED <<handleVars, cacheVars, searches>>

\* self._table = the opened handle.
StoreTable(t) ==
    /\ work[t].step = "store"
    /\ table' = work[t].ref
    /\ work' = [work EXCEPT ![t].step = "return", ![t].ref = NoTable]
    /\ UNCHANGED <<indexed, owed, told, raced, cacheVars, searches>>

\* "return self._table" reads the attribute again: None, and so an
\* AttributeError in the search, when it was invalidated meanwhile.
\* search_hybrid goes on to embed and to open the table a second time.
ReturnTable(t) ==
    /\ work[t].step = "return"
    /\ IF work[t].kind = "hybrid" /\ ~work[t].opened /\ table # NoTable
       THEN work' = [work EXCEPT ![t].step = "lookup", ![t].opened = TRUE]
       ELSE EndWork(t)
    /\ UNCHANGED <<handleVars, cacheVars, searches>>

\* An indexing that is followed by invalidate_cache: reindex_vault,
\* reindex_note, the reindex queue, the enrichment jobs and the watcher.
CommitIndex ==
    /\ indexed < MaxCommits
    /\ indexed' = indexed + 1 /\ owed' = owed + 1
    /\ UNCHANGED <<table, told, raced, work, cacheVars, searches>>

\* The indexing of sync_vault and of the synchronisation at start, which
\* nothing follows.
CommitSync ==
    /\ indexed < MaxCommits /\ indexed' = indexed + 1
    /\ UNCHANGED <<owed, table, told, raced, work, cacheVars, searches>>

Opening == \E t \in Searchers : work[t].step = "store"

\* Defect: the handle stays.
InvalidateNothing ==
    /\ owed > 0 /\ owed' = owed - 1
    /\ told' = indexed /\ raced' = Opening
    /\ UNCHANGED <<indexed, table, work, cacheVars, searches>>

\* invalidate_cache.
InvalidateCache ==
    /\ owed > 0 /\ owed' = owed - 1
    /\ table' = NoTable /\ told' = indexed /\ raced' = Opening
    /\ UNCHANGED <<indexed, work, cacheVars, searches>>

SearchSteps(t) ==
    \/ LookUp(t) \/ EmbedQuery(t) \/ InsertEmbedding(t)
    \/ CheckTable(t) \/ OpenTable(t) \/ StoreTable(t) \/ ReturnTable(t)

SearcherNext ==
    \/ \E t \in Searchers : BeginWork(t) \/ SearchSteps(t)
    \/ CommitIndex \/ CommitSync \/ InvalidateCache

SearcherSpec == SearcherInit /\ [][SearcherNext]_searcherVars

(***************************************************************************)
(* Properties                                                              *)
(***************************************************************************)

\* Where a history has a key for the last time.
LastUse(s, q) ==
    CHOOSE i \in 1..Len(s) : s[i] = q /\ \A j \in (i + 1)..Len(s) : s[j] # q

\* The keys of a history by their last use, the latest last.
ByLastUse(s) ==
    Sorted(ToSet(s), {p \in ToSet(s) \X ToSet(s) :
                        LastUse(s, p[1]) < LastUse(s, p[2])})

\* Whatever searches overlap, the cache holds exactly the queries served
\* last, in the order of their last use and at most CacheSize of them, and
\* every embedding handed out was counted once as a hit or a miss.
CacheKeepsMostRecent ==
    LET used == ByLastUse(served)
        kept == IF Len(used) > CacheSize THEN CacheSize ELSE Len(used)
    IN  /\ recent = SubSeq(used, Len(used) - kept + 1, Len(used))
        /\ hits + misses = Len(served)

\* A cached handle that is older than the last invalidation was being stored
\* by a thread while that invalidation ran; no other order of the writers'
\* and the searchers' steps keeps an old handle.
StaleOnlyIfRaced ==
    table # NoTable /\ table < told => raced

=============================================================================
