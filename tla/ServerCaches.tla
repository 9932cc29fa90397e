---------------------------- MODULE ServerCaches ----------------------------
(***************************************************************************)
(* What the server remembers between calls: the searcher's embedding cache *)
(* and table handle, and the cache of note metadata.  The searcher and the *)
(* metadata reads share no state.                                          *)
(***************************************************************************)
EXTENDS Searcher, MetadataCache

\* What the server remembers between calls is never older than it may be:
\* the searcher's embedding cache evicts what was used longest ago and its
\* table handle is stale only when an opening raced an invalidation, and the
\* metadata cache needs no invalidation at all.
CachesSound ==
    CacheKeepsMostRecent /\ StaleOnlyIfRaced /\ MetadataIsCurrent

=============================================================================
