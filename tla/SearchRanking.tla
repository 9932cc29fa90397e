--------------------------- MODULE SearchRanking ---------------------------
(***************************************************************************)
(* How core/searcher.py turns what the index returns into answers: the     *)
(* number of candidates, the fusion of the vector and the full-text        *)
(* rankings, the window that is reranked, the grouping of chunks by note   *)
(* and the grouping of duplicates.                                         *)
(*                                                                         *)
(* A row is a chunk of the index; rows with one path and one text have one *)
(* key.  The index is external: it ranks all rows for a query, some of     *)
(* them for a full-text query, and the cross-encoder gives each text a     *)
(* score, rounded.  Similarity of notes is a relation, the pairs at or     *)
(* above the threshold.                                                    *)
(***************************************************************************)
EXTENDS Orders, SequencesExt, FiniteSetsExt, Integers

CONSTANTS
    Rows,             \* rows of the table
    Key,              \* (note_path, text) of a row
    Note,             \* note_path of a row
    RrfK,             \* HYBRID_RRF_K
    Scale,            \* scores are integers over this common multiple
    CandidatesMin,    \* SEARCH_CANDIDATES
    CandidatesMax,    \* SEARCH_CANDIDATES_MAX
    CandidatesTimes,  \* SEARCH_CANDIDATES_MULTIPLIER
    RerankMax,        \* RERANK_CANDIDATES_MAX
    RerankTimes,      \* RERANK_CANDIDATES_MULTIPLIER
    TopKs,            \* values of top_k after clamp_top_k
    Scores,           \* rounded scores of the cross-encoder
    Peers             \* notes compared by search_duplicates, in table order

ASSUME RankingAssumption ==
    /\ CandidatesMin <= CandidatesMax /\ TopKs \subseteq 1..CandidatesMax
    /\ {CandidatesMin, CandidatesMax} \subseteq Nat \ {0}
    /\ {CandidatesTimes, RerankMax, RerankTimes} \subseteq Nat \ {0}
    /\ IsFiniteSet(Rows) /\ Scores \subseteq Int
    /\ RrfK \in Nat /\ Scale \in Nat \ {0}
    /\ \A i \in 1..Cardinality(Rows) : Scale % (RrfK + i) = 0
    /\ IsFiniteSet(Peers) /\ Peers = 1..Cardinality(Peers)

VARIABLE answered     \* the last answer and what it was made from

NoAnswer == [tool |-> "none"]

Lesser2(m, n) == IF m < n THEN m ELSE n
Greater2(m, n) == IF m > n THEN m ELSE n

\* _compute_candidates
ComputeCandidates(topK) ==
    Lesser2(Greater2(CandidatesMin, topK * CandidatesTimes), CandidatesMax)

\* Defect: the cap of the window also cuts a larger top_k.
CappedPoolSize(topK, count) ==
    Lesser2(count, Lesser2(RerankMax, topK * RerankTimes))

\* _compute_rerank_pool_size
RerankPoolSize(topK, count) ==
    Lesser2(count, Greater2(topK, Lesser2(RerankMax, topK * RerankTimes)))

\* _rerank: a stable sort, best score first.
Rerank(rows, topK, relevance) ==
    LET pool == Take(rows, RerankPoolSize(topK, Len(rows)))
        places == 1..Len(pool)
        score(i) == relevance[Key[pool[i]]]
        ranked == Sorted(places, {p \in places \X places :
                    \/ score(p[1]) > score(p[2])
                    \/ score(p[1]) = score(p[2]) /\ p[1] < p[2]})
    IN  Take([i \in places |-> pool[ranked[i]]], topK)

(***************************************************************************)
(* _fuse_hybrid_results                                                    *)
(***************************************************************************)

Reciprocal(rank) == Scale \div (RrfK + rank)

\* Where a ranking has a key.
Ranks(rows, k) == {i \in 1..Len(rows) : Key[rows[i]] = k}

\* What the passes over one ranking add to the score of a key.
ScoreIn(rows, k) ==
    AddUp([i \in 1..Len(rows) |->
             IF Key[rows[i]] = k THEN Reciprocal(i) ELSE 0])

\* Defect: a chunk found twice keeps the score of the first time.
FirstScore(k, vectorRows, ftsRows) ==
    IF Ranks(vectorRows, k) # {} THEN Reciprocal(Min(Ranks(vectorRows, k)))
    ELSE Reciprocal(Min(Ranks(ftsRows, k)))

\* The reciprocal ranks of a key, added up.
FusedScore(k, vectorRows, ftsRows) ==
    ScoreIn(vectorRows, k) + ScoreIn(ftsRows, k)

\* A key's entry: the row that was met first, the score, the best rank, and
\* when it was met.
FusedEntry(k, vectorRows, ftsRows) ==
    LET all == vectorRows \o ftsRows
        first == Min(Ranks(all, k))
    IN  [row |-> all[first], score |-> FusedScore(k, vectorRows, ftsRows),
         best |-> Min(Ranks(vectorRows, k) \cup Ranks(ftsRows, k)),
         order |-> first]

\* The key of sorted.
Ahead(e, f) ==
    \/ e.score > f.score
    \/ e.score = f.score /\ e.best < f.best
    \/ e.score = f.score /\ e.best = f.best /\ e.order < f.order

Fuse(vectorRows, ftsRows, limit) ==
    LET keys == {Key[r] : r \in ToSet(vectorRows \o ftsRows)}
        fused == {FusedEntry(k, vectorRows, ftsRows) : k \in keys}
        ranked == Sorted(fused, {p \in fused \X fused : Ahead(p[1], p[2])})
    IN  Take([i \in 1..Cardinality(fused) |-> ranked[i].row], limit)

(***************************************************************************)
(* The searches                                                            *)
(***************************************************************************)

RankingInit == answered = NoAnswer

\* The answers of the index: _vector_search ranks the rows by distance.
Rankings == SetToSeqs(Rows)
Matches == UNION {SetToSeqs(s) : s \in SUBSET Rows}
Relevances == [{Key[r] : r \in Rows} -> Scores]

\* search and search_by_folder, without and with a filter of the rows.
SemanticSearch(topK, rows) ==
    \E nearest \in Rankings, relevance \in Relevances :
       LET passed == {i \in 1..Len(nearest) : nearest[i] \in rows}
           raw == Take(At(nearest, passed), ComputeCandidates(topK))
       IN  answered' = [tool |-> "search", topK |-> topK, from |-> raw,
                        relevance |-> relevance,
                        rows |-> Rerank(raw, topK, relevance)]

\* search_hybrid; the full-text ranking is empty when it is unavailable.
HybridSearch(topK) ==
    \E nearest \in Rankings, matching \in Matches, relevance \in Relevances :
       LET candidates == ComputeCandidates(topK)
           vectorRows == Take(nearest, candidates)
           ftsRows == Take(matching, candidates)
           merged == Fuse(vectorRows, ftsRows, candidates)
       IN  answered' = [tool |-> "hybrid", topK |-> topK, from |-> merged,
                        lists |-> <<vectorRows, ftsRows>>,
                        relevance |-> relevance,
                        rows |-> Rerank(merged, topK, relevance)]

\* search_advanced: twice the candidates when terms are excluded, and the
\* exclusion before the reranking.
AdvancedSearch(topK, excluded) ==
    \E nearest \in Rankings, relevance \in Relevances :
       LET doubled == Lesser2(ComputeCandidates(topK) * 2, CandidatesMax)
           count == IF excluded = {} THEN ComputeCandidates(topK) ELSE doubled
           read == Take(nearest, count)
           raw == At(read, {i \in 1..Len(read) : Key[read[i]] \notin excluded})
       IN  answered' = [tool |-> "search", topK |-> topK, from |-> raw,
                        relevance |-> relevance,
                        rows |-> Rerank(raw, topK, relevance)]

\* The nearest chunk of a note.
Nearest(rows, n) == Min({i \in 1..Len(rows) : Note[rows[i]] = n})

\* Notes by their nearest chunk.
ByNearest(rows, notes) ==
    Sorted(notes, {p \in notes \X notes :
                     Nearest(rows, p[1]) < Nearest(rows, p[2])})

\* Defect: the reference note's own chunks are left in.
GroupAll(rows, reference) == ByNearest(rows, {Note[r] : r \in ToSet(rows)})

\* The notes of the rows other than the reference, by their nearest chunk.
GroupByNote(rows, reference) ==
    ByNearest(rows, {Note[r] : r \in ToSet(rows)} \ {reference})

\* find_similar_notes of an indexed note.
SimilarNotes(topK, reference) ==
    \E nearest \in Rankings :
       LET raw == Take(nearest, ComputeCandidates(topK * 3))
       IN  answered' = [tool |-> "similar", topK |-> topK, from |-> raw,
                        reference |-> reference,
                        notes |-> Take(GroupByNote(raw, reference), topK)]

\* Defect: a grouped note may be grouped again.
GroupAgain(seen, i, similar) ==
    {j \in Peers : j > i /\ {i, j} \in similar}

\* The notes after i that its pass of search_duplicates puts in its group.
GroupOf(seen, i, similar) ==
    {j \in Peers : j > i /\ j \notin seen /\ {i, j} \in similar}

\* One pass of its loop: the note starts a group with the similar ones, if
\* there are any.
GroupFrom(done, i, similar) ==
    LET group == GroupOf(done.seen, i, similar)
    IN  IF i \in done.seen THEN done
        ELSE [seen |-> done.seen \cup {i} \cup group,
              groups |-> done.groups \cup
                           (IF group = {} THEN {} ELSE {{i} \cup group})]

\* The loop over the notes in table order.
DuplicatesUpTo(similar) ==
    LET done[i \in 0..Cardinality(Peers)] ==
          IF i = 0 THEN [seen |-> {}, groups |-> {}]
          ELSE GroupFrom(done[i - 1], i, similar)
    IN  done

Pairs == {{p[1], p[2]} : p \in {p \in Peers \X Peers : p[1] < p[2]}}

\* search_duplicates.  The groups are then sorted by their average
\* similarity, which a relation does not tell.
SearchDuplicates ==
    \E similar \in SUBSET Pairs :
       answered' = [tool |-> "duplicates", similar |-> similar,
                    groups |-> DuplicatesUpTo(similar)[Cardinality(Peers)].groups]

\* One call of a tool on an index that holds any rows.
RankingNext ==
    /\ answered = NoAnswer
    /\ \/ \E topK \in TopKs :
             \/ \E note \in {Note[r] : r \in Rows} :
                   \/ SemanticSearch(topK, {r \in Rows : Note[r] = note})
                   \/ SimilarNotes(topK, note)
             \/ SemanticSearch(topK, Rows)
             \/ HybridSearch(topK)
             \/ \E excluded \in SUBSET {Key[r] : r \in Rows} :
                   AdvancedSearch(topK, excluded)
       \/ SearchDuplicates

RankingSpec == RankingInit /\ [][RankingNext]_answered

(***************************************************************************)
(* Properties                                                              *)
(***************************************************************************)

\* What a search of chunks returns: as many rows as were asked for whenever
\* the retrieval found that many, never a row twice, best score first and
\* rows of one score in the order of the retrieval.
ResultsFillTopK ==
    answered.tool \in {"search", "hybrid"} =>
      LET out == answered.rows
          place(r) == CHOOSE i \in DOMAIN answered.from :
                        answered.from[i] = r
          score(r) == answered.relevance[Key[r]]
      IN  /\ Len(out) = Lesser2(answered.topK, Len(answered.from))
          /\ \A i, j \in DOMAIN out : i < j =>
                \/ score(out[i]) > score(out[j])
                \/ /\ score(out[i]) = score(out[j])
                   /\ place(out[i]) < place(out[j])

\* The fused ranking respects both searches: every chunk either found is
\* there once while the limit allows, and a chunk that is ahead of another
\* in each ranking that found the other is ahead in the fused one.
FusionRespectsBoth ==
    answered.tool = "hybrid" =>
      LET merged == answered.from
          occurs(k, l) == Ranks(answered.lists[l], k)
          found == {Key[r] : r \in ToSet(answered.lists[1]
                                            \o answered.lists[2])}
          place(k) == CHOOSE i \in DOMAIN merged : Key[merged[i]] = k
          leads(j, k) == \A l \in 1..2 :
              \/ occurs(k, l) = {}
              \/ /\ Cardinality(occurs(k, l)) = 1 /\ occurs(j, l) # {}
                 /\ Min(occurs(j, l)) < Min(occurs(k, l))
          merges == {Key[r] : r \in ToSet(merged)}
      IN  /\ Len(merged) = Lesser2(Cardinality(found),
                                   ComputeCandidates(answered.topK))
          /\ Cardinality(merges) = Len(merged)
          /\ \A j \in found, k \in merges : j # k /\ leads(j, k) =>
                j \in merges /\ place(j) < place(k)

\* find_similar_notes lists other notes only, each once, and no note that
\* was left out has a nearer chunk among the candidates.
SimilarAreNearest ==
    answered.tool = "similar" =>
      LET raw == answered.from
          listed == ToSet(answered.notes)
          others == {Note[r] : r \in ToSet(raw)} \ {answered.reference}
      IN  /\ listed \subseteq others
          /\ Cardinality(listed) = Len(answered.notes)
          /\ \A n \in others \ listed :
                /\ Len(answered.notes) = answered.topK
                /\ \A m \in listed : Nearest(raw, m) < Nearest(raw, n)

\* search_duplicates puts no note in two groups, groups a note only with
\* notes similar to the group's first, and leaves no similar pair of which
\* neither note is reported.
DuplicatesReportedOnce ==
    answered.tool = "duplicates" =>
      LET groups == answered.groups
      IN  /\ \A g, h \in groups : g # h => g \cap h = {}
          /\ \A g \in groups : \A j \in g \ {Min(g)} :
                {Min(g), j} \in answered.similar
          /\ \A p \in answered.similar : \E g \in groups : g \cap p # {}

\* No window, pool or group on the way cuts off a result that belongs to the
\* answer, and fusion keeps the order both rankings agree on.
RankingCorrect ==
    /\ ResultsFillTopK
    /\ FusionRespectsBoth
    /\ SimilarAreNearest
    /\ DuplicatesReportedOnce

=============================================================================
