---------------------------- MODULE VaultQueries ----------------------------
(***************************************************************************)
(* The tools that answer from the catalog and from the tags of the index   *)
(* without a semantic search: server/search_tools.py get_recent_notes,     *)
(* tag_stats, folder_tree and search_by_tags, over list_notes of           *)
(* crud/catalog.py.                                                        *)
(*                                                                         *)
(* A folder is the sequence of its parts.  A tag is a name; Lower gives    *)
(* its lower-case form, and Like the tags that it matches as a pattern of  *)
(* LIKE, where "_" stands for any character ("_" never stands for a        *)
(* character of the separator between two tags).  Every chunk of a note    *)
(* has the note's tags, so that rows are notes here.                       *)
(***************************************************************************)
EXTENDS Orders, SequencesExt, FiniteSetsExt, Integers

CONSTANTS
    QueryNotes,       \* the notes of the vault
    Times,            \* modification times
    Folders,          \* folders of notes, <<>> is the root of the vault
    Depths,           \* values of max_depth
    Tags, Lower, Like,
    TagLists,         \* the tags a note may have, as sequences
    QueryLimits       \* values of limit

ASSUME QueryAssumption ==
    /\ \A t \in Tags : /\ Lower[t] \in Tags /\ Lower[Lower[t]] = Lower[t]
                       /\ t \in Like[t] /\ Like[t] \subseteq Tags
    /\ TagLists \subseteq Seq(Tags)
    /\ Folders \subseteq Seq(UNION {ToSet(f) : f \in Folders})
    /\ QueryNotes \subseteq Nat /\ IsFiniteSet(QueryNotes)
    /\ Times \subseteq Nat
    /\ Depths \subseteq Nat \ {0} /\ QueryLimits \subseteq Nat \ {0}

VARIABLE queried      \* the last answer and what it was made from

NoQuery == [tool |-> "none"]

Under(folder, filter) == IsPrefix(filter, folder)

(***************************************************************************)
(* Listings of the catalog                                                 *)
(***************************************************************************)

\* Defect: the rows come in the order of the paths.
ByPath(rows, mtime) == {Ascending(rows)}

\* ORDER BY mtime_ns DESC: rows of one time come in any order.
ByTime(rows, mtime) ==
    {s \in SetToSeqs(rows) :
       \A i, j \in DOMAIN s : i < j => mtime[s[i]] >= mtime[s[j]]}

\* get_recent_notes: a page of twice the limit, the window, the limit.
RecentNotes(limit) ==
    \E mtime \in [QueryNotes -> Times], folder \in [QueryNotes -> Folders],
       filter \in Folders, cutoff \in Times :
       LET rows == {n \in QueryNotes : Under(folder[n], filter)}
       IN  \E listed \in ByTime(rows, mtime) :
              LET page == Take(listed, 2 * limit)
                  recent == {i \in 1..Len(page) : mtime[page[i]] >= cutoff}
              IN  queried' = [tool |-> "recent", limit |-> limit,
                              mtime |-> mtime,
                              window |-> {n \in rows : mtime[n] >= cutoff},
                              notes |-> Take(At(page, recent), limit)]

\* The folders from the root to a folder, without the root.
PathTo(folder) == {SubSeq(folder, 1, n) : n \in 1..Len(folder)}

\* Defect: a folder below the greatest depth is not counted.
InsertShallow(tree, parts, count, depth) ==
    LET last == Take(parts, depth)
    IN  [p \in DOMAIN tree \cup PathTo(last) \cup {last} |->
           (IF p \in DOMAIN tree THEN tree[p] ELSE 0)
             + (IF p = parts THEN count ELSE 0)]

\* insert_path, with the parts cut to the depth: the count goes to the last
\* folder, and to the root for the notes in it.
InsertPath(tree, parts, count, depth) ==
    LET last == Take(parts, depth)
    IN  [p \in DOMAIN tree \cup PathTo(last) \cup {last} |->
           (IF p \in DOMAIN tree THEN tree[p] ELSE 0)
             + (IF p = last THEN count ELSE 0)]

\* The tree as the counts of its nodes, after each row.
TreeUpTo(rows, count, depth) ==
    LET built[i \in 0..Len(rows)] ==
          IF i = 0 THEN [p \in {} |-> 0]
          ELSE InsertPath(built[i - 1], rows[i], count[rows[i]], depth)
    IN  built

\* folder_tree; the order of the rows does not matter.
TreeOfFolders(depth) ==
    \E folder \in [QueryNotes -> Folders] :
       LET folders == {folder[n] : n \in QueryNotes}
           count == [f \in folders |->
                       Cardinality({n \in QueryNotes : folder[n] = f})]
       IN  \E rows \in SetToSeqs(folders) :
              queried' = [tool |-> "tree", depth |-> depth, folder |-> folder,
                          tree |-> TreeUpTo(rows, count, depth)[Len(rows)],
                          folders |-> Cardinality(UNION {PathTo(Take(f, depth)) :
                                                           f \in folders}),
                          notes |-> Total(count)]

(***************************************************************************)
(* Tags                                                                    *)
(***************************************************************************)

\* tag_stats of a folder: in how many of its notes each stored tag is, the
\* most frequent first.
TagStats(limit) ==
    \E tags \in [QueryNotes -> TagLists], folder \in SUBSET QueryNotes :
       LET stored == UNION {ToSet(tags[n]) : n \in folder}
           count(t) == Cardinality({n \in folder : t \in ToSet(tags[n])})
       IN  \E ranked \in SetToSeqs(stored) :
              /\ \A i, j \in DOMAIN ranked :
                    i < j => count(ranked[i]) >= count(ranked[j])
              /\ queried' = [tool |-> "tags", limit |-> limit, tags |-> tags,
                             folder |-> folder,
                             total |-> Cardinality(stored),
                             top |-> [i \in DOMAIN Take(ranked, limit) |->
                                        <<ranked[i], count(ranked[i])>>]]

\* Defect: no pattern for a tag at the end of the list.
MatchesBeforeEnd(list, t) ==
    list = <<t>> \/ (Len(list) > 1 /\ ToSet(Front(list)) \cap Like[t] # {})

\* The predicate of one tag: the whole list, or a pattern at its beginning,
\* its end or between.
MatchesTag(list, t) ==
    list = <<t>> \/ (Len(list) > 1 /\ ToSet(list) \cap Like[t] # {})

\* Defect: the tags of a note are not compared again.
HasAny(list, wanted) == TRUE

\* The check of match_all, on the lower-case tags.
HasAll(list, wanted) == wanted \subseteq {Lower[t] : t \in ToSet(list)}

\* search_by_tags; the notes are numbered in the order of their times.
SearchByTags(limit, requested, matchAll) ==
    \E tags \in [QueryNotes -> TagLists] :
       LET wanted == {Lower[t] : t \in requested}
           rows == {n \in QueryNotes :
                      \E t \in wanted : MatchesTag(tags[n], t)}
           kept == {n \in rows : matchAll => HasAll(tags[n], wanted)}
       IN  queried' = [tool |-> "search", limit |-> limit, tags |-> tags,
                       wanted |-> wanted, matchAll |-> matchAll,
                       found |-> kept,
                       notes |-> Take(Sorted(kept, {p \in kept \X kept :
                                                      p[1] > p[2]}), limit)]

QueriesInit == queried = NoQuery

QueriesNext ==
    /\ queried = NoQuery
    /\ \/ \E limit \in QueryLimits :
             \/ RecentNotes(limit) \/ TagStats(limit)
             \/ \E requested \in (SUBSET Tags) \ {{}}, all \in BOOLEAN :
                   SearchByTags(limit, requested, all)
       \/ \E depth \in Depths : TreeOfFolders(depth)

QueriesSpec == QueriesInit /\ [][QueriesNext]_queried

(***************************************************************************)
(* Properties                                                              *)
(***************************************************************************)

\* get_recent_notes answers with the newest notes of the window although it
\* reads one page of the catalog and filters it afterwards: as many as were
\* asked for or as there are, in order, none older than one left out.
RecentAreNewest ==
    queried.tool = "recent" =>
      LET notes == queried.notes
          left == queried.window \ ToSet(notes)
      IN  /\ ToSet(notes) \subseteq queried.window
          /\ Len(notes) = Min({queried.limit, Cardinality(queried.window)})
          /\ \A i, j \in DOMAIN notes :
                i < j => queried.mtime[notes[i]] >= queried.mtime[notes[j]]
          /\ \A n \in left, m \in ToSet(notes) :
                queried.mtime[m] >= queried.mtime[n]

\* In the tree a folder and everything below it count as many notes as are
\* there, whatever the depth it is cut to, the root counts its own, and the
\* folders shown and counted are those down to the depth.
TreeCountsNotes ==
    queried.tool = "tree" =>
      LET tree == queried.tree
          sum(p) == Total([q \in {q \in DOMAIN tree : IsPrefix(p, q)} |->
                             tree[q]])
          below(p) == {n \in QueryNotes : IsPrefix(p, queried.folder[n])}
          shown == {p \in UNION {PathTo(queried.folder[n]) :
                                   n \in QueryNotes} : Len(p) <= queried.depth}
      IN  /\ DOMAIN tree \ {<<>>} = shown
          /\ \A p \in DOMAIN tree \cup {<<>>} : sum(p) = Cardinality(below(p))
          /\ queried.notes = Cardinality(QueryNotes)
          /\ queried.folders = Cardinality(shown)

\* match_all finds exactly the notes with every requested tag, when their
\* stored tags are in lower case: the patterns let more rows through, and
\* the comparison that follows loses none of them.
AllTagsAreThere ==
    queried.tool = "search" /\ queried.matchAll =>
      \A n \in QueryNotes :
         LET stored == ToSet(queried.tags[n])
             lower == {Lower[t] : t \in stored}
         IN  /\ n \in queried.found => queried.wanted \subseteq lower
             /\ queried.wanted \subseteq stored => n \in queried.found

\* The tags tag_stats lists are the ones to search by: a listed tag in lower
\* case is counted in as many notes of the folder as a search for it finds
\* there, but for the notes its pattern matches by accident.
ListedTagsAreFound ==
    queried.tool = "tags" =>
      \A i \in DOMAIN queried.top :
         LET t == queried.top[i][1]
             found == {n \in queried.folder : MatchesTag(queried.tags[n], t)}
             accidents == {n \in found : t \notin ToSet(queried.tags[n])}
         IN  Lower[t] = t =>
               queried.top[i][2] = Cardinality(found \ accidents)

\* The recent notes, the tree of folders and the search by tags against what
\* the vault has.
QueriesCorrect ==
    /\ RecentAreNewest
    /\ TreeCountsNotes
    /\ AllTagsAreThere
    /\ ListedTagsAreFound

=============================================================================
