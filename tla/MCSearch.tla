------------------------------ MODULE MCSearch ------------------------------
(***************************************************************************)
(* The search tools, each explored on its own: the part a behaviour is     *)
(* about is chosen in its first state and the others stay where they       *)
(* begin.                                                                  *)
(***************************************************************************)
EXTENDS ServerCaches, LinkIndex, GraphTools, SearchRanking, VaultQueries,
        Chunking

VARIABLE part

vars == <<part, searcherVars, linkVars, graphVars, answered, queried, chunked,
          metadataVars>>

(***************************************************************************)
(* Values of the constants                                                 *)
(***************************************************************************)

\* Three notes: two of one stem in different folders, and one whose alias is
\* that stem.
NoteNumbers == 1..3
FullNames == <<"a/x", "b/x", "y">>
StemNames == <<"x", "x", "y">>
NoteAliases == <<{}, {}, {"x", "w"}>>

\* A name that is shared, a full path, an alias, a name nobody has, a URL.
Link(type, name) == [type |-> type, name |-> name]
LinkBodies ==
    {{}, {Link("wikilink", "x")},
     {Link("markdown", "a/x"), Link("wikilink", "y")},
     {Link("embed", "z"), Link("wikilink", "w")},
     {Link("external", NoName), Link("embed", "x")}}

\* Four chunks, two of one text, in two notes.
RowKeys == <<"k1", "k1", "k2", "k3">>
RowNotes == <<"n1", "n1", "n1", "n2">>

\* 1 / (60 + rank) is a whole number of these for the four ranks.
ScoreScale == 61 * 62 * 63 * 64

\* A pattern character, a similar tag, and a tag in upper case.
TagNames == {"to_do", "to-do", "work", "Work"}
LowerTags == [t \in TagNames |-> IF t = "Work" THEN "work" ELSE t]
LikeTags == [t \in TagNames |->
               IF t = "to_do" THEN {"to_do", "to-do"} ELSE {t}]
ListsOfTags ==
    {<<>>, <<"to_do">>, <<"to-do">>, <<"Work">>, <<"to-do", "work">>,
     <<"Work", "to_do">>, <<"work", "to_do", "to-do">>}

NestedFolders ==
    {<<>>, <<"a">>, <<"a", "b">>, <<"a", "b", "c">>, <<"b">>}

\* All short texts, and longer ones without a full stop; headings of three
\* levels and one too deep.
TextShapes == UNION {[1..n -> 0..3] : n \in 0..5} \cup [1..7 -> 0..2]
LineBodies == UNION {[1..n -> -1..4] : n \in 0..4}

(***************************************************************************)
(* The composition                                                         *)
(***************************************************************************)

\* The graph of no part: no note has a neighbour.
GraphRest ==
    /\ GraphInit
    /\ tool = "clusters" /\ adjacency = [v \in Vertices |-> {}]

SearcherRest == SearcherInit /\ indexed = 0

Init ==
    /\ LinkInit /\ RankingInit /\ QueriesInit /\ ChunkingInit /\ MetadataInit
    /\ \/ part = "searcher" /\ SearcherInit /\ GraphRest
       \/ part = "graph" /\ SearcherRest /\ GraphInit
       \/ /\ part \in {"links", "ranking", "queries", "chunking", "metadata"}
          /\ SearcherRest /\ GraphRest

Next ==
    \/ /\ part = "searcher" /\ SearcherNext
       /\ UNCHANGED <<linkVars, graphVars, answered, queried, chunked>>
       /\ UNCHANGED <<part, metadataVars>>
    \/ /\ part = "links" /\ LinkNext
       /\ UNCHANGED <<searcherVars, graphVars, answered, queried, chunked>>
       /\ UNCHANGED <<part, metadataVars>>
    \/ /\ part = "graph" /\ GraphNext
       /\ UNCHANGED <<searcherVars, linkVars, answered, queried, chunked>>
       /\ UNCHANGED <<part, metadataVars>>
    \/ /\ part = "ranking" /\ RankingNext
       /\ UNCHANGED <<searcherVars, linkVars, graphVars, queried, chunked>>
       /\ UNCHANGED <<part, metadataVars>>
    \/ /\ part = "queries" /\ QueriesNext
       /\ UNCHANGED <<searcherVars, linkVars, graphVars, answered, chunked>>
       /\ UNCHANGED <<part, metadataVars>>
    \/ /\ part = "chunking" /\ ChunkingNext
       /\ UNCHANGED <<searcherVars, linkVars, graphVars, answered, queried>>
       /\ UNCHANGED <<part, metadataVars>>
    \/ /\ part = "metadata" /\ MetadataNext
       /\ UNCHANGED <<searcherVars, linkVars, graphVars, answered, queried>>
       /\ UNCHANGED <<part, chunked>>

Spec == Init /\ [][Next]_vars

=============================================================================
