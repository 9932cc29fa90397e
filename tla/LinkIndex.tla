----------------------------- MODULE LinkIndex -----------------------------
(***************************************************************************)
(* The link table and the tools that answer from it: how the rows of a     *)
(* note are written (parsers/markdown.py, core/indexer.py), when they are  *)
(* resolved to notes, and what get_backlinks, get_outlinks,                *)
(* find_broken_links, find_orphan_notes, link_stats and graph_data compute.*)
(*                                                                         *)
(* A normalized link target is a name.  A note answers to its normalized   *)
(* path, to its stem, which notes of several folders may share, and to its *)
(* aliases.  Titles, contexts and headings are left out, and so are the    *)
(* row limits of the queries.                                              *)
(***************************************************************************)
EXTENDS Orders, SequencesExt

CONSTANTS
    Notes,            \* note paths, as numbers in the order of the paths
    NoNote,           \* to_note_path = ""
    NoName,           \* link_target_normalized = ""
    FullName,         \* normalize_link_target of a path
    StemName,         \* normalize_link_target of its stem
    Aliases,          \* the normalized aliases of a note
    Bodies,           \* the sets of links a note's text may hold
    Limits            \* values of the parameter limit

LinkTypes == {"wikilink", "markdown", "embed", "external"}

ASSUME LinkAssumption ==
    /\ Notes \subseteq Nat /\ IsFiniteSet(Notes) /\ NoNote \notin Notes
    /\ \A n \in Notes : NoName \notin {FullName[n], StemName[n]}
    /\ \A content \in Bodies :
          /\ IsFiniteSet(content)
          /\ \A l \in content : /\ l = [type |-> l.type, name |-> l.name]
                                /\ l.type \in LinkTypes
    /\ Limits \subseteq Nat

VARIABLES
    newest,           \* the notes of the catalog, latest modification first
    body,             \* the links in each note's text
    links,            \* the rows of the link table
    edited            \* a note was indexed by itself since the last rebuild

linkVars == <<newest, body, links, edited>>

Present == ToSet(newest)

LinkInit ==
    /\ newest = <<>> /\ body = [n \in Notes |-> {}]
    /\ links = {} /\ edited = FALSE

(***************************************************************************)
(* Writing the rows                                                        *)
(***************************************************************************)

\* The rows parse_note makes: no target is known yet, and an external URL
\* counts as resolved.
ParsedLinks(n, content) ==
    {[from |-> n, type |-> l.type, name |-> l.name, to |-> NoNote,
      resolved |-> l.type = "external"] : l \in content}

\* The notes that path_map may give a name to: a note whose stem or path it
\* is, in the order the set of paths is iterated, before any alias.
Resolutions(notes, name) ==
    LET named == {n \in notes : name \in {FullName[n], StemName[n]}}
    IN  IF named # {} THEN named ELSE {n \in notes : name \in Aliases[n]}

\* Defect: every row is taken for resolved.
ResolvedWithoutTarget(rows, notes, choice) ==
    {[r EXCEPT !.resolved = TRUE,
               !.to = IF Resolutions(notes, r.name) # {} /\ ~r.resolved
                      THEN choice[r.name] ELSE @] : r \in rows}

\* _resolve_link_targets: unresolved rows whose name path_map knows.
ResolvedLinks(rows, notes, choice) ==
    {IF ~r.resolved /\ Resolutions(notes, r.name) # {}
     THEN [r EXCEPT !.to = choice[r.name], !.resolved = TRUE]
     ELSE r : r \in rows}

\* A name may be given to any of the notes that answer to it.
PathMaps(notes) ==
    LET names == {r.name : r \in links} \cup
                   UNION {{l.name : l \in body[n]} : n \in notes}
        known == {x \in names : Resolutions(notes, x) # {}}
    IN  {f \in [known -> notes] :
           \A x \in known : f[x] \in Resolutions(notes, x)}

\* full_reindex: the rows of every note, and one resolution at the end.
RebuildLinks ==
    \E choice \in PathMaps(Present) :
       /\ links' = ResolvedLinks(UNION {ParsedLinks(n, body[n]) :
                                          n \in Present}, Present, choice)
       /\ edited' = FALSE
       /\ UNCHANGED <<newest, body>>

\* Defect: the rows the note had before stay.
KeepOldRows(n) ==
    \E content \in Bodies :
       /\ body' = [body EXCEPT ![n] = content]
       /\ newest' = <<n>> \o Without(newest, n)
       /\ links' = links \cup ParsedLinks(n, content)
       /\ edited' = TRUE

\* A note is created or edited and reindex_note replaces its rows: nothing
\* resolves the new ones.
ReplaceLinks(n) ==
    \E content \in Bodies :
       /\ body' = [body EXCEPT ![n] = content]
       /\ newest' = <<n>> \o Without(newest, n)
       /\ links' = {r \in links : r.from # n} \cup ParsedLinks(n, content)
       /\ edited' = TRUE

\* A note is deleted: its own rows go, the rows that point to it stay.
DeleteLinks(n) ==
    /\ n \in Present
    /\ body' = [body EXCEPT ![n] = {}]
    /\ newest' = Without(newest, n)
    /\ links' = {r \in links : r.from # n}
    /\ edited' = TRUE

LinkNext ==
    \/ RebuildLinks
    \/ \E n \in Notes : ReplaceLinks(n) \/ DeleteLinks(n)

LinkSpec == LinkInit /\ [][LinkNext]_linkVars

(***************************************************************************)
(* The tools                                                               *)
(***************************************************************************)

Internal == {r \in links : r.type # "external"}

\* get_backlinks: the notes it lists.
Backlinks(n) ==
    {r.from : r \in {r \in links : \/ r.to = n
                                   \/ r.name \in {FullName[n], StemName[n]}}}
        \ {n}

\* get_outlinks: the size of each group, and the broken wiki and Markdown
\* links.
Outlinks(n) ==
    LET own == {r \in links : r.from = n}
        of(type) == Cardinality({r \in own : r.type = type})
    IN  [total |-> of("wikilink") + of("markdown") + of("embed")
                     + of("external"),
         broken |-> Cardinality({r \in own : /\ ~r.resolved
                                 /\ r.type \in {"wikilink", "markdown"}})]

\* Defect: embeds are not taken for links.
UnresolvedButEmbeds(rows) ==
    {r \in rows : ~r.resolved /\ r.type \in {"wikilink", "markdown"}}

\* The filter of find_broken_links.
Unresolved(rows) == {r \in rows : ~r.resolved /\ r.type # "external"}

\* find_broken_links without a folder: the notes with most broken links.
BrokenLinks(limit) ==
    LET broken == Unresolved(links)
        count(n) == Cardinality({r \in broken : r.from = n})
        affected == {r.from : r \in broken}
        ranked == Sorted(affected, {p \in affected \X affected :
                    \/ count(p[1]) > count(p[2])
                    \/ count(p[1]) = count(p[2]) /\ p[1] < p[2]})
        chosen == Take(ranked, limit)
    IN  [total |-> Cardinality(broken), affected |-> Len(ranked),
         notes |-> [i \in 1..Len(chosen) |->
                      [path |-> chosen[i],
                       broken |-> {r \in broken : r.from = chosen[i]}]],
         hasMore |-> Len(ranked) > Len(chosen)]

\* Defect: only resolved links count, so links to a shared stem, and links
\* of notes indexed by themselves, leave their targets orphans.
OrphanByPath(n) == \A r \in links : r.to # n

\* The test of find_orphan_notes.
IsOrphan(n) ==
    \A r \in links : r.to # n /\ r.name \notin {FullName[n], StemName[n]}

\* find_orphan_notes: the catalog is read newest first into a deque that
\* keeps the last ones, and is then reversed.
OrphanNotes(limit) ==
    LET orphans == At(newest, {i \in 1..Len(newest) : IsOrphan(newest[i])})
        kept == Take(Reverse(orphans), limit)
    IN  [total |-> Len(newest), orphans |-> Len(orphans), notes |-> kept,
         hasMore |-> Len(orphans) > Len(kept)]

\* link_stats: the totals, and the rankings by backlinks and outlinks.
LinkStats ==
    LET external == {r \in links : r.type = "external"}
    IN  [total |-> Cardinality(links),
         resolved |-> Cardinality({r \in links : r.resolved}),
         broken |-> Cardinality({r \in links : ~r.resolved /\
                                               r.type # "external"}),
         external |-> Cardinality(external),
         referenced |-> [n \in {r.to : r \in links} \ {NoNote} |->
                           Cardinality({r \in links : r.to = n})],
         linking |-> [n \in {r.from : r \in links} |->
                        Cardinality({r \in links : r.from = n})]]

\* graph_data without a folder.
GraphData ==
    LET targets == {r.to : r \in {r \in Internal : r.resolved}} \ {NoNote}
    IN  [nodes |-> [n \in {r.from : r \in Internal} \cup targets |->
                      [outlinks |-> Cardinality({r \in Internal :
                                                   r.from = n}),
                       backlinks |-> Cardinality({r \in Internal :
                                          r.resolved /\ r.to = n})]],
         edges |-> {<<r.from, r.to>> :
                      r \in {r \in Internal : r.resolved /\ r.to # NoNote}}]

(***************************************************************************)
(* Properties                                                              *)
(***************************************************************************)

\* find_orphan_notes and get_backlinks agree, whatever mix of resolved,
\* unresolved and outdated rows the table holds: exactly the notes that no
\* other note and no link of their own reaches are orphans, and the ones
\* that are returned are the notes changed longest ago, oldest first.
OrphansAgreeWithBacklinks ==
    \A limit \in Limits :
       LET answer == OrphanNotes(limit)
           orphans == {n \in Present :
                         /\ Backlinks(n) = {}
                         /\ \A l \in body[n] : l.name \notin
                              {FullName[n], StemName[n]}
                         /\ \A r \in links : r.from = n => r.to # n}
           age(n) == CHOOSE i \in 1..Len(newest) : newest[i] = n
       IN  /\ answer.orphans = Cardinality(orphans)
           /\ ToSet(answer.notes) \subseteq orphans
           /\ \A n \in orphans \ ToSet(answer.notes) :
                 \A i \in 1..Len(answer.notes) : age(answer.notes[i]) > age(n)
           /\ answer.hasMore <=> orphans # ToSet(answer.notes)

\* The tools that count broken links agree with each other: the total of
\* find_broken_links is the one of link_stats and, with the embeds added,
\* the sum over get_outlinks; and no other note has more broken links than
\* one that find_broken_links returns.
BrokenCountsAgree ==
    LET embeds == Cardinality({r \in links : r.type = "embed" /\
                                             ~r.resolved})
        perNote == Total([n \in Notes |-> Outlinks(n).broken])
        broken(n) == Cardinality({r \in links : /\ r.from = n /\ ~r.resolved})
    IN  \A limit \in Limits :
           LET answer == BrokenLinks(limit)
               listed == {answer.notes[i].path : i \in 1..Len(answer.notes)}
           IN  /\ answer.total = LinkStats.broken
               /\ answer.total = perNote + embeds
               /\ \A m \in listed, n \in Notes \ listed :
                     broken(m) >= broken(n)
               /\ answer.hasMore <=> \E n \in Notes \ listed : broken(n) > 0

\* The rows of the table are those of the texts as they were last indexed:
\* get_outlinks counts every link of the note's present text once, and the
\* degrees of graph_data add up to the rows it was made from.
LinksFollowTexts ==
    /\ \A n \in Present : Outlinks(n).total = Cardinality(body[n])
    /\ \A r \in links : r.from \in Present
    /\ LET nodes == GraphData.nodes
       IN  /\ Total([n \in DOMAIN nodes |-> nodes[n].outlinks])
                 = LinkStats.total - LinkStats.external
           /\ Total([n \in DOMAIN nodes |-> nodes[n].backlinks])
                 = LinkStats.resolved - LinkStats.external
           /\ \A e \in GraphData.edges : e[2] \in DOMAIN nodes

\* A link is never resolved to a note that does not answer to its name, and
\* right after a rebuild the links reported as broken are exactly those no
\* indexed note answers to.
ResolutionIsByName ==
    /\ \A r \in links : r.to # NoNote =>
          r.name \in {FullName[r.to], StemName[r.to]} \cup Aliases[r.to]
    /\ ~edited => \A r \in Internal :
          ~r.resolved <=> Resolutions(Present, r.name) = {}

\* The rows of links follow the notes through edits, deletions and rebuilds,
\* and the tools that read them give answers that agree.
LinkAnswersAgree ==
    /\ LinksFollowTexts
    /\ ResolutionIsByName
    /\ OrphansAgreeWithBacklinks
    /\ BrokenCountsAgree

=============================================================================
