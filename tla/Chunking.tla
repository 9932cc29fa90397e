------------------------------ MODULE Chunking ------------------------------
(***************************************************************************)
(* From a note's text to the chunks of the index: core/chunker.py,         *)
(* utils/chunking.py and the headings of parsers/markdown.py.              *)
(*                                                                         *)
(* A text is a sequence of characters: blank, newline, full stop, and      *)
(* letters, which are told apart by their place in the text.  A Markdown   *)
(* body is a sequence of lines: the level of a heading, a line of text or  *)
(* an empty one.                                                           *)
(***************************************************************************)
EXTENDS SequencesExt, Integers

CONSTANTS
    Shapes,           \* texts, with Letter for every letter
    Sizes, Overlaps,  \* CHUNK_SIZE and CHUNK_OVERLAP, less than it
    NoteBodies,       \* bodies, as sequences of lines
    HeaderLevels      \* MARKDOWN_HEADER_LEVELS

VARIABLE chunked      \* the last result and what it was made from

Letter == 0
Blank == 1
Newline == 2
Stop == 3

\* CHUNK_SEPARATORS
Separators == <<<<Newline, Newline>>, <<Newline>>, <<Stop, Blank>>, <<Blank>>>>

\* The text of a shape: the letter at place i is 10 + i.
TextOf(shape) ==
    [i \in DOMAIN shape |-> IF shape[i] = Letter THEN 10 + i ELSE shape[i]]

IsLetter(c) == c > 10

\* str.split
RECURSIVE Split(_, _)
Split(text, sep) ==
    LET at == {i \in 1..Len(text) - Len(sep) + 1 :
                 SubSeq(text, i, i + Len(sep) - 1) = sep}
        i == CHOOSE n \in at : \A m \in at : n <= m
    IN  IF at = {} THEN <<text>>
        ELSE <<SubSeq(text, 1, i - 1)>>
               \o Split(SubSeq(text, i + Len(sep), Len(text)), sep)

\* text[i : i + size] for i in steps of size.
RECURSIVE HardCuts(_, _)
HardCuts(text, size) ==
    IF Len(text) <= size THEN <<text>>
    ELSE <<SubSeq(text, 1, size)>>
           \o HardCuts(SubSeq(text, size + 1, Len(text)), size)

\* The loop that groups parts while they fit.
AddPart(size, sep, group, piece) ==
    LET candidate == IF group.current = <<>> THEN piece
                     ELSE group.current \o sep \o piece
    IN  IF Len(candidate) <= size THEN [group EXCEPT !.current = candidate]
        ELSE [done |-> IF group.current = <<>> THEN group.done
                       ELSE Append(group.done, group.current),
              current |-> piece]

Grouping(parts, size, sep) ==
    FoldLeft(LAMBDA group, piece : AddPart(size, sep, group, piece),
             [done |-> <<>>, current |-> <<>>], parts)

\* Defect: the group being built at the end of the loop is lost.
GroupLosingLast(parts, size, sep) == Grouping(parts, size, sep).done

GroupParts(parts, size, sep) ==
    LET group == Grouping(parts, size, sep)
    IN  group.done \o IF group.current = <<>> THEN <<>>
                      ELSE <<group.current>>

\* _chunk_with_separators
RECURSIVE ChunkWithSeparators(_, _, _)
ChunkWithSeparators(text, size, n) ==
    IF Len(text) <= size THEN <<text>>
    ELSE IF n > Len(Separators) THEN HardCuts(text, size)
    ELSE LET parts == Split(text, Separators[n])
             raw == GroupParts(parts, size, Separators[n])
         IN  IF Len(parts) <= 1 THEN ChunkWithSeparators(text, size, n + 1)
             ELSE FoldLeft(LAMBDA done, c :
                      done \o ChunkWithSeparators(c, size, n + 1), <<>>, raw)

Suffix(text, n) == SubSeq(text, Len(text) - n + 1, Len(text))

\* _get_overlap_prefix
OverlapPrefix(text, overlap) ==
    LET suffix == Suffix(text, overlap)
        blanks == {i \in DOMAIN suffix : suffix[i] = Blank}
        i == CHOOSE b \in blanks : \A c \in blanks : b <= c
    IN  IF Len(text) <= overlap THEN text
        ELSE IF blanks # {} /\ 1 < i /\ i < overlap
        THEN SubSeq(suffix, i + 1, overlap) ELSE suffix

\* Defect: the prefix is not cut to the room there is.
UntrimmedPrefix(before, chunk, size, overlap) == OverlapPrefix(before, overlap)

\* The prefix of a chunk: from the chunk before it, as far as there is room.
PrefixOf(before, chunk, size, overlap) ==
    LET prefix == OverlapPrefix(before, overlap)
        room == IF size > Len(chunk) THEN size - Len(chunk) ELSE 0
    IN  IF Len(prefix) > room THEN Suffix(prefix, room) ELSE prefix

\* chunk_text
ChunkText(text, size, overlap) ==
    LET chunks == ChunkWithSeparators(text, size, 1)
    IN  IF Len(text) <= size THEN <<text>>
        ELSE IF overlap = 0 THEN chunks
        ELSE [i \in DOMAIN chunks |->
                IF i = 1 THEN chunks[1]
                ELSE PrefixOf(chunks[i - 1], chunks[i], size, overlap)
                       \o chunks[i]]

\* part.strip()
Strip(text) ==
    LET solid == {i \in DOMAIN text : text[i] \notin {Blank, Newline}}
    IN  IF solid = {} THEN <<>>
        ELSE SubSeq(text, CHOOSE i \in solid : \A j \in solid : i <= j,
                          CHOOSE i \in solid : \A j \in solid : i >= j)

\* chunk_and_collect
CollectChunks ==
    \E shape \in Shapes, size \in Sizes, overlap \in Overlaps :
       /\ overlap < size
       /\ LET text == TextOf(shape)
              parts == ChunkText(text, size, overlap)
              stripped == [i \in DOMAIN parts |-> Strip(parts[i])]
          IN  chunked' = [what |-> "text", text |-> text, size |-> size,
                          chunks |-> SelectSeq(stripped,
                                               LAMBDA c : c # <<>>)]

(***************************************************************************)
(* split_by_headers                                                        *)
(***************************************************************************)

Empty == -1           \* lines: Empty, 0 for text, or a heading's level

IsHeading(line) == line \in 1..HeaderLevels

\* Defect: the headings below the new one stay.
KeepDeeper(current, level, at) ==
    [l \in 1..HeaderLevels |-> IF l = level THEN at ELSE current[l]]

\* current_headers after a heading: the line it has, by level.
SetHeader(current, level, at) ==
    [l \in 1..HeaderLevels |->
       IF l = level THEN at ELSE IF l > level THEN 0 ELSE current[l]]

\* The section of the lines from first to last, unless it is blank.
Section(body, current, first, last) ==
    IF \A i \in first..last : body[i] = Empty THEN <<>>
    ELSE <<[headers |-> SelectSeq(current, LAMBDA h : h # 0),
            lines |-> {i \in first..last : body[i] # Empty}]>>

SplitByHeaders(body) ==
    LET step(state, i) ==
          IF ~IsHeading(body[i]) THEN state
          ELSE [sections |-> state.sections \o
                   Section(body, state.current, state.from, i - 1),
                current |-> SetHeader(state.current, body[i], i),
                from |-> i]
        end == FoldLeft(step, [sections |-> <<>>, from |-> 1,
                               current |-> [l \in 1..HeaderLevels |-> 0]],
                        [i \in DOMAIN body |-> i])
    IN  end.sections \o Section(body, end.current, end.from, Len(body))

SplitNote ==
    \E body \in NoteBodies :
       chunked' = [what |-> "body", body |-> body,
                   sections |-> SplitByHeaders(body)]

NotChunked == [what |-> "nothing"]

ChunkingInit == chunked = NotChunked

ChunkingNext == chunked = NotChunked /\ (CollectChunks \/ SplitNote)

(***************************************************************************)
(* Properties                                                              *)
(***************************************************************************)

\* A chunk is never longer than the size, overlap included, and a chunk
\* that would be empty is not indexed.
ChunksFit ==
    chunked.what = "text" =>
      \A i \in DOMAIN chunked.chunks : Len(chunked.chunks[i]) \in 1..chunked.size

\* Nothing of a text is lost or torn: every letter is in a chunk, the
\* letters of a chunk are successive letters of the text, and each chunk of
\* letters goes on where the text of the one before it ends, at the latest.
ChunksCoverText ==
    chunked.what = "text" =>
      LET letters == SelectSeq(chunked.text, IsLetter)
          texts == SelectSeq([i \in DOMAIN chunked.chunks |->
                       SelectSeq(chunked.chunks[i], IsLetter)],
                     LAMBDA c : c # <<>>)
          place(c) == CHOOSE i \in DOMAIN letters : letters[i] = c
          first(c) == place(c[1])
          last(c) == place(c[Len(c)])
      IN  /\ \A i \in DOMAIN texts :
               texts[i] = SubSeq(letters, first(texts[i]), last(texts[i]))
          /\ letters # <<>> =>
               /\ texts # <<>> /\ first(texts[1]) = 1
               /\ last(texts[Len(texts)]) = Len(letters)
          /\ \A i \in 2..Len(texts) :
               /\ first(texts[i]) <= last(texts[i - 1]) + 1
               /\ last(texts[i]) >= last(texts[i - 1])

\* The headings of a section are those its lines are under: a heading above
\* them, or their first line, that no heading of its level or a higher one
\* follows; and the sections hold every line that is not empty, in order.
HeadingsNest ==
    chunked.what = "body" =>
      LET body == chunked.body
          sections == chunked.sections
          first(s) == CHOOSE i \in s.lines : \A j \in s.lines : i <= j
          over(n) == {i \in 1..n :
                        /\ body[i] \in 1..HeaderLevels
                        /\ \A j \in i + 1..n :
                             ~(body[j] \in 1..HeaderLevels
                                 /\ body[j] <= body[i])}
      IN  /\ \A k \in DOMAIN sections :
               /\ ToSet(sections[k].headers) = over(first(sections[k]))
               /\ \A h, g \in DOMAIN sections[k].headers : h < g =>
                    sections[k].headers[h] < sections[k].headers[g]
          /\ \A i \in {j \in DOMAIN body : body[j] # Empty} :
               Cardinality({k \in DOMAIN sections :
                              i \in sections[k].lines}) = 1
          /\ \A k \in 2..Len(sections) : \A i \in sections[k].lines,
               j \in sections[k - 1].lines : j < i

\* Chunks fit the model's window, lose no text and carry their headings.
ChunkingCorrect == ChunksFit /\ ChunksCoverText /\ HeadingsNest

=============================================================================
