--------------------------- MODULE MetadataCache ---------------------------
(***************************************************************************)
(* The metadata of notes: get_note_metadata of crud/read.py over the LRU   *)
(* cache of crud/cache.py, which nothing invalidates: an entry is found by *)
(* the path, mtime_ns and size of the file as stat() gave them, while its  *)
(* content is read afterwards.  Threads ask while notes are saved and      *)
(* removed without any lock.                                               *)
(*                                                                         *)
(* A file is the number of its last save, which also stands for its        *)
(* (mtime_ns, size) pair: two saves that leave both as they were are not   *)
(* considered.  Metadata are the number of the save they were parsed from, *)
(* or NoFields, which read_frontmatter_only gives when it cannot read.    *)
(***************************************************************************)
EXTENDS SequencesExt, FiniteSets, Naturals

CONSTANTS
    MetadataNotes,    \* notes that are read
    Readers,          \* threads that call get_note_metadata
    MaxSize,          \* _max_size of the cache
    MaxSaves,         \* bound: saves of all notes
    MaxReads,         \* bound: calls
    MaxReadFaults     \* bound: reads that raise

ASSUME MetadataAssumption ==
    /\ MaxSize \in Nat \ {0}
    /\ {MaxSaves, MaxReads, MaxReadFaults} \subseteq Nat

VARIABLES
    text,             \* the last save of each note, or Removed
    entries,          \* _cache, least recently used first
    reading,          \* the call of each thread
    saves, reads,
    blank             \* keys whose read raised

metadataVars == <<text, entries, reading, saves, reads, blank>>

Removed == 0
NoFields == 0

NoRead == [step |-> "rest", note |-> CHOOSE n \in MetadataNotes : TRUE,
          stat |-> 0, found |-> 0]

MetadataInit ==
    /\ text = [n \in MetadataNotes |-> 1] /\ saves = 1
    /\ entries = <<>> /\ reads = 0 /\ blank = {}
    /\ reading = [t \in Readers |-> NoRead]

\* Another program saves a note, or creates it again.
SaveText(n) ==
    /\ saves < MaxSaves /\ saves' = saves + 1
    /\ text' = [text EXCEPT ![n] = saves + 1]
    /\ UNCHANGED <<entries, reading, reads, blank>>

RemoveText(n) ==
    /\ text[n] # Removed
    /\ text' = [text EXCEPT ![n] = Removed]
    /\ UNCHANGED <<entries, reading, saves, reads, blank>>

\* CacheKey.from_stat
CacheKey(t) == <<reading[t].note, reading[t].stat>>

Position(key) == {i \in DOMAIN entries : entries[i].key = key}

\* move_to_end, or a new entry, with metadata for a key.
PutLast(key, found) ==
    LET at == Position(key)
        others == IF at = {} THEN entries
                  ELSE RemoveAt(entries, CHOOSE i \in at : TRUE)
    IN  Append(others, [key |-> key, found |-> found])

\* exists() and stat(): a note that is gone raises FileNotFoundError in
\* either.
StatNote(t, n) ==
    /\ reading[t].step \in {"rest", "answered"} /\ reads < MaxReads
    /\ reads' = reads + 1
    /\ reading' = [reading EXCEPT ![t] =
                     IF text[n] = Removed THEN NoRead
                     ELSE [NoRead EXCEPT !.step = "get", !.note = n,
                                        !.stat = text[n]]]
    /\ UNCHANGED <<text, entries, saves, blank>>

\* cache.get
GetEntry(t) ==
    /\ reading[t].step = "get"
    /\ IF Position(CacheKey(t)) = {}
       THEN /\ reading' = [reading EXCEPT ![t].step = "read"]
            /\ UNCHANGED entries
       ELSE \E i \in Position(CacheKey(t)) :
            /\ entries' = PutLast(CacheKey(t), entries[i].found)
            /\ reading' = [reading EXCEPT ![t].step = "answered",
                                          ![t].found = entries[i].found]
    /\ UNCHANGED <<text, saves, reads, blank>>

\* read_frontmatter_only, of what the file is now; a file that is gone or
\* cannot be read gives the same as one without frontmatter.
ReadFrontmatter(t) ==
    /\ reading[t].step = "read"
    /\ \/ /\ reading' = [reading EXCEPT ![t].step = "set",
                              ![t].found = text[reading[t].note]]
          /\ UNCHANGED blank
       \/ /\ Cardinality(blank) < MaxReadFaults
          /\ reading' = [reading EXCEPT ![t].step = "set",
                                        ![t].found = NoFields]
          /\ blank' = blank \cup {CacheKey(t)}
    /\ UNCHANGED <<text, entries, saves, reads>>

\* Defect: the key is made from what stat() says after the read.
SetUnderNewKey(t) ==
    /\ reading[t].step = "set"
    /\ LET key == <<reading[t].note, text[reading[t].note]>>
           put == PutLast(key, reading[t].found)
       IN  entries' = IF Len(put) > MaxSize THEN Tail(put) ELSE put
    /\ reading' = [reading EXCEPT ![t].step = "answered"]
    /\ UNCHANGED <<text, saves, reads, blank>>

\* Defect: a full cache evicts one entry late, and a key may come twice.
SetThenEvict(t) ==
    /\ reading[t].step = "set"
    /\ entries' = Append(IF Len(entries) > MaxSize THEN Tail(entries)
                         ELSE entries,
                         [key |-> CacheKey(t), found |-> reading[t].found])
    /\ reading' = [reading EXCEPT ![t].step = "answered"]
    /\ UNCHANGED <<text, saves, reads, blank>>

\* cache.set: an entry another thread has made is replaced, otherwise the
\* least recently used ones make room.
SetEntry(t) ==
    /\ reading[t].step = "set"
    /\ LET put == PutLast(CacheKey(t), reading[t].found)
       IN  entries' = IF Len(put) > MaxSize THEN Tail(put) ELSE put
    /\ reading' = [reading EXCEPT ![t].step = "answered"]
    /\ UNCHANGED <<text, saves, reads, blank>>

MetadataNext ==
    \/ \E n \in MetadataNotes : SaveText(n) \/ RemoveText(n)
    \/ \E t \in Readers :
          \/ \E n \in MetadataNotes : StatNote(t, n)
          \/ GetEntry(t) \/ ReadFrontmatter(t) \/ SetEntry(t)

MetadataSpec == MetadataInit /\ [][MetadataNext]_metadataVars

(***************************************************************************)
(* Properties                                                              *)
(***************************************************************************)

\* Without any invalidation the cache never gives an old answer: an entry
\* that the file as it is now will find was parsed from that file, and what
\* a call answers is no older than the file its stat() saw.  Only a read
\* that raised, or a note removed during the call, makes it NoFields.
MetadataIsCurrent ==
    /\ \A i \in DOMAIN entries :
         LET n == entries[i].key[1]
         IN  entries[i].key = <<n, text[n]>> /\ entries[i].key \notin blank =>
               entries[i].found = text[n]
    /\ \A t \in Readers :
         reading[t].step = "answered" /\ reading[t].found < reading[t].stat =>
           reading[t].found = NoFields
    /\ Len(entries) <= MaxSize
    /\ \A i, j \in DOMAIN entries :
         entries[i].key = entries[j].key => i = j

=============================================================================
