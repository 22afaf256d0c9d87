---------------------------- MODULE CatalogSearch ----------------------------
(***************************************************************************)
(* The catalogue search and its pages (catalog.py 84-85, 248-276, 288-365; *)
(* the pages of list_jobs are cut the same way, jobs.py 594-627).          *)
(*                                                                         *)
(* An entry is [row, id, tokens, archetypes, mapped]: row tells it from    *)
(* the others, id is its canonical id, which entries of other corpora may  *)
(* have as well; its tokens are those of every searchable field.  Ids are  *)
(* integers, ordered as the names are.                                     *)
(***************************************************************************)
EXTENDS Integers, Sequences, Sorting

Anything == "any"   \* no archetype filter

Score(entry, terms, archetype) ==
  10 * Cardinality(terms \cap entry.tokens)
  + (IF archetype # Anything THEN 25 ELSE 0)
  + (IF entry.mapped THEN 3 ELSE 0)

Matches(entry, terms, archetype) ==
  /\ archetype # Anything => archetype \in entry.archetypes
  /\ terms # {} => terms \cap entry.tokens # {}

\* Mutation: all entries of one score stay in the order they are stored in.
BeforeByScore(a, b, terms, archetype) ==
  Score(a, terms, archetype) > Score(b, terms, archetype)

\* The sort key (-score, id).
Before(a, b, terms, archetype) ==
  \/ Score(a, terms, archetype) > Score(b, terms, archetype)
  \/ Score(a, terms, archetype) = Score(b, terms, archetype) /\ a.id < b.id

\* Entries of one key stay as they are stored: the packaged ones, then the rows by the
\* time they were first written.
Earlier(entries, i, k, terms, archetype) ==
  \/ Before(entries[i], entries[k], terms, archetype)
  \/ ~Before(entries[k], entries[i], terms, archetype) /\ i < k

\* The entries that match, sorted.
Ranked(entries, terms, archetype) ==
  LET matching == {i \in DOMAIN entries : Matches(entries[i], terms, archetype)}
      order == Sorted(matching, LAMBDA i, k : Earlier(entries, i, k, terms, archetype))
  IN  [i \in DOMAIN order |-> entries[order[i]]]

\* A page, the slice list[offset : offset + limit].
Page(list, offset, limit) ==
  SubSeq(list, offset + 1, IF offset + limit < Len(list) THEN offset + limit ELSE Len(list))

\* Whether the response says that there is more.
HasMore(list, offset, limit) ==
  offset + Len(Page(list, offset, limit)) < Len(list)
=============================================================================
