--------------------------- MODULE MCDatasetStore ---------------------------
(* Model values for TLC.  The file bad does not parse.  Transforming o1     *)
(* gives o3, which is also what b3 parses to: two ways to one object.  The  *)
(* feed o2 has too few dates in common with the others.                     *)
EXTENDS DatasetStore, TLC

CONSTANTS s1, s2, b1, b2, b3, bad, o1, o2, o3

MCCanonical == b1 :> o1 @@ b2 :> o2 @@ b3 :> o3 @@ bad :> Malformed
MCTransformed == o1 :> o3 @@ o2 :> o2 @@ o3 :> Malformed
MCDataSpecs == {<<s1, s2>>}
MCAligned == {{o1}, {o2}, {o3}, {o1, o3}}

\* At most three datasets, and one edit or one failure; s1 parses to o1 or not at all,
\* s2 to o2 until it is edited;
\* beside a clean one call is at work, without a clean all of them; at most one dataset
\* is exposed; a call reads when no other works.
Small ==
  LET working == {p \in Procs : pc[p] # "idle"} IN
  /\ Cardinality(rows) <= 3
  /\ edits + faults <= 1
  /\ source[s1] \in {b1, bad} /\ source[s2] # bad
  /\ edits = 0 => source[s2] = b2
  /\ Cardinality(working) <= 2
  /\ Cardinality(exposed) <= 1
  /\ (\E c \in Calls : op[c] = "read") => Cardinality(working) = 1

CallSymmetry == Permutations(Calls)
=============================================================================
