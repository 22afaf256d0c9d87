------------------------------- MODULE Sorting -------------------------------
(***************************************************************************)
(* sorted(): the members of a finite set by a total order, as a sequence.  *)
(***************************************************************************)
EXTENDS Integers, FiniteSets

Sorted(S, before(_, _)) ==
  CHOOSE s \in [1..Cardinality(S) -> S] :
    \A i, k \in 1..Cardinality(S) : i < k => before(s[i], s[k])
=============================================================================
