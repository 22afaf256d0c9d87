--------------------------- MODULE MCDraftRevision ---------------------------
(* Bounds for TLC. *)
EXTENDS DraftRevision, TLC

CallSymmetry == Permutations(Calls)

\* Two validations and one plan, of which a failure costs one, and so does a clean that
\* is at work; two processes at work.
Small ==
  /\ Cardinality(validations) <= 2 /\ Cardinality(plans) <= 1
  /\ Cardinality(validations) + Cardinality(plans) + faults <= IF Cleaning THEN 2 ELSE 3
  /\ Cardinality({p \in Procs : pc[p] # "idle"}) <= 2
=============================================================================
