------------------------- MODULE MCRunAuthorization -------------------------
(* Model values for TLC.  Ids are interchangeable: nothing orders them.     *)
EXTENDS RunAuthorization, TLC

IdSymmetry ==
  Permutations(Plans) \cup Permutations(Approvals) \cup Permutations(Jobs)
    \cup Permutations(Keys) \cup Permutations(Starters)

\* Bound: one edit or one call that dies, not both (the states after the second
\* are checked and not explored further).
OneDisturbance == draft + faults <= 1
=============================================================================
