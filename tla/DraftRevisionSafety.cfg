SPECIFICATION Spec
CONSTANTS
  Drafts = {d1}
  N = 2
  Versions = {good, bad}
  Bad = {bad}
  Scaffold = good
  Keys = {k1}
  Calls = {c1, c2}
  Cleaners = {k}
  MaxRevision = 3
  MaxFaults = 1
CONSTRAINT Small
SYMMETRY CallSymmetry
CHECK_DEADLOCK FALSE
INVARIANTS
  PlannedContentWasValidated
  RevisionNamesContent
  RepairHappensOnce
  PlannedDraftStays
