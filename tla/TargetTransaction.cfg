SPECIFICATION FairSpec
CONSTANTS
  Changes = {c1, c2}
  Recoverers = {r1}
  MaxFaults = 3
CONSTRAINT WithinBound
CHECK_DEADLOCK FALSE
INVARIANTS
  RecoveredTargetIsWhole
PROPERTIES
  ImplementsTargetRecord
  AppliedIsInPlace
  ComesUpAgain
