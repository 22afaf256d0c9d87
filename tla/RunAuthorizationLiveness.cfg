SPECIFICATION FairSpec
CONSTANTS
  Plans = {p1, p2}
  Approvals = {a1}
  Jobs = {j1}
  Keys = {k1, k2}
  Starters = {s1, s2}
  None = None
  MaxConcurrentJobs = 1
  MaxEdits = 0
  MaxFaults = 1
CHECK_DEADLOCK FALSE
PROPERTIES
  EveryStartReturns
