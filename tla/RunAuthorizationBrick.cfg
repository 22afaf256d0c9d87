SPECIFICATION Spec
CONSTANTS
  Plans = {p1, p2}
  Approvals = {a1, a2}
  Jobs = {j1, j2}
  Keys = {k1, k2}
  Starters = {s1, s2}
  None = None
  MaxConcurrentJobs = 2
  MaxEdits = 0
  MaxFaults = 1
CHECK_DEADLOCK FALSE
SYMMETRY IdSymmetry
INVARIANTS
  NoBrickedPlan
