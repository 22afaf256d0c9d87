SPECIFICATION Spec
CONSTANTS
  Plans = {p1, p2}
  Approvals = {a1, a2}
  Jobs = {j1, j2}
  Keys = {k1, k2}
  Starters = {s1, s2}
  None = None
  MaxConcurrentJobs = 1
  MaxEdits = 1
  MaxFaults = 1
CHECK_DEADLOCK FALSE
SYMMETRY IdSymmetry
INVARIANTS
  TypeOK
  PlanNamesItsLaunch
  OneJobPerApproval
  WithinCapacity
  NonceBurnsLast
  StartedPlanIsLaunched
CONSTRAINT OneDisturbance
