SPECIFICATION Spec
CONSTANTS
  root = root
  pair = pair
  alpha = alpha
  beta = beta
  runA = runA
  runZ = runZ
  one = one
  two = two
  bad = bad
  Scopes = {root, pair}
  Dual = {pair}
  Covers <- MCCovers
  Files = {alpha, beta, runA, runZ}
  ScopeFiles <- MCScopeFiles
  Rank <- MCRank
  CacheName <- MCCacheName
  Package <- MCPackage
  Contents = {one, two, bad}
  Absent = Absent
  Classes <- MCClasses
  Broken = {bad}
  Unpacked <- MCApart
  EditStamps = 5
  Calls = {c1, c2}
  MaxEdits = 1
  MaxFaults = 1
CONSTRAINT Small
SYMMETRY CallSymmetry
CHECK_DEADLOCK FALSE
INVARIANTS
  SnapshotIsTrue
  CurrentSnapshotIsServed
  EntriesAreTheSnapshots
