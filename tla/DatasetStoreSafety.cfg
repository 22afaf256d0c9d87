SPECIFICATION Spec
CONSTANTS
  s1 = s1
  s2 = s2
  b1 = b1
  b2 = b2
  b3 = b3
  bad = bad
  o1 = o1
  o2 = o2
  o3 = o3
  Sources = {s1, s2}
  Bytes = {b1, b2, b3, bad}
  Contents = {o1, o2, o3}
  Malformed = Malformed
  NoBytes = NoBytes
  Canonical <- MCCanonical
  Transformed <- MCTransformed
  DataSpecs <- MCDataSpecs
  Aligned <- MCAligned
  Calls = {c1, c2}
  Cleaners = {k1}
  MaxEdits = 1
  MaxFaults = 1
SYMMETRY CallSymmetry
CONSTRAINT Small
CHECK_DEADLOCK FALSE
INVARIANTS
  TypeOK
  RegisteredIsReadable
  SameBytesSameContent
  SpecsAreAligned
PROPERTIES
  ImplementsDatasetRecord
