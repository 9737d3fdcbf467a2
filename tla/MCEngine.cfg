SPECIFICATION EngineSpec
CONSTANTS
  j1 = j1
  j2 = j2
  j3 = j3
  j4 = j4
  s1 = s1
  s2 = s2
  Jobs = {j1, j2, j3, j4}
  Subjects = {s1, s2}
  SubjectOf <- Owner
  Shadow = {j4}
  Dependent = {s1}
  StartAges <- AnyRetention
  Workers = {w1, w2}
  NoLock = NoLock
  Genesis = Genesis
  MaxClock = 4
CHECK_DEADLOCK FALSE
SYMMETRY Symmetry
INVARIANTS
  EngineTypeOK
  EvidenceMatches
  ErasureRespectsRetention
  AcksAreEarned
