SPECIFICATION EngineSpec
CONSTANTS
  j1 = j1
  j2 = j2
  j3 = j3
  j4 = j4
  s1 = s1
  s2 = s2
  Jobs = {j1, j3}
  Subjects = {s1, s2}
  SubjectOf <- Owner
  Shadow = {}
  Dependent = {s1}
  StartAges <- AnyRetention
  Workers = {w1, w2}
  NoLock = NoLock
  Genesis = Genesis
  MaxClock = 3
CHECK_DEADLOCK FALSE
INVARIANT
  ChainLinear
