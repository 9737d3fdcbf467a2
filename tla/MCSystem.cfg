SPECIFICATION FairSystemSpec
CONSTANTS
  j1 = j1
  j2 = j2
  j3 = j3
  j4 = j4
  s1 = s1
  s2 = s2
  r1 = r1
  Jobs = {j1, j2, j3, j4}
  Handlers = {h1}
  Configs = {c1}
  Forms <- WebhookOrShadow
  Rules = {r1}
  NoRule = NoRule
  Genesis = Genesis
  WorkerEvents <- AllEvents
  MaxAttempts = 1
  BurnInRequired = FALSE
  RequiredSuccesses = 1
  RequeueBound = 2
  Subjects = {s1, s2}
  SubjectOf <- Owner
  Shadow = {j4}
  Dependent = {s1}
  StartAges <- AnyRetention
  Workers = {w1}
  NoLock = NoLock
  MaxClock = 6
  RuleOf <- OneRule
  Skew = 1
  Together <- Pairs
  MaxFaults = 1
CHECK_DEADLOCK FALSE
INVARIANTS
  CertificateIsTrue
  LedgerIsPrefix
  CancelledIsSafe
  ShredIsDocumented
PROPERTIES
  RequestsEnd
