SPECIFICATION FairProcessSpec
CONSTANTS
  N = 2
  Reads <- OneNotice
  Errors <- AllErrors
  Unreadable <- Lost
  Disconnects <- Breaks
  Versions <- Releases
  WellFormed <- Good
  SchemaOf <- TwoSchemas
  Fits <- EachFits
  KeySource <- Sources
  NoSource = NoSource
  SigningRequired = TRUE
  k1 = k1
  k2 = k2
  s1 = s1
  s2 = s2
  Keys = {k1, k2}
  FirstKey = k1
  NoKey = NoKey
  LeaseRounds = 2
  MaxEdits = 2
  MaxFaults = 1
INVARIANTS
  RunsWhatWasChecked
  GivenUpForCause
PROPERTIES
  EvidenceGetsOut
  TaskSettles
