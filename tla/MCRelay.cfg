SPECIFICATION FairRelaySpec
CONSTANTS
  N = 3
  Priority <- VaultsOnly
  Workers = {w1, w2}
  NoToken = NoToken
  BatchSize = 2
  MaxAttempts = 2
  Failures = 3
CHECK_DEADLOCK FALSE
INVARIANTS
  RelayTypeOK
  NothingLost
PROPERTIES
  SettledIsFinal
  CatchesUp
