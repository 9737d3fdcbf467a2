SPECIFICATION Spec
CONSTANTS
  Jobs = {j1}
  Handlers = {h1, h2}
  Configs = {c1, c2}
  r1 = r1
  r2 = r2
  Forms <- Plain
  Rules = {r1, r2}
  NoRule = NoRule
  Genesis = Genesis
  WorkerEvents <- ChainEvents
  MaxAttempts = 1
  BurnInRequired = FALSE
  RequiredSuccesses = 0
  RequeueBound = 1
CONSTRAINT LeasesHold
PROPERTY HeartbeatKeepsHead
