SPECIFICATION Spec
CONSTANTS
  Jobs = {j1, j2}
  Handlers = {h1, h2}
  Configs = {c1}
  r1 = r1
  r2 = r2
  Forms <- ShadowOrLive
  Rules = {r1, r2}
  NoRule = NoRule
  Genesis = Genesis
  WorkerEvents <- NoEvent
  MaxAttempts = 2
  BurnInRequired = TRUE
  RequiredSuccesses = 1
  RequeueBound = 3
SYMMETRY Symmetry
INVARIANTS
  BurnInGate
