SPECIFICATION Spec
CONSTANTS
  Jobs = {j1}
  Handlers = {h1, h2}
  Configs = {c1}
  r1 = r1
  r2 = r2
  Forms <- WithWebhook
  Rules = {r1, r2}
  NoRule = NoRule
  Genesis = Genesis
  WorkerEvents <- DeviantEvents
  MaxAttempts = 1
  BurnInRequired = FALSE
  RequiredSuccesses = 0
  RequeueBound = 2
CONSTRAINT Early
SYMMETRY Symmetry
INVARIANTS
  TypeOK
  LedgerOrder
  ReceiptsBacked
  CancelledIsUntouched
  FailedIsRecoverable
  PolicyStable
PROPERTY KeepsPromise
