SPECIFICATION FairVaultSpec
CONSTANTS
  logs = logs
  leads = leads
  docs = docs
  attach = attach
  scans = scans
  l1 = l1
  l2 = l2
  n1 = n1
  d1 = d1
  a1 = a1
  Tables = {logs, leads, docs, attach, scans}
  Root = Root
  Schemas <- SomeSchemas
  MaxDepth = 3
  Satellites <- SomeSatellites
  ByRootId = {}
  FileTables = {Root, docs, logs, leads}
  Rules <- SomeRules
  DefaultYears = 1
  NoticeWindow = 2
  Rows = {l1, l2, n1, d1, a1}
  TableOf <- Table
  Born = {l1, n1, d1, a1}
  Busy = {Root, l1, l2, n1, d1}
  BatchSize = 1
  MaxWrites = 2
  MaxReplays = 1
CHECK_DEADLOCK FALSE
INVARIANTS
  SurvivorsExcused
  EvidenceHonoured
  NoSilentLoss
  FilesFollowed
PROPERTY VaultDecides
