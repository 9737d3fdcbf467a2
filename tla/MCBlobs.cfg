SPECIFICATION FairBlobSpec
CONSTANTS
  Subjects = {s1, s2}
  Objects = {o1}
  Workers = {w1, w2}
  MaxUploads = 1
  MaxFailures = 1
CHECK_DEADLOCK FALSE
INVARIANTS
  BlobTypeOK
  ErasedForGood
  ReceiptIsTrue
  FileKeptUntilDue
PROPERTY ShredSettles
