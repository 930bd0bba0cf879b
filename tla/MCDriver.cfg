CONSTANTS
  a = a
  k = k
  b = b
  Keys = {a, k, b}
  Values = {v1}
  NULL = NULL
  Hash <- MCHash
  InitialSize = 2
  MaxInserts = 4
  Start = "program"
SPECIFICATION FairDriverSpec
INVARIANTS
  FileClosed
  NeverReports
PROPERTY MainReturns
