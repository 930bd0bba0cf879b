CONSTANTS
  a = a
  k = k
  Keys = {a, k}
  Values = {v1, v2}
  NULL = NULL
  Hash <- MCHash
  InitialSize = 2
  MaxInserts = 4
SPECIFICATION Spec
INVARIANT ChainsEnd
INVARIANT NothingFreedIsReached
PROPERTY CallsReturn
PROPERTY ImplementsTable
