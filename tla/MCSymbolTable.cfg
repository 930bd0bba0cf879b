CONSTANTS
  a = a
  k = k
  b = b
  Keys = {a, k, b}
  Values = {v1, v2}
  NULL = NULL
  Hash <- MCHash
  InitialSize = 2
  MaxInserts = 4
SPECIFICATION Spec
INVARIANT EntriesAtHome
INVARIANT EntriesNotShared
INVARIANT NothingLost
INVARIANT LoadBounded
PROPERTY ReassignmentUnseen
PROPERTY ImplementsMap
