CONSTANTS
  a = a
  b = b
  Keys = {a, b}
  Values = {v1, v2}
  NULL = NULL
  Hash <- MCHash
  InitialSize = 10
  MaxInserts = 8
SPECIFICATION HistorySpec
INVARIANT OthersKeepTheirValue
CHECK_DEADLOCK FALSE
