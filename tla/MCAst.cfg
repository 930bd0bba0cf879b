CONSTANTS
  Types <- MCTypes
  MaxNodes = 5
  MaxList = 2
SPECIFICATION Spec
INVARIANT TypeOK
INVARIANT AssertsHold
INVARIANT NothingReadAfterFree
INVARIANT WholeOrGone
INVARIANT PrintsTree
PROPERTY CallsReturn
