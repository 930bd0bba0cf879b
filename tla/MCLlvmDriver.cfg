CONSTANTS
  Modulus = 4
  Functions <- MCFunctions
SPECIFICATION DriverSpec
INVARIANTS
  DisposedOnce
  NothingBehindVoid
PROPERTIES
  FoldKeepsMeaning
  FoldLeavesNoUse
