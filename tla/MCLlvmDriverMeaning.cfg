CONSTANTS
  Modulus = 4
  Functions <- MCFunctions
SPECIFICATION DriverSpec
PROPERTY WalkKeepsMeaning
