CONSTANTS
  a = a
  b = b
  c = c
  d = d
  r1 = r1
  r2 = r2
  None = None
  Spilled = Spilled
  Values = {a, b, c, d}
  Stack <- MCStack
  Functions <- MCFunctions
SPECIFICATION Spec
INVARIANT RegistersAccounted
PROPERTY LaterOperandsServed
