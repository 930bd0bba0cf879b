CONSTANTS
  Chars <- MCChars
  YY_BUF_SIZE = 3
  YY_READ_BUF_SIZE = 2
  MaxChars = 2
SPECIFICATION Spec
INVARIANT LinesCounted
