CONSTANTS
  Chars <- MCChars
  YY_BUF_SIZE = 3
  YY_READ_BUF_SIZE = 2
  MaxChars = 4
SPECIFICATION Spec
INVARIANT TypeOK
INVARIANT LongestThenFirst
INVARIANT NothingSkipped
INVARIANT BackUpIsFresh
INVARIANT ReadFits
PROPERTY CallsReturn
