CONSTANTS
  Tokens <- MCTokens
  YYINITDEPTH = 3
  YYMAXDEPTH = 7
  MaxTokens = 7
SPECIFICATION Spec
INVARIANT DecidesLanguage
INVARIANT ErrorFoundAtOnce
INVARIANT StackInBounds
INVARIANT TreeReadsBack
INVARIANT NodesOwnedOnce
INVARIANT FailureReported
PROPERTY ParseReturns
PROPERTY BuildsTrees
