CONSTANTS
  Tokens <- MCTokens
  YYINITDEPTH = 200
  YYMAXDEPTH = 10000
  MaxTokens = 5
  Files <- MCFiles
SPECIFICATION FrontSpec
INVARIANT FirstTokenRejected
