------------------------------ MODULE MCParser ------------------------------
EXTENDS Parser

\* NUMBER, NAME, "return", '-', '+', '<', "<=", ';', 'x' (no token), "while"
MCTokens == {258, 259, 260, 45, 43, 60, 266, 59, 120, 263}
=============================================================================
