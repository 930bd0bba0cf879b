------------------------------ MODULE MCScanner ------------------------------
EXTENDS Scanner

\* NUL, space, newline, '0', '1' to '9', '<', '=', '>', a letter, '_'
MCChars == {0, 2, 3, 10, 11, 13, 14, 15, 16, 17}
=============================================================================
