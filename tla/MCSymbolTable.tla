--------------------------- MODULE MCSymbolTable ---------------------------
EXTENDS SymbolTable
CONSTANTS a, k, b
MCHash == [x \in Keys |-> CASE x = a -> 97 [] x = k -> 107 [] x = b -> 98]
=============================================================================
