------------------------- MODULE MCSymbolTableHeap -------------------------
EXTENDS SymbolTableHeap

CONSTANTS a, k

\* what the loop of myHash computes for the names "a" and "k"
MCHash == [x \in Keys |-> IF x = a THEN 97 ELSE 107]
=============================================================================
