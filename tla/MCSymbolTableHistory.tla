------------------------ MODULE MCSymbolTableHistory ------------------------
EXTENDS SymbolTableHistory

CONSTANTS a, b

\* what the loop of myHash computes for the names "a" and "b"
MCHash == [x \in Keys |-> IF x = a THEN 97 ELSE 98]
=============================================================================
