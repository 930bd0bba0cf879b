------------------------------- MODULE MCDriver -------------------------------
(* Three names, of which two share a bucket of two.                              *)
EXTENDS Driver
CONSTANTS a, k, b
MCHash == [x \in Keys |-> CASE x = a -> 97 [] x = k -> 107 [] x = b -> 98]
=============================================================================
