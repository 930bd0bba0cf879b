----------------------------- MODULE SymbolMap -----------------------------
(***************************************************************************)
(* What a symbol table promises its caller, with no buckets and no sizes:  *)
(* the assignments made so far, and lookups that answer from them.  When a *)
(* name was assigned several times the table promises one of the values,   *)
(* not a particular one; SymbolTable shows which.                          *)
(***************************************************************************)
EXTENDS Sequences

CONSTANTS
  Keys,     \* names
  Values,   \* expression nodes
  NULL      \* what a failed lookup returns

VARIABLES
  log,      \* every insertion, in the order the calls were made
  answer    \* the last lookup and what it returned

mapVars == <<log, answer>>

Insertion == [key : Keys, value : Values]
NoAnswer == [key |-> NULL, value |-> NULL]

ValuesOf(k) == {log[i].value : i \in {j \in DOMAIN log : log[j].key = k}}

MapInit ==
  /\ log = <<>>
  /\ answer = NoAnswer

Bind(k, v) ==
  /\ log' = Append(log, [key |-> k, value |-> v])
  /\ answer' = answer

\* NULL exactly when the name was never assigned.
Ask(k) ==
  /\ IF ValuesOf(k) = {}
     THEN answer' = [key |-> k, value |-> NULL]
     ELSE \E v \in ValuesOf(k) : answer' = [key |-> k, value |-> v]
  /\ log' = log

MapNext ==
  \E k \in Keys : Ask(k) \/ \E v \in Values : Bind(k, v)

MapSpec == MapInit /\ [][MapNext]_mapVars
=============================================================================
