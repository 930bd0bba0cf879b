------------------------- MODULE SymbolTableHistory -------------------------
(***************************************************************************)
(* SymbolTable with two history variables: the name of the last insertion, *)
(* and what lookup answered for every name just before it.  They record,   *)
(* and change nothing the table does.                                      *)
(***************************************************************************)
EXTENDS SymbolTable

VARIABLES
  inserted,  \* the name of the last insertion
  before     \* what lookup answered before it

historyVars == <<vars, inserted, before>>

HistoryInit ==
  /\ Init
  /\ inserted = NULL
  /\ before = [k \in Keys |-> NULL]

HistoryNext ==
  \/ \E k \in Keys, v \in Values :
       /\ Insert(k, v)
       /\ inserted' = k
       /\ before' = [x \in Keys |-> Lookup(x)]
  \/ RehashEntry /\ UNCHANGED <<inserted, before>>
  \/ RehashNextBucket /\ UNCHANGED <<inserted, before>>
  \/ RehashDone /\ UNCHANGED <<inserted, before>>

HistorySpec == HistoryInit /\ [][HistoryNext]_historyVars

\* lookup returns the value of a name (test.y:142): assigning one name
\* leaves the answers for all the others as they were.
OthersKeepTheirValue ==
  pc = "ready" =>
    \A k \in Keys \ {inserted} : Lookup(k) = before[k]
=============================================================================
