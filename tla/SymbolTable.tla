---------------------------- MODULE SymbolTable ----------------------------
(***************************************************************************)
(* The chained hash table of test.y (SymbolEntry, SymbolTable, insert,     *)
(* lookup, freeSymbolTable).  Entries are numbered in the order they are   *)
(* allocated; a bucket is the sequence of the entries on its chain.        *)
(*                                                                         *)
(* insert is one step up to the load factor test; the rehash loop and the  *)
(* loops of freeSymbolTable are one step per entry moved or freed, and pc  *)
(* lets nothing else happen until they end.                                *)
(***************************************************************************)
EXTENDS Integers, Sequences, FiniteSetsExt

CONSTANTS
  Keys,         \* names the program assigns
  Values,       \* AST nodes the parser hands to insert
  NULL,         \* the null pointer
  Hash,         \* the 32-bit hash of each name, before % tableSize
  InitialSize,  \* INITIAL_TABLE_SIZE
  MaxInserts    \* bound: number of insertions explored

ASSUME ConstantsAssumption ==
  /\ Hash \in [Keys -> Nat]
  /\ InitialSize \in Nat \ {0}
  /\ NULL \notin Values

VARIABLES
  entries,   \* every SymbolEntry allocated: its key and value
  table,     \* buckets; while rehashing, what is left in the old ones
  size,      \* number of buckets
  count,     \* number of entries, as the code counts them
  newTable,  \* the buckets being filled while rehashing
  cursor,    \* the loop variable i of the rehash and free loops
  freed,     \* entries freed, in order
  answer,    \* the last lookup and what it returned
  pc         \* "ready", "rehash", "freeing" or "freed"

vars == <<entries, table, size, count, newTable, cursor, freed, answer, pc>>

Ids == 1..Len(entries)

myHash(k, tableSize) == Hash[k] % tableSize

\* (double)count / size > LOAD_FACTOR_THRESHOLD, the threshold being 0.7
Overloaded(c, s) == 10 * c > 7 * s

EmptyTable(s) == [i \in 0..(s - 1) |-> <<>>]

\* The calloc'ed table of createSymbolTable(INITIAL_TABLE_SIZE).
Init ==
  /\ entries = <<>>
  /\ table = EmptyTable(InitialSize)
  /\ size = InitialSize
  /\ count = 0
  /\ newTable = <<>>
  /\ cursor = 0
  /\ freed = <<>>
  /\ answer = [key |-> NULL, value |-> NULL]
  /\ pc = "ready"

\* Mutant: the new entry goes in front of its chain.
LinkInFront(k, v) ==
  LET index == myHash(k, size)
  IN  /\ entries' = Append(entries, [key |-> k, value |-> v])
      /\ table' = [table EXCEPT ![index] = <<Len(entries) + 1>> \o @]

\* The new entry goes to the end of its chain, whether or not it is empty.
Link(k, v) ==
  LET index == myHash(k, size)
  IN  /\ entries' = Append(entries, [key |-> k, value |-> v])
      /\ table' = [table EXCEPT ![index] = Append(@, Len(entries) + 1)]

\* Mutant: the load factor is taken before the entry is counted.
InsertTestsOldCount(k, v) ==
  /\ pc = "ready"
  /\ Len(entries) < MaxInserts
  /\ Link(k, v)
  /\ count' = count + 1
  /\ \/ /\ ~Overloaded(count, size)
        /\ UNCHANGED <<newTable, cursor, pc>>
     \/ /\ Overloaded(count, size)
        /\ newTable' = EmptyTable(2 * size)
        /\ cursor' = 0
        /\ pc' = "rehash"
  /\ UNCHANGED <<size, freed, answer>>

Insert(k, v) ==
  /\ pc = "ready"
  /\ Len(entries) < MaxInserts
  /\ Link(k, v)
  /\ count' = count + 1
  /\ \/ /\ ~Overloaded(count + 1, size)
        /\ UNCHANGED <<newTable, cursor, pc>>
     \/ /\ Overloaded(count + 1, size)
        /\ newTable' = EmptyTable(2 * size)
        /\ cursor' = 0
        /\ pc' = "rehash"
  /\ UNCHANGED <<size, freed, answer>>

\* Mutant: the index in the new table is computed with the old size.
RehashEntryOldSize ==
  /\ pc = "rehash"
  /\ cursor < size
  /\ table[cursor] # <<>>
  /\ LET current == Head(table[cursor])
         newIndex == myHash(entries[current].key, size)
     IN  /\ newTable' = [newTable EXCEPT ![newIndex] = <<current>> \o @]
         /\ table' = [table EXCEPT ![cursor] = Tail(@)]
  /\ UNCHANGED <<entries, size, count, cursor, freed, answer, pc>>

\* Mutant: current->next is not set, what the new chain held is dropped.
RehashEntryDropsChain ==
  /\ pc = "rehash"
  /\ cursor < size
  /\ table[cursor] # <<>>
  /\ LET current == Head(table[cursor])
         newIndex == myHash(entries[current].key, 2 * size)
     IN  /\ newTable' = [newTable EXCEPT ![newIndex] = <<current>>]
         /\ table' = [table EXCEPT ![cursor] = Tail(@)]
  /\ UNCHANGED <<entries, size, count, cursor, freed, answer, pc>>

\* Take the head of the old chain and push it in front of its new chain.
RehashEntry ==
  /\ pc = "rehash"
  /\ cursor < size
  /\ table[cursor] # <<>>
  /\ LET current == Head(table[cursor])
         newIndex == myHash(entries[current].key, 2 * size)
     IN  /\ newTable' = [newTable EXCEPT ![newIndex] = <<current>> \o @]
         /\ table' = [table EXCEPT ![cursor] = Tail(@)]
  /\ UNCHANGED <<entries, size, count, cursor, freed, answer, pc>>

RehashNextBucket ==
  /\ pc = "rehash"
  /\ cursor < size
  /\ table[cursor] = <<>>
  /\ cursor' = cursor + 1
  /\ UNCHANGED <<entries, table, size, count, newTable, freed, answer, pc>>

\* free the old table, install the new one
RehashDone ==
  /\ pc = "rehash"
  /\ cursor = size
  /\ table' = newTable
  /\ size' = 2 * size
  /\ newTable' = <<>>
  /\ pc' = "ready"
  /\ UNCHANGED <<entries, count, cursor, freed, answer>>

\* Mutant: the bucket is not searched for the name.
HitsAnyName(k) ==
  LET chain == table[myHash(k, size)]
  IN  DOMAIN chain

Hits(k) ==
  LET chain == table[myHash(k, size)]
  IN  {i \in DOMAIN chain : entries[chain[i]].key = k}

\* The value of the first entry on the chain whose key matches.
Lookup(k) ==
  IF Hits(k) = {}
  THEN NULL
  ELSE entries[table[myHash(k, size)][Min(Hits(k))]].value

LookupCall(k) ==
  /\ pc = "ready"
  /\ answer' = [key |-> k, value |-> Lookup(k)]
  /\ UNCHANGED <<entries, table, size, count, newTable, cursor, freed, pc>>

FreeCall ==
  /\ pc = "ready"
  /\ cursor' = 0
  /\ pc' = "freeing"
  /\ UNCHANGED <<entries, table, size, count, newTable, freed, answer>>

\* Mutant: the loop frees the entry it is on and does not advance.
FreeSameEntry ==
  /\ pc = "freeing"
  /\ cursor < size
  /\ table[cursor] # <<>>
  /\ freed' = Append(freed, Head(table[cursor]))
  /\ UNCHANGED <<entries, table, size, count, newTable, cursor, answer, pc>>

FreeEntry ==
  /\ pc = "freeing"
  /\ cursor < size
  /\ table[cursor] # <<>>
  /\ freed' = Append(freed, Head(table[cursor]))
  /\ table' = [table EXCEPT ![cursor] = Tail(@)]
  /\ UNCHANGED <<entries, size, count, newTable, cursor, answer, pc>>

FreeNextBucket ==
  /\ pc = "freeing"
  /\ cursor < size
  /\ table[cursor] = <<>>
  /\ cursor' = cursor + 1
  /\ UNCHANGED <<entries, table, size, count, newTable, freed, answer, pc>>

FreeDone ==
  /\ pc = "freeing"
  /\ cursor = size
  /\ table' = <<>>
  /\ pc' = "freed"
  /\ UNCHANGED <<entries, size, count, newTable, cursor, freed, answer>>

\* main has returned from freeSymbolTable; the table is not used again.
Stopped == pc = "freed" /\ UNCHANGED vars

Internal ==
  \/ RehashEntry \/ RehashNextBucket \/ RehashDone
  \/ FreeEntry \/ FreeNextBucket \/ FreeDone

Next ==
  \/ \E k \in Keys, v \in Values : Insert(k, v)
  \/ \E k \in Keys : LookupCall(k)
  \/ FreeCall
  \/ Internal
  \/ Stopped

Spec == Init /\ [][Next]_vars

\* A call that has begun runs to its end: the program is one thread.
FairSpec == Spec /\ WF_vars(Internal)

-----------------------------------------------------------------------------

Chains(s) == [0..(s - 1) -> Seq(Ids)]

\* Every variable has its type; newTable exists only while rehashing.
TypeOK ==
  /\ entries \in Seq([key : Keys, value : Values])
  /\ size \in Nat \ {0}
  /\ count \in Nat
  /\ cursor \in 0..size
  /\ freed \in Seq(Ids)
  /\ pc \in {"ready", "rehash", "freeing", "freed"}
  /\ answer \in [key : Keys \cup {NULL}, value : Values \cup {NULL}]
  /\ IF pc = "freed" THEN table = <<>> ELSE table \in Chains(size)
  /\ IF pc = "rehash" THEN newTable \in Chains(2 * size) ELSE newTable = <<>>

On(e, buckets) ==
  \E i \in DOMAIN buckets : \E j \in DOMAIN buckets[i] : buckets[i][j] = e

Freed(e) == \E j \in DOMAIN freed : freed[j] = e

AtHome(buckets, s) ==
  \A i \in DOMAIN buckets : \A j \in DOMAIN buckets[i] :
    myHash(entries[buckets[i][j]].key, s) = i

NoRepeat(chain) == \A i, j \in DOMAIN chain : chain[i] = chain[j] => i = j

\* An entry is on the chain its key hashes to, for the size that chain's
\* table has: a doubling of size that left an entry behind would hide it
\* from lookup (test.y:121-138).
EntriesAtHome == AtHome(table, size) /\ AtHome(newTable, 2 * size)

\* No entry is reachable twice, in two tables or after it was freed: a
\* rehash that copied instead of moving would make freeSymbolTable free
\* the entry twice (test.y:122-131, 156-168).
EntriesNotShared ==
  /\ \A i \in DOMAIN table : NoRepeat(table[i])
  /\ \A i \in DOMAIN newTable : NoRepeat(newTable[i])
  /\ NoRepeat(freed)
  /\ \A e \in Ids : /\ ~(On(e, table) /\ On(e, newTable))
                    /\ ~(On(e, table) /\ Freed(e))

\* Every entry ever allocated is still on a chain until it is freed, in the
\* middle of a rehash too, and all are freed when freeSymbolTable returns.
NothingLost == \A e \in Ids : On(e, table) \/ On(e, newTable) \/ Freed(e)

\* The buckets below the loop variable are empty: the loops that rehash and
\* free never come back to them.
Drained ==
  pc \in {"rehash", "freeing"} =>
    \A i \in DOMAIN table : i < cursor => table[i] = <<>>

\* One doubling per insertion is enough to bring the load back under the
\* threshold, whatever the initial size (test.y:117-118).
LoadBounded ==
  /\ count = Len(entries)
  /\ pc = "ready" => ~Overloaded(count, size)
  /\ pc = "rehash" => ~Overloaded(count, 2 * size)

NotYetFreed == pc \in {"ready", "rehash"} => freed = <<>>

\* The induction hypothesis of SymbolTableProofs.
IInv ==
  /\ TypeOK
  /\ EntriesAtHome
  /\ EntriesNotShared
  /\ NothingLost
  /\ Drained
  /\ LoadBounded
  /\ NotYetFreed

\* As long as the table does not grow, a name that has a value keeps it: an
\* assignment to a name already in the table is appended behind the entry
\* lookup finds first, so the new value is never seen (test.y:106-112).
ReassignmentUnseen ==
  [][pc = "ready" /\ pc' = "ready" =>
       \A k \in Keys : Lookup(k) # NULL => Lookup(k)' = Lookup(k)]_vars

\* lookup answers as SymbolMap promises: with a value given to that name by
\* some insert, and with NULL exactly when there was none.
Map == INSTANCE SymbolMap WITH log <- entries
ImplementsMap == Map!MapSpec
=============================================================================
