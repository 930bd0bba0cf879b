-------------------------- MODULE SymbolTableHeap --------------------------
(***************************************************************************)
(* insert, lookup and freeSymbolTable of test.y with their pointers: the   *)
(* bucket array and the next fields, walked one assignment of the loop     *)
(* variable at a time.  A pointer to a SymbolEntry is the number of the    *)
(* entry, in order of allocation, and Nil is the null pointer.             *)
(***************************************************************************)
EXTENDS Integers, Sequences, FiniteSetsExt

CONSTANTS Keys, Values, NULL, Hash, InitialSize, MaxInserts

ASSUME HeapAssumption ==
  /\ Hash \in [Keys -> Nat]
  /\ InitialSize \in Nat \ {0}
  /\ NULL \notin Values

VARIABLES
  entries,   \* key and value of every SymbolEntry allocated
  next,      \* its next field
  table,     \* symbolTable->table
  size,      \* symbolTable->size
  count,     \* symbolTable->count
  newTable,  \* the local newTable of insert; <<>> when there is none
  i,         \* the loop variable of the rehash and free loops
  current,   \* the local current of the call that is running
  key,       \* the key parameter of lookup
  freed,     \* entries given to free, in order
  answer,    \* the last lookup and what it returned
  pc         \* what runs; "ready" between two calls

vars == <<entries, next, table, size, count, newTable, i, current, key,
          freed, answer, pc>>

Nil == 0
Ids == 1..Len(entries)
Newest == Len(entries)

myHash(k, tableSize) == Hash[k] % tableSize
Overloaded(c, s) == 10 * c > 7 * s
Calloc(s) == [b \in 0..(s - 1) |-> Nil]

Init ==
  /\ entries = <<>>
  /\ next = <<>>
  /\ table = Calloc(InitialSize)
  /\ size = InitialSize
  /\ count = 0
  /\ newTable = <<>>
  /\ i = 0
  /\ current = Nil
  /\ key = NULL
  /\ freed = <<>>
  /\ answer = [key |-> NULL, value |-> NULL]
  /\ pc = "ready"

-----------------------------------------------------------------------------
(* insert *)

\* createEntry, and the test for an empty bucket
InsertCall(k, v) ==
  /\ pc = "ready"
  /\ Len(entries) < MaxInserts
  /\ entries' = Append(entries, [key |-> k, value |-> v])
  /\ next' = Append(next, Nil)
  /\ LET index == myHash(k, size)
     IN  \/ /\ table[index] = Nil
            /\ table' = [table EXCEPT ![index] = Len(entries) + 1]
            /\ pc' = "count"
            /\ UNCHANGED current
         \/ /\ table[index] # Nil
            /\ current' = table[index]
            /\ pc' = "append"
            /\ UNCHANGED table
  /\ UNCHANGED <<size, count, newTable, i, key, freed, answer>>

\* while (current->next != NULL)
AppendWalk ==
  /\ pc = "append"
  /\ next[current] # Nil
  /\ current' = next[current]
  /\ UNCHANGED <<entries, next, table, size, count, newTable, i, key, freed,
                 answer, pc>>

AppendLink ==
  /\ pc = "append"
  /\ next[current] = Nil
  /\ next' = [next EXCEPT ![current] = Newest]
  /\ pc' = "count"
  /\ UNCHANGED <<entries, table, size, count, newTable, i, current, key, freed,
                 answer>>

Count ==
  /\ pc = "count"
  /\ count' = count + 1
  /\ \/ /\ ~Overloaded(count + 1, size)
        /\ pc' = "ready"
        /\ UNCHANGED <<newTable, i>>
     \/ /\ Overloaded(count + 1, size)
        /\ newTable' = Calloc(2 * size)
        /\ i' = 0
        /\ pc' = "rehash"
  /\ UNCHANGED <<entries, next, table, size, current, key, freed, answer>>

RehashBucket ==
  /\ pc = "rehash"
  /\ i < size
  /\ current' = table[i]
  /\ pc' = "move"
  /\ UNCHANGED <<entries, next, table, size, count, newTable, i, key, freed,
                 answer>>

\* Mutant: the new head is stored before current->next is set to the old one.
RehashMoveHeadFirst ==
  /\ pc = "move"
  /\ current # Nil
  /\ LET newIndex == myHash(entries[current].key, 2 * size)
     IN  /\ newTable' = [newTable EXCEPT ![newIndex] = current]
         /\ next' = [next EXCEPT ![current] = newTable'[newIndex]]
  /\ current' = next[current]
  /\ UNCHANGED <<entries, table, size, count, i, key, freed, answer, pc>>

\* Mutant: current->next keeps pointing to the rest of the old chain.
RehashMoveKeepsNext ==
  /\ pc = "move"
  /\ current # Nil
  /\ LET newIndex == myHash(entries[current].key, 2 * size)
     IN  newTable' = [newTable EXCEPT ![newIndex] = current]
  /\ current' = next[current]
  /\ UNCHANGED <<entries, next, table, size, count, i, key, freed, answer, pc>>

\* The body of the inner loop; the right side of current' is the saved next.
RehashMove ==
  /\ pc = "move"
  /\ current # Nil
  /\ LET newIndex == myHash(entries[current].key, 2 * size)
     IN  /\ next' = [next EXCEPT ![current] = newTable[newIndex]]
         /\ newTable' = [newTable EXCEPT ![newIndex] = current]
  /\ current' = next[current]
  /\ UNCHANGED <<entries, table, size, count, i, key, freed, answer, pc>>

RehashNextBucket ==
  /\ pc = "move"
  /\ current = Nil
  /\ i' = i + 1
  /\ pc' = "rehash"
  /\ UNCHANGED <<entries, next, table, size, count, newTable, current, key,
                 freed, answer>>

RehashDone ==
  /\ pc = "rehash"
  /\ i = size
  /\ table' = newTable
  /\ size' = 2 * size
  /\ newTable' = <<>>
  /\ pc' = "ready"
  /\ UNCHANGED <<entries, next, count, i, current, key, freed, answer>>

-----------------------------------------------------------------------------
(* lookup *)

LookupCall(k) ==
  /\ pc = "ready"
  /\ key' = k
  /\ current' = table[myHash(k, size)]
  /\ pc' = "search"
  /\ UNCHANGED <<entries, next, table, size, count, newTable, i, freed, answer>>

\* Mutant: the loop does not go on to the next entry.
LookupSame ==
  /\ pc = "search"
  /\ current # Nil
  /\ entries[current].key # key
  /\ UNCHANGED vars

LookupNext ==
  /\ pc = "search"
  /\ current # Nil
  /\ entries[current].key # key
  /\ current' = next[current]
  /\ UNCHANGED <<entries, next, table, size, count, newTable, i, key, freed,
                 answer, pc>>

LookupReturn ==
  /\ pc = "search"
  /\ \/ /\ current = Nil
        /\ answer' = [key |-> key, value |-> NULL]
     \/ /\ current # Nil
        /\ entries[current].key = key
        /\ answer' = [key |-> key, value |-> entries[current].value]
  /\ pc' = "ready"
  /\ UNCHANGED <<entries, next, table, size, count, newTable, i, current, key,
                 freed>>

-----------------------------------------------------------------------------
(* freeSymbolTable *)

FreeCall ==
  /\ pc = "ready"
  /\ i' = 0
  /\ pc' = "free"
  /\ UNCHANGED <<entries, next, table, size, count, newTable, current, key,
                 freed, answer>>

FreeBucket ==
  /\ pc = "free"
  /\ i < size
  /\ current' = table[i]
  /\ pc' = "chain"
  /\ UNCHANGED <<entries, next, table, size, count, newTable, i, key, freed,
                 answer>>

\* Mutant: current is freed before its next field is read in the loop.
FreeEntryThenNext ==
  /\ pc = "chain"
  /\ current # Nil
  /\ IF \E j \in DOMAIN freed : freed[j] = current
     THEN current' = next[current] /\ freed' = freed
     ELSE current' = current /\ freed' = Append(freed, current)
  /\ UNCHANGED <<entries, next, table, size, count, newTable, i, key, answer, pc>>

\* next is saved, the key and the entry are freed
FreeEntry ==
  /\ pc = "chain"
  /\ current # Nil
  /\ freed' = Append(freed, current)
  /\ current' = next[current]
  /\ UNCHANGED <<entries, next, table, size, count, newTable, i, key, answer, pc>>

FreeNextBucket ==
  /\ pc = "chain"
  /\ current = Nil
  /\ i' = i + 1
  /\ pc' = "free"
  /\ UNCHANGED <<entries, next, table, size, count, newTable, current, key,
                 freed, answer>>

\* free(symbolTable->table); free(symbolTable)
FreeDone ==
  /\ pc = "free"
  /\ i = size
  /\ table' = <<>>
  /\ pc' = "freed"
  /\ UNCHANGED <<entries, next, size, count, newTable, i, current, key, freed,
                 answer>>

Stopped == pc = "freed" /\ UNCHANGED vars

Internal ==
  \/ AppendWalk \/ AppendLink \/ Count
  \/ RehashBucket \/ RehashMove \/ RehashNextBucket \/ RehashDone
  \/ LookupNext \/ LookupReturn
  \/ FreeBucket \/ FreeEntry \/ FreeNextBucket \/ FreeDone

Next ==
  \/ \E k \in Keys, v \in Values : InsertCall(k, v)
  \/ \E k \in Keys : LookupCall(k)
  \/ FreeCall
  \/ Internal
  \/ Stopped

\* One thread: a call that has begun goes on until it returns.
Spec == Init /\ [][Next]_vars /\ WF_vars(Internal)

-----------------------------------------------------------------------------

Pointers == Ids \cup {Nil}

\* The pointer reached from p after n times ->next.
Reached(p) ==
  LET walk[n \in 0..Len(entries)] ==
        IF n = 0 THEN p
        ELSE IF walk[n - 1] = Nil THEN Nil ELSE next[walk[n - 1]]
  IN  walk

Ends(p) == \E n \in 0..Len(entries) : Reached(p)[n] = Nil

\* The entries on the chain that begins at p.
Chain(p) ==
  LET walk == Reached(p)
      length == Min({n \in DOMAIN walk : walk[n] = Nil})
  IN  [j \in 1..length |-> walk[j - 1]]

\* Where the code may still go: the buckets it has not passed, the table it
\* is filling, and the chain it is on.
Roots ==
  LET passed == IF pc \in {"rehash", "free"} THEN i
                ELSE IF pc \in {"move", "chain"} THEN i + 1 ELSE 0
  IN  {table[b] : b \in {d \in DOMAIN table : d >= passed}}
        \cup {newTable[b] : b \in DOMAIN newTable}
        \cup (IF pc \in {"append", "move", "search", "chain"} THEN {current} ELSE {})

\* Every chain ends: the loops on current->next terminate, also over the
\* chains that a half-done rehash has cut and joined (test.y:107, 124, 159).
ChainsEnd == \A p \in Roots : Ends(p)

\* No pointer the code may still follow leads to an entry that was freed
\* (test.y:159-164).
NothingFreedIsReached ==
  \A p \in Roots : \A n \in 0..Len(entries) :
    \A j \in DOMAIN freed : Reached(p)[n] # freed[j]

\* insert, lookup and freeSymbolTable return (test.y:97-168).
CallsReturn ==
  /\ pc \in {"append", "count", "rehash", "move", "search"} ~> pc = "ready"
  /\ pc \in {"free", "chain"} ~> pc = "freed"

\* The chains are those of SymbolTable.  An entry is in the table from the
\* step that counts it; a bucket of the old table is what the loop has not
\* moved or freed, whatever stale pointer the array still holds.
Pending == IF pc \in {"append", "count"} THEN {Newest} ELSE {}

Counted(c) ==
  IF c # <<>> /\ c[Len(c)] \in Pending THEN SubSeq(c, 1, Len(c) - 1) ELSE c

ChainNow(b) ==
  IF pc \in {"move", "chain"} /\ b = i THEN Chain(current)
  ELSE IF pc \in {"rehash", "free", "move", "chain"} /\ b < i THEN <<>>
  ELSE Counted(Chain(table[b]))

EntriesNow ==
  IF Pending = {} THEN entries ELSE SubSeq(entries, 1, Len(entries) - 1)

TableNow == [b \in DOMAIN table |-> ChainNow(b)]
NewTableNow == [b \in DOMAIN newTable |-> Chain(newTable[b])]

PcNow ==
  CASE pc \in {"append", "count", "search"} -> "ready"
    [] pc = "move" -> "rehash"
    [] pc \in {"free", "chain"} -> "freeing"
    [] OTHER -> pc

Abstract == INSTANCE SymbolTable WITH
  entries  <- EntriesNow,
  table    <- TableNow,
  newTable <- NewTableNow,
  cursor   <- i,
  pc       <- PcNow

\* The pointer code does what SymbolTable says, call by call and entry by
\* entry, and a call that has begun gets on as SymbolTable's does
\* (test.y:97-168).
ImplementsTable == Abstract!FairSpec
=============================================================================
