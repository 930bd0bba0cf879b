------------------------- MODULE SymbolTableProofs -------------------------
(***************************************************************************)
(* IInv is an invariant of SymbolTable for every set of names, every hash  *)
(* function, every initial size and every number of insertions.            *)
(***************************************************************************)
EXTENDS SymbolTable, SequenceTheorems, FiniteSetTheorems, WellFoundedInduction, TLAPS

\* myHash names a bucket of the table it is given the size of.
LEMMA HashInRange ==
  ASSUME NEW k \in Keys, NEW s \in Nat \ {0}
  PROVE  myHash(k, s) \in 0..(s - 1)
<1>1. Hash[k] \in Nat
  BY ConstantsAssumption
<1>2. Hash[k] % s \in 0..(s - 1)
  BY <1>1
<1> QED
  BY <1>2 DEF myHash

\* A calloc'ed table is a table of empty chains.
LEMMA EmptyTableType ==
  ASSUME NEW s \in Nat, NEW S
  PROVE  EmptyTable(s) \in [0..(s - 1) -> Seq(S)]
BY DEF EmptyTable

\* What linking an entry at the end of a chain does to the chain.
LEMMA AppendFacts ==
  ASSUME NEW S, NEW chain \in Seq(S), NEW e
  PROVE  /\ Len(Append(chain, e)) = Len(chain) + 1
         /\ \A j \in DOMAIN chain : Append(chain, e)[j] = chain[j]
         /\ Append(chain, e)[Len(chain) + 1] = e
         /\ DOMAIN Append(chain, e) = DOMAIN chain \cup {Len(chain) + 1}
<1>1. Len(chain) \in Nat /\ DOMAIN chain = 1..Len(chain)
  BY LenProperties
<1>2. Append(chain, e) \in Seq(S \cup {e}) /\ chain \in Seq(S \cup {e})
  OBVIOUS
<1>3. Len(Append(chain, e)) = Len(chain) + 1
  BY <1>2
<1>4. DOMAIN Append(chain, e) = 1..(Len(chain) + 1)
  BY <1>2, <1>3, LenProperties
<1>5. \A j \in 1..Len(chain) : Append(chain, e)[j] = chain[j]
  BY <1>2
<1>6. Append(chain, e)[Len(chain) + 1] = e
  BY <1>2
<1> QED
  BY <1>1, <1>3, <1>4, <1>5, <1>6

\* What pushing an entry in front of a chain does to the chain.
LEMMA PushFacts ==
  ASSUME NEW S, NEW chain \in Seq(S), NEW e \in S,
         NEW pushed, pushed = <<e>> \o chain
  PROVE  /\ pushed \in Seq(S)
         /\ 1 \in DOMAIN pushed /\ pushed[1] = e
         /\ \A j \in DOMAIN pushed : j # 1 =>
              j - 1 \in DOMAIN chain /\ pushed[j] = chain[j - 1]
         /\ \A j \in DOMAIN chain :
              j + 1 \in DOMAIN pushed /\ pushed[j + 1] = chain[j]
         /\ DOMAIN pushed \subseteq Nat
<1>1. Len(chain) \in Nat /\ DOMAIN chain = 1..Len(chain)
  BY LenProperties
<1>2. <<e>> \in Seq(S) /\ Len(<<e>>) = 1 /\ <<e>>[1] = e
  OBVIOUS
<1>3. /\ pushed \in Seq(S)
      /\ Len(pushed) = Len(chain) + 1
      /\ \A j \in 1..(Len(chain) + 1) :
           pushed[j] = IF j <= 1 THEN <<e>>[j] ELSE chain[j - 1]
  BY <1>1, <1>2, ConcatProperties
<1>4. DOMAIN pushed = 1..(Len(chain) + 1)
  BY <1>3, LenProperties
<1>5. pushed[1] = e /\ 1 \in DOMAIN pushed
  BY <1>1, <1>2, <1>3, <1>4
<1>6. \A j \in DOMAIN pushed : j # 1 =>
        j - 1 \in DOMAIN chain /\ pushed[j] = chain[j - 1]
  BY <1>1, <1>3, <1>4
<1>7. \A j \in DOMAIN chain : j + 1 \in DOMAIN pushed /\ pushed[j + 1] = chain[j]
  <2> SUFFICES ASSUME NEW j \in 1..Len(chain)
               PROVE  j + 1 \in 1..(Len(chain) + 1) /\ pushed[j + 1] = chain[j]
    BY <1>1, <1>4
  <2>1. j + 1 \in 1..(Len(chain) + 1) /\ ~(j + 1 <= 1) /\ (j + 1) - 1 = j
    BY <1>1
  <2> QED
    BY <2>1, <1>3
<1>8. DOMAIN pushed \subseteq Nat
  BY <1>4
<1> QED
  BY <1>3, <1>5, <1>6, <1>7, <1>8

\* What taking the head off a chain does to the chain.
LEMMA PopFacts ==
  ASSUME NEW S, NEW chain \in Seq(S), chain # <<>>
  PROVE  /\ Head(chain) \in S /\ Head(chain) = chain[1]
         /\ Tail(chain) \in Seq(S)
         /\ 1 \in DOMAIN chain /\ DOMAIN chain \subseteq Nat
         /\ DOMAIN Tail(chain) \subseteq Nat \ {0}
         /\ \A j \in DOMAIN Tail(chain) : /\ j + 1 \in DOMAIN chain
                                          /\ Tail(chain)[j] = chain[j + 1]
         /\ \A j \in DOMAIN chain : j # 1 =>
              j - 1 \in DOMAIN Tail(chain) /\ Tail(chain)[j - 1] = chain[j]
<1>1. /\ Head(chain) \in S /\ Tail(chain) \in Seq(S)
      /\ Len(Tail(chain)) = Len(chain) - 1
      /\ \A j \in 1..Len(Tail(chain)) : Tail(chain)[j] = chain[j + 1]
  BY HeadTailProperties
<1>2. DOMAIN chain = 1..Len(chain) /\ Len(chain) \in Nat \ {0}
  BY LenProperties, EmptySeq
<1>3. DOMAIN Tail(chain) = 1..(Len(chain) - 1)
  BY <1>1, LenProperties
<1>4. Head(chain) = chain[1]
  OBVIOUS
<1>5. \A j \in DOMAIN Tail(chain) : /\ j + 1 \in DOMAIN chain
                                    /\ Tail(chain)[j] = chain[j + 1]
  BY <1>1, <1>2, <1>3
<1>6. ASSUME NEW j \in DOMAIN chain, j # 1
      PROVE  j - 1 \in DOMAIN Tail(chain) /\ Tail(chain)[j - 1] = chain[j]
  <2>1. j - 1 \in DOMAIN Tail(chain) /\ (j - 1) + 1 = j
    BY <1>2, <1>3, <1>6
  <2> QED
    BY <2>1, <1>5
<1>7. /\ 1 \in DOMAIN chain /\ DOMAIN chain \subseteq Nat
      /\ DOMAIN Tail(chain) \subseteq Nat \ {0}
  BY <1>2, <1>3
<1> QED
  BY <1>1, <1>4, <1>5, <1>6, <1>7

\* The table createSymbolTable returns satisfies the invariant.
LEMMA InitIInv == Init => IInv
<1> SUFFICES ASSUME Init PROVE IInv
  OBVIOUS
<1>0. entries = <<>> /\ freed = <<>> /\ newTable = <<>> /\ Ids = {} /\ Len(entries) = 0
  BY DEF Init, Ids
<1>1. TypeOK
  BY <1>0, ConstantsAssumption DEF Init, TypeOK, Chains, EmptyTable
<1>2. EntriesAtHome
  BY <1>0, ConstantsAssumption DEF Init, EntriesAtHome, AtHome, EmptyTable
<1>3. EntriesNotShared
  BY <1>0, ConstantsAssumption DEF Init, EntriesNotShared, NoRepeat, EmptyTable
<1>4. NothingLost /\ Drained /\ NotYetFreed
  BY <1>0 DEF Init, NothingLost, Drained, NotYetFreed
<1>5. LoadBounded
  BY <1>0, ConstantsAssumption DEF Init, LoadBounded, Overloaded
<1> QED
  BY <1>1, <1>2, <1>3, <1>4, <1>5 DEF IInv

-----------------------------------------------------------------------------

\* Linking a new entry preserves the invariant, with and without a rehash.
LEMMA InsertIInv ==
  ASSUME IInv, NEW k \in Keys, NEW v \in Values, Insert(k, v)
  PROVE  IInv'
<1> DEFINE new == Len(entries) + 1
           index == myHash(k, size)
           rec == [key |-> k, value |-> v]
<1> USE DEF Ids
<1>0. /\ pc = "ready" /\ newTable = <<>> /\ freed = <<>>
      /\ table \in Chains(size) /\ size \in Nat \ {0} /\ index \in 0..(size - 1)
      /\ entries \in Seq([key : Keys, value : Values])
      /\ rec \in [key : Keys, value : Values]
      /\ count = Len(entries) /\ new \in Nat /\ cursor \in 0..size
      /\ size' = size /\ freed' = freed /\ answer' = answer
      /\ count' = count + 1
  BY HashInRange DEF Insert, IInv, TypeOK, LoadBounded, NotYetFreed
<1>1. /\ entries' = Append(entries, rec)
      /\ entries' \in Seq([key : Keys, value : Values])
      /\ Len(entries') = new
      /\ \A i \in Ids : entries'[i] = entries[i]
      /\ entries'[new] = rec
      /\ Ids' = Ids \cup {new} /\ new \notin Ids
  BY <1>0 DEF Insert, Link
<1>2. /\ DOMAIN table = 0..(size - 1) /\ DOMAIN table' = 0..(size - 1)
      /\ \A i \in 0..(size - 1) : table[i] \in Seq(Ids)
      /\ \A i \in 0..(size - 1) :
           table'[i] = IF i = index THEN Append(table[i], new) ELSE table[i]
  BY <1>0 DEF Insert, Link, Chains
<1>3. \A i \in 0..(size - 1) : \A j \in DOMAIN table[i] :
        table[i][j] \in Ids
  BY <1>2
<1>4. /\ Len(table'[index]) = Len(table[index]) + 1
      /\ \A j \in DOMAIN table[index] : table'[index][j] = table[index][j]
      /\ table'[index][Len(table[index]) + 1] = new
      /\ DOMAIN table'[index] = DOMAIN table[index] \cup {Len(table[index]) + 1}
  <2>1. table[index] \in Seq(Ids) /\ table'[index] = Append(table[index], new)
    BY <1>0, <1>2
  <2> QED
    BY <2>1, AppendFacts
<1>5. table' \in Chains(size)'
  <2>1. \A i \in 0..(size - 1) : table'[i] \in Seq(Ids')
    <3> SUFFICES ASSUME NEW i \in 0..(size - 1) PROVE table'[i] \in Seq(Ids')
      OBVIOUS
    <3>1. table[i] \in Seq(Ids')
      BY <1>1, <1>2
    <3>2. Append(table[i], new) \in Seq(Ids')
      BY <3>1, <1>1
    <3> QED
      BY <1>2, <3>1, <3>2
  <2>2. table' = [i \in 0..(size - 1) |-> table'[i]]
    BY <1>0, <1>2 DEF Insert, Link, Chains
  <2> QED
    BY <1>0, <2>1, <2>2 DEF Chains
<1>6. \/ newTable' = <<>> /\ pc' = "ready" /\ cursor' = cursor /\ ~Overloaded(count + 1, size)
      \/ newTable' = EmptyTable(2 * size) /\ pc' = "rehash" /\ cursor' = 0
  BY <1>0 DEF Insert
<1>7. \A i \in DOMAIN newTable' : newTable'[i] = <<>>
  <2>1. CASE newTable' = <<>>
    BY <2>1
  <2>2. CASE newTable' = EmptyTable(2 * size)
    BY <2>2 DEF EmptyTable
  <2> QED
    BY <1>6, <2>1, <2>2
<1>8. TypeOK'
  <2>1. IF pc' = "rehash" THEN newTable' \in Chains(2 * size)' ELSE newTable' = <<>>
    <3>1. EmptyTable(2 * size) \in [0..(2 * size - 1) -> Seq(Ids')]
      <4>1. 2 * size \in Nat
        BY <1>0
      <4> HIDE DEF Ids
      <4> QED
        BY <4>1, EmptyTableType
    <3> QED
      BY <3>1, <1>0, <1>6 DEF Chains
  <2>2. freed' \in Seq(Ids')
    BY <1>0
  <2>3. answer' \in [key : Keys \cup {NULL}, value : Values \cup {NULL}]
    BY <1>0 DEF IInv, TypeOK
  <2>4. cursor' \in 0..size' /\ size' \in Nat \ {0} /\ count' \in Nat
    BY <1>0, <1>6
  <2>5. IF pc' = "freed" THEN table' = <<>> ELSE table' \in Chains(size)'
    BY <1>5, <1>6
  <2>6. pc' \in {"ready", "rehash", "freeing", "freed"}
    BY <1>6
  <2> QED
    BY <1>1, <2>1, <2>2, <2>3, <2>4, <2>5, <2>6 DEF TypeOK
<1>9. EntriesAtHome'
  <2>1. AtHome(table, size)'
    <3> SUFFICES ASSUME NEW i \in 0..(size - 1), NEW j \in DOMAIN table'[i]
                 PROVE  myHash(entries'[table'[i][j]].key, size) = i
      BY <1>0, <1>2 DEF AtHome, myHash
    <3>1. CASE i = index /\ j = Len(table[index]) + 1
      BY <3>1, <1>1, <1>4
    <3>2. CASE ~(i = index /\ j = Len(table[index]) + 1)
      <4>1. j \in DOMAIN table[i] /\ table'[i][j] = table[i][j]
        BY <3>2, <1>2, <1>4
      <4>2. entries'[table[i][j]] = entries[table[i][j]]
        BY <4>1, <1>1, <1>3
      <4>3. myHash(entries[table[i][j]].key, size) = i
        BY <4>1, <1>2 DEF IInv, EntriesAtHome, AtHome
      <4> QED
        BY <4>1, <4>2, <4>3
    <3> QED
      BY <3>1, <3>2
  <2>2. AtHome(newTable, 2 * size)'
    BY <1>7 DEF AtHome
  <2> QED
    BY <2>1, <2>2 DEF EntriesAtHome
<1>10. EntriesNotShared'
  <2>1. \A i \in DOMAIN table' : NoRepeat(table'[i])
    <3> SUFFICES ASSUME NEW i \in 0..(size - 1) PROVE NoRepeat(table'[i])
      BY <1>2
    <3>1. NoRepeat(table[i])
      BY <1>2 DEF IInv, EntriesNotShared
    <3>2. CASE i = index
      BY <3>1, <3>2, <1>1, <1>2, <1>3, <1>4 DEF NoRepeat
    <3>3. CASE i # index
      BY <3>1, <3>3, <1>2
    <3> QED
      BY <3>2, <3>3
  <2>2. \A i \in DOMAIN newTable' : NoRepeat(newTable'[i])
    BY <1>7 DEF NoRepeat
  <2>3. \A e \in Ids' : ~On(e, newTable')
    BY <1>7 DEF On
  <2> QED
    BY <1>0, <2>1, <2>2, <2>3 DEF EntriesNotShared, Freed, NoRepeat
<1>11. NothingLost'
  <2> SUFFICES ASSUME NEW e \in Ids' PROVE On(e, table')
    BY DEF NothingLost
  <2>1. CASE e = new
    BY <2>1, <1>0, <1>2, <1>4 DEF On
  <2>2. CASE e \in Ids
    <3>1. On(e, table)
      BY <2>2, <1>0 DEF IInv, NothingLost, On, Freed
    <3>2. PICK i \in 0..(size - 1) : \E j \in DOMAIN table[i] : table[i][j] = e
      BY <3>1, <1>2 DEF On
    <3>a. PICK j \in DOMAIN table[i] : table[i][j] = e
      BY <3>2
    <3>3. j \in DOMAIN table'[i] /\ table'[i][j] = e
      BY <3>a, <1>2, <1>4
    <3> QED
      BY <3>3, <1>2 DEF On
  <2> QED
    BY <2>1, <2>2, <1>1
<1>12. Drained' /\ NotYetFreed'
  BY <1>0, <1>2, <1>6 DEF Drained, NotYetFreed
<1>13. LoadBounded'
  <2>1. 10 * count <= 7 * size
    BY <1>0 DEF IInv, LoadBounded, Overloaded
  <2>2. 10 * (count + 1) <= 7 * (2 * size)
    BY <2>1, <1>0
  <2> QED
    BY <1>0, <1>1, <1>6, <2>2 DEF LoadBounded, Overloaded
<1> QED
  BY <1>8, <1>9, <1>10, <1>11, <1>12, <1>13 DEF IInv
-----------------------------------------------------------------------------

\* What taking the first entry off the chain at the loop variable does, in
\* the rehash loop and in freeSymbolTable: it is on no chain of the old
\* table any more, every other entry is where it was.
LEMMA TakeHead ==
  ASSUME IInv, pc \in {"rehash", "freeing"}, cursor < size,
         table[cursor] # <<>>,
         NEW rest, rest = [table EXCEPT ![cursor] = Tail(@)]
  PROVE  /\ Head(table[cursor]) \in Ids
         /\ rest \in Chains(size)
         /\ On(Head(table[cursor]), table)
         /\ ~On(Head(table[cursor]), rest)
         /\ \A e : On(e, rest) => On(e, table)
         /\ \A e : On(e, table) => On(e, rest) \/ e = Head(table[cursor])
         /\ \A i \in DOMAIN rest : NoRepeat(rest[i])
         /\ AtHome(rest, size)
         /\ \A i \in DOMAIN rest : i < cursor => rest[i] = <<>>
<1> DEFINE chain == table[cursor]
           head == Head(chain)
<1>1. /\ table \in Chains(size) /\ size \in Nat \ {0} /\ cursor \in 0..(size - 1)
      /\ DOMAIN table = 0..(size - 1)
      /\ \A i \in 0..(size - 1) : table[i] \in Seq(Ids)
  BY DEF IInv, TypeOK, Chains
<1>2. /\ head \in Ids /\ head = chain[1] /\ Tail(chain) \in Seq(Ids)
      /\ 1 \in DOMAIN chain /\ DOMAIN chain \subseteq Nat
      /\ DOMAIN Tail(chain) \subseteq Nat \ {0}
      /\ \A j \in DOMAIN Tail(chain) : /\ j + 1 \in DOMAIN chain
                                       /\ Tail(chain)[j] = chain[j + 1]
      /\ \A j \in DOMAIN chain : j # 1 =>
           j - 1 \in DOMAIN Tail(chain) /\ Tail(chain)[j - 1] = chain[j]
  BY <1>1, PopFacts
<1>3. /\ rest \in Chains(size) /\ DOMAIN rest = 0..(size - 1)
      /\ rest[cursor] = Tail(chain)
      /\ \A i \in 0..(size - 1) : i # cursor => rest[i] = table[i]
  BY <1>1, <1>2 DEF Chains
<1>4. AtHome(table, size) /\ \A i \in 0..(size - 1) : NoRepeat(table[i])
  BY <1>1 DEF IInv, EntriesAtHome, EntriesNotShared
<1>5. ASSUME NEW i \in 0..(size - 1), NEW j \in DOMAIN rest[i]
      PROVE  \E m \in DOMAIN table[i] :
               table[i][m] = rest[i][j] /\ (i = cursor => m = j + 1)
  <2>1. CASE i # cursor
    BY <2>1, <1>3
  <2>2. CASE i = cursor
    BY <2>2, <1>2, <1>3
  <2> QED
    BY <2>1, <2>2
<1>6. On(head, table)
  BY <1>1, <1>2 DEF On
<1>7. ~On(head, rest)
  <2> SUFFICES ASSUME NEW i \in 0..(size - 1), NEW j \in DOMAIN rest[i],
                      rest[i][j] = head
               PROVE  FALSE
    BY <1>3 DEF On
  <2>1. PICK m \in DOMAIN table[i] : table[i][m] = head /\ (i = cursor => m = j + 1)
    BY <1>5
  <2>2. myHash(entries[head].key, size) = i
    BY <2>1, <1>1, <1>4 DEF AtHome
  <2>3. myHash(entries[head].key, size) = cursor
    BY <1>1, <1>2, <1>4 DEF AtHome
  <2>4. m = 1
    BY <2>1, <2>2, <2>3, <1>1, <1>2, <1>4 DEF NoRepeat
  <2> QED
    BY <2>1, <2>2, <2>3, <2>4, <1>2, <1>3
<1>8. \A e : On(e, rest) => On(e, table)
  BY <1>1, <1>3, <1>5 DEF On
<1>9. ASSUME NEW e, On(e, table) PROVE On(e, rest) \/ e = head
  <2>1. PICK i \in 0..(size - 1) : \E j \in DOMAIN table[i] : table[i][j] = e
    BY <1>1, <1>9 DEF On
  <2>2. PICK j \in DOMAIN table[i] : table[i][j] = e
    BY <2>1
  <2>3. CASE i # cursor
    BY <2>2, <2>3, <1>3 DEF On
  <2>4. CASE i = cursor /\ j # 1
    <3>1. (j - 1) \in DOMAIN rest[cursor] /\ rest[cursor][j - 1] = e
      BY <2>2, <2>4, <1>2, <1>3
    <3> QED
      BY <3>1, <1>1, <1>3 DEF On
  <2>5. CASE i = cursor /\ j = 1
    BY <2>2, <2>5, <1>2
  <2> QED
    BY <2>3, <2>4, <2>5
<1>10. ASSUME NEW i \in 0..(size - 1) PROVE NoRepeat(rest[i])
  <2>1. CASE i # cursor
    BY <2>1, <1>3, <1>4
  <2>2. CASE i = cursor
    <3> SUFFICES ASSUME NEW x \in DOMAIN Tail(chain), NEW y \in DOMAIN Tail(chain),
                        Tail(chain)[x] = Tail(chain)[y]
                 PROVE  x = y
      BY <2>2, <1>2, <1>3 DEF NoRepeat
    <3>1. chain[x + 1] = chain[y + 1] /\ x + 1 \in DOMAIN chain /\ y + 1 \in DOMAIN chain
      BY <1>2
    <3>2. x + 1 = y + 1
      BY <3>1, <1>1, <1>4 DEF NoRepeat
    <3> QED
      BY <3>2, <1>2
  <2> QED
    BY <2>1, <2>2
<1>11. AtHome(rest, size)
  BY <1>1, <1>3, <1>4, <1>5 DEF AtHome
<1>12. \A i \in DOMAIN rest : i < cursor => rest[i] = <<>>
  <2>1. \A i \in DOMAIN table : i < cursor => table[i] = <<>>
    BY DEF IInv, Drained
  <2> QED
    BY <2>1, <1>1, <1>3
<1> QED
  BY <1>2, <1>3, <1>6, <1>7, <1>8, <1>9, <1>10, <1>11, <1>12

\* Moving one entry to its new chain preserves the invariant.
LEMMA RehashEntryIInv ==
  ASSUME IInv, RehashEntry
  PROVE  IInv'
<1> DEFINE head == Head(table[cursor])
           home == myHash(entries[head].key, 2 * size)
           chain == newTable[home]
<1>1. /\ pc = "rehash" /\ cursor < size /\ table[cursor] # <<>>
      /\ newTable' = [newTable EXCEPT ![home] = <<head>> \o chain]
      /\ table' = [table EXCEPT ![cursor] = Tail(@)]
      /\ UNCHANGED <<entries, size, count, cursor, freed, answer, pc>>
      /\ Ids' = Ids
  BY DEF RehashEntry, Ids
<1>2. /\ head \in Ids /\ table' \in Chains(size)
      /\ On(head, table) /\ ~On(head, table')
      /\ \A e : On(e, table') => On(e, table)
      /\ \A e : On(e, table) => On(e, table') \/ e = head
      /\ \A i \in DOMAIN table' : NoRepeat(table'[i])
      /\ AtHome(table', size)
      /\ \A i \in DOMAIN table' : i < cursor => table'[i] = <<>>
  BY <1>1, TakeHead
<1>3. /\ size \in Nat \ {0} /\ 2 * size \in Nat \ {0}
      /\ newTable \in Chains(2 * size) /\ freed = <<>>
      /\ entries \in Seq([key : Keys, value : Values])
  BY <1>1 DEF IInv, TypeOK, NotYetFreed
<1>4. home \in 0..(2 * size - 1)
  <2>1. entries[head] \in [key : Keys, value : Values]
    BY <1>2, <1>3, ElementOfSeq DEF Ids
  <2> QED
    BY <2>1, <1>3, HashInRange
<1>5. chain \in Seq(Ids) /\ DOMAIN newTable = 0..(2 * size - 1)
  BY <1>3, <1>4 DEF Chains
<1>a. <<head>> \o chain \in Seq(Ids)
  BY <1>2, <1>5, PushFacts
<1>b. newTable'[home] = <<head>> \o chain
  BY <1>1, <1>4, <1>5
<1>6. /\ 1 \in DOMAIN newTable'[home] /\ newTable'[home][1] = head
      /\ \A j \in DOMAIN newTable'[home] : j # 1 =>
           j - 1 \in DOMAIN chain /\ newTable'[home][j] = chain[j - 1]
      /\ \A j \in DOMAIN chain : /\ j + 1 \in DOMAIN newTable'[home]
                                 /\ newTable'[home][j + 1] = chain[j]
      /\ DOMAIN newTable'[home] \subseteq Nat
  <2>1. head \in Ids /\ chain \in Seq(Ids)
    BY <1>2, <1>5
  <2> HIDE DEF head, home, chain
  <2> QED
    BY <1>b, <2>1, PushFacts
<1>7. /\ newTable' \in Chains(2 * size) /\ DOMAIN newTable' = 0..(2 * size - 1)
      /\ \A i \in 0..(2 * size - 1) : i # home => newTable'[i] = newTable[i]
  BY <1>1, <1>3, <1>4, <1>5, <1>a DEF Chains
<1>8. ~On(head, newTable)
  BY <1>2 DEF IInv, EntriesNotShared
<1>9. ASSUME NEW e, On(e, newTable') PROVE On(e, newTable) \/ e = head
  <2>1. PICK i \in 0..(2 * size - 1) : \E j \in DOMAIN newTable'[i] : newTable'[i][j] = e
    BY <1>7, <1>9 DEF On
  <2>2. PICK j \in DOMAIN newTable'[i] : newTable'[i][j] = e
    BY <2>1
  <2>3. CASE i # home
    BY <2>2, <2>3, <1>5, <1>7 DEF On
  <2>4. CASE i = home /\ j = 1
    BY <2>2, <2>4, <1>6, <1>7
  <2>5. CASE i = home /\ j # 1
    <3>1. (j - 1) \in DOMAIN chain /\ chain[j - 1] = e
      BY <2>2, <2>5, <1>6
    <3> QED
      BY <3>1, <1>4, <1>5 DEF On
  <2> QED
    BY <2>3, <2>4, <2>5
<1>10. On(head, newTable')
  BY <1>4, <1>6, <1>7 DEF On
<1>11. ASSUME NEW e, On(e, newTable) PROVE On(e, newTable')
  <2>1. PICK i \in 0..(2 * size - 1) : \E j \in DOMAIN newTable[i] : newTable[i][j] = e
    BY <1>5, <1>11 DEF On
  <2>2. PICK j \in DOMAIN newTable[i] : newTable[i][j] = e
    BY <2>1
  <2>3. CASE i # home
    BY <2>2, <2>3, <1>7 DEF On
  <2>4. CASE i = home
    <3>1. (j + 1) \in DOMAIN newTable'[home] /\ newTable'[home][j + 1] = e
      BY <2>2, <2>4, <1>6
    <3> QED
      BY <3>1, <1>4, <1>7 DEF On
  <2> QED
    BY <2>3, <2>4
<1>12. TypeOK'
  BY <1>1, <1>2, <1>7 DEF IInv, TypeOK, Chains
<1>13. EntriesAtHome'
  <2>1. AtHome(newTable, 2 * size)
    BY DEF IInv, EntriesAtHome
  <2>2. ASSUME NEW i \in 0..(2 * size - 1), NEW j \in DOMAIN newTable'[i]
        PROVE  myHash(entries[newTable'[i][j]].key, 2 * size) = i
    <3>1. CASE i # home
      BY <2>1, <3>1, <1>5, <1>7 DEF AtHome
    <3>2. CASE i = home /\ j = 1
      BY <3>2, <1>6, <1>7
    <3>3. CASE i = home /\ j # 1
      <4>1. (j - 1) \in DOMAIN chain /\ newTable'[i][j] = chain[j - 1]
        BY <3>3, <1>6
      <4> QED
        BY <4>1, <3>3, <2>1, <1>4, <1>5 DEF AtHome
    <3> QED
      BY <3>1, <3>2, <3>3
  <2>3. AtHome(table, size)'
    BY <1>1, <1>2 DEF AtHome, myHash
  <2>4. AtHome(newTable, 2 * size)'
    BY <1>1, <1>7, <2>2 DEF AtHome, myHash
  <2> QED
    BY <2>3, <2>4 DEF EntriesAtHome
<1>14. EntriesNotShared'
  <2>1. ASSUME NEW i \in 0..(2 * size - 1) PROVE NoRepeat(newTable'[i])
    <3>1. NoRepeat(newTable[i])
      BY <1>5 DEF IInv, EntriesNotShared
    <3>2. CASE i # home
      BY <3>1, <3>2, <1>7
    <3>3. CASE i = home
      <4>1. \A j \in DOMAIN chain : chain[j] # head
        BY <1>4, <1>5, <1>8 DEF On
      <4> SUFFICES ASSUME NEW x \in DOMAIN newTable'[home],
                          NEW y \in DOMAIN newTable'[home],
                          newTable'[home][x] = newTable'[home][y]
                   PROVE  x = y
        BY <3>3 DEF NoRepeat
      <4>2. CASE x = 1 \/ y = 1
        <5>1. \A z \in DOMAIN newTable'[home] : z # 1 => newTable'[home][z] # head
          <6> HIDE DEF head, home, chain
          <6> QED
            BY <4>1, <1>6
        <5> QED
          BY <5>1, <4>2, <1>6
      <4>3. CASE x # 1 /\ y # 1
        <5>1. /\ chain[x - 1] = chain[y - 1]
              /\ x - 1 \in DOMAIN chain /\ y - 1 \in DOMAIN chain
          BY <4>3, <1>6
        <5>2. x - 1 = y - 1
          BY <5>1, <3>1, <3>3 DEF NoRepeat
        <5>3. x \in Nat /\ y \in Nat
          BY <1>6
        <5> QED
          BY <5>2, <5>3
      <4> QED
        BY <4>2, <4>3
    <3> QED
      BY <3>2, <3>3
  <2>2. \A e \in Ids : ~(On(e, table') /\ On(e, newTable'))
    BY <1>2, <1>9 DEF IInv, EntriesNotShared
  <2>3. NoRepeat(freed) /\ \A e \in Ids : ~Freed(e)
    BY <1>3 DEF NoRepeat, Freed
  <2> QED
    BY <1>1, <1>2, <1>7, <2>1, <2>2, <2>3 DEF EntriesNotShared, Freed
<1>15. NothingLost'
  BY <1>1, <1>2, <1>10, <1>11 DEF IInv, NothingLost, Freed
<1>16. Drained' /\ NotYetFreed' /\ LoadBounded'
  BY <1>1, <1>2 DEF IInv, Drained, NotYetFreed, LoadBounded, Overloaded
<1> QED
  BY <1>12, <1>13, <1>14, <1>15, <1>16 DEF IInv

\* Freeing the first entry of a chain preserves the invariant.
LEMMA FreeEntryIInv ==
  ASSUME IInv, FreeEntry
  PROVE  IInv'
<1> DEFINE head == Head(table[cursor])
<1>1. /\ pc = "freeing" /\ cursor < size /\ table[cursor] # <<>>
      /\ freed' = Append(freed, head)
      /\ table' = [table EXCEPT ![cursor] = Tail(@)]
      /\ UNCHANGED <<entries, size, count, newTable, cursor, answer, pc>>
      /\ Ids' = Ids
  BY DEF FreeEntry, Ids
<1>2. /\ head \in Ids /\ table' \in Chains(size)
      /\ On(head, table) /\ ~On(head, table')
      /\ \A e : On(e, table') => On(e, table)
      /\ \A e : On(e, table) => On(e, table') \/ e = head
      /\ \A i \in DOMAIN table' : NoRepeat(table'[i])
      /\ AtHome(table', size)
      /\ \A i \in DOMAIN table' : i < cursor => table'[i] = <<>>
  BY <1>1, TakeHead
<1>3. newTable = <<>> /\ freed \in Seq(Ids)
  BY <1>1 DEF IInv, TypeOK
<1>4. /\ Len(freed) \in Nat /\ DOMAIN freed = 1..Len(freed)
      /\ \A j \in DOMAIN freed : freed'[j] = freed[j]
      /\ freed'[Len(freed) + 1] = head
      /\ DOMAIN freed' = DOMAIN freed \cup {Len(freed) + 1}
  BY <1>1, <1>3, AppendFacts, LenProperties
<1>5. ~Freed(head) /\ NoRepeat(freed)
  BY <1>2 DEF IInv, EntriesNotShared
<1>6. TypeOK'
  <2>1. freed' \in Seq(Ids)
    BY <1>1, <1>2, <1>3, AppendProperties
  <2> QED
    BY <1>1, <1>2, <1>3, <2>1 DEF IInv, TypeOK, Chains
<1>7. EntriesAtHome'
  <2>1. AtHome(table, size)'
    BY <1>1, <1>2 DEF AtHome, myHash
  <2>2. AtHome(newTable, 2 * size)'
    BY <1>1, <1>3 DEF AtHome
  <2> QED
    BY <2>1, <2>2 DEF EntriesAtHome
<1>8. EntriesNotShared'
  <2>1. NoRepeat(freed')
    BY <1>4, <1>5 DEF NoRepeat, Freed
  <2>2. ASSUME NEW e \in Ids PROVE ~(On(e, table') /\ Freed(e)')
    BY <1>2, <1>4, <1>5 DEF IInv, EntriesNotShared, Freed
  <2>3. ASSUME NEW e \in Ids PROVE ~On(e, newTable')
    BY <1>1, <1>3 DEF On
  <2>4. \A i \in DOMAIN newTable' : NoRepeat(newTable'[i])
    BY <1>1, <1>3
  <2> QED
    BY <1>1, <1>2, <2>1, <2>2, <2>3, <2>4 DEF EntriesNotShared
<1>9. NothingLost'
  <2> SUFFICES ASSUME NEW e \in Ids PROVE On(e, table') \/ Freed(e)'
    BY <1>1 DEF NothingLost
  <2>1. On(e, table) \/ Freed(e)
    BY <1>3 DEF IInv, NothingLost, On
  <2>2. Freed(e) => Freed(e)'
    BY <1>4 DEF Freed
  <2>3. e = head => Freed(e)'
    BY <1>4 DEF Freed
  <2> QED
    BY <1>2, <2>1, <2>2, <2>3
<1>10. Drained' /\ NotYetFreed' /\ LoadBounded'
  BY <1>1, <1>2 DEF IInv, Drained, NotYetFreed, LoadBounded, Overloaded
<1> QED
  BY <1>6, <1>7, <1>8, <1>9, <1>10 DEF IInv
\* When the loop variable has reached the size every old bucket is empty.
LEMMA AllDrained ==
  ASSUME IInv, pc \in {"rehash", "freeing"}, cursor = size
  PROVE  \A e : ~On(e, table)
<1>1. DOMAIN table = 0..(size - 1) /\ size \in Nat
  BY DEF IInv, TypeOK, Chains
<1>2. \A i \in DOMAIN table : table[i] = <<>>
  BY <1>1 DEF IInv, Drained
<1> QED
  BY <1>2 DEF On

\* Going to the next bucket, in either loop, preserves the invariant.
LEMMA NextBucketIInv ==
  ASSUME IInv, RehashNextBucket \/ FreeNextBucket
  PROVE  IInv'
<1>1. /\ pc \in {"rehash", "freeing"} /\ cursor < size /\ table[cursor] = <<>>
      /\ cursor' = cursor + 1
      /\ UNCHANGED <<entries, table, size, count, newTable, freed, answer, pc>>
      /\ Ids' = Ids
  BY DEF RehashNextBucket, FreeNextBucket, Ids
<1>2. /\ size \in Nat \ {0} /\ cursor \in 0..size
      /\ DOMAIN table = 0..(size - 1)
  BY <1>1 DEF IInv, TypeOK, Chains
<1>3. cursor' \in 0..size
  BY <1>1, <1>2
<1>4. TypeOK'
  BY <1>1, <1>3 DEF IInv, TypeOK, Chains
<1>5. EntriesAtHome' /\ EntriesNotShared' /\ NothingLost'
  BY <1>1 DEF IInv, EntriesAtHome, AtHome, myHash, EntriesNotShared, NothingLost,
              On, Freed, NoRepeat
<1>6. Drained'
  <2>1. \A i \in DOMAIN table : i < cursor => table[i] = <<>>
    BY <1>1 DEF IInv, Drained
  <2>2. \A i \in DOMAIN table : i < cursor + 1 => i < cursor \/ i = cursor
    BY <1>2
  <2> QED
    BY <1>1, <2>1, <2>2 DEF Drained
<1>7. NotYetFreed' /\ LoadBounded'
  BY <1>1 DEF IInv, NotYetFreed, LoadBounded, Overloaded
<1> QED
  BY <1>4, <1>5, <1>6, <1>7 DEF IInv

\* Installing the new table preserves the invariant.
LEMMA RehashDoneIInv ==
  ASSUME IInv, RehashDone
  PROVE  IInv'
<1>1. /\ pc = "rehash" /\ cursor = size /\ table' = newTable /\ size' = 2 * size
      /\ newTable' = <<>> /\ pc' = "ready"
      /\ UNCHANGED <<entries, count, cursor, freed, answer>>
      /\ Ids' = Ids
  BY DEF RehashDone, Ids
<1>2. /\ size \in Nat \ {0} /\ cursor \in 0..(2 * size)
      /\ newTable \in Chains(2 * size) /\ freed = <<>>
  BY <1>1 DEF IInv, TypeOK, NotYetFreed
<1>3. \A e : ~On(e, table)
  BY <1>1, AllDrained
<1>4. TypeOK'
  BY <1>1, <1>2 DEF IInv, TypeOK, Chains
<1>5. EntriesAtHome'
  BY <1>1 DEF IInv, EntriesAtHome, AtHome, myHash
<1>6. EntriesNotShared'
  BY <1>1, <1>2 DEF IInv, EntriesNotShared, NoRepeat, On, Freed
<1>7. NothingLost'
  BY <1>1, <1>2, <1>3 DEF IInv, NothingLost, On, Freed
<1>8. Drained' /\ NotYetFreed' /\ LoadBounded'
  BY <1>1, <1>2 DEF IInv, Drained, NotYetFreed, LoadBounded, Overloaded
<1> QED
  BY <1>4, <1>5, <1>6, <1>7, <1>8 DEF IInv

\* A nonempty set of positions has a first one.
LEMMA MinIsFirst ==
  ASSUME NEW P \in SUBSET Nat, P # {}
  PROVE  Min(P) \in P /\ \A j \in P : Min(P) <= j
<1>1. PICK i \in P : \A j \in P : <<j, i>> \notin OpToRel(<, Nat)
  BY NatLessThanWellFounded, WFMin
<1>2. ASSUME NEW j \in P PROVE i <= j
  <2>1. i \in Nat /\ j \in Nat
    OBVIOUS
  <2>2. ~(j < i)
    BY <1>1, <2>1 DEF OpToRel
  <2> QED
    BY <2>1, <2>2
<1> QED
  BY <1>2 DEF Min

\* In a table that is in use, lookup returns the value some insertion gave
\* to the name, and NULL exactly when there was none (test.y:143-153).
LEMMA LookupFinds ==
  ASSUME IInv, pc = "ready", NEW k \in Keys
  PROVE  /\ Map!ValuesOf(k) = {} => Lookup(k) = NULL
         /\ Map!ValuesOf(k) # {} => Lookup(k) \in Map!ValuesOf(k)
<1> DEFINE home == myHash(k, size)
           chain == table[home]
<1>1. /\ size \in Nat \ {0} /\ table \in Chains(size)
      /\ entries \in Seq([key : Keys, value : Values])
      /\ newTable = <<>> /\ freed = <<>>
      /\ DOMAIN entries = Ids /\ Ids \subseteq Nat
  BY LenProperties DEF IInv, TypeOK, NotYetFreed, Ids
<1>2. home \in 0..(size - 1) /\ DOMAIN table = 0..(size - 1)
  BY <1>1, HashInRange DEF Chains
<1>3. /\ chain \in Seq(Ids) /\ DOMAIN chain \subseteq Nat
      /\ \A j \in DOMAIN chain : chain[j] \in Ids
  <2>1. chain \in Seq(Ids)
    BY <1>1, <1>2 DEF Chains
  <2>2. DOMAIN chain = 1..Len(chain) /\ Len(chain) \in Nat
    BY <2>1, LenProperties
  <2>3. \A j \in DOMAIN chain : chain[j] \in Ids
    BY <2>1, <2>2, ElementOfSeq
  <2> QED
    BY <2>1, <2>2, <2>3
<1>4. ASSUME NEW e \in Ids, entries[e].key = k
      PROVE  Hits(k) # {}
  <2>1. On(e, table)
    BY <1>1 DEF IInv, NothingLost, On, Freed
  <2>2. PICK i \in DOMAIN table : \E j \in DOMAIN table[i] : table[i][j] = e
    BY <2>1 DEF On
  <2>3. PICK j \in DOMAIN table[i] : table[i][j] = e
    BY <2>2
  <2>4. i = home
    BY <2>3, <1>4 DEF IInv, EntriesAtHome, AtHome
  <2> QED
    BY <2>3, <2>4, <1>4 DEF Hits
<1>5. Map!ValuesOf(k) = {entries[i].value : i \in {j \in DOMAIN entries : entries[j].key = k}}
  BY DEF Map!ValuesOf
<1>6. Map!ValuesOf(k) = {} => Hits(k) = {}
  BY <1>1, <1>3, <1>5 DEF Hits
<1>7. Map!ValuesOf(k) # {} => Hits(k) # {}
  BY <1>1, <1>4, <1>5
<1>8. ASSUME Hits(k) # {}
      PROVE  Lookup(k) \in Map!ValuesOf(k)
  <2> DEFINE first == Min(Hits(k))
  <2>1. Hits(k) \in SUBSET Nat
    BY <1>3 DEF Hits
  <2>2. first \in Hits(k)
    BY <2>1, <1>8, MinIsFirst
  <2>3. /\ chain[first] \in DOMAIN entries
        /\ entries[chain[first]].key = k
    BY <2>2, <1>1, <1>3 DEF Hits
  <2>4. Lookup(k) = entries[chain[first]].value
    BY <1>8 DEF Lookup
  <2> QED
    BY <2>3, <2>4, <1>5
<1> QED
  BY <1>6, <1>7, <1>8 DEF Lookup

\* The calls that leave every entry where it is preserve the invariant.
LEMMA QuietIInv ==
  ASSUME IInv,
         \/ \E k \in Keys : LookupCall(k)
         \/ FreeCall
         \/ UNCHANGED vars
  PROVE  IInv'
<1>1. /\ UNCHANGED <<entries, table, size, count, newTable, freed>>
      /\ Ids' = Ids
  BY DEF LookupCall, FreeCall, vars, Ids
<1>2. EntriesAtHome' /\ EntriesNotShared' /\ NothingLost'
  BY <1>1 DEF IInv, EntriesAtHome, AtHome, myHash, EntriesNotShared, NothingLost,
              On, Freed, NoRepeat
<1>3. CASE \E k \in Keys : LookupCall(k)
  <2>1. PICK k \in Keys : LookupCall(k)
    BY <1>3
  <2>2. /\ pc = "ready" /\ pc' = pc /\ cursor' = cursor
        /\ answer' = [key |-> k, value |-> Lookup(k)]
    BY <2>1 DEF LookupCall
  <2>3. Lookup(k) \in Values \cup {NULL}
    <3>1. entries \in Seq([key : Keys, value : Values])
      BY DEF IInv, TypeOK
    <3>2. \A i \in DOMAIN entries : entries[i].value \in Values
      <4>1. DOMAIN entries = 1..Len(entries)
        BY <3>1, LenProperties
      <4>2. \A i \in DOMAIN entries : entries[i] \in [key : Keys, value : Values]
        BY <3>1, <4>1, ElementOfSeq
      <4> QED
        BY <4>2
    <3>3. Map!ValuesOf(k) \subseteq Values
      BY <3>2 DEF Map!ValuesOf
    <3> QED
      BY <2>2, <3>3, LookupFinds
  <2>4. TypeOK'
    BY <1>1, <2>2, <2>3 DEF IInv, TypeOK, Chains
  <2> QED
    BY <1>1, <1>2, <2>2, <2>4
       DEF IInv, Drained, NotYetFreed, LoadBounded, Overloaded
<1>4. CASE FreeCall
  <2>1. pc = "ready" /\ pc' = "freeing" /\ cursor' = 0 /\ answer' = answer
    BY <1>4 DEF FreeCall
  <2>2. size \in Nat \ {0} /\ table \in Chains(size)
    BY <2>1 DEF IInv, TypeOK
  <2>3. TypeOK'
    BY <1>1, <2>1, <2>2 DEF IInv, TypeOK, Chains
  <2>4. Drained'
    BY <1>1, <2>1, <2>2 DEF Drained, Chains
  <2> QED
    BY <1>1, <1>2, <2>1, <2>3, <2>4 DEF IInv, NotYetFreed, LoadBounded, Overloaded
<1>5. CASE UNCHANGED vars
  BY <1>1, <1>2, <1>5
     DEF vars, IInv, TypeOK, Chains, Drained, NotYetFreed, LoadBounded, Overloaded
<1> QED
  BY <1>3, <1>4, <1>5

\* Freeing the bucket array preserves the invariant.
LEMMA FreeDoneIInv ==
  ASSUME IInv, FreeDone
  PROVE  IInv'
<1>1. /\ pc = "freeing" /\ cursor = size /\ table' = <<>> /\ pc' = "freed"
      /\ UNCHANGED <<entries, size, count, newTable, cursor, freed, answer>>
      /\ Ids' = Ids
  BY DEF FreeDone, Ids
<1>2. newTable = <<>>
  BY <1>1 DEF IInv, TypeOK
<1>3. \A e : ~On(e, table)
  BY <1>1, AllDrained
<1>4. TypeOK'
  BY <1>1 DEF IInv, TypeOK
<1>5. EntriesAtHome'
  BY <1>1, <1>2 DEF EntriesAtHome, AtHome
<1>6. EntriesNotShared'
  BY <1>1, <1>2 DEF IInv, EntriesNotShared, NoRepeat, On, Freed
<1>7. NothingLost'
  <2>1. \A e : ~On(e, newTable)
    BY <1>2 DEF On
  <2>2. \A e \in Ids : Freed(e)
    BY <1>3, <2>1 DEF IInv, NothingLost
  <2> QED
    BY <1>1, <2>2 DEF NothingLost, Freed
<1>8. Drained' /\ NotYetFreed' /\ LoadBounded'
  BY <1>1 DEF IInv, Drained, NotYetFreed, LoadBounded, Overloaded
<1> QED
  BY <1>4, <1>5, <1>6, <1>7, <1>8 DEF IInv

-----------------------------------------------------------------------------

\* Every step preserves the invariant.
LEMMA NextIInv == IInv /\ [Next]_vars => IInv'
<1> SUFFICES ASSUME IInv, [Next]_vars PROVE IInv'
  OBVIOUS
<1>1. CASE \E k \in Keys, v \in Values : Insert(k, v)
  BY <1>1, InsertIInv
<1>2. CASE \E k \in Keys : LookupCall(k)
  BY <1>2, QuietIInv
<1>3. CASE FreeCall
  BY <1>3, QuietIInv
<1>4. CASE RehashEntry
  BY <1>4, RehashEntryIInv
<1>5. CASE RehashNextBucket
  BY <1>5, NextBucketIInv
<1>6. CASE RehashDone
  BY <1>6, RehashDoneIInv
<1>7. CASE FreeEntry
  BY <1>7, FreeEntryIInv
<1>8. CASE FreeNextBucket
  BY <1>8, NextBucketIInv
<1>9. CASE FreeDone
  BY <1>9, FreeDoneIInv
<1>10. CASE Stopped \/ UNCHANGED vars
  BY <1>10, QuietIInv DEF Stopped
<1> QED
  BY <1>1, <1>2, <1>3, <1>4, <1>5, <1>6, <1>7, <1>8, <1>9, <1>10 DEF Next, Internal

\* The table is intact in every reachable state, in the middle of a rehash
\* and of freeSymbolTable too (test.y:72-168).
THEOREM TableIntact == Spec => []IInv
<1> QED
  BY InitIInv, NextIInv, PTL DEF Spec

\* Sizes, counters, chains and the loop variable stay what they are for
\* (test.y:56-94).
THEOREM TypeCorrect == Spec => []TypeOK
<1>1. IInv => TypeOK
  BY DEF IInv
<1> QED
  BY TableIntact, <1>1, PTL

\* However the names collide and however often the table doubles, an entry
\* is on the chain lookup searches for its key (test.y:121-138, 143-153).
THEOREM EntriesStayAtHome == Spec => []EntriesAtHome
<1>1. IInv => EntriesAtHome
  BY DEF IInv
<1> QED
  BY TableIntact, <1>1, PTL

\* No entry is freed twice, or on a chain after it was freed
\* (test.y:122-131, 156-168).
THEOREM EntriesStayUnshared == Spec => []EntriesNotShared
<1>1. IInv => EntriesNotShared
  BY DEF IInv
<1> QED
  BY TableIntact, <1>1, PTL

\* No entry is leaked: each is on a chain until it is freed
\* (test.y:122-137, 156-168).
THEOREM NothingIsLost == Spec => []NothingLost
<1>1. IInv => NothingLost
  BY DEF IInv
<1> QED
  BY TableIntact, <1>1, PTL

\* One doubling always is enough, whatever the initial size: the test for
\* the load factor need not be a loop (test.y:117-139).
THEOREM LoadStaysBounded == Spec => []LoadBounded
<1>1. IInv => LoadBounded
  BY DEF IInv
<1> QED
  BY TableIntact, <1>1, PTL
-----------------------------------------------------------------------------

\* A step of the table is a binding, a lookup or nothing to its caller.
LEMMA StepRefines == IInv /\ [Next]_vars => [Map!MapNext]_(Map!mapVars)
<1> SUFFICES ASSUME IInv, [Next]_vars
             PROVE  Map!MapNext \/ UNCHANGED <<entries, answer>>
  BY DEF Map!mapVars
<1>1. CASE \E k \in Keys, v \in Values : Insert(k, v)
  <2>1. PICK k \in Keys, v \in Values : Insert(k, v)
    BY <1>1
  <2>2. Map!Bind(k, v)
    BY <2>1 DEF Insert, Link, Map!Bind
  <2> QED
    BY <2>2 DEF Map!MapNext
<1>2. CASE \E k \in Keys : LookupCall(k)
  <2>1. PICK k \in Keys : LookupCall(k)
    BY <1>2
  <2>2. /\ pc = "ready" /\ entries' = entries
        /\ answer' = [key |-> k, value |-> Lookup(k)]
    BY <2>1 DEF LookupCall
  <2>3. Map!Ask(k)
    BY <2>2, LookupFinds DEF Map!Ask
  <2> QED
    BY <2>3 DEF Map!MapNext
<1>3. CASE FreeCall \/ Internal \/ Stopped \/ UNCHANGED vars
  BY <1>3 DEF FreeCall, Internal, Stopped, vars, RehashEntry, RehashNextBucket,
              RehashDone, FreeEntry, FreeNextBucket, FreeDone
<1> QED
  BY <1>1, <1>2, <1>3 DEF Next

\* Whatever the hash function and the sizes, lookup answers from the
\* assignments made so far: a value assigned to that name, and NULL exactly
\* when there is none (test.y:97-113, 143-153).
THEOREM TableImplementsMap == Spec => ImplementsMap
<1>1. Init => Map!MapInit
  BY DEF Init, Map!MapInit, Map!NoAnswer
<1> QED
  BY <1>1, InitIInv, NextIInv, StepRefines, PTL
     DEF Spec, ImplementsMap, Map!MapSpec

-----------------------------------------------------------------------------

\* Linking a second entry for a name behind the first does not change what
\* lookup finds for any name that already has a value.
LEMMA InsertKeepsLookup ==
  ASSUME IInv, NEW key \in Keys, NEW val \in Values, Insert(key, val),
         NEW k \in Keys, Lookup(k) # NULL
  PROVE  Lookup(k)' = Lookup(k)
<1> DEFINE new == Len(entries) + 1
           index == myHash(key, size)
           home == myHash(k, size)
           rec == [key |-> key, value |-> val]
           first == Min(Hits(k))
           firstNow == Min(Hits(k)')
<1>1. /\ size \in Nat \ {0} /\ table \in Chains(size) /\ pc = "ready"
      /\ entries \in Seq([key : Keys, value : Values])
      /\ size' = size
      /\ index \in 0..(size - 1) /\ home \in 0..(size - 1)
      /\ table[home] \in Seq(Ids) /\ table[index] \in Seq(Ids)
  BY HashInRange DEF Insert, IInv, TypeOK, Chains
<1>2. /\ entries' = Append(entries, rec)
      /\ table' = [table EXCEPT ![index] = Append(@, new)]
  BY DEF Insert, Link
<1>3. \A i \in Ids : entries'[i] = entries[i]
  BY <1>1, <1>2, AppendFacts, LenProperties DEF Ids
<1>4. /\ DOMAIN table[home] = 1..Len(table[home]) /\ Len(table[home]) \in Nat
      /\ \A j \in DOMAIN table[home] : table[home][j] \in Ids
  BY <1>1, LenProperties, ElementOfSeq
<1>5. /\ DOMAIN table[home] \subseteq DOMAIN table'[home]
      /\ DOMAIN table'[home] \subseteq DOMAIN table[home] \cup {Len(table[home]) + 1}
      /\ \A j \in DOMAIN table[home] : table'[home][j] = table[home][j]
  <2>1. CASE home = index
    <3>1. table'[home] = Append(table[home], new)
      BY <2>1, <1>1, <1>2 DEF Chains
    <3> HIDE DEF home, new
    <3> QED
      BY <3>1, <1>1, AppendFacts
  <2>2. CASE home # index
    BY <2>2, <1>1, <1>2 DEF Chains
  <2> QED
    BY <2>1, <2>2
<1>6. home' = home
  BY <1>1 DEF myHash
<1>7. Hits(k) \subseteq Hits(k)' /\ Hits(k) \in SUBSET Nat /\ Hits(k)' \in SUBSET Nat
  BY <1>1, <1>3, <1>4, <1>5, <1>6 DEF Hits, myHash
<1>8. Hits(k) # {} /\ Hits(k)' # {}
  BY <1>7 DEF Lookup
<1>9. \A i \in Hits(k)' : i \in Hits(k) \/ \A j \in Hits(k) : j < i
  <2> SUFFICES ASSUME NEW i \in Hits(k)', i \notin Hits(k), NEW j \in Hits(k)
               PROVE  j < i
    OBVIOUS
  <2>1. i \in DOMAIN table'[home] /\ entries'[table'[home][i]].key = k
    BY <1>1, <1>6 DEF Hits, myHash
  <2>2. i \notin DOMAIN table[home]
    BY <2>1, <1>3, <1>4, <1>5 DEF Hits
  <2>3. i = Len(table[home]) + 1 /\ j \in DOMAIN table[home]
    BY <2>1, <2>2, <1>5 DEF Hits
  <2> QED
    BY <2>3, <1>4
<1>10. first \in Hits(k) /\ \A j \in Hits(k) : first <= j
  BY <1>7, <1>8, MinIsFirst
<1>11. firstNow \in Hits(k)' /\ \A j \in Hits(k)' : firstNow <= j
  BY <1>7, <1>8, MinIsFirst
<1>12. firstNow = first
  <2> HIDE DEF first, firstNow
  <2>1. firstNow <= first /\ first \in Nat /\ firstNow \in Nat
    BY <1>7, <1>10, <1>11
  <2>2. firstNow \in Hits(k)
    BY <2>1, <1>9, <1>10, <1>11
  <2> QED
    BY <2>1, <2>2, <1>10
<1>13. Lookup(k) = entries[table[home][first]].value
  BY <1>8 DEF Lookup
<1>14. Lookup(k)' = entries'[table'[home][firstNow]].value
  BY <1>6, <1>8, <1>1 DEF Lookup, myHash
<1>15. first \in DOMAIN table[home]
  BY <1>10 DEF Hits
<1> QED
  BY <1>3, <1>4, <1>5, <1>12, <1>13, <1>14, <1>15

\* A value assigned to a name that already has one stays invisible until
\* the table grows (test.y:106-112).
THEOREM ReassignmentStaysUnseen == Spec => ReassignmentUnseen
<1> DEFINE Kept == pc = "ready" /\ pc' = "ready" =>
                     \A k \in Keys : Lookup(k) # NULL => Lookup(k)' = Lookup(k)
<1>1. IInv /\ [Next]_vars => [Kept]_vars
  <2> SUFFICES ASSUME IInv, [Next]_vars, pc = "ready", pc' = "ready",
                      NEW k \in Keys, Lookup(k) # NULL
               PROVE  Lookup(k)' = Lookup(k)
    OBVIOUS
  <2>1. CASE \E x \in Keys, v \in Values : Insert(x, v)
    BY <2>1, InsertKeepsLookup
  <2>2. CASE UNCHANGED <<entries, table, size>>
    <3>1. Hits(k)' = Hits(k) /\ myHash(k, size)' = myHash(k, size)
      BY <2>2 DEF Hits, myHash
    <3> QED
      BY <2>2, <3>1 DEF Lookup
  <2>3. (\E x \in Keys : LookupCall(x)) \/ FreeCall \/ Stopped \/ UNCHANGED vars
          => UNCHANGED <<entries, table, size>>
    BY DEF LookupCall, FreeCall, Stopped, vars
  <2>4. ~Internal
    BY DEF Internal, RehashEntry, RehashNextBucket, RehashDone, FreeEntry,
           FreeNextBucket, FreeDone
  <2> QED
    BY <2>1, <2>2, <2>3, <2>4 DEF Next
<1> QED
  BY <1>1, InitIInv, NextIInv, PTL DEF Spec, ReassignmentUnseen

-----------------------------------------------------------------------------

\* The entries a loop over the table has not moved or freed.
OnTable == {e \in Ids : On(e, table)}

\* A bound of the turns the loop at hand has left, of rehash or of
\* freeSymbolTable (test.y:121-138, 156-168).
Turns ==
  IF pc \in {"rehash", "freeing"} THEN 1 + (size - cursor) + Cardinality(OnTable) ELSE 0

\* There are no more entries on the chains than were allocated.
LEMMA OnTableFinite ==
  ASSUME IInv
  PROVE  /\ IsFiniteSet(OnTable) /\ Cardinality(OnTable) \in Nat
         /\ Cardinality(OnTable) <= Len(entries) /\ Len(entries) \in Nat
<1>1. Len(entries) \in Nat
  BY LenProperties DEF IInv, TypeOK
<1>2. IsFiniteSet(Ids) /\ Cardinality(Ids) = Len(entries)
  <2>1. IsFiniteSet(1..Len(entries)) /\ Cardinality(1..Len(entries)) = Len(entries)
    BY <1>1, FS_Interval
  <2> QED
    BY <2>1 DEF Ids
<1>3. OnTable \in SUBSET Ids
  BY DEF OnTable
<1>4. IsFiniteSet(OnTable) /\ Cardinality(OnTable) <= Cardinality(Ids)
  BY <1>2, <1>3, FS_Subset
<1> QED
  BY <1>1, <1>2, <1>4, FS_CardinalityType

\* A turn takes an entry off the chains, passes a bucket or ends the loop.
LEMMA TurnShrinks ==
  ASSUME IInv, Internal
  PROVE  Turns' < Turns
<1> DEFINE head == Head(table[cursor])
<1>1. /\ IsFiniteSet(OnTable) /\ Cardinality(OnTable) \in Nat
      /\ size \in Nat /\ cursor \in 0..size
  BY OnTableFinite DEF IInv, TypeOK
<1>2. CASE RehashEntry \/ FreeEntry
  <2>1. /\ pc \in {"rehash", "freeing"} /\ cursor < size /\ table[cursor] # <<>>
        /\ table' = [table EXCEPT ![cursor] = Tail(@)]
        /\ UNCHANGED <<entries, size, cursor, pc>>
    BY <1>2 DEF RehashEntry, FreeEntry
  <2>2. /\ head \in Ids /\ On(head, table) /\ ~On(head, table')
        /\ \A e : On(e, table') => On(e, table)
        /\ \A e : On(e, table) => On(e, table') \/ e = head
    BY <2>1, TakeHead
  <2>3. OnTable' = OnTable \ {head} /\ head \in OnTable
    BY <2>1, <2>2 DEF OnTable, Ids
  <2>4. Cardinality(OnTable') = Cardinality(OnTable) - 1
    BY <1>1, <2>3, FS_RemoveElement
  <2> QED
    BY <1>1, <2>1, <2>4 DEF Turns
<1>3. CASE RehashNextBucket \/ FreeNextBucket
  <2>1. /\ pc \in {"rehash", "freeing"} /\ cursor' = cursor + 1
        /\ UNCHANGED <<entries, table, size, pc>>
    BY <1>3 DEF RehashNextBucket, FreeNextBucket
  <2>2. OnTable' = OnTable
    BY <2>1 DEF OnTable, Ids, On
  <2> QED
    BY <1>1, <2>1, <2>2 DEF Turns
<1>4. CASE RehashDone \/ FreeDone
  BY <1>1, <1>4 DEF RehashDone, FreeDone, Turns
<1> QED
  BY <1>2, <1>3, <1>4 DEF Internal

\* Why insert and freeSymbolTable return, for any number of entries: each turn
\* of the loops of rehash and freeSymbolTable makes Turns smaller, and there
\* are never more to come than buckets and entries together, and one. A rehash
\* that pushed an entry on a chain it was still to visit would not come nearer
\* to its end (test.y:121-138, 156-168).
THEOREM LoopsShrink ==
  Spec => /\ [](Turns \in Nat /\ Turns <= 1 + size + Len(entries))
          /\ [][Internal => Turns' < Turns]_vars
<1>1. IInv => Turns \in Nat /\ Turns <= 1 + size + Len(entries)
  BY OnTableFinite DEF IInv, TypeOK, Turns
<1>2. IInv /\ [Next]_vars => [Internal => Turns' < Turns]_vars
  BY TurnShrinks
<1> QED
  BY TableIntact, <1>1, <1>2, PTL DEF Spec
=============================================================================
