----------------------- MODULE SymbolTableHeapProofs -----------------------
(***************************************************************************)
(* The pointers of SymbolTableHeap form disjoint chains that end, for any  *)
(* names, any hash function, any initial size and any number of insertions. *)
(* The invariant names the chains: the old table's, as far as the loops    *)
(* have not passed them, and those of the table being filled.              *)
(***************************************************************************)
EXTENDS SymbolTableHeap, SequenceTheorems, FiniteSetTheorems, WellFoundedInduction, TLAPS

\* The pointer to the j-th entry of a chain; the last next field is null.
Nth(c, j) == IF j \in 1..Len(c) THEN c[j] ELSE Nil

\* The pointer p begins the chain c.
Linked(c, p) ==
  /\ p = Nth(c, 1)
  /\ \A j \in 1..Len(c) : next[c[j]] = Nth(c, j + 1)

\* Where the chain of a bucket of the old table begins, as the loops of
\* insert and freeSymbolTable see it.
First(b) ==
  IF pc \in {"move", "chain"} /\ b = i THEN current
  ELSE IF pc \in {"rehash", "free", "move", "chain"} /\ b < i THEN Nil
  ELSE table[b]

Entry == [key : Keys, value : Values]
Buckets(s) == 0..(s - 1)

Types ==
  /\ entries \in Seq(Entry)
  /\ next \in Seq(Nat) /\ Len(next) = Len(entries)
  /\ size \in Nat \ {0}
  /\ count \in Nat
  /\ i \in 0..size
  /\ pc \in {"move", "chain"} => i < size
  /\ freed \in Seq(Ids)
  /\ freed # <<>> => pc \in {"free", "chain", "freed"}
  /\ pc = "search" => key \in Keys
  /\ pc \in {"append", "count"} => entries # <<>> /\ Len(entries) - 1 < MaxInserts
  /\ IF pc = "freed" THEN table = <<>> ELSE table \in [Buckets(size) -> Nat]
  /\ IF pc \in {"rehash", "move"} THEN newTable \in [Buckets(2 * size) -> Nat]
     ELSE newTable = <<>>
  /\ pc \in {"ready", "append", "count", "rehash", "move", "search", "free", "chain", "freed"}

\* T and W are the chains of the two tables.
Shape(T, W) ==
  /\ T \in [DOMAIN table -> Seq(Ids)]
  /\ W \in [DOMAIN newTable -> Seq(Ids)]
  /\ \A b \in DOMAIN table : Linked(T[b], First(b))
  /\ \A b \in DOMAIN newTable : Linked(W[b], newTable[b])

\* No entry is on them twice.
Unshared(T) ==
  \A b, d \in DOMAIN T : \A j \in DOMAIN T[b], k \in DOMAIN T[d] :
    T[b][j] = T[d][k] => b = d /\ j = k

Apart(T, W) ==
  /\ Unshared(T) /\ Unshared(W)
  /\ \A b \in DOMAIN T, d \in DOMAIN W : \A j \in DOMAIN T[b], k \in DOMAIN W[d] :
       T[b][j] # W[d][k]
  /\ \A b \in DOMAIN T : \A j \in DOMAIN T[b], k \in DOMAIN freed : T[b][j] # freed[k]

\* Where insert and lookup are on a chain.
Place(T) ==
  /\ pc = "append" =>
       LET h == myHash(entries[Newest].key, size)
       IN  /\ next[Newest] = Nil
           /\ \A b \in DOMAIN T : \A j \in DOMAIN T[b] : T[b][j] # Newest
           /\ \E j \in DOMAIN T[h] : T[h][j] = current
  /\ pc = "count" =>
       LET h == myHash(entries[Newest].key, size)
       IN  T[h] # <<>> /\ T[h][Len(T[h])] = Newest
  /\ pc = "search" =>
       LET c == T[myHash(key, size)]
       IN  \E n \in 1..(Len(c) + 1) :
             current = Nth(c, n) /\ \A j \in 1..(n - 1) : entries[c[j]].key # key

Chained(T, W) == Types /\ Shape(T, W) /\ Apart(T, W) /\ Place(T)

IInv == \E T, W : Chained(T, W)

-----------------------------------------------------------------------------

\* A nonempty set of positions has a first one.
LEMMA LeastOf ==
  ASSUME NEW P \in SUBSET Nat, P # {}
  PROVE  \E n \in P : \A m \in P : n <= m
<1>1. PICK n \in P : \A m \in P : <<m, n>> \notin OpToRel(<, Nat)
  BY NatLessThanWellFounded, WFMin
<1>2. ASSUME NEW m \in P PROVE n <= m
  <2>1. n \in Nat /\ m \in Nat
    OBVIOUS
  <2>2. ~(m < n)
    BY <1>1, <2>1 DEF OpToRel
  <2> QED
    BY <2>1, <2>2
<1> QED
  BY <1>2

\* A chain without a repetition is no longer than the list of entries.
LEMMA NoLonger ==
  ASSUME NEW N \in Nat, NEW c \in Seq(1..N),
         \A j, k \in DOMAIN c : c[j] = c[k] => j = k
  PROVE  Len(c) <= N
<1>1. Len(c) \in Nat /\ c \in [1..Len(c) -> 1..N]
  BY LenProperties
<1>2. c \in Injection(1..Len(c), 1..N)
  BY <1>1 DEF Injection, IsInjective
<1>3. IsFiniteSet(1..N) /\ Cardinality(1..N) = N /\ Cardinality(1..Len(c)) = Len(c)
  <2>1. ASSUME NEW n \in Nat PROVE IsFiniteSet(1..n) /\ Cardinality(1..n) = n
    <3>1. 1 \in Int /\ n \in Int
      OBVIOUS
    <3>2. IsFiniteSet(1..n) /\ Cardinality(1..n) = IF 1 > n THEN 0 ELSE n - 1 + 1
      BY <3>1, FS_Interval
    <3> QED
      BY <3>2
  <2> QED
    BY <1>1, <2>1
<1>4. Cardinality(1..Len(c)) <= Cardinality(1..N)
  BY <1>2, <1>3, FS_Injection
<1> QED
  BY <1>3, <1>4

\* The pointers reached from the first one are those of the chain, and then
\* null (test.y:107, 124, 147 and 159).
LEMMA ReachedOnChain ==
  ASSUME NEW N, N = Len(entries), N \in Nat, NEW c \in Seq(1..N), NEW p, Linked(c, p),
         Len(c) <= N
  PROVE  /\ DOMAIN Reached(p) = 0..N
         /\ \A n \in 0..N : Reached(p)[n] = Nth(c, n + 1)
<1> DEFINE G(f) == [n \in 0..N |-> IF n = 0 THEN p
                                  ELSE IF f[n - 1] = Nil THEN Nil ELSE next[f[n - 1]]]
           f0 == [n \in 0..N |-> Nth(c, n + 1)]
           w == Reached(p)
<1>0. Len(c) \in Nat /\ \A j \in 1..Len(c) : c[j] \in 1..N
  BY LenProperties, ElementOfSeq
<1>1. \A n \in 1..N : Nth(c, n + 1) = IF Nth(c, n) = Nil THEN Nil ELSE next[Nth(c, n)]
  <2> SUFFICES ASSUME NEW n \in 1..N
               PROVE  Nth(c, n + 1) = IF Nth(c, n) = Nil THEN Nil ELSE next[Nth(c, n)]
    OBVIOUS
  <2>1. CASE n \in 1..Len(c)
    <3>1. Nth(c, n) = c[n] /\ c[n] # Nil
      BY <1>0, <2>1 DEF Nth, Nil
    <3>2. next[c[n]] = Nth(c, n + 1)
      BY <2>1 DEF Linked
    <3> QED
      BY <3>1, <3>2
  <2>2. CASE n \notin 1..Len(c)
    BY <1>0, <2>2 DEF Nth
  <2> QED
    BY <2>1, <2>2
<1>2. f0 = G(f0)
  <2>1. \A n \in 0..N : f0[n] = G(f0)[n]
    <3> SUFFICES ASSUME NEW n \in 0..N PROVE f0[n] = G(f0)[n]
      OBVIOUS
    <3>1. CASE n = 0
      BY <3>1 DEF Linked
    <3>2. CASE n # 0
      <4>1. n \in 1..N /\ n - 1 \in 0..N /\ (n - 1) + 1 = n
        BY <3>2
      <4>2. f0[n - 1] = Nth(c, n)
        BY <4>1
      <4>3. f0[n] = Nth(c, n + 1)
        OBVIOUS
      <4>4. G(f0)[n] = IF f0[n - 1] = Nil THEN Nil ELSE next[f0[n - 1]]
        BY <3>2
      <4> QED
        BY <1>1, <4>1, <4>2, <4>3, <4>4
    <3> QED
      BY <3>1, <3>2
  <2> QED
    BY <2>1
<1>3. w = G(w)
  <2>1. w = CHOOSE f : f = G(f)
    BY DEF Reached
  <2> HIDE DEF w, G, f0
  <2> QED
    BY <1>2, <2>1, Zenon
<1> HIDE DEF w
<1>4. /\ DOMAIN w = 0..N /\ w[0] = p
      /\ \A n \in 1..N : w[n] = IF w[n - 1] = Nil THEN Nil ELSE next[w[n - 1]]
  <2>1. \A n \in 0..N : G(w)[n] = IF n = 0 THEN p
                                  ELSE IF w[n - 1] = Nil THEN Nil ELSE next[w[n - 1]]
    OBVIOUS
  <2>2. DOMAIN G(w) = 0..N
    OBVIOUS
  <2> HIDE DEF G
  <2> QED
    BY <1>3, <2>1, <2>2
<1>5. \A n \in 0..N : w[n] = Nth(c, n + 1)
  <2> DEFINE Bad == {n \in 0..N : w[n] # Nth(c, n + 1)}
  <2> SUFFICES ASSUME Bad # {} PROVE FALSE
    OBVIOUS
  <2>1. Bad \in SUBSET Nat
    OBVIOUS
  <2>2. PICK n \in Bad : \A m \in Bad : n <= m
    BY <2>1, LeastOf
  <2>3. n # 0
    BY <1>4, <2>2 DEF Linked
  <2>4. n \in 1..N /\ n - 1 \in 0..N /\ ~(n <= n - 1) /\ (n - 1) + 1 = n
    BY <2>2, <2>3
  <2>5. w[n - 1] = Nth(c, n)
    BY <2>2, <2>4
  <2> QED
    BY <1>1, <1>4, <2>2, <2>4, <2>5
<1> QED
  BY <1>4, <1>5 DEF w

\* A chain ends, and Chain finds it.
LEMMA ChainFound ==
  ASSUME NEW N, N = Len(entries), N \in Nat, NEW c \in Seq(1..N), NEW p, Linked(c, p),
         Len(c) <= N
  PROVE  Ends(p) /\ Chain(p) = c
<1> DEFINE w == Reached(p)
           S == {n \in DOMAIN w : w[n] = Nil}
<1>1. /\ DOMAIN w = 0..N
      /\ \A n \in 0..N : w[n] = Nth(c, n + 1)
  BY ReachedOnChain
<1>0. Len(c) \in Nat /\ c \in [1..Len(c) -> 1..N] /\ \A j \in 1..Len(c) : c[j] \in 1..N
  BY LenProperties, ElementOfSeq
<1> HIDE DEF w
<1>2. \A n \in 0..N : w[n] = Nil <=> n >= Len(c)
  BY <1>0, <1>1 DEF Nth, Nil
<1>3. S = Len(c)..N
  BY <1>0, <1>1, <1>2
<1>4. Min(S) = Len(c)
  <2>1. Len(c) \in S /\ \A n \in S : Len(c) <= n
    BY <1>0, <1>3
  <2>2. S \subseteq Nat
    BY <1>0, <1>3
  <2> HIDE DEF S
  <2>3. Min(S) \in S /\ \A n \in S : Min(S) <= n
    BY <2>1 DEF Min
  <2>4. Min(S) \in Nat /\ Len(c) \in Nat /\ Min(S) <= Len(c) /\ Len(c) <= Min(S)
    BY <1>0, <2>1, <2>2, <2>3
  <2> QED
    BY <2>4
<1>5. Chain(p) = [j \in 1..Min(S) |-> w[j - 1]]
  BY DEF Chain, w
<1>6. Chain(p) = [j \in 1..Len(c) |-> w[j - 1]]
  BY <1>4, <1>5
<1>7. \A j \in 1..Len(c) : w[j - 1] = c[j]
  <2> SUFFICES ASSUME NEW j \in 1..Len(c) PROVE w[j - 1] = c[j]
    OBVIOUS
  <2>1. j - 1 \in 0..N /\ (j - 1) + 1 = j
    BY <1>0
  <2> QED
    BY <1>1, <2>1 DEF Nth
<1>8. [j \in 1..Len(c) |-> w[j - 1]] = c
  BY <1>0, <1>7
<1>9. Ends(p)
  BY <1>0, <1>2, Len(c) \in 0..N DEF Ends, w
<1> QED
  BY <1>6, <1>8, <1>9

-----------------------------------------------------------------------------

\* myHash names a bucket of the table it is given the size of (test.y:85-95).
LEMMA HashInRange ==
  ASSUME NEW k \in Keys, NEW s \in Nat \ {0}
  PROVE  myHash(k, s) \in Buckets(s)
<1>1. Hash[k] \in Nat
  BY HeapAssumption
<1>2. Hash[k] % s \in 0..(s - 1)
  BY <1>1
<1> QED
  BY <1>2 DEF myHash, Buckets

\* What is on the chains are entries, by number.
LEMMA OnChains ==
  ASSUME NEW T, NEW W, Chained(T, W)
  PROVE  /\ Len(entries) \in Nat /\ Ids = 1..Len(entries) /\ DOMAIN entries = Ids
         /\ DOMAIN next = Ids /\ \A e \in Ids : next[e] \in Nat
         /\ \A e \in Ids : entries[e] \in Entry
         /\ DOMAIN T = DOMAIN table /\ DOMAIN W = DOMAIN newTable
         /\ \A b \in DOMAIN T : /\ T[b] \in Seq(Ids) /\ Len(T[b]) \in Nat
                               /\ DOMAIN T[b] = 1..Len(T[b])
                               /\ \A j \in 1..Len(T[b]) : T[b][j] \in Ids
         /\ \A b \in DOMAIN W : /\ W[b] \in Seq(Ids) /\ Len(W[b]) \in Nat
                               /\ DOMAIN W[b] = 1..Len(W[b])
                               /\ \A j \in 1..Len(W[b]) : W[b][j] \in Ids
<1>1. /\ entries \in Seq(Entry) /\ next \in Seq(Nat) /\ Len(next) = Len(entries)
  BY DEF Chained, Types
<1>2. /\ Len(entries) \in Nat /\ Ids = 1..Len(entries) /\ DOMAIN entries = Ids
      /\ DOMAIN next = Ids
  BY <1>1, LenProperties DEF Ids
<1>3. \A e \in Ids : next[e] \in Nat /\ entries[e] \in Entry
  BY <1>1, <1>2, ElementOfSeq
<1>4. T \in [DOMAIN table -> Seq(Ids)] /\ W \in [DOMAIN newTable -> Seq(Ids)]
  BY DEF Chained, Shape
<1>5. ASSUME NEW c \in Seq(Ids)
      PROVE  Len(c) \in Nat /\ DOMAIN c = 1..Len(c) /\ \A j \in 1..Len(c) : c[j] \in Ids
  BY LenProperties, ElementOfSeq
<1> QED
  BY <1>2, <1>3, <1>4, <1>5

\* The bucket of the entry being inserted (test.y:97-101).
LEMMA NewestHome ==
  ASSUME NEW T, NEW W, Chained(T, W), pc \in {"append", "count"}
  PROVE  /\ Newest \in Ids /\ Newest = Len(entries)
         /\ entries[Newest].key \in Keys /\ entries[Newest].value \in Values
         /\ myHash(entries[Newest].key, size) \in DOMAIN table
         /\ DOMAIN table = Buckets(size)
<1>1. entries # <<>> /\ entries \in Seq(Entry) /\ size \in Nat \ {0}
  BY DEF Chained, Types
<1>2. Newest \in Ids /\ Newest = Len(entries)
  BY <1>1, EmptySeq DEF Newest, Ids
<1>3. entries[Newest] \in Entry
  BY <1>2, OnChains
<1>4. entries[Newest].key \in Keys /\ entries[Newest].value \in Values
  BY <1>3 DEF Entry
<1>5. DOMAIN table = Buckets(size)
  BY DEF Chained, Types
<1> QED
  BY <1>1, <1>2, <1>4, <1>5, HashInRange

\* Steps that leave the entries, the tables and the chains alone.
LEMMA QuietHolds ==
  ASSUME NEW T, NEW W, Chained(T, W), UNCHANGED <<entries, next, table, size, newTable, freed>>,
         Types', Place(T)', \A b \in DOMAIN table : First(b)' = First(b)
  PROVE  Chained(T, W)'
<1>1. Shape(T, W)'
  <2>1. Shape(T, W)
    BY DEF Chained
  <2>2. Ids' = Ids
    BY DEF Ids
  <2>3. \A b \in DOMAIN table : Linked(T[b], First(b))'
    BY <2>1 DEF Shape, Linked
  <2>4. \A b \in DOMAIN newTable : Linked(W[b], newTable[b])'
    BY <2>1 DEF Shape, Linked
  <2> QED
    BY <2>1, <2>2, <2>3, <2>4 DEF Shape
<1>2. Apart(T, W)'
  BY DEF Chained, Apart, Unshared
<1> QED
  BY <1>1, <1>2 DEF Chained

\* while (current->next != NULL) current = current->next (test.y:106-109)
LEMMA AppendWalkHolds ==
  ASSUME NEW T, NEW W, Chained(T, W), AppendWalk
  PROVE  Chained(T, W)'
<1> DEFINE h == myHash(entries[Newest].key, size)
<1>1. /\ pc = "append" /\ pc' = pc /\ next[current] # Nil /\ current' = next[current]
      /\ UNCHANGED <<entries, next, table, size, count, newTable, i, key, freed, answer>>
  BY DEF AppendWalk
<1>2. Types'
  BY <1>1 DEF Chained, Types, Ids
<1>3. Place(T)'
  <2>1. /\ next[Newest] = Nil
        /\ \A b \in DOMAIN T : \A j \in DOMAIN T[b] : T[b][j] # Newest
    BY <1>1 DEF Chained, Place
  <2>2. PICK j \in DOMAIN T[h] : T[h][j] = current
    BY <1>1 DEF Chained, Place
  <2>3. h \in DOMAIN table /\ h \in DOMAIN T
    BY <1>1, NewestHome, OnChains
  <2>4. Linked(T[h], First(h))
    BY <2>3 DEF Chained, Shape
  <2>5. DOMAIN T[h] = 1..Len(T[h]) /\ Len(T[h]) \in Nat
    BY <2>3, OnChains
  <2>6. current' = Nth(T[h], j + 1)
    BY <1>1, <2>2, <2>4, <2>5 DEF Linked
  <2>7. j + 1 \in DOMAIN T[h] /\ T[h][j + 1] = current'
    BY <1>1, <2>2, <2>5, <2>6 DEF Nth
  <2>8. h' = h /\ Newest' = Newest
    BY <1>1 DEF myHash, Newest
  <2> HIDE DEF h
  <2>9. \E l \in DOMAIN T[h'] : T[h'][l] = current'
    BY <2>7, <2>8
  <2> USE DEF h
  <2> QED
    BY <1>1, <2>1, <2>8, <2>9 DEF Place
<1>4. \A b \in DOMAIN table : First(b)' = First(b)
  BY <1>1 DEF First
<1> QED
  BY <1>1, <1>2, <1>3, <1>4, QuietHolds

\* The calls and the steps of the loops from bucket to bucket
\* (test.y:119-122, 131, 143-149, 156-168).
LEMMA LoopHolds ==
  ASSUME NEW T, NEW W, Chained(T, W),
         RehashBucket \/ RehashNextBucket \/ FreeCall \/ FreeBucket \/ FreeNextBucket
  PROVE  Chained(T, W)'
<1>1. /\ UNCHANGED <<entries, next, table, size, count, newTable, key, freed, answer>>
      /\ pc' \in {"rehash", "move", "free", "chain"}
  BY DEF RehashBucket, RehashNextBucket, FreeCall, FreeBucket, FreeNextBucket
<1>2. Types'
  <2>1. Types
    BY DEF Chained
  <2>2. i' \in 0..size /\ (pc' \in {"move", "chain"} => i' < size)
    <3>1. i \in 0..size /\ size \in Nat \ {0} /\ (pc \in {"move", "chain"} => i < size)
      BY <2>1 DEF Types
    <3>2. CASE RehashBucket \/ FreeBucket
      BY <3>1, <3>2 DEF RehashBucket, FreeBucket
    <3>3. CASE RehashNextBucket \/ FreeNextBucket
      BY <3>1, <3>3 DEF RehashNextBucket, FreeNextBucket
    <3>4. CASE FreeCall
      BY <3>1, <3>4 DEF FreeCall
    <3> QED
      BY <3>2, <3>3, <3>4
  <2>3. /\ (pc = "ready" /\ pc' = "free") \/ (pc = "rehash" /\ pc' = "move")
             \/ (pc = "move" /\ pc' = "rehash") \/ (pc = "free" /\ pc' = "chain")
             \/ (pc = "chain" /\ pc' = "free")
    BY DEF RehashBucket, RehashNextBucket, FreeCall, FreeBucket, FreeNextBucket
  <2> QED
    BY <1>1, <2>1, <2>2, <2>3 DEF Types, Ids
<1>3. Place(T)'
  BY <1>1 DEF Place
<1>4. \A b \in DOMAIN table : First(b)' = First(b)
  <2>1. Types
    BY DEF Chained
  <2> SUFFICES ASSUME NEW b \in DOMAIN table PROVE First(b)' = First(b)
    OBVIOUS
  <2>2. b \in Nat /\ i \in Nat /\ size \in Nat
    <3>1. pc # "freed"
      BY DEF RehashBucket, RehashNextBucket, FreeCall, FreeBucket, FreeNextBucket
    <3>2. i \in 0..size /\ size \in Nat /\ DOMAIN table = 0..(size - 1)
      BY <2>1, <3>1 DEF Types, Buckets
    <3> QED
      BY <3>2
  <2>3. CASE RehashBucket \/ FreeBucket
    BY <2>2, <2>3 DEF RehashBucket, FreeBucket, First
  <2>4. CASE RehashNextBucket \/ FreeNextBucket
    BY <2>2, <2>4 DEF RehashNextBucket, FreeNextBucket, First
  <2>5. CASE FreeCall
    BY <2>2, <2>5 DEF FreeCall, First
  <2> QED
    BY <2>3, <2>4, <2>5
<1> QED
  BY <1>1, <1>2, <1>3, <1>4, QuietHolds

\* lookup has passed over entries with other names (test.y:143-153).
LEMMA LookupHolds ==
  ASSUME NEW T, NEW W, Chained(T, W),
         (\E k \in Keys : LookupCall(k)) \/ LookupNext \/ LookupReturn
  PROVE  Chained(T, W)'
<1>1. UNCHANGED <<entries, next, table, size, count, newTable, i, freed>>
  BY DEF LookupCall, LookupNext, LookupReturn
<1>2. Types /\ DOMAIN table = Buckets(size)
  BY DEF Chained, Types, LookupCall, LookupNext, LookupReturn
<1>3. Types'
  BY <1>1, <1>2 DEF Types, LookupCall, LookupNext, LookupReturn, Ids
<1>4. pc \in {"ready", "search"} /\ pc' \in {"ready", "search"}
  BY DEF LookupCall, LookupNext, LookupReturn
<1>5. \A b \in DOMAIN table : First(b)' = First(b) /\ First(b) = table[b]
  BY <1>1, <1>4 DEF First
<1>6. Place(T)'
  <2>1. CASE LookupReturn
    BY <2>1 DEF LookupReturn, Place
  <2>2. ASSUME NEW k \in Keys, LookupCall(k) PROVE Place(T)'
    <3> DEFINE c == T[myHash(k, size)]
    <3>1. myHash(k, size) \in DOMAIN table
      BY <1>2, HashInRange DEF Types
    <3>2. Linked(c, table[myHash(k, size)])
      BY <3>1, <1>5 DEF Chained, Shape
    <3>3. current' = Nth(c, 1)
      BY <2>2, <3>2 DEF LookupCall, Linked
    <3>4. Len(c) \in Nat
      BY <3>1, OnChains
    <3>5. 1 \in 1..(Len(c) + 1) /\ 1..(1 - 1) = {}
      BY <3>4
    <3>6. key' = k /\ pc' = "search" /\ myHash(key, size)' = myHash(k, size)
      BY <2>2 DEF LookupCall, myHash
    <3> HIDE DEF c
    <3>7. \E n \in 1..(Len(c) + 1) :
             current' = Nth(c, n) /\ \A j \in 1..(n - 1) : entries'[c[j]].key # key'
      BY <3>3, <3>5
    <3> QED
      BY <3>6, <3>7 DEF Place, c
  <2>3. CASE LookupNext
    <3> DEFINE c == T[myHash(key, size)]
    <3>0. pc = "search" /\ current # Nil /\ entries[current].key # key /\ pc' = pc /\ key' = key
          /\ current' = next[current]
      BY <2>3 DEF LookupNext
    <3>1. myHash(key, size) \in DOMAIN table
      BY <1>2, <3>0, HashInRange DEF Types
    <3>2. PICK n \in 1..(Len(c) + 1) :
             current = Nth(c, n) /\ \A j \in 1..(n - 1) : entries[c[j]].key # key
      BY <3>0 DEF Chained, Place
    <3>3. Linked(c, table[myHash(key, size)])
      BY <3>1, <1>5 DEF Chained, Shape
    <3>4. Len(c) \in Nat
      BY <3>1, OnChains
    <3>5. n \in 1..Len(c) /\ current = c[n]
      BY <3>0, <3>2, <3>4 DEF Nth
    <3>6. current' = Nth(c, n + 1)
      BY <3>0, <3>3, <3>5 DEF Linked
    <3>7. n + 1 \in 1..(Len(c) + 1) /\ \A j \in 1..((n + 1) - 1) : entries[c[j]].key # key
      BY <3>0, <3>2, <3>4, <3>5
    <3>8. myHash(key, size)' = myHash(key, size)
      BY <1>1, <3>0 DEF myHash
    <3> HIDE DEF c
    <3>9. \E m \in 1..(Len(c) + 1) :
             current' = Nth(c, m) /\ \A j \in 1..(m - 1) : entries'[c[j]].key # key'
      BY <1>1, <3>0, <3>6, <3>7
    <3> QED
      BY <3>0, <3>8, <3>9 DEF Place, c
  <2> QED
    BY <2>1, <2>2, <2>3
<1> QED
  BY <1>1, <1>3, <1>5, <1>6, QuietHolds

-----------------------------------------------------------------------------
(* Chains that become longer and shorter *)

\* T2 are the chains T with another one in bucket h.
Changed(T, h, c, T2) == T2 = [T EXCEPT ![h] = c]

\* d is the chain c with e behind it, with e in front of it, and without its
\* first entry.
Appended(c, e, d) == d = Append(c, e)
Pushed(c, e, d) == d = <<e>> \o c
Popped(c, d) == d = Tail(c)

\* An entry linked behind the last one of a chain.
LEMMA AppendNth ==
  ASSUME NEW S, NEW c \in Seq(S), NEW e \in S, NEW d, Appended(c, e, d)
  PROVE  /\ d \in Seq(S) /\ Len(d) = Len(c) + 1 /\ Len(c) \in Nat
         /\ DOMAIN d = 1..(Len(c) + 1) /\ DOMAIN c = 1..Len(c)
         /\ \A j \in Nat : Nth(d, j) = IF j = Len(c) + 1 THEN e ELSE Nth(c, j)
         /\ \A j \in DOMAIN d : d[j] = IF j = Len(c) + 1 THEN e ELSE c[j]
<1>2. /\ d \in Seq(S) /\ Len(d) = Len(c) + 1
      /\ \A j \in 1..Len(c) : d[j] = c[j]
      /\ d[Len(c) + 1] = e
  BY AppendProperties DEF Appended
<1>3. Len(c) \in Nat /\ DOMAIN c = 1..Len(c) /\ DOMAIN d = 1..(Len(c) + 1)
  BY <1>2, LenProperties
<1> QED
  BY <1>2, <1>3 DEF Nth

\* An entry linked in front of a chain.
LEMMA PushNth ==
  ASSUME NEW S, NEW c \in Seq(S), NEW e \in S, NEW d, Pushed(c, e, d)
  PROVE  /\ d \in Seq(S) /\ Len(d) = Len(c) + 1 /\ Len(c) \in Nat
         /\ DOMAIN d = 1..(Len(c) + 1) /\ DOMAIN c = 1..Len(c)
         /\ \A j \in Nat \ {0} : Nth(d, j) = IF j = 1 THEN e ELSE Nth(c, j - 1)
         /\ \A j \in DOMAIN d : /\ j = 1 => d[j] = e
                                /\ j # 1 => j - 1 \in DOMAIN c /\ d[j] = c[j - 1]
<1>1. <<e>> \in Seq(S) /\ Len(<<e>>) = 1 /\ <<e>>[1] = e
  OBVIOUS
<1>2. /\ d \in Seq(S) /\ Len(d) = 1 + Len(c)
      /\ \A j \in 1..(1 + Len(c)) : d[j] = IF j <= 1 THEN <<e>>[j] ELSE c[j - 1]
  BY <1>1, ConcatProperties DEF Pushed
<1>3. Len(c) \in Nat /\ DOMAIN c = 1..Len(c) /\ DOMAIN d = 1..(Len(c) + 1)
  BY <1>2, LenProperties
<1>4. \A j \in DOMAIN d : /\ j = 1 => d[j] = e
                          /\ j # 1 => j - 1 \in DOMAIN c /\ d[j] = c[j - 1]
  BY <1>1, <1>2, <1>3
<1>5. ASSUME NEW j \in Nat \ {0} PROVE Nth(d, j) = IF j = 1 THEN e ELSE Nth(c, j - 1)
  <2>1. CASE j \in DOMAIN d
    BY <1>2, <1>3, <1>4, <2>1 DEF Nth
  <2>2. CASE j \notin DOMAIN d
    BY <1>2, <1>3, <2>2 DEF Nth
  <2> QED
    BY <2>1, <2>2
<1> QED
  BY <1>2, <1>3, <1>4, <1>5

\* A chain whose first entry is taken.
LEMMA TailNth ==
  ASSUME NEW S, NEW c \in Seq(S), c # <<>>, NEW d, Popped(c, d)
  PROVE  /\ d \in Seq(S) /\ Len(d) = Len(c) - 1 /\ Len(c) \in Nat \ {0} /\ Head(c) = c[1]
         /\ DOMAIN d = 1..(Len(c) - 1) /\ DOMAIN c = 1..Len(c)
         /\ \A j \in Nat \ {0} : Nth(d, j) = Nth(c, j + 1)
         /\ \A j \in DOMAIN d : j + 1 \in DOMAIN c /\ d[j] = c[j + 1]
<1>1. /\ d \in Seq(S) /\ Len(d) = Len(c) - 1
      /\ \A j \in 1..Len(d) : d[j] = c[j + 1]
  BY HeadTailProperties DEF Popped
<1>2. Len(c) \in Nat \ {0} /\ DOMAIN c = 1..Len(c) /\ DOMAIN d = 1..(Len(c) - 1)
  BY <1>1, LenProperties, EmptySeq
<1>3. Head(c) = c[1]
  OBVIOUS
<1> QED
  BY <1>1, <1>2, <1>3 DEF Nth

\* The old chains with an entry on one more.
LEMMA AppendUnshared ==
  ASSUME NEW S, NEW B, NEW T \in [B -> Seq(S)], Unshared(T), NEW h \in B, NEW e \in S,
         \A b \in B : \A j \in DOMAIN T[b] : T[b][j] # e,
         NEW T2, Changed(T, h, Append(T[h], e), T2)
  PROVE  /\ T2 \in [B -> Seq(S)] /\ Unshared(T2)
         /\ \A b \in B : \A j \in DOMAIN T2[b] :
              T2[b][j] = e \/ (j \in DOMAIN T[b] /\ T2[b][j] = T[b][j])
<1>1. /\ \A b \in B : b # h => T2[b] = T[b]
      /\ T2[h] = Append(T[h], e)
      /\ DOMAIN T2 = B /\ DOMAIN T = B
  BY DEF Changed
<1>0. T2 = [b \in B |-> T2[b]]
  BY DEF Changed
<1>2. /\ T2[h] \in Seq(S) /\ DOMAIN T2[h] = 1..(Len(T[h]) + 1)
      /\ Len(T[h]) \in Nat /\ DOMAIN T[h] = 1..Len(T[h])
      /\ \A j \in DOMAIN T2[h] : T2[h][j] = IF j = Len(T[h]) + 1 THEN e ELSE T[h][j]
  BY <1>1, AppendNth, Appended(T[h], e, T2[h]) DEF Appended
<1>4. T2 \in [B -> Seq(S)]
  BY <1>0, <1>1, <1>2
<1>5. \A b \in B : \A j \in DOMAIN T2[b] :
        \/ T2[b][j] = e /\ b = h /\ j = Len(T[h]) + 1
        \/ j \in DOMAIN T[b] /\ T2[b][j] = T[b][j]
  <2>1. \A j \in DOMAIN T2[h] :
          \/ T2[h][j] = e /\ j = Len(T[h]) + 1
          \/ j \in DOMAIN T[h] /\ T2[h][j] = T[h][j]
    BY <1>2
  <2>2. \A b \in B : b # h => \A j \in DOMAIN T2[b] : j \in DOMAIN T[b] /\ T2[b][j] = T[b][j]
    BY <1>1
  <2> QED
    BY <2>1, <2>2
<1>6. Unshared(T2)
  <2> SUFFICES ASSUME NEW b \in B, NEW d \in B, NEW j \in DOMAIN T2[b], NEW k \in DOMAIN T2[d],
                      T2[b][j] = T2[d][k]
               PROVE  b = d /\ j = k
    BY <1>1 DEF Unshared
  <2>1. CASE T2[b][j] = e
    <3>1. b = h /\ j = Len(T[h]) + 1
      BY <1>5, <2>1
    <3>2. T2[d][k] = e
      BY <2>1
    <3>3. d = h /\ k = Len(T[h]) + 1
      BY <1>5, <3>2
    <3> QED
      BY <3>1, <3>3
  <2>2. CASE T2[b][j] # e
    <3>1. j \in DOMAIN T[b] /\ k \in DOMAIN T[d] /\ T[b][j] = T[d][k]
      BY <1>5, <2>2
    <3> QED
      BY <1>1, <3>1 DEF Unshared
  <2> QED
    BY <2>1, <2>2
<1> QED
  BY <1>4, <1>5, <1>6

\* The chains T2 have no entry that is not e or on a chain of T.
OnlyAdds(B, T, e, T2) ==
  \A b \in B : \A j \in DOMAIN T2[b] :
    T2[b][j] = e \/ \E k \in DOMAIN T[b] : T2[b][j] = T[b][k]

\* The chains being built with an entry in front of one.
LEMMA PushUnshared ==
  ASSUME NEW S, NEW B, NEW T \in [B -> Seq(S)], Unshared(T), NEW h \in B, NEW e \in S,
         \A b \in B : \A j \in DOMAIN T[b] : T[b][j] # e,
         NEW c, Pushed(T[h], e, c), NEW T2, Changed(T, h, c, T2)
  PROVE  T2 \in [B -> Seq(S)] /\ Unshared(T2) /\ OnlyAdds(B, T, e, T2)
<1>1. /\ \A b \in B : b # h => T2[b] = T[b]
      /\ T2[h] = <<e>> \o T[h]
      /\ DOMAIN T2 = B /\ DOMAIN T = B
  BY DEF Changed, Pushed
<1>0. T2 = [b \in B |-> T2[b]]
  BY DEF Changed
<1>2. /\ T2[h] \in Seq(S) /\ DOMAIN T2[h] = 1..(Len(T[h]) + 1)
      /\ Len(T[h]) \in Nat /\ DOMAIN T[h] = 1..Len(T[h])
      /\ \A j \in DOMAIN T2[h] : /\ j = 1 => T2[h][j] = e
                                 /\ j # 1 => j - 1 \in DOMAIN T[h] /\ T2[h][j] = T[h][j - 1]
  BY <1>1, PushNth, Pushed(T[h], e, T2[h]) DEF Pushed
<1>4. T2 \in [B -> Seq(S)]
  BY <1>0, <1>1, <1>2
<1>5. \A b \in B : \A j \in DOMAIN T2[b] :
        \/ T2[b][j] = e /\ b = h /\ j = 1
        \/ b = h /\ j # 1 /\ j - 1 \in DOMAIN T[b] /\ T2[b][j] = T[b][j - 1]
        \/ b # h /\ j \in DOMAIN T[b] /\ T2[b][j] = T[b][j]
  BY <1>1, <1>2
<1>6. Unshared(T2)
  <2> SUFFICES ASSUME NEW b \in B, NEW d \in B, NEW j \in DOMAIN T2[b], NEW k \in DOMAIN T2[d],
                      T2[b][j] = T2[d][k]
               PROVE  b = d /\ j = k
    BY <1>1 DEF Unshared
  <2>1. CASE T2[b][j] = e
    <3>1. b = h /\ j = 1
      BY <1>5, <2>1
    <3>2. T2[d][k] = e
      BY <2>1
    <3>3. d = h /\ k = 1
      BY <1>5, <3>2
    <3> QED
      BY <3>1, <3>3
  <2>2. CASE T2[b][j] # e /\ b = h /\ d = h
    <3>1. j - 1 \in DOMAIN T[h] /\ k - 1 \in DOMAIN T[h] /\ T[h][j - 1] = T[h][k - 1]
      BY <1>5, <2>2
    <3>2. j - 1 = k - 1
      BY <1>1, <3>1 DEF Unshared
    <3>3. j \in Nat /\ k \in Nat
      BY <1>2, <2>2
    <3> QED
      BY <2>2, <3>2, <3>3
  <2>3. CASE T2[b][j] # e /\ b # h /\ d # h
    <3>1. j \in DOMAIN T[b] /\ k \in DOMAIN T[d] /\ T[b][j] = T[d][k]
      BY <1>5, <2>3
    <3> QED
      BY <1>1, <3>1 DEF Unshared
  <2>4. CASE T2[b][j] # e /\ ((b = h /\ d # h) \/ (b # h /\ d = h))
    <3>1. \E m \in DOMAIN T[b], n \in DOMAIN T[d] : T[b][m] = T[d][n]
      BY <1>5, <2>4
    <3> QED
      BY <1>1, <2>4, <3>1 DEF Unshared
  <2> QED
    BY <2>1, <2>2, <2>3, <2>4
<1>7. OnlyAdds(B, T, e, T2)
  BY <1>5 DEF OnlyAdds
<1> QED
  BY <1>4, <1>6, <1>7

\* The old chains with the first entry of one taken.
LEMMA TailUnshared ==
  ASSUME NEW S, NEW B, NEW T \in [B -> Seq(S)], Unshared(T), NEW h \in B, T[h] # <<>>,
         NEW T2, Changed(T, h, Tail(T[h]), T2)
  PROVE  /\ T2 \in [B -> Seq(S)] /\ Unshared(T2)
         /\ \A b \in B : \A j \in DOMAIN T2[b] : T2[b][j] # T[h][1]
         /\ \A b \in B : \A j \in DOMAIN T2[b] : \E k \in DOMAIN T[b] : T2[b][j] = T[b][k]
<1>1. /\ \A b \in B : b # h => T2[b] = T[b]
      /\ T2[h] = Tail(T[h])
      /\ DOMAIN T2 = B /\ DOMAIN T = B
  BY DEF Changed
<1>0. T2 = [b \in B |-> T2[b]]
  BY DEF Changed
<1>2. /\ T2[h] \in Seq(S) /\ DOMAIN T2[h] = 1..(Len(T[h]) - 1)
      /\ Len(T[h]) \in Nat \ {0} /\ DOMAIN T[h] = 1..Len(T[h])
      /\ \A j \in DOMAIN T2[h] : j + 1 \in DOMAIN T[h] /\ T2[h][j] = T[h][j + 1]
  BY <1>1, TailNth, Popped(T[h], T2[h]) DEF Popped
<1>4. T2 \in [B -> Seq(S)]
  BY <1>0, <1>1, <1>2
<1>5. \A b \in B : \A j \in DOMAIN T2[b] :
        \/ b = h /\ j \in Nat \ {0} /\ j + 1 \in DOMAIN T[b] /\ T2[b][j] = T[b][j + 1]
        \/ b # h /\ j \in DOMAIN T[b] /\ T2[b][j] = T[b][j]
  BY <1>1, <1>2
<1>6. Unshared(T2)
  <2> SUFFICES ASSUME NEW b \in B, NEW d \in B, NEW j \in DOMAIN T2[b], NEW k \in DOMAIN T2[d],
                      T2[b][j] = T2[d][k]
               PROVE  b = d /\ j = k
    BY <1>1 DEF Unshared
  <2>1. b = d
    <3>1. \E m \in DOMAIN T[b], n \in DOMAIN T[d] : T[b][m] = T[d][n]
      BY <1>5
    <3> QED
      BY <1>1, <3>1 DEF Unshared
  <2>2. CASE b = h
    <3>1. /\ j + 1 \in DOMAIN T[h] /\ k + 1 \in DOMAIN T[h] /\ T[h][j + 1] = T[h][k + 1]
          /\ j \in Nat /\ k \in Nat
      BY <1>5, <2>1, <2>2
    <3>2. j + 1 = k + 1
      BY <1>1, <3>1 DEF Unshared
    <3> QED
      BY <2>1, <3>1, <3>2
  <2>3. CASE b # h
    <3>1. j \in DOMAIN T[b] /\ k \in DOMAIN T[d] /\ T[b][j] = T[d][k]
      BY <1>5, <2>1, <2>3
    <3> QED
      BY <1>1, <3>1 DEF Unshared
  <2> QED
    BY <2>2, <2>3
<1>7. ASSUME NEW b \in B, NEW j \in DOMAIN T2[b], T2[b][j] = T[h][1] PROVE FALSE
  <2>1. 1 \in DOMAIN T[h]
    BY <1>2
  <2>2. CASE b = h
    <3>1. j + 1 \in DOMAIN T[h] /\ T[h][j + 1] = T[h][1] /\ j \in Nat \ {0}
      BY <1>5, <1>7, <2>2
    <3>2. j + 1 = 1
      BY <1>1, <2>1, <3>1 DEF Unshared
    <3> QED
      BY <3>1, <3>2
  <2>3. CASE b # h
    <3>1. j \in DOMAIN T[b] /\ T[b][j] = T[h][1]
      BY <1>5, <1>7, <2>3
    <3> QED
      BY <1>1, <2>1, <2>3, <3>1 DEF Unshared
  <2> QED
    BY <2>2, <2>3
<1> QED
  BY <1>4, <1>5, <1>6, <1>7

-----------------------------------------------------------------------------
(* insert *)

\* The chains once a new entry for k is allocated; only an empty bucket has it.
LinkedOrNot(T, k, T2) ==
  LET h == myHash(k, size)
  IN  IF table[h] = Nil THEN Changed(T, h, Append(T[h], Len(entries) + 1), T2) ELSE T2 = T

\* A new entry alone in its bucket, or still unlinked while the chain of its
\* bucket is walked (test.y:97-109).
LEMMA InsertCallHolds ==
  ASSUME NEW T, NEW W, Chained(T, W), NEW k \in Keys, NEW v \in Values, InsertCall(k, v),
         NEW T2, LinkedOrNot(T, k, T2)
  PROVE  Chained(T2, W)'
<1>h. PICK h : h = myHash(k, size)
  OBVIOUS
<1>e. PICK e : e = Len(entries) + 1
  OBVIOUS
<1>c. IF table[h] = Nil THEN Changed(T, h, Append(T[h], e), T2) ELSE T2 = T
  BY <1>h, <1>e DEF LinkedOrNot
<1>1. /\ pc = "ready" /\ entries' = Append(entries, [key |-> k, value |-> v])
      /\ next' = Append(next, Nil)
      /\ UNCHANGED <<size, count, newTable, i, key, freed, answer>>
  BY DEF InsertCall
<1>2. /\ entries \in Seq(Entry) /\ next \in Seq(Nat) /\ Len(next) = Len(entries)
      /\ size \in Nat \ {0} /\ freed = <<>> /\ newTable = <<>> /\ W = <<>>
      /\ table \in [Buckets(size) -> Nat] /\ DOMAIN table = Buckets(size)
      /\ i \in 0..size /\ count \in Nat
  <2>1. Types
    BY DEF Chained
  <2>2. newTable = <<>> /\ W \in [DOMAIN newTable -> Seq(Ids)]
    BY <1>1, <2>1 DEF Types, Chained, Shape
  <2>3. W = <<>>
    BY <2>2
  <2> QED
    BY <1>1, <2>1, <2>2, <2>3 DEF Types
<1>3. \/ table[h] = Nil /\ table' = [table EXCEPT ![h] = e] /\ pc' = "count"
      \/ table[h] # Nil /\ current' = table[h] /\ pc' = "append" /\ table' = table
  BY <1>h, <1>e DEF InsertCall
<1>4. h \in Buckets(size)
  BY <1>2, <1>h, HashInRange
<1>5. /\ Len(entries) \in Nat /\ Ids = 1..Len(entries) /\ e \in Nat \ {0} /\ e \notin Ids
      /\ DOMAIN T = Buckets(size) /\ DOMAIN next = Ids
  BY <1>2, <1>e, OnChains
<1>6. /\ entries' \in Seq(Entry) /\ Len(entries') = e /\ entries'[e] = [key |-> k, value |-> v]
      /\ entries' # <<>> /\ Ids' = Ids \cup {e} /\ Newest' = e
  <2>1. [key |-> k, value |-> v] \in Entry
    BY DEF Entry
  <2>2. /\ entries' \in Seq(Entry) /\ Len(entries') = e /\ entries'[e] = [key |-> k, value |-> v]
        /\ entries' # <<>>
    BY <1>1, <1>2, <1>e, <2>1, AppendProperties
  <2> QED
    BY <1>5, <1>e, <2>2 DEF Ids, Newest
<1>7. /\ next' \in Seq(Nat) /\ Len(next') = e /\ next'[e] = Nil
      /\ \A m \in Ids : next'[m] = next[m]
  <2>1. Nil \in Nat /\ Nat \cup {Nil} = Nat
    BY DEF Nil
  <2>2. /\ next' \in Seq(Nat) /\ Len(next') = Len(next) + 1 /\ next'[Len(next) + 1] = Nil
        /\ \A m \in 1..Len(next) : next'[m] = next[m]
    BY <1>1, <1>2, <2>1, AppendProperties
  <2> QED
    BY <1>2, <1>5, <1>e, <2>2
<1>8. T \in [Buckets(size) -> Seq(Ids)] /\ Unshared(T)
      /\ \A b \in Buckets(size) : Linked(T[b], table[b])
  <2>1. \A b \in Buckets(size) : First(b) = table[b]
    BY <1>1 DEF First
  <2> QED
    BY <1>2, <2>1 DEF Chained, Shape, Apart
<1>9. \A b \in Buckets(size) : /\ Len(T[b]) \in Nat /\ DOMAIN T[b] = 1..Len(T[b])
                              /\ \A j \in 1..Len(T[b]) : T[b][j] \in Ids
  BY <1>5, OnChains
<1>10. Types'
  <2>1. table' \in [Buckets(size) -> Nat]
    BY <1>2, <1>3, <1>5
  <2>2. freed' \in Seq(Ids')
    BY <1>1, <1>2
  <2>3. Len(entries') - 1 < MaxInserts
    <3>1. Len(entries') - 1 = Len(entries)
      BY <1>5, <1>6, <1>e
    <3> QED
      BY <3>1 DEF InsertCall
  <2> QED
    BY <1>1, <1>2, <1>3, <1>6, <1>7, <2>1, <2>2, <2>3 DEF Types
<1>11. W \in [DOMAIN newTable' -> Seq(Ids')] /\ DOMAIN newTable' = {} /\ DOMAIN W = {}
       /\ DOMAIN freed' = {}
  BY <1>1, <1>2
<1>12. /\ DOMAIN table' = Buckets(size)
       /\ \A b \in Buckets(size) : First(b)' = table'[b]
  BY <1>2, <1>3 DEF First
<1>13. \A b \in Buckets(size) : /\ table[b] = Nth(T[b], 1)
                               /\ \A j \in 1..Len(T[b]) : next'[T[b][j]] = Nth(T[b], j + 1)
  BY <1>7, <1>8, <1>9 DEF Linked
<1>14. myHash(entries[Newest].key, size)' = h
  BY <1>1, <1>6, <1>h DEF myHash
<1>15. T2 \in [Buckets(size) -> Seq(Ids')] /\ Unshared(T2)
  <2>0. T \in [Buckets(size) -> Seq(Ids')]
    <3>1. \A b \in Buckets(size) : T[b] \in Seq(Ids')
      BY <1>6, <1>8, SeqMonotonic
    <3> QED
      BY <1>8, <3>1
  <2>1. CASE table[h] = Nil
    <3>1. \A b \in Buckets(size) : \A j \in DOMAIN T[b] : T[b][j] # e
      BY <1>5, <1>9
    <3> QED
      <4>1. e \in Ids' /\ Changed(T, h, Append(T[h], e), T2)
        BY <1>6, <1>c, <2>1
      <4> QED
        BY <1>4, <1>8, <2>0, <3>1, <4>1, AppendUnshared
  <2>2. CASE table[h] # Nil
    BY <1>8, <1>c, <2>0, <2>2
  <2> QED
    BY <2>1, <2>2
<1>16. Apart(T2, W)'
  BY <1>11, <1>15 DEF Apart, Unshared
<1>17. CASE table[h] = Nil
  <2>1. Len(T[h]) = 0 /\ T[h] \in Seq(Ids)
    BY <1>4, <1>5, <1>8, <1>9, <1>13, <1>17 DEF Nth, Nil
  <2>2. T2[h] = Append(T[h], e) /\ \A b \in Buckets(size) : b # h => T2[b] = T[b]
    BY <1>4, <1>5, <1>17, <1>c DEF Changed
  <2>3. /\ Len(T2[h]) = 1 /\ T2[h][1] = e
        /\ Nth(T2[h], 1) = e /\ Nth(T2[h], 2) = Nil
    <3>1. /\ Len(T2[h]) = Len(T[h]) + 1 /\ DOMAIN T2[h] = 1..(Len(T[h]) + 1)
          /\ \A j \in DOMAIN T2[h] : T2[h][j] = IF j = Len(T[h]) + 1 THEN e ELSE T[h][j]
      BY <2>1, <2>2, AppendNth
    <3> QED
      BY <2>1, <3>1 DEF Nth
  <2>4. \A b \in Buckets(size) : Linked(T2[b], First(b))'
    <3> SUFFICES ASSUME NEW b \in Buckets(size)
                 PROVE  /\ table'[b] = Nth(T2[b], 1)
                        /\ \A j \in 1..Len(T2[b]) : next'[T2[b][j]] = Nth(T2[b], j + 1)
      BY <1>12 DEF Linked
    <3>1. CASE b = h
      <4>1. table'[h] = e
        BY <1>2, <1>3, <1>4, <1>17
      <4>2. \A j \in 1..Len(T2[h]) : j = 1
        BY <2>3
      <4> QED
        BY <1>7, <2>3, <3>1, <4>1, <4>2
    <3>2. CASE b # h
      BY <1>2, <1>3, <1>4, <1>13, <1>17, <2>2, <3>2
    <3> QED
      BY <3>1, <3>2
  <2>5. Shape(T2, W)'
    BY <1>11, <1>12, <1>15, <2>4 DEF Shape
  <2>6. Place(T2)'
    <3>1. T2[h] # <<>> /\ T2[h][Len(T2[h])] = e
      BY <2>3
    <3> QED
      BY <1>3, <1>6, <1>14, <1>17, <3>1 DEF Place
  <2> QED
    BY <1>10, <1>16, <2>5, <2>6 DEF Chained
<1>18. CASE table[h] # Nil
  <2>1. T2 = T
    BY <1>c, <1>18
  <2>2. \A b \in Buckets(size) : Linked(T2[b], First(b))'
    BY <1>3, <1>12, <1>13, <1>18, <2>1 DEF Linked
  <2>3. Shape(T2, W)'
    BY <1>11, <1>12, <1>15, <2>2 DEF Shape
  <2>4. Place(T2)'
    <3>1. 1 \in DOMAIN T[h] /\ T[h][1] = current'
      BY <1>3, <1>4, <1>9, <1>13, <1>18 DEF Nth
    <3>2. \A b \in DOMAIN T : \A j \in DOMAIN T[b] : T[b][j] # e
      BY <1>5, <1>9
    <3> QED
      BY <1>3, <1>6, <1>7, <1>14, <1>18, <2>1, <3>1, <3>2 DEF Place
  <2> QED
    BY <1>10, <1>16, <2>3, <2>4 DEF Chained
<1> QED
  BY <1>17, <1>18

\* current->next = newEntry behind the last entry of the chain
\* (test.y:106-110).
LEMMA AppendLinkHolds ==
  ASSUME NEW T, NEW W, Chained(T, W), AppendLink,
         NEW T2, LET h == myHash(entries[Newest].key, size)
                 IN  Changed(T, h, Append(T[h], Newest), T2)
  PROVE  Chained(T2, W)'
<1>h. PICK h : h = myHash(entries[Newest].key, size)
  OBVIOUS
<1>e. PICK e : e = Newest
  OBVIOUS
<1>c. Changed(T, h, Append(T[h], e), T2)
  BY <1>h, <1>e
<1>1. /\ pc = "append" /\ next[current] = Nil /\ next' = [next EXCEPT ![current] = e]
      /\ pc' = "count"
      /\ UNCHANGED <<entries, table, size, count, newTable, i, current, key, freed, answer>>
  BY <1>e DEF AppendLink
<1>2. Types
  BY DEF Chained
<1>3. /\ e \in Ids /\ h \in Buckets(size) /\ DOMAIN table = Buckets(size)
  BY <1>1, <1>h, <1>e, NewestHome
<1>4. /\ Len(entries) \in Nat /\ Ids = 1..Len(entries) /\ Ids' = Ids
      /\ DOMAIN T = Buckets(size) /\ DOMAIN next = Ids /\ next \in Seq(Nat)
  BY <1>1, <1>2, <1>3, OnChains DEF Types, Ids
<1>5. freed = <<>> /\ newTable = <<>> /\ W = <<>>
  <2>1. newTable = <<>> /\ W \in [DOMAIN newTable -> Seq(Ids)]
    BY <1>1, <1>2 DEF Types, Chained, Shape
  <2> QED
    BY <1>1, <1>2, <2>1 DEF Types
<1>6. T \in [Buckets(size) -> Seq(Ids)] /\ Unshared(T)
      /\ \A b \in Buckets(size) : Linked(T[b], table[b])
  <2>1. \A b \in Buckets(size) : First(b) = table[b]
    BY <1>1 DEF First
  <2> QED
    BY <1>3, <2>1 DEF Chained, Shape, Apart
<1>7. \A b \in Buckets(size) : /\ Len(T[b]) \in Nat /\ DOMAIN T[b] = 1..Len(T[b])
                              /\ \A j \in 1..Len(T[b]) : T[b][j] \in Ids
  BY <1>4, OnChains
<1>8. next[e] = Nil /\ (\A b \in Buckets(size) : \A j \in DOMAIN T[b] : T[b][j] # e)
  BY <1>1, <1>4, <1>e DEF Chained, Place
<1>9. PICK j0 \in DOMAIN T[h] : T[h][j0] = current
  BY <1>1, <1>h DEF Chained, Place
<1>10. j0 = Len(T[h]) /\ current \in Ids /\ current # e
  <2>1. Nth(T[h], j0 + 1) = Nil /\ j0 \in 1..Len(T[h])
    BY <1>1, <1>3, <1>6, <1>7, <1>9 DEF Linked
  <2>2. j0 + 1 \notin 1..Len(T[h])
    BY <1>3, <1>4, <1>7, <2>1 DEF Nth, Nil
  <2> QED
    BY <1>3, <1>7, <1>8, <1>9, <2>1, <2>2
<1>11. /\ next' \in Seq(Nat) /\ Len(next') = Len(next) /\ next'[current] = e /\ next'[e] = Nil
       /\ \A m \in Ids : m # current => next'[m] = next[m]
  <2>1. Len(next) = Len(entries) /\ e \in Nat
    BY <1>2, <1>3, <1>4 DEF Types
  <2> QED
    BY <1>1, <1>3, <1>4, <1>8, <1>10, <2>1, ExceptSeq
<1>12. Types'
  BY <1>1, <1>2, <1>4, <1>11 DEF Types
<1>13. /\ T2 \in [Buckets(size) -> Seq(Ids)] /\ Unshared(T2)
  <2>1. \A b \in Buckets(size) : \A j \in DOMAIN T[b] : T[b][j] # e
    BY <1>4, <1>8
  <2> QED
    BY <1>3, <1>6, <1>c, <2>1, AppendUnshared
<1>14. /\ T2[h] = Append(T[h], e) /\ T[h] \in Seq(Ids)
       /\ \A b \in Buckets(size) : b # h => T2[b] = T[b]
  BY <1>3, <1>4, <1>6, <1>c DEF Changed
<1>15. /\ Len(T2[h]) = Len(T[h]) + 1 /\ Len(T[h]) \in Nat
       /\ \A j \in Nat : Nth(T2[h], j) = IF j = Len(T[h]) + 1 THEN e ELSE Nth(T[h], j)
       /\ DOMAIN T2[h] = 1..(Len(T[h]) + 1)
       /\ \A j \in DOMAIN T2[h] : T2[h][j] = IF j = Len(T[h]) + 1 THEN e ELSE T[h][j]
  <2>1. PICK c, d, S : c = T[h] /\ d = T2[h] /\ S = Ids
    OBVIOUS
  <2>2. c \in Seq(S) /\ d = Append(c, e) /\ e \in S
    BY <1>3, <1>14, <2>1
  <2>3. /\ Len(d) = Len(c) + 1 /\ Len(c) \in Nat
        /\ \A j \in Nat : Nth(d, j) = IF j = Len(c) + 1 THEN e ELSE Nth(c, j)
        /\ DOMAIN d = 1..(Len(c) + 1)
        /\ \A j \in DOMAIN d : d[j] = IF j = Len(c) + 1 THEN e ELSE c[j]
    <3>1. /\ d \in Seq(S) /\ Len(d) = Len(c) + 1 /\ d[Len(c) + 1] = e
          /\ \A j \in 1..Len(c) : d[j] = c[j]
      BY <2>2, AppendProperties
    <3>2. Len(c) \in Nat /\ DOMAIN d = 1..(Len(c) + 1)
      BY <2>2, <3>1, LenProperties
    <3> QED
      BY <3>1, <3>2 DEF Nth
  <2> QED
    BY <2>1, <2>3
<1>16. \A b \in Buckets(size) : Linked(T2[b], First(b))'
  <2> SUFFICES ASSUME NEW b \in Buckets(size)
               PROVE  /\ table[b] = Nth(T2[b], 1)
                      /\ \A j \in 1..Len(T2[b]) : next'[T2[b][j]] = Nth(T2[b], j + 1)
    BY <1>1 DEF Linked, First
  <2>0. /\ table[b] = Nth(T[b], 1)
        /\ \A j \in 1..Len(T[b]) : next[T[b][j]] = Nth(T[b], j + 1)
    BY <1>6 DEF Linked
  <2>1. CASE b # h
    <3>1. \A j \in 1..Len(T[b]) : T[b][j] # current
      BY <1>3, <1>4, <1>6, <1>7, <1>9, <2>1 DEF Unshared
    <3> QED
      BY <1>7, <1>11, <1>14, <2>0, <2>1, <3>1
  <2>2. CASE b = h
    <3>1. 1 \in Nat /\ 1 # Len(T[h]) + 1
      BY <1>3, <1>7, <1>9
    <3>2. table[b] = Nth(T2[b], 1)
      BY <1>15, <2>0, <2>2, <3>1
    <3>3. ASSUME NEW j \in 1..Len(T2[h]) PROVE next'[T2[h][j]] = Nth(T2[h], j + 1)
      <4>1. CASE j = Len(T[h]) + 1
        <5>1. T2[h][j] = e
          BY <1>15, <4>1
        <5>2. Nth(T2[h], j + 1) = Nil
          BY <1>15, <4>1 DEF Nth
        <5> QED
          BY <1>11, <5>1, <5>2
      <4>2. CASE j = Len(T[h])
        <5>1. T2[h][j] = current
          BY <1>9, <1>10, <1>15, <4>2
        <5>2. Nth(T2[h], j + 1) = e
          BY <1>15, <4>2
        <5> QED
          BY <1>11, <5>1, <5>2
      <4>3. CASE j \in 1..(Len(T[h]) - 1)
        <5>1. T2[h][j] = T[h][j] /\ j \in 1..Len(T[h])
          BY <1>15, <4>3
        <5>2. T[h][j] # current
          <6>1. j \in DOMAIN T[h] /\ j # j0 /\ h \in DOMAIN T
            BY <1>3, <1>4, <1>7, <1>10, <4>3, <5>1
          <6> QED
            BY <1>6, <1>9, <6>1 DEF Unshared
        <5>3. Nth(T2[h], j + 1) = Nth(T[h], j + 1)
          BY <1>15, <4>3
        <5> QED
          BY <1>3, <1>7, <1>11, <2>0, <2>2, <5>1, <5>2, <5>3
      <4> QED
        BY <1>15, <4>1, <4>2, <4>3
    <3> QED
      BY <2>2, <3>2, <3>3
  <2> QED
    BY <2>1, <2>2
<1>17. Shape(T2, W)'
  <2>1. W \in [DOMAIN newTable' -> Seq(Ids')] /\ DOMAIN newTable' = {}
    BY <1>1, <1>5
  <2> QED
    BY <1>1, <1>3, <1>4, <1>13, <1>16, <2>1 DEF Shape
<1>18. Apart(T2, W)'
  <2>1. DOMAIN W = {} /\ DOMAIN freed' = {}
    BY <1>1, <1>5
  <2> QED
    BY <1>13, <2>1 DEF Apart, Unshared
<1>19. Place(T2)'
  <2>1. myHash(entries[Newest].key, size)' = h /\ Newest' = e
    BY <1>1, <1>h, <1>e DEF myHash, Newest
  <2>2. T2[h] # <<>> /\ T2[h][Len(T2[h])] = e
    BY <1>15
  <2> QED
    BY <1>1, <2>1, <2>2 DEF Place
<1> QED
  BY <1>12, <1>17, <1>18, <1>19 DEF Chained

\* The empty chains of a new table.
Emptied(s) == [b \in Buckets(s) |-> <<>>]

\* count++, and the bigger table of a rehash: no bucket has a chain yet
\* (test.y:74-81, 111-118).
LEMMA CountHolds ==
  ASSUME NEW T, NEW W, Chained(T, W), Count,
         NEW W2, IF Overloaded(count + 1, size) THEN W2 = Emptied(2 * size) ELSE W2 = W
  PROVE  Chained(T, W2)'
<1>1. /\ pc = "count" /\ count' = count + 1
      /\ UNCHANGED <<entries, next, table, size, current, key, freed, answer>>
  BY DEF Count
<1>2. Types /\ Shape(T, W) /\ Apart(T, W) /\ size \in Nat \ {0}
  BY DEF Chained, Types
<1>3. DOMAIN table = Buckets(size) /\ \A b \in Buckets(size) : b \in Nat
  BY <1>1, <1>2 DEF Types, Buckets
<1>4. CASE ~Overloaded(count + 1, size)
  <2>1. pc' = "ready" /\ UNCHANGED <<newTable, i>> /\ W2 = W
    BY <1>4 DEF Count
  <2>2. Types' /\ Place(T)'
    BY <1>1, <1>2, <2>1 DEF Types, Place, Ids
  <2>3. \A b \in DOMAIN table : First(b)' = First(b)
    BY <1>1, <2>1 DEF First
  <2>4. Chained(T, W)'
    BY <1>1, <2>1, <2>2, <2>3, QuietHolds
  <2> QED
    BY <2>1, <2>4
<1>5. CASE Overloaded(count + 1, size)
  <2>1. pc' = "rehash" /\ i' = 0 /\ newTable' = Calloc(2 * size) /\ W2 = Emptied(2 * size)
    BY <1>5 DEF Count
  <2>2. newTable' \in [Buckets(2 * size) -> Nat] /\ DOMAIN newTable' = Buckets(2 * size)
        /\ \A b \in Buckets(2 * size) : newTable'[b] = Nil
    BY <2>1 DEF Calloc, Buckets, Nil
  <2>3. W2 \in [Buckets(2 * size) -> Seq(Ids)] /\ \A b \in Buckets(2 * size) : W2[b] = <<>>
    BY <2>1 DEF Emptied
  <2>4. Types'
    BY <1>1, <1>2, <2>1, <2>2 DEF Types, Ids
  <2>5. Place(T)'
    BY <2>1 DEF Place
  <2>6. \A b \in Buckets(size) : First(b)' = First(b)
    BY <1>1, <1>3, <2>1 DEF First
  <2>7. \A b \in Buckets(size) : Linked(T[b], First(b))'
    BY <1>1, <1>2, <1>3, <2>6 DEF Shape, Linked
  <2>8. \A b \in Buckets(2 * size) : Linked(W2[b], newTable[b])'
    BY <2>2, <2>3 DEF Linked, Nth
  <2>9. Shape(T, W2)'
    BY <1>1, <1>2, <1>3, <2>2, <2>3, <2>7, <2>8 DEF Shape, Ids
  <2>10. Apart(T, W2)'
    <3>1. DOMAIN W2 = Buckets(2 * size) /\ \A b \in Buckets(2 * size) : DOMAIN W2[b] = {}
      BY <2>3
    <3>2. Unshared(W2)
      BY <3>1 DEF Unshared
    <3> QED
      BY <1>1, <1>2, <3>1, <3>2 DEF Apart
  <2> QED
    BY <2>4, <2>5, <2>9, <2>10 DEF Chained
<1> QED
  BY <1>4, <1>5

\* The chain the inner loops of the rehash and of freeSymbolTable are on loses
\* its first entry; the others are not disturbed.
LEMMA TakeFirst ==
  ASSUME NEW T, NEW W, Chained(T, W), pc \in {"move", "chain"}, current # Nil,
         NEW T2, Changed(T, i, Tail(T[i]), T2)
  PROVE  /\ i \in Buckets(size) /\ DOMAIN table = Buckets(size) /\ DOMAIN T = Buckets(size)
         /\ T[i] # <<>> /\ 1 \in DOMAIN T[i] /\ T[i][1] = current /\ current \in Ids
         /\ T2 \in [Buckets(size) -> Seq(Ids)] /\ Unshared(T2)
         /\ next[current] = Nth(T2[i], 1)
         /\ \A b \in Buckets(size) : b # i => T2[b] = T[b] /\ First(b) = Nth(T2[b], 1)
         /\ \A b \in Buckets(size) : \A j \in 1..Len(T2[b]) : next[T2[b][j]] = Nth(T2[b], j + 1)
         /\ \A b \in Buckets(size) : \A j \in DOMAIN T2[b] : T2[b][j] # current
         /\ \A b \in Buckets(size) : \A j \in DOMAIN T2[b] : \E k \in DOMAIN T[b] : T2[b][j] = T[b][k]
         /\ \A b \in Buckets(size) : Len(T2[b]) \in Nat /\ DOMAIN T2[b] = 1..Len(T2[b])
<1>1. i \in Buckets(size) /\ DOMAIN table = Buckets(size)
  BY DEF Chained, Types, Buckets
<1>2. /\ DOMAIN T = Buckets(size) /\ T[i] \in Seq(Ids) /\ T \in [Buckets(size) -> Seq(Ids)]
      /\ Len(T[i]) \in Nat /\ DOMAIN T[i] = 1..Len(T[i]) /\ \A j \in 1..Len(T[i]) : T[i][j] \in Ids
      /\ \A b \in Buckets(size) : Linked(T[b], First(b))
      /\ Unshared(T)
  BY <1>1, OnChains DEF Chained, Shape, Apart
<1>3. First(i) = current
  BY DEF First
<1>4. 1 \in 1..Len(T[i]) /\ T[i][1] = current
  BY <1>1, <1>2, <1>3 DEF Linked, Nth
<1>5. T[i] # <<>>
  BY <1>4
<1>6. /\ T2 \in [Buckets(size) -> Seq(Ids)] /\ Unshared(T2)
      /\ \A b \in Buckets(size) : \A j \in DOMAIN T2[b] : T2[b][j] # T[i][1]
      /\ \A b \in Buckets(size) : \A j \in DOMAIN T2[b] : \E k \in DOMAIN T[b] : T2[b][j] = T[b][k]
  <2>1. PICK h, B, S : h = i /\ B = Buckets(size) /\ S = Ids
    OBVIOUS
  <2>2. /\ T \in [B -> Seq(S)] /\ Unshared(T) /\ h \in B /\ T[h] # <<>>
        /\ Changed(T, h, Tail(T[h]), T2)
    BY <1>1, <1>2, <1>5, <2>1
  <2>3. /\ T2 \in [B -> Seq(S)] /\ Unshared(T2)
        /\ \A b \in B : \A j \in DOMAIN T2[b] : T2[b][j] # T[h][1]
        /\ \A b \in B : \A j \in DOMAIN T2[b] : \E k \in DOMAIN T[b] : T2[b][j] = T[b][k]
    BY <2>2, TailUnshared
  <2> QED
    BY <2>1, <2>3
<1>7. /\ T2[i] = Tail(T[i]) /\ \A b \in Buckets(size) : b # i => T2[b] = T[b]
  BY <1>1, <1>2 DEF Changed
<1>8. /\ Len(T2[i]) = Len(T[i]) - 1 /\ DOMAIN T2[i] = 1..(Len(T[i]) - 1)
      /\ \A j \in Nat \ {0} : Nth(T2[i], j) = Nth(T[i], j + 1)
      /\ \A j \in DOMAIN T2[i] : j + 1 \in DOMAIN T[i] /\ T2[i][j] = T[i][j + 1]
  <2>1. PICK c, d, S : c = T[i] /\ d = T2[i] /\ S = Ids
    OBVIOUS
  <2>2. c \in Seq(S) /\ c # <<>> /\ Popped(c, d)
    BY <1>2, <1>5, <1>7, <2>1 DEF Popped
  <2>3. /\ Len(d) = Len(c) - 1 /\ DOMAIN d = 1..(Len(c) - 1)
        /\ \A j \in Nat \ {0} : Nth(d, j) = Nth(c, j + 1)
        /\ \A j \in DOMAIN d : j + 1 \in DOMAIN c /\ d[j] = c[j + 1]
    BY <2>2, TailNth
  <2> QED
    BY <2>1, <2>3
<1>9. next[current] = Nth(T2[i], 1)
  <2>1. next[T[i][1]] = Nth(T[i], 1 + 1)
    BY <1>1, <1>2, <1>4 DEF Linked
  <2>2. Nth(T2[i], 1) = Nth(T[i], 1 + 1)
    BY <1>8
  <2> QED
    BY <1>4, <2>1, <2>2
<1>10. ASSUME NEW b \in Buckets(size), b # i PROVE T2[b] = T[b] /\ First(b) = Nth(T2[b], 1)
  BY <1>2, <1>7, <1>10 DEF Linked
<1>11. ASSUME NEW b \in Buckets(size), NEW j \in 1..Len(T2[b])
       PROVE  next[T2[b][j]] = Nth(T2[b], j + 1)
  <2>1. CASE b # i
    BY <1>2, <1>7, <2>1 DEF Linked
  <2>2. CASE b = i
    <3>0. j \in 1..(Len(T[i]) - 1) /\ j \in DOMAIN T2[i]
      BY <1>8, <2>2
    <3>1. j + 1 \in 1..Len(T[i]) /\ T2[i][j] = T[i][j + 1] /\ j \in Nat \ {0} /\ j + 1 \in Nat \ {0}
      <4>1. j \in Nat \ {0} /\ j + 1 \in Nat \ {0}
        BY <1>2, <3>0
      <4>2. j + 1 \in DOMAIN T[i] /\ T2[i][j] = T[i][j + 1]
        BY <1>8, <3>0, Zenon
      <4> QED
        BY <1>2, <4>1, <4>2
    <3>2. next[T[i][j + 1]] = Nth(T[i], (j + 1) + 1)
      BY <1>1, <1>2, <3>1 DEF Linked
    <3> QED
      BY <1>8, <2>2, <3>0, <3>1, <3>2
  <2> QED
    BY <2>1, <2>2
<1>12. ASSUME NEW b \in Buckets(size) PROVE Len(T2[b]) \in Nat /\ DOMAIN T2[b] = 1..Len(T2[b])
  BY <1>6, LenProperties
<1>13. current \in Ids
  BY <1>2, <1>4
<1> QED
  BY <1>1, <1>2, <1>4, <1>5, <1>6, <1>9, <1>10, <1>11, <1>12, <1>13

\* free(current) takes the first entry of the chain (test.y:159-164).
LEMMA FreeEntryHolds ==
  ASSUME NEW T, NEW W, Chained(T, W), FreeEntry, NEW T2, Changed(T, i, Tail(T[i]), T2)
  PROVE  Chained(T2, W)'
<1>1. /\ pc = "chain" /\ current # Nil /\ freed' = Append(freed, current)
      /\ current' = next[current] /\ pc' = pc
      /\ UNCHANGED <<entries, next, table, size, count, newTable, i, key, answer>>
  BY DEF FreeEntry
<1>2. /\ i \in Buckets(size) /\ DOMAIN table = Buckets(size) /\ DOMAIN T = Buckets(size)
      /\ 1 \in DOMAIN T[i] /\ T[i][1] = current /\ current \in Ids
      /\ T2 \in [Buckets(size) -> Seq(Ids)] /\ Unshared(T2)
      /\ next[current] = Nth(T2[i], 1)
      /\ \A b \in Buckets(size) : b # i => T2[b] = T[b] /\ First(b) = Nth(T2[b], 1)
      /\ \A b \in Buckets(size) : \A j \in 1..Len(T2[b]) : next[T2[b][j]] = Nth(T2[b], j + 1)
      /\ \A b \in Buckets(size) : \A j \in DOMAIN T2[b] : T2[b][j] # current
      /\ \A b \in Buckets(size) : \A j \in DOMAIN T2[b] : \E k \in DOMAIN T[b] : T2[b][j] = T[b][k]
  BY <1>1, TakeFirst
<1>3. Types /\ Shape(T, W) /\ Apart(T, W) /\ freed \in Seq(Ids) /\ newTable = <<>>
  BY <1>1 DEF Chained, Types
<1>4. /\ freed' \in Seq(Ids) /\ Len(freed) \in Nat /\ Len(freed') = Len(freed) + 1
      /\ \A k \in 1..Len(freed) : freed'[k] = freed[k]
      /\ freed'[Len(freed) + 1] = current
      /\ DOMAIN freed' = 1..(Len(freed) + 1) /\ DOMAIN freed = 1..Len(freed)
  <2>1. /\ freed' \in Seq(Ids) /\ Len(freed') = Len(freed) + 1
        /\ \A k \in 1..Len(freed) : freed'[k] = freed[k]
        /\ freed'[Len(freed) + 1] = current
    BY <1>1, <1>2, <1>3, AppendProperties
  <2> QED
    BY <1>3, <2>1, LenProperties
<1>5. Types'
  BY <1>1, <1>3, <1>4 DEF Types, Ids
<1>6. Place(T2)'
  BY <1>1 DEF Place
<1>7. \A b \in Buckets(size) : First(b)' = Nth(T2[b], 1)
  BY <1>1, <1>2 DEF First
<1>8. Shape(T2, W)'
  <2>1. \A b \in Buckets(size) : Linked(T2[b], First(b))'
    BY <1>1, <1>2, <1>7 DEF Linked
  <2>2. W \in [{} -> Seq(Ids)] /\ DOMAIN newTable' = {}
    BY <1>1, <1>3 DEF Shape
  <2> QED
    BY <1>1, <1>2, <2>1, <2>2 DEF Shape, Ids
<1>9. Apart(T2, W)'
  <2>1. ASSUME NEW b \in Buckets(size), NEW j \in DOMAIN T2[b], NEW k \in DOMAIN freed'
        PROVE  T2[b][j] # freed'[k]
    <3>1. CASE k = Len(freed) + 1
      <4>1. freed'[k] = current
        BY <1>4, <3>1, Zenon
      <4> QED
        BY <1>2, <4>1
    <3>2. CASE k # Len(freed) + 1
      <4>1. k \in DOMAIN freed /\ freed'[k] = freed[k]
        BY <1>4, <3>2
      <4>2. PICK m \in DOMAIN T[b] : T2[b][j] = T[b][m]
        BY <1>2
      <4> QED
        BY <1>2, <1>3, <4>1, <4>2 DEF Apart
    <3> QED
      BY <3>1, <3>2
  <2>2. DOMAIN W = {}
    BY <1>3 DEF Shape
  <2> QED
    BY <1>2, <1>3, <2>1, <2>2 DEF Apart, Unshared
<1> QED
  BY <1>5, <1>6, <1>8, <1>9 DEF Chained

\* free(symbolTable->table), after which there are no chains (test.y:166-168).
LEMMA FreeDoneHolds ==
  ASSUME NEW T, NEW W, Chained(T, W), FreeDone
  PROVE  Chained(<<>>, W)'
<1>1. /\ pc = "free" /\ table' = <<>> /\ pc' = "freed"
      /\ UNCHANGED <<entries, next, size, count, newTable, i, current, key, freed, answer>>
  BY DEF FreeDone
<1>2. Types /\ Shape(T, W) /\ Apart(T, W)
  BY DEF Chained
<1>3. Types' /\ Place(<<>>)'
  BY <1>1, <1>2 DEF Types, Place, Ids
<1>4. DOMAIN table' = {} /\ <<>> \in [{} -> Seq(Ids)] /\ newTable = <<>> /\ DOMAIN newTable = {}
  BY <1>1, <1>2 DEF Types
<1>5. Shape(<<>>, W)'
  BY <1>1, <1>2, <1>4 DEF Shape, Ids
<1>6. Apart(<<>>, W)'
  BY <1>1, <1>2 DEF Apart, Unshared
<1> QED
  BY <1>3, <1>5, <1>6 DEF Chained

\* table = newTable, size = newSize: the chains that were built are the
\* table's, and the old buckets have none left (test.y:132-136).
LEMMA RehashDoneHolds ==
  ASSUME NEW T, NEW W, Chained(T, W), RehashDone
  PROVE  Chained(W, <<>>)'
<1>1. /\ pc = "rehash" /\ i = size /\ table' = newTable /\ size' = 2 * size
      /\ newTable' = <<>> /\ pc' = "ready"
      /\ UNCHANGED <<entries, next, count, i, current, key, freed, answer>>
  BY DEF RehashDone
<1>2. Types /\ Shape(T, W) /\ Apart(T, W)
  BY DEF Chained
<1>3. newTable \in [Buckets(2 * size) -> Nat] /\ size \in Nat \ {0} /\ freed = <<>>
  BY <1>1, <1>2 DEF Types
<1>4. Types'
  <2>1. 2 * size \in Nat \ {0} /\ i \in 0..(2 * size)
    BY <1>1, <1>3
  <2> QED
    BY <1>1, <1>2, <1>3, <2>1 DEF Types, Ids
<1>5. Place(W)'
  BY <1>1 DEF Place
<1>6. \A b \in DOMAIN table' : First(b)' = newTable[b]
  BY <1>1 DEF First
<1>7. Shape(W, <<>>)'
  <2>1. \A b \in DOMAIN table' : Linked(W[b], First(b))'
    BY <1>1, <1>2, <1>6 DEF Shape, Linked
  <2>2. <<>> \in [{} -> Seq(Ids)] /\ DOMAIN newTable' = {}
    BY <1>1
  <2> QED
    BY <1>1, <1>2, <2>1, <2>2 DEF Shape, Ids
<1>8. Apart(W, <<>>)'
  BY <1>1, <1>2, <1>3 DEF Apart, Unshared
<1> QED
  BY <1>4, <1>5, <1>7, <1>8 DEF Chained

\* The new chains once the current entry is the first of the one for its name.
Moved(W, W2) ==
  LET n == myHash(entries[current].key, 2 * size)
  IN  Changed(W, n, <<current>> \o W[n], W2)

\* The body of the inner loop of the rehash: the first entry of the old chain
\* becomes the first of a new one (test.y:124-129).
LEMMA RehashMoveHolds ==
  ASSUME NEW T, NEW W, Chained(T, W), RehashMove,
         NEW T2, Changed(T, i, Tail(T[i]), T2), NEW W2, Moved(W, W2)
  PROVE  Chained(T2, W2)'
<1>n. PICK h : h = myHash(entries[current].key, 2 * size)
  OBVIOUS
<1>e. PICK e : e = current
  OBVIOUS
<1>c. Changed(W, h, <<e>> \o W[h], W2)
  BY <1>n, <1>e DEF Moved
<1>1. /\ pc = "move" /\ e # Nil /\ next' = [next EXCEPT ![e] = newTable[h]]
      /\ newTable' = [newTable EXCEPT ![h] = e]
      /\ current' = next[e] /\ pc' = pc
      /\ UNCHANGED <<entries, table, size, count, i, key, freed, answer>>
  BY <1>n, <1>e DEF RehashMove
<1>2. /\ i \in Buckets(size) /\ DOMAIN table = Buckets(size) /\ DOMAIN T = Buckets(size)
      /\ 1 \in DOMAIN T[i] /\ T[i][1] = e /\ e \in Ids
      /\ T2 \in [Buckets(size) -> Seq(Ids)] /\ Unshared(T2)
      /\ next[e] = Nth(T2[i], 1)
      /\ \A b \in Buckets(size) : b # i => T2[b] = T[b] /\ First(b) = Nth(T2[b], 1)
      /\ \A b \in Buckets(size) : \A j \in 1..Len(T2[b]) : next[T2[b][j]] = Nth(T2[b], j + 1)
      /\ \A b \in Buckets(size) : \A j \in DOMAIN T2[b] : T2[b][j] # e
      /\ \A b \in Buckets(size) : \A j \in DOMAIN T2[b] : \E k \in DOMAIN T[b] : T2[b][j] = T[b][k]
      /\ \A b \in Buckets(size) : Len(T2[b]) \in Nat /\ DOMAIN T2[b] = 1..Len(T2[b])
  BY <1>1, <1>e, TakeFirst
<1>3. Types /\ Shape(T, W) /\ Apart(T, W) /\ freed = <<>> /\ size \in Nat \ {0}
      /\ newTable \in [Buckets(2 * size) -> Nat] /\ DOMAIN newTable = Buckets(2 * size)
      /\ next \in Seq(Nat) /\ Len(next) = Len(entries)
  BY <1>1 DEF Chained, Types
<1>4. h \in Buckets(2 * size)
  <2>1. entries[e] \in Entry
    BY <1>2, OnChains
  <2>2. 2 * size \in Nat \ {0} /\ entries[e].key \in Keys
    BY <1>3, <2>1 DEF Entry
  <2> QED
    BY <1>n, <1>e, <2>2, HashInRange
<1>5. /\ Len(entries) \in Nat /\ Ids = 1..Len(entries) /\ Ids' = Ids /\ DOMAIN next = Ids
      /\ DOMAIN W = Buckets(2 * size)
      /\ \A b \in Buckets(2 * size) : /\ Len(W[b]) \in Nat /\ DOMAIN W[b] = 1..Len(W[b])
                                     /\ \A j \in 1..Len(W[b]) : W[b][j] \in Ids
  BY <1>1, <1>3, OnChains DEF Ids
<1>6. /\ W \in [Buckets(2 * size) -> Seq(Ids)] /\ Unshared(W)
      /\ \A b \in Buckets(2 * size) : Linked(W[b], newTable[b])
      /\ \A b \in Buckets(2 * size) : \A j \in DOMAIN W[b] : W[b][j] # e
  <2>1. ASSUME NEW b \in Buckets(2 * size), NEW j \in DOMAIN W[b] PROVE W[b][j] # e
    BY <1>2, <1>3, <1>5 DEF Apart
  <2> QED
    BY <1>3, <2>1 DEF Shape, Apart
<1>7. /\ next' \in Seq(Nat) /\ Len(next') = Len(next) /\ next'[e] = newTable[h]
      /\ \A m \in Ids : m # e => next'[m] = next[m]
  <2>1. newTable[h] \in Nat
    BY <1>3, <1>4
  <2> QED
    BY <1>1, <1>2, <1>3, <1>5, <2>1, ExceptSeq
<1>8. /\ newTable' \in [Buckets(2 * size) -> Nat] /\ newTable'[h] = e
      /\ \A b \in Buckets(2 * size) : b # h => newTable'[b] = newTable[b]
  <2>1. e \in Nat
    BY <1>2, <1>5
  <2> QED
    BY <1>1, <1>3, <1>4, <2>1
<1>9. /\ W2 \in [Buckets(2 * size) -> Seq(Ids)] /\ Unshared(W2)
      /\ \A b \in Buckets(2 * size) : \A j \in DOMAIN W2[b] :
           W2[b][j] = e \/ \E k \in DOMAIN W[b] : W2[b][j] = W[b][k]
  <2>1. PICK B, S : B = Buckets(2 * size) /\ S = Ids
    OBVIOUS
  <2>2. /\ W \in [B -> Seq(S)] /\ Unshared(W) /\ h \in B /\ e \in S
        /\ \A b \in B : \A j \in DOMAIN W[b] : W[b][j] # e
    BY <1>2, <1>4, <1>6, <2>1
  <2>3. /\ W2 \in [B -> Seq(S)] /\ Unshared(W2)
        /\ \A b \in B : \A j \in DOMAIN W2[b] :
             W2[b][j] = e \/ \E k \in DOMAIN W[b] : W2[b][j] = W[b][k]
    <3>1. PICK c : c = <<e>> \o W[h]
      OBVIOUS
    <3>2. Pushed(W[h], e, c) /\ Changed(W, h, c, W2)
      BY <1>c, <3>1 DEF Pushed
    <3>3. W2 \in [B -> Seq(S)] /\ Unshared(W2) /\ OnlyAdds(B, W, e, W2)
      BY <2>2, <3>2, PushUnshared
    <3> QED
      BY <3>3 DEF OnlyAdds
  <2> QED
    BY <2>1, <2>3
<1>10. /\ W2[h] = <<e>> \o W[h]
       /\ \A b \in Buckets(2 * size) : b # h => W2[b] = W[b]
  BY <1>4, <1>5, <1>c DEF Changed
<1>11. /\ Len(W2[h]) = Len(W[h]) + 1
       /\ \A j \in Nat \ {0} : Nth(W2[h], j) = IF j = 1 THEN e ELSE Nth(W[h], j - 1)
       /\ \A j \in 1..Len(W2[h]) : /\ j = 1 => W2[h][j] = e
                                   /\ j # 1 => j - 1 \in 1..Len(W[h]) /\ W2[h][j] = W[h][j - 1]
  <2>1. PICK c, d, S : c = W[h] /\ d = W2[h] /\ S = Ids
    OBVIOUS
  <2>2. c \in Seq(S) /\ Pushed(c, e, d) /\ e \in S
    BY <1>2, <1>4, <1>6, <1>10, <2>1 DEF Pushed
  <2>3. /\ Len(d) = Len(c) + 1 /\ DOMAIN d = 1..(Len(c) + 1) /\ DOMAIN c = 1..Len(c)
        /\ \A j \in Nat \ {0} : Nth(d, j) = IF j = 1 THEN e ELSE Nth(c, j - 1)
        /\ \A j \in DOMAIN d : /\ j = 1 => d[j] = e
                               /\ j # 1 => j - 1 \in DOMAIN c /\ d[j] = c[j - 1]
    BY <2>2, PushNth
  <2> QED
    BY <2>1, <2>3
<1>12. Types'
  BY <1>1, <1>3, <1>5, <1>7, <1>8 DEF Types
<1>13. Place(T2)'
  BY <1>1 DEF Place
<1>14. ASSUME NEW b \in Buckets(size) PROVE Linked(T2[b], First(b))'
  <2>1. First(b)' = Nth(T2[b], 1)
    BY <1>1, <1>2 DEF First
  <2>2. ASSUME NEW j \in 1..Len(T2[b]) PROVE next'[T2[b][j]] = Nth(T2[b], j + 1)
    <3>1. T2[b][j] # e /\ T2[b][j] \in Ids
      BY <1>2, ElementOfSeq
    <3> QED
      BY <1>2, <1>7, <3>1
  <2> QED
    BY <2>1, <2>2 DEF Linked
<1>15. ASSUME NEW b \in Buckets(2 * size) PROVE Linked(W2[b], newTable[b])'
  <2>0. /\ newTable[b] = Nth(W[b], 1)
        /\ \A j \in 1..Len(W[b]) : next[W[b][j]] = Nth(W[b], j + 1)
    BY <1>6 DEF Linked
  <2>3. \A j \in 1..Len(W[b]) : next'[W[b][j]] = Nth(W[b], j + 1)
    BY <1>5, <1>6, <1>7, <2>0
  <2>1. CASE b # h
    BY <1>8, <1>10, <2>0, <2>1, <2>3 DEF Linked
  <2>2. CASE b = h
    <3>1. newTable'[h] = Nth(W2[h], 1)
      BY <1>8, <1>11
    <3>2. ASSUME NEW j \in 1..Len(W2[h]) PROVE next'[W2[h][j]] = Nth(W2[h], j + 1)
      <4>0. j \in Nat \ {0} /\ j + 1 \in Nat \ {0} /\ j + 1 # 1 /\ (j + 1) - 1 = j
        BY <1>4, <1>5, <1>11
      <4>1. Nth(W2[h], j + 1) = Nth(W[h], j)
        BY <1>11, <4>0
      <4>2. CASE j = 1
        <5>1. W2[h][j] = e
          BY <1>11, <2>2, <4>2, Zenon
        <5>2. next'[e] = Nth(W[h], 1)
          BY <1>7, <2>0, <2>2
        <5> QED
          BY <4>1, <4>2, <5>1, <5>2
      <4>3. CASE j # 1
        <5>1. W2[h][j] = W[h][j - 1] /\ j - 1 \in 1..Len(W[h]) /\ (j - 1) + 1 = j
          BY <1>11, <4>0, <4>3
        <5> QED
          BY <2>2, <2>3, <4>1, <5>1
      <4> QED
        BY <4>2, <4>3
    <3> QED
      BY <2>2, <3>1, <3>2 DEF Linked
  <2> QED
    BY <2>1, <2>2
<1>16. Shape(T2, W2)'
  <2>1. DOMAIN newTable' = Buckets(2 * size) /\ DOMAIN table' = Buckets(size)
    BY <1>1, <1>2, <1>8
  <2> QED
    BY <1>2, <1>5, <1>9, <1>14, <1>15, <2>1 DEF Shape
<1>17. Apart(T2, W2)'
  <2>1. ASSUME NEW b \in Buckets(size), NEW d \in Buckets(2 * size),
               NEW j \in DOMAIN T2[b], NEW k \in DOMAIN W2[d]
        PROVE  T2[b][j] # W2[d][k]
    <3>1. PICK m \in DOMAIN T[b] : T2[b][j] = T[b][m]
      BY <1>2
    <3>2. T2[b][j] # e
      BY <1>2
    <3>3. ASSUME NEW l \in DOMAIN W[d] PROVE T[b][m] # W[d][l]
      BY <1>2, <1>3, <1>5 DEF Apart
    <3> QED
      BY <1>9, <3>1, <3>2, <3>3
  <2>2. DOMAIN freed' = {} /\ DOMAIN T2 = Buckets(size) /\ DOMAIN W2 = Buckets(2 * size)
    BY <1>1, <1>2, <1>3, <1>9
  <2> QED
    BY <1>2, <1>9, <2>1, <2>2 DEF Apart
<1> QED
  BY <1>12, <1>13, <1>16, <1>17 DEF Chained

-----------------------------------------------------------------------------
(* The invariant *)

\* createSymbolTable: no bucket has a chain (test.y:70-83).
LEMMA InitHolds == Init => IInv
<1> SUFFICES ASSUME Init PROVE IInv
  OBVIOUS
<1>1. PICK T : T = Emptied(InitialSize)
  OBVIOUS
<1>2. /\ InitialSize \in Nat \ {0} /\ size = InitialSize
      /\ table \in [Buckets(size) -> Nat] /\ DOMAIN table = Buckets(size)
      /\ \A b \in Buckets(size) : table[b] = Nil
  BY HeapAssumption DEF Init, Calloc, Buckets, Nil
<1>3. /\ T \in [Buckets(size) -> Seq(Ids)] /\ DOMAIN T = Buckets(size)
      /\ \A b \in Buckets(size) : T[b] = <<>> /\ DOMAIN T[b] = {}
  BY <1>1, <1>2 DEF Emptied
<1>4. /\ entries = <<>> /\ next = <<>> /\ newTable = <<>> /\ freed = <<>> /\ i = 0 /\ count = 0
      /\ pc = "ready"
  BY DEF Init
<1>5. Types
  BY <1>2, <1>4 DEF Types
<1>6. Shape(T, <<>>)
  <2>1. \A b \in Buckets(size) : Linked(T[b], First(b))
    BY <1>2, <1>3, <1>4 DEF Linked, First, Nth
  <2>2. <<>> \in [{} -> Seq(Ids)] /\ DOMAIN newTable = {}
    BY <1>4
  <2> QED
    BY <1>2, <1>3, <2>1, <2>2 DEF Shape
<1>7. Apart(T, <<>>)
  BY <1>3 DEF Apart, Unshared
<1>8. Place(T)
  BY <1>4 DEF Place
<1> QED
  BY <1>5, <1>6, <1>7, <1>8 DEF IInv, Chained

\* A step that changes nothing leaves the chains as they are.
LEMMA StutterHolds ==
  ASSUME NEW T, NEW W, Chained(T, W), UNCHANGED vars
  PROVE  Chained(T, W)'
<1>1. UNCHANGED <<entries, next, table, size, newTable, freed>>
  BY DEF vars
<1>2. Types'
  BY DEF vars, Chained, Types, Ids
<1>3. Place(T)'
  BY DEF vars, Chained, Place, myHash, Newest
<1>4. \A b \in DOMAIN table : First(b)' = First(b)
  BY DEF vars, First
<1> QED
  BY <1>1, <1>2, <1>3, <1>4, QuietHolds

\* Every step leaves chains.
LEMMA NextHolds ==
  ASSUME NEW T, NEW W, Chained(T, W), [Next]_vars
  PROVE  \E T2, W2 : Chained(T2, W2)'
<1>1. ASSUME NEW k \in Keys, NEW v \in Values, InsertCall(k, v)
      PROVE  \E T2, W2 : Chained(T2, W2)'
  <2>1. PICK T2 : LinkedOrNot(T, k, T2)
    BY DEF LinkedOrNot, Changed
  <2> QED
    BY <1>1, <2>1, InsertCallHolds
<1>2. CASE AppendLink
  <2>1. PICK T2 : LET h == myHash(entries[Newest].key, size)
                  IN  Changed(T, h, Append(T[h], Newest), T2)
    BY DEF Changed
  <2>2. Chained(T2, W)'
    BY <1>2, <2>1, AppendLinkHolds
  <2> QED
    BY <2>2
<1>3. CASE Count
  <2>1. PICK W2 : IF Overloaded(count + 1, size) THEN W2 = Emptied(2 * size) ELSE W2 = W
    OBVIOUS
  <2> QED
    BY <1>3, <2>1, CountHolds
<1>4. CASE RehashMove
  <2>1. PICK T2 : Changed(T, i, Tail(T[i]), T2)
    BY DEF Changed
  <2>2. PICK W2 : Moved(W, W2)
    BY DEF Moved, Changed
  <2> QED
    BY <1>4, <2>1, <2>2, RehashMoveHolds
<1>5. CASE FreeEntry
  <2>1. PICK T2 : Changed(T, i, Tail(T[i]), T2)
    BY DEF Changed
  <2> QED
    BY <1>5, <2>1, FreeEntryHolds
<1>6. CASE RehashDone
  BY <1>6, RehashDoneHolds
<1>7. CASE FreeDone
  BY <1>7, FreeDoneHolds
<1>8. CASE AppendWalk
  BY <1>8, AppendWalkHolds
<1>9. CASE RehashBucket \/ RehashNextBucket \/ FreeCall \/ FreeBucket \/ FreeNextBucket
  BY <1>9, LoopHolds
<1>10. CASE (\E k \in Keys : LookupCall(k)) \/ LookupNext \/ LookupReturn
  BY <1>10, LookupHolds
<1>11. CASE Stopped \/ UNCHANGED vars
  BY <1>11, StutterHolds DEF Stopped
<1> QED
  BY <1>1, <1>2, <1>3, <1>4, <1>5, <1>6, <1>7, <1>8, <1>9, <1>10, <1>11 DEF Next, Internal

\* Whatever insert, lookup and freeSymbolTable have done, every entry the code
\* can get to is on one chain, once (test.y:97-168).
THEOREM ChainsApart == Spec => []IInv
<1>1. ASSUME IInv, [Next]_vars PROVE IInv'
  <2>1. PICK T, W : Chained(T, W)
    BY <1>1 DEF IInv
  <2> QED
    BY <1>1, <2>1, NextHolds DEF IInv
<1> QED
  BY InitHolds, <1>1, PTL DEF Spec

-----------------------------------------------------------------------------
(* What the code can follow *)

\* d is the chain c from its n-th entry on.
Rest(c, n, d) ==
  /\ Linked(d, Nth(c, n))
  /\ DOMAIN d = 1..(Len(c) - n + 1)
  /\ \A j \in DOMAIN d : j + n - 1 \in DOMAIN c /\ d[j] = c[j + n - 1]

\* The rest of a chain, from one of its entries on, or from its end.
LEMMA RestLinked ==
  ASSUME NEW S, NEW c \in Seq(S), NEW p, Linked(c, p), NEW n \in 1..(Len(c) + 1)
  PROVE  \E d \in Seq(S) : Rest(c, n, d)
<1> DEFINE m == Len(c) - n + 1
<1>1. Len(c) \in Nat /\ DOMAIN c = 1..Len(c) /\ \A j \in 1..Len(c) : c[j] \in S
  BY LenProperties, ElementOfSeq
<1>2. m \in Nat /\ n \in Nat \ {0} /\ m + n = Len(c) + 1
  BY <1>1
<1>3. PICK d : d = [j \in 1..m |-> c[j + n - 1]]
  OBVIOUS
<1>4. \A j \in 1..m : j + n - 1 \in 1..Len(c)
  BY <1>1, <1>2
<1>5. d \in Seq(S) /\ Len(d) = m /\ DOMAIN d = 1..m /\ \A j \in 1..m : d[j] = c[j + n - 1]
  <2>1. \A j \in 1..m : c[j + n - 1] \in S
    BY <1>1, <1>4
  <2>2. d \in [1..m -> S]
    BY <1>3, <2>1
  <2> HIDE DEF m
  <2> QED
    BY <1>2, <1>3, <2>2
<1>6. ASSUME NEW j \in Nat \ {0} PROVE Nth(d, j) = Nth(c, j + n - 1)
  <2>1. j \in 1..m <=> j + n - 1 \in 1..Len(c)
    BY <1>1, <1>2
  <2> HIDE DEF m
  <2> QED
    BY <1>5, <2>1 DEF Nth
<1>7. Linked(d, Nth(c, n))
  <2>1. Nth(d, 1) = Nth(c, n)
    <3>1. 1 + n - 1 = n /\ 1 \in Nat \ {0}
      BY <1>2
    <3> QED
      BY <1>6, <3>1
  <2>2. ASSUME NEW j \in 1..m PROVE next[d[j]] = Nth(d, j + 1)
    <3>1. /\ j + n - 1 \in 1..Len(c) /\ j + 1 \in Nat \ {0}
          /\ (j + 1) + n - 1 = (j + n - 1) + 1
      BY <1>2, <1>4
    <3>2. next[c[j + n - 1]] = Nth(c, (j + n - 1) + 1)
      BY <3>1 DEF Linked
    <3>3. Nth(d, j + 1) = Nth(c, (j + 1) + n - 1)
      BY <1>6, <3>1
    <3> HIDE DEF m
    <3> QED
      BY <1>5, <3>1, <3>2, <3>3
  <2> HIDE DEF m
  <2> QED
    BY <1>5, <2>1, <2>2 DEF Linked
<1> QED
  BY <1>1, <1>4, <1>5, <1>7 DEF Rest

\* The pointer p begins a chain of entries that are allocated and on it once.
Sound(p) ==
  \E c \in Seq(Ids) : /\ Linked(c, p)
                      /\ \A j, k \in DOMAIN c : c[j] = c[k] => j = k
                      /\ \A j \in DOMAIN c, k \in DOMAIN freed : c[j] # freed[k]

\* The rest of a chain of the table is sound.
LEMMA RestSound ==
  ASSUME NEW T, NEW W, Chained(T, W), NEW h \in DOMAIN table, NEW n \in 1..(Len(T[h]) + 1)
  PROVE  Sound(Nth(T[h], n))
<1>1. PICK c : c = T[h]
  OBVIOUS
<1>2. c \in Seq(Ids) /\ Linked(c, First(h)) /\ Len(c) \in Nat /\ DOMAIN c = 1..Len(c)
  BY <1>1, OnChains DEF Chained, Shape
<1>3. /\ \A j, k \in DOMAIN c : c[j] = c[k] => j = k
      /\ \A j \in DOMAIN c, k \in DOMAIN freed : c[j] # freed[k]
  <2>1. h \in DOMAIN T /\ Apart(T, W)
    BY OnChains DEF Chained
  <2> QED
    BY <1>1, <2>1 DEF Apart, Unshared
<1>4. PICK d \in Seq(Ids) : /\ Linked(d, Nth(c, n))
                            /\ DOMAIN d = 1..(Len(c) - n + 1)
                            /\ \A j \in DOMAIN d : j + n - 1 \in DOMAIN c /\ d[j] = c[j + n - 1]
  <2>1. n \in 1..(Len(c) + 1)
    BY <1>1
  <2>2. \E d \in Seq(Ids) : Rest(c, n, d)
    BY <1>2, <2>1, RestLinked
  <2> QED
    BY <2>2 DEF Rest
<1>5. ASSUME NEW j \in DOMAIN d, NEW k \in DOMAIN d, d[j] = d[k] PROVE j = k
  <2>1. j + n - 1 = k + n - 1
    BY <1>3, <1>4, <1>5
  <2> QED
    BY <1>1, <1>2, <1>4, <2>1
<1>6. \A j \in DOMAIN d, k \in DOMAIN freed : d[j] # freed[k]
  BY <1>3, <1>4
<1> QED
  BY <1>1, <1>4, <1>5, <1>6 DEF Sound

\* Every root begins a sound chain.
LEMMA RootsSound ==
  ASSUME NEW T, NEW W, Chained(T, W), NEW p \in Roots
  PROVE  Sound(p)
<1>1. /\ DOMAIN T = DOMAIN table /\ DOMAIN W = DOMAIN newTable
      /\ \A b \in DOMAIN T : T[b] \in Seq(Ids) /\ Len(T[b]) \in Nat /\ DOMAIN T[b] = 1..Len(T[b])
      /\ \A b \in DOMAIN W : W[b] \in Seq(Ids)
  BY OnChains
<1>2. Types /\ Shape(T, W) /\ Apart(T, W) /\ Place(T)
  BY DEF Chained
<1>3. ASSUME NEW b \in DOMAIN table, p = First(b) PROVE Sound(p)
  <2>1. Linked(T[b], First(b))
    BY <1>2 DEF Shape
  <2>2. 1 \in 1..(Len(T[b]) + 1) /\ Nth(T[b], 1) = First(b)
    BY <1>1, <2>1 DEF Linked
  <2> QED
    BY <1>3, <2>2, RestSound
<1>4. ASSUME NEW b \in DOMAIN newTable, p = newTable[b] PROVE Sound(p)
  <2>1. Linked(W[b], newTable[b]) /\ W[b] \in Seq(Ids)
    BY <1>1, <1>2 DEF Shape
  <2>2. \A j, k \in DOMAIN W[b] : W[b][j] = W[b][k] => j = k
    BY <1>1, <1>2 DEF Apart, Unshared
  <2>3. freed = <<>>
    BY <1>2 DEF Types
  <2> QED
    BY <1>4, <2>1, <2>2, <2>3 DEF Sound
<1>5. CASE p = current /\ pc \in {"move", "chain"}
  <2>1. i \in DOMAIN table
    BY <1>2, <1>5 DEF Types, Buckets
  <2>2. First(i) = p
    BY <1>5 DEF First
  <2> QED
    BY <1>3, <2>1, <2>2
<1>6. CASE p = current /\ pc = "append"
  <2>1. PICK h : h = myHash(entries[Newest].key, size)
    OBVIOUS
  <2>2. h \in DOMAIN table
    BY <1>6, <2>1, NewestHome
  <2>3. PICK j \in DOMAIN T[h] : T[h][j] = p
    BY <1>2, <1>6, <2>1 DEF Place
  <2>4. j \in 1..(Len(T[h]) + 1) /\ Nth(T[h], j) = p
    BY <1>1, <2>2, <2>3 DEF Nth
  <2> QED
    BY <2>2, <2>4, RestSound
<1>7. CASE p = current /\ pc = "search"
  <2>1. PICK h : h = myHash(key, size)
    OBVIOUS
  <2>2. h \in DOMAIN table
    BY <1>2, <1>7, <2>1, HashInRange DEF Types
  <2>3. PICK n \in 1..(Len(T[h]) + 1) : p = Nth(T[h], n)
    BY <1>2, <1>7, <2>1 DEF Place
  <2> QED
    BY <2>2, <2>3, RestSound
<1>8. ASSUME NEW b \in DOMAIN table, p = table[b],
             b >= IF pc \in {"rehash", "free"} THEN i
                  ELSE IF pc \in {"move", "chain"} THEN i + 1 ELSE 0
      PROVE  p = First(b)
  <2>1. pc # "freed"
    BY <1>2 DEF Types
  <2>2. b \in 0..(size - 1) /\ i \in 0..size /\ size \in Nat
    BY <1>2, <2>1 DEF Types, Buckets
  <2> QED
    BY <1>8, <2>2 DEF First
<1> QED
  BY <1>3, <1>4, <1>5, <1>6, <1>7, <1>8 DEF Roots

\* From a sound pointer the walk ends and meets no entry that was freed.
LEMMA SoundWalk ==
  ASSUME Types, NEW p, Sound(p)
  PROVE  /\ Ends(p)
         /\ \A n \in 0..Len(entries) : \A j \in DOMAIN freed : Reached(p)[n] # freed[j]
<1>1. PICK c \in Seq(Ids) : /\ Linked(c, p)
                            /\ \A j, k \in DOMAIN c : c[j] = c[k] => j = k
                            /\ \A j \in DOMAIN c, k \in DOMAIN freed : c[j] # freed[k]
  BY DEF Sound
<1>2. PICK N : N = Len(entries)
  OBVIOUS
<1>3. N \in Nat /\ Ids = 1..N
  BY <1>2, LenProperties DEF Types, Ids
<1>4. Len(c) <= N
  BY <1>1, <1>3, NoLonger
<1>5. Ends(p)
  BY <1>1, <1>2, <1>3, <1>4, ChainFound
<1>6. \A n \in 0..N : Reached(p)[n] = Nth(c, n + 1)
  BY <1>1, <1>2, <1>3, <1>4, ReachedOnChain
<1>7. ASSUME NEW n \in 0..N, NEW j \in DOMAIN freed PROVE Reached(p)[n] # freed[j]
  <2>1. freed[j] # Nil
    <3>1. freed \in Seq(Ids) /\ j \in 1..Len(freed)
      BY LenProperties DEF Types
    <3>2. freed[j] \in Ids
      BY <3>1, ElementOfSeq
    <3> QED
      BY <1>3, <3>2 DEF Nil
  <2>2. DOMAIN c = 1..Len(c)
    BY LenProperties
  <2> QED
    BY <1>1, <1>6, <2>1, <2>2 DEF Nth
<1> QED
  BY <1>2, <1>5, <1>7

\* Every loop on current->next terminates, and none reads an entry that was
\* freed.
LEMMA RootsSafe == IInv => ChainsEnd /\ NothingFreedIsReached
<1> SUFFICES ASSUME IInv PROVE ChainsEnd /\ NothingFreedIsReached
  OBVIOUS
<1>1. PICK T, W : Chained(T, W)
  BY DEF IInv
<1>2. Types
  BY <1>1 DEF Chained
<1>3. \A p \in Roots : Sound(p)
  BY <1>1, RootsSound
<1> QED
  BY <1>2, <1>3, SoundWalk DEF ChainsEnd, NothingFreedIsReached

\* The chains end, also those a half-done rehash has cut and joined
\* (test.y:107, 124, 159).
THEOREM LoopsTerminate == Spec => []ChainsEnd
  BY ChainsApart, RootsSafe, PTL

\* No pointer the code may still follow leads to an entry given to free
\* (test.y:159-164).
THEOREM FreedIsOutOfReach == Spec => []NothingFreedIsReached
  BY ChainsApart, RootsSafe, PTL

-----------------------------------------------------------------------------
(* The chains are those of SymbolTable *)

\* The entries SymbolTable sees: all, less the one that is not counted.
EntriesSeen ==
  IF pc \in {"append", "count"}
  THEN EntriesNow \in Seq(Entry) /\ entries = Append(EntriesNow, entries[Newest])
  ELSE EntriesNow = entries

\* What the chains of a state are to SymbolTable: all of them, less the entry
\* that is linked and not counted.
Maps(T, W) ==
  /\ EntriesSeen
  /\ NewTableNow = W
  /\ pc # "count" => TableNow = T
  /\ pc = "count" =>
       LET h == myHash(entries[Newest].key, size)
       IN  /\ TableNow \in [Buckets(size) -> Seq(Ids)]
           /\ Changed(TableNow, h, Append(TableNow[h], Newest), T)

\* Chain reads the chains of the two tables.
LEMMA ChainsRead ==
  ASSUME NEW T, NEW W, Chained(T, W)
  PROVE  /\ \A b \in DOMAIN table : Chain(First(b)) = T[b]
         /\ \A b \in DOMAIN newTable : Chain(newTable[b]) = W[b]
<1>1. /\ DOMAIN T = DOMAIN table /\ DOMAIN W = DOMAIN newTable
      /\ Len(entries) \in Nat /\ Ids = 1..Len(entries)
      /\ \A b \in DOMAIN T : T[b] \in Seq(Ids)
      /\ \A b \in DOMAIN W : W[b] \in Seq(Ids)
  BY OnChains
<1>2. Shape(T, W) /\ Unshared(T) /\ Unshared(W)
  BY DEF Chained, Apart
<1>3. PICK N : N = Len(entries)
  OBVIOUS
<1>4. ASSUME NEW c \in Seq(Ids), NEW p, Linked(c, p), \A j, k \in DOMAIN c : c[j] = c[k] => j = k
      PROVE  Chain(p) = c
  <2>1. N \in Nat /\ c \in Seq(1..N)
    BY <1>1, <1>3
  <2>2. Len(c) <= N
    BY <1>4, <2>1, NoLonger
  <2> QED
    BY <1>3, <1>4, <2>1, <2>2, ChainFound
<1>5. ASSUME NEW b \in DOMAIN table PROVE Chain(First(b)) = T[b]
  <2>1. Linked(T[b], First(b)) /\ T[b] \in Seq(Ids)
    BY <1>1, <1>2 DEF Shape
  <2>2. \A j, k \in DOMAIN T[b] : T[b][j] = T[b][k] => j = k
    BY <1>1, <1>2 DEF Unshared
  <2> QED
    BY <1>4, <2>1, <2>2
<1>6. ASSUME NEW b \in DOMAIN newTable PROVE Chain(newTable[b]) = W[b]
  <2>1. Linked(W[b], newTable[b]) /\ W[b] \in Seq(Ids)
    BY <1>1, <1>2 DEF Shape
  <2>2. \A j, k \in DOMAIN W[b] : W[b][j] = W[b][k] => j = k
    BY <1>1, <1>2 DEF Unshared
  <2> QED
    BY <1>4, <2>1, <2>2
<1> QED
  BY <1>5, <1>6

\* A chain without its last entry, and with it again.
LEMMA LastOff ==
  ASSUME NEW S, NEW c \in Seq(S), c # <<>>
  PROVE  /\ SubSeq(c, 1, Len(c) - 1) \in Seq(S)
         /\ c = Append(SubSeq(c, 1, Len(c) - 1), c[Len(c)])
         /\ Len(c) \in Nat \ {0}
<1>1. Len(c) \in Nat \ {0} /\ DOMAIN c = 1..Len(c) /\ \A j \in 1..Len(c) : c[j] \in S
  BY LenProperties, EmptySeq, ElementOfSeq
<1>2. PICK d : d = SubSeq(c, 1, Len(c) - 1)
  OBVIOUS
<1>3. /\ d \in Seq(S) /\ Len(d) = Len(c) - 1
      /\ \A j \in 1..(Len(c) - 1) : d[j] = c[j]
  <2>1. 1 \in 1..(Len(c) + 1) /\ Len(c) - 1 \in 0..Len(c)
    BY <1>1
  <2>2. /\ d \in Seq(S) /\ Len(d) = (IF 1 <= Len(c) - 1 THEN (Len(c) - 1) - 1 + 1 ELSE 0)
        /\ \A j \in 1..((Len(c) - 1) - 1 + 1) : d[j] = c[1 + j - 1]
    BY <1>2, <2>1, SubSeqProperties
  <2>3. /\ (Len(c) - 1) - 1 + 1 = Len(c) - 1
        /\ \A j \in 1..(Len(c) - 1) : 1 + j - 1 = j
        /\ ~(1 <= Len(c) - 1) => Len(c) - 1 = 0
    BY <1>1
  <2>4. Len(d) = Len(c) - 1
    BY <2>2, <2>3
  <2>5. ASSUME NEW j \in 1..(Len(c) - 1) PROVE d[j] = c[j]
    <3>1. d[j] = c[1 + j - 1]
      BY <2>2, <2>3
    <3> QED
      BY <2>3, <3>1
  <2> QED
    BY <2>2, <2>4, <2>5
<1>4. PICK f : f = Append(d, c[Len(c)])
  OBVIOUS
<1>5. /\ f \in Seq(S) /\ Len(f) = Len(c) /\ f[Len(c)] = c[Len(c)]
      /\ \A j \in 1..(Len(c) - 1) : f[j] = d[j]
  <2>1. c[Len(c)] \in S
    BY <1>1
  <2>2. /\ f \in Seq(S) /\ Len(f) = Len(d) + 1 /\ f[Len(d) + 1] = c[Len(c)]
        /\ \A j \in 1..Len(d) : f[j] = d[j]
    BY <1>3, <1>4, <2>1, AppendProperties
  <2> QED
    BY <1>1, <1>3, <2>2
<1>6. \A j \in 1..Len(c) : f[j] = c[j]
  BY <1>1, <1>3, <1>5
<1>7. f = c
  BY <1>5, <1>6, SeqEqual
<1> QED
  BY <1>1, <1>2, <1>3, <1>4, <1>7

\* What the mapping makes of the list of entries.
LEMMA EntriesRead == Types => EntriesSeen
<1> SUFFICES ASSUME Types PROVE EntriesSeen
  OBVIOUS
<1>1. CASE pc \notin {"append", "count"}
  BY <1>1 DEF EntriesNow, Pending, EntriesSeen
<1>2. CASE pc \in {"append", "count"}
  <2>1. EntriesNow = SubSeq(entries, 1, Len(entries) - 1)
    BY <1>2 DEF EntriesNow, Pending
  <2>2. PICK c, d : c = entries /\ d = EntriesNow
    OBVIOUS
  <2>3. c \in Seq(Entry) /\ c # <<>> /\ d = SubSeq(c, 1, Len(c) - 1)
    BY <1>2, <2>1, <2>2 DEF Types
  <2>4. d \in Seq(Entry) /\ c = Append(d, c[Len(c)])
    BY <2>3, LastOff
  <2> QED
    BY <1>2, <2>2, <2>4 DEF Newest, EntriesSeen
<1> QED
  BY <1>1, <1>2

\* The refinement mapping reads the chains.
LEMMA MappingReads == \A T, W : Chained(T, W) => Maps(T, W)
<1> SUFFICES ASSUME NEW T, NEW W, Chained(T, W) PROVE Maps(T, W)
  OBVIOUS
<1>1. /\ DOMAIN T = DOMAIN table /\ DOMAIN W = DOMAIN newTable
      /\ \A b \in DOMAIN T : /\ T[b] \in Seq(Ids) /\ Len(T[b]) \in Nat
                            /\ DOMAIN T[b] = 1..Len(T[b])
      /\ T \in [DOMAIN table -> Seq(Ids)] /\ W \in [DOMAIN newTable -> Seq(Ids)]
  BY OnChains DEF Chained, Shape
<1>2. /\ \A b \in DOMAIN table : Chain(First(b)) = T[b]
      /\ \A b \in DOMAIN newTable : Chain(newTable[b]) = W[b]
  BY ChainsRead
<1>3. NewTableNow = W /\ EntriesSeen
  <2>1. Types => EntriesSeen
    BY EntriesRead
  <2> QED
    BY <1>1, <1>2, <2>1 DEF NewTableNow, Chained
<1>4. ASSUME NEW b \in DOMAIN table
      PROVE  ChainNow(b) = IF pc \in {"append", "count"} THEN Counted(T[b]) ELSE T[b]
  <2>1. CASE pc \in {"move", "chain"} /\ b = i
    BY <1>2, <2>1 DEF ChainNow, First
  <2>2. CASE pc \in {"rehash", "free", "move", "chain"} /\ b < i /\ ~(pc \in {"move", "chain"} /\ b = i)
    <3>1. First(b) = Nil /\ Linked(T[b], Nil)
      BY <2>2 DEF First, Chained, Shape
    <3>2. T[b] = <<>>
      <4>1. Nth(T[b], 1) = Nil /\ \A j \in 1..Len(T[b]) : T[b][j] \in Ids
        BY <1>1, <3>1, ElementOfSeq DEF Linked
      <4>2. Len(T[b]) = 0
        BY <1>1, <4>1, OnChains DEF Nth, Nil
      <4> QED
        BY <1>1, <4>2, EmptySeq
    <3> QED
      BY <2>2, <3>2 DEF ChainNow
  <2>3. CASE ~(pc \in {"move", "chain"} /\ b = i) /\ ~(pc \in {"rehash", "free", "move", "chain"} /\ b < i)
    <3>1. First(b) = table[b]
      BY <2>3 DEF First
    <3>2. ChainNow(b) = Counted(T[b])
      BY <1>2, <2>3, <3>1 DEF ChainNow
    <3> QED
      BY <3>2 DEF Counted, Pending
  <2> QED
    BY <2>1, <2>2, <2>3
<1>5. ASSUME pc # "count", NEW b \in DOMAIN table PROVE ChainNow(b) = T[b]
  <2>1. CASE pc # "append"
    BY <1>4, <1>5, <2>1
  <2>2. CASE pc = "append"
    <3>1. \A j \in DOMAIN T[b] : T[b][j] # Newest
      BY <1>1, <2>2 DEF Chained, Place
    <3>2. T[b] # <<>> => Len(T[b]) \in DOMAIN T[b]
      BY <1>1, EmptySeq
    <3>3. Counted(T[b]) = T[b]
      BY <2>2, <3>1, <3>2 DEF Counted, Pending
    <3> QED
      BY <1>4, <2>2, <3>3
  <2> QED
    BY <2>1, <2>2
<1>6. pc # "count" => TableNow = T
  BY <1>1, <1>5 DEF TableNow
<1>7. ASSUME pc = "count", NEW h, h = myHash(entries[Newest].key, size)
      PROVE  /\ TableNow \in [Buckets(size) -> Seq(Ids)]
             /\ Changed(TableNow, h, Append(TableNow[h], Newest), T)
  <2>0. PICK g : g = h
    OBVIOUS
  <2>1. g \in DOMAIN table /\ DOMAIN table = Buckets(size)
    BY <1>7, <2>0, NewestHome
  <2>2. T[g] # <<>> /\ T[g][Len(T[g])] = Newest
    BY <1>7, <2>0 DEF Chained, Place
  <2>3. ASSUME NEW b \in DOMAIN table, b # g PROVE ChainNow(b) = T[b]
    <3>1. T[b] # <<>> => T[b][Len(T[b])] # Newest
      <4>1. ASSUME T[b] # <<>>, T[b][Len(T[b])] = Newest PROVE FALSE
        <5>1. Len(T[b]) \in DOMAIN T[b] /\ Len(T[g]) \in DOMAIN T[g] /\ b \in DOMAIN T /\ g \in DOMAIN T
          BY <1>1, <2>1, <2>2, <4>1, EmptySeq
        <5>2. Unshared(T)
          BY DEF Chained, Apart
        <5>3. T[b][Len(T[b])] = T[g][Len(T[g])]
          BY <2>2, <4>1
        <5> QED
          BY <2>3, <5>1, <5>2, <5>3 DEF Unshared
      <4> QED
        BY <4>1
    <3>2. Counted(T[b]) = T[b]
      BY <1>7, <3>1 DEF Counted, Pending
    <3> QED
      BY <1>4, <1>7, <3>2
  <2>4. PICK c : c = ChainNow(g)
    OBVIOUS
  <2>5. c = SubSeq(T[g], 1, Len(T[g]) - 1)
    BY <1>4, <1>7, <2>1, <2>2, <2>4 DEF Counted, Pending
  <2>6. c \in Seq(Ids) /\ T[g] = Append(c, Newest)
    BY <1>1, <2>1, <2>2, <2>5, LastOff
  <2>7. /\ TableNow \in [Buckets(size) -> Seq(Ids)] /\ TableNow[g] = c
        /\ \A b \in Buckets(size) : b # g => TableNow[b] = T[b]
    BY <1>1, <2>1, <2>3, <2>4, <2>6 DEF TableNow
  <2>8. T = [TableNow EXCEPT ![g] = Append(c, Newest)]
    BY <1>1, <2>1, <2>6, <2>7
  <2>9. T = [TableNow EXCEPT ![g] = Append(TableNow[g], Newest)]
    BY <2>7, <2>8
  <2> QED
    BY <2>0, <2>7, <2>9 DEF Changed
<1> QED
  BY <1>3, <1>6, <1>7 DEF Maps

\* And in the next state.
LEMMA MappingReadsAfter == \A T, W : Chained(T, W)' => Maps(T, W)'
<1>1. (\A T, W : Chained(T, W) => Maps(T, W))'
  BY MappingReads, PTL
<1> QED
  BY <1>1

\* The chains before an entry was appended can be told from those after.
LEMMA ChangedBack ==
  ASSUME NEW S, NEW B, NEW t \in [B -> Seq(S)], NEW u \in [B -> Seq(S)], NEW h \in B,
         NEW e \in S, NEW T2,
         Changed(t, h, Append(t[h], e), T2), Changed(u, h, Append(u[h], e), T2)
  PROVE  t = u
<1>1. \A b \in B : b # h => t[b] = T2[b] /\ u[b] = T2[b]
  BY DEF Changed
<1>2. Append(t[h], e) = T2[h] /\ Append(u[h], e) = T2[h]
  BY DEF Changed
<1>3. t[h] \in Seq(S) /\ u[h] \in Seq(S)
  OBVIOUS
<1>4. t[h] = u[h]
  BY <1>2, <1>3, AppendInjective
<1>5. \A b \in B : t[b] = u[b]
  BY <1>1, <1>4
<1> QED
  BY <1>5

\* An insertion is not seen before its entry is counted (test.y:97-110).
LEMMA InsertCallMaps ==
  ASSUME NEW T, NEW W, Chained(T, W), NEW k \in Keys, NEW v \in Values, InsertCall(k, v)
  PROVE  UNCHANGED Abstract!vars
<1>1. PICK T2 : LinkedOrNot(T, k, T2)
  BY DEF LinkedOrNot, Changed
<1>2. Chained(T2, W)'
  BY <1>1, InsertCallHolds
<1>3. Maps(T, W) /\ Maps(T2, W)'
  BY <1>2, MappingReads, MappingReadsAfter
<1>4. /\ pc = "ready" /\ pc' \in {"append", "count"}
      /\ entries' = Append(entries, [key |-> k, value |-> v])
      /\ UNCHANGED <<size, count, newTable, i, freed, answer>>
  BY DEF InsertCall
<1>5. TableNow = T /\ NewTableNow = W /\ NewTableNow' = W /\ EntriesNow = entries
  BY <1>3, <1>4 DEF Maps, EntriesSeen
<1>6. /\ entries \in Seq(Entry) /\ size \in Nat \ {0} /\ DOMAIN table = Buckets(size)
      /\ T \in [Buckets(size) -> Seq(Ids)] /\ entries' \in Seq(Entry)
  BY <1>2, <1>4 DEF Chained, Types, Shape
<1>7. EntriesNow' = EntriesNow
  <2>1. EntriesNow' \in Seq(Entry) /\ entries' = Append(EntriesNow', entries'[Newest'])
    BY <1>3, <1>4 DEF Maps, EntriesSeen
  <2>2. [key |-> k, value |-> v] \in Entry
    BY DEF Entry
  <2>3. entries'[Newest'] \in Entry
    <3>1. Newest' = Len(entries) + 1 /\ Len(entries) \in Nat
      BY <1>4, <1>6, <2>2, AppendProperties, LenProperties DEF Newest
    <3> QED
      BY <1>4, <1>6, <2>2, <3>1, AppendProperties
  <2>4. Append(EntriesNow', entries'[Newest']) = Append(entries, [key |-> k, value |-> v])
    BY <1>4, <2>1, Zenon
  <2>5. EntriesNow' = entries
    <3>1. PICK s \in Seq(Entry), x \in Entry : s = EntriesNow' /\ x = entries'[Newest']
      BY <2>1, <2>3, Zenon
    <3>2. PICK y \in Entry : y = [key |-> k, value |-> v]
      BY <2>2, Zenon
    <3>3. Append(s, x) = Append(entries, y)
      BY <2>4, <3>1, <3>2, Zenon
    <3>4. s = entries
      BY <1>6, <3>3, AppendInjective
    <3> QED
      BY <3>1, <3>4, Zenon
  <2> QED
    BY <1>5, <2>5, Zenon
<1>8. TableNow' = T
  <2>1. CASE pc' = "append"
    <3>1. TableNow' = T2
      BY <1>3, <2>1 DEF Maps
    <3>2. table[myHash(k, size)] # Nil
      BY <2>1 DEF InsertCall
    <3> QED
      BY <1>1, <3>1, <3>2 DEF LinkedOrNot
  <2>2. CASE pc' = "count"
    <3>1. PICK h, e, S, B, u : /\ h = myHash(k, size) /\ e = Len(entries) + 1 /\ S = Ids'
                               /\ B = Buckets(size) /\ u = TableNow'
      OBVIOUS
    <3>2. table[myHash(k, size)] = Nil
      BY <2>2 DEF InsertCall
    <3>3. Changed(T, h, Append(T[h], e), T2)
      BY <1>1, <3>1, <3>2 DEF LinkedOrNot
    <3>4. /\ Len(entries') = Len(entries) + 1 /\ entries'[Len(entries) + 1] = [key |-> k, value |-> v]
          /\ Len(entries) \in Nat
      <4>1. [key |-> k, value |-> v] \in Entry
        BY DEF Entry
      <4> QED
        BY <1>4, <1>6, <4>1, AppendProperties, LenProperties
    <3>5. Newest' = e /\ myHash(entries[Newest].key, size)' = h
      BY <1>4, <3>1, <3>4 DEF Newest, myHash
    <3>6. u \in [B -> Seq(S)] /\ Changed(u, h, Append(u[h], e), T2)
      BY <1>3, <1>4, <2>2, <3>1, <3>5 DEF Maps
    <3>7. h \in B /\ e \in S /\ T \in [B -> Seq(S)]
      <4>1. Ids \subseteq S /\ e \in S
        BY <3>1, <3>4 DEF Ids
      <4>2. \A b \in B : T[b] \in Seq(S)
        BY <1>6, <3>1, <4>1, SeqMonotonic
      <4>3. T \in [B -> Seq(S)]
        BY <1>6, <3>1, <4>2
      <4> QED
        BY <1>6, <3>1, <4>1, <4>3, HashInRange
    <3>8. u = T
      BY <3>3, <3>6, <3>7, ChangedBack
    <3> QED
      BY <3>1, <3>8
  <2> QED
    BY <1>4, <2>1, <2>2
<1> QED
  BY <1>4, <1>5, <1>7, <1>8 DEF Abstract!vars, PcNow

\* Nor when it is linked behind its chain (test.y:106-110).
LEMMA AppendLinkMaps ==
  ASSUME NEW T, NEW W, Chained(T, W), AppendLink
  PROVE  UNCHANGED Abstract!vars
<1>1. PICK T2 : LET h == myHash(entries[Newest].key, size)
                IN  Changed(T, h, Append(T[h], Newest), T2)
  BY DEF Changed
<1>2. Chained(T2, W)'
  BY <1>1, AppendLinkHolds
<1>3. Maps(T, W) /\ Maps(T2, W)'
  BY <1>2, MappingReads, MappingReadsAfter
<1>4. /\ pc = "append" /\ pc' = "count"
      /\ UNCHANGED <<entries, table, size, count, newTable, i, current, key, freed, answer>>
  BY DEF AppendLink
<1>5. TableNow = T /\ NewTableNow = W /\ NewTableNow' = W
  BY <1>3, <1>4 DEF Maps
<1>6. /\ entries \in Seq(Entry) /\ size \in Nat \ {0} /\ DOMAIN table = Buckets(size)
      /\ T \in [Buckets(size) -> Seq(Ids)] /\ Ids' = Ids
  BY <1>4 DEF Chained, Types, Shape, Ids
<1>7. Newest \in Ids /\ Newest' = Newest /\ entries[Newest] \in Entry
      /\ myHash(entries[Newest].key, size) \in Buckets(size)
      /\ myHash(entries[Newest].key, size)' = myHash(entries[Newest].key, size)
  BY <1>4, <1>6, NewestHome, OnChains DEF Newest, myHash
<1>8. EntriesNow' = EntriesNow
  <2>1. EntriesNow \in Seq(Entry) /\ entries = Append(EntriesNow, entries[Newest])
    BY <1>3, <1>4 DEF Maps, EntriesSeen
  <2>2. EntriesNow' \in Seq(Entry) /\ entries = Append(EntriesNow', entries[Newest])
    BY <1>3, <1>4, <1>7 DEF Maps, EntriesSeen
  <2>3. Append(EntriesNow, entries[Newest]) = Append(EntriesNow', entries[Newest])
    BY <2>1, <2>2, Zenon
  <2>4. PICK s \in Seq(Entry), u \in Seq(Entry), x \in Entry :
          s = EntriesNow /\ u = EntriesNow' /\ x = entries[Newest]
    BY <1>7, <2>1, <2>2, Zenon
  <2>5. Append(s, x) = Append(u, x)
    BY <2>3, <2>4, Zenon
  <2>6. s = u
    BY <2>5, AppendInjective
  <2> QED
    BY <2>4, <2>6, Zenon
<1>9. TableNow' = T
  <2>1. PICK h, e, S, B, u : /\ h = myHash(entries[Newest].key, size) /\ e = Newest /\ S = Ids
                             /\ B = Buckets(size) /\ u = TableNow'
    OBVIOUS
  <2>2. Changed(T, h, Append(T[h], e), T2)
    BY <1>1, <2>1
  <2>3. u \in [B -> Seq(S)] /\ Changed(u, h, Append(u[h], e), T2)
    BY <1>3, <1>4, <1>6, <1>7, <2>1 DEF Maps
  <2>4. h \in B /\ e \in S /\ T \in [B -> Seq(S)]
    BY <1>6, <1>7, <2>1
  <2>5. u = T
    BY <2>2, <2>3, <2>4, ChangedBack
  <2> QED
    BY <2>1, <2>5
<1> QED
  BY <1>4, <1>5, <1>8, <1>9 DEF Abstract!vars, PcNow

\* The step that counts the entry is SymbolTable's Insert (test.y:111-118).
LEMMA CountMaps ==
  ASSUME NEW T, NEW W, Chained(T, W), Count
  PROVE  \E k \in Keys, v \in Values : Abstract!Insert(k, v)
<1>1. PICK W2 : IF Overloaded(count + 1, size) THEN W2 = Emptied(2 * size) ELSE W2 = W
  OBVIOUS
<1>2. Chained(T, W2)'
  BY <1>1, CountHolds
<1>3. Maps(T, W) /\ Maps(T, W2)'
  BY <1>2, MappingReads, MappingReadsAfter
<1>4. /\ pc = "count" /\ pc' \in {"ready", "rehash"} /\ count' = count + 1
      /\ UNCHANGED <<entries, next, table, size, current, key, freed, answer>>
  BY DEF Count
<1>5. /\ entries \in Seq(Entry) /\ entries # <<>> /\ Len(entries) - 1 < MaxInserts
      /\ size \in Nat \ {0}
  BY <1>4 DEF Chained, Types
<1>6. /\ EntriesNow \in Seq(Entry) /\ entries = Append(EntriesNow, entries[Newest])
      /\ EntriesNow' = entries /\ NewTableNow = W /\ NewTableNow' = W2 /\ TableNow' = T
  BY <1>3, <1>4 DEF Maps, EntriesSeen
<1>7. PICK k \in Keys, v \in Values : entries[Newest] = [key |-> k, value |-> v]
  <2>1. entries[Newest] \in Entry
    BY <1>4, NewestHome, OnChains
  <2> QED
    BY <2>1 DEF Entry
<1>8. Len(EntriesNow) + 1 = Newest /\ Len(EntriesNow) < MaxInserts
  <2>1. Len(entries) = Len(EntriesNow) + 1 /\ Len(EntriesNow) \in Nat
    BY <1>4, <1>6, NewestHome, OnChains, AppendProperties, LenProperties
  <2>2. Len(entries) - 1 = Len(EntriesNow)
    BY <2>1
  <2> QED
    BY <1>5, <2>1, <2>2 DEF Newest
<1>9. T = [TableNow EXCEPT ![myHash(k, size)] = Append(TableNow[myHash(k, size)], Newest)]
  <2>1. entries[Newest].key = k
    BY <1>7
  <2> QED
    BY <1>3, <1>4, <2>1 DEF Maps, Changed
<1>10. Abstract!Link(k, v)
  <2>1. EntriesNow' = Append(EntriesNow, [key |-> k, value |-> v])
    BY <1>6, <1>7
  <2>2. Abstract!myHash(k, size) = myHash(k, size)
    BY DEF Abstract!myHash, myHash
  <2>3. TableNow' = [TableNow EXCEPT ![myHash(k, size)] =
                       Append(TableNow[myHash(k, size)], Len(EntriesNow) + 1)]
    BY <1>6, <1>8, <1>9
  <2> QED
    BY <2>1, <2>2, <2>3 DEF Abstract!Link
<1>11. Abstract!Overloaded(count + 1, size) <=> Overloaded(count + 1, size)
  BY DEF Abstract!Overloaded, Overloaded
<1>12. CASE ~Overloaded(count + 1, size)
  <2>1. PcNow = "ready" /\ PcNow' = "ready" /\ i' = i /\ NewTableNow' = NewTableNow
    BY <1>1, <1>4, <1>6, <1>12 DEF Count, PcNow
  <2> QED
    BY <1>4, <1>8, <1>10, <1>11, <1>12, <2>1 DEF Abstract!Insert
<1>13. CASE Overloaded(count + 1, size)
  <2>1. /\ PcNow = "ready" /\ PcNow' = "rehash" /\ i' = 0
        /\ NewTableNow' = Abstract!EmptyTable(2 * size)
    BY <1>1, <1>4, <1>6, <1>13 DEF Count, PcNow, Abstract!EmptyTable, Emptied, Buckets
  <2> QED
    BY <1>4, <1>8, <1>10, <1>11, <1>13, <2>1 DEF Abstract!Insert
<1> QED
  BY <1>12, <1>13

\* The steps along a chain and into a bucket are not seen; those to the next
\* bucket are SymbolTable's (test.y:106-109, 119-122, 131, 143-149, 156-166).
LEMMA LoopMaps ==
  ASSUME NEW T, NEW W, Chained(T, W),
         \/ AppendWalk \/ RehashBucket \/ RehashNextBucket \/ FreeCall \/ FreeBucket
         \/ FreeNextBucket \/ LookupNext \/ \E k \in Keys : LookupCall(k)
  PROVE  \/ UNCHANGED Abstract!vars
         \/ Abstract!RehashNextBucket \/ Abstract!FreeCall \/ Abstract!FreeNextBucket
<1>1. Chained(T, W)'
  BY AppendWalkHolds, LoopHolds, LookupHolds
<1>2. Maps(T, W) /\ Maps(T, W)'
  BY <1>1, MappingReads, MappingReadsAfter
<1>3. /\ UNCHANGED <<entries, next, table, size, count, newTable, freed, answer>>
      /\ pc # "count" /\ pc' # "count"
      /\ pc = "append" <=> pc' = "append"
  BY DEF AppendWalk, RehashBucket, RehashNextBucket, FreeCall, FreeBucket, FreeNextBucket,
         LookupNext, LookupCall
<1>4. /\ TableNow = T /\ TableNow' = T /\ NewTableNow = W /\ NewTableNow' = W
  BY <1>2, <1>3 DEF Maps
<1>5. EntriesNow' = EntriesNow
  BY <1>3 DEF EntriesNow, Pending, Newest
<1>6. CASE AppendWalk \/ RehashBucket \/ FreeBucket \/ LookupNext \/ \E k \in Keys : LookupCall(k)
  <2>1. PcNow' = PcNow /\ i' = i
    BY <1>6 DEF AppendWalk, RehashBucket, FreeBucket, LookupNext, LookupCall, PcNow
  <2> QED
    BY <1>3, <1>4, <1>5, <2>1 DEF Abstract!vars
<1>7. CASE RehashNextBucket \/ FreeNextBucket
  <2>1. pc \in {"move", "chain"} /\ current = Nil
    BY <1>7 DEF RehashNextBucket, FreeNextBucket
  <2>2. i \in DOMAIN table /\ i < size
    BY <2>1 DEF Chained, Types, Buckets
  <2>3. T[i] = <<>>
    <3>1. First(i) = Nil /\ Linked(T[i], First(i))
      BY <2>1, <2>2 DEF First, Chained, Shape
    <3>2. Len(T[i]) \in Nat /\ (\A j \in 1..Len(T[i]) : T[i][j] \in Ids) /\ T[i] \in Seq(Ids)
          /\ Ids = 1..Len(entries) /\ Len(entries) \in Nat
      BY <2>2, OnChains
    <3>3. Len(T[i]) = 0
      BY <3>1, <3>2 DEF Linked, Nth, Nil
    <3> QED
      BY <3>2, <3>3, EmptySeq
  <2>4. TableNow[i] = <<>>
    BY <1>4, <2>3
  <2>5. CASE RehashNextBucket
    <3>1. PcNow = "rehash" /\ PcNow' = "rehash" /\ i' = i + 1
      BY <2>5 DEF RehashNextBucket, PcNow
    <3> QED
      BY <1>3, <1>4, <1>5, <2>2, <2>4, <3>1 DEF Abstract!RehashNextBucket
  <2>6. CASE FreeNextBucket
    <3>1. PcNow = "freeing" /\ PcNow' = "freeing" /\ i' = i + 1
      BY <2>6 DEF FreeNextBucket, PcNow
    <3> QED
      BY <1>3, <1>4, <1>5, <2>2, <2>4, <3>1 DEF Abstract!FreeNextBucket
  <2> QED
    BY <1>7, <2>5, <2>6
<1>8. CASE FreeCall
  <2>1. PcNow = "ready" /\ PcNow' = "freeing" /\ i' = 0
    BY <1>8 DEF FreeCall, PcNow
  <2> QED
    BY <1>3, <1>4, <1>5, <2>1 DEF Abstract!FreeCall
<1> QED
  BY <1>6, <1>7, <1>8

\* The entry taken from the old chain is the one SymbolTable moves
\* (test.y:124-129).
LEMMA RehashMoveMaps ==
  ASSUME NEW T, NEW W, Chained(T, W), RehashMove
  PROVE  Abstract!RehashEntry
<1>1. PICK T2 : Changed(T, i, Tail(T[i]), T2)
  BY DEF Changed
<1>2. PICK W2 : Moved(W, W2)
  BY DEF Moved, Changed
<1>3. Chained(T2, W2)'
  BY <1>1, <1>2, RehashMoveHolds
<1>4. Maps(T, W) /\ Maps(T2, W2)'
  BY <1>3, MappingReads, MappingReadsAfter
<1>5. /\ pc = "move" /\ pc' = "move" /\ current # Nil
      /\ UNCHANGED <<entries, table, size, count, i, key, freed, answer>>
  BY DEF RehashMove
<1>6. /\ TableNow = T /\ TableNow' = T2 /\ NewTableNow = W /\ NewTableNow' = W2
      /\ EntriesNow = entries /\ EntriesNow' = entries
  BY <1>4, <1>5 DEF Maps, EntriesSeen
<1>7. PcNow = "rehash" /\ PcNow' = "rehash" /\ i < size
  BY <1>5 DEF PcNow, Chained, Types
<1>8. T[i] # <<>> /\ Head(T[i]) = current
  <2>1. T[i] # <<>> /\ T[i][1] = current
    BY <1>1, <1>5, TakeFirst
  <2> QED
    BY <2>1
<1>9. TableNow' = [TableNow EXCEPT ![i] = Tail(TableNow[i])]
  BY <1>1, <1>6 DEF Changed
<1>10. NewTableNow' = [NewTableNow EXCEPT ![Abstract!myHash(entries[current].key, 2 * size)] =
                        <<current>> \o NewTableNow[Abstract!myHash(entries[current].key, 2 * size)]]
  <2>1. Abstract!myHash(entries[current].key, 2 * size) = myHash(entries[current].key, 2 * size)
    BY DEF Abstract!myHash, myHash
  <2>2. W2 = [W EXCEPT ![myHash(entries[current].key, 2 * size)] =
                <<current>> \o W[myHash(entries[current].key, 2 * size)]]
    BY <1>2 DEF Moved, Changed
  <2> QED
    BY <1>6, <2>1, <2>2
<1> QED
  BY <1>5, <1>6, <1>7, <1>8, <1>9, <1>10 DEF Abstract!RehashEntry

\* The tables are exchanged when every bucket is empty (test.y:132-136).
LEMMA RehashDoneMaps ==
  ASSUME NEW T, NEW W, Chained(T, W), RehashDone
  PROVE  Abstract!RehashDone
<1>1. Chained(W, <<>>)'
  BY RehashDoneHolds
<1>2. Maps(T, W) /\ Maps(W, <<>>)'
  BY <1>1, MappingReads, MappingReadsAfter
<1>3. /\ pc = "rehash" /\ pc' = "ready" /\ i = size /\ size' = 2 * size
      /\ UNCHANGED <<entries, next, count, i, current, key, freed, answer>>
  BY DEF RehashDone
<1>4. /\ TableNow' = W /\ NewTableNow = W /\ NewTableNow' = <<>>
      /\ EntriesNow = entries /\ EntriesNow' = entries
  BY <1>2, <1>3 DEF Maps, EntriesSeen
<1>5. PcNow = "rehash" /\ PcNow' = "ready"
  BY <1>3 DEF PcNow
<1> QED
  BY <1>3, <1>4, <1>5 DEF Abstract!RehashDone

\* The entry given to free is the first of its chain (test.y:159-164).
LEMMA FreeEntryMaps ==
  ASSUME NEW T, NEW W, Chained(T, W), FreeEntry
  PROVE  Abstract!FreeEntry
<1>1. PICK T2 : Changed(T, i, Tail(T[i]), T2)
  BY DEF Changed
<1>2. Chained(T2, W)'
  BY <1>1, FreeEntryHolds
<1>3. Maps(T, W) /\ Maps(T2, W)'
  BY <1>2, MappingReads, MappingReadsAfter
<1>4. /\ pc = "chain" /\ pc' = "chain" /\ current # Nil /\ freed' = Append(freed, current)
      /\ UNCHANGED <<entries, table, size, count, newTable, i, key, answer>>
  BY DEF FreeEntry
<1>5. /\ TableNow = T /\ TableNow' = T2 /\ NewTableNow = W /\ NewTableNow' = W
      /\ EntriesNow = entries /\ EntriesNow' = entries
  BY <1>3, <1>4 DEF Maps, EntriesSeen
<1>6. PcNow = "freeing" /\ PcNow' = "freeing" /\ i < size
  BY <1>4 DEF PcNow, Chained, Types
<1>7. T[i] # <<>> /\ Head(T[i]) = current
  <2>1. T[i] # <<>> /\ T[i][1] = current
    BY <1>1, <1>4, TakeFirst
  <2> QED
    BY <2>1
<1>8. TableNow' = [TableNow EXCEPT ![i] = Tail(TableNow[i])]
  BY <1>1, <1>5 DEF Changed
<1> QED
  BY <1>4, <1>5, <1>6, <1>7, <1>8 DEF Abstract!FreeEntry

\* free(symbolTable->table) (test.y:166-168).
LEMMA FreeDoneMaps ==
  ASSUME NEW T, NEW W, Chained(T, W), FreeDone
  PROVE  Abstract!FreeDone
<1>1. Chained(<<>>, W)'
  BY FreeDoneHolds
<1>2. Maps(T, W) /\ Maps(<<>>, W)'
  BY <1>1, MappingReads, MappingReadsAfter
<1>3. /\ pc = "free" /\ pc' = "freed" /\ i = size
      /\ UNCHANGED <<entries, next, size, count, newTable, i, current, key, freed, answer>>
  BY DEF FreeDone
<1>4. /\ TableNow' = <<>> /\ NewTableNow = W /\ NewTableNow' = W
      /\ EntriesNow = entries /\ EntriesNow' = entries
  BY <1>2, <1>3 DEF Maps, EntriesSeen
<1>5. PcNow = "freeing" /\ PcNow' = "freed"
  BY <1>3 DEF PcNow
<1> QED
  BY <1>3, <1>4, <1>5 DEF Abstract!FreeDone

\* lookup returns the value of the first entry with the name, whichever way
\* its loop ends (test.y:143-153).
LEMMA LookupReturnMaps ==
  ASSUME NEW T, NEW W, Chained(T, W), LookupReturn
  PROVE  \E k \in Keys : Abstract!LookupCall(k)
<1>1. Chained(T, W)'
  BY LookupHolds
<1>2. Maps(T, W) /\ Maps(T, W)'
  BY <1>1, MappingReads, MappingReadsAfter
<1>3. /\ pc = "search" /\ pc' = "ready"
      /\ UNCHANGED <<entries, next, table, size, count, newTable, i, current, key, freed>>
  BY DEF LookupReturn
<1>4. /\ TableNow = T /\ TableNow' = T /\ NewTableNow = W /\ NewTableNow' = W
      /\ EntriesNow = entries /\ EntriesNow' = entries /\ key \in Keys
      /\ PcNow = "ready" /\ PcNow' = "ready"
  BY <1>2, <1>3 DEF Maps, EntriesSeen, PcNow, Chained, Types
<1>5. PICK h : h = myHash(key, size)
  OBVIOUS
<1>6. h \in DOMAIN T /\ Abstract!myHash(key, size) = h
  <2>1. size \in Nat \ {0} /\ DOMAIN table = Buckets(size)
    BY <1>3 DEF Chained, Types
  <2> QED
    BY <1>4, <1>5, <2>1, HashInRange, OnChains DEF Abstract!myHash, myHash
<1>7. PICK c : c = T[h]
  OBVIOUS
<1>8. c \in Seq(Ids) /\ Len(c) \in Nat /\ DOMAIN c = 1..Len(c) /\ \A j \in 1..Len(c) : c[j] \in Ids
  BY <1>6, <1>7, OnChains
<1>9. PICK n \in 1..(Len(c) + 1) : current = Nth(c, n) /\ \A j \in 1..(n - 1) : entries[c[j]].key # key
  BY <1>3, <1>5, <1>7 DEF Chained, Place
<1>10. PICK H : H = {j \in 1..Len(c) : entries[c[j]].key = key}
  OBVIOUS
<1>11. Abstract!Hits(key) = H
  BY <1>4, <1>6, <1>7, <1>8, <1>10 DEF Abstract!Hits
<1>12. \A j \in H : ~(j < n)
  BY <1>8, <1>9, <1>10
<1>13. answer' = [key |-> key, value |-> Abstract!Lookup(key)]
  <2>1. CASE current = Nil
    <3>1. n = Len(c) + 1
      <4>1. Nil \notin Ids
        BY OnChains DEF Nil
      <4> QED
        BY <1>8, <1>9, <2>1, <4>1 DEF Nth
    <3>2. H = {}
      BY <1>8, <1>10, <1>12, <3>1
    <3> QED
      BY <1>11, <2>1, <3>2 DEF Abstract!Lookup, LookupReturn
  <2>2. CASE current # Nil
    <3>1. n \in 1..Len(c) /\ c[n] = current
      BY <1>9, <2>2 DEF Nth
    <3>2. entries[current].key = key /\ answer' = [key |-> key, value |-> entries[current].value]
      BY <2>2 DEF LookupReturn
    <3>3. n \in H /\ \A j \in H : n <= j
      BY <1>8, <1>10, <1>12, <3>1, <3>2
    <3>4. H \subseteq Nat
      BY <1>8, <1>10
    <3>5. Min(H) = n
      <4>1. Min(H) \in H /\ \A j \in H : Min(H) <= j
        BY <3>3 DEF Min
      <4>2. Min(H) \in Nat /\ n \in Nat /\ Min(H) <= n /\ n <= Min(H)
        BY <3>3, <3>4, <4>1
      <4> QED
        BY <4>2
    <3>6. Abstract!Lookup(key) = entries[c[n]].value
      BY <1>4, <1>6, <1>7, <1>11, <3>3, <3>5 DEF Abstract!Lookup, Min, Abstract!Min
    <3> QED
      BY <3>1, <3>2, <3>6
  <2> QED
    BY <2>1, <2>2
<1>14. Abstract!LookupCall(key)
  BY <1>3, <1>4, <1>13 DEF Abstract!LookupCall
<1> QED
  BY <1>4, <1>14

\* The table of createSymbolTable is SymbolTable's.
LEMMA InitMaps == Init => Abstract!Init
<1> SUFFICES ASSUME Init PROVE Abstract!Init
  OBVIOUS
<1>1. PICK T, W : Chained(T, W)
  BY InitHolds DEF IInv
<1>2. Maps(T, W)
  BY <1>1, MappingReads
<1>3. /\ entries = <<>> /\ newTable = <<>> /\ pc = "ready" /\ size = InitialSize
      /\ table = Calloc(InitialSize) /\ count = 0 /\ i = 0 /\ freed = <<>>
      /\ answer = [key |-> NULL, value |-> NULL]
  BY DEF Init
<1>4. TableNow = T /\ NewTableNow = W /\ EntriesNow = <<>> /\ PcNow = "ready"
  BY <1>2, <1>3 DEF Maps, EntriesSeen, PcNow
<1>5. W = <<>>
  <2>1. W \in [{} -> Seq(Ids)]
    BY <1>1, <1>3 DEF Chained, Shape
  <2> QED
    BY <2>1
<1>6. T = Abstract!EmptyTable(InitialSize)
  <2>1. /\ T \in [Buckets(InitialSize) -> Seq(Ids)] /\ DOMAIN table = Buckets(InitialSize)
        /\ \A b \in Buckets(InitialSize) : Linked(T[b], First(b)) /\ First(b) = Nil
    BY <1>1, <1>3 DEF Chained, Shape, Calloc, Buckets, First
  <2>2. Ids = {}
    BY <1>3 DEF Ids
  <2>3. ASSUME NEW b \in Buckets(InitialSize) PROVE T[b] = <<>>
    <3>1. T[b] \in Seq({})
      BY <2>1, <2>2
    <3>2. Len(T[b]) \in Nat /\ \A j \in 1..Len(T[b]) : T[b][j] \in {}
      BY <3>1, LenProperties, ElementOfSeq
    <3>3. Len(T[b]) = 0
      <4>1. CASE Len(T[b]) # 0
        <5>1. 1 \in 1..Len(T[b])
          BY <3>2, <4>1
        <5> QED
          BY <3>2, <5>1
      <4> QED
        BY <4>1
    <3> QED
      BY <3>1, <3>3, EmptySeq
  <2> QED
    BY <2>1, <2>3 DEF Abstract!EmptyTable, Buckets
<1> QED
  BY <1>3, <1>4, <1>5, <1>6 DEF Abstract!Init

\* Every step is a step of SymbolTable or is not seen.
LEMMA NextMaps ==
  ASSUME NEW T, NEW W, Chained(T, W), [Next]_vars
  PROVE  [Abstract!Next]_(Abstract!vars)
<1>1. ASSUME NEW k \in Keys, NEW v \in Values, InsertCall(k, v) PROVE UNCHANGED Abstract!vars
  BY <1>1, InsertCallMaps
<1>2. CASE AppendLink
  BY <1>2, AppendLinkMaps
<1>3. CASE Count
  BY <1>3, CountMaps DEF Abstract!Next
<1>4. CASE RehashMove
  BY <1>4, RehashMoveMaps DEF Abstract!Next, Abstract!Internal
<1>5. CASE FreeEntry
  BY <1>5, FreeEntryMaps DEF Abstract!Next, Abstract!Internal
<1>6. CASE RehashDone
  BY <1>6, RehashDoneMaps DEF Abstract!Next, Abstract!Internal
<1>7. CASE FreeDone
  BY <1>7, FreeDoneMaps DEF Abstract!Next, Abstract!Internal
<1>8. CASE LookupReturn
  BY <1>8, LookupReturnMaps DEF Abstract!Next
<1>9. CASE \/ AppendWalk \/ RehashBucket \/ RehashNextBucket \/ FreeCall \/ FreeBucket
           \/ FreeNextBucket \/ LookupNext \/ \E k \in Keys : LookupCall(k)
  BY <1>9, LoopMaps DEF Abstract!Next, Abstract!Internal
<1>10. CASE Stopped \/ UNCHANGED vars
  <2>1. UNCHANGED vars
    BY <1>10 DEF Stopped
  <2>2. Chained(T, W)'
    BY <2>1, StutterHolds
  <2>3. Maps(T, W) /\ Maps(T, W)'
    BY <2>2, MappingReads, MappingReadsAfter
  <2>4. UNCHANGED Abstract!vars
    BY <2>1 DEF vars, Abstract!vars, EntriesNow, TableNow, NewTableNow, PcNow, ChainNow, Counted,
                Pending, Newest, Chain, Reached
  <2> QED
    BY <2>4
<1> QED
  BY <1>1, <1>2, <1>3, <1>4, <1>5, <1>6, <1>7, <1>8, <1>9, <1>10 DEF Next, Internal

\* insert, lookup and freeSymbolTable do with their pointers what SymbolTable
\* says, for every table (test.y:97-168).
THEOREM PointersImplementTable == Spec => Abstract!Spec
<1>1. ASSUME IInv, [Next]_vars PROVE [Abstract!Next]_(Abstract!vars)
  BY <1>1, NextMaps DEF IInv
<1> QED
  BY ChainsApart, InitMaps, <1>1, PTL DEF Spec, Abstract!Spec

-----------------------------------------------------------------------------
(* What the theorems about SymbolTable say of the pointers *)

Proved == INSTANCE SymbolTableProofs WITH
  entries  <- EntriesNow,
  table    <- TableNow,
  newTable <- NewTableNow,
  cursor   <- i,
  pc       <- PcNow

\* SymbolTableProofs is about the same SymbolTable.
LEMMA SameTable ==
  /\ Abstract!Init => Proved!Init
  /\ [Abstract!Next]_(Abstract!vars) => [Proved!Next]_(Proved!vars)
<1>1. Abstract!Init => Proved!Init
  BY DEF Abstract!Init, Proved!Init, Abstract!EmptyTable, Proved!EmptyTable
<1>2. [Abstract!Next]_(Abstract!vars) => [Proved!Next]_(Proved!vars)
  <2>1. \A k \in Keys, v \in Values : Abstract!Insert(k, v) => Proved!Insert(k, v)
    BY DEF Abstract!Insert, Proved!Insert, Abstract!Link, Proved!Link,
           Abstract!myHash, Proved!myHash, Abstract!Overloaded, Proved!Overloaded,
           Abstract!EmptyTable, Proved!EmptyTable
  <2>2. \A k \in Keys : Abstract!LookupCall(k) => Proved!LookupCall(k)
    <3>1. \A k : Abstract!myHash(k, size) = Proved!myHash(k, size)
      BY DEF Abstract!myHash, Proved!myHash
    <3>2. \A k : Abstract!Hits(k) = Proved!Hits(k)
      BY <3>1 DEF Abstract!Hits, Proved!Hits
    <3>3. \A S : Abstract!Min(S) = Proved!Min(S)
      BY DEF Abstract!Min, Proved!Min
    <3>4. \A k : Abstract!Lookup(k) = Proved!Lookup(k)
      BY <3>1, <3>2, <3>3 DEF Abstract!Lookup, Proved!Lookup
    <3> QED
      BY <3>4 DEF Abstract!LookupCall, Proved!LookupCall
  <2>3. Abstract!RehashEntry => Proved!RehashEntry
    <3>1. \A k, s : Abstract!myHash(k, s) = Proved!myHash(k, s)
      BY DEF Abstract!myHash, Proved!myHash
    <3> QED
      BY <3>1 DEF Abstract!RehashEntry, Proved!RehashEntry
  <2> QED
    BY <2>1, <2>2, <2>3
       DEF Abstract!Next, Proved!Next, Abstract!Internal, Proved!Internal,
           Abstract!vars, Proved!vars, Abstract!Stopped, Proved!Stopped,
           Abstract!FreeCall, Proved!FreeCall,
           Abstract!RehashNextBucket, Proved!RehashNextBucket,
           Abstract!RehashDone, Proved!RehashDone,
           Abstract!FreeEntry, Proved!FreeEntry,
           Abstract!FreeNextBucket, Proved!FreeNextBucket,
           Abstract!FreeDone, Proved!FreeDone
<1> QED
  BY <1>1, <1>2

\* SymbolTable's invariant holds of the chains.
LEMMA TableIntactBelow == Spec => []Proved!IInv
<1>1. Proved!Init => Proved!IInv
  BY Proved!InitIInv, HeapAssumption
<1>2. Proved!IInv /\ [Proved!Next]_(Proved!vars) => Proved!IInv'
  BY Proved!NextIInv, HeapAssumption
<1> QED
  BY <1>1, <1>2, SameTable, PointersImplementTable, PTL DEF Abstract!Spec

\* No entry is on two chains, and none that was freed is on one, so
\* freeSymbolTable frees each once; and none is dropped from its chain before
\* it is freed, in the middle of a rehash either (test.y:122-131, 156-168).
THEOREM PointersLoseNothing == Spec => [](Abstract!EntriesNotShared /\ Abstract!NothingLost)
<1>1. Proved!IInv => Abstract!EntriesNotShared
  BY DEF Proved!IInv, Proved!EntriesNotShared, Abstract!EntriesNotShared,
         Proved!NoRepeat, Abstract!NoRepeat, Proved!On, Abstract!On,
         Proved!Freed, Abstract!Freed, Proved!Ids, Abstract!Ids
<1>2. Proved!IInv => Abstract!NothingLost
  BY DEF Proved!IInv, Proved!NothingLost, Abstract!NothingLost, Proved!On, Abstract!On,
         Proved!Freed, Abstract!Freed, Proved!Ids, Abstract!Ids
<1> QED
  BY <1>1, <1>2, TableIntactBelow, PTL

\* The code with its pointers is a map from names to values: lookup answers
\* with a value given to that name by some insert, and with NULL exactly when
\* there was none (test.y:97-113, 143-153).
THEOREM PointersImplementMap == Spec => Abstract!ImplementsMap
<1>1. Proved!IInv /\ [Proved!Next]_(Proved!vars) => [Proved!Map!MapNext]_(Proved!Map!mapVars)
  BY Proved!StepRefines, HeapAssumption
<1>2. Proved!Init => Abstract!Map!MapInit
  BY DEF Proved!Init, Abstract!Map!MapInit, Abstract!Map!NoAnswer
<1>3. [Proved!Map!MapNext]_(Proved!Map!mapVars) => [Abstract!Map!MapNext]_(Abstract!Map!mapVars)
  BY DEF Proved!Map!MapNext, Abstract!Map!MapNext, Proved!Map!mapVars, Abstract!Map!mapVars,
         Proved!Map!Ask, Abstract!Map!Ask, Proved!Map!Bind, Abstract!Map!Bind,
         Proved!Map!ValuesOf, Abstract!Map!ValuesOf
<1> QED
  BY <1>1, <1>2, <1>3, TableIntactBelow, SameTable, PointersImplementTable, PTL
     DEF Abstract!Spec, Abstract!ImplementsMap, Abstract!Map!MapSpec
=============================================================================
