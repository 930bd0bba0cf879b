----------------------------- MODULE DriverProofs -----------------------------
(***************************************************************************)
(* main keeps the symbol table intact, closes what it opened, checks every *)
(* entry once, reports none and frees all, for any names, hash function    *)
(* and initial size.                                                       *)
(***************************************************************************)
EXTENDS Driver, SymbolTableProofs

\* The inductive invariant: the table's, and main's.
DriverIInv ==
  /\ IInv
  /\ DriverTypeOK
  /\ TableCalls
  /\ Streams
  /\ FileClosed
  /\ NeverReports

\* The loop of test.y:548-558 comes to an entry with a key, and lookup finds it.
LEMMA CheckedEntry ==
  ASSUME DriverIInv, CheckEntry
  PROVE  /\ table[bucket][position + 1] \in Ids
         /\ entries[table[bucket][position + 1]].key \in Keys
         /\ Lookup(entries[table[bucket][position + 1]].key) # NULL
<1> DEFINE e == table[bucket][position + 1]
<1>1. /\ pc = "ready" /\ bucket \in 0..size /\ bucket < size
      /\ position \in Nat /\ position < Len(table[bucket])
  BY DEF DriverIInv, DriverTypeOK, TableCalls, CheckEntry
<1>2. /\ size \in Nat \ {0} /\ table \in Chains(size)
      /\ entries \in Seq([key : Keys, value : Values])
  BY <1>1 DEF DriverIInv, IInv, TypeOK
<1>3. table[bucket] \in Seq(Ids)
  BY <1>1, <1>2 DEF Chains
<1>4. e \in Ids
  BY <1>1, <1>3, ElementOfSeq, LenProperties
<1>5. e \in DOMAIN entries /\ entries[e] \in [key : Keys, value : Values]
  BY <1>2, <1>4, ElementOfSeq, LenProperties DEF Ids
<1>6. Map!ValuesOf(entries[e].key) # {}
  BY <1>5 DEF Map!ValuesOf
<1>7. Map!ValuesOf(entries[e].key) \subseteq Values
  <2>1. ASSUME NEW i \in DOMAIN entries PROVE entries[i].value \in Values
    <3>1. entries[i] \in [key : Keys, value : Values]
      BY <1>2, <2>1, ElementOfSeq, LenProperties
    <3> QED
      BY <3>1
  <2> QED
    BY <2>1 DEF Map!ValuesOf
<1>8. Lookup(entries[e].key) \in Values
  BY <1>1, <1>5, <1>6, <1>7, LookupFinds DEF DriverIInv
<1> QED
  BY <1>4, <1>5, <1>8, ConstantsAssumption

\* main does nothing to the table but call its functions (test.y:533-561).
LEMMA TableStepsOnly ==
  ASSUME DriverIInv, [DriverNext]_driverVars
  PROVE  [Next]_vars
<1>2. ASSUME NEW k \in Keys, NEW v \in Values, Assign(k, v) PROVE Next
  BY <1>2 DEF Assign, Next
<1>3. CASE TableStep
  BY <1>3 DEF TableStep, Next
<1>4. CASE CheckEntry
  BY <1>4, CheckedEntry DEF CheckEntry, Next
<1>5. CASE CheckDone
  BY <1>5 DEF CheckDone, Next
<1>6. CASE OpenInput \/ FirstToken \/ EndParse \/ CloseInput \/ CheckNextBucket
           \/ Return \/ DriverStopped \/ UNCHANGED driverVars
  BY <1>6 DEF OpenInput, FirstToken, EndParse, CloseInput, CheckNextBucket,
              Return, DriverStopped, driverVars
<1> QED
  BY <1>2, <1>3, <1>4, <1>5, <1>6 DEF DriverNext, DriverStep

\* While main is in yyparse or freeSymbolTable the table has no bucket less and
\* no entry less than before (test.y:97-140, 156-168).
LEMMA TableGrows ==
  ASSUME IInv, Internal \/ \E k \in Keys, v \in Values : Insert(k, v)
  PROVE  /\ 0..size \subseteq 0..(size') /\ Ids \subseteq Ids'
         /\ pc \in {"ready", "rehash"} => pc' \in {"ready", "rehash"}
         /\ pc \in {"freeing", "freed"} => pc' \in {"freeing", "freed"}
<1>1. size \in Nat \ {0} /\ entries \in Seq([key : Keys, value : Values])
  BY DEF IInv, TypeOK
<1>2. CASE Internal
  <2>1. entries' = entries /\ (size' = size \/ size' = 2 * size)
    BY <1>2 DEF Internal, RehashEntry, RehashNextBucket, RehashDone, FreeEntry,
                FreeNextBucket, FreeDone
  <2>2. /\ pc \in {"ready", "rehash"} => pc' \in {"ready", "rehash"}
        /\ pc \in {"freeing", "freed"} => pc' \in {"freeing", "freed"}
    BY <1>2 DEF Internal, RehashEntry, RehashNextBucket, RehashDone, FreeEntry,
                FreeNextBucket, FreeDone
  <2> QED
    BY <1>1, <2>1, <2>2 DEF Ids
<1>3. ASSUME NEW k \in Keys, NEW v \in Values, Insert(k, v)
      PROVE  /\ size' = size /\ pc = "ready" /\ pc' \in {"ready", "rehash"}
             /\ Len(entries') = Len(entries) + 1
  BY <1>1, <1>3 DEF Insert, Link
<1> QED
  BY <1>1, <1>2, <1>3, LenProperties DEF Ids

\* main begins with an empty table, no stream and no report (test.y:533).
LEMMA InitDriver == DriverInit => DriverIInv
<1> SUFFICES ASSUME DriverInit PROVE DriverIInv
  OBVIOUS
<1>1. IInv
  BY InitIInv DEF DriverInit
<1>2. size \in Nat \ {0} /\ pc = "ready"
  BY ConstantsAssumption DEF DriverInit, Init
<1>3. DriverTypeOK
  BY <1>2, StartAssumption DEF DriverInit, DriverTypeOK
<1> QED
  BY <1>1, <1>2, <1>3 DEF DriverInit, DriverIInv, TableCalls, Streams,
                          FileClosed, NeverReports

\* Every statement of main and every turn of a loop keeps this (test.y:535-565).
LEMMA NextDriver == DriverIInv /\ [DriverNext]_driverVars => DriverIInv'
<1> SUFFICES ASSUME DriverIInv, [DriverNext]_driverVars PROVE DriverIInv'
  OBVIOUS
<1>0. IInv'
  BY TableStepsOnly, NextIInv DEF DriverIInv
<1>t. size \in Nat \ {0}
  BY DEF DriverIInv, IInv, TypeOK
<1> USE DEF inputVars, checkVars
<1>1. CASE OpenInput
  <2>1. UNCHANGED <<size, table, Ids, pc>>
    BY <1>1 DEF OpenInput, vars, Ids
  <2> QED
    BY <1>0, <1>1, <2>1, <1>t DEF OpenInput, DriverIInv, DriverTypeOK,
       TableCalls, Streams, FileClosed, NeverReports
<1>2. CASE FirstToken
  <2>1. UNCHANGED <<size, table, Ids, pc>>
    BY <1>2 DEF FirstToken, vars, Ids
  <2> QED
    BY <1>0, <1>2, <2>1, <1>t, StartAssumption DEF FirstToken, DriverIInv,
       DriverTypeOK, TableCalls, Streams, FileClosed, NeverReports
<1>4. CASE \/ TableStep
           \/ \E k \in Keys, v \in Values : Assign(k, v)
  <2>1. /\ UNCHANGED <<at, inputVars, checkVars>>
        /\ Internal \/ \E k \in Keys, v \in Values : Insert(k, v)
    BY <1>4 DEF TableStep, Assign
  <2>2. /\ bucket' \in 0..(size') /\ checked' \in Seq(Ids')
        /\ pc \in {"ready", "rehash"} => pc' \in {"ready", "rehash"}
        /\ pc \in {"freeing", "freed"} => pc' \in {"freeing", "freed"}
    <3>1. bucket \in 0..size /\ checked \in Seq(Ids)
      BY DEF DriverIInv, DriverTypeOK
    <3> QED
      BY <2>1, <3>1, TableGrows, SeqMonotonic DEF DriverIInv
  <2>3. at \in {"yyparse", "free"}
    <3>1. ASSUME Internal PROVE pc \in {"rehash", "freeing"}
      BY <3>1 DEF Internal, RehashEntry, RehashNextBucket, RehashDone, FreeEntry,
                  FreeNextBucket, FreeDone
    <3> QED
      BY <1>4, <3>1 DEF TableStep, Assign, DriverIInv, DriverTypeOK, TableCalls
  <2>4. TableCalls'
    BY <2>1, <2>2, <2>3 DEF DriverIInv, TableCalls
  <2>5. DriverTypeOK'
    BY <2>1, <2>2, <2>3 DEF DriverIInv, DriverTypeOK
  <2> QED
    BY <1>0, <2>1, <2>4, <2>5 DEF DriverIInv, Streams, FileClosed, NeverReports
<1>5. CASE EndParse
  <2>1. UNCHANGED <<size, table, Ids, pc>>
    BY <1>5 DEF EndParse, vars, Ids
  <2> QED
    BY <1>0, <1>5, <2>1, <1>t DEF EndParse, DriverIInv, DriverTypeOK,
       TableCalls, Streams, FileClosed, NeverReports
<1>6. CASE CloseInput
  <2>1. UNCHANGED <<size, table, Ids, pc>>
    BY <1>6 DEF CloseInput, vars, Ids
  <2>2. closed' = IF argument = "present" THEN <<"file">> ELSE <<>>
    BY <1>6 DEF CloseInput, DriverIInv, Streams
  <2>3. bucket = 0 /\ position = 0 /\ pc = "ready"
    BY <1>6 DEF CloseInput, DriverIInv, TableCalls
  <2>4. position <= Len(table[bucket])
    <3>1. table[0] \in Seq(Ids)
      BY <2>3, <1>t DEF DriverIInv, IInv, TypeOK, Chains
    <3> QED
      BY <2>3, <3>1, LenProperties
  <2>5. /\ at' = "check" /\ yyin' = NULL
        /\ UNCHANGED <<argument, bucket, position, checked, reported>>
    BY <1>6 DEF CloseInput
  <2>6. DriverTypeOK'
    <3>1. <<"file">> \in Seq({"file"}) /\ <<>> \in Seq({"file"})
      OBVIOUS
    <3>2. closed' \in Seq({"file"})
      BY <2>2, <3>1, Zenon
    <3> QED
      BY <3>2, <2>1, <2>3, <2>4, <2>5 DEF DriverIInv, DriverTypeOK
  <2> QED
    BY <1>0, <2>1, <2>2, <2>3, <2>5, <2>6 DEF DriverIInv, TableCalls, Streams,
       FileClosed, NeverReports
<1>7. CASE CheckEntry
  <2>1. UNCHANGED <<size, table, Ids, pc>>
    BY <1>7 DEF CheckEntry, LookupCall, Ids
  <2>2. /\ checked' \in Seq(Ids) /\ reported' = {}
        /\ position' = position + 1 /\ position' <= Len(table[bucket])
    BY <1>7, CheckedEntry DEF CheckEntry, DriverIInv, DriverTypeOK, NeverReports
  <2>3. /\ at = "check" /\ position' \in Nat
        /\ UNCHANGED <<at, inputVars, bucket>>
    BY <1>7 DEF CheckEntry, DriverIInv, DriverTypeOK
  <2>4. DriverTypeOK'
    BY <2>1, <2>2, <2>3 DEF DriverIInv, DriverTypeOK
  <2> QED
    BY <1>0, <2>1, <2>2, <2>3, <2>4 DEF DriverIInv, TableCalls, Streams,
       FileClosed, NeverReports
<1>8. CASE CheckNextBucket
  <2>1. UNCHANGED <<size, table, Ids, pc>>
    BY <1>8 DEF CheckNextBucket, vars, Ids
  <2>2. bucket + 1 < size => 0 <= Len(table[bucket + 1])
    <3>1. pc = "ready" /\ bucket \in 0..size
      BY <1>8 DEF CheckNextBucket, DriverIInv, DriverTypeOK, TableCalls
    <3>2. ASSUME bucket + 1 < size PROVE table[bucket + 1] \in Seq(Ids)
      BY <3>1, <3>2, <1>t DEF DriverIInv, IInv, TypeOK, Chains
    <3> QED
      BY <3>2, LenProperties
  <2>3. /\ bucket' = bucket + 1 /\ bucket' \in 0..size
        /\ position' = 0 /\ at' = "check" /\ at = "check"
        /\ UNCHANGED <<inputVars, checked, reported>>
    BY <1>8, <1>t DEF CheckNextBucket, DriverIInv, DriverTypeOK
  <2>4. bucket' < size' => position' <= Len(table'[bucket'])
    BY <2>1, <2>2, <2>3
  <2>5. DriverTypeOK'
    BY <2>1, <2>3, <2>4 DEF DriverIInv, DriverTypeOK
  <2> QED
    BY <1>0, <2>1, <2>3, <2>5 DEF DriverIInv, TableCalls, Streams, FileClosed,
       NeverReports
<1>9. CASE CheckDone
  <2>1. UNCHANGED <<size, table, Ids>> /\ pc' = "freeing"
    BY <1>9 DEF CheckDone, FreeCall, Ids
  <2> QED
    BY <1>0, <1>9, <2>1, <1>t DEF CheckDone, DriverIInv, DriverTypeOK,
       TableCalls, Streams, FileClosed, NeverReports
<1>10. CASE Return \/ DriverStopped \/ UNCHANGED driverVars
  <2>1. UNCHANGED <<size, table, Ids, pc>>
    BY <1>10 DEF Return, DriverStopped, driverVars, vars, Ids
  <2> QED
    BY <1>0, <1>10, <2>1, <1>t DEF Return, DriverStopped, driverVars, DriverIInv,
       DriverTypeOK, TableCalls, Streams, FileClosed, NeverReports
<1> QED
  BY <1>1, <1>2, <1>4, <1>5, <1>6, <1>7, <1>8, <1>9, <1>10
     DEF DriverNext, DriverStep

\* What the call sequence of main leaves of the table, its streams and its
\* answers at every statement (test.y:532-566).
THEOREM DriverIntact == DriverSpec => []DriverIInv
<1> QED
  BY InitDriver, NextDriver, PTL DEF DriverSpec

\* Where main is, its streams, and how far the check has come (test.y:532-566).
THEOREM DriverTypeCorrect == DriverSpec => []DriverTypeOK
<1>1. DriverIInv => DriverTypeOK
  BY DEF DriverIInv
<1> QED
  BY DriverIntact, <1>1, PTL

\* The input is closed exactly if it was opened, and fclose gets no NULL
\* (test.y:535-545).
THEOREM FileStaysClosed == DriverSpec => []FileClosed
<1>1. DriverIInv => FileClosed
  BY DEF DriverIInv
<1> QED
  BY DriverIntact, <1>1, PTL

\* Whatever the names, their hashes and the growth of the table, the check of
\* test.y:553 finds what it looks up: main reports no name.
THEOREM NothingIsReported == DriverSpec => []NeverReports
<1>1. DriverIInv => NeverReports
  BY DEF DriverIInv
<1> QED
  BY DriverIntact, <1>1, PTL

-----------------------------------------------------------------------------

\* The check has left place p of bucket i behind (test.y:548-558).
Passed(i, p) == i < bucket \/ (i = bucket /\ p <= position)

\* While the check runs, checked is what stands at the places left behind,
\* once each; before it is empty, and after it holds every entry.
CheckedSoFar ==
  /\ \A j \in DOMAIN checked :
       \E i \in DOMAIN table : \E p \in DOMAIN table[i] :
         Passed(i, p) /\ checked[j] = table[i][p]
  /\ \A i \in DOMAIN table : \A p \in DOMAIN table[i] :
       Passed(i, p) => \E j \in DOMAIN checked : checked[j] = table[i][p]

Coverage ==
  /\ NoRepeat(checked)
  /\ at \in {"open", "yylex", "yyparse", "close"} => checked = <<>>
  /\ at = "check" => CheckedSoFar
  /\ at \in {"free", "returned"} => EveryEntryChecked

\* An entry stands at one place of the table: its key says on which chain it
\* is, and no chain has it twice (test.y:97-112).
LEMMA OnePlace ==
  ASSUME EntriesAtHome, EntriesNotShared,
         NEW i \in DOMAIN table, NEW p \in DOMAIN table[i],
         NEW j \in DOMAIN table, NEW q \in DOMAIN table[j],
         table[i][p] = table[j][q]
  PROVE  i = j /\ p = q
<1>1. myHash(entries[table[i][p]].key, size) = i
  BY DEF EntriesAtHome, AtHome
<1>2. myHash(entries[table[j][q]].key, size) = j
  BY DEF EntriesAtHome, AtHome
<1>3. i = j
  BY <1>1, <1>2
<1>4. NoRepeat(table[i])
  BY DEF EntriesNotShared
<1> QED
  BY <1>3, <1>4 DEF NoRepeat

\* A turn of the inner loop comes to a place not left behind, and leaves it
\* and no other behind (test.y:550-556).
LEMMA CheckEntryCovers ==
  ASSUME DriverIInv, Coverage, CheckEntry
  PROVE  CheckedSoFar' /\ NoRepeat(checked')
<1> DEFINE e == table[bucket][position + 1]
<1>1. /\ bucket \in Nat /\ position \in Nat /\ position < Len(table[bucket])
      /\ size \in Nat \ {0} /\ bucket < size /\ pc = "ready"
      /\ table \in Chains(size) /\ checked \in Seq(Ids)
  BY DEF DriverIInv, DriverTypeOK, TableCalls, IInv, TypeOK, CheckEntry
<1>2. /\ DOMAIN table = 0..(size - 1) /\ bucket \in DOMAIN table
      /\ \A i \in DOMAIN table : table[i] \in Seq(Ids)
  BY <1>1 DEF Chains
<1>3. \A i \in DOMAIN table : DOMAIN table[i] = 1..Len(table[i]) /\ Len(table[i]) \in Nat
  BY <1>2, LenProperties
<1>4. position + 1 \in DOMAIN table[bucket]
  BY <1>1, <1>2, <1>3
<1>5. /\ UNCHANGED <<table, bucket>> /\ position' = position + 1
      /\ checked' = Append(checked, e)
  BY DEF CheckEntry, LookupCall
<1>6. /\ \A j \in DOMAIN checked : checked'[j] = checked[j]
      /\ checked'[Len(checked) + 1] = e
      /\ DOMAIN checked' = DOMAIN checked \cup {Len(checked) + 1}
  BY <1>1, <1>5, AppendFacts
<1>7. CheckedSoFar /\ NoRepeat(checked)
  BY DEF Coverage, CheckEntry
<1>8. \A i \in DOMAIN table : \A p \in DOMAIN table[i] :
        Passed(i, p)' <=> Passed(i, p) \/ (i = bucket /\ p = position + 1)
  BY <1>1, <1>2, <1>3, <1>5 DEF Passed
<1>9. \A j \in DOMAIN checked : checked[j] # e
  <2> SUFFICES ASSUME NEW j \in DOMAIN checked, checked[j] = e PROVE FALSE
    OBVIOUS
  <2>1. PICK i \in DOMAIN table : \E p \in DOMAIN table[i] :
          Passed(i, p) /\ checked[j] = table[i][p]
    BY <1>7 DEF CheckedSoFar
  <2>2. PICK p \in DOMAIN table[i] : Passed(i, p) /\ checked[j] = table[i][p]
    BY <2>1
  <2>3. i = bucket /\ p = position + 1
    BY <1>2, <1>4, <2>2, OnePlace DEF DriverIInv, IInv
  <2> QED
    BY <1>1, <2>2, <2>3 DEF Passed
<1>10. NoRepeat(checked')
  BY <1>6, <1>7, <1>9 DEF NoRepeat
<1>11. ASSUME NEW j \in DOMAIN checked'
       PROVE  \E i \in DOMAIN table' : \E p \in DOMAIN table'[i] :
                Passed(i, p)' /\ checked'[j] = table'[i][p]
  <2>1. CASE j = Len(checked) + 1
    BY <1>2, <1>4, <1>5, <1>6, <1>8, <2>1
  <2>2. CASE j \in DOMAIN checked
    BY <1>5, <1>6, <1>7, <1>8, <2>2 DEF CheckedSoFar
  <2> QED
    BY <1>6, <2>1, <2>2
<1>12. ASSUME NEW i \in DOMAIN table', NEW p \in DOMAIN table'[i], Passed(i, p)'
       PROVE  \E j \in DOMAIN checked' : checked'[j] = table'[i][p]
  <2>1. CASE i = bucket /\ p = position + 1
    BY <1>5, <1>6, <2>1
  <2>2. CASE Passed(i, p)
    BY <1>5, <1>6, <1>7, <2>2 DEF CheckedSoFar
  <2> QED
    BY <1>5, <1>8, <1>12, <2>1, <2>2
<1> QED
  BY <1>10, <1>11, <1>12 DEF CheckedSoFar

\* Advancing to the next bucket leaves no other place behind, for the one left
\* was at its end (test.y:548-550).
LEMMA CheckNextBucketCovers ==
  ASSUME DriverIInv, Coverage, CheckNextBucket
  PROVE  CheckedSoFar'
<1>1. /\ bucket \in Nat /\ position \in Nat /\ position = Len(table[bucket])
      /\ size \in Nat \ {0} /\ bucket < size /\ pc = "ready"
      /\ table \in Chains(size)
  BY DEF DriverIInv, DriverTypeOK, TableCalls, IInv, TypeOK, CheckNextBucket
<1>2. /\ DOMAIN table = 0..(size - 1)
      /\ \A i \in DOMAIN table : table[i] \in Seq(Ids)
  BY <1>1 DEF Chains
<1>3. \A i \in DOMAIN table : DOMAIN table[i] = 1..Len(table[i]) /\ Len(table[i]) \in Nat
  BY <1>2, LenProperties
<1>4. UNCHANGED <<table, checked>> /\ bucket' = bucket + 1 /\ position' = 0
  BY DEF CheckNextBucket, vars
<1>5. \A i \in DOMAIN table : \A p \in DOMAIN table[i] : Passed(i, p)' <=> Passed(i, p)
  BY <1>1, <1>2, <1>3, <1>4 DEF Passed
<1>6. CheckedSoFar
  BY DEF Coverage, CheckNextBucket
<1> QED
  BY <1>4, <1>5, <1>6 DEF CheckedSoFar

\* When the loop has left the last bucket every place is behind it, and every
\* entry of the table stands at one (test.y:548).
LEMMA CheckDoneCovers ==
  ASSUME DriverIInv, Coverage, CheckDone
  PROVE  EveryEntryChecked
<1>1. /\ at = "check" /\ pc = "ready" /\ bucket = size /\ size \in Nat \ {0}
      /\ table \in Chains(size) /\ newTable = <<>> /\ freed = <<>>
      /\ NothingLost
  BY DEF DriverIInv, TableCalls, IInv, TypeOK, NotYetFreed, CheckDone
<1>2. DOMAIN table = 0..(size - 1)
  BY <1>1 DEF Chains
<1>3. CheckedSoFar /\ NoRepeat(checked)
  BY <1>1 DEF Coverage
<1>4. ASSUME NEW e \in Ids PROVE \E j \in DOMAIN checked : checked[j] = e
  <2>1. On(e, table)
    BY <1>1 DEF NothingLost, On, Freed
  <2>2. PICK i \in DOMAIN table : \E p \in DOMAIN table[i] : table[i][p] = e
    BY <2>1 DEF On
  <2>3. \A p : Passed(i, p)
    BY <1>1, <1>2 DEF Passed
  <2> QED
    BY <1>3, <2>2, <2>3 DEF CheckedSoFar
<1> QED
  BY <1>3, <1>4 DEF EveryEntryChecked

\* Before the check nothing is behind it (test.y:547-548).
LEMMA NothingPassed ==
  ASSUME DriverIInv, Coverage, CloseInput
  PROVE  CheckedSoFar'
<1>1. /\ bucket = 0 /\ position = 0 /\ pc = "ready" /\ size \in Nat \ {0}
      /\ table \in Chains(size) /\ checked = <<>>
  BY DEF DriverIInv, TableCalls, IInv, TypeOK, Coverage, CloseInput
<1>2. /\ DOMAIN table = 0..(size - 1)
      /\ \A i \in DOMAIN table : table[i] \in Seq(Ids)
  BY <1>1 DEF Chains
<1>3. \A i \in DOMAIN table : DOMAIN table[i] = 1..Len(table[i]) /\ Len(table[i]) \in Nat
  BY <1>2, LenProperties
<1>4. UNCHANGED <<table, checked, bucket, position>>
  BY DEF CloseInput, checkVars, vars
<1>5. \A i \in DOMAIN table : \A p \in DOMAIN table[i] : ~Passed(i, p)'
  BY <1>1, <1>2, <1>3, <1>4 DEF Passed
<1>6. DOMAIN checked = {}
  BY <1>1
<1> QED
  BY <1>4, <1>5, <1>6 DEF CheckedSoFar

\* main begins with nothing checked (test.y:533).
LEMMA InitCoverage == DriverInit => Coverage
  BY DEF DriverInit, Coverage, NoRepeat

\* Every statement of main keeps what the check has come to (test.y:535-565).
LEMMA NextCoverage ==
  DriverIInv /\ Coverage /\ [DriverNext]_driverVars => Coverage'
<1> SUFFICES ASSUME DriverIInv, Coverage, [DriverNext]_driverVars PROVE Coverage'
  OBVIOUS
<1> USE DEF inputVars, checkVars
<1>1. CASE OpenInput \/ FirstToken \/ EndParse
  BY <1>1 DEF OpenInput, FirstToken, EndParse, Coverage
<1>2. ASSUME NEW k \in Keys, NEW v \in Values, Assign(k, v) PROVE Coverage'
  BY <1>2 DEF Assign, Coverage
<1>3. CASE TableStep
  <2>1. at \in {"yyparse", "free"} /\ (at = "free" => pc = "freeing")
    <3>1. pc \in {"rehash", "freeing"}
      BY <1>3 DEF TableStep, Internal, RehashEntry, RehashNextBucket, RehashDone,
                  FreeEntry, FreeNextBucket, FreeDone
    <3> QED
      BY <3>1 DEF DriverIInv, DriverTypeOK, TableCalls
  <2>2. entries' = entries
    BY <1>3 DEF TableStep, Internal, RehashEntry, RehashNextBucket, RehashDone,
                FreeEntry, FreeNextBucket, FreeDone
  <2>3. UNCHANGED <<at, checked, Ids>>
    BY <1>3, <2>2 DEF TableStep, Ids
  <2> QED
    BY <2>1, <2>3 DEF Coverage, EveryEntryChecked
<1>4. CASE CloseInput
  <2>1. at' = "check" /\ checked' = checked
    BY <1>4 DEF CloseInput
  <2> QED
    BY <1>4, <2>1, NothingPassed DEF Coverage
<1>5. CASE CheckEntry
  <2>1. at = "check" /\ at' = "check"
    BY <1>5 DEF CheckEntry
  <2> QED
    BY <1>5, <2>1, CheckEntryCovers DEF Coverage
<1>6. CASE CheckNextBucket
  <2>1. at' = "check" /\ checked' = checked
    BY <1>6 DEF CheckNextBucket
  <2> QED
    BY <1>6, <2>1, CheckNextBucketCovers DEF Coverage
<1>7. CASE CheckDone
  <2>1. at' = "free" /\ UNCHANGED <<checked, Ids>>
    BY <1>7 DEF CheckDone, FreeCall, Ids
  <2> QED
    BY <1>7, <2>1, CheckDoneCovers DEF Coverage, EveryEntryChecked
<1>8. CASE Return
  <2>1. at = "free" /\ at' = "returned" /\ UNCHANGED <<checked, Ids>>
    BY <1>8 DEF Return, vars, Ids
  <2> QED
    BY <2>1 DEF Coverage, EveryEntryChecked
<1>9. CASE DriverStopped \/ UNCHANGED driverVars
  <2>1. UNCHANGED <<at, checked, Ids, table, bucket, position>>
    BY <1>9 DEF DriverStopped, driverVars, vars, Ids
  <2> QED
    BY <2>1 DEF Coverage, EveryEntryChecked, CheckedSoFar, Passed
<1> QED
  BY <1>1, <1>2, <1>3, <1>4, <1>5, <1>6, <1>7, <1>8, <1>9
     DEF DriverNext, DriverStep

\* A sequence that has each of n things once is n long.
LEMMA OnceEach ==
  ASSUME NEW n \in Nat, NEW s \in Seq(1..n), NoRepeat(s),
         \A e \in 1..n : \E j \in DOMAIN s : s[j] = e
  PROVE  Len(s) = n
<1>1. Len(s) \in Nat /\ DOMAIN s = 1..Len(s) /\ s \in [1..Len(s) -> 1..n]
  BY LenProperties
<1>2. s \in Bijection(1..Len(s), 1..n)
  BY <1>1 DEF Bijection, Injection, Surjection, IsInjective, NoRepeat
<1>3. ExistsBijection(1..Len(s), 1..n)
  BY <1>2 DEF ExistsBijection
<1>4. Cardinality(1..n) = Len(s)
  BY <1>1, <1>3, FS_CountingElements
<1>5. Cardinality(1..n) = n
  BY FS_Interval
<1> QED
  BY <1>4, <1>5

\* What main leaves when it returns is what MainReturns promises: the check has
\* come to every entry once, in a table of whatever size it has grown to, and
\* freeSymbolTable has freed as many entries as were allocated, and the table
\* (test.y:548-561).
THEOREM ReturnsClean ==
  DriverSpec =>
    [](at = "returned" =>
         EveryEntryChecked /\ table = <<>> /\ Len(freed) = Len(entries))
<1>1. DriverSpec => []Coverage
  BY DriverIntact, InitCoverage, NextCoverage, PTL DEF DriverSpec
<1>2. DriverIInv /\ Coverage =>
        (at = "returned" =>
           EveryEntryChecked /\ table = <<>> /\ Len(freed) = Len(entries))
  <2> SUFFICES ASSUME DriverIInv, Coverage, at = "returned"
               PROVE  /\ EveryEntryChecked
                      /\ table = <<>> /\ Len(freed) = Len(entries)
    OBVIOUS
  <2>1. /\ pc = "freed" /\ table = <<>> /\ newTable = <<>>
        /\ freed \in Seq(Ids) /\ NoRepeat(freed) /\ NothingLost
        /\ entries \in Seq([key : Keys, value : Values])
    BY DEF DriverIInv, TableCalls, IInv, TypeOK, EntriesNotShared
  <2>2. \A e \in Ids : \E j \in DOMAIN freed : freed[j] = e
    BY <2>1 DEF NothingLost, On, Freed
  <2>3. Len(entries) \in Nat
    BY <2>1, LenProperties
  <2>4. Len(freed) = Len(entries)
    BY <2>1, <2>2, <2>3, OnceEach DEF Ids
  <2> QED
    BY <2>1, <2>4 DEF Coverage
<1> QED
  BY DriverIntact, <1>1, <1>2, PTL
=============================================================================
