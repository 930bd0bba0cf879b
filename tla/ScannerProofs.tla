---------------------------- MODULE ScannerProofs ----------------------------
(***************************************************************************)
(* For any file and any sizes of the buffer and of a read, yylex neither   *)
(* loses nor repeats a character and backs up only to what it noted in the *)
(* lexeme at hand.  The argument: between two reads the state of the       *)
(* automaton is a function of the text since yytext, so that reading the   *)
(* text again after it was moved gives the state it had.                   *)
(***************************************************************************)
EXTENDS Scanner, SequenceTheorems, WellFoundedInduction, TLAPS

-----------------------------------------------------------------------------
(* The tables *)

\* What the automaton does in its start state (lex.yy.c:438-446).
First == <<4, 5, 6, 7, 7, 8, 8, 8, 8, 9, 10, 7, 11, 12, 13, 14, 4, 7, 7>>

\* What the tables say, the default chain followed (lex.yy.c:420-460).
Table(s, c) ==
  IF s = 3 THEN 21
  ELSE IF c = 0 THEN 3
  ELSE IF s \in {1, 2} THEN First[c]
  ELSE IF s \in {5, 15} /\ c = 2 THEN 15
  ELSE IF s \in {10, 16} /\ c \in {10, 11} THEN 16
  ELSE IF s \in {11, 12, 13} /\ c = 14 THEN 17
  ELSE IF s \in {14, 18} /\ c \in {10, 11, 16} THEN 18
  ELSE IF s \in {14, 18, 19, 20} /\ c = 17 THEN 19
  ELSE IF s \in {19, 20} /\ c \in {10, 11, 16} THEN 20
  ELSE IF s = 22 /\ c = 2 THEN 18
  ELSE IF s = 23 /\ c = 2 THEN 20
  ELSE 21

\* The classes a state has an entry of its own for.
Own(s) ==
  IF s = 1 THEN 1..19
  ELSE IF s = 3 THEN {0}
  ELSE IF s \in {5, 15} THEN {2}
  ELSE IF s \in {10, 16} THEN {10, 11}
  ELSE IF s \in {11, 12, 13} THEN {14}
  ELSE IF s \in {14, 18, 19, 20} THEN {17}
  ELSE IF s = 21 THEN 0..19
  ELSE IF s \in {22, 23} THEN {2}
  ELSE {}

Place(s, c) == At(yy_base, s) + c
Chained(s, c) == IF At(yy_def, s) >= 22 THEN At(yy_meta, c) ELSE c

\* An entry of yy_chk names the state the entry of yy_nxt belongs to
\* (lex.yy.c:429-460).
LEMMA Entries ==
  \A s \in 1..23, c \in 0..19 :
    /\ At(yy_chk, Place(s, c)) = s <=> c \in Own(s)
    /\ c \in Own(s) => At(yy_nxt, Place(s, c)) = Table(s, c)
<1> SUFFICES ASSUME NEW s \in 1..23, NEW c \in 0..19
             PROVE  /\ At(yy_chk, Place(s, c)) = s <=> c \in Own(s)
                    /\ c \in Own(s) => At(yy_nxt, Place(s, c)) = Table(s, c)
    OBVIOUS
<1>1. CASE s = 1
  BY <1>1 DEF At, Place, yy_chk, yy_base, yy_nxt, Own, Table, First
<1>2. CASE s = 2
  BY <1>2 DEF At, Place, yy_chk, yy_base, yy_nxt, Own, Table
<1>3. CASE s = 3
  BY <1>3 DEF At, Place, yy_chk, yy_base, yy_nxt, Own, Table
<1>4. CASE s = 4
  BY <1>4 DEF At, Place, yy_chk, yy_base, yy_nxt, Own, Table
<1>5. CASE s = 5
  BY <1>5 DEF At, Place, yy_chk, yy_base, yy_nxt, Own, Table
<1>6. CASE s = 6
  BY <1>6 DEF At, Place, yy_chk, yy_base, yy_nxt, Own, Table
<1>7. CASE s = 7
  BY <1>7 DEF At, Place, yy_chk, yy_base, yy_nxt, Own, Table
<1>8. CASE s = 8
  BY <1>8 DEF At, Place, yy_chk, yy_base, yy_nxt, Own, Table
<1>9. CASE s = 9
  BY <1>9 DEF At, Place, yy_chk, yy_base, yy_nxt, Own, Table
<1>10. CASE s = 10
  BY <1>10 DEF At, Place, yy_chk, yy_base, yy_nxt, Own, Table
<1>11. CASE s = 11
  BY <1>11 DEF At, Place, yy_chk, yy_base, yy_nxt, Own, Table
<1>12. CASE s = 12
  BY <1>12 DEF At, Place, yy_chk, yy_base, yy_nxt, Own, Table
<1>13. CASE s = 13
  BY <1>13 DEF At, Place, yy_chk, yy_base, yy_nxt, Own, Table
<1>14. CASE s = 14
  BY <1>14 DEF At, Place, yy_chk, yy_base, yy_nxt, Own, Table
<1>15. CASE s = 15
  BY <1>15 DEF At, Place, yy_chk, yy_base, yy_nxt, Own, Table
<1>16. CASE s = 16
  BY <1>16 DEF At, Place, yy_chk, yy_base, yy_nxt, Own, Table
<1>17. CASE s = 17
  BY <1>17 DEF At, Place, yy_chk, yy_base, yy_nxt, Own, Table
<1>18. CASE s = 18
  BY <1>18 DEF At, Place, yy_chk, yy_base, yy_nxt, Own, Table
<1>19. CASE s = 19
  BY <1>19 DEF At, Place, yy_chk, yy_base, yy_nxt, Own, Table
<1>20. CASE s = 20
  BY <1>20 DEF At, Place, yy_chk, yy_base, yy_nxt, Own, Table
<1>21. CASE s = 21
  BY <1>21 DEF At, Place, yy_chk, yy_base, yy_nxt, Own, Table
<1>22. CASE s = 22
  BY <1>22 DEF At, Place, yy_chk, yy_base, yy_nxt, Own, Table
<1>23. CASE s = 23
  BY <1>23 DEF At, Place, yy_chk, yy_base, yy_nxt, Own, Table
<1> QED BY <1>1, <1>2, <1>3, <1>4, <1>5, <1>6, <1>7, <1>8, <1>9, <1>10, <1>11, <1>12, <1>13, <1>14, <1>15, <1>16, <1>17, <1>18, <1>19, <1>20, <1>21, <1>22, <1>23

\* Where a state has no entry the one yy_def names has, or the next one
\* after it (lex.yy.c:424-427).
LEMMA Defaults ==
  \A s \in 1..23, c \in 0..19 : c \notin Own(s) =>
    /\ At(yy_def, s) \in 1..23 /\ Chained(s, c) \in 0..19
    /\ Table(At(yy_def, s), Chained(s, c)) = Table(s, c)
    /\ Chained(s, c) \in Own(At(yy_def, s)) \/ s \in {2, 14, 18, 19, 20}
    /\ s \in {2, 14, 18, 19, 20} => At(yy_def, s) \in {1, 22, 23}
<1> SUFFICES ASSUME NEW s \in 1..23, NEW c \in 0..19, c \notin Own(s)
             PROVE  /\ At(yy_def, s) \in 1..23 /\ Chained(s, c) \in 0..19
                    /\ Table(At(yy_def, s), Chained(s, c)) = Table(s, c)
                    /\ Chained(s, c) \in Own(At(yy_def, s)) \/ s \in {2, 14, 18, 19, 20}
                    /\ s \in {2, 14, 18, 19, 20} => At(yy_def, s) \in {1, 22, 23}
    OBVIOUS
<1>1. CASE s = 1
  BY <1>1 DEF At, Chained, yy_def, yy_meta, Own, Table, First
<1>2. CASE s = 2
  BY <1>2 DEF At, Chained, yy_def, yy_meta, Own, Table, First
<1>3. CASE s = 3
  BY <1>3 DEF At, Chained, yy_def, yy_meta, Own, Table
<1>4. CASE s = 4
  BY <1>4 DEF At, Chained, yy_def, yy_meta, Own, Table
<1>5. CASE s = 5
  BY <1>5 DEF At, Chained, yy_def, yy_meta, Own, Table
<1>6. CASE s = 6
  BY <1>6 DEF At, Chained, yy_def, yy_meta, Own, Table
<1>7. CASE s = 7
  BY <1>7 DEF At, Chained, yy_def, yy_meta, Own, Table
<1>8. CASE s = 8
  BY <1>8 DEF At, Chained, yy_def, yy_meta, Own, Table
<1>9. CASE s = 9
  BY <1>9 DEF At, Chained, yy_def, yy_meta, Own, Table
<1>10. CASE s = 10
  BY <1>10 DEF At, Chained, yy_def, yy_meta, Own, Table
<1>11. CASE s = 11
  BY <1>11 DEF At, Chained, yy_def, yy_meta, Own, Table
<1>12. CASE s = 12
  BY <1>12 DEF At, Chained, yy_def, yy_meta, Own, Table
<1>13. CASE s = 13
  BY <1>13 DEF At, Chained, yy_def, yy_meta, Own, Table
<1>14. CASE s = 14
  BY <1>14 DEF At, Chained, yy_def, yy_meta, Own, Table
<1>15. CASE s = 15
  BY <1>15 DEF At, Chained, yy_def, yy_meta, Own, Table
<1>16. CASE s = 16
  BY <1>16 DEF At, Chained, yy_def, yy_meta, Own, Table
<1>17. CASE s = 17
  BY <1>17 DEF At, Chained, yy_def, yy_meta, Own, Table
<1>18. CASE s = 18
  BY <1>18 DEF At, Chained, yy_def, yy_meta, Own, Table
<1>19. CASE s = 19
  BY <1>19 DEF At, Chained, yy_def, yy_meta, Own, Table
<1>20. CASE s = 20
  BY <1>20 DEF At, Chained, yy_def, yy_meta, Own, Table
<1>21. CASE s = 21
  BY <1>21 DEF At, Chained, yy_def, yy_meta, Own, Table
<1>22. CASE s = 22
  BY <1>22 DEF At, Chained, yy_def, yy_meta, Own, Table
<1>23. CASE s = 23
  BY <1>23 DEF At, Chained, yy_def, yy_meta, Own, Table
<1> QED BY <1>1, <1>2, <1>3, <1>4, <1>5, <1>6, <1>7, <1>8, <1>9, <1>10, <1>11, <1>12, <1>13, <1>14, <1>15, <1>16, <1>17, <1>18, <1>19, <1>20, <1>21, <1>22, <1>23

Unfolded(f) ==
  [s \in 1..23 |->
    [c \in 0..19 |->
      IF At(yy_chk, At(yy_base, s) + c) = s
      THEN At(yy_nxt, At(yy_base, s) + c)
      ELSE LET d == At(yy_def, s)
           IN  f[d][IF d >= 22 THEN At(yy_meta, c) ELSE c]]]

\* The recursion of NextState ends, so that it has the value it is defined
\* by (lex.yy.c:733-741).
LEMMA Unfolds == NextState = Unfolded(NextState)
<1> DEFINE G(f) == Unfolded(f)
           t == [s \in 1..23 |-> [c \in 0..19 |-> Table(s, c)]]
<1>1. NextState = CHOOSE f : f = G(f)
  BY DEF NextState, Unfolded
<1>2. t = G(t)
  <2>1. ASSUME NEW s \in 1..23, NEW c \in 0..19
        PROVE  t[s][c] = G(t)[s][c]
    <3>2. t[s][c] = Table(s, c)
      OBVIOUS
    <3>3. CASE c \in Own(s)
      <4>1. G(t)[s][c] = At(yy_nxt, Place(s, c))
        BY <3>3, Entries DEF Unfolded, Place
      <4> QED BY <4>1, <3>2, <3>3, Entries
    <3>4. CASE c \notin Own(s)
      <4>1. G(t)[s][c] = t[At(yy_def, s)][Chained(s, c)]
        BY <3>4, Entries DEF Unfolded, Place, Chained
      <4>2. At(yy_def, s) \in 1..23 /\ Chained(s, c) \in 0..19
        BY <3>4, Defaults
      <4>3. t[At(yy_def, s)][Chained(s, c)] = Table(At(yy_def, s), Chained(s, c))
        BY <4>2
      <4> QED BY <4>1, <4>3, <3>2, <3>4, Defaults
    <3> QED BY <3>3, <3>4
  <2>2. \A s \in 1..23 : t[s] = G(t)[s]
    BY <2>1 DEF Unfolded
  <2> QED BY <2>2 DEF Unfolded
<1> HIDE DEF G, t
<1>3. NextState = G(NextState)
  BY <1>1, <1>2, Zenon
<1> QED BY <1>3 DEF G

LEMMA TableIs ==
  \A s \in 1..23, c \in 0..19 : NextState[s][c] = Table(s, c)
<1>1. \A s \in 1..23, c \in 0..19 :
        NextState[s][c] = IF c \in Own(s) THEN Table(s, c)
                          ELSE NextState[At(yy_def, s)][Chained(s, c)]
  <2> SUFFICES ASSUME NEW s \in 1..23, NEW c \in 0..19
               PROVE  NextState[s][c] = IF c \in Own(s) THEN Table(s, c)
                          ELSE NextState[At(yy_def, s)][Chained(s, c)]
      OBVIOUS
  <2>1. Unfolded(NextState)[s][c] =
          IF At(yy_chk, At(yy_base, s) + c) = s
          THEN At(yy_nxt, At(yy_base, s) + c)
          ELSE NextState[At(yy_def, s)][Chained(s, c)]
    BY DEF Unfolded, Chained
  <2>2. NextState[s][c] = Unfolded(NextState)[s][c]
    BY Unfolds, Zenon
  <2> QED BY <2>1, <2>2, Entries DEF Place
<1>2. \A s \in 1..23, c \in 0..19 : c \in Own(s) => NextState[s][c] = Table(s, c)
  BY <1>1
<1>3. ASSUME NEW s \in 1..23, s \notin {2, 14, 18, 19, 20}, NEW c \in 0..19
      PROVE  NextState[s][c] = Table(s, c)
  <2>1. CASE c \in Own(s)
    BY <2>1, <1>2
  <2>2. CASE c \notin Own(s)
    <3>1. PICK d \in 1..23 : d = At(yy_def, s)
      BY <2>2, Defaults
    <3>2. PICK e \in 0..19 : e = Chained(s, c)
      BY <2>2, Defaults
    <3>3. e \in Own(d) /\ Table(d, e) = Table(s, c)
      BY <2>2, <1>3, <3>1, <3>2, Defaults
    <3>4. NextState[d][e] = Table(d, e)
      BY <3>3, <1>2
    <3>5. NextState[s][c] = NextState[d][e]
      BY <2>2, <1>1, <3>1, <3>2
    <3> QED BY <3>3, <3>4, <3>5
  <2> QED BY <2>1, <2>2
<1>4. ASSUME NEW s \in {2, 14, 18, 19, 20}, NEW c \in 0..19
      PROVE  NextState[s][c] = Table(s, c)
  <2>0. s \in 1..23
    OBVIOUS
  <2>1. CASE c \in Own(s)
    BY <2>0, <2>1, <1>2
  <2>2. CASE c \notin Own(s)
    <3>1. PICK d \in 1..23 : d = At(yy_def, s)
      BY <2>0, <2>2, Defaults
    <3>2. PICK e \in 0..19 : e = Chained(s, c)
      BY <2>0, <2>2, Defaults
    <3>3. d \in {1, 22, 23} /\ Table(d, e) = Table(s, c)
      BY <2>0, <2>2, <3>1, <3>2, Defaults
    <3>4. NextState[d][e] = Table(d, e)
      BY <3>3, <1>3
    <3>5. NextState[s][c] = NextState[d][e]
      BY <2>0, <2>2, <1>1, <3>1, <3>2
    <3> QED BY <3>3, <3>4, <3>5
  <2> QED BY <2>1, <2>2
<1> QED BY <1>3, <1>4

\* The states that accept a text (lex.yy.c:409-413).
LEMMA Accepting == \A s \in 1..21 : Accepts(s) <=> s \notin {1, 2, 19, 21}
BY DEF Accepts, At, yy_accept

\* A state jams where its base is the last of yy_base: then it has accepted
\* a character no rule goes on from (lex.yy.c:742).
LEMMA JamsAt ==
  \A s \in 1..21 : At(yy_base, s) = JamBase <=> s \in {4, 6, 7, 8, 9, 17, 21}
BY DEF At, yy_base, JamBase

\* What the proofs use of the automaton: state 3 is the one after a mark,
\* one character takes the start state to a state that accepts it, and only
\* states 19 and 21 are reached without accepting (lex.yy.c:409-460).
LEMMA Automaton ==
  /\ \A s \in 1..21, c \in 0..19 : NextState[s][c] \in 1..21
  /\ \A s \in 1..21 : s # 3 => NextState[s][0] = 3
  /\ \A c \in 0..19 : NextState[3][c] = 21
  /\ \A c \in 1..19 : NextState[Start][c] \notin {1, 2, 3, 19, 21}
  /\ \A s \in 1..21, c \in 1..19 : NextState[s][c] \notin {1, 2, 3}
<1>1. \A s \in 1..21 : s \in 1..23
  OBVIOUS
<1>2. \A c \in 1..19 : First[c] \in 4..14
  BY DEF First
<1>3. \A s \in 1..21, c \in 0..19 : Table(s, c) \in 1..21
  BY <1>2 DEF Table
<1>4. \A s \in 1..21, c \in 1..19 : Table(s, c) \notin {1, 2, 3}
  BY <1>2 DEF Table
<1>5. /\ \A s \in 1..21 : s # 3 => Table(s, 0) = 3
      /\ \A c \in 0..19 : Table(3, c) = 21
      /\ \A c \in 1..19 : Table(1, c) \in 4..14
  BY <1>2 DEF Table
<1>6. ASSUME NEW s \in 1..21, NEW c \in 0..19
      PROVE  NextState[s][c] = Table(s, c)
  <2>1. s \in 1..23
    OBVIOUS
  <2> QED BY <2>1, TableIs, Zenon
<1>7. ASSUME NEW s \in 1..21, NEW c \in 0..19 PROVE NextState[s][c] \in 1..21
  BY <1>3, <1>6, Zenon
<1>8. ASSUME NEW s \in 1..21, NEW c \in 1..19 PROVE NextState[s][c] \notin {1, 2, 3}
  <2>1. c \in 0..19
    OBVIOUS
  <2> QED BY <1>4, <1>6, <2>1, Zenon
<1>9. ASSUME NEW s \in 1..21, s # 3 PROVE NextState[s][0] = 3
  <2>1. 0 \in 0..19
    OBVIOUS
  <2> QED BY <1>5, <1>6, <1>9, <2>1, Zenon
<1>10. ASSUME NEW c \in 0..19 PROVE NextState[3][c] = 21
  <2>1. 3 \in 1..21
    OBVIOUS
  <2> QED BY <1>5, <1>6, <2>1, Zenon
<1>11. ASSUME NEW c \in 1..19 PROVE NextState[Start][c] \notin {1, 2, 3, 19, 21}
  <2>1. 1 \in 1..21 /\ c \in 0..19 /\ Start = 1
    BY DEF Start
  <2>2. NextState[Start][c] \in 4..14
    BY <1>5, <1>6, <2>1, Zenon
  <2>3. \A n \in 4..14 : n \notin {1, 2, 3, 19, 21}
    OBVIOUS
  <2> QED BY <2>2, <2>3, Zenon
<1> QED BY <1>7, <1>8, <1>9, <1>10, <1>11, Zenon

-----------------------------------------------------------------------------
(* Recursion over a text *)

\* A set of naturals that is not empty has a least element.
LEMMA LeastOf ==
  ASSUME NEW P \in SUBSET Nat, P # {}
  PROVE  \E n \in P : \A m \in P : n <= m
<1>1. PICK n \in P : \A m \in P : <<m, n>> \notin OpToRel(<, Nat)
  BY NatLessThanWellFounded, WFMin
<1>2. ASSUME NEW m \in P PROVE n <= m
  <2>1. n \in Nat /\ m \in Nat
    OBVIOUS
  <2>2. ~(m < n)
    BY <1>1, <2>1 DEF OpToRel
  <2> QED BY <2>1, <2>2
<1> QED BY <1>2

Iterates(f, a, g, n, S) ==
  /\ f \in [0..n -> S]
  /\ f[0] = a
  /\ \A i \in 1..n : f[i] = g[i][f[i - 1]]

\* A function can be iterated any number of times, the step taken into
\* account.
LEMMA Iteration ==
  ASSUME NEW S, NEW a \in S, NEW g \in [Nat -> [S -> S]], NEW N \in Nat
  PROVE  \E f : Iterates(f, a, g, N, S)
<1> DEFINE Bad == {n \in Nat : ~\E f : Iterates(f, a, g, n, S)}
<1> SUFFICES ASSUME Bad # {} PROVE FALSE
    OBVIOUS
<1>1. PICK n \in Bad : \A m \in Bad : n <= m
  <2>1. Bad \in SUBSET Nat
    OBVIOUS
  <2> HIDE DEF Bad
  <2> QED BY <2>1, LeastOf
<1>2. n # 0
  <2> SUFFICES ASSUME n = 0 PROVE FALSE
      OBVIOUS
  <2> DEFINE f == [i \in 0..0 |-> a]
  <2>1. Iterates(f, a, g, 0, S)
    BY DEF Iterates
  <2> QED BY <1>1, <2>1
<1>3. n - 1 \in Nat /\ n - 1 \notin Bad
  <2>1. n \in Nat
    BY <1>1
  <2> HIDE DEF Bad
  <2> QED BY <1>1, <1>2, <2>1
<1>4. PICK e : Iterates(e, a, g, n - 1, S)
  BY <1>3
<1> DEFINE f == [i \in 0..n |-> IF i = n THEN g[n][e[n - 1]] ELSE e[i]]
<1>5. e \in [0..(n - 1) -> S] /\ e[n - 1] \in S
  BY <1>3, <1>4 DEF Iterates
<1>6. f \in [0..n -> S] /\ f[0] = a
  BY <1>2, <1>4, <1>5 DEF Iterates
<1>7. \A i \in 1..n : f[i] = g[i][f[i - 1]]
  <2> SUFFICES ASSUME NEW i \in 1..n PROVE f[i] = g[i][f[i - 1]]
      OBVIOUS
  <2>1. f[i - 1] = e[i - 1]
    OBVIOUS
  <2>2. CASE i = n
    BY <2>1, <2>2
  <2>3. CASE i # n
    BY <2>1, <2>3, <1>4 DEF Iterates
  <2> QED BY <2>2, <2>3
<1>8. Iterates(f, a, g, n, S)
  BY <1>6, <1>7 DEF Iterates
<1> QED BY <1>1, <1>8

\* The class yy_get_previous_state gives a character (lex.yy.c:1112).
Class(c) == IF c = NUL THEN 1 ELSE c

\* The states on the way through text t.
Runs(t, r) ==
  /\ r \in [0..Len(t) -> 1..Jam]
  /\ r[0] = Start
  /\ \A i \in 1..Len(t) : r[i] = NextState[r[i - 1]][Class(t[i])]

\* The state after text t.
Reached(t) == (CHOOSE r : Runs(t, r))[Len(t)]

Texts == Seq(0..19)

LEMMA ClassType == \A c \in 0..19 : Class(c) \in 1..19
BY DEF Class, NUL

LEMMA RunExists == \A t \in Texts : Runs(t, CHOOSE r : Runs(t, r))
<1> SUFFICES ASSUME NEW t \in Texts PROVE \E r : Runs(t, r)
    OBVIOUS
<1> DEFINE S == 1..21
           g == [i \in Nat |-> [s \in S |->
                  IF i \in 1..Len(t) THEN NextState[s][Class(t[i])] ELSE s]]
<1>1. g \in [Nat -> [S -> S]]
  <2>1. ASSUME NEW i \in 1..Len(t), NEW s \in S
        PROVE  NextState[s][Class(t[i])] \in S
    <3>1. t[i] \in 0..19
      BY DEF Texts
    <3>2. PICK c \in 1..19 : c = Class(t[i])
      BY <3>1, ClassType
    <3>3. NextState[s][c] \in 1..21
      <4>1. c \in 0..19 /\ s \in 1..21
        OBVIOUS
      <4> QED BY <4>1, Automaton
    <3> QED BY <3>2, <3>3
  <2> QED BY <2>1
<1>2. PICK r : Iterates(r, 1, g, Len(t), S)
  <2>1. Len(t) \in Nat /\ 1 \in S
    BY DEF Texts
  <2> HIDE DEF g, S
  <2> QED BY <1>1, <2>1, Iteration
<1>3. \A i \in 1..Len(t) : r[i] = NextState[r[i - 1]][Class(t[i])]
  <2> SUFFICES ASSUME NEW i \in 1..Len(t) PROVE r[i] = NextState[r[i - 1]][Class(t[i])]
      OBVIOUS
  <2>1. i \in Nat /\ r[i - 1] \in S
    <3>1. r \in [0..Len(t) -> S] /\ Len(t) \in Nat
      BY <1>2 DEF Texts, Iterates
    <3> HIDE DEF S
    <3> QED BY <3>1
  <2>2. r[i] = g[i][r[i - 1]]
    BY <1>2 DEF Iterates
  <2> QED BY <2>1, <2>2
<1> QED BY <1>2, <1>3 DEF Runs, Iterates, Start, Jam

\* The way through a text starts as the one through any text that starts
\* like it.
LEMMA RunsAgree ==
  ASSUME NEW t \in Texts, NEW u \in Texts, NEW q, NEW r, Runs(t, q), Runs(u, r),
         NEW N \in Nat, N <= Len(t), N <= Len(u),
         \A i \in 1..N : t[i] = u[i]
  PROVE  \A i \in 0..N : q[i] = r[i]
<1> DEFINE Bad == {i \in 0..N : q[i] # r[i]}
<1> SUFFICES ASSUME Bad # {} PROVE FALSE
    OBVIOUS
<1>1. PICK n \in Bad : \A m \in Bad : n <= m
  <2>1. Bad \in SUBSET Nat
    OBVIOUS
  <2> HIDE DEF Bad
  <2> QED BY <2>1, LeastOf
<1>2. n # 0
  BY <1>1 DEF Runs
<1>3. n \in 1..N /\ n - 1 \in 0..N /\ n - 1 \notin Bad
  BY <1>1, <1>2
<1>4. q[n - 1] = r[n - 1] /\ t[n] = u[n]
  BY <1>3
<1>5. n \in 1..Len(t) /\ n \in 1..Len(u)
  BY <1>3 DEF Texts
<1>6. q[n] = r[n]
  BY <1>4, <1>5 DEF Runs
<1> QED BY <1>6, <1>1

\* The state after a text one character longer (lex.yy.c:728-742).
LEMMA ReachedStep ==
  /\ Reached(<<>>) = Start
  /\ \A t \in Texts : Reached(t) \in 1..21
  /\ \A t \in Texts, c \in 0..19 :
       Reached(Append(t, c)) = NextState[Reached(t)][Class(c)]
<1>1. Reached(<<>>) = Start
  <2>1. <<>> \in Texts /\ Len(<<>>) = 0
    BY DEF Texts
  <2> QED BY <2>1, RunExists DEF Runs, Reached
<1>2. ASSUME NEW t \in Texts PROVE Reached(t) \in 1..21
  <2>1. Len(t) \in 0..Len(t)
    BY DEF Texts
  <2>2. PICK r : r = (CHOOSE x : Runs(t, x))
    OBVIOUS
  <2>3. Runs(t, r) /\ Reached(t) = r[Len(t)]
    BY <2>2, RunExists DEF Reached
  <2> QED BY <2>1, <2>3 DEF Runs, Jam
<1>3. ASSUME NEW t \in Texts, NEW c \in 0..19
      PROVE  Reached(Append(t, c)) = NextState[Reached(t)][Class(c)]
  <2>1. PICK u \in Texts : u = Append(t, c)
    BY AppendProperties DEF Texts
  <2>2. Len(t) \in Nat /\ Len(u) = Len(t) + 1 /\ u[Len(u)] = c
    BY <2>1 DEF Texts
  <2>3. \A i \in 1..Len(t) : t[i] = u[i]
    BY <2>1 DEF Texts
  <2>4. PICK q : q = CHOOSE x : Runs(t, x)
    OBVIOUS
  <2>5. PICK r : r = CHOOSE x : Runs(u, x)
    OBVIOUS
  <2>6. Runs(t, q) /\ Reached(t) = q[Len(t)]
    BY <2>4, RunExists DEF Reached
  <2>7. Runs(u, r) /\ Reached(u) = r[Len(u)]
    BY <2>5, RunExists DEF Reached
  <2>8. \A i \in 0..Len(t) : q[i] = r[i]
    BY <2>2, <2>3, <2>6, <2>7, RunsAgree
  <2>9. q[Len(t)] = r[Len(t)]
    BY <2>2, <2>8
  <2>10. r[Len(u)] = NextState[r[Len(t)]][Class(c)]
    BY <2>2, <2>7 DEF Runs
  <2> QED BY <2>1, <2>6, <2>7, <2>9, <2>10
<1> QED BY <1>1, <1>2, <1>3

\* The text of buffer b from position p up to, not including, q.
Between(b, p, q) == SubSeq(b, p + 1, q)

\* One character more of a text of the buffer.
LEMMA BetweenStep ==
  ASSUME NEW b \in Texts, NEW p \in Nat, NEW q \in Nat, p <= q, q <= Len(b)
  PROVE  /\ Between(b, p, q) \in Texts
         /\ Len(Between(b, p, q)) = q - p
         /\ p = q => Between(b, p, q) = <<>>
         /\ \A i \in 1..(q - p) : Between(b, p, q)[i] = b[p + i]
         /\ q < Len(b) => /\ At(b, q) \in 0..19
                          /\ Between(b, p, q + 1) = Append(Between(b, p, q), At(b, q))
<1>1. Len(b) \in Nat /\ \A i \in 1..Len(b) : b[i] \in 0..19
  BY DEF Texts
<1>2. ASSUME NEW r \in Nat, p <= r, r <= Len(b)
      PROVE  /\ Between(b, p, r) \in Texts
             /\ Len(Between(b, p, r)) = r - p
             /\ \A i \in 1..(r - p) : Between(b, p, r)[i] = b[p + i]
  BY <1>1, <1>2 DEF Between, Texts
<1>3. p = q => Between(b, p, q) = <<>>
  <2>1. Between(b, p, q) \in Seq(0..19) /\ Len(Between(b, p, q)) = q - p
    BY <1>2 DEF Texts
  <2> QED BY <2>1, EmptySeq
<1>4. ASSUME q < Len(b)
      PROVE  /\ At(b, q) \in 0..19
             /\ Between(b, p, q + 1) = Append(Between(b, p, q), At(b, q))
  <2>1. PICK c \in 0..19 : c = b[q + 1]
    BY <1>1, <1>4
  <2>2. PICK t : t = Between(b, p, q)
    OBVIOUS
  <2>3. PICK u : u = Between(b, p, q + 1)
    OBVIOUS
  <2>4. /\ u \in Seq(0..19) /\ Len(u) = q + 1 - p
        /\ \A i \in 1..(q + 1 - p) : u[i] = b[p + i]
    <3>1. q + 1 \in Nat /\ p <= q + 1 /\ q + 1 <= Len(b)
      BY <1>1, <1>4
    <3> QED BY <1>2, <2>3, <3>1 DEF Texts
  <2>5. /\ t \in Seq(0..19) /\ Len(t) = q - p
        /\ \A i \in 1..(q - p) : t[i] = b[p + i]
    BY <1>2, <2>2 DEF Texts
  <2>6. PICK v : v = Append(t, c)
    OBVIOUS
  <2>7. /\ v \in Seq(0..19) /\ Len(v) = q - p + 1
        /\ v[q - p + 1] = c
        /\ \A i \in 1..(q - p) : v[i] = t[i]
    BY <2>5, <2>6, AppendProperties
  <2>8. \A i \in 1..Len(u) : u[i] = v[i]
    <3> SUFFICES ASSUME NEW i \in 1..Len(u) PROVE u[i] = v[i]
        OBVIOUS
    <3>1. CASE i = q - p + 1
      BY <2>1, <2>4, <2>7, <3>1
    <3>2. CASE i # q - p + 1
      BY <2>4, <2>5, <2>7, <3>2
    <3> QED BY <3>1, <3>2
  <2>9. u = v
    BY <2>4, <2>7, <2>8, SeqEqual
  <2>10. At(b, q) = c
    BY <2>1 DEF At
  <2> QED BY <2>2, <2>3, <2>6, <2>9, <2>10
<1>5. /\ Between(b, p, q) \in Texts
      /\ Len(Between(b, p, q)) = q - p
      /\ \A i \in 1..(q - p) : Between(b, p, q)[i] = b[p + i]
  BY <1>2
<1> QED BY <1>3, <1>4, <1>5

LEMMA AtType == \A b \in Texts, p \in Nat : p < Len(b) => At(b, p) \in 0..19
<1> SUFFICES ASSUME NEW b \in Texts, NEW p \in Nat, p < Len(b) PROVE At(b, p) \in 0..19
    OBVIOUS
<1>1. Len(b) \in Nat /\ \A i \in 1..Len(b) : b[i] \in 0..19
  BY DEF Texts
<1>2. p + 1 \in 1..Len(b)
  BY <1>1
<1> QED BY <1>1, <1>2 DEF At

\* Position l.cpos is the last before e where the text from y on can end.
Noted(b, y, e, l) ==
  /\ l.cpos \in (y + 1)..(e - 1)
  /\ l.state = Reached(Between(b, y, l.cpos))
  /\ l.state \in 1..Jam /\ Accepts(l.state)
  /\ \A q \in (l.cpos + 1)..(e - 1) : ~Accepts(Reached(Between(b, y, q)))

\* Any one character is a lexeme of some rule, so that one more character
\* makes a position to go back to (lex.yy.c:728-733).
LEMMA FirstAccepts ==
  ASSUME NEW b \in Texts, NEW y \in Nat, y < Len(b)
  PROVE  /\ Reached(Between(b, y, y)) = Start
         /\ ~Accepts(Start)
         /\ Accepts(Reached(Between(b, y, y + 1)))
         /\ Reached(Between(b, y, y + 1)) \in 1..21
         /\ Reached(Between(b, y, y + 1)) \notin {2, 3, 19, 21}
<1>0. Len(b) \in Nat /\ y <= Len(b) /\ y <= y
  BY DEF Texts
<1>1. /\ Between(b, y, y) = <<>> /\ At(b, y) \in 0..19
      /\ Between(b, y, y + 1) = Append(<<>>, At(b, y))
  <2>1. Between(b, y, y) = <<>>
    BY <1>0, BetweenStep
  <2>2. /\ At(b, y) \in 0..19
        /\ Between(b, y, y + 1) = Append(Between(b, y, y), At(b, y))
    BY <1>0, BetweenStep
  <2> QED BY <2>1, <2>2
<1>2. PICK c \in 0..19 : c = At(b, y)
  BY <1>1
<1>3. PICK d \in 1..19 : d = Class(c)
  BY ClassType
<1>4. <<>> \in Texts
  BY DEF Texts
<1>5. Reached(Between(b, y, y + 1)) = NextState[Start][d]
  BY <1>1, <1>2, <1>3, <1>4, ReachedStep
<1>6. PICK s : s = NextState[Start][d]
  OBVIOUS
<1>7. s \in 1..21 /\ s \notin {1, 2, 3, 19, 21}
  <2>1. Start \in 1..21 /\ d \in 0..19
    BY DEF Start
  <2>2. NextState[Start][d] \in 1..21
    BY <2>1, Automaton
  <2>3. NextState[Start][d] \notin {1, 2, 3, 19, 21}
    BY Automaton
  <2> QED BY <1>6, <2>2, <2>3
<1>8. Accepts(s)
  BY <1>7, Accepting
<1>9. ~Accepts(Start)
  BY Accepting DEF Start
<1>10. s \notin {2, 3, 19, 21}
  BY <1>7
<1>11. Reached(Between(b, y, y)) = Start
  BY <1>1, ReachedStep
<1> QED BY <1>5, <1>6, <1>7, <1>8, <1>9, <1>10, <1>11

\* The position noted stays the last one over one more character.
LEMMA NotedStep ==
  ASSUME NEW b \in Texts, NEW y \in Nat, NEW p \in Nat, y < p, p <= Len(b),
         NEW l, p >= y + 2 => Noted(b, y, p, l)
  PROVE  LET s == Reached(Between(b, y, p))
         IN  Noted(b, y, p + 1,
                   IF Accepts(s) THEN [state |-> s, cpos |-> p] ELSE l)
<1>1. PICK s : s = Reached(Between(b, y, p))
  OBVIOUS
<1>2. s \in 1..21
  <2>1. Between(b, y, p) \in Texts
    BY BetweenStep
  <2> QED BY <1>1, <2>1, ReachedStep
<1>3. PICK k : k = IF Accepts(s) THEN [state |-> s, cpos |-> p] ELSE l
  OBVIOUS
<1>4. Noted(b, y, p + 1, k)
  <2>1. CASE Accepts(s)
    <3>1. k.state = s /\ k.cpos = p
      BY <1>3, <2>1
    <3> QED BY <1>1, <1>2, <2>1, <3>1 DEF Noted, Jam
  <2>2. CASE ~Accepts(s)
    <3>1. p # y + 1
      <4>1. Len(b) \in Nat
        BY DEF Texts
      <4> QED BY <1>1, <2>2, <4>1, FirstAccepts
    <3>2. Noted(b, y, p, l) /\ k = l
      BY <1>3, <2>2, <3>1
    <3>3. \A q \in (l.cpos + 1)..p : ~Accepts(Reached(Between(b, y, q)))
      <4>1. \A q \in (l.cpos + 1)..p : q = p \/ q \in (l.cpos + 1)..(p - 1)
        BY <3>2 DEF Noted
      <4> QED BY <1>1, <2>2, <3>2, <4>1 DEF Noted
    <3> QED BY <3>2, <3>3 DEF Noted
  <2> QED BY <2>1, <2>2
<1> QED BY <1>1, <1>3, <1>4, Zenon

ScanStep(b, before, p) ==
  [state |-> NextState[before.state][Class(At(b, p - 1))],
   last  |-> IF Accepts(before.state)
             THEN [state |-> before.state, cpos |-> p - 1]
             ELSE before.last]

Rescanned(b, y, e, w) ==
  /\ w[y] = [state |-> Start, last |-> last]
  /\ \A p \in (y + 1)..e : w[p] = ScanStep(b, w[p - 1], p)
  /\ Rescan(b, y, e) = w[e]

\* The recursion of Rescan ends (lex.yy.c:1106-1120).
LEMMA RescanRuns ==
  ASSUME NEW b \in Texts, NEW y \in Nat, NEW e \in Nat, y <= e, e <= Len(b)
  PROVE  \E w : Rescanned(b, y, e, w)
<1> DEFINE G(f) == [p \in y..e |->
             IF p = y THEN [state |-> Start, last |-> last]
             ELSE [state |-> NextState[f[p - 1].state]
                               [IF At(b, p - 1) = NUL THEN 1 ELSE At(b, p - 1)],
                   last  |-> IF Accepts(f[p - 1].state)
                             THEN [state |-> f[p - 1].state, cpos |-> p - 1]
                             ELSE f[p - 1].last]]
           w == CHOOSE f : f = G(f)
           S == [state : 1..21, last : {last} \cup [state : 1..21, cpos : Int]]
           a == [state |-> Start, last |-> last]
           g == [i \in Nat |-> [x \in S |->
                  IF i \in 1..(e - y) THEN ScanStep(b, x, y + i) ELSE x]]
<1>1. Rescan(b, y, e) = w[e]
  BY DEF Rescan
<1>2. PICK h : Iterates(h, a, g, e - y, S)
  <2>1. a \in S /\ e - y \in Nat
    BY DEF Start
  <2>2. g \in [Nat -> [S -> S]]
    <3>1. ASSUME NEW i \in 1..(e - y), NEW x \in S
          PROVE  ScanStep(b, x, y + i) \in S
      <4>1. PICK d \in 1..19 : d = Class(At(b, y + i - 1))
        <5>1. At(b, y + i - 1) \in 0..19
          BY DEF At, Texts
        <5> QED BY <5>1, ClassType
      <4>2. NextState[x.state][d] \in 1..21
        <5>1. x.state \in 1..21 /\ d \in 0..19
          OBVIOUS
        <5> QED BY <5>1, Automaton
      <4>3. x.last \in {last} \cup [state : 1..21, cpos : Int]
        OBVIOUS
      <4>4. [state |-> x.state, cpos |-> y + i - 1] \in [state : 1..21, cpos : Int]
        OBVIOUS
      <4> QED BY <4>1, <4>2, <4>3, <4>4 DEF ScanStep
    <3> QED BY <3>1
  <2> HIDE DEF a, g, S
  <2> QED BY <2>1, <2>2, Iteration
<1> DEFINE f0 == [p \in y..e |-> h[p - y]]
<1>3. f0 = G(f0)
  <2>1. ASSUME NEW p \in y..e PROVE f0[p] = G(f0)[p]
    <3>1. CASE p = y
      BY <1>2, <3>1 DEF Iterates
    <3>2. CASE p # y
      <4>1. p - y \in 1..(e - y) /\ (p - y) - 1 = (p - 1) - y /\ y + (p - y) = p
            /\ p - 1 \in y..e
        BY <3>2
      <4>2. h[p - y] = g[p - y][h[(p - y) - 1]]
        BY <1>2, <4>1 DEF Iterates
      <4>3. h[(p - y) - 1] \in S /\ p - y \in Nat
        <5>1. (p - y) - 1 \in 0..(e - y)
          BY <4>1
        <5>2. h \in [0..(e - y) -> S]
          BY <1>2 DEF Iterates
        <5> HIDE DEF S
        <5> QED BY <4>1, <5>1, <5>2
      <4>4. g[p - y][h[(p - y) - 1]] = ScanStep(b, h[(p - y) - 1], y + (p - y))
        <5> HIDE DEF S
        <5> QED BY <4>1, <4>3
      <4>5. f0[p - 1] = h[(p - y) - 1]
        BY <4>1
      <4>6. h[p - y] = ScanStep(b, f0[p - 1], p)
        BY <4>1, <4>2, <4>4, <4>5
      <4>7. G(f0)[p] = ScanStep(b, f0[p - 1], p)
        <5> HIDE DEF f0
        <5> QED BY <3>2 DEF ScanStep, Class
      <4> QED BY <4>6, <4>7
    <3> QED BY <3>1, <3>2
  <2> QED BY <2>1
<1>4. w = G(w)
  <2>1. w = CHOOSE f : f = G(f)
    OBVIOUS
  <2> HIDE DEF w, G, f0
  <2> QED BY <1>3, <2>1, Zenon
<1> HIDE DEF w
<1>5. w[y] = [state |-> Start, last |-> last]
  <2>1. G(w)[y] = [state |-> Start, last |-> last]
    OBVIOUS
  <2> HIDE DEF G
  <2> QED BY <1>4, <2>1, Zenon
<1>6. ASSUME NEW p \in (y + 1)..e PROVE w[p] = ScanStep(b, w[p - 1], p)
  <2>1. G(w)[p] = ScanStep(b, w[p - 1], p)
    BY DEF ScanStep, Class
  <2> HIDE DEF G
  <2> QED BY <1>4, <2>1, Zenon
<1>7. Rescanned(b, y, e, w)
  BY <1>1, <1>5, <1>6 DEF Rescanned
<1> QED BY <1>7

\* Reading a text again gives the state after it and the last position
\* before its end where it could have ended (lex.yy.c:1101-1122).
LEMMA RescanIs ==
  ASSUME NEW b \in Texts, NEW y \in Nat, NEW e \in Nat, y <= e, e <= Len(b)
  PROVE  /\ Rescan(b, y, e).state = Reached(Between(b, y, e))
         /\ e >= y + 2 => Noted(b, y, e, Rescan(b, y, e).last)
         /\ e <= y + 1 => Rescan(b, y, e).last = last
<1> DEFINE Right(p, x) ==
             /\ x.state = Reached(Between(b, y, p))
             /\ p >= y + 2 => Noted(b, y, p, x.last)
             /\ p <= y + 1 => x.last = last
<1>0. Len(b) \in Nat
  BY DEF Texts
<1>1. PICK w : Rescanned(b, y, e, w)
  BY RescanRuns
<1> DEFINE Bad == {p \in y..e : ~Right(p, w[p])}
<1>2. Right(y, w[y])
  <2>1. w[y].state = Start /\ w[y].last = last
    BY <1>1 DEF Rescanned
  <2>2. Between(b, y, y) = <<>>
    BY <1>0, BetweenStep
  <2> QED BY <2>1, <2>2, ReachedStep
<1>3. ASSUME NEW p \in (y + 1)..e, Right(p - 1, w[p - 1])
      PROVE  Right(p, w[p])
  <2>1. PICK x : x = w[p - 1]
    OBVIOUS
  <2>20. w[p] = ScanStep(b, x, p)
    BY <1>1, <2>1 DEF Rescanned
  <2>2. PICK q \in y..e : q = p - 1
    OBVIOUS
  <2>3. q \in Nat /\ y <= q /\ q < Len(b) /\ q <= Len(b)
    BY <1>0, <2>2
  <2>4. x.state = Reached(Between(b, y, q))
    BY <1>3, <2>1, <2>2
  <2>5. PICK t \in Texts : t = Between(b, y, q)
    BY <2>3, BetweenStep
  <2>6. PICK c \in 0..19 : c = At(b, q)
    BY <2>3, BetweenStep
  <2>7. Between(b, y, p) = Append(t, c)
    <3>1. Between(b, y, q + 1) = Append(Between(b, y, q), At(b, q))
      BY <2>3, BetweenStep
    <3> QED BY <2>2, <2>5, <2>6, <3>1
  <2>8. w[p].state = Reached(Between(b, y, p))
    <3>1. Reached(Append(t, c)) = NextState[Reached(t)][Class(c)]
      BY ReachedStep
    <3>2. w[p].state = NextState[x.state][Class(At(b, p - 1))]
      BY <2>20 DEF ScanStep
    <3>3. w[p].state = NextState[x.state][Class(c)]
      BY <2>2, <2>6, <3>2
    <3> QED BY <2>4, <2>5, <2>7, <3>1, <3>3
  <2>9. w[p].last = IF Accepts(x.state) THEN [state |-> x.state, cpos |-> q]
                    ELSE x.last
    BY <2>2, <2>20 DEF ScanStep
  <2>10. CASE p = y + 1
    <3>1. q = y
      BY <2>2, <2>10
    <3>2. x.state = Start
      BY <1>0, <2>3, <2>4, <3>1, BetweenStep, ReachedStep
    <3>3. ~Accepts(x.state)
      BY <3>2, Accepting DEF Start
    <3>4. x.last = last
      BY <1>3, <2>1, <2>2, <3>1
    <3> QED BY <2>8, <2>9, <2>10, <3>3, <3>4
  <2>11. CASE p # y + 1
    <3>1. y < q /\ (q >= y + 2 => Noted(b, y, q, x.last))
      BY <1>3, <2>1, <2>2, <2>11
    <3>2. Noted(b, y, q + 1, IF Accepts(x.state) THEN [state |-> x.state, cpos |-> q]
                             ELSE x.last)
      BY <2>3, <2>4, <3>1, NotedStep
    <3>3. Noted(b, y, p, w[p].last)
      BY <2>2, <2>9, <3>2
    <3> QED BY <2>8, <2>11, <3>3
  <2> QED BY <2>10, <2>11
<1> HIDE DEF Right
<1>4. Bad = {}
  <2> SUFFICES ASSUME Bad # {} PROVE FALSE
      OBVIOUS
  <2>1. PICK n \in Bad : \A m \in Bad : n <= m
    <3>1. Bad \in SUBSET Nat
      OBVIOUS
    <3> HIDE DEF Bad
    <3> QED BY <3>1, LeastOf
  <2>2. n # y /\ n \in y..e
    BY <1>2, <2>1
  <2>3. n \in (y + 1)..e /\ n - 1 \in y..e
    BY <2>2
  <2>4. n - 1 \notin Bad
    <3> HIDE DEF Bad
    <3> QED BY <2>1, <2>3
  <2>5. Right(n, w[n])
    BY <1>3, <2>3, <2>4
  <2> QED BY <2>1, <2>5
<1>5. Right(e, w[e])
  BY <1>4
<1> QED BY <1>1, <1>5 DEF Right, Rescanned

\* The texts of a list, one after the other.
Flattened(ts, f) ==
  /\ f[1] = ts[1]
  /\ \A i \in 2..Len(ts) : f[i] = f[i - 1] \o ts[i]
  /\ FlattenSeq(ts) = f[Len(ts)]

LEMMA FlattenRuns ==
  ASSUME NEW ts \in Seq(Texts), ts # <<>>
  PROVE  \E f : Flattened(ts, f)
<1> DEFINE G(f) == [i \in 1..Len(ts) |->
                      IF i = 1 THEN ts[i] ELSE f[i - 1] \o ts[i]]
           w == CHOOSE f : f = G(f)
           S == Texts
           a == ts[1]
           g == [i \in Nat |-> [x \in S |->
                  IF i \in 1..(Len(ts) - 1) THEN x \o ts[i + 1] ELSE x]]
<1>0. Len(ts) \in Nat \ {0} /\ \A i \in 1..Len(ts) : ts[i] \in Texts
  <2>1. Len(ts) \in Nat /\ \A i \in 1..Len(ts) : ts[i] \in Texts
    OBVIOUS
  <2>2. Len(ts) # 0
    BY EmptySeq
  <2> QED BY <2>1, <2>2
<1>1. FlattenSeq(ts) = w[Len(ts)]
  BY <1>0 DEF FlattenSeq
<1>2. PICK h : Iterates(h, a, g, Len(ts) - 1, S)
  <2>1. a \in S /\ Len(ts) - 1 \in Nat
    BY <1>0
  <2>2. g \in [Nat -> [S -> S]]
    <3>1. ASSUME NEW i \in 1..(Len(ts) - 1), NEW x \in S PROVE x \o ts[i + 1] \in S
      <4>1. ts[i + 1] \in Texts
        BY <1>0
      <4> QED BY <4>1, ConcatProperties DEF Texts
    <3> QED BY <3>1
  <2> HIDE DEF a, g, S
  <2> QED BY <2>1, <2>2, Iteration
<1> DEFINE f0 == [i \in 1..Len(ts) |-> h[i - 1]]
<1>3. f0 = G(f0)
  <2>1. ASSUME NEW i \in 1..Len(ts) PROVE f0[i] = G(f0)[i]
    <3>1. CASE i = 1
      BY <1>2, <3>1 DEF Iterates
    <3>2. CASE i # 1
      <4>1. i - 1 \in 1..(Len(ts) - 1) /\ i - 2 \in 0..(Len(ts) - 1) /\ (i - 1) - 1 = i - 2
            /\ (i - 1) + 1 = i
        BY <1>0, <3>2
      <4>2. h[i - 1] = g[i - 1][h[i - 2]]
        BY <1>2, <4>1 DEF Iterates
      <4>3. h[i - 2] \in S /\ i - 1 \in Nat
        <5>1. h \in [0..(Len(ts) - 1) -> S]
          BY <1>2 DEF Iterates
        <5> HIDE DEF S
        <5> QED BY <4>1, <5>1
      <4>4. g[i - 1][h[i - 2]] = h[i - 2] \o ts[(i - 1) + 1]
        <5> HIDE DEF S
        <5> QED BY <4>1, <4>3
      <4>5. f0[i - 1] = h[i - 2] /\ f0[i] = h[i - 1]
        BY <4>1, <1>0
      <4>6. G(f0)[i] = f0[i - 1] \o ts[i]
        <5> HIDE DEF f0
        <5> QED BY <3>2
      <4> QED BY <4>1, <4>2, <4>4, <4>5, <4>6
    <3> QED BY <3>1, <3>2
  <2> QED BY <2>1
<1>4. w = G(w)
  <2>1. w = CHOOSE f : f = G(f)
    OBVIOUS
  <2> HIDE DEF w, G, f0
  <2> QED BY <1>3, <2>1, Zenon
<1> HIDE DEF w
<1>5. w[1] = ts[1]
  <2>1. G(w)[1] = ts[1]
    BY <1>0
  <2> HIDE DEF G
  <2> QED BY <1>4, <2>1, Zenon
<1>6. ASSUME NEW i \in 2..Len(ts) PROVE w[i] = w[i - 1] \o ts[i]
  <2>0. i \in 1..Len(ts) /\ i # 1
    BY <1>0
  <2>1. G(w)[i] = w[i - 1] \o ts[i]
    BY <2>0
  <2> HIDE DEF G
  <2> QED BY <1>4, <2>1, Zenon
<1>7. Flattened(ts, w)
  BY <1>1, <1>5, <1>6 DEF Flattened
<1> QED BY <1>7

StartAlike(ts, us, n) == \A i \in 1..n : ts[i] = us[i]

\* Lists that start alike are joined alike as far as they do.
LEMMA FlattenAgree ==
  ASSUME NEW ts \in Seq(Texts), NEW us \in Seq(Texts), NEW f, NEW h,
         Flattened(ts, f), Flattened(us, h),
         NEW N \in Nat, N <= Len(ts), N <= Len(us), StartAlike(ts, us, N)
  PROVE  \A i \in 1..N : f[i] \in Texts /\ f[i] = h[i]
<1> DEFINE Bad == {i \in 1..N : ~(f[i] \in Texts /\ f[i] = h[i])}
<1> SUFFICES ASSUME Bad # {} PROVE FALSE
    OBVIOUS
<1>0. Len(ts) \in Nat /\ Len(us) \in Nat /\ \A i \in 1..Len(ts) : ts[i] \in Texts
  OBVIOUS
<1>1. PICK n \in Bad : \A m \in Bad : n <= m
  <2>1. Bad \in SUBSET Nat
    OBVIOUS
  <2> HIDE DEF Bad
  <2> QED BY <2>1, LeastOf
<1>2. n # 1
  <2> SUFFICES ASSUME n = 1 PROVE FALSE
      OBVIOUS
  <2>1. 1 \in 1..N /\ 1 \in 1..Len(ts)
    BY <1>0, <1>1
  <2>2. f[1] = h[1] /\ f[1] \in Texts
    BY <1>0, <2>1 DEF Flattened, StartAlike
  <2> QED BY <1>1, <2>2
<1>3. n \in 2..N /\ n - 1 \in 1..N /\ n - 1 \notin Bad
  <2>1. n \in 1..N
    BY <1>1
  <2> HIDE DEF Bad
  <2> QED BY <1>1, <1>2, <2>1
<1>4. f[n - 1] \in Texts /\ f[n - 1] = h[n - 1]
  BY <1>3
<1>5. n \in 2..Len(ts) /\ n \in 2..Len(us) /\ ts[n] \in Texts /\ ts[n] = us[n]
  BY <1>0, <1>3 DEF StartAlike
<1>6. f[n] = f[n - 1] \o ts[n] /\ h[n] = h[n - 1] \o us[n]
  BY <1>5 DEF Flattened
<1>7. f[n - 1] \o ts[n] \in Texts
  BY <1>4, <1>5, ConcatProperties DEF Texts
<1> QED BY <1>1, <1>4, <1>5, <1>6, <1>7

Lexeme == [rule : 1..9, text : Texts, line : Nat]

\* One lexeme more adds its text (lex.yy.c:760-940).
LEMMA Joins ==
  /\ Joined(<<>>) = <<>>
  /\ \A ls \in Seq(Lexeme) : Joined(ls) \in Texts
  /\ \A ls \in Seq(Lexeme), l \in Lexeme :
       Joined(Append(ls, l)) = Joined(ls) \o l.text
<1> DEFINE Words(ls) == [j \in DOMAIN ls |-> ls[j].text]
<1>1. ASSUME NEW ls \in Seq(Lexeme)
      PROVE  /\ Words(ls) \in Seq(Texts) /\ Len(Words(ls)) = Len(ls)
             /\ \A j \in 1..Len(ls) : Words(ls)[j] = ls[j].text
  <2>1. DOMAIN ls = 1..Len(ls) /\ Len(ls) \in Nat
    OBVIOUS
  <2>2. \A j \in 1..Len(ls) : ls[j].text \in Texts
    <3>1. \A j \in 1..Len(ls) : ls[j] \in Lexeme
      OBVIOUS
    <3> QED BY <3>1 DEF Lexeme
  <2>3. Words(ls) \in [1..Len(ls) -> Texts]
    BY <2>1, <2>2
  <2>4. Words(ls) \in Seq(Texts)
    BY <2>1, <2>3, IsASeq
  <2>5. DOMAIN Words(ls) = 1..Len(Words(ls)) /\ Len(Words(ls)) \in Nat
    <3> HIDE DEF Words
    <3> QED BY <2>4
  <2>6. DOMAIN Words(ls) = 1..Len(ls)
    BY <2>3
  <2>7. Len(Words(ls)) = Len(ls)
    <3>1. PICK m \in Nat : m = Len(Words(ls))
      BY <2>5
    <3>2. PICK n \in Nat : n = Len(ls)
      BY <2>1
    <3>3. 1..m = 1..n
      BY <2>1, <2>5, <2>6, <3>1, <3>2, Zenon
    <3>4. m = n
      <4>1. m # 0 => m \in 1..n
        BY <3>3
      <4>2. n # 0 => n \in 1..m
        BY <3>3
      <4> QED BY <4>1, <4>2
    <3> QED BY <3>1, <3>2, <3>4
  <2> QED BY <2>1, <2>4, <2>7
<1>2. \A ls : Joined(ls) = FlattenSeq(Words(ls))
  BY DEF Joined
<1>3. ASSUME NEW ls \in Seq(Lexeme), Len(ls) = 0 PROVE Joined(ls) = <<>>
  <2>1. Words(ls) = <<>> /\ Len(Words(ls)) = 0
    <3> HIDE DEF Words
    <3> QED BY <1>1, <1>3, EmptySeq
  <2> QED BY <1>2, <2>1 DEF FlattenSeq
<1> HIDE DEF Words
<1>4. ASSUME NEW ls \in Seq(Lexeme) PROVE Joined(ls) \in Texts
  <2>1. CASE Len(ls) = 0
    <3>1. <<>> \in Texts
      BY DEF Texts
    <3> QED BY <1>3, <2>1, <3>1
  <2>2. CASE Len(ls) # 0
    <3>1. PICK n \in Nat : n = Len(ls) /\ n \in 1..n
      BY <2>2
    <3>2. PICK ts \in Seq(Texts) : ts = Words(ls) /\ Len(ts) = n
      BY <1>1, <3>1
    <3>3. ts # <<>>
      BY <3>1, <3>2
    <3>4. PICK f : Flattened(ts, f)
      BY <3>3, FlattenRuns
    <3>5. f[n] \in Texts
      BY <3>1, <3>2, <3>4, FlattenAgree DEF StartAlike
    <3> QED BY <1>2, <3>2, <3>4, <3>5 DEF Flattened
  <2> QED BY <2>1, <2>2
<1>5. ASSUME NEW ls \in Seq(Lexeme), NEW l \in Lexeme
      PROVE  Joined(Append(ls, l)) = Joined(ls) \o l.text
  <2>1. PICK n \in Nat : n = Len(ls)
    OBVIOUS
  <2>2. PICK ms \in Seq(Lexeme) : ms = Append(ls, l)
    BY AppendProperties
  <2>3. /\ Len(ms) = n + 1 /\ ms[n + 1] = l
        /\ \A i \in 1..n : ms[i] = ls[i]
    BY <2>1, <2>2, AppendProperties
  <2>4. PICK us \in Seq(Texts) : us = Words(ms)
    BY <1>1
  <2>5. /\ Len(us) = n + 1
        /\ \A i \in 1..(n + 1) : us[i] = ms[i].text
    BY <1>1, <2>3, <2>4
  <2>6. PICK h : Flattened(us, h)
    <3>1. us # <<>>
      BY <2>5
    <3> QED BY <3>1, FlattenRuns
  <2>7. Joined(ms) = h[n + 1]
    BY <1>2, <2>4, <2>5, <2>6 DEF Flattened
  <2>8. CASE n = 0
    <3>1. Joined(ls) = <<>>
      BY <1>3, <2>1, <2>8
    <3>2. h[1] = us[1] /\ us[1] = l.text
      BY <2>3, <2>5, <2>6, <2>8 DEF Flattened
    <3>3. l.text \in Seq(0..19)
      BY DEF Lexeme, Texts
    <3>4. <<>> \o l.text = l.text
      BY <3>3, ConcatEmptySeq
    <3> QED BY <2>2, <2>7, <2>8, <3>1, <3>2, <3>4
  <2>9. CASE n # 0
    <3>1. PICK ts \in Seq(Texts) : ts = Words(ls)
      BY <1>1
    <3>2. Len(ts) = n /\ \A i \in 1..n : ts[i] = ls[i].text
      BY <1>1, <2>1, <3>1
    <3>3. PICK f : Flattened(ts, f)
      <4>1. ts # <<>>
        BY <2>9, <3>2
      <4> QED BY <4>1, FlattenRuns
    <3>4. StartAlike(ts, us, n)
      BY <2>3, <2>5, <3>2 DEF StartAlike
    <3>5. \A i \in 1..n : f[i] \in Texts /\ f[i] = h[i]
      <4>1. n <= Len(ts) /\ n <= Len(us)
        BY <2>5, <3>2
      <4> QED BY <2>6, <3>3, <3>4, <4>1, FlattenAgree
    <3>6. f[n] = h[n]
      BY <2>9, <3>5
    <3>7. Joined(ls) = f[n]
      BY <1>2, <3>1, <3>2, <3>3 DEF Flattened
    <3>8. h[n + 1] = h[n] \o us[n + 1]
      <4>1. n + 1 \in 2..Len(us) /\ (n + 1) - 1 = n
        BY <2>5, <2>9
      <4> QED BY <2>6, <4>1 DEF Flattened
    <3>9. us[n + 1] = l.text
      BY <2>3, <2>5
    <3> QED BY <2>2, <2>7, <3>6, <3>7, <3>8, <3>9
  <2> QED BY <2>8, <2>9
<1>6. Joined(<<>>) = <<>>
  <2>1. <<>> \in Seq(Lexeme) /\ Len(<<>>) = 0
    OBVIOUS
  <2> QED BY <1>3, <2>1
<1> QED BY <1>4, <1>5, <1>6

-----------------------------------------------------------------------------
(* The invariant *)

\* The buffer with the terminator of yytext undone.
Whole == IF pc \in {"returned", "loop", "action", "exit"}
         THEN Write(ch_buf, c_buf_p, hold) ELSE ch_buf

\* Where the lexeme at hand begins.
Begin == IF pc \in {"returned", "loop", "eof"} THEN c_buf_p ELSE yytext

Types ==
  /\ TypeOK
  /\ lexemes \in Seq(Lexeme)

\* What was matched and what the buffer holds are what was read, and the
\* buffer ends with a mark.
Conserved ==
  /\ Joined(lexemes) \o Between(Whole, Begin, yy_n_chars) = input
  /\ At(Whole, yy_n_chars) = EOB
  /\ pc \in {"returned", "loop"} => c_buf_p <= yy_n_chars

\* Position p holds a NUL, the mark or one of the file.
NulAt(p) == p \in yytext..yy_n_chars /\ At(Whole, p) = NUL

\* The state is the one after the text since yytext, unless a NUL was just
\* met; the last position to go back to is noted.
Matching ==
  pc = "match" =>
    /\ cp >= yytext
    /\ IF state = 3 THEN cp > yytext /\ NulAt(cp - 1)
       ELSE /\ cp <= yy_n_chars
            /\ state = Reached(Between(ch_buf, yytext, cp))
    /\ cp >= yytext + 2 => Noted(ch_buf, yytext, cp, last)

Finding ==
  pc = "find" =>
    /\ cp > yytext
    /\ Accepts(state) => /\ cp <= yy_n_chars /\ state # 3
                         /\ state = Reached(Between(ch_buf, yytext, cp))
    /\ ~Accepts(state) =>
         \/ Noted(ch_buf, yytext, cp, last) /\ last.state # 3 /\ cp <= yy_n_chars + 1
         \/ last.state = 3 /\ last.cpos = cp - 1
            /\ last.cpos > yytext /\ NulAt(last.cpos - 1)

Acting ==
  pc = "action" =>
    /\ cp = c_buf_p /\ cp > yytext /\ act = At(yy_accept, state)
    /\ IF state = 3 THEN NulAt(cp - 1)
       ELSE /\ cp <= yy_n_chars /\ Accepts(state)
            /\ state = Reached(Between(Whole, yytext, cp))

IInv == Types /\ Conserved /\ Matching /\ Finding /\ Acting /\ ReadFits

-----------------------------------------------------------------------------
(* The buffer *)

\* A character is written over another and undone (lex.yy.c:305-315).
LEMMA WriteIs ==
  ASSUME NEW b \in Texts, NEW p \in Nat, p < Len(b), NEW c \in 0..19
  PROVE  /\ Write(b, p, c) \in Texts /\ Len(Write(b, p, c)) = Len(b)
         /\ At(Write(b, p, c), p) = c
         /\ \A q \in 0..(Len(b) - 1) : q # p => At(Write(b, p, c), q) = At(b, q)
         /\ Write(Write(b, p, c), p, At(b, p)) = b
<1>1. Len(b) \in Nat /\ b \in [1..Len(b) -> 0..19] /\ p + 1 \in 1..Len(b)
  BY DEF Texts
<1>2. PICK w : w = Write(b, p, c)
  OBVIOUS
<1>3. w \in [1..Len(b) -> 0..19] /\ w[p + 1] = c /\ \A i \in 1..Len(b) : i # p + 1 => w[i] = b[i]
  BY <1>1, <1>2 DEF Write
<1>4. w \in Seq(0..19) /\ Len(w) = Len(b)
  BY <1>1, <1>2, ExceptSeq DEF Write, Texts
<1>5. \A q \in 0..(Len(b) - 1) : q # p => At(w, q) = At(b, q)
  BY <1>1, <1>3 DEF At
<1>6. Write(w, p, At(b, p)) = b
  <2>1. \A i \in 1..Len(b) : [w EXCEPT ![p + 1] = b[p + 1]][i] = b[i]
    BY <1>1, <1>3
  <2>2. [w EXCEPT ![p + 1] = b[p + 1]] \in [1..Len(b) -> 0..19]
    BY <1>1, <1>3
  <2> QED BY <1>1, <2>1, <2>2 DEF Write, At
<1> QED BY <1>2, <1>3, <1>4, <1>5, <1>6 DEF At, Texts

\* What is before the character stays as it is.
LEMMA WriteBehind ==
  ASSUME NEW b \in Texts, NEW p \in Nat, p < Len(b), NEW c \in 0..19,
         NEW x \in Nat, NEW y \in Nat, y <= p
  PROVE  Between(Write(b, p, c), x, y) = Between(b, x, y)
<1>1. Len(b) \in Nat /\ b \in [1..Len(b) -> 0..19] /\ p + 1 \in 1..Len(b)
  BY DEF Texts
<1>2. PICK w : w = Write(b, p, c)
  OBVIOUS
<1>3. w \in [1..Len(b) -> 0..19] /\ w[p + 1] = c /\ \A i \in 1..Len(b) : i # p + 1 => w[i] = b[i]
  BY <1>1, <1>2 DEF Write
<1>4. w \in Seq(0..19) /\ Len(w) = Len(b)
  BY <1>1, <1>2, ExceptSeq DEF Write, Texts
<1>5. Between(w, x, y) = Between(b, x, y)
  <2>1. CASE x >= y
    <3>1. Between(w, x, y) = <<>> /\ Between(b, x, y) = <<>>
      BY <1>4, <2>1, SubSeqEmpty DEF Between, Texts
    <3> QED BY <3>1
  <2>2. CASE x < y
    <3>1. x <= y /\ y <= Len(b) /\ y <= Len(w) /\ w \in Texts
      BY <1>1, <1>4, <2>2 DEF Texts
    <3>2. PICK u : u = Between(b, x, y)
      OBVIOUS
    <3>3. PICK v : v = Between(w, x, y)
      OBVIOUS
    <3>4. /\ u \in Seq(0..19) /\ Len(u) = y - x /\ \A i \in 1..(y - x) : u[i] = b[x + i]
          /\ v \in Seq(0..19) /\ Len(v) = y - x /\ \A i \in 1..(y - x) : v[i] = w[x + i]
      BY <3>1, <3>2, <3>3, BetweenStep DEF Texts
    <3>5. \A i \in 1..Len(u) : u[i] = v[i]
      <4> SUFFICES ASSUME NEW i \in 1..Len(u) PROVE u[i] = v[i]
          OBVIOUS
      <4>1. i \in 1..(y - x) /\ x + i \in 1..Len(b) /\ x + i # p + 1
        BY <1>1, <3>1, <3>4
      <4>2. w[x + i] = b[x + i]
        BY <1>3, <4>1
      <4> QED BY <3>4, <4>1, <4>2
    <3> QED BY <3>2, <3>3, <3>4, <3>5, SeqEqual
  <2> QED BY <2>1, <2>2
<1> QED BY <1>2, <1>5

\* What is behind a text of the buffer continues it.
LEMMA BetweenJoin ==
  ASSUME NEW b \in Texts, NEW p \in Nat, NEW q \in Nat, NEW r \in Nat,
         p <= q, q <= r, r <= Len(b)
  PROVE  Between(b, p, q) \o Between(b, q, r) = Between(b, p, r)
<1>1. Len(b) \in Nat
  BY DEF Texts
<1>2. PICK t : t = Between(b, p, q)
  OBVIOUS
<1>3. PICK u : u = Between(b, q, r)
  OBVIOUS
<1>4. PICK v : v = Between(b, p, r)
  OBVIOUS
<1>5. /\ t \in Seq(0..19) /\ Len(t) = q - p /\ \A i \in 1..(q - p) : t[i] = b[p + i]
      /\ u \in Seq(0..19) /\ Len(u) = r - q /\ \A i \in 1..(r - q) : u[i] = b[q + i]
      /\ v \in Seq(0..19) /\ Len(v) = r - p /\ \A i \in 1..(r - p) : v[i] = b[p + i]
  <2>1. p <= r /\ q <= Len(b)
    BY <1>1
  <2>2. t \in Seq(0..19) /\ Len(t) = q - p /\ \A i \in 1..(q - p) : t[i] = b[p + i]
    BY <1>2, <2>1, BetweenStep DEF Texts
  <2>3. u \in Seq(0..19) /\ Len(u) = r - q /\ \A i \in 1..(r - q) : u[i] = b[q + i]
    BY <1>3, <2>1, BetweenStep DEF Texts
  <2>4. v \in Seq(0..19) /\ Len(v) = r - p /\ \A i \in 1..(r - p) : v[i] = b[p + i]
    BY <1>4, <2>1, BetweenStep DEF Texts
  <2> QED BY <2>2, <2>3, <2>4
<1>6. PICK s : s = t \o u
  OBVIOUS
<1>7. /\ s \in Seq(0..19) /\ Len(s) = r - p
      /\ \A i \in 1..(r - p) : s[i] = IF i <= q - p THEN t[i] ELSE u[i - (q - p)]
  BY <1>5, <1>6, ConcatProperties
<1>8. \A i \in 1..Len(s) : s[i] = v[i]
  <2> SUFFICES ASSUME NEW i \in 1..Len(s) PROVE s[i] = v[i]
      OBVIOUS
  <2>1. CASE i <= q - p
    BY <1>5, <1>7, <2>1
  <2>2. CASE i > q - p
    <3>1. i - (q - p) \in 1..(r - q) /\ q + (i - (q - p)) = p + i
      BY <1>7, <2>2
    <3> QED BY <1>5, <1>7, <2>2, <3>1
  <2> QED BY <2>1, <2>2
<1>9. s = v
  BY <1>5, <1>7, <1>8, SeqEqual
<1> QED BY <1>2, <1>3, <1>4, <1>6, <1>9

\* A buffer that holds a text and the two marks (lex.yy.c:1026-1093).
LEMMA Filled ==
  ASSUME NEW t \in Texts
  PROVE  LET b == t \o <<EOB, EOB>>
         IN  /\ b \in Texts /\ Len(b) = Len(t) + 2
             /\ Between(b, 0, Len(t)) = t
             /\ At(b, Len(t)) = EOB
<1>1. PICK n \in Nat : n = Len(t)
  BY DEF Texts
<1>2. <<EOB, EOB>> \in Seq(0..19) /\ Len(<<EOB, EOB>>) = 2 /\ <<EOB, EOB>>[1] = EOB
  BY DEF EOB
<1>3. PICK c : c = t \o <<EOB, EOB>>
  OBVIOUS
<1>4. /\ c \in Seq(0..19) /\ Len(c) = n + 2
      /\ \A i \in 1..n : c[i] = t[i]
      /\ c[n + 1] = EOB
  BY <1>1, <1>2, <1>3, ConcatProperties DEF Texts
<1>5. PICK u : u = Between(c, 0, n)
  OBVIOUS
<1>6. u \in Seq(0..19) /\ Len(u) = n /\ \A i \in 1..n : u[i] = c[0 + i]
  BY <1>4, <1>5, BetweenStep DEF Texts
<1>7. t \in Seq(0..19) /\ \A i \in 1..Len(u) : u[i] = t[i]
  BY <1>4, <1>6 DEF Texts
<1>8. u = t
  BY <1>1, <1>6, <1>7, SeqEqual
<1>9. At(c, n) = EOB
  BY <1>4 DEF At
<1> QED BY <1>1, <1>3, <1>4, <1>5, <1>8, <1>9 DEF Texts

-----------------------------------------------------------------------------
(* Every step keeps the invariant *)

LEMMA WholeIs ==
  ASSUME Types
  PROVE  /\ ch_buf \in Texts /\ Whole \in Texts
         /\ yy_n_chars \in Nat
         /\ Len(ch_buf) = yy_n_chars + 2 /\ Len(Whole) = yy_n_chars + 2
         /\ c_buf_p \in Nat /\ c_buf_p < Len(ch_buf)
         /\ yytext \in Nat /\ yytext <= c_buf_p
<1>1. /\ ch_buf \in Texts /\ yy_n_chars \in Nat
      /\ Len(ch_buf) = yy_n_chars + 2
  <2>1. ch_buf \in Seq(0..19) /\ Len(ch_buf) >= 2
    BY DEF Types, TypeOK
  <2>2. Len(ch_buf) \in Nat
    BY <2>1
  <2> QED BY <2>1, <2>2 DEF Texts, yy_n_chars
<1>2. /\ c_buf_p \in Nat /\ c_buf_p < Len(ch_buf) /\ hold \in 0..19
      /\ yytext \in Nat /\ yytext <= c_buf_p
  BY <1>1 DEF Types, TypeOK
<1>3. Whole \in Texts /\ Len(Whole) = Len(ch_buf)
  BY <1>1, <1>2, WriteIs DEF Whole
<1> QED BY <1>1, <1>2, <1>3

LEMMA InitIInv == Init => IInv
<1> SUFFICES ASSUME Init PROVE IInv
    OBVIOUS
<1>1. ch_buf = <<0, 0>> /\ Len(ch_buf) = 2 /\ yy_n_chars = 0
  BY DEF Init, EOB, yy_n_chars
<1>2. Types
  <2>1. ch_buf \in Seq(0..19)
    BY <1>1
  <2>2. lexemes \in Seq(Lexeme) /\ DOMAIN lexemes = {} /\ input \in Seq(Chars)
    BY DEF Init
  <2>4. /\ c_buf_p \in 0..(yy_n_chars + 1) /\ yytext \in 0..c_buf_p
        /\ cp \in 0..(yy_n_chars + 2) /\ pc = "returned"
        /\ hold \in 0..19 /\ state \in 1..Jam /\ act \in 0..YY_END_OF_BUFFER
        /\ last.state \in 1..Jam /\ last.cpos \in Nat
    BY <1>1 DEF Init, EOB, Start, Jam, YY_END_OF_BUFFER
  <2>5. /\ ended \in BOOLEAN /\ interactive \in BOOLEAN
        /\ buf_size \in Nat \ {0} /\ yylineno \in Nat
        /\ status \in {"new", "normal", "pending"}
    BY ScannerAssumption DEF Init
  <2>6. \A j \in DOMAIN lexemes : lexemes[j].rule \in 1..9
    BY <2>2
  <2>7. Len(ch_buf) >= 2
    BY <1>1
  <2> QED BY <2>1, <2>2, <2>4, <2>5, <2>6, <2>7 DEF Types, TypeOK
<1>3. Conserved
  <2>1. Whole \in Texts /\ Len(Whole) = 2 /\ Begin = 0 /\ c_buf_p = 0
    BY <1>1, <1>2, WholeIs DEF Init, Begin
  <2>2. Between(Whole, 0, 0) = <<>>
    BY <2>1, BetweenStep
  <2>3. Joined(lexemes) = <<>> /\ input = <<>>
    BY Joins DEF Init
  <2>4. At(Whole, 0) = EOB
    <3>1. Whole = Write(ch_buf, 0, EOB)
      BY DEF Init, Whole
    <3> QED BY <1>1, <1>2, <3>1, WholeIs, WriteIs DEF EOB
  <2>5. <<>> \o <<>> = <<>>
    BY ConcatEmptySeq
  <2> QED BY <1>1, <2>1, <2>2, <2>3, <2>4, <2>5 DEF Conserved
<1>4. ReadFits
  BY <1>1, ScannerAssumption DEF Init, ReadFits
<1> QED BY <1>2, <1>3, <1>4 DEF IInv, Matching, Finding, Acting, Init

\* The next lexeme begins where the last one ended (lex.yy.c:713-727).
LEMMA NextLexemeKeeps == ASSUME IInv, NextLexeme PROVE IInv'
<1>1. Types /\ Conserved
  BY DEF IInv
<1>2. /\ ch_buf' = Whole /\ yytext' = c_buf_p /\ cp' = c_buf_p /\ pc' = "match"
      /\ state' = Start
      /\ c_buf_p' = c_buf_p /\ buf_size' = buf_size /\ last' = last
      /\ lexemes' = lexemes /\ input' = input
      /\ Begin = c_buf_p /\ c_buf_p <= yy_n_chars
  BY <1>1 DEF NextLexeme, Whole, Begin, Conserved, file
<1>3. /\ Whole' = Whole /\ Begin' = Begin
      /\ yy_n_chars' = yy_n_chars
  BY <1>1, <1>2, WholeIs DEF Whole, Begin, yy_n_chars
<1>4. Types'
  <2>1. ch_buf' \in Seq(0..19) /\ Len(ch_buf') = Len(ch_buf)
    BY <1>1, <1>2, WholeIs DEF Texts
  <2> QED BY <1>1, <1>2, <1>3, <2>1, WholeIs DEF Types, TypeOK, NextLexeme, file, Start, Jam
<1>5. Conserved'
  BY <1>1, <1>2, <1>3 DEF Conserved
<1>6. Matching'
  <2>1. Reached(Between(Whole, c_buf_p, c_buf_p)) = Start
    BY <1>1, <1>2, WholeIs, BetweenStep, ReachedStep
  <2>2. ~(c_buf_p >= c_buf_p + 2) /\ c_buf_p >= c_buf_p
    BY <1>1, WholeIs
  <2> QED BY <1>2, <1>3, <2>1, <2>2 DEF Matching, Start
<1>7. ReadFits'
  BY <1>2, <1>3 DEF IInv, ReadFits
<1> QED BY <1>2, <1>4, <1>5, <1>6, <1>7 DEF IInv, Finding, Acting

\* No text leads to the state after a mark (lex.yy.c:1112).
LEMMA ReachedNot3 == \A t \in Texts : Reached(t) # 3
<1> SUFFICES ASSUME NEW t \in Texts PROVE Reached(t) # 3
    OBVIOUS
<1>1. CASE t = <<>>
  BY <1>1, ReachedStep DEF Start
<1>2. CASE t # <<>>
  <2>1. PICK u \in Seq(0..19), c \in 0..19 : t = Append(u, c)
    BY <1>2, SequenceEmptyOrAppend DEF Texts
  <2>2. PICK d \in 1..19 : d = Class(c)
    BY ClassType
  <2>3. PICK s \in 1..21 : s = Reached(u)
    BY ReachedStep DEF Texts
  <2>4. NextState[s][d] \notin {1, 2, 3}
    BY Automaton
  <2>5. Reached(t) = NextState[s][d]
    BY <2>1, <2>2, <2>3, ReachedStep DEF Texts
  <2> QED BY <2>4, <2>5
<1> QED BY <1>1, <1>2

LEMMA NotedIs ==
  ASSUME NEW b \in Texts, NEW y \in Nat, NEW e \in Nat, e <= Len(b),
         NEW l, Noted(b, y, e, l)
  PROVE  l.state # 3 /\ l.state \in 1..Jam /\ l.cpos \in Nat /\ l.cpos < e
<1>1. /\ l.cpos \in (y + 1)..(e - 1) /\ l.state \in 1..Jam
      /\ l.state = Reached(Between(b, y, l.cpos))
  BY DEF Noted
<1>2. PICK p \in Nat : p = l.cpos
  BY <1>1
<1>3. y <= p /\ p <= Len(b)
  <2>1. Len(b) \in Nat
    BY DEF Texts
  <2> QED BY <1>1, <1>2, <2>1
<1>4. Between(b, y, p) \in Texts
  BY <1>3, BetweenStep
<1> QED BY <1>1, <1>2, <1>4, ReachedNot3

\* One more character is matched (lex.yy.c:728-742).
LEMMA MatchCharKeeps == ASSUME IInv, MatchChar PROVE IInv'
<1>1. Types /\ Conserved /\ Matching
  BY DEF IInv
<1>2. /\ pc = "match" /\ pc' \in {"match", "find"}
      /\ ch_buf' = ch_buf /\ yytext' = yytext /\ cp' = cp + 1
      /\ c_buf_p' = c_buf_p /\ buf_size' = buf_size /\ hold' = hold
      /\ lexemes' = lexemes /\ input' = input
      /\ last' = (IF Accepts(state) THEN [state |-> state, cpos |-> cp] ELSE last)
      /\ pc' = (IF At(yy_base, state') = JamBase THEN "find" ELSE "match")
      /\ Whole = ch_buf /\ Begin = yytext
  BY DEF MatchChar, Whole, Begin, file, buffer
<1>3. /\ Whole' = Whole /\ Begin' = Begin
      /\ yy_n_chars' = yy_n_chars
  BY <1>2 DEF Whole, Begin, yy_n_chars
<1>4. PICK n \in Nat : n = yy_n_chars
  BY <1>1, WholeIs
<1>5. ch_buf \in Texts /\ Len(ch_buf) = n + 2 /\ At(ch_buf, n) = 0
  BY <1>1, <1>2, <1>4, WholeIs DEF Conserved, EOB
<1>6. cp \in Nat /\ yytext \in Nat /\ yytext <= cp /\ cp <= n + 1 /\ state \in 1..21
      /\ (state # 3 => cp <= n)
  BY <1>1, <1>2, <1>4 DEF Types, TypeOK, Matching, Jam, NulAt
<1>7. PICK c \in 0..19 : c = At(ch_buf, cp)
  <2>1. cp < Len(ch_buf)
    BY <1>5, <1>6
  <2> QED BY <1>5, <1>6, <2>1, AtType
<1>8. state' = NextState[state][c]
  BY <1>7 DEF MatchChar
<1>9. state' \in 1..21
  BY <1>6, <1>8, Automaton
<1>10. last'.state \in 1..Jam /\ last'.cpos \in Nat
  <2>1. last.state \in 1..Jam /\ last.cpos \in Nat
    BY <1>1 DEF Types, TypeOK
  <2>2. CASE Accepts(state)
    BY <1>2, <1>6, <2>2 DEF Jam
  <2>3. CASE ~Accepts(state)
    BY <1>2, <2>1, <2>3
  <2> QED BY <2>2, <2>3
<1>11. cp >= yytext + 1 /\ cp <= n + 1 =>
         (state # 3 => Noted(ch_buf, yytext, cp + 1, last'))
  <2> SUFFICES ASSUME cp >= yytext + 1, state # 3
               PROVE  Noted(ch_buf, yytext, cp + 1, last')
      OBVIOUS
  <2>1. yytext < cp /\ cp <= Len(ch_buf)
    BY <1>5, <1>6
  <2>2. cp >= yytext + 2 => Noted(ch_buf, yytext, cp, last)
    BY <1>1, <1>2 DEF Matching
  <2>3. state = Reached(Between(ch_buf, yytext, cp))
    BY <1>1, <1>2 DEF Matching
  <2> QED BY <1>2, <1>5, <1>6, <2>1, <2>2, <2>3, NotedStep
<1>12. /\ Matching' /\ Finding'
       /\ pc' = "match" => cp' <= n + 1
  <2>1. CASE state = 3
    <3>1. state' = 21 /\ Accepts(state) /\ ~Accepts(state')
      <4>1. state' = 21
        BY <1>8, <2>1, Automaton
      <4>2. Accepts(3) /\ ~Accepts(21)
        BY Accepting
      <4> QED BY <2>1, <4>1, <4>2, Zenon
    <3>2. pc' = "find"
      BY <1>2, <1>9, <3>1, JamsAt
    <3>3. last'.state = 3 /\ last'.cpos = cp
      BY <1>2, <2>1, <3>1
    <3>4. cp > yytext /\ cp - 1 \in yytext..n /\ At(Whole, cp - 1) = NUL
      BY <1>1, <1>2, <1>4, <2>1 DEF Matching, NulAt
    <3>5. NulAt(last.cpos - 1)'
      BY <1>2, <1>3, <1>4, <3>3, <3>4 DEF NulAt
    <3>6. last'.cpos = cp' - 1 /\ last'.cpos > yytext' /\ cp' > yytext'
      BY <1>2, <1>6, <3>3, <3>4
    <3>7. Finding'
      BY <3>1, <3>3, <3>5, <3>6 DEF Finding
    <3>8. Matching'
      BY <3>2 DEF Matching
    <3> QED BY <3>2, <3>7, <3>8
  <2>2. CASE state # 3 /\ c = 0
    <3>1. state' = 3
      BY <1>6, <1>8, <2>2, Automaton
    <3>2. pc' = "match"
      BY <1>2, <3>1, JamsAt
    <3>3. cp' - 1 = cp /\ cp \in yytext..n /\ At(Whole, cp) = NUL
      BY <1>2, <1>4, <1>6, <1>7, <2>2 DEF NUL
    <3>4. NulAt(cp - 1)' /\ cp' > yytext' /\ cp' >= yytext' /\ cp' <= n + 1
      BY <1>2, <1>3, <1>4, <1>6, <3>3 DEF NulAt
    <3>5. cp' >= yytext' + 2 => Noted(ch_buf, yytext, cp + 1, last')
      BY <1>2, <1>6, <1>11, <2>2, <3>4
    <3>6. Matching'
      BY <1>2, <3>1, <3>4, <3>5 DEF Matching
    <3>7. Finding'
      BY <3>2 DEF Finding
    <3> QED BY <3>4, <3>6, <3>7
  <2>3. CASE state # 3 /\ c # 0
    <3>1. cp < n /\ cp < Len(ch_buf)
      BY <1>5, <1>6, <1>7, <2>3
    <3>2. PICK t \in Texts : t = Between(ch_buf, yytext, cp)
      BY <1>5, <1>6, <3>1, BetweenStep
    <3>3. Between(ch_buf, yytext, cp + 1) = Append(t, c)
      <4>1. cp <= Len(ch_buf)
        BY <3>1, <1>5, <1>6
      <4>2. Between(ch_buf, yytext, cp + 1) = Append(Between(ch_buf, yytext, cp), At(ch_buf, cp))
        BY <1>5, <1>6, <3>1, <4>1, BetweenStep
      <4> QED BY <1>7, <3>2, <4>2
    <3>4. state = Reached(t)
      BY <1>1, <1>2, <2>3, <3>2 DEF Matching
    <3>5. Class(c) = c
      BY <2>3 DEF Class, NUL
    <3>6. state' = Reached(Between(ch_buf, yytext, cp + 1))
      <4>1. Reached(Append(t, c)) = NextState[Reached(t)][Class(c)]
        BY ReachedStep
      <4> QED BY <1>8, <3>3, <3>4, <3>5, <4>1
    <3>7. state' # 3
      <4>1. c \in 1..19
        BY <2>3
      <4> QED BY <1>6, <1>8, <4>1, Automaton
    <3>8. ~Accepts(state') => cp >= yytext + 1
      <4>1. cp = yytext => Accepts(Reached(Between(ch_buf, yytext, yytext + 1)))
        BY <1>5, <1>6, <3>1, FirstAccepts
      <4> QED BY <1>6, <3>6, <4>1
    <3>9. Noted(ch_buf, yytext, cp + 1, last') => last'.state # 3
      <4>1. cp + 1 \in Nat /\ cp + 1 <= Len(ch_buf)
        BY <1>5, <1>6, <3>1
      <4> QED BY <1>5, <1>6, <4>1, NotedIs
    <3>10. Matching'
      BY <1>2, <1>3, <1>4, <1>6, <1>11, <2>3, <3>1, <3>6, <3>7 DEF Matching
    <3>11. Finding'
      BY <1>2, <1>3, <1>4, <1>6, <1>11, <2>3, <3>1, <3>6, <3>7, <3>8, <3>9 DEF Finding
    <3> QED BY <1>2, <1>6, <3>1, <3>10, <3>11
  <2> QED BY <2>1, <2>2, <2>3
<1>13. Types'
  <2>1. cp' \in 0..(n + 2)
    BY <1>2, <1>6
  <2>2. pc' = "match" => cp' <= n + 1
    BY <1>12
  <2> QED BY <1>1, <1>2, <1>3, <1>4, <1>9, <1>10, <2>1, <2>2
       DEF Types, TypeOK, MatchChar, file, buffer, Jam
<1>14. Conserved'
  BY <1>1, <1>2, <1>3 DEF Conserved
<1>15. ReadFits'
  BY <1>2, <1>3 DEF IInv, ReadFits
<1> QED BY <1>2, <1>12, <1>13, <1>14, <1>15 DEF IInv, Acting

\* The rules, 10 standing for a NUL met (lex.yy.c:409-413).
LEMMA Rules == \A s \in 1..21 : /\ At(yy_accept, s) \in 0..10
                                /\ At(yy_accept, s) = 10 <=> s = 3
BY DEF At, yy_accept

\* The text matched is ended (lex.yy.c:744-756).
LEMMA FindActionKeeps == ASSUME IInv, FindAction PROVE IInv'
<1>1. Types /\ Conserved /\ Finding
  BY DEF IInv
<1> DEFINE e0 == IF ~Accepts(state) THEN last.cpos ELSE cp
           f0 == IF ~Accepts(state) THEN last.state ELSE state
<1>2. PICK n \in Nat : n = yy_n_chars
  BY <1>1, WholeIs
<1>3. PICK b \in Texts : b = ch_buf
  BY <1>1, WholeIs
<1>4. pc = "find" /\ Whole = b /\ Begin = yytext /\ Len(b) = n + 2 /\ At(b, n) = EOB
  BY <1>1, <1>2, <1>3, WholeIs DEF FindAction, Whole, Begin, Conserved
<1>5. yytext \in Nat /\ state \in 1..21 /\ last.state \in 1..21 /\ cp \in Nat
      /\ last.cpos \in Nat
  BY <1>1, <1>4, WholeIs DEF Types, TypeOK, Jam
<1>6. PICK end \in Nat : end = e0
  BY <1>5
<1>7. PICK final \in 1..21 : final = f0
  BY <1>5
<1>8. /\ end > yytext /\ end <= n + 1 /\ Accepts(final)
      /\ final = 3 => end - 1 \in yytext..n /\ At(b, end - 1) = NUL
      /\ final # 3 => end <= n /\ final = Reached(Between(b, yytext, end))
  <2>1. CASE Accepts(state)
    BY <1>1, <1>2, <1>3, <1>4, <1>5, <1>6, <1>7, <2>1 DEF Finding
  <2>2. CASE ~Accepts(state)
    <3>1. end = last.cpos /\ final = last.state
      BY <1>6, <1>7, <2>2
    <3>2. CASE Noted(ch_buf, yytext, cp, last) /\ last.state # 3 /\ cp <= n + 1
      BY <1>3, <1>5, <3>1, <3>2 DEF Noted
    <3>3. CASE last.state = 3 /\ last.cpos = cp - 1
               /\ last.cpos > yytext /\ NulAt(last.cpos - 1)
      <4>1. Accepts(3)
        BY Accepting
      <4>2. end - 1 \in yytext..n /\ At(b, end - 1) = NUL
        BY <1>2, <1>4, <3>1, <3>3 DEF NulAt
      <4> QED BY <1>5, <3>1, <3>3, <4>1, <4>2
    <3> QED BY <1>1, <1>2, <1>4, <2>2, <3>2, <3>3 DEF Finding
  <2> QED BY <2>1, <2>2
<1>9. end < Len(b) /\ At(b, end) \in 0..19
  BY <1>4, <1>8, AtType
<1>10. /\ pc' = "action" /\ ch_buf' = Write(b, end, NUL) /\ hold' = At(b, end)
       /\ c_buf_p' = end /\ cp' = end /\ state' = final /\ act' = At(yy_accept, final)
       /\ yytext' = yytext /\ lexemes' = lexemes /\ input' = input
       /\ buf_size' = buf_size /\ last' = last
       /\ ended' = ended /\ interactive' = interactive /\ status' = status
  BY <1>3, <1>6, <1>7 DEF FindAction, file
<1>11. ch_buf' \in Texts /\ Len(ch_buf') = n + 2 /\ Write(ch_buf', end, hold') = b
  BY <1>4, <1>9, <1>10, WriteIs DEF NUL
<1>12. yy_n_chars' = n /\ Whole' = b /\ Begin' = yytext
  BY <1>2, <1>10, <1>11 DEF yy_n_chars, Whole, Begin
<1>13. Types'
  <2>1. /\ c_buf_p' \in 0..(n + 1) /\ yytext' \in 0..c_buf_p' /\ cp' \in 0..(n + 2)
        /\ hold' \in 0..19 /\ state' \in 1..Jam
    BY <1>5, <1>8, <1>9, <1>10 DEF Jam
  <2>2. act' \in 0..YY_END_OF_BUFFER
    BY <1>10, Rules DEF YY_END_OF_BUFFER
  <2>3. yylineno' \in Nat
    BY <1>1, Rules DEF FindAction, Types, TypeOK, At, yy_rule_can_match_eol
  <2>4. ch_buf' \in Seq(0..19) /\ Len(ch_buf') >= 2
    BY <1>11 DEF Texts
  <2> QED BY <1>1, <1>10, <1>12, <2>1, <2>2, <2>3, <2>4 DEF Types, TypeOK
<1>14. Conserved'
  BY <1>1, <1>2, <1>4, <1>10, <1>12 DEF Conserved
<1>15. Acting'
  <2>1. final = 3 => NulAt(cp - 1)'
    BY <1>8, <1>10, <1>12 DEF NulAt
  <2> QED BY <1>8, <1>10, <1>12, <2>1 DEF Acting
<1>16. ReadFits'
  BY <1>2, <1>10, <1>12 DEF IInv, ReadFits
<1> QED BY <1>10, <1>13, <1>14, <1>15, <1>16 DEF IInv, Matching, Finding

\* The action of a rule runs (lex.yy.c:760-949).
LEMMA DoActionKeeps == ASSUME IInv, DoAction PROVE IInv'
<1>1. Types /\ Conserved /\ Acting
  BY DEF IInv
<1>2. PICK n \in Nat : n = yy_n_chars
  BY <1>1, WholeIs
<1>3. PICK b \in Texts : b = Whole
  BY <1>1, WholeIs
<1>4. /\ pc = "action" /\ pc' \in {"returned", "loop"} /\ act # 10
      /\ ch_buf' = ch_buf /\ hold' = hold /\ c_buf_p' = c_buf_p /\ cp' = cp
      /\ state' = state /\ act' = act /\ yytext' = yytext /\ input' = input
      /\ buf_size' = buf_size /\ last' = last /\ yylineno' = yylineno
      /\ ended' = ended /\ interactive' = interactive /\ status' = status
      /\ Begin = yytext
  BY DEF DoAction, YY_END_OF_BUFFER, file, buffer, Begin
<1>5. yy_n_chars' = n /\ Whole' = b /\ Begin' = c_buf_p
  BY <1>2, <1>3, <1>4 DEF yy_n_chars, Whole, Begin
<1>6. /\ state \in 1..21 /\ act = At(yy_accept, state) /\ cp = c_buf_p /\ cp > yytext
      /\ state # 3 /\ cp <= n /\ Accepts(state) /\ yytext \in Nat /\ cp \in Nat
      /\ act \in 1..9
  <2>1. state \in 1..21 /\ act = At(yy_accept, state) /\ cp = c_buf_p /\ cp > yytext
        /\ yytext \in Nat /\ cp \in Nat
    BY <1>1, <1>4, WholeIs DEF Acting, Types, TypeOK, Jam
  <2>2. state # 3
    BY <1>4, <2>1, Rules
  <2>3. cp <= n /\ Accepts(state)
    BY <1>1, <1>2, <1>4, <2>2 DEF Acting
  <2>4. act # 0
    BY <2>1, <2>3 DEF Accepts
  <2> QED BY <1>4, <2>1, <2>2, <2>3, <2>4, Rules
<1>7. PICK t \in Texts : t = Between(b, yytext, cp)
  <2>1. yytext <= cp /\ cp <= Len(b)
    BY <1>1, <1>2, <1>3, <1>6, WholeIs
  <2> QED BY <1>6, <2>1, BetweenStep
<1>8. t = Text(yytext, cp)
  <2>1. b = Write(ch_buf, cp, hold) /\ hold \in 0..19 /\ ch_buf \in Texts
        /\ cp < Len(ch_buf)
    BY <1>1, <1>3, <1>4, <1>6, WholeIs DEF Whole, Types, TypeOK
  <2>2. Between(Write(ch_buf, cp, hold), yytext, cp) = Between(ch_buf, yytext, cp)
    <3>1. PICK a \in Texts : a = ch_buf
      BY <2>1
    <3>2. PICK p \in Nat : p = cp
      BY <1>6
    <3>3. PICK h \in 0..19 : h = hold
      BY <2>1
    <3>4. PICK y \in Nat : y = yytext
      BY <1>6
    <3>5. Between(Write(a, p, h), y, p) = Between(a, y, p)
      <4>1. p < Len(a) /\ p <= p
        BY <2>1, <3>1, <3>2
      <4> QED BY <4>1, WriteBehind
    <3> QED BY <3>1, <3>2, <3>3, <3>4, <3>5, Zenon
  <2> QED BY <1>7, <2>1, <2>2 DEF Between, Text
<1>9. PICK l \in Lexeme : l = [rule |-> act, text |-> t, line |-> yylineno]
  BY <1>1, <1>6 DEF Lexeme, Types, TypeOK
<1>10. lexemes' = Append(lexemes, l) /\ lexemes \in Seq(Lexeme)
  BY <1>1, <1>8, <1>9 DEF DoAction, Types
<1>11. lexemes' \in Seq(Lexeme)
  BY <1>10, AppendProperties
<1>12. Types'
  <2>1. \A j \in DOMAIN lexemes' : lexemes'[j].rule \in 1..9
    <3>1. \A j \in DOMAIN lexemes' : lexemes'[j] \in Lexeme
      BY <1>11
    <3> QED BY <3>1 DEF Lexeme
  <2> QED BY <1>1, <1>2, <1>4, <1>5, <1>11, <2>1 DEF Types, TypeOK
<1>13. Conserved'
  <2>1. PICK u \in Texts : u = Between(b, cp, n)
    <3>1. cp <= n /\ n <= Len(b)
      BY <1>1, <1>2, <1>3, <1>6, WholeIs
    <3> QED BY <1>6, <3>1, BetweenStep
  <2>2. PICK j \in Texts : j = Joined(lexemes)
    BY <1>10, Joins
  <2>3. Joined(lexemes') = j \o t
    BY <1>9, <1>10, <2>2, Joins
  <2>4. j \o Between(b, yytext, n) = input
    BY <1>1, <1>2, <1>3, <1>4, <2>2 DEF Conserved
  <2>5. Between(b, yytext, n) = t \o u
    <3>1. yytext <= cp /\ cp <= n /\ n <= Len(b)
      BY <1>1, <1>2, <1>3, <1>6, WholeIs
    <3>2. Between(b, yytext, cp) \o Between(b, cp, n) = Between(b, yytext, n)
      BY <1>6, <3>1, BetweenJoin
    <3> QED BY <1>7, <2>1, <3>2, Zenon
  <2>6. (j \o t) \o u = j \o (t \o u)
    BY ConcatAssociative DEF Texts
  <2>7. At(b, n) = EOB
    BY <1>1, <1>2, <1>3 DEF Conserved
  <2> QED BY <1>4, <1>5, <1>6, <2>1, <2>3, <2>4, <2>5, <2>6, <2>7 DEF Conserved
<1>14. ReadFits'
  BY <1>2, <1>4, <1>5 DEF IInv, ReadFits
<1> QED BY <1>4, <1>12, <1>13, <1>14 DEF IInv, Matching, Finding, Acting

\* A NUL of the file is matched like any other character
\* (lex.yy.c:856-906, 1101-1148).
LEMMA RealNulKeeps == ASSUME IInv, RealNul PROVE IInv'
<1>1. Types /\ Conserved /\ Acting
  BY DEF IInv
<1>2. PICK n \in Nat : n = yy_n_chars
  BY <1>1, WholeIs
<1>3. PICK b \in Texts : b = Whole
  BY <1>1, WholeIs
<1>4. PICK y \in Nat : y = yytext
  BY <1>1, WholeIs
<1>5. /\ pc = "action" /\ act = 10 /\ c_buf_p <= n /\ Begin = y
      /\ Len(b) = n + 2 /\ At(b, n) = EOB
      /\ cp = c_buf_p /\ cp > y /\ state = 3
  <2>1. pc = "action" /\ act = 10 /\ c_buf_p <= n /\ Begin = y
    BY <1>2, <1>4 DEF RealNul, AtEnd, YY_END_OF_BUFFER, Begin
  <2>2. Len(b) = n + 2 /\ At(b, n) = EOB
    BY <1>1, <1>2, <1>3, WholeIs DEF Conserved
  <2>3. cp = c_buf_p /\ cp > y /\ act = At(yy_accept, state)
    BY <1>1, <1>4, <2>1 DEF Acting
  <2>4. state \in 1..21
    BY <1>1 DEF Types, TypeOK, Jam
  <2> QED BY <2>1, <2>2, <2>3, <2>4, Rules
<1>6. PICK p \in Nat : p = cp - 1 /\ y <= p /\ p < n /\ At(b, p) = NUL
  <2>1. cp - 1 \in y..n /\ At(b, cp - 1) = NUL
    BY <1>1, <1>2, <1>3, <1>4, <1>5 DEF Acting, NulAt
  <2>2. c_buf_p \in Nat
    BY <1>1, WholeIs
  <2> QED BY <1>5, <2>1, <2>2
<1>7. p < Len(b) /\ p <= Len(b)
  BY <1>5, <1>6
<1>8. PICK s \in 1..21 : s = Reached(Between(b, y, p))
  <2>1. Between(b, y, p) \in Texts
    BY <1>6, <1>7, BetweenStep
  <2> QED BY <2>1, ReachedStep
<1>9. PICK l : l = Rescan(b, y, p).last
  OBVIOUS
<1>10. /\ Rescan(b, y, p).state = s
       /\ p >= y + 2 => Noted(b, y, p, l)
       /\ p <= y + 1 => l = last
  BY <1>6, <1>7, <1>8, <1>9, RescanIs
<1>11. PICK next \in 1..21 : next = NextState[s][1] /\ next # 3
  <2>1. 1 \in 0..19 /\ 1 \in 1..19
    OBVIOUS
  <2>2. NextState[s][1] \in 1..21
    BY <2>1, Automaton
  <2>3. NextState[s][1] \notin {1, 2, 3}
    BY <2>1, Automaton
  <2> QED BY <2>2, <2>3
<1>12. Reached(Between(b, y, p + 1)) = next
  <2>1. PICK t \in Texts : t = Between(b, y, p)
    BY <1>6, <1>7, BetweenStep
  <2>2. Between(b, y, p + 1) = Append(Between(b, y, p), At(b, p))
    BY <1>6, <1>7, BetweenStep
  <2>3. Reached(Append(t, 0)) = NextState[Reached(t)][Class(0)]
    BY ReachedStep
  <2>4. Class(0) = 1
    BY DEF Class, NUL
  <2> QED BY <1>6, <1>8, <1>11, <2>1, <2>2, <2>3, <2>4 DEF NUL
<1>13. /\ ch_buf' = b /\ yytext' = y
       /\ last' = (IF Accepts(s) THEN [state |-> s, cpos |-> p] ELSE l)
       /\ IF next = 21
          THEN cp' = p /\ c_buf_p' = p /\ state' = s /\ pc' = "find"
          ELSE cp' = p + 1 /\ c_buf_p' = p + 1 /\ state' = next /\ pc' = "match"
       /\ status' \in {"new", "normal", "pending"}
       /\ input' = input /\ ended' = ended /\ interactive' = interactive
       /\ buf_size' = buf_size /\ hold' = hold /\ act' = act /\ yylineno' = yylineno
       /\ lexemes' = lexemes
  <2>1. Write(ch_buf, cp, hold) = b
    BY <1>3, <1>5 DEF Whole
  <2>2. status' \in {"new", "normal", "pending"}
    BY <1>1 DEF RealNul, Types, TypeOK
  <2>3. /\ yytext' = y
        /\ input' = input /\ ended' = ended /\ interactive' = interactive
        /\ buf_size' = buf_size /\ hold' = hold /\ act' = act /\ yylineno' = yylineno
        /\ lexemes' = lexemes
    BY <1>4 DEF RealNul, file
  <2> QED BY <1>4, <1>6, <1>9, <1>10, <1>11, <2>1, <2>2, <2>3 DEF RealNul, Jam
<1>14. yy_n_chars' = n /\ Whole' = b /\ Begin' = y
  <2>1. Len(ch_buf') = n + 2
    BY <1>5, <1>13
  <2> QED BY <1>13, <2>1 DEF yy_n_chars, Whole, Begin
<1>15. p > y => Noted(b, y, p + 1, last')
  BY <1>6, <1>7, <1>8, <1>10, <1>13, NotedStep
<1>16. p = y => next # 21 /\ last' = last
  <2> SUFFICES ASSUME p = y PROVE next # 21 /\ last' = last
      OBVIOUS
  <2>1. s = Start /\ ~Accepts(s) /\ l = last
    <3>1. Reached(Between(b, y, y)) = Start /\ ~Accepts(Start)
      BY <1>6, <1>7, FirstAccepts
    <3> QED BY <1>8, <1>10, <3>1
  <2>2. next # 21
    <3>1. 1 \in 1..19
      OBVIOUS
    <3>2. NextState[Start][1] \notin {1, 2, 3, 19, 21}
      BY <3>1, Automaton
    <3>3. next = NextState[Start][1]
      BY <1>11, <2>1
    <3> QED BY <3>2, <3>3
  <2> QED BY <1>13, <2>1, <2>2
<1>17. last'.state \in 1..Jam /\ last'.cpos \in Nat
  <2>1. CASE p > y
    <3>1. p + 1 \in Nat /\ p + 1 <= Len(b)
      BY <1>5, <1>6
    <3> QED BY <1>15, <2>1, <3>1, NotedIs
  <2>2. CASE p = y
    BY <1>1, <1>16, <2>2 DEF Types, TypeOK
  <2> QED BY <1>6, <2>1, <2>2
<1>18. Types'
  <2>1. /\ c_buf_p' \in 0..(n + 1) /\ yytext' \in 0..c_buf_p' /\ cp' \in 0..(n + 1)
        /\ state' \in 1..Jam /\ pc' \in {"match", "find"}
    BY <1>6, <1>13 DEF Jam
  <2>2. ch_buf' \in Seq(0..19) /\ Len(ch_buf') >= 2
    BY <1>5, <1>13 DEF Texts
  <2> QED BY <1>1, <1>13, <1>14, <1>17, <2>1, <2>2 DEF Types, TypeOK
<1>19. Conserved'
  <2>1. pc' \in {"match", "find"}
    BY <1>13
  <2> QED BY <1>1, <1>2, <1>3, <1>5, <1>13, <1>14, <2>1 DEF Conserved
<1>20. Matching'
  <2> SUFFICES ASSUME pc' = "match" PROVE Matching'
      BY DEF Matching
  <2>1. cp' = p + 1 /\ state' = next
    BY <1>13
  <2>2. cp' >= yytext' + 2 => p > y
    BY <1>6, <1>13, <2>1
  <2> QED BY <1>6, <1>11, <1>12, <1>13, <1>14, <1>15, <2>1, <2>2 DEF Matching
<1>21. Finding'
  <2> SUFFICES ASSUME pc' = "find" PROVE Finding'
      BY DEF Finding
  <2>1. cp' = p /\ state' = s /\ next = 21
    BY <1>13
  <2>2. p > y
    BY <1>6, <1>16, <2>1
  <2>3. s # 3
    <3>1. Between(b, y, p) \in Texts
      BY <1>6, <1>7, BetweenStep
    <3> QED BY <1>8, <3>1, ReachedNot3
  <2>4. ASSUME ~Accepts(s)
        PROVE  Noted(b, y, p, last') /\ last'.state # 3
    <3>1. p # y + 1
      <4>1. y < Len(b)
        BY <1>5, <1>6
      <4> QED BY <1>8, <2>4, <4>1, FirstAccepts
    <3>2. Noted(b, y, p, l) /\ last' = l
      BY <1>6, <1>10, <1>13, <2>2, <2>4, <3>1
    <3> QED BY <1>7, <3>2, NotedIs
  <2> QED BY <1>6, <1>8, <1>13, <1>14, <2>1, <2>2, <2>3, <2>4 DEF Finding
<1>22. ReadFits'
  BY <1>2, <1>13, <1>14 DEF IInv, ReadFits
<1> QED BY <1>13, <1>18, <1>19, <1>20, <1>21, <1>22 DEF IInv, Acting

\* What is moved is all that is left of the buffer (lex.yy.c:963-1004).
LEMMA MovedIs ==
  ASSUME IInv, AtEnd, c_buf_p > yy_n_chars
  PROVE  /\ Moved \in Texts /\ Len(Moved) = yy_n_chars - yytext
         /\ Len(Moved) \in 0..yy_n_chars
         /\ Joined(lexemes) \o Moved = input
         /\ Joined(lexemes) \in Texts
<1>1. Types /\ Conserved /\ Acting
  BY DEF IInv
<1>2. PICK n \in Nat : n = yy_n_chars
  BY <1>1, WholeIs
<1>3. PICK b \in Texts : b = Whole
  BY <1>1, WholeIs
<1>4. PICK y \in Nat : y = yytext
  BY <1>1, WholeIs
<1>5. PICK c \in Texts : c = ch_buf
  BY <1>1, WholeIs
<1>6. pc = "action" /\ act = 10 /\ Begin = y /\ cp = c_buf_p /\ state = 3
  <2>1. pc = "action" /\ act = 10 /\ Begin = y
    BY <1>4 DEF AtEnd, YY_END_OF_BUFFER, Begin
  <2>2. state \in 1..21 /\ cp = c_buf_p /\ act = At(yy_accept, state)
    BY <1>1, <2>1 DEF Acting, Types, TypeOK, Jam
  <2> QED BY <2>1, <2>2, Rules
<1>7. cp - 1 = n /\ y <= n
  <2>1. cp - 1 \in y..n /\ cp \in Nat
    BY <1>1, <1>2, <1>4, <1>6, WholeIs DEF Acting, NulAt
  <2> QED BY <1>2, <1>6, <2>1
<1>8. PICK p \in Nat : p = cp /\ p = n + 1 /\ p < Len(c) /\ n <= Len(c) /\ Len(b) = n + 2
  BY <1>1, <1>2, <1>3, <1>5, <1>6, <1>7, WholeIs
<1>9. PICK h \in 0..19 : h = hold
  BY <1>1 DEF Types, TypeOK
<1>10. Between(b, y, n) = Between(c, y, n)
  <2>1. b = Write(c, p, h)
    BY <1>3, <1>5, <1>6, <1>8, <1>9 DEF Whole
  <2>2. n <= p
    BY <1>8
  <2>3. Between(Write(c, p, h), y, n) = Between(c, y, n)
    BY <1>8, <2>2, WriteBehind
  <2> QED BY <2>1, <2>3, Zenon
<1>11. Moved = Between(b, y, n)
  BY <1>4, <1>5, <1>7, <1>10 DEF Moved, Text, Between
<1>12. Between(b, y, n) \in Texts /\ Len(Between(b, y, n)) = n - y
  <2>1. n <= Len(b)
    BY <1>8
  <2> QED BY <1>7, <2>1, BetweenStep
<1>13. n - y \in 0..n
  BY <1>7
<1>14. Joined(lexemes) \o Between(b, y, n) = input
  BY <1>1, <1>2, <1>3, <1>6 DEF Conserved
<1>15. Joined(lexemes) \in Texts
  BY <1>1, Joins DEF Types
<1> QED BY <1>2, <1>4, <1>11, <1>12, <1>13, <1>14, <1>15

LEMMA GrownIs ==
  ASSUME Types, NEW m \in Nat
  PROVE  Grown(m) \in Nat \ {0} /\ Grown(m) >= buf_size
BY DEF Types, TypeOK, Grown

\* Nothing is read at the end of the file (lex.yy.c:1009-1069).
LEMMA NothingReadIs ==
  ASSUME Types, Moved \in Texts, NothingRead
  PROVE  /\ input' = input /\ ended' \in BOOLEAN
         /\ buf_size' \in Nat \ {0} /\ buf_size' >= buf_size
<1>1. buf_size \in Nat \ {0} /\ ended \in BOOLEAN /\ input \in Seq(Chars)
  BY DEF Types, TypeOK
<1>2. CASE status = "pending"
  BY <1>1, <1>2 DEF NothingRead
<1>3. CASE status # "pending"
  <2>1. buf_size' = Grown(Len(Moved)) /\ input' = input \o <<>>
        /\ ended' \in BOOLEAN
    BY <1>3 DEF NothingRead, Delivers
  <2>2. input \o <<>> = input
    BY <1>1, ConcatEmptySeq
  <2>3. Len(Moved) \in Nat
    BY DEF Texts
  <2> QED BY <1>1, <2>1, <2>2, <2>3, GrownIs
<1> QED BY <1>2, <1>3

\* The file has ended (lex.yy.c:915-937, 1069-1076).
LEMMA EndOfFileKeeps == ASSUME IInv, EndOfFile PROVE IInv'
<1>1. Types /\ Conserved /\ ReadFits
  BY DEF IInv
<1>2. /\ Moved \in Texts /\ Joined(lexemes) \in Texts /\ Moved = <<>>
      /\ Joined(lexemes) \o Moved = input
  BY MovedIs DEF EndOfFile
<1>3. /\ input' = input /\ ended' \in BOOLEAN
      /\ buf_size' \in Nat \ {0} /\ buf_size' >= buf_size
  BY <1>1, <1>2, NothingReadIs DEF EndOfFile
<1>4. /\ pc' = "eof" /\ ch_buf' = <<0, 0>> /\ status' = "new" /\ hold' = 0
      /\ yytext' = 0 /\ c_buf_p' = 0
      /\ interactive' = interactive /\ state' = state /\ last' = last
      /\ act' = act /\ yylineno' = yylineno /\ lexemes' = lexemes
  BY DEF EndOfFile, EOB
<1>5. Len(ch_buf') = 2 /\ ch_buf' \in Texts
  BY <1>4 DEF Texts
<1>6. yy_n_chars' = 0 /\ Whole' = ch_buf' /\ Begin' = 0
  BY <1>4, <1>5 DEF yy_n_chars, Whole, Begin
<1>7. Types'
  <2>1. ch_buf' \in Seq(0..19) /\ Len(ch_buf') >= 2
    BY <1>5 DEF Texts
  <2>2. c_buf_p' \in 0..(yy_n_chars' + 1) /\ yytext' \in 0..c_buf_p' /\ hold' \in 0..19
    BY <1>4, <1>6
  <2> QED BY <1>1, <1>3, <1>4, <2>1, <2>2 DEF Types, TypeOK
<1>8. Conserved'
  <2>1. Between(ch_buf', 0, 0) = <<>>
    BY <1>5, BetweenStep
  <2>2. At(ch_buf', 0) = EOB
    BY <1>4 DEF At, EOB
  <2> QED BY <1>2, <1>3, <1>4, <1>6, <2>1, <2>2 DEF Conserved
<1>9. ReadFits'
  <2>1. PICK z \in Nat \ {0} : z = buf_size'
    BY <1>3
  <2>2. 0 <= z - 1
    OBVIOUS
  <2> QED BY <1>6, <2>1, <2>2 DEF ReadFits
<1> QED BY <1>4, <1>7, <1>8, <1>9 DEF IInv, Matching, Finding, Acting

\* The automaton starts anew on a buffer that begins with the text moved
\* there (lex.yy.c:1101-1122).
LEMMA Restarted ==
  ASSUME Types, NEW b \in Texts, NEW k \in Nat, k <= Len(b)
  PROVE  LET again == Rescan(b, 0, k)
         IN  /\ again.state = Reached(Between(b, 0, k))
             /\ again.state \in 1..Jam /\ again.state # 3
             /\ k >= 2 => Noted(b, 0, k, again.last)
             /\ again.last.state \in 1..Jam /\ again.last.cpos \in Nat
             /\ ~Accepts(again.state) /\ k # 0 => k >= 2
<1>1. PICK r : r = Rescan(b, 0, k)
  OBVIOUS
<1>2. /\ r.state = Reached(Between(b, 0, k))
      /\ k >= 0 + 2 => Noted(b, 0, k, r.last)
      /\ k <= 0 + 1 => r.last = last
  <2>1. 0 \in Nat /\ 0 <= k
    OBVIOUS
  <2> QED BY <1>1, <2>1, RescanIs
<1>3. Between(b, 0, k) \in Texts
  BY BetweenStep
<1>4. r.state \in 1..Jam /\ r.state # 3
  BY <1>2, <1>3, ReachedStep, ReachedNot3 DEF Jam
<1>5. r.last.state \in 1..Jam /\ r.last.cpos \in Nat
  <2>1. CASE k >= 2
    <3>1. Noted(b, 0, k, r.last) /\ 0 \in Nat
      BY <1>2, <2>1
    <3> QED BY <3>1, NotedIs
  <2>2. CASE k < 2
    <3>1. r.last = last
      BY <1>2, <2>2
    <3> QED BY <3>1 DEF Types, TypeOK
  <2> QED BY <2>1, <2>2
<1>6. ~Accepts(r.state) /\ k # 0 => k >= 2
  <2> SUFFICES ASSUME k = 1 PROVE Accepts(r.state)
      OBVIOUS
  <2>1. 0 \in Nat /\ 0 < Len(b)
    BY DEF Texts
  <2>2. Accepts(Reached(Between(b, 0, 0 + 1)))
    BY <2>1, FirstAccepts
  <2> QED BY <1>2, <2>2
<1> QED BY <1>1, <1>2, <1>4, <1>5, <1>6

\* The file ends inside a lexeme (lex.yy.c:939-944).
LEMMA LastMatchKeeps == ASSUME IInv, LastMatch PROVE IInv'
<1>1. Types /\ Conserved /\ ReadFits
  BY DEF IInv
<1>2. PICK m \in Texts : m = Moved
  BY MovedIs DEF LastMatch
<1>3. PICK k \in Nat : k = Len(m) /\ k # 0 /\ k <= yy_n_chars
  <2>1. Len(Moved) \in 0..yy_n_chars /\ Moved # <<>>
    BY MovedIs DEF LastMatch
  <2>2. Len(m) # 0
    BY <1>2, <2>1, EmptySeq DEF Texts
  <2>3. yy_n_chars \in Nat
    BY <1>1, WholeIs
  <2> QED BY <1>2, <2>1, <2>2, <2>3
<1>4. Joined(lexemes) \o m = input
  BY <1>2, MovedIs DEF LastMatch
<1>5. /\ input' = input /\ ended' \in BOOLEAN
      /\ buf_size' \in Nat \ {0} /\ buf_size' >= buf_size
  BY <1>1, <1>2, NothingReadIs DEF LastMatch
<1>6. PICK b : b = m \o <<EOB, EOB>>
  OBVIOUS
<1>7. b \in Texts /\ Len(b) = k + 2 /\ Between(b, 0, k) = m /\ At(b, k) = EOB
  BY <1>3, <1>6, Filled
<1>8. PICK r : r = Rescan(b, 0, k)
  OBVIOUS
<1>9. /\ pc' = "find" /\ ch_buf' = b /\ status' = "pending" /\ hold' = hold
      /\ yytext' = 0 /\ c_buf_p' = k /\ cp' = k
      /\ interactive' = interactive /\ state' = r.state /\ last' = r.last
      /\ act' = act /\ yylineno' = yylineno /\ lexemes' = lexemes
  <2>1. ch_buf' = b /\ cp' = k /\ c_buf_p' = k
    BY <1>2, <1>3, <1>6 DEF LastMatch
  <2>2. state' = Rescan(ch_buf', 0, Len(Moved)).state /\ last' = Rescan(ch_buf', 0, Len(Moved)).last
    BY DEF LastMatch
  <2>3. state' = r.state /\ last' = r.last
    BY <1>2, <1>3, <1>8, <2>1, <2>2
  <2> QED BY <2>1, <2>3 DEF LastMatch
<1>10. /\ r.state = Reached(Between(b, 0, k)) /\ r.state \in 1..Jam /\ r.state # 3
       /\ k >= 2 => Noted(b, 0, k, r.last)
       /\ r.last.state \in 1..Jam /\ r.last.cpos \in Nat
       /\ ~Accepts(r.state) => k >= 2
  <2>1. k <= Len(b)
    BY <1>7
  <2> QED BY <1>1, <1>3, <1>7, <1>8, <2>1, Restarted
<1>11. yy_n_chars' = k /\ Whole' = b /\ Begin' = 0
  BY <1>7, <1>9 DEF yy_n_chars, Whole, Begin
<1>12. Types'
  <2>1. ch_buf' \in Seq(0..19) /\ Len(ch_buf') >= 2
    BY <1>7, <1>9 DEF Texts
  <2>2. c_buf_p' \in 0..(k + 1) /\ yytext' \in 0..c_buf_p' /\ cp' \in 0..(k + 2)
    BY <1>9
  <2> QED BY <1>1, <1>5, <1>9, <1>10, <1>11, <2>1, <2>2 DEF Types, TypeOK
<1>13. Conserved'
  BY <1>4, <1>5, <1>7, <1>9, <1>11 DEF Conserved
<1>14. Finding'
  <2>1. k >= 2 => r.last.state # 3
    <3>1. 0 \in Nat /\ k <= Len(b)
      BY <1>7
    <3> QED BY <1>7, <1>10, <3>1, NotedIs
  <2> QED BY <1>3, <1>9, <1>10, <1>11, <2>1 DEF Finding
<1>15. ReadFits'
  <2>1. yy_n_chars <= buf_size - 1 /\ buf_size \in Nat /\ yy_n_chars \in Nat
    BY <1>1, WholeIs DEF ReadFits, Types, TypeOK
  <2>2. k <= buf_size' - 1
    BY <1>3, <1>5, <2>1
  <2> QED BY <1>11, <2>2 DEF ReadFits
<1> QED BY <1>9, <1>12, <1>13, <1>14, <1>15 DEF IInv, Matching, Acting

\* More is read behind the lexeme (lex.yy.c:946-953, 1009-1093).
LEMMA ContinueScanKeeps == ASSUME IInv, ContinueScan PROVE IInv'
<1>1. Types /\ Conserved /\ ReadFits
  BY DEF IInv
<1>2. PICK m \in Texts : m = Moved
  BY MovedIs DEF ContinueScan
<1>3. PICK k \in Nat : k = Len(m) /\ k <= yy_n_chars
  <2>1. Len(Moved) \in 0..yy_n_chars
    BY MovedIs DEF ContinueScan
  <2>2. yy_n_chars \in Nat
    BY <1>1, WholeIs
  <2> QED BY <1>2, <2>1, <2>2
<1>4. Joined(lexemes) \o m = input /\ Joined(lexemes) \in Texts
  BY <1>2, MovedIs DEF ContinueScan
<1>5. PICK room : room = NumToRead(k)
  OBVIOUS
<1>0. PICK n \in 1..room : \E s \in [1..n -> Chars] :
         Delivers(s, room) /\ ch_buf' = m \o s \o <<EOB, EOB>>
  BY <1>2, <1>3, <1>5 DEF ContinueScan
<1>6. PICK s \in [1..n -> Chars] :
         Delivers(s, room) /\ ch_buf' = m \o s \o <<EOB, EOB>>
  BY <1>0
<1>7. room \in Int /\ room <= Grown(k) - k - 1 /\ Grown(k) \in Nat \ {0}
  <2>1. Grown(k) \in Nat \ {0}
    BY <1>1, GrownIs
  <2>2. YY_READ_BUF_SIZE \in Nat
    BY ScannerAssumption
  <2> QED BY <1>5, <2>1, <2>2 DEF NumToRead
<1>8. s \in Seq(Chars) /\ s \in Texts /\ Len(s) = n /\ n \in Nat
  <2>1. n \in Nat
    BY <1>7
  <2>2. s \in [1..n -> 0..19]
    BY ScannerAssumption
  <2> QED BY <2>1, <2>2, LenProperties DEF Texts
<1>9. /\ input' = input \o s /\ ended' \in BOOLEAN /\ input' \in Seq(Chars)
      /\ buf_size' = Grown(k)
  <2>1. input' = input \o s /\ ended' \in BOOLEAN /\ buf_size' = Grown(k)
    BY <1>1, <1>2, <1>3, <1>6 DEF ContinueScan, Delivers, Types, TypeOK
  <2>2. input \in Seq(Chars)
    BY <1>1 DEF Types, TypeOK
  <2> QED BY <1>8, <2>1, <2>2, ConcatProperties
<1>10. PICK t \in Texts : t = m \o s
  BY <1>8, ConcatProperties DEF Texts
<1>11. Len(t) = k + n
  BY <1>3, <1>8, <1>10, ConcatProperties DEF Texts
<1>12. PICK b : b = t \o <<EOB, EOB>>
  OBVIOUS
<1>13. b \in Texts /\ Len(b) = k + n + 2 /\ Between(b, 0, k + n) = t /\ At(b, k + n) = EOB
  BY <1>11, <1>12, Filled
<1>14. PICK r : r = Rescan(b, 0, k)
  OBVIOUS
<1>15. /\ pc' = "match" /\ ch_buf' = b /\ status' = "normal" /\ hold' = hold
       /\ yytext' = 0 /\ c_buf_p' = k /\ cp' = k
       /\ interactive' = interactive /\ state' = r.state /\ last' = r.last
       /\ act' = act /\ yylineno' = yylineno /\ lexemes' = lexemes
  <2>1. ch_buf' = b /\ cp' = k /\ c_buf_p' = k
    BY <1>2, <1>3, <1>6, <1>10, <1>12 DEF ContinueScan
  <2>2. state' = Rescan(ch_buf', 0, Len(Moved)).state /\ last' = Rescan(ch_buf', 0, Len(Moved)).last
    BY DEF ContinueScan
  <2>3. state' = r.state /\ last' = r.last
    BY <1>2, <1>3, <1>14, <2>1, <2>2
  <2> QED BY <2>1, <2>3 DEF ContinueScan
<1>16. /\ r.state = Reached(Between(b, 0, k)) /\ r.state \in 1..Jam /\ r.state # 3
       /\ k >= 2 => Noted(b, 0, k, r.last)
       /\ r.last.state \in 1..Jam /\ r.last.cpos \in Nat
  <2>1. k <= Len(b)
    BY <1>8, <1>13
  <2> QED BY <1>1, <1>13, <1>14, <2>1, Restarted
<1>17. yy_n_chars' = k + n /\ Whole' = b /\ Begin' = 0
  BY <1>8, <1>13, <1>15 DEF yy_n_chars, Whole, Begin
<1>18. Types'
  <2>1. ch_buf' \in Seq(0..19) /\ Len(ch_buf') >= 2
    BY <1>8, <1>13, <1>15 DEF Texts
  <2>2. /\ c_buf_p' \in 0..(k + n + 1) /\ yytext' \in 0..c_buf_p' /\ cp' \in 0..(k + n + 2)
        /\ cp' <= k + n + 1
    BY <1>8, <1>15
  <2>3. buf_size' \in Nat \ {0}
    BY <1>7, <1>9
  <2> QED BY <1>1, <1>9, <1>15, <1>16, <1>17, <2>1, <2>2, <2>3 DEF Types, TypeOK
<1>19. Conserved'
  <2>1. Joined(lexemes) \o t = input \o s
    <3>1. PICK j \in Texts : j = Joined(lexemes)
      BY <1>4
    <3>2. (j \o m) \o s = j \o (m \o s)
      BY <1>8, ConcatAssociative DEF Texts
    <3> QED BY <1>4, <1>10, <3>1, <3>2
  <2> QED BY <1>9, <1>13, <1>15, <1>17, <2>1 DEF Conserved
<1>20. Matching'
  BY <1>8, <1>15, <1>16, <1>17 DEF Matching
<1>21. ReadFits'
  <2>1. k + n <= buf_size' - 1
    BY <1>7, <1>8, <1>9
  <2> QED BY <1>17, <2>1 DEF ReadFits
<1> QED BY <1>15, <1>18, <1>19, <1>20, <1>21 DEF IInv, Finding, Acting

\* A read that fails leaves the buffer as it is (lex.yy.c:592-622, 1039-1041).
LEMMA ReadFailsKeeps == ASSUME IInv, ReadFails PROVE IInv'
<1>1. /\ pc = "action" /\ pc' = "exit"
      /\ UNCHANGED <<input, ended, interactive, ch_buf, buf_size, status, c_buf_p, hold, yytext,
                     cp, state, last, act, yylineno, lexemes>>
  BY DEF ReadFails, AtEnd, file, buffer
<1>2. Whole' = Whole /\ Begin' = Begin /\ yy_n_chars' = yy_n_chars
  BY <1>1 DEF Whole, Begin, yy_n_chars
<1>3. Types'
  BY <1>1, <1>2 DEF IInv, Types, TypeOK
<1>4. Conserved' /\ ReadFits'
  BY <1>1, <1>2 DEF IInv, Conserved, ReadFits
<1> QED BY <1>1, <1>3, <1>4 DEF IInv, Matching, Finding, Acting

LEMMA StoppedKeeps == ASSUME IInv, UNCHANGED vars PROVE IInv'
BY DEF vars, IInv, Types, TypeOK, Conserved, Matching, Finding, Acting, ReadFits,
       Whole, Begin, NulAt, yy_n_chars

THEOREM Invariant == Spec => []IInv
<1>1. ASSUME IInv, [Next]_vars PROVE IInv'
  <2>1. CASE UNCHANGED vars
    BY <1>1, <2>1, StoppedKeeps
  <2>2. CASE Next
    <3>1. CASE Step
      BY <1>1, <3>1, NextLexemeKeeps, MatchCharKeeps, FindActionKeeps, DoActionKeeps,
         RealNulKeeps, EndOfFileKeeps, LastMatchKeeps, ContinueScanKeeps,
         ReadFailsKeeps DEF Step
    <3>2. CASE Stopped
      BY <1>1, <3>2, StoppedKeeps DEF Stopped
    <3> QED BY <2>2, <3>1, <3>2 DEF Next
  <2> QED BY <1>1, <2>1, <2>2
<1> QED BY <1>1, InitIInv, PTL DEF Spec

\* Every variable keeps its type, and no position leaves the buffer
\* (lex.yy.c:675-1148).
THEOREM TypeCorrect == Spec => []TypeOK
<1>1. IInv => TypeOK
  BY DEF IInv, Types
<1> QED BY <1>1, Invariant, PTL

\* No read is asked for more than the buffer has room for, whatever the two
\* sizes are (lex.yy.c:1009-1051).
THEOREM ReadsFit == Spec => []ReadFits
<1>1. IInv => ReadFits
  BY DEF IInv
<1> QED BY <1>1, Invariant, PTL

\* The lexemes, joined, and the rest of the buffer are the file as far as it
\* was read (lex.yy.c:713-718, 963-1097).
THEOREM NothingIsSkipped == Spec => []NothingSkipped
<1>1. IInv => NothingSkipped
  <2> SUFFICES ASSUME IInv, pc \in {"returned", "loop", "eof"}
               PROVE  Joined(lexemes) \o Rest = input
      BY DEF NothingSkipped
  <2>1. Rest = Between(Whole, c_buf_p, yy_n_chars)
    BY DEF Rest, Whole, Between
  <2>2. CASE pc \in {"returned", "loop"}
    BY <2>1, <2>2 DEF IInv, Conserved, Begin
  <2>3. CASE pc = "eof"
    BY <2>1, <2>3 DEF IInv, Conserved, Begin
  <2> QED BY <2>2, <2>3
<1> QED BY <1>1, Invariant, PTL

\* Backing up goes to a position of the lexeme at hand, and to the state the
\* automaton has after the text up to it (lex.yy.c:745-752, 1101-1122).
THEOREM BacksUpRight == Spec => []BackUpIsFresh
<1>1. IInv => BackUpIsFresh
  <2> SUFFICES ASSUME IInv, pc = "find", ~Accepts(state)
               PROVE  /\ last.cpos \in (yytext + 1)..cp
                      /\ Accepts(last.state)
                      /\ last.state # 3 =>
                           Rescan(ch_buf, yytext, last.cpos).state = last.state
      BY DEF BackUpIsFresh
  <2>1. Types /\ Finding
    BY DEF IInv
  <2>2. ch_buf \in Texts /\ Len(ch_buf) = yy_n_chars + 2 /\ yytext \in Nat
        /\ yy_n_chars \in Nat /\ cp \in Nat
    BY <2>1, WholeIs DEF Types, TypeOK
  <2>3. CASE Noted(ch_buf, yytext, cp, last) /\ last.state # 3 /\ cp <= yy_n_chars + 1
    <3>1. /\ last.cpos \in (yytext + 1)..(cp - 1) /\ Accepts(last.state)
          /\ last.state = Reached(Between(ch_buf, yytext, last.cpos))
      BY <2>3 DEF Noted
    <3>2. last.cpos \in Nat /\ yytext <= last.cpos /\ last.cpos <= Len(ch_buf)
      BY <2>2, <2>3, <3>1
    <3>3. Rescan(ch_buf, yytext, last.cpos).state = last.state
      BY <2>2, <3>1, <3>2, RescanIs
    <3> QED BY <2>2, <3>1, <3>3
  <2>4. CASE last.state = 3 /\ last.cpos = cp - 1 /\ last.cpos > yytext
    <3>1. Accepts(3)
      BY Accepting
    <3> QED BY <2>2, <2>4, <3>1
  <2> QED BY <2>1, <2>3, <2>4 DEF Finding
<1> QED BY <1>1, Invariant, PTL

-----------------------------------------------------------------------------
(* The longest text, then the first rule *)

\* The state after a text, read off the text (test.l:16-86).
Kind(t) ==
  IF t = <<>> THEN 1
  ELSE IF Len(t) = 1 THEN First[Class(t[1])]
  ELSE IF AllIn(t, {2}) THEN 15
  ELSE IF t[1] = 11 /\ AllIn(t, Digit) THEN 16
  ELSE IF Len(t) = 2 /\ t[1] \in {13, 14, 15} /\ t[2] = 14 THEN 17
  ELSE IF t[1] = 16 /\ AllIn(t, Alnum) THEN 18
  ELSE IF t[1] = 16 /\ AllIn(t, Alnum_us) THEN (IF t[Len(t)] = 17 THEN 19 ELSE 20)
  ELSE 21

Extends(u, t, c) ==
  /\ Len(u) = Len(t) + 1 /\ u[Len(u)] = c
  /\ \A i \in 1..Len(t) : u[i] = t[i]

LEMMA TextIs == \A t \in Texts : /\ Len(t) \in Nat /\ DOMAIN t = 1..Len(t)
                                 /\ \A i \in 1..Len(t) : t[i] \in 0..19
BY DEF Texts

LEMMA AllInStep ==
  ASSUME NEW t \in Texts, NEW u \in Texts, NEW c \in 0..19, Extends(u, t, c), NEW C
  PROVE  AllIn(u, C) <=> AllIn(t, C) /\ c \in C
<1>1. Len(t) \in Nat /\ DOMAIN t = 1..Len(t) /\ DOMAIN u = 1..(Len(t) + 1)
      /\ u[Len(t) + 1] = c
  BY DEF Texts, Extends
<1>2. ASSUME AllIn(u, C) PROVE AllIn(t, C) /\ c \in C
  <2>1. Len(t) + 1 \in DOMAIN u /\ \A i \in DOMAIN t : i \in DOMAIN u
    BY <1>1
  <2> QED BY <1>1, <1>2, <2>1 DEF AllIn, Extends
<1>3. ASSUME AllIn(t, C), c \in C PROVE AllIn(u, C)
  <2>1. \A i \in DOMAIN u : i = Len(t) + 1 \/ i \in DOMAIN t
    BY <1>1
  <2> QED BY <1>1, <1>3, <2>1 DEF AllIn, Extends
<1> QED BY <1>2, <1>3

LEMMA KindOfTwo ==
  ASSUME NEW t \in Texts, NEW u \in Texts, NEW c \in 0..19, Extends(u, t, c), Len(t) = 1
  PROVE  Kind(u) = Table(Kind(t), Class(c))
<1>1. PICK a \in 0..19 : a = t[1]
  <2>1. \A i \in 1..Len(t) : t[i] \in 0..19
    BY TextIs
  <2>2. 1 \in 1..Len(t)
    OBVIOUS
  <2> QED BY <2>1, <2>2
<1>2. Len(u) = 2 /\ u[1] = a /\ u[2] = c /\ u # <<>> /\ t # <<>>
  BY <1>1 DEF Extends
<1>3. \A C : AllIn(u, C) <=> a \in C /\ c \in C
  <2>1. DOMAIN t = {1}
    BY DEF Texts
  <2>2. \A C : AllIn(t, C) <=> a \in C
    BY <1>1, <2>1 DEF AllIn
  <2> QED BY <2>2, AllInStep
<1>4. Kind(t) = First[Class(a)]
  BY <1>1, <1>2 DEF Kind
<1>5. /\ AllIn(u, {2}) <=> a = 2 /\ c = 2
      /\ AllIn(u, Digit) <=> a \in {10, 11} /\ c \in {10, 11}
      /\ AllIn(u, Alnum) <=> a \in {10, 11, 16} /\ c \in {10, 11, 16}
      /\ AllIn(u, Alnum_us) <=> a \in {10, 11, 16, 17} /\ c \in {10, 11, 16, 17}
  BY <1>3 DEF Digit, Letter, Alnum, Alnum_us
<1>6. Kind(u) = IF a = 2 /\ c = 2 THEN 15
                ELSE IF a = 11 /\ c \in {10, 11} THEN 16
                ELSE IF a \in {13, 14, 15} /\ c = 14 THEN 17
                ELSE IF a = 16 /\ c \in {10, 11, 16} THEN 18
                ELSE IF a = 16 /\ c = 17 THEN 19
                ELSE 21
  BY <1>2, <1>5 DEF Kind
<1>7. PICK d \in 1..19 : d = Class(c)
  BY ClassType
<1>8. c # 0 => d = c
  BY <1>7 DEF Class, NUL
<1>9. c = 0 => d = 1
  BY <1>7 DEF Class, NUL
<1>10. First[Class(a)] = IF a = 2 THEN 5 ELSE IF a = 11 THEN 10
                         ELSE IF a \in {13, 14, 15} THEN a - 2
                         ELSE IF a = 16 THEN 14
                         ELSE IF a \in {0, 1, 17} THEN 4 ELSE IF a = 3 THEN 6
                         ELSE IF a \in {6, 7, 8, 9} THEN 8 ELSE IF a = 10 THEN 9 ELSE 7
  BY DEF First, Class, NUL
<1> QED BY <1>4, <1>6, <1>7, <1>8, <1>9, <1>10 DEF Table

LEMMA KindOfMore ==
  ASSUME NEW t \in Texts, NEW u \in Texts, NEW c \in 0..19, Extends(u, t, c), Len(t) > 1
  PROVE  Kind(u) = Table(Kind(t), Class(c))
<1>1. PICK n \in Nat : n = Len(t) /\ n > 1
  BY DEF Texts
<1>2. PICK a \in 0..19 : a = t[1]
  BY <1>1 DEF Texts
<1>3. PICK z \in 0..19 : z = t[n]
  BY <1>1 DEF Texts
<1>4. Len(u) = n + 1 /\ u[1] = a /\ u[n + 1] = c /\ u # <<>> /\ t # <<>>
  BY <1>1, <1>2 DEF Extends
<1>5. /\ AllIn(u, {2}) <=> AllIn(t, {2}) /\ c = 2
      /\ AllIn(u, Digit) <=> AllIn(t, Digit) /\ c \in {10, 11}
      /\ AllIn(u, Alnum) <=> AllIn(t, Alnum) /\ c \in {10, 11, 16}
      /\ AllIn(u, Alnum_us) <=> AllIn(t, Alnum_us) /\ c \in {10, 11, 16, 17}
  <2>1. AllIn(u, {2}) <=> AllIn(t, {2}) /\ c \in {2}
    BY AllInStep
  <2>2. AllIn(u, Digit) <=> AllIn(t, Digit) /\ c \in Digit
    BY AllInStep
  <2>3. AllIn(u, Alnum) <=> AllIn(t, Alnum) /\ c \in Alnum
    BY AllInStep
  <2>4. AllIn(u, Alnum_us) <=> AllIn(t, Alnum_us) /\ c \in Alnum_us
    BY AllInStep
  <2>5. /\ c \in Digit <=> c \in {10, 11}
        /\ c \in Alnum <=> c \in {10, 11, 16}
        /\ c \in Alnum_us <=> c \in {10, 11, 16, 17}
    BY DEF Digit, Letter, Alnum, Alnum_us
  <2> QED BY <2>1, <2>2, <2>3, <2>4, <2>5
<1>6. /\ AllIn(t, {2}) => a = 2
      /\ AllIn(t, Alnum) => AllIn(t, Alnum_us)
  <2>1. 1 \in DOMAIN t
    BY <1>1 DEF Texts
  <2> QED BY <1>2, <2>1 DEF AllIn, Alnum_us
<1>7. Kind(t) = IF AllIn(t, {2}) THEN 15
                ELSE IF a = 11 /\ AllIn(t, Digit) THEN 16
                ELSE IF n = 2 /\ a \in {13, 14, 15} /\ t[2] = 14 THEN 17
                ELSE IF a = 16 /\ AllIn(t, Alnum) THEN 18
                ELSE IF a = 16 /\ AllIn(t, Alnum_us) THEN (IF z = 17 THEN 19 ELSE 20)
                ELSE 21
  BY <1>1, <1>2, <1>3, <1>4 DEF Kind
<1>8. Kind(u) = IF AllIn(u, {2}) THEN 15
                ELSE IF a = 11 /\ AllIn(u, Digit) THEN 16
                ELSE IF a = 16 /\ AllIn(u, Alnum) THEN 18
                ELSE IF a = 16 /\ AllIn(u, Alnum_us) THEN (IF c = 17 THEN 19 ELSE 20)
                ELSE 21
  BY <1>1, <1>4 DEF Kind
<1>9. PICK d \in 1..19 : d = Class(c)
  BY ClassType
<1>10. (c # 0 => d = c) /\ (c = 0 => d = 1)
  BY <1>9 DEF Class, NUL
<1>11. CASE AllIn(t, {2})
  BY <1>5, <1>6, <1>7, <1>8, <1>9, <1>10, <1>11 DEF Table
<1>12. CASE a = 11 /\ AllIn(t, Digit)
  BY <1>5, <1>6, <1>7, <1>8, <1>9, <1>10, <1>12 DEF Table
<1>13. CASE a \in {13, 14, 15}
  BY <1>5, <1>6, <1>7, <1>8, <1>9, <1>10, <1>13 DEF Table
<1>14. CASE a = 16 /\ AllIn(t, Alnum)
  BY <1>5, <1>6, <1>7, <1>8, <1>9, <1>10, <1>14 DEF Table
<1>15. CASE a = 16 /\ AllIn(t, Alnum_us) /\ ~AllIn(t, Alnum)
  BY <1>5, <1>6, <1>7, <1>8, <1>9, <1>10, <1>15 DEF Table
<1>16. CASE /\ ~AllIn(t, {2}) /\ ~(a = 11 /\ AllIn(t, Digit)) /\ a \notin {13, 14, 15}
            /\ ~(a = 16 /\ AllIn(t, Alnum_us))
  BY <1>5, <1>6, <1>7, <1>8, <1>9, <1>10, <1>16 DEF Table
<1> QED BY <1>11, <1>12, <1>13, <1>14, <1>15, <1>16

\* The automaton is in the state its text calls for (lex.yy.c:409-460).
LEMMA ReachedKind == \A t \in Texts : Reached(t) = Kind(t)
<1> DEFINE Bad == {n \in Nat : \E t \in Texts : Len(t) = n /\ Reached(t) # Kind(t)}
<1>1. Bad = {}
  <2> SUFFICES ASSUME Bad # {} PROVE FALSE
      OBVIOUS
  <2>1. PICK n \in Bad : \A m \in Bad : n <= m
    <3>1. Bad \in SUBSET Nat
      OBVIOUS
    <3> HIDE DEF Bad
    <3> QED BY <3>1, LeastOf
  <2>2. PICK u \in Texts : Len(u) = n /\ Reached(u) # Kind(u)
    BY <2>1
  <2>3. n \in Nat
    BY <2>1
  <2>4. u # <<>>
    BY <2>2, ReachedStep DEF Kind, Start
  <2>5. PICK t \in Seq(0..19), c \in 0..19 : u = Append(t, c)
    BY <2>4, SequenceEmptyOrAppend DEF Texts
  <2>6. t \in Texts /\ Len(t) = n - 1 /\ n - 1 \in Nat /\ Extends(u, t, c)
    <3>1. Len(t) \in Nat /\ Len(u) = Len(t) + 1 /\ u[Len(u)] = c
          /\ \A i \in 1..Len(t) : u[i] = t[i]
      BY <2>5, AppendProperties
    <3> QED BY <2>2, <2>3, <3>1 DEF Texts, Extends
  <2>7. Reached(t) = Kind(t)
    <3>1. n - 1 \notin Bad
      <4> HIDE DEF Bad
      <4> QED BY <2>1, <2>3, <2>6
    <3> QED BY <2>6, <3>1
  <2>8. Reached(u) = Table(Kind(t), Class(c))
    <3>1. PICK s \in 1..21 : s = Reached(t)
      BY <2>6, ReachedStep
    <3>2. PICK d \in 1..19 : d = Class(c)
      BY ClassType
    <3>3. s \in 1..23 /\ d \in 0..19
      OBVIOUS
    <3>4. NextState[s][d] = Table(s, d)
      BY <3>3, TableIs
    <3>5. Reached(u) = NextState[s][d]
      BY <2>5, <2>6, <3>1, <3>2, ReachedStep
    <3> QED BY <2>7, <3>1, <3>2, <3>4, <3>5
  <2>9. Kind(u) = Table(Kind(t), Class(c))
    <3>1. CASE n = 1
      <4>1. Len(t) = 0
        BY <2>6, <3>1
      <4>2. t = <<>>
        BY <2>6, <4>1, EmptySeq DEF Texts
      <4>3. Len(u) = 1 /\ u[1] = c
        BY <2>2, <2>6, <3>1 DEF Extends
      <4>4. Kind(t) = 1 /\ Kind(u) = First[Class(c)]
        BY <2>4, <4>2, <4>3 DEF Kind
      <4>5. PICK d \in 1..19 : d = Class(c)
        BY ClassType
      <4>6. Table(1, d) = First[d]
        BY DEF Table
      <4> QED BY <4>4, <4>5, <4>6
    <3>2. CASE n = 2
      <4>1. Len(t) = 1
        BY <2>6, <3>2
      <4> QED BY <2>6, <4>1, KindOfTwo
    <3>3. CASE n > 2
      <4>1. Len(t) > 1
        BY <2>3, <2>6, <3>3
      <4> QED BY <2>6, <4>1, KindOfMore
    <3>4. n # 0
      BY <2>6, <2>3
    <3> QED BY <2>3, <3>1, <3>2, <3>3, <3>4
  <2> QED BY <2>2, <2>8, <2>9
<1> QED
  <2> SUFFICES ASSUME NEW t \in Texts PROVE Reached(t) = Kind(t)
      OBVIOUS
  <2>1. Len(t) \in Nat
    BY DEF Texts
  <2> QED BY <1>1, <2>1

RuleOf(t) == At(yy_accept, Reached(t))

\* A one character text and the rules of test.l.
LEMMA RulesOfOne ==
  ASSUME NEW t \in Texts, Len(t) = 1
  PROVE  /\ RuleOf(t) \in 1..9
         /\ Matches(RuleOf(t), t)
         /\ \A r \in 1..(RuleOf(t) - 1) : ~Matches(r, t)
<1>1. PICK a \in 0..19 : a = t[1]
  <2>1. \A i \in 1..Len(t) : t[i] \in 0..19
    BY TextIs
  <2>2. 1 \in 1..Len(t)
    OBVIOUS
  <2> QED BY <2>1, <2>2
<1>2. t # <<>> /\ Head(t) = a /\ DOMAIN t = {1}
  <2>1. t \in Seq(0..19) /\ t # <<>>
    <3>1. t \in Seq(0..19)
      BY DEF Texts
    <3>2. Len(<<>>) = 0 /\ Len(t) # 0
      OBVIOUS
    <3> QED BY <3>1, <3>2, Zenon
  <2>2. DOMAIN t = 1..1
    BY TextIs
  <2>3. 1..1 = {1}
    OBVIOUS
  <2> QED BY <1>1, <2>1, <2>2, <2>3, HeadTailProperties
<1>3. \A c : t = <<c>> <=> a = c
  <2> SUFFICES ASSUME NEW c PROVE t = <<c>> <=> a = c
      OBVIOUS
  <2>1. t = <<t[1]>>
    BY DEF Texts
  <2> QED BY <1>1, <2>1
<1>4. \A c, d : t # <<c, d>>
  OBVIOUS
<1>5. \A C : AllIn(t, C) <=> a \in C
  BY <1>1, <1>2 DEF AllIn
<1>6. /\ Matches(1, t) <=> a = 16
      /\ ~Matches(2, t)
      /\ Matches(3, t) <=> a \in {10, 11}
      /\ Matches(4, t) <=> a \in {6, 7, 8, 9, 14}
      /\ Matches(5, t) <=> a \in {4, 5, 12, 18, 19}
      /\ Matches(6, t) <=> a = 15
      /\ Matches(7, t) <=> a = 2
      /\ Matches(8, t) <=> a # 3
      /\ Matches(9, t)
  <2>1. Matches(1, t) <=> a = 16
    BY <1>2, <1>5 DEF Matches, Letter, Digit, Alnum
  <2>2. ~Matches(2, t)
    BY DEF Matches
  <2>3. Matches(3, t) <=> a \in {10, 11}
    BY <1>2, <1>3, <1>5 DEF Matches, Digit
  <2>4. Matches(4, t) <=> a \in {6, 7, 8, 9, 14}
    <3>1. Matches(4, t) <=> t = <<7>> \/ t = <<8>> \/ t = <<6>> \/ t = <<9>> \/ t = <<14>>
      BY <1>2 DEF Matches
    <3>2. (t = <<7>> <=> a = 7) /\ (t = <<8>> <=> a = 8) /\ (t = <<6>> <=> a = 6) /\ (t = <<9>> <=> a = 9) /\ (t = <<14>> <=> a = 14)
      BY <1>3, Zenon
    <3> QED BY <3>1, <3>2
  <2>5. Matches(5, t) <=> a \in {4, 5, 12, 18, 19}
    <3>1. Matches(5, t) <=> t = <<12>> \/ t = <<4>> \/ t = <<5>> \/ t = <<18>> \/ t = <<19>>
      BY <1>2 DEF Matches
    <3>2. (t = <<12>> <=> a = 12) /\ (t = <<4>> <=> a = 4) /\ (t = <<5>> <=> a = 5) /\ (t = <<18>> <=> a = 18) /\ (t = <<19>> <=> a = 19)
      BY <1>3, Zenon
    <3> QED BY <3>1, <3>2
  <2>6. Matches(6, t) <=> a = 15
    BY <1>2, <1>3, <1>4 DEF Matches
  <2>7. Matches(7, t) <=> a = 2
    BY <1>2, <1>5 DEF Matches
  <2>8. Matches(8, t) <=> a # 3
    BY <1>2, <1>3 DEF Matches, NEWLINE
  <2>9. Matches(9, t)
    BY <1>2 DEF Matches
  <2> QED BY <2>1, <2>2, <2>3, <2>4, <2>5, <2>6, <2>7, <2>8, <2>9
<1>7. Reached(t) = First[Class(a)]
  BY <1>1, <1>2, ReachedKind DEF Kind
<1>8. RuleOf(t) = IF a = 16 THEN 1 ELSE IF a \in {10, 11} THEN 3
                  ELSE IF a \in {6, 7, 8, 9, 14} THEN 4
                  ELSE IF a \in {4, 5, 12, 18, 19} THEN 5
                  ELSE IF a = 15 THEN 6 ELSE IF a = 2 THEN 7
                  ELSE IF a = 3 THEN 9 ELSE 8
  BY <1>7 DEF RuleOf, First, Class, NUL, At, yy_accept
<1>9. /\ RuleOf(t) \in 1..9
      /\ Matches(RuleOf(t), t)
  BY <1>6, <1>8
<1>10. ASSUME NEW r \in 1..(RuleOf(t) - 1) PROVE ~Matches(r, t)
  <2>1. r \in 1..9 /\ r < RuleOf(t)
    BY <1>9
  <2> QED BY <2>1, <1>6, <1>8
<1> QED BY <1>9, <1>10

\* A longer text and the rules of test.l.
LEMMA RulesOfMore ==
  ASSUME NEW t \in Texts, Len(t) > 1
  PROVE  /\ Accepts(Reached(t)) =>
              /\ RuleOf(t) \in 1..9
              /\ Matches(RuleOf(t), t)
              /\ \A r \in 1..(RuleOf(t) - 1) : ~Matches(r, t)
         /\ ~Accepts(Reached(t)) => \A r \in 1..9 : ~Matches(r, t)
<1>1. PICK n \in Nat : n = Len(t) /\ n > 1
  BY TextIs
<1>2. DOMAIN t = 1..n /\ 1 \in 1..n /\ n \in 1..n /\ t # <<>> /\ t \in Seq(0..19)
  <2>1. DOMAIN t = 1..n /\ t \in Seq(0..19)
    BY <1>1, TextIs DEF Texts
  <2>2. Len(<<>>) = 0 /\ Len(t) # 0
    BY <1>1
  <2>3. t # <<>>
    BY <2>2
  <2> QED BY <1>1, <2>1, <2>3
<1>3. PICK a \in 0..19 : a = t[1]
  BY <1>1, <1>2, TextIs
<1>4. PICK z \in 0..19 : z = t[n]
  BY <1>1, <1>2, TextIs
<1>5. Head(t) = a /\ Last(t) = z
  BY <1>1, <1>2, <1>3, <1>4, HeadTailProperties DEF Last
<1>6. \A c : t # <<c>>
  BY <1>1
<1>7. \A c, d : t = <<c, d>> <=> n = 2 /\ a = c /\ t[2] = d
  <2> SUFFICES ASSUME NEW c, NEW d PROVE t = <<c, d>> <=> n = 2 /\ a = c /\ t[2] = d
      OBVIOUS
  <2>1. t = <<c, d>> => n = 2 /\ a = c /\ t[2] = d
    BY <1>1, <1>3
  <2>2. n = 2 => t = <<t[1], t[2]>>
    BY <1>1, <1>2
  <2> QED BY <1>3, <2>1, <2>2
<1>8. /\ AllIn(t, {2}) => a = 2
      /\ AllIn(t, Alnum) => AllIn(t, Alnum_us) /\ z \in {10, 11, 16}
      /\ AllIn(t, Alnum_us) => z \in {10, 11, 16, 17}
  BY <1>2, <1>3, <1>4 DEF AllIn, Alnum, Alnum_us, Letter, Digit
<1>9. /\ Matches(1, t) <=> a = 16 /\ AllIn(t, Alnum)
      /\ Matches(2, t) <=> a = 16 /\ AllIn(t, Alnum_us) /\ z \in {10, 11, 16}
      /\ Matches(3, t) <=> a = 11 /\ AllIn(t, Digit)
      /\ ~Matches(4, t)
      /\ ~Matches(5, t)
      /\ Matches(6, t) <=> n = 2 /\ a \in {13, 14, 15} /\ t[2] = 14
      /\ Matches(7, t) <=> AllIn(t, {2})
      /\ ~Matches(8, t)
      /\ ~Matches(9, t)
  <2>1. Matches(1, t) <=> a = 16 /\ AllIn(t, Alnum)
    BY <1>2, <1>5 DEF Matches, Letter
  <2>2. Matches(2, t) <=> a = 16 /\ AllIn(t, Alnum_us) /\ z \in {10, 11, 16}
    <3>1. z \in Alnum <=> z \in {10, 11, 16}
      BY DEF Alnum, Letter, Digit
    <3> QED BY <1>2, <1>5, <3>1 DEF Matches, Letter
  <2>3. Matches(3, t) <=> a = 11 /\ AllIn(t, Digit)
    BY <1>2, <1>5, <1>6 DEF Matches
  <2>4. ~Matches(4, t)
    BY <1>6 DEF Matches
  <2>5. ~Matches(5, t)
    BY <1>6 DEF Matches
  <2>6. Matches(6, t) <=> n = 2 /\ a \in {13, 14, 15} /\ t[2] = 14
    <3>1. Matches(6, t) <=> t = <<15>> \/ t = <<15, 14>> \/ t = <<13, 14>> \/ t = <<14, 14>>
      BY <1>2 DEF Matches
    <3>2. t # <<15>> /\ (t = <<15, 14>> <=> n = 2 /\ a = 15 /\ t[2] = 14)
          /\ (t = <<13, 14>> <=> n = 2 /\ a = 13 /\ t[2] = 14)
          /\ (t = <<14, 14>> <=> n = 2 /\ a = 14 /\ t[2] = 14)
      BY <1>6, <1>7, Zenon
    <3> QED BY <3>1, <3>2
  <2>7. Matches(7, t) <=> AllIn(t, {2})
    BY <1>2 DEF Matches
  <2>8. ~Matches(8, t)
    BY <1>1 DEF Matches
  <2>9. ~Matches(9, t)
    BY <1>1 DEF Matches
  <2> QED BY <2>1, <2>2, <2>3, <2>4, <2>5, <2>6, <2>7, <2>8, <2>9
<1>10. Reached(t) = IF AllIn(t, {2}) THEN 15
                ELSE IF a = 11 /\ AllIn(t, Digit) THEN 16
                ELSE IF n = 2 /\ a \in {13, 14, 15} /\ t[2] = 14 THEN 17
                ELSE IF a = 16 /\ AllIn(t, Alnum) THEN 18
                ELSE IF a = 16 /\ AllIn(t, Alnum_us) THEN (IF z = 17 THEN 19 ELSE 20)
                ELSE 21
  <2>1. Reached(t) = Kind(t)
    BY ReachedKind
  <2>2. Len(t) # 0 /\ Len(t) # 1
    BY <1>1
  <2> QED BY <1>1, <1>2, <1>3, <1>4, <2>1, <2>2 DEF Kind
<1>11. RuleOf(t) = IF AllIn(t, {2}) THEN 7
                ELSE IF a = 11 /\ AllIn(t, Digit) THEN 3
                ELSE IF n = 2 /\ a \in {13, 14, 15} /\ t[2] = 14 THEN 6
                ELSE IF a = 16 /\ AllIn(t, Alnum) THEN 1
                ELSE IF a = 16 /\ AllIn(t, Alnum_us) THEN (IF z = 17 THEN 0 ELSE 2)
                ELSE 0
  BY <1>10 DEF RuleOf, At, yy_accept
<1>12. Accepts(Reached(t)) <=> RuleOf(t) # 0
  BY DEF Accepts, RuleOf
<1>13. RuleOf(t) # 0 => RuleOf(t) \in 1..9 /\ Matches(RuleOf(t), t)
  BY <1>8, <1>9, <1>11
<1>14. ASSUME RuleOf(t) # 0, NEW r \in 1..(RuleOf(t) - 1) PROVE ~Matches(r, t)
  <2>1. r \in 1..9 /\ r < RuleOf(t)
    BY <1>13, <1>14
  <2> QED BY <2>1, <1>8, <1>9, <1>11
<1>15. ASSUME RuleOf(t) = 0, NEW r \in 1..9 PROVE ~Matches(r, t)
  BY <1>8, <1>9, <1>11, <1>15
<1> QED BY <1>12, <1>13, <1>14, <1>15

\* The automaton accepts a text for the first rule that matches it, and none
\* that no rule matches (test.l:16-86).
LEMMA RulesAre ==
  ASSUME NEW t \in Texts
  PROVE  /\ Accepts(Reached(t)) =>
              /\ RuleOf(t) \in 1..9
              /\ Matches(RuleOf(t), t)
              /\ \A r \in 1..(RuleOf(t) - 1) : ~Matches(r, t)
         /\ ~Accepts(Reached(t)) => \A r \in 1..9 : ~Matches(r, t)
<1>1. CASE Len(t) = 0
  <2>1. t = <<>>
    BY <1>1, EmptySeq DEF Texts
  <2>2. ~Accepts(Reached(t))
    BY <2>1, ReachedStep, Accepting DEF Start
  <2> QED BY <2>1, <2>2 DEF Matches
<1>2. CASE Len(t) = 1
  <2>1. Accepts(Reached(t))
    BY <1>2, RulesOfOne DEF RuleOf, Accepts
  <2> QED BY <1>2, <2>1, RulesOfOne
<1>3. CASE Len(t) > 1
  BY <1>3, RulesOfMore
<1>4. PICK n \in Nat : n = Len(t)
  BY TextIs
<1>5. n = 0 \/ n = 1 \/ n > 1
  OBVIOUS
<1> QED BY <1>1, <1>2, <1>3, <1>4, <1>5

\* The states from which every character leads to none that accepts
\* (lex.yy.c:742).
Jams(s) == s \in {4, 6, 7, 8, 9, 17, 21}

\* Once jammed the automaton accepts no more.
LEMMA StaysJammed ==
  ASSUME NEW b \in Texts, NEW y \in Nat, NEW m \in Nat, y <= m, m <= Len(b),
         Jams(Reached(Between(b, y, m)))
  PROVE  \A q \in (m + 1)..Len(b) : Reached(Between(b, y, q)) = 21
<1> DEFINE Bad == {q \in (m + 1)..Len(b) : Reached(Between(b, y, q)) # 21}
<1> SUFFICES ASSUME Bad # {} PROVE FALSE
    OBVIOUS
<1>1. PICK n \in Bad : \A k \in Bad : n <= k
  <2>1. Bad \in SUBSET Nat
    OBVIOUS
  <2> HIDE DEF Bad
  <2> QED BY <2>1, LeastOf
<1>2. n \in (m + 1)..Len(b) /\ Reached(Between(b, y, n)) # 21 /\ Len(b) \in Nat
  BY <1>1, TextIs
<1>3. PICK p \in Nat : p = n - 1 /\ p >= m /\ p < Len(b) /\ y <= p /\ p <= Len(b)
  BY <1>2
<1>4. PICK s \in 1..21 : s = Reached(Between(b, y, p))
  <2>1. Between(b, y, p) \in Texts
    BY <1>3, BetweenStep
  <2> QED BY <2>1, ReachedStep
<1>5. Jams(s)
  <2>1. CASE p = m
    BY <1>4, <2>1
  <2>2. CASE p # m
    <3>1. p \in (m + 1)..Len(b) /\ ~(n <= p)
      BY <1>2, <1>3, <2>2
    <3>2. p \notin Bad
      <4> HIDE DEF Bad
      <4> QED BY <1>1, <3>1
    <3> QED BY <1>4, <3>1, <3>2 DEF Jams
  <2> QED BY <2>1, <2>2
<1>6. PICK t \in Texts : t = Between(b, y, p)
  BY <1>3, BetweenStep
<1>7. PICK c \in 0..19 : c = At(b, p)
  BY <1>3, BetweenStep
<1>8. PICK d \in 1..19 : d = Class(c)
  BY ClassType
<1>9. Between(b, y, n) = Append(t, c)
  <2>1. Between(b, y, p + 1) = Append(Between(b, y, p), At(b, p))
    BY <1>3, BetweenStep
  <2>2. p + 1 = n
    BY <1>2, <1>3
  <2> QED BY <1>6, <1>7, <2>1, <2>2
<1>10. Reached(Between(b, y, n)) = NextState[s][d]
  BY <1>4, <1>6, <1>8, <1>9, ReachedStep
<1>11. NextState[s][d] = Table(s, d)
  <2>1. s \in 1..23 /\ d \in 0..19
    OBVIOUS
  <2> QED BY <2>1, TableIs
<1>12. Table(s, d) = 21
  BY <1>5 DEF Table, Jams
<1> QED BY <1>2, <1>10, <1>11, <1>12

\* No text from position y that ends past e, up to n, is accepted.
NonePast(b, y, e, n) ==
  \A q \in (e + 1)..n : ~Accepts(Reached(Between(b, y, q)))

\* The automaton is jammed at n, so what follows n cannot matter.
Over(b, y, n) == Jams(Reached(Between(b, y, n)))

\* Nothing more will be read.
NoMore == status = "pending" \/ pc = "eof"

\* When the automaton stops, the end it goes back to is the last possible one.
Seen ==
  /\ pc = "find" /\ (Accepts(state) \/ last.state # 3) =>
       /\ NonePast(ch_buf, yytext, IF Accepts(state) THEN cp ELSE last.cpos, yy_n_chars)
       /\ Over(ch_buf, yytext, yy_n_chars) \/ status = "pending"
  /\ pc = "action" /\ act # YY_END_OF_BUFFER =>
       /\ NonePast(Whole, yytext, cp, yy_n_chars)
       /\ Over(Whole, yytext, yy_n_chars) \/ status = "pending"

\* Lexeme l is the text at position o of the file, the longest accepted
\* there, and its rule is the one the automaton accepts it for.
Placed(b, o, l) ==
  LET e == o + Len(l.text)
  IN  /\ e <= Len(b)
      /\ l.text = Between(b, o, e)
      /\ Accepts(Reached(l.text))
      /\ l.rule = RuleOf(l.text)
      /\ NonePast(b, o, e, Len(b))

Offset(ls, j) == Len(Joined(SubSeq(ls, 1, j - 1)))

Settled ==
  \A j \in DOMAIN lexemes :
    /\ Placed(input, Offset(lexemes, j), lexemes[j])
    /\ Over(input, Offset(lexemes, j), Len(input)) \/ NoMore

\* Once jammed, always over (lex.yy.c:742).
LEMMA JamsOn ==
  ASSUME NEW b \in Texts, NEW y \in Nat, NEW m \in Nat, NEW n \in Nat, NEW e \in Nat,
         y <= m, m <= n, n <= Len(b),
         Over(b, y, m), NonePast(b, y, e, m)
  PROVE  NonePast(b, y, e, n) /\ Over(b, y, n)
<1>1. PICK k \in Nat : k = Len(b)
  BY TextIs
<1>2. \A q \in (m + 1)..k : Reached(Between(b, y, q)) = 21
  <2>1. Jams(Reached(Between(b, y, m))) /\ m <= Len(b)
    BY <1>1 DEF Over
  <2> QED BY <1>1, <2>1, StaysJammed
<1>3. ~Accepts(21) /\ Jams(21)
  BY Accepting DEF Jams
<1>4. \A q \in (m + 1)..n : q \in (m + 1)..k
  BY <1>1
<1>5. NonePast(b, y, e, n)
  <2> SUFFICES ASSUME NEW q \in (e + 1)..n PROVE ~Accepts(Reached(Between(b, y, q)))
      BY DEF NonePast
  <2>1. CASE q <= m
    BY <2>1 DEF NonePast
  <2>2. CASE q > m
    <3>1. q \in (m + 1)..k
      BY <1>1, <2>2
    <3>2. Reached(Between(b, y, q)) = 21
      BY <1>2, <3>1
    <3> QED BY <1>3, <3>2
  <2> QED BY <2>1, <2>2
<1>6. Over(b, y, n)
  <2>1. CASE n = m
    BY <2>1
  <2>2. CASE n # m
    <3>1. n \in (m + 1)..k
      BY <1>1, <2>2
    <3>2. Reached(Between(b, y, n)) = 21
      BY <1>2, <3>1
    <3> QED BY <1>3, <3>2 DEF Over
  <2> QED BY <2>1, <2>2
<1> QED BY <1>5, <1>6

\* Where the automaton has come to, the text ends no later than there or at
\* the position noted (lex.yy.c:745-752).
LEMMA EndsThere ==
  ASSUME NEW b, NEW y \in Nat, NEW m \in Nat, NEW l,
         ~Accepts(Reached(Between(b, y, m))) => Noted(b, y, m, l)
  PROVE  NonePast(b, y, IF Accepts(Reached(Between(b, y, m))) THEN m ELSE l.cpos, m)
<1>1. CASE Accepts(Reached(Between(b, y, m)))
  BY <1>1 DEF NonePast
<1>2. CASE ~Accepts(Reached(Between(b, y, m)))
  <2>1. /\ l.cpos \in (y + 1)..(m - 1)
        /\ \A q \in (l.cpos + 1)..(m - 1) : ~Accepts(Reached(Between(b, y, q)))
    BY <1>2 DEF Noted
  <2>2. PICK p \in Nat : p = l.cpos
    BY <2>1
  <2>3. ASSUME NEW q \in (p + 1)..m PROVE ~Accepts(Reached(Between(b, y, q)))
    <3>1. CASE q = m
      BY <1>2, <3>1
    <3>2. CASE q # m
      <4>1. q \in (p + 1)..(m - 1)
        BY <3>2
      <4> QED BY <2>1, <2>2, <4>1
    <3> QED BY <3>1, <3>2
  <2> QED BY <1>2, <2>2, <2>3 DEF NonePast
<1> QED BY <1>1, <1>2

\* A text does not change when more is read behind it.
LEMMA BetweenGrows ==
  ASSUME NEW b \in Texts, NEW s \in Texts, NEW y \in Nat, NEW q \in Nat,
         y <= q, q <= Len(b)
  PROVE  Between(b \o s, y, q) = Between(b, y, q)
<1>1. PICK c : c = b \o s
  OBVIOUS
<1>2. PICK k \in Nat : k = Len(b)
  BY TextIs
<1>3. /\ c \in Texts /\ q <= Len(c)
      /\ \A i \in 1..k : c[i] = b[i]
  BY <1>1, <1>2, ConcatProperties DEF Texts
<1>4. PICK u : u = Between(b, y, q)
  OBVIOUS
<1>5. PICK v : v = Between(c, y, q)
  OBVIOUS
<1>6. /\ u \in Seq(0..19) /\ Len(u) = q - y /\ \A i \in 1..(q - y) : u[i] = b[y + i]
      /\ v \in Seq(0..19) /\ Len(v) = q - y /\ \A i \in 1..(q - y) : v[i] = c[y + i]
  BY <1>3, <1>4, <1>5, BetweenStep DEF Texts
<1>7. \A i \in 1..Len(v) : v[i] = u[i]
  <2> SUFFICES ASSUME NEW i \in 1..Len(v) PROVE v[i] = u[i]
      OBVIOUS
  <2>1. i \in 1..(q - y) /\ y + i \in 1..k
    BY <1>2, <1>6
  <2>2. c[y + i] = b[y + i]
    BY <1>3, <2>1
  <2> QED BY <1>6, <2>1, <2>2
<1>8. v = u
  BY <1>6, <1>7, SeqEqual
<1> QED BY <1>1, <1>4, <1>5, <1>8

\* A text of the buffer is found in the file behind what was matched.
LEMMA BetweenMoves ==
  ASSUME NEW b \in Texts, NEW j \in Texts, NEW y \in Nat, NEW n \in Nat, NEW q \in Nat,
         y <= q, q <= n, n <= Len(b)
  PROVE  LET c == j \o Between(b, y, n)
             o == Len(j)
         IN  /\ c \in Texts /\ Len(c) = o + (n - y)
             /\ Between(c, o, o + (q - y)) = Between(b, y, q)
<1>1. PICK o \in Nat : o = Len(j)
  BY TextIs
<1>2. PICK t : t = Between(b, y, n)
  OBVIOUS
<1>3. t \in Seq(0..19) /\ Len(t) = n - y /\ \A i \in 1..(n - y) : t[i] = b[y + i]
  <2>1. y <= n
    OBVIOUS
  <2> QED BY <1>2, <2>1, BetweenStep DEF Texts
<1>4. PICK c : c = j \o t
  OBVIOUS
<1>5. c \in Seq(0..19) /\ Len(c) = o + (n - y) /\ \A i \in 1..(n - y) : c[o + i] = t[i]
  <2>0. j \in Seq(0..19)
    BY DEF Texts
  <2>1. c \in Seq(0..19) /\ Len(c) = o + (n - y)
    <3>1. c \in Seq(0..19) /\ Len(c) = Len(j) + Len(t)
      BY <1>3, <1>4, <2>0, ConcatProperties
    <3> QED BY <1>1, <1>3, <3>1
  <2>2. \A i \in 1..Len(c) : c[i] = IF i <= o THEN j[i] ELSE t[i - o]
    BY <1>1, <1>3, <1>4, <2>1, ConcatProperties DEF Texts
  <2>3. ASSUME NEW i \in 1..(n - y) PROVE c[o + i] = t[i]
    <3>1. o + i \in 1..Len(c) /\ ~(o + i <= o) /\ (o + i) - o = i
      BY <2>1
    <3> QED BY <2>2, <3>1
  <2> QED BY <2>1, <2>3
<1>6. PICK u : u = Between(b, y, q)
  OBVIOUS
<1>7. PICK v : v = Between(c, o, o + (q - y))
  OBVIOUS
<1>8. u \in Seq(0..19) /\ Len(u) = q - y /\ \A i \in 1..(q - y) : u[i] = b[y + i]
  <2>1. q <= Len(b)
    BY TextIs
  <2> QED BY <1>6, <2>1, BetweenStep DEF Texts
<1>9. v \in Seq(0..19) /\ Len(v) = q - y /\ \A i \in 1..(q - y) : v[i] = c[o + i]
  <2>1. PICK z \in Nat : z = o + (q - y)
    OBVIOUS
  <2>2. c \in Texts /\ o <= z /\ z <= Len(c)
    BY <1>5, <2>1 DEF Texts
  <2>3. v \in Seq(0..19) /\ Len(v) = z - o /\ \A i \in 1..(z - o) : v[i] = c[o + i]
    <3>1. v = Between(c, o, z)
      BY <1>7, <2>1
    <3>2. /\ Between(c, o, z) \in Texts /\ Len(Between(c, o, z)) = z - o
          /\ \A i \in 1..(z - o) : Between(c, o, z)[i] = c[o + i]
      BY <2>2, BetweenStep
    <3> QED BY <3>1, <3>2 DEF Texts
  <2>4. z - o = q - y
    BY <2>1
  <2> QED BY <2>3, <2>4
<1>10. \A i \in 1..Len(v) : v[i] = u[i]
  <2> SUFFICES ASSUME NEW i \in 1..Len(v) PROVE v[i] = u[i]
      OBVIOUS
  <2>1. i \in 1..(q - y) /\ i \in 1..(n - y)
    BY <1>9
  <2> QED BY <1>3, <1>5, <1>8, <1>9, <2>1
<1>11. v = u
  BY <1>8, <1>9, <1>10, SeqEqual
<1> QED BY <1>1, <1>2, <1>4, <1>5, <1>6, <1>7, <1>11 DEF Texts

\* A lexeme that is over stays where it is when more is read.
LEMMA PlacedGrows ==
  ASSUME NEW b \in Texts, NEW s \in Texts, NEW o \in Nat, NEW l \in Lexeme,
         Placed(b, o, l), Over(b, o, Len(b))
  PROVE  Placed(b \o s, o, l) /\ Over(b \o s, o, Len(b \o s))
<1>1. PICK k \in Nat : k = Len(b)
  BY TextIs
<1>2. PICK t \in Texts : t = l.text
  BY DEF Lexeme
<1>3. PICK e \in Nat : e = o + Len(t) /\ o <= e
  BY TextIs
<1>4. PICK c : c = b \o s
  OBVIOUS
<1>5. PICK n \in Nat : c \in Texts /\ n = Len(c) /\ k <= n
  <2>1. b \in Seq(0..19) /\ s \in Seq(0..19) /\ Len(s) \in Nat
    BY TextIs DEF Texts
  <2>2. c \in Seq(0..19) /\ Len(c) = Len(b) + Len(s)
    BY <1>4, <2>1, ConcatProperties
  <2> QED BY <1>1, <2>1, <2>2 DEF Texts
<1>6. /\ e <= k /\ t = Between(b, o, e) /\ Accepts(Reached(t))
      /\ l.rule = RuleOf(t) /\ NonePast(b, o, e, k) /\ Over(b, o, k)
  BY <1>1, <1>2, <1>3 DEF Placed
<1>7. ASSUME NEW q \in Nat, o <= q, q <= k PROVE Between(c, o, q) = Between(b, o, q)
  BY <1>1, <1>4, <1>7, BetweenGrows
<1>8. NonePast(c, o, e, k)
  <2> SUFFICES ASSUME NEW q \in (e + 1)..k PROVE ~Accepts(Reached(Between(c, o, q)))
      BY DEF NonePast
  <2>1. Between(c, o, q) = Between(b, o, q)
    BY <1>3, <1>7
  <2> QED BY <1>6, <2>1 DEF NonePast
<1>9. Over(c, o, k)
  <2>1. o <= k
    BY <1>3, <1>6
  <2> QED BY <1>6, <1>7, <2>1 DEF Over
<1>10. NonePast(c, o, e, n) /\ Over(c, o, n)
  <2>1. o <= k /\ k <= n /\ n <= Len(c)
    BY <1>3, <1>5, <1>6
  <2> QED BY <1>5, <1>8, <1>9, <2>1, JamsOn
<1>11. t = Between(c, o, e)
  BY <1>3, <1>6, <1>7
<1>12. e <= n
  BY <1>5, <1>6
<1>13. Placed(c, o, l)
  BY <1>2, <1>3, <1>5, <1>6, <1>10, <1>11, <1>12 DEF Placed
<1> QED BY <1>4, <1>5, <1>10, <1>13

\* The text the automaton stopped at is the next lexeme of the file.
LEMMA PlacedFrom ==
  ASSUME NEW b \in Texts, NEW j \in Texts, NEW y \in Nat, NEW e \in Nat, NEW n \in Nat,
         y <= e, e <= n, n <= Len(b),
         Accepts(Reached(Between(b, y, e))), NonePast(b, y, e, n)
  PROVE  LET c == j \o Between(b, y, n)
             o == Len(j)
         IN  /\ \A l \in Lexeme : l.text = Between(b, y, e) /\ l.rule = RuleOf(l.text)
                                  => Placed(c, o, l)
             /\ Over(b, y, n) => Over(c, o, Len(c))
<1>1. PICK o \in Nat : o = Len(j)
  BY TextIs
<1>2. PICK c : c = j \o Between(b, y, n)
  OBVIOUS
<1>3. ASSUME NEW q \in Nat, y <= q, q <= n
      PROVE  Between(c, o, o + (q - y)) = Between(b, y, q)
  BY <1>1, <1>2, <1>3, BetweenMoves
<1>4. c \in Texts /\ Len(c) = o + (n - y)
  BY <1>1, <1>2, BetweenMoves
<1>5. ASSUME NEW l \in Lexeme, l.text = Between(b, y, e), l.rule = RuleOf(l.text)
      PROVE  Placed(c, o, l)
  <2>1. PICK t \in Texts : t = l.text /\ Len(t) = e - y
    <3>1. e <= Len(b)
      BY TextIs
    <3> QED BY <1>5, <3>1, BetweenStep
  <2>2. PICK f \in Nat : f = o + Len(t) /\ f = o + (e - y)
    BY <2>1
  <2>3. f <= Len(c)
    BY <1>4, <2>2
  <2>4. t = Between(c, o, f)
    BY <1>3, <1>5, <2>1, <2>2
  <2>5. NonePast(c, o, f, Len(c))
    <3> SUFFICES ASSUME NEW r \in (f + 1)..Len(c)
                 PROVE  ~Accepts(Reached(Between(c, o, r)))
        BY DEF NonePast
    <3>1. PICK q \in Nat : q = (r - o) + y
      BY <1>4, <2>2
    <3>2. q \in (e + 1)..n /\ y <= q /\ q <= n /\ r = o + (q - y)
      BY <1>4, <2>2, <3>1
    <3>3. Between(c, o, r) = Between(b, y, q)
      BY <1>3, <3>2
    <3> QED BY <3>2, <3>3 DEF NonePast
  <2>6. Accepts(Reached(t))
    BY <1>5, <2>1
  <2> QED BY <1>5, <2>1, <2>2, <2>3, <2>4, <2>5, <2>6 DEF Placed
<1>6. ASSUME Over(b, y, n) PROVE Over(c, o, Len(c))
  <2>1. Between(c, o, o + (n - y)) = Between(b, y, n)
    BY <1>3
  <2> QED BY <1>4, <1>6, <2>1 DEF Over
<1> QED BY <1>1, <1>2, <1>5, <1>6

\* The rules of test.l and a lexeme so placed.
LEMMA PlacedMeans ==
  ASSUME NEW b \in Texts, NEW o \in Nat, NEW l \in Lexeme, Placed(b, o, l)
  PROVE  LET rest == SubSeq(b, o + 1, Len(b))
         IN  /\ Matches(l.rule, l.text)
             /\ \A r \in 1..(l.rule - 1) : ~Matches(r, l.text)
             /\ \A n \in (Len(l.text) + 1)..Len(rest), r \in 1..9 :
                  ~Matches(r, SubSeq(rest, 1, n))
<1>1. PICK k \in Nat : k = Len(b)
  BY TextIs
<1>2. PICK t \in Texts : t = l.text
  BY DEF Lexeme
<1>3. PICK e \in Nat : e = o + Len(t) /\ o <= e
  BY TextIs
<1>4. /\ e <= k /\ Accepts(Reached(t)) /\ l.rule = RuleOf(t) /\ NonePast(b, o, e, k)
  BY <1>1, <1>2, <1>3 DEF Placed
<1>5. Matches(l.rule, l.text) /\ \A r \in 1..(l.rule - 1) : ~Matches(r, l.text)
  BY <1>2, <1>4, RulesAre
<1>6. PICK rest : rest = Between(b, o, k)
  OBVIOUS
<1>7. rest \in Texts /\ Len(rest) = k - o /\ \A i \in 1..(k - o) : rest[i] = b[o + i]
  <2>1. o <= k /\ k <= Len(b)
    BY <1>1, <1>3, <1>4
  <2> QED BY <1>6, <2>1, BetweenStep
<1>8. ASSUME NEW n \in (Len(t) + 1)..Len(rest), NEW r \in 1..9
      PROVE  ~Matches(r, SubSeq(rest, 1, n))
  <2>0. n \in Nat /\ n <= k - o /\ n > Len(t) /\ Len(t) \in Nat
    BY <1>7, TextIs
  <2>1. PICK q \in Nat : q = o + n /\ o <= q /\ q <= k /\ q \in (e + 1)..k
    BY <1>3, <2>0
  <2>2. PICK u : u = Between(b, o, q)
    OBVIOUS
  <2>3. PICK v : v = Between(rest, 0, n)
    OBVIOUS
  <2>4. u \in Texts /\ Len(u) = n /\ \A i \in 1..n : u[i] = b[o + i]
    <3>1. q <= Len(b) /\ q - o = n
      BY <1>1, <2>0, <2>1
    <3>2. /\ u \in Texts /\ Len(u) = q - o /\ \A i \in 1..(q - o) : u[i] = b[o + i]
      BY <2>1, <2>2, <3>1, BetweenStep
    <3> QED BY <3>1, <3>2
  <2>5. v \in Texts /\ Len(v) = n /\ \A i \in 1..n : v[i] = rest[i]
    <3>1. 0 \in Nat /\ 0 <= n /\ n <= Len(rest) /\ n - 0 = n
      BY <1>7, <2>0
    <3>2. v \in Texts /\ Len(v) = n - 0 /\ \A i \in 1..(n - 0) : v[i] = rest[0 + i]
      BY <1>7, <2>0, <2>3, <3>1, BetweenStep
    <3> QED BY <3>1, <3>2
  <2>6. \A i \in 1..Len(v) : v[i] = u[i]
    <3> SUFFICES ASSUME NEW i \in 1..Len(v) PROVE v[i] = u[i]
        OBVIOUS
    <3>1. i \in 1..n /\ i \in 1..(k - o)
      BY <2>0, <2>5
    <3> QED BY <1>7, <2>4, <2>5, <3>1
  <2>7. v = u
    BY <2>4, <2>5, <2>6, SeqEqual DEF Texts
  <2>8. SubSeq(rest, 1, n) = v
    BY <2>3 DEF Between
  <2>9. ~Accepts(Reached(u))
    BY <1>4, <2>1, <2>2 DEF NonePast
  <2>10. ~Matches(r, u)
    BY <2>4, <2>9, RulesAre
  <2> QED BY <2>7, <2>8, <2>10
<1>9. rest = SubSeq(b, o + 1, Len(b))
  BY <1>1, <1>6 DEF Between
<1> QED BY <1>2, <1>5, <1>8, <1>9

\* What was read is a text.
LEMMA InputIs == ASSUME Types PROVE input \in Texts
<1>1. input \in Seq(Chars)
  BY DEF Types, TypeOK
<1>2. PICK n \in Nat : n = Len(input) /\ input \in [1..n -> Chars]
  BY <1>1, LenProperties
<1>3. input \in [1..n -> 0..19]
  BY <1>2, ScannerAssumption
<1> QED BY <1>3 DEF Texts

\* The character that stops the automaton (lex.yy.c:728-752).
LEMMA MatchCharSees == ASSUME IInv, IInv', MatchChar PROVE Seen'
<1>1. Types /\ Conserved /\ Matching /\ Types' /\ Finding'
  BY DEF IInv
<1>2. /\ pc = "match" /\ pc' \in {"match", "find"}
      /\ ch_buf' = ch_buf /\ yytext' = yytext /\ cp' = cp + 1
      /\ last' = (IF Accepts(state) THEN [state |-> state, cpos |-> cp] ELSE last)
      /\ pc' = (IF At(yy_base, state') = JamBase THEN "find" ELSE "match")
      /\ Whole = ch_buf
  BY DEF MatchChar, Whole, buffer
<1>3. PICK n \in Nat : n = yy_n_chars
  BY <1>1, WholeIs
<1>4. PICK b \in Texts : b = ch_buf /\ Len(b) = n + 2 /\ At(b, n) = 0
  BY <1>1, <1>2, <1>3, WholeIs DEF Conserved, EOB
<1>5. PICK y \in Nat : y = yytext
  BY <1>1, WholeIs
<1>6. PICK p \in Nat : p = cp /\ y <= p /\ p <= n + 1
  <2>1. cp \in Nat /\ cp <= n + 1
    BY <1>1, <1>2, <1>3 DEF Types, TypeOK
  <2>2. cp >= y
    BY <1>1, <1>2, <1>5 DEF Matching
  <2> QED BY <2>1, <2>2
<1>7. PICK s \in 1..21 : s = state
  BY <1>1 DEF Types, TypeOK, Jam
<1>8. s # 3 => p <= n /\ s = Reached(Between(b, y, p))
  BY <1>1, <1>2, <1>3, <1>4, <1>5, <1>6, <1>7 DEF Matching
<1>9. PICK c \in 0..19 : c = At(b, p)
  <2>1. p < Len(b)
    BY <1>4, <1>6
  <2> QED BY <1>4, <2>1, AtType
<1>10. state' = NextState[s][c]
  BY <1>4, <1>6, <1>7, <1>9 DEF MatchChar
<1>11. yy_n_chars' = n
  BY <1>2, <1>3 DEF yy_n_chars
<1> SUFFICES ASSUME pc' = "find", Accepts(state') \/ last'.state # 3
             PROVE  /\ NonePast(b, y, IF Accepts(state') THEN p + 1 ELSE last'.cpos, n)
                    /\ Over(b, y, n)
    BY <1>2, <1>4, <1>5, <1>6, <1>11 DEF Seen
<1>12. s # 3
  <2> SUFFICES ASSUME s = 3 PROVE FALSE
      OBVIOUS
  <2>1. state' = 21
    BY <1>10, Automaton
  <2>2. Accepts(3) /\ ~Accepts(21)
    BY Accepting
  <2>3. last'.state = 3
    BY <1>2, <1>7, <2>2
  <2> QED BY <2>1, <2>2, <2>3
<1>13. PICK r \in 1..21 : r = state'
  BY <1>7, <1>10, Automaton
<1>14. c # 0
  <2> SUFFICES ASSUME c = 0 PROVE FALSE
      OBVIOUS
  <2>1. r = 3
    BY <1>10, <1>12, <1>13, Automaton
  <2> QED BY <1>2, <1>13, <2>1, JamsAt
<1>15. p < n
  BY <1>4, <1>6, <1>8, <1>9, <1>12, <1>14
<1>16. PICK m \in Nat : m = p + 1 /\ y <= m /\ m <= n
  BY <1>6, <1>15
<1>17. r = Reached(Between(b, y, m))
  <2>1. PICK t \in Texts : t = Between(b, y, p)
    <3>1. p <= Len(b)
      BY <1>4, <1>15
    <3> QED BY <1>6, <3>1, BetweenStep
  <2>2. Between(b, y, p + 1) = Append(Between(b, y, p), At(b, p))
    <3>1. p <= Len(b) /\ p < Len(b)
      BY <1>4, <1>15
    <3> QED BY <1>6, <3>1, BetweenStep
  <2>3. Class(c) = c
    BY <1>14 DEF Class, NUL
  <2>4. Reached(Append(t, c)) = NextState[Reached(t)][Class(c)]
    BY ReachedStep
  <2> QED BY <1>8, <1>9, <1>10, <1>12, <1>13, <1>16, <2>1, <2>2, <2>3, <2>4
<1>18. Over(b, y, m)
  <2>1. At(yy_base, r) = JamBase
    BY <1>2, <1>13
  <2>2. Jams(r)
    BY <2>1, JamsAt DEF Jams
  <2> QED BY <1>17, <2>2 DEF Over
<1>19. PICK l : l = last'
  OBVIOUS
<1>20. ~Accepts(r) => Noted(b, y, m, l)
  BY <1>1, <1>2, <1>4, <1>5, <1>6, <1>13, <1>16, <1>19 DEF Finding
<1>21. PICK e \in Nat : e = IF Accepts(r) THEN m ELSE l.cpos
  BY <1>1, <1>19 DEF Types, TypeOK
<1>22. NonePast(b, y, e, m)
  <2>1. ~Accepts(Reached(Between(b, y, m))) => Noted(b, y, m, l)
    BY <1>17, <1>20
  <2>2. NonePast(b, y, IF Accepts(Reached(Between(b, y, m))) THEN m ELSE l.cpos, m)
    BY <2>1, EndsThere
  <2> QED BY <1>17, <1>21, <2>2
<1>23. NonePast(b, y, e, n) /\ Over(b, y, n)
  <2>1. n <= Len(b)
    BY <1>4
  <2> QED BY <1>16, <1>18, <1>22, <2>1, JamsOn
<1> QED BY <1>13, <1>16, <1>19, <1>21, <1>23

\* The end found is the end of the text (lex.yy.c:744-756).
LEMMA FindActionSees == ASSUME IInv, IInv', Seen, FindAction PROVE Seen'
<1>1. Types /\ Types'
  BY DEF IInv
<1> DEFINE e0 == IF ~Accepts(state) THEN last.cpos ELSE cp
           f0 == IF ~Accepts(state) THEN last.state ELSE state
<1>2. PICK n \in Nat : n = yy_n_chars
  BY <1>1, WholeIs
<1>3. PICK b \in Texts : b = ch_buf /\ Len(b) = n + 2
  BY <1>1, <1>2, WholeIs
<1>4. PICK end \in Nat : end = e0
  BY <1>1 DEF Types, TypeOK, FindAction
<1>5. PICK final \in 1..21 : final = f0
  BY <1>1 DEF Types, TypeOK, Jam
<1>6. /\ pc = "find" /\ pc' = "action" /\ ch_buf' = Write(b, end, NUL) /\ hold' = At(b, end)
      /\ c_buf_p' = end /\ cp' = end /\ act' = At(yy_accept, final)
      /\ yytext' = yytext /\ status' = status
  BY <1>3, <1>4, <1>5 DEF FindAction
<1>7. end < Len(b) /\ At(b, end) \in 0..19
  <2>1. end \in 0..(yy_n_chars' + 1) /\ Len(ch_buf') = yy_n_chars' + 2 /\ yy_n_chars' \in Nat
    <3>1. c_buf_p' \in 0..(yy_n_chars' + 1)
      BY <1>1 DEF Types, TypeOK
    <3>2. (Len(ch_buf) = yy_n_chars + 2 /\ yy_n_chars \in Nat)'
      <4>1. Len(ch_buf') \in Nat /\ Len(ch_buf') >= 2
        BY <1>1 DEF Types, TypeOK
      <4> QED BY <4>1 DEF yy_n_chars
    <3> QED BY <1>6, <3>1, <3>2
  <2>2. Len(ch_buf') = Len(b)
    <3>1. DOMAIN ch_buf' = DOMAIN b
      BY <1>6 DEF Write
    <3>2. DOMAIN b = 1..Len(b) /\ Len(b) \in Nat
      BY TextIs
    <3>3. DOMAIN ch_buf' = 1..Len(ch_buf') /\ Len(ch_buf') \in Nat
      BY <1>1 DEF Types, TypeOK
    <3>4. \A i, k \in Nat : 1..i = 1..k => i = k
      <4> SUFFICES ASSUME NEW i \in Nat, NEW k \in Nat, 1..i = 1..k PROVE i = k
          OBVIOUS
      <4>1. i # 0 => i \in 1..k
        OBVIOUS
      <4>2. k # 0 => k \in 1..i
        OBVIOUS
      <4> QED BY <4>1, <4>2
    <3>5. PICK i \in Nat : i = Len(ch_buf')
      BY <3>3
    <3>6. PICK k \in Nat : k = Len(b)
      BY <3>2
    <3>7. 1..i = 1..k
      BY <3>1, <3>2, <3>3, <3>5, <3>6
    <3> QED BY <3>4, <3>5, <3>6, <3>7
  <2>3. PICK z \in Nat : z = yy_n_chars'
    BY <2>1
  <2>4. end < Len(b)
    <3>1. PICK k \in Nat : k = Len(b)
      BY TextIs
    <3>2. end \in 0..(z + 1) /\ Len(ch_buf') = z + 2
      BY <2>1, <2>3
    <3>3. k = z + 2
      BY <2>2, <3>1, <3>2
    <3>4. end < k
      BY <3>2, <3>3
    <3> QED BY <3>1, <3>4
  <2> QED BY <2>4, AtType
<1>8. ch_buf' \in Texts /\ Len(ch_buf') = n + 2 /\ Write(ch_buf', end, hold') = b
  BY <1>3, <1>6, <1>7, WriteIs DEF NUL
<1>9. yy_n_chars' = n /\ Whole' = b
  BY <1>2, <1>6, <1>8 DEF yy_n_chars, Whole
<1> SUFFICES ASSUME final # 3
             PROVE  /\ NonePast(b, yytext, end, n)
                    /\ Over(b, yytext, n) \/ status = "pending"
    BY <1>6, <1>9, Rules DEF Seen, YY_END_OF_BUFFER
<1>10. Accepts(state) \/ last.state # 3
  BY <1>5
<1>11. end = IF Accepts(state) THEN cp ELSE last.cpos
  BY <1>4
<1> QED BY <1>2, <1>3, <1>6, <1>10, <1>11 DEF Seen

\* The NUL the text cannot go on with (lex.yy.c:860-906, 1127-1148).
LEMMA RealNulSees == ASSUME IInv, IInv', RealNul PROVE Seen'
<1>1. Types /\ Conserved /\ Acting /\ Types' /\ Finding'
  BY DEF IInv
<1>2. PICK n \in Nat : n = yy_n_chars
  BY <1>1, WholeIs
<1>3. PICK b \in Texts : b = Whole /\ Len(b) = n + 2
  BY <1>1, <1>2, WholeIs
<1>4. PICK y \in Nat : y = yytext
  BY <1>1, WholeIs
<1>5. /\ pc = "action" /\ act = 10 /\ c_buf_p <= n /\ cp = c_buf_p /\ cp > y /\ state = 3
  <2>1. pc = "action" /\ act = 10 /\ c_buf_p <= n
    BY <1>2, <1>4 DEF RealNul, AtEnd, YY_END_OF_BUFFER
  <2>2. cp = c_buf_p /\ cp > y /\ act = At(yy_accept, state)
    BY <1>1, <1>4, <2>1 DEF Acting
  <2>3. state \in 1..21
    BY <1>1 DEF Types, TypeOK, Jam
  <2> QED BY <2>1, <2>2, <2>3, Rules
<1>6. PICK p \in Nat : p = cp - 1 /\ y <= p /\ p < n /\ At(b, p) = NUL
  <2>1. cp - 1 \in y..n /\ At(b, cp - 1) = NUL
    BY <1>1, <1>2, <1>3, <1>4, <1>5 DEF Acting, NulAt
  <2>2. c_buf_p \in Nat
    BY <1>1, WholeIs
  <2> QED BY <1>5, <2>1, <2>2
<1>7. p < Len(b) /\ p <= Len(b)
  BY <1>3, <1>6
<1>8. PICK t \in Texts : t = Between(b, y, p)
  BY <1>6, <1>7, BetweenStep
<1>9. PICK s \in 1..21 : s = Reached(t)
  BY ReachedStep
<1>10. Rescan(b, y, p).state = s
  BY <1>6, <1>7, <1>8, <1>9, RescanIs
<1>11. Write(ch_buf, cp, hold) = b
  BY <1>3, <1>5 DEF Whole
<1>12. /\ ch_buf' = b /\ yytext' = y
       /\ pc' = "find" => NextState[s][1] = 21 /\ cp' = p /\ state' = s
       /\ pc' \in {"find", "match"}
  BY <1>4, <1>6, <1>10, <1>11 DEF RealNul, Jam
<1>13. yy_n_chars' = n
  BY <1>3, <1>12 DEF yy_n_chars
<1>14. PICK l : l = last'
  OBVIOUS
<1> SUFFICES ASSUME pc' = "find", Accepts(s) \/ l.state # 3
             PROVE  /\ NonePast(b, y, IF Accepts(s) THEN p ELSE l.cpos, n)
                    /\ Over(b, y, n)
    BY <1>12, <1>13, <1>14 DEF Seen
<1>15. PICK m \in Nat : m = p + 1 /\ y <= m /\ m <= n /\ m <= Len(b)
  BY <1>3, <1>6
<1>16. Reached(Between(b, y, m)) = 21
  <2>1. Between(b, y, p + 1) = Append(Between(b, y, p), At(b, p))
    BY <1>6, <1>7, BetweenStep
  <2>2. Reached(Append(t, 0)) = NextState[Reached(t)][Class(0)]
    BY ReachedStep
  <2>3. Class(0) = 1
    BY DEF Class, NUL
  <2> QED BY <1>6, <1>8, <1>9, <1>12, <1>15, <2>1, <2>2, <2>3 DEF NUL
<1>17. Over(b, y, m)
  BY <1>16 DEF Over, Jams
<1>18. ~Accepts(s) => Noted(b, y, p, l)
  BY <1>1, <1>12, <1>14 DEF Finding
<1>19. PICK e \in Nat : e = IF Accepts(s) THEN p ELSE l.cpos
  BY <1>1, <1>14 DEF Types, TypeOK
<1>20. NonePast(b, y, e, p)
  <2>1. ~Accepts(Reached(Between(b, y, p))) => Noted(b, y, p, l)
    BY <1>8, <1>9, <1>18
  <2>2. NonePast(b, y, IF Accepts(Reached(Between(b, y, p))) THEN p ELSE l.cpos, p)
    BY <2>1, EndsThere
  <2> QED BY <1>8, <1>9, <1>19, <2>2
<1>21. NonePast(b, y, e, m)
  <2> SUFFICES ASSUME NEW q \in (e + 1)..m PROVE ~Accepts(Reached(Between(b, y, q)))
      BY DEF NonePast
  <2>1. CASE q = m
    BY <1>16, <2>1, Accepting
  <2>2. CASE q # m
    <3>1. q \in (e + 1)..p
      BY <1>15, <2>2
    <3> QED BY <1>20, <3>1 DEF NonePast
  <2> QED BY <2>1, <2>2
<1>22. NonePast(b, y, e, n) /\ Over(b, y, n)
  <2>1. n <= Len(b)
    BY <1>3
  <2> QED BY <1>15, <1>17, <1>21, <2>1, JamsOn
<1> QED BY <1>19, <1>22

\* The end of the file inside a lexeme (lex.yy.c:939-944).
LEMMA LastMatchSees == ASSUME IInv, IInv', LastMatch PROVE Seen'
<1>1. Types /\ Types' /\ Finding'
  BY DEF IInv
<1>2. PICK m \in Texts : m = Moved
  BY MovedIs DEF LastMatch
<1>3. PICK k \in Nat : k = Len(m)
  BY TextIs
<1>4. PICK b : b = m \o <<EOB, EOB>>
  OBVIOUS
<1>5. b \in Texts /\ Len(b) = k + 2
  BY <1>3, <1>4, Filled
<1>6. PICK r : r = Rescan(b, 0, k)
  OBVIOUS
<1>7. /\ pc' = "find" /\ ch_buf' = b /\ status' = "pending"
      /\ yytext' = 0 /\ cp' = k /\ state' = r.state
  <2>1. ch_buf' = b /\ cp' = k
    BY <1>2, <1>3, <1>4 DEF LastMatch
  <2>2. state' = Rescan(ch_buf', 0, Len(Moved)).state
    BY DEF LastMatch
  <2>3. state' = r.state
    BY <1>2, <1>3, <1>6, <2>1, <2>2
  <2> QED BY <2>1, <2>3 DEF LastMatch
<1>8. PICK s : s = state' /\ s = Reached(Between(b, 0, k))
  <2>1. k <= Len(b)
    BY <1>5
  <2> QED BY <1>1, <1>5, <1>6, <1>7, <2>1, Restarted
<1>9. yy_n_chars' = k
  BY <1>5, <1>7 DEF yy_n_chars
<1>10. PICK l : l = last'
  OBVIOUS
<1> SUFFICES ASSUME Accepts(s) \/ l.state # 3
             PROVE  NonePast(b, 0, IF Accepts(s) THEN k ELSE l.cpos, k)
    BY <1>7, <1>8, <1>9, <1>10 DEF Seen
<1>11. ~Accepts(s) => Noted(b, 0, k, l)
  BY <1>1, <1>7, <1>8, <1>10 DEF Finding
<1>12. ~Accepts(Reached(Between(b, 0, k))) => Noted(b, 0, k, l)
  BY <1>8, <1>11
<1>13. 0 \in Nat
  OBVIOUS
<1> QED BY <1>8, <1>12, <1>13, EndsThere

\* No other step stops the automaton.
LEMMA SeenKeeps == ASSUME IInv, IInv', Seen, [Next]_vars PROVE Seen'
<1>1. CASE UNCHANGED vars
  BY <1>1 DEF vars, Seen, Whole, yy_n_chars
<1>2. CASE NextLexeme \/ DoAction \/ EndOfFile \/ ContinueScan \/ ReadFails
  <2>1. pc' \notin {"find", "action"}
    BY <1>2 DEF NextLexeme, DoAction, EndOfFile, ContinueScan, ReadFails
  <2> QED BY <2>1 DEF Seen
<1>3. CASE Stopped
  BY <1>3 DEF Stopped, vars, Seen, Whole, yy_n_chars
<1> QED BY <1>1, <1>2, <1>3, MatchCharSees, FindActionSees, RealNulSees, LastMatchSees
        DEF Next, Step

\* What was matched before a lexeme does not change when one is added.
LEMMA OffsetKeeps ==
  ASSUME NEW ls \in Seq(Lexeme), NEW l \in Lexeme
  PROVE  /\ \A j \in 1..Len(ls) : Offset(Append(ls, l), j) = Offset(ls, j)
         /\ Offset(Append(ls, l), Len(ls) + 1) = Len(Joined(ls))
         /\ \A j \in 1..Len(ls) : Offset(ls, j) \in Nat
<1>1. PICK n \in Nat : n = Len(ls)
  OBVIOUS
<1>2. PICK ms : ms = Append(ls, l)
  OBVIOUS
<1>3. ms \in Seq(Lexeme) /\ Len(ms) = n + 1 /\ \A i \in 1..n : ms[i] = ls[i]
  BY <1>1, <1>2, AppendProperties
<1>4. ASSUME NEW j \in 1..(n + 1)
      PROVE  SubSeq(ms, 1, j - 1) = SubSeq(ls, 1, j - 1)
  <2>1. PICK k \in Nat : k = j - 1 /\ k <= n
    OBVIOUS
  <2>2. PICK u : u = SubSeq(ms, 1, k)
    OBVIOUS
  <2>3. PICK v : v = SubSeq(ls, 1, k)
    OBVIOUS
  <2>4. /\ u \in Seq(Lexeme) /\ Len(u) = k /\ \A i \in 1..k : u[i] = ms[i]
        /\ v \in Seq(Lexeme) /\ Len(v) = k /\ \A i \in 1..k : v[i] = ls[i]
    BY <1>1, <1>3, <2>1, <2>2, <2>3
  <2>5. u = v
    BY <1>3, <2>1, <2>4, SeqEqual
  <2> QED BY <2>1, <2>2, <2>3, <2>5
<1>5. ASSUME NEW j \in 1..n PROVE Offset(ms, j) = Offset(ls, j)
  <2>1. j \in 1..(n + 1)
    OBVIOUS
  <2>2. SubSeq(ms, 1, j - 1) = SubSeq(ls, 1, j - 1)
    BY <1>4, <2>1
  <2> QED BY <2>2 DEF Offset
<1>6. SubSeq(ls, 1, n) = ls
  BY <1>1
<1>7. Offset(ms, n + 1) = Len(Joined(ls))
  <2>1. (n + 1) - 1 = n /\ n + 1 \in 1..(n + 1)
    OBVIOUS
  <2>2. SubSeq(ms, 1, (n + 1) - 1) = ls
    BY <1>4, <1>6, <2>1
  <2> QED BY <2>2 DEF Offset
<1>8. ASSUME NEW j \in 1..n PROVE Offset(ls, j) \in Nat
  <2>1. SubSeq(ls, 1, j - 1) \in Seq(Lexeme)
    BY <1>1
  <2>2. Joined(SubSeq(ls, 1, j - 1)) \in Texts
    BY <2>1, Joins
  <2> QED BY <2>2, TextIs DEF Offset
<1> QED BY <1>1, <1>2, <1>5, <1>7, <1>8

\* The lexeme a rule runs for (lex.yy.c:760-949).
LEMMA DoActionSettles ==
  ASSUME IInv, Seen, Settled, DoAction
  PROVE  Settled'
<1>1. Types /\ Conserved /\ Acting /\ IInv
  BY DEF IInv
<1>2. PICK n \in Nat : n = yy_n_chars
  BY <1>1, WholeIs
<1>3. PICK b \in Texts : b = Whole /\ Len(b) = n + 2
  BY <1>1, <1>2, WholeIs
<1>4. PICK y \in Nat : y = yytext
  BY <1>1, WholeIs
<1>5. /\ pc = "action" /\ pc' \in {"returned", "loop"} /\ act # 10
      /\ input' = input /\ status' = status /\ Begin = y
  BY <1>4 DEF DoAction, YY_END_OF_BUFFER, file, buffer, Begin
<1>6. /\ state \in 1..21 /\ act = At(yy_accept, state) /\ cp = c_buf_p /\ cp > y
      /\ state # 3 /\ cp <= n /\ Accepts(state) /\ cp \in Nat
      /\ state = Reached(Between(b, y, cp)) /\ act \in 1..9
  <2>1. state \in 1..21 /\ act = At(yy_accept, state) /\ cp = c_buf_p /\ cp > y
        /\ cp \in Nat
    BY <1>1, <1>4, <1>5, WholeIs DEF Acting, Types, TypeOK, Jam
  <2>2. state # 3
    BY <1>5, <2>1, Rules
  <2>3. cp <= n /\ Accepts(state) /\ state = Reached(Between(b, y, cp))
    BY <1>1, <1>2, <1>3, <1>4, <1>5, <2>2 DEF Acting
  <2>4. act # 0
    BY <2>1, <2>3 DEF Accepts
  <2> QED BY <1>5, <2>1, <2>2, <2>3, <2>4, Rules
<1>7. PICK e \in Nat : e = cp /\ y <= e /\ e <= n /\ n <= Len(b) /\ e <= Len(b)
  BY <1>3, <1>6
<1>8. PICK t \in Texts : t = Between(b, y, e)
  BY <1>7, BetweenStep
<1>9. t = Text(yytext, cp)
  <2>1. PICK a \in Texts : a = ch_buf
    BY <1>1, WholeIs
  <2>2. PICK h \in 0..19 : h = hold
    BY <1>1 DEF Types, TypeOK
  <2>3. b = Write(a, e, h) /\ e < Len(a) /\ e <= e
    BY <1>1, <1>2, <1>3, <1>5, <1>6, <1>7, <2>1, <2>2, WholeIs DEF Whole
  <2>4. Between(Write(a, e, h), y, e) = Between(a, y, e)
    BY <2>3, WriteBehind
  <2> QED BY <1>4, <1>7, <1>8, <2>1, <2>3, <2>4 DEF Between, Text
<1>10. PICK l \in Lexeme : l = [rule |-> act, text |-> t, line |-> yylineno]
  BY <1>1, <1>6 DEF Lexeme, Types, TypeOK
<1>11. PICK ls \in Seq(Lexeme) : ls = lexemes /\ lexemes' = Append(ls, l)
  BY <1>1, <1>9, <1>10 DEF DoAction, Types
<1>12. PICK j \in Texts : j = Joined(ls)
  BY Joins
<1>13. PICK c \in Texts : c = input /\ c = j \o Between(b, y, n)
  <2>1. j \o Between(b, y, n) = input
    BY <1>1, <1>2, <1>3, <1>4, <1>5, <1>11, <1>12 DEF Conserved
  <2> QED BY <1>1, <2>1, InputIs
<1>14. NonePast(b, y, e, n) /\ (Over(b, y, n) \/ status = "pending")
  BY <1>2, <1>3, <1>4, <1>5, <1>7 DEF Seen, YY_END_OF_BUFFER
<1>15. /\ Placed(c, Len(j), l)
       /\ Over(c, Len(j), Len(c)) \/ status = "pending"
  <2>1. Accepts(Reached(Between(b, y, e)))
    BY <1>6, <1>7
  <2>2. l.text = Between(b, y, e) /\ l.rule = RuleOf(l.text)
    BY <1>6, <1>7, <1>8, <1>10 DEF RuleOf
  <2>3. /\ \A k \in Lexeme : k.text = Between(b, y, e) /\ k.rule = RuleOf(k.text)
                             => Placed(j \o Between(b, y, n), Len(j), k)
        /\ Over(b, y, n) => Over(j \o Between(b, y, n), Len(j), Len(j \o Between(b, y, n)))
    BY <1>7, <1>14, <2>1, PlacedFrom
  <2>4. Placed(j \o Between(b, y, n), Len(j), l)
    BY <2>2, <2>3
  <2> QED BY <1>13, <1>14, <2>3, <2>4
<1>16. PICK k \in Nat : k = Len(ls)
  OBVIOUS
<1>17. PICK ms : ms = Append(ls, l)
  OBVIOUS
<1>18. /\ DOMAIN ms = 1..(k + 1) /\ ms[k + 1] = l
       /\ \A i \in 1..k : ms[i] = ls[i] /\ Offset(ms, i) = Offset(ls, i)
       /\ Offset(ms, k + 1) = Len(j)
  BY <1>12, <1>16, <1>17, AppendProperties, OffsetKeeps
<1>19. NoMore' <=> NoMore
  BY <1>5 DEF NoMore
<1>20. \A i \in 1..k : /\ Placed(c, Offset(ls, i), ls[i])
                       /\ Over(c, Offset(ls, i), Len(c)) \/ NoMore
  <2>1. DOMAIN lexemes = 1..k
    BY <1>11, <1>16
  <2>2. \A i \in 1..k : /\ Placed(input, Offset(lexemes, i), lexemes[i])
                        /\ Over(input, Offset(lexemes, i), Len(input)) \/ NoMore
    BY <2>1 DEF Settled
  <2> QED BY <1>11, <1>13, <2>2
<1>21. ASSUME NEW i \in 1..(k + 1)
       PROVE  /\ Placed(c, Offset(ms, i), ms[i])
              /\ Over(c, Offset(ms, i), Len(c)) \/ NoMore
  <2>1. CASE i = k + 1
    BY <1>15, <1>18, <2>1 DEF NoMore
  <2>2. CASE i # k + 1
    <3>1. i \in 1..k
      BY <2>2
    <3> QED BY <1>18, <1>20, <3>1
  <2> QED BY <2>1, <2>2
<1>22. input' = c /\ lexemes' = ms
  BY <1>5, <1>11, <1>13, <1>17
<1> QED BY <1>18, <1>19, <1>21, <1>22 DEF Settled

\* More is read: a lexeme that was over is not reopened (lex.yy.c:946-953).
LEMMA ContinueScanSettles ==
  ASSUME IInv, Settled, ContinueScan
  PROVE  Settled'
<1>1. Types
  BY DEF IInv
<1>2. /\ lexemes' = lexemes /\ pc = "action" /\ status # "pending"
  BY DEF ContinueScan, AtEnd
<1>3. PICK room : room = NumToRead(Len(Moved))
  OBVIOUS
<1>4. PICK n \in 1..room : \E s \in [1..n -> Chars] :
         Delivers(s, room) /\ ch_buf' = Moved \o s \o <<EOB, EOB>>
  BY <1>3 DEF ContinueScan
<1>5. PICK s \in [1..n -> Chars] : Delivers(s, room)
  BY <1>4
<1>6. s \in Texts
  <2>1. PICK k \in Nat : k = Len(Moved)
    BY MovedIs, TextIs DEF ContinueScan
  <2>2. Grown(k) \in Nat \ {0}
    BY <1>1, GrownIs
  <2>3. YY_READ_BUF_SIZE \in Nat
    BY ScannerAssumption
  <2>4. room \in Int
    BY <1>3, <2>1, <2>2, <2>3 DEF NumToRead
  <2>5. n \in Nat
    BY <2>4
  <2>6. s \in [1..n -> 0..19]
    BY ScannerAssumption
  <2> QED BY <2>5, <2>6 DEF Texts
<1>7. input' = input \o s
  BY <1>5 DEF Delivers
<1>8. PICK b \in Texts : b = input
  BY <1>1, InputIs
<1>9. PICK ls \in Seq(Lexeme) : ls = lexemes
  BY <1>1 DEF Types
<1>10. PICK k \in Nat : k = Len(ls) /\ DOMAIN ls = 1..k
  BY <1>9
<1>11. ASSUME NEW i \in 1..k
       PROVE  /\ Placed(b \o s, Offset(ls, i), ls[i])
              /\ Over(b \o s, Offset(ls, i), Len(b \o s))
  <2>1. PICK l \in Lexeme : l = ls[i]
    BY <1>10
  <2>2. PICK o \in Nat : o = Offset(ls, i)
    BY <1>10, <2>1, OffsetKeeps
  <2>3. ~NoMore
    BY <1>2 DEF NoMore
  <2>4. Placed(b, o, l) /\ Over(b, o, Len(b))
    BY <1>8, <1>9, <1>10, <2>1, <2>2, <2>3 DEF Settled
  <2> QED BY <1>6, <2>1, <2>2, <2>4, PlacedGrows
<1>12. input' = b \o s /\ lexemes' = ls
  BY <1>2, <1>7, <1>8, <1>9
<1> QED BY <1>10, <1>11, <1>12 DEF Settled

\* No other step adds a lexeme or reads.
LEMMA SettledKeeps == ASSUME IInv, Seen, Settled, [Next]_vars PROVE Settled'
<1>1. ASSUME input' = input, lexemes' = lexemes, NoMore => NoMore' PROVE Settled'
  BY <1>1 DEF Settled
<1>2. CASE UNCHANGED vars
  BY <1>1, <1>2 DEF vars, NoMore
<1>3. CASE Stopped
  BY <1>1, <1>3 DEF Stopped, vars, NoMore
<1>4. CASE NextLexeme \/ MatchChar \/ FindAction
  <2>1. input' = input /\ lexemes' = lexemes /\ status' = status /\ pc # "eof"
    BY <1>4 DEF NextLexeme, MatchChar, FindAction, file, buffer
  <2> QED BY <1>1, <2>1 DEF NoMore
<1>5. CASE RealNul \/ ReadFails
  <2>1. input' = input /\ lexemes' = lexemes /\ pc # "eof"
        /\ (status = "pending" => status' = "pending")
    BY <1>5 DEF RealNul, ReadFails, AtEnd, file, buffer
  <2> QED BY <1>1, <2>1 DEF NoMore
<1>6. CASE EndOfFile \/ LastMatch
  <2>1. input' = input
    <3>1. Moved \in Texts /\ NothingRead
      BY <1>6, MovedIs DEF EndOfFile, LastMatch
    <3> QED BY <3>1, NothingReadIs DEF IInv
  <2>2. lexemes' = lexemes /\ (pc' = "eof" \/ status' = "pending")
    BY <1>6 DEF EndOfFile, LastMatch
  <2> QED BY <1>1, <2>1, <2>2 DEF NoMore
<1> QED BY <1>2, <1>3, <1>4, <1>5, <1>6, DoActionSettles, ContinueScanSettles
        DEF Next, Step

\* Each lexeme is the longest text some rule matches where it stands, and its
\* rule the first that matches it, however the reads cut the file
\* (lex.yy.c:722-752, 856-945, 963-1097; test.l:16-86).
THEOREM LongestMatch == Spec => []LongestThenFirst
<1>1. Init => Seen /\ Settled
  BY DEF Init, Seen, Settled
<1>2. ASSUME IInv, IInv', Seen, Settled, [Next]_vars PROVE Seen' /\ Settled'
  BY <1>2, SeenKeeps, SettledKeeps
<1>3. ASSUME IInv, Settled PROVE LongestThenFirst
  <2>1. Types
    BY <1>3 DEF IInv
  <2>2. PICK b \in Texts : b = input
    BY <2>1, InputIs
  <2>3. PICK ls \in Seq(Lexeme) : ls = lexemes
    BY <2>1 DEF Types
  <2>4. ASSUME NEW j \in DOMAIN ls
        PROVE  LET rest == SubSeq(b, Offset(ls, j) + 1, Len(b))
                   l == ls[j]
               IN  /\ Matches(l.rule, l.text)
                   /\ \A r \in 1..(l.rule - 1) : ~Matches(r, l.text)
                   /\ \A n \in (Len(l.text) + 1)..Len(rest), r \in 1..9 :
                        ~Matches(r, SubSeq(rest, 1, n))
    <3>1. j \in 1..Len(ls) /\ ls[j] \in Lexeme
      BY <2>4
    <3>2. PICK l \in Lexeme : l = ls[j]
      BY <3>1
    <3>3. PICK o \in Nat : o = Offset(ls, j)
      BY <3>1, <3>2, OffsetKeeps
    <3>4. Placed(b, o, l)
      BY <1>3, <2>2, <2>3, <3>2, <3>3 DEF Settled
    <3> QED BY <3>2, <3>3, <3>4, PlacedMeans
  <2> QED BY <2>2, <2>3, <2>4 DEF LongestThenFirst, Offset
<1> QED BY <1>1, <1>2, <1>3, Invariant, PTL DEF Spec
=============================================================================
