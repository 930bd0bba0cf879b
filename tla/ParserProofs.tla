----------------------------- MODULE ParserProofs -----------------------------
(***************************************************************************)
(* For any tokens and any two depths of the stacks yyparse keeps within    *)
(* what it allocated and reports every failure once.  The argument is the  *)
(* path property of LR automata: each state on the stack follows the one   *)
(* below it, so a reduction finds what it pops.  It decides the grammar's  *)
(* language, and the tree it builds reads back as the tokens; a node is    *)
(* owned by its parent or by the value stack, never by both.  With the     *)
(* lexemes of a file for tokens (FrontEnd), the parse ends at its first.   *)
(***************************************************************************)
EXTENDS FrontEnd, FiniteSetTheorems, SequenceTheorems, WellFoundedInduction, TLAPS

\* The states the tables let follow s on the stack (y.tab.c:637-677).
Follows(s) ==
  IF s = 0 THEN {1, 2}
  ELSE IF s = 1 THEN {3, 4, 5, 6, 7}
  ELSE IF s = 5 THEN {3, 4, 5, 9}
  ELSE IF s = 7 THEN 10..19
  ELSE IF s \in 10..19 THEN {3, 4, 5, s + 10}
  ELSE {}

Path(ss) ==
  /\ ss \in Seq(0..29) /\ ss # <<>>
  /\ ss[1] = 0
  /\ \A i \in 1..(Len(ss) - 1) : ss[i + 1] \in Follows(ss[i])

NodeTypes == {"bexpr", "rexpr", "cnst", "var", "uexpr"}
Names == {"add", "sub", "mul", "divide", "lt", "gt", "le", "ge", "eq", "neq", "uminus"}
Node == [type : NodeTypes, kids : Seq(Int)]

Types ==
  /\ input \in Seq(Tokens)
  /\ yychar \in Tokens \cup {YYEMPTY, YYEOF}
  /\ yystate \in 0..29 /\ yyn \in 0..18
  /\ yyss \in Seq(0..29) /\ yyvs \in Seq(Int)
  /\ yystacksize \in Nat \ {0} /\ yystacksize <= Max({YYINITDEPTH, YYMAXDEPTH})
  /\ nodes \in Seq(Node) /\ labels \in Seq(Names \cup Int)
  /\ Len(labels) = Len(nodes)

Stacks ==
  /\ pc = "yysetstate" =>
       /\ Path(Append(yyss, yystate))
       /\ Len(yyvs) = Len(yyss) + 1 /\ Len(yyss) < yystacksize
  /\ pc \in {"yybackup", "yyreduce", "yyerrlab", "yyerrlab1"} =>
       /\ Path(yyss) /\ yystate = Last(yyss)
       /\ Len(yyvs) = Len(yyss) /\ Len(yyss) < yystacksize
  /\ pc \in {"yyreturn", "done"} =>
       /\ Len(yyss) \in 1..yystacksize
       /\ Len(yyvs) = Len(yyss)
  /\ pc = "yyreduce" => yyn = At(yydefact, yystate) /\ yyn # 0

Reports ==
  \/ /\ pc \in {"yysetstate", "yybackup", "yyreduce", "yyerrlab"}
     /\ yyerrstatus = 0 /\ reports = 0 /\ yyresult = -1
  \/ pc = "yyerrlab1" /\ yyerrstatus = 3 /\ reports = 1 /\ yyresult = -1
  \/ /\ pc = "yyreturn" /\ yyerrstatus \in 0..3 /\ yyresult \in 0..2
     /\ reports = IF yyresult = 1 THEN 1 ELSE 0
  \/ /\ pc = "done" /\ yyerrstatus \in 0..3 /\ yyresult \in 0..2
     /\ reports = IF yyresult = 0 THEN 0 ELSE 1

IInv == Types /\ Stacks /\ Reports

-----------------------------------------------------------------------------

\* A shift pushes a state that follows (y.tab.c:1433-1465).
LEMMA ShiftFollows ==
  ASSUME yystate \in 0..29, HasEntry, At(yytable, Index) # YYFINAL
  PROVE  At(yytable, Index) \in Follows(yystate)
<1> DEFINE t == Translate(yychar)
<1>1. t \in 0..26
  BY DEF Translate, YYNTOKENS, YYUNDEFTOK
<1> HIDE DEF t
<1>2. At(yypact, yystate) # -5 /\ Index \in 0..35 /\ At(yycheck, Index) = t
      /\ Index = At(yypact, yystate) + t
  BY DEF HasEntry, Index, t, YYPACT_NINF, YYLAST
<1>3. yystate \in {0, 1, 2, 5, 7} \cup 10..19
  BY <1>2 DEF At, yypact
<1>4. CASE yystate = 0
  BY <1>1, <1>2, <1>4 DEF At, yypact, yycheck, yytable, Follows
<1>5. CASE yystate \in {1, 5}
  BY <1>1, <1>2, <1>5 DEF At, yypact, yycheck, yytable, Follows
<1>6. CASE yystate = 2
  BY <1>1, <1>2, <1>6 DEF At, yypact, yycheck, yytable, Follows, YYFINAL
<1>7. CASE yystate = 7
  BY <1>1, <1>2, <1>7 DEF At, yypact, yycheck, yytable, Follows
<1>8. CASE yystate \in 10..19
  <2>1. At(yypact, yystate) = -3
    BY <1>8 DEF At, yypact
  <2> QED
    BY <1>1, <1>2, <1>8, <2>1 DEF At, yycheck, yytable, Follows
<1> QED
  BY <1>3, <1>4, <1>5, <1>6, <1>7, <1>8

\* The goto tables for a state that has a term or more to come
\* (y.tab.c:1612-1621).
LEMMA Gotos ==
  /\ Goto(28, 0) = 2 /\ Goto(29, 1) = 6
  /\ Goto(30, 1) = 7 /\ Goto(30, 5) = 9
  /\ \A s \in 10..19 : Goto(30, s) = s + 10
<1>1. Goto(28, 0) = 2 /\ Goto(29, 1) = 6
  BY DEF Goto, At, yypgoto, yydefgoto, yycheck, yytable, YYNTOKENS, YYLAST
<1>2. Goto(30, 1) = 7 /\ Goto(30, 5) = 9
  BY DEF Goto, At, yypgoto, yydefgoto, yycheck, yytable, YYNTOKENS, YYLAST
<1>3. ASSUME NEW s \in 10..19 PROVE Goto(30, s) = s + 10
  <2>1. At(yypgoto, 3) = 6
    BY DEF At, yypgoto
  <2>2. At(yycheck, 6 + s) = s /\ At(yytable, 6 + s) = s + 10
    BY <1>3 DEF At, yycheck, yytable
  <2> QED
    BY <1>3, <2>1, <2>2 DEF Goto, YYNTOKENS, YYLAST
<1> QED
  BY <1>1, <1>2, <1>3

\* What a stack that follows the tables has under its top: the states a default
\* reduction pops, and a state to go on from (y.tab.c:613-640, 1468-1493).
LEMMA Reducible ==
  ASSUME NEW ss, Path(ss), At(yydefact, Last(ss)) # 0
  PROVE  LET rule == At(yydefact, Last(ss))
             yylen == At(yyr2, rule)
         IN  /\ rule \in 2..18 \ {15} /\ yylen \in 1..3
             /\ rule \in 4..13 => yylen = 3
             /\ rule = 18 => yylen = 2
             /\ rule \in {3, 14, 16, 17} => yylen = 1
             /\ yylen < Len(ss)
             /\ Goto(At(yyr1, rule), ss[Len(ss) - yylen]) \in Follows(ss[Len(ss) - yylen])
<1> DEFINE n == Len(ss)
           s == Last(ss)
           rule == At(yydefact, s)
           yylen == At(yyr2, rule)
           Pops(k) == /\ yylen = k /\ k < n
                      /\ Goto(At(yyr1, rule), ss[n - k]) \in Follows(ss[n - k])
<1>1. /\ ss \in Seq(0..29) /\ n \in Nat \ {0} /\ s = ss[n]
      /\ \A i \in 1..n : ss[i] \in 0..29
      /\ ss[1] = 0 /\ \A i \in 1..(n - 1) : ss[i + 1] \in Follows(ss[i])
  BY EmptySeq, LenProperties, ElementOfSeq DEF Path, Last
<1>0. At(yydefact, s) # 0 /\ s \in 0..29
  BY <1>1
<1>q. ASSUME \/ rule \in {3, 14, 16, 17} /\ Pops(1)
             \/ rule \in {2, 18} /\ Pops(2)
             \/ rule \in 4..13 /\ Pops(3)
      PROVE  /\ rule \in 2..18 \ {15} /\ yylen \in 1..3
             /\ rule \in 4..13 => yylen = 3
             /\ rule = 18 => yylen = 2
             /\ rule \in {3, 14, 16, 17} => yylen = 1
             /\ yylen < n
             /\ Goto(At(yyr1, rule), ss[n - yylen]) \in Follows(ss[n - yylen])
  <2> HIDE DEF rule, yylen, n
  <2> QED
    BY <1>q
<1> HIDE DEF n, s, rule, yylen
<1>2. s \in {1, 3, 4, 6, 7, 8, 9} \cup 20..29
  <2>1. \A u \in 0..29 : At(yydefact, u) # 0 =>
                         u \in {1, 3, 4, 6, 7, 8, 9} \cup 20..29
    BY DEF At, yydefact
  <2> QED
    BY <1>0, <2>1
<1>3. n > 1 /\ n - 1 \in 1..n /\ s \in Follows(ss[n - 1]) /\ ss[n - 1] \in 0..29
  <2>1. n # 1
    BY <1>1, <1>2
  <2>2. n - 1 \in 1..(n - 1) /\ (n - 1) + 1 = n
    BY <1>1, <2>1
  <2>3. n - 1 \in 1..n
    BY <2>2, <1>1
  <2>4. s \in Follows(ss[n - 1]) /\ ss[n - 1] \in 0..29
    BY <1>1, <2>2, <2>3
  <2> QED
    BY <1>1, <2>1, <2>3, <2>4
<1>4. ASSUME s = 1
      PROVE  rule \in {3, 14, 16, 17} /\ Pops(1)
  <2>1. ss[n - 1] = 0
    BY <1>3, <1>4 DEF Follows
  <2>2. rule = 3 /\ yylen = 1 /\ At(yyr1, 3) = 28
    BY <1>4 DEF rule, yylen, At, yydefact, yyr1, yyr2
  <2> QED
    BY <2>1, <2>2, <1>3, Gotos DEF Follows
<1>5. ASSUME s \in {3, 4}
      PROVE  rule \in {3, 14, 16, 17} /\ Pops(1)
  <2>1. ss[n - 1] \in {1, 5} \cup 10..19
    BY <1>3, <1>5 DEF Follows
  <2>2. rule \in {16, 17} /\ yylen = 1 /\ At(yyr1, rule) = 30
    BY <1>5 DEF rule, yylen, At, yydefact, yyr1, yyr2
  <2>3. Goto(30, ss[n - 1]) \in Follows(ss[n - 1])
    BY <2>1, Gotos DEF Follows
  <2> QED
    BY <2>2, <2>3, <1>3
<1>6. ASSUME s = 6
      PROVE  rule \in {2, 18} /\ Pops(2)
  <2>1. ss[n - 1] = 1
    BY <1>3, <1>6 DEF Follows
  <2>2. n > 2 /\ ss[n - 1] \in Follows(ss[n - 2]) /\ ss[n - 2] \in 0..29
    BY <1>1, <1>3, <2>1
  <2>3. ss[n - 2] = 0
    BY <2>1, <2>2 DEF Follows
  <2>4. rule = 2 /\ yylen = 2 /\ At(yyr1, 2) = 28
    BY <1>6 DEF rule, yylen, At, yydefact, yyr1, yyr2
  <2> QED
    BY <2>2, <2>3, <2>4, Gotos DEF Follows
<1>7. ASSUME s = 7
      PROVE  rule \in {3, 14, 16, 17} /\ Pops(1)
  <2>1. ss[n - 1] = 1
    BY <1>3, <1>7 DEF Follows
  <2>2. rule = 14 /\ yylen = 1 /\ At(yyr1, 14) = 29
    BY <1>7 DEF rule, yylen, At, yydefact, yyr1, yyr2
  <2> QED
    BY <2>1, <2>2, <1>3, Gotos DEF Follows
<1>8. ASSUME s = 9
      PROVE  rule \in {2, 18} /\ Pops(2)
  <2>1. ss[n - 1] = 5
    BY <1>3, <1>8 DEF Follows
  <2>2. n > 2 /\ ss[n - 1] \in Follows(ss[n - 2]) /\ ss[n - 2] \in 0..29
    BY <1>1, <1>3, <2>1
  <2>3. ss[n - 2] \in {1, 5} \cup 10..19
    BY <2>1, <2>2 DEF Follows
  <2>4. rule = 18 /\ yylen = 2 /\ At(yyr1, 18) = 30
    BY <1>8 DEF rule, yylen, At, yydefact, yyr1, yyr2
  <2>5. Goto(30, ss[n - 2]) \in Follows(ss[n - 2])
    BY <2>3, Gotos DEF Follows
  <2> QED
    BY <2>2, <2>4, <2>5
<1>9. ASSUME s \in 20..29
      PROVE  rule \in 4..13 /\ Pops(3)
  <2>1. ss[n - 1] \in 10..19
    BY <1>3, <1>9 DEF Follows
  <2>2. n > 2 /\ ss[n - 1] \in Follows(ss[n - 2]) /\ ss[n - 2] \in 0..29
    BY <1>1, <1>3, <2>1
  <2>3. ss[n - 2] = 7
    BY <2>1, <2>2 DEF Follows
  <2>4. n > 3 /\ ss[n - 2] \in Follows(ss[n - 3]) /\ ss[n - 3] \in 0..29
    BY <1>1, <2>2, <2>3
  <2>5. ss[n - 3] = 1
    BY <2>3, <2>4 DEF Follows
  <2>6. rule \in 4..13 /\ yylen = 3 /\ At(yyr1, rule) = 29
    BY <1>9 DEF rule, yylen, At, yydefact, yyr1, yyr2
  <2> QED
    BY <2>4, <2>5, <2>6, Gotos DEF Follows
<1>e. s # 8
  BY <1>3 DEF Follows
<1>10. \/ rule \in {3, 14, 16, 17} /\ Pops(1)
       \/ rule \in {2, 18} /\ Pops(2)
       \/ rule \in 4..13 /\ Pops(3)
  BY <1>2, <1>e, <1>4, <1>5, <1>6, <1>7, <1>8, <1>9
<1> QED
  BY <1>q, <1>10 DEF n, s, rule, yylen

\* What is left of a stack after popping, and after pushing a state that
\* follows, is a path again (y.tab.c:1607-1623, 1743-1745).
LEMMA PopPath ==
  ASSUME NEW ss, Path(ss), NEW m \in 1..Len(ss),
         NEW below, below = SubSeq(ss, 1, m)
  PROVE  Path(below) /\ Len(below) = m /\ Last(below) = ss[m]
<1>1. ss \in Seq(0..29) /\ Len(ss) \in Nat /\ m <= Len(ss)
  BY LenProperties DEF Path
<1>2. below \in Seq(0..29) /\ Len(below) = m /\ \A i \in 1..m : below[i] = ss[i]
  <2>1. ASSUME NEW i \in 1..m PROVE ss[i] \in 0..29
    <3>1. i \in 1..Len(ss)
      BY <1>1
    <3> QED
      BY <1>1, <3>1, ElementOfSeq
  <2> QED
    BY <1>1, <2>1, SubSeqProperties
<1>3. ASSUME NEW i \in 1..(m - 1) PROVE below[i + 1] \in Follows(below[i])
  <2>1. i \in 1..(Len(ss) - 1) /\ i \in 1..m /\ i + 1 \in 1..m
    BY <1>1
  <2> QED
    BY <1>2, <2>1 DEF Path
<1>4. below[1] = 0 /\ below[m] = ss[m] /\ below # <<>>
  <2>1. 1 \in 1..m /\ m \in 1..m /\ ss[1] = 0
    BY <1>1 DEF Path
  <2> QED
    BY <1>1, <1>2, <2>1, EmptySeq
<1> QED
  BY <1>2, <1>3, <1>4 DEF Path, Last

\* A shift or a goto leaves a path (y.tab.c:1450-1465, 1612-1623).
LEMMA PushPath ==
  ASSUME NEW ss, Path(ss), NEW s \in 0..29, s \in Follows(Last(ss)),
         NEW pushed, pushed = Append(ss, s)
  PROVE  Path(pushed) /\ Last(pushed) = s /\ Len(pushed) = Len(ss) + 1
<1>1. /\ ss \in Seq(0..29) /\ Len(ss) \in Nat \ {0} /\ ss[1] = 0
      /\ \A i \in 1..(Len(ss) - 1) : ss[i + 1] \in Follows(ss[i])
  BY EmptySeq, LenProperties DEF Path
<1>2. /\ pushed \in Seq(0..29) /\ Len(pushed) = Len(ss) + 1
      /\ \A i \in 1..Len(ss) : pushed[i] = ss[i]
      /\ pushed[Len(ss) + 1] = s
  BY <1>1
<1>3. ASSUME NEW i \in 1..(Len(pushed) - 1)
      PROVE  pushed[i + 1] \in Follows(pushed[i])
  <2>1. CASE i = Len(ss)
    BY <1>1, <1>2, <2>1 DEF Last
  <2>2. CASE i \in 1..(Len(ss) - 1)
    BY <1>1, <1>2, <2>2
  <2> QED
    BY <1>1, <1>2, <2>1, <2>2
<1>4. pushed # <<>> /\ pushed[1] = 0 /\ Last(pushed) = s
  BY <1>1, <1>2, EmptySeq DEF Last
<1> QED
  BY <1>2, <1>3, <1>4 DEF Path

\* The larger of the two depths bounds both (y.tab.c:1323-1398).
LEMMA MaxOfTwo ==
  ASSUME NEW x \in Nat, NEW y \in Nat
  PROVE  x <= Max({x, y}) /\ y <= Max({x, y}) /\ Max({x, y}) \in Nat
<1>1. \E z \in {x, y} : \A w \in {x, y} : z >= w
  OBVIOUS
<1> QED
  BY <1>1 DEF Max

\* yyparse begins with an empty stack and state 0 to push (y.tab.c:1262-1318).
LEMMA InitIInv == Init => IInv
<1> SUFFICES ASSUME Init PROVE IInv
  OBVIOUS
<1>1. Types
  BY ParserAssumption, MaxOfTwo DEF Init, Types, Garbage
<1>2. Append(yyss, yystate) = <<0>>
  BY DEF Init
<1>3. Path(<<0>>)
  BY DEF Path
<1>4. Stacks
  BY <1>2, <1>3, ParserAssumption DEF Init, Stacks
<1> QED
  BY <1>1, <1>4 DEF Init, IInv, Reports

\* The push, and the growth that makes room for the next one or fails
\* (y.tab.c:1323-1398).
LEMMA SetStateIInv ==
  ASSUME IInv, SetState
  PROVE  IInv'
<1>1. /\ pc = "yysetstate" /\ yyss' = Append(yyss, yystate)
      /\ UNCHANGED <<input, yychar, yystate, yyn, yyvs, yyerrstatus, reports, nodes, labels>>
  BY DEF SetState, tree
<1>2. /\ Path(Append(yyss, yystate)) /\ Len(yyvs) = Len(yyss) + 1
      /\ Len(yyss) < yystacksize
      /\ yyerrstatus = 0 /\ reports = 0 /\ yyresult = -1
  BY <1>1 DEF IInv, Stacks, Reports
<1>3. /\ yyss \in Seq(0..29) /\ yystate \in 0..29 /\ Len(yyss) \in Nat
      /\ yystacksize \in Nat \ {0} /\ yystacksize <= Max({YYINITDEPTH, YYMAXDEPTH})
  BY LenProperties DEF IInv, Types
<1>4. /\ yyss' \in Seq(0..29) /\ Len(yyss') = Len(yyss) + 1 /\ Last(yyss') = yystate
  BY <1>1, <1>3 DEF Last
<1>5. \/ pc' = "yybackup" /\ yyresult' = yyresult /\ Len(yyss') < yystacksize'
      \/ pc' = "yyreturn" /\ yyresult' = 2 /\ Len(yyss') <= yystacksize'
  <2>1. CASE yystacksize < YYMAXDEPTH /\ yystacksize' = Minimum(2 * yystacksize, YYMAXDEPTH)
    <3>1. yystacksize' > yystacksize
      BY <2>1, <1>3, ParserAssumption DEF Minimum
    <3>2. yystacksize' \in Nat
      BY <2>1, <1>3, ParserAssumption DEF Minimum
    <3> QED
      BY <1>2, <1>3, <1>4, <3>1, <3>2 DEF SetState
  <2> QED
    BY <2>1, <1>2, <1>3, <1>4 DEF SetState
<1>6. yystacksize' \in Nat \ {0} /\ yystacksize' <= Max({YYINITDEPTH, YYMAXDEPTH})
  <2>1. CASE yystacksize < YYMAXDEPTH /\ yystacksize' = Minimum(2 * yystacksize, YYMAXDEPTH)
    <3>1. yystacksize' \in Nat \ {0} /\ yystacksize' <= YYMAXDEPTH
      BY <2>1, <1>3, ParserAssumption DEF Minimum
    <3>2. YYMAXDEPTH <= Max({YYINITDEPTH, YYMAXDEPTH})
      BY ParserAssumption, MaxOfTwo
    <3>3. Max({YYINITDEPTH, YYMAXDEPTH}) \in Nat
      BY ParserAssumption, MaxOfTwo
    <3> QED
      BY <3>1, <3>2, <3>3, ParserAssumption
  <2> QED
    BY <2>1, <1>3 DEF SetState
<1>7. Types'
  BY <1>1, <1>3, <1>4, <1>6 DEF IInv, Types
<1>8. Stacks'
  BY <1>1, <1>2, <1>4, <1>5 DEF Stacks
<1>9. Reports'
  BY <1>1, <1>2, <1>5 DEF Reports
<1> QED
  BY <1>7, <1>8, <1>9 DEF IInv

\* The steps between a push and the next, which leave the stacks alone
\* (y.tab.c:1408-1475, 1626-1693, 1738-1740).
LEMMA QuietIInv ==
  ASSUME IInv, ReadToken \/ Accept \/ Default \/ ErrLab \/ ErrAbort
  PROVE  IInv'
<1>1. UNCHANGED <<yystate, yyss, yyvs, yystacksize, nodes, labels>>
  BY DEF ReadToken, Accept, Default, ErrLab, ErrAbort, tree
<1>2. CASE ReadToken
  <2>1. /\ pc = "yybackup" /\ pc' = "yybackup"
        /\ UNCHANGED <<yyn, yyerrstatus, reports, yyresult>>
    BY <1>2 DEF ReadToken
  <2>2. input' \in Seq(Tokens) /\ yychar' \in Tokens \cup {YYEMPTY, YYEOF}
    <3>1. input \in Seq(Tokens)
      BY DEF IInv, Types
    <3>2. ASSUME NEW c \in Tokens, input' = Append(input, c)
          PROVE  input' \in Seq(Tokens)
      BY <3>1, <3>2
    <3> QED
      BY <1>2, <3>1, <3>2 DEF ReadToken
  <2> QED
    BY <1>1, <2>1, <2>2 DEF IInv, Types, Stacks, Reports
<1>3. CASE Accept
  <2>1. /\ pc = "yybackup" /\ pc' = "yyreturn" /\ yyresult' = 0
        /\ UNCHANGED <<input, yychar, yyn, yyerrstatus, reports>>
    BY <1>3 DEF Accept
  <2>2. Len(yyss) \in 1..yystacksize /\ Len(yyvs) = Len(yyss)
    BY <2>1, LenProperties, EmptySeq DEF IInv, Types, Stacks, Path
  <2> QED
    BY <1>1, <2>1, <2>2 DEF IInv, Types, Stacks, Reports
<1>4. CASE Default
  <2>1. /\ pc = "yybackup" /\ yyn' = At(yydefact, yystate)
        /\ pc' = IF yyn' = 0 THEN "yyerrlab" ELSE "yyreduce"
        /\ UNCHANGED <<input, yychar, yyerrstatus, reports, yyresult>>
    BY <1>4 DEF Default
  <2>2. \A s \in 0..29 : At(yydefact, s) \in 0..18
    BY DEF At, yydefact
  <2>3. yyn' \in 0..18
    BY <2>1, <2>2 DEF IInv, Types
  <2> QED
    BY <1>1, <2>1, <2>3 DEF IInv, Types, Stacks, Reports
<1>5. CASE ErrLab
  <2>1. /\ pc = "yyerrlab" /\ yyerrstatus = 0 /\ reports = 0 /\ yyresult = -1
    BY <1>5 DEF ErrLab, IInv, Reports
  <2>2. /\ pc' = "yyerrlab1" /\ yyerrstatus' = 3 /\ reports' = 1
        /\ UNCHANGED <<input, yychar, yyn, yyresult>>
    BY <1>5, <2>1 DEF ErrLab
  <2> QED
    BY <1>1, <2>1, <2>2 DEF IInv, Types, Stacks, Reports
<1>6. CASE ErrAbort
  <2>1. /\ pc = "yyerrlab1" /\ pc' = "yyreturn" /\ yyresult' = 1
        /\ UNCHANGED <<input, yychar, yyn, yyerrstatus, reports>>
    BY <1>6 DEF ErrAbort
  <2>2. Len(yyss) \in 1..yystacksize /\ Len(yyvs) = Len(yyss)
    BY <2>1, LenProperties, EmptySeq DEF IInv, Types, Stacks, Path
  <2> QED
    BY <1>1, <2>1, <2>2 DEF IInv, Types, Stacks, Reports
<1> QED
  BY <1>2, <1>3, <1>4, <1>5, <1>6

\* The value stack keeps level with the state stack (y.tab.c:1450-1465).
LEMMA ShiftIInv ==
  ASSUME IInv, Shift
  PROVE  IInv'
<1>1. /\ pc = "yybackup" /\ pc' = "yysetstate"
      /\ yystate' = At(yytable, Index) /\ At(yytable, Index) # YYFINAL /\ HasEntry
      /\ yyvs' = Append(yyvs, Len(input))
      /\ yyerrstatus' = IF yyerrstatus = 0 THEN 0 ELSE yyerrstatus - 1
      /\ yychar' = IF yychar = YYEOF THEN YYEOF ELSE YYEMPTY
      /\ UNCHANGED <<input, yyn, yyss, yystacksize, reports, nodes, labels, yyresult>>
  BY DEF Shift, tree
<1>2. /\ Path(yyss) /\ yystate = Last(yyss) /\ Len(yyvs) = Len(yyss)
      /\ Len(yyss) < yystacksize /\ yystate \in 0..29
      /\ yyvs \in Seq(Int) /\ Len(input) \in Int
  BY <1>1, LenProperties DEF IInv, Types, Stacks
<1>3. yystate' \in Follows(Last(yyss))
  BY <1>1, <1>2, ShiftFollows
<1>4. yystate' \in 0..29
  BY <1>2, <1>3 DEF Follows
<1>5. Path(Append(yyss, yystate'))
  BY <1>2, <1>3, <1>4, PushPath
<1>6. yyvs' \in Seq(Int) /\ Len(yyvs') = Len(yyvs) + 1
  BY <1>1, <1>2
<1>7. Types'
  BY <1>1, <1>4, <1>6 DEF IInv, Types
<1>8. Stacks'
  BY <1>1, <1>2, <1>5, <1>6 DEF Stacks
<1>9. Reports'
  BY <1>1 DEF IInv, Reports
<1> QED
  BY <1>7, <1>8, <1>9 DEF IInv

\* What a semantic action appends, if anything: a node of integers
\* (y.tab.c:1497-1600).
LEMMA ActionTypes ==
  ASSUME Types, NEW rule \in 2..18 \ {15},
         rule \in 4..13 => Len(yyvs) > 3,
         rule = 18 => Len(yyvs) > 2,
         rule \in {16, 17} => Len(yyvs) > 1,
         Action(rule)
  PROVE  /\ nodes' \in Seq(Node) /\ labels' \in Seq(Names \cup Int)
         /\ Len(labels') = Len(nodes')
<1>1. /\ nodes \in Seq(Node) /\ labels \in Seq(Names \cup Int)
      /\ Len(labels) = Len(nodes)
      /\ yyvs \in Seq(Int) /\ Len(yyvs) \in Nat
  BY LenProperties DEF Types
<1>2. ASSUME NEW n \in 1..3, NEW m \in n..3, m < Len(yyvs)
      PROVE  Rhs(n, m) \in Int
  <2>1. Len(yyvs) - m + n \in 1..Len(yyvs)
    BY <1>1, <1>2
  <2> QED
    BY <1>1, <2>1, ElementOfSeq DEF Rhs
<1>3. ASSUME NEW node \in Node, NEW label \in Names \cup Int,
             nodes' = Append(nodes, node), labels' = Append(labels, label)
      PROVE  /\ nodes' \in Seq(Node) /\ labels' \in Seq(Names \cup Int)
             /\ Len(labels') = Len(nodes')
  <2>1. nodes' \in Seq(Node) /\ Len(nodes') = Len(nodes) + 1
    BY <1>1, <1>3, AppendProperties
  <2>2. labels' \in Seq(Names \cup Int) /\ Len(labels') = Len(labels) + 1
    BY <1>1, <1>3, AppendProperties
  <2> QED
    BY <1>1, <2>1, <2>2
<1>4. ASSUME NEW type \in NodeTypes, NEW kids \in Seq(Int), NEW label \in Names \cup Int,
             nodes' = Append(nodes, [type |-> type, kids |-> kids]),
             labels' = Append(labels, label)
      PROVE  /\ nodes' \in Seq(Node) /\ labels' \in Seq(Names \cup Int)
             /\ Len(labels') = Len(nodes')
  <2>1. [type |-> type, kids |-> kids] \in Node
    BY DEF Node
  <2> QED
    BY <1>3, <1>4, <2>1
<1>5. CASE rule \in 4..13
  <2> DEFINE type == IF rule <= 7 THEN "bexpr" ELSE "rexpr"
  <2>1. /\ nodes' = Append(nodes, [type |-> type, kids |-> <<Rhs(1, 3), Rhs(3, 3)>>])
        /\ labels' = Append(labels, Operator[rule - 3])
    BY <1>5 DEF Action, Made
  <2>2. Rhs(1, 3) \in Int /\ Rhs(3, 3) \in Int
    BY <1>1, <1>2, <1>5
  <2>3. Operator[rule - 3] \in Names
    <3>1. Operator \in Seq(Names) /\ Len(Operator) = 10
      BY DEF Operator, Names
    <3>2. rule - 3 \in 1..10
      BY <1>5
    <3> QED
      BY <3>1, <3>2, ElementOfSeq
  <2>4. type \in NodeTypes
    BY DEF NodeTypes
  <2> HIDE DEF type
  <2>5. <<Rhs(1, 3), Rhs(3, 3)>> \in Seq(Int)
    BY <2>2
  <2> QED
    BY <1>4, <2>1, <2>3, <2>4, <2>5
<1>6. CASE rule \in {16, 17}
  <2> DEFINE type == IF rule = 16 THEN "cnst" ELSE "var"
  <2>1. /\ nodes' = Append(nodes, [type |-> type, kids |-> <<>>])
        /\ labels' = Append(labels, Rhs(1, 1))
    BY <1>6 DEF Action, Made
  <2>2. Rhs(1, 1) \in Int
    BY <1>1, <1>2, <1>6
  <2>3. type \in NodeTypes /\ <<>> \in Seq(Int)
    BY DEF NodeTypes
  <2> HIDE DEF type
  <2> QED
    BY <1>4, <2>1, <2>2, <2>3
<1>7. CASE rule = 18
  <2>1. /\ nodes' = Append(nodes, [type |-> "uexpr", kids |-> <<Rhs(2, 2)>>])
        /\ labels' = Append(labels, "uminus")
    BY <1>7 DEF Action, Made
  <2>2. Rhs(2, 2) \in Int
    BY <1>1, <1>2, <1>7
  <2>3. <<Rhs(2, 2)>> \in Seq(Int) /\ "uexpr" \in NodeTypes /\ "uminus" \in Names
    BY <2>2 DEF NodeTypes, Names
  <2> QED
    BY <1>4, <2>1, <2>3
<1>8. CASE rule \in {2, 3, 14}
  BY <1>1, <1>8 DEF Action, tree
<1> QED
  BY <1>5, <1>6, <1>7, <1>8

\* A reduction pops what is there and pushes a value; its state is pushed next
\* (y.tab.c:1478-1623).
LEMMA ReduceIInv ==
  ASSUME IInv, Reduce
  PROVE  IInv'
<1> DEFINE yylen == At(yyr2, yyn)
           m == Len(yyss) - yylen
           below == SubSeq(yyss, 1, m)
           values == SubSeq(yyvs, 1, Len(yyvs) - yylen)
<1>1. /\ pc = "yyreduce" /\ pc' = "yysetstate"
      /\ yyss' = below /\ yyvs' = Append(values, YyVal(yyn))
      /\ yystate' = Goto(At(yyr1, yyn), Last(below))
      /\ Action(yyn)
      /\ UNCHANGED <<input, yychar, yyn, yystacksize, yyerrstatus, reports, yyresult>>
  BY DEF Reduce
<1>2. /\ Path(yyss) /\ yystate = Last(yyss) /\ Len(yyvs) = Len(yyss)
      /\ Len(yyss) < yystacksize /\ yyn = At(yydefact, Last(yyss)) /\ yyn # 0
      /\ yyvs \in Seq(Int) /\ Len(yyss) \in Nat
  BY <1>1, LenProperties DEF IInv, Types, Stacks
<1>3. /\ yyn \in 2..18 \ {15} /\ yylen \in 1..3 /\ yylen < Len(yyss)
      /\ yyn \in 4..13 => yylen = 3
      /\ yyn = 18 => yylen = 2
      /\ yyn \in {3, 14, 16, 17} => yylen = 1
      /\ Goto(At(yyr1, yyn), yyss[m]) \in Follows(yyss[m])
  BY <1>2, Reducible
<1> HIDE DEF yylen
<1>4. m \in 1..Len(yyss) /\ m < Len(yyss)
  BY <1>2, <1>3
<1>5. Path(below) /\ Len(below) = m /\ Last(below) = yyss[m]
  BY <1>2, <1>4, PopPath
<1>6. yystate' \in Follows(Last(below)) /\ yystate' \in 0..29
  <2>1. yystate' \in Follows(yyss[m])
    BY <1>1, <1>3, <1>5
  <2>2. yyss[m] \in 0..29
    BY <1>2, <1>4, ElementOfSeq DEF Path
  <2> QED
    BY <1>5, <2>1, <2>2 DEF Follows
<1>7. Path(Append(yyss', yystate'))
  BY <1>1, <1>5, <1>6, PushPath
<1>8. values \in Seq(Int) /\ Len(values) = m
  <2>1. ASSUME NEW i \in 1..m PROVE yyvs[i] \in Int
    <3>1. i \in 1..Len(yyvs)
      BY <1>2, <1>4
    <3> QED
      BY <1>2, <3>1, ElementOfSeq
  <2> QED
    BY <1>2, <1>4, <2>1, SubSeqProperties
<1>9. YyVal(yyn) \in Int
  <2>1. CASE yyn \in {2, 3, 14}
    <3>1. YyVal(yyn) = yyvs[m + 1]
      BY <1>2, <2>1 DEF YyVal, Rhs, yylen
    <3>2. m + 1 \in 1..Len(yyvs)
      BY <1>2, <1>4
    <3> QED
      BY <1>2, <3>1, <3>2, ElementOfSeq
  <2>2. CASE yyn \notin {2, 3, 14}
    <3>1. Len(nodes) \in Nat
      BY LenProperties DEF IInv, Types
    <3> QED
      BY <1>3, <2>2, <3>1 DEF YyVal
  <2> QED
    BY <2>1, <2>2
<1>10. yyvs' \in Seq(Int) /\ Len(yyvs') = m + 1
  BY <1>1, <1>8, <1>9
<1>11. /\ nodes' \in Seq(Node) /\ labels' \in Seq(Names \cup Int)
       /\ Len(labels') = Len(nodes')
  BY <1>1, <1>2, <1>3, ActionTypes DEF IInv
<1>12. Types'
  BY <1>1, <1>5, <1>6, <1>10, <1>11 DEF IInv, Types, Path
<1>13. Stacks'
  <2>1. Len(yyss') = m /\ m < yystacksize'
    <3>1. yystacksize \in Nat /\ yystacksize' = yystacksize
      BY <1>1 DEF IInv, Types
    <3>2. Len(yyss') = m
      BY <1>1, <1>5
    <3> HIDE DEF m
    <3> QED
      BY <1>2, <1>4, <3>1, <3>2
  <2> QED
    BY <1>1, <1>7, <1>10, <2>1 DEF Stacks
<1>14. Reports'
  BY <1>1 DEF IInv, Reports
<1> QED
  BY <1>12, <1>13, <1>14 DEF IInv

\* Recovery pops the two stacks together down to state 0 (y.tab.c:1725-1748).
LEMMA ErrPopIInv ==
  ASSUME IInv, ErrPop
  PROVE  IInv'
<1> DEFINE m == Len(yyss) - 1
<1>1. /\ pc = "yyerrlab1" /\ pc' = "yyerrlab1" /\ Len(yyss) > 1
      /\ yyss' = Front(yyss) /\ yyvs' = Front(yyvs) /\ yystate' = Last(yyss')
      /\ UNCHANGED <<input, yychar, yyn, yystacksize, yyerrstatus, reports,
                     nodes, labels, yyresult>>
  BY DEF ErrPop, tree
<1>2. /\ Path(yyss) /\ Len(yyvs) = Len(yyss) /\ Len(yyss) < yystacksize
      /\ yyvs \in Seq(Int) /\ Len(yyss) \in Nat
  BY <1>1, LenProperties DEF IInv, Types, Stacks
<1>3. m \in 1..Len(yyss) /\ yyss' = SubSeq(yyss, 1, m) /\ yyvs' = SubSeq(yyvs, 1, m)
  BY <1>1, <1>2 DEF Front
<1>4. Path(yyss') /\ Len(yyss') = m /\ Last(yyss') = yyss[m]
  <2>1. /\ Path(SubSeq(yyss, 1, m)) /\ Len(SubSeq(yyss, 1, m)) = m
        /\ Last(SubSeq(yyss, 1, m)) = yyss[m]
    BY <1>2, <1>3, PopPath
  <2> QED
    BY <1>3, <2>1
<1>5. yystate' \in 0..29
  BY <1>1, <1>2, <1>3, <1>4, ElementOfSeq DEF Path
<1>6. yyvs' \in Seq(Int) /\ Len(yyvs') = m
  <2>1. ASSUME NEW i \in 1..m PROVE yyvs[i] \in Int
    <3>1. i \in 1..Len(yyvs)
      BY <1>2
    <3> QED
      BY <1>2, <3>1, ElementOfSeq
  <2> QED
    BY <1>2, <1>3, <2>1, SubSeqProperties
<1>7. Types'
  BY <1>1, <1>4, <1>5, <1>6 DEF IInv, Types, Path
<1>8. Stacks'
  <2>1. m < yystacksize' /\ yystate' = Last(yyss')
    <3>1. yystacksize \in Nat /\ yystacksize' = yystacksize
      BY <1>1 DEF IInv, Types
    <3> QED
      BY <1>1, <1>2, <3>1
  <2> QED
    BY <1>1, <1>4, <1>6, <2>1 DEF Stacks
<1>9. Reports'
  BY <1>1 DEF IInv, Reports
<1> QED
  BY <1>7, <1>8, <1>9 DEF IInv

\* What is left on the stacks is dropped (y.tab.c:1762-1811).
LEMMA ReturnIInv ==
  ASSUME IInv, Return
  PROVE  IInv'
<1>1. /\ pc = "yyreturn" /\ pc' = "done"
      /\ yyss' = SubSeq(yyss, 1, 1) /\ yyvs' = SubSeq(yyvs, 1, 1)
      /\ reports' = IF yyresult = 2 THEN reports + 1 ELSE reports
      /\ UNCHANGED <<input, yychar, yystate, yyn, yystacksize, yyerrstatus,
                     nodes, labels, yyresult>>
  BY DEF Return, tree
<1>2. /\ yyss \in Seq(0..29) /\ yyvs \in Seq(Int)
      /\ Len(yyss) \in 1..yystacksize /\ Len(yyvs) = Len(yyss)
      /\ yystacksize \in Nat \ {0}
  BY <1>1 DEF IInv, Types, Stacks
<1>3. yyss[1] \in 0..29 /\ yyvs[1] \in Int
  BY <1>2, ElementOfSeq
<1>4. /\ yyss' \in Seq(0..29) /\ Len(yyss') = 1
      /\ yyvs' \in Seq(Int) /\ Len(yyvs') = 1
  BY <1>1, <1>3, SubSeqProperties
<1>5. Types'
  BY <1>1, <1>4 DEF IInv, Types
<1>6. Stacks'
  BY <1>1, <1>2, <1>4 DEF Stacks
<1>7. Reports'
  BY <1>1 DEF IInv, Reports
<1> QED
  BY <1>5, <1>6, <1>7 DEF IInv

\* Every stretch of yyparse between two labels keeps this (y.tab.c:1320-1811).
LEMMA NextIInv == IInv /\ [Next]_vars => IInv'
<1> SUFFICES ASSUME IInv, [Next]_vars PROVE IInv'
  OBVIOUS
<1>1. CASE Stopped \/ UNCHANGED vars
  <2>1. UNCHANGED vars
    BY <1>1 DEF Stopped
  <2> QED
    BY <2>1 DEF vars, tree, IInv, Types, Stacks, Reports
<1> QED
  BY <1>1, SetStateIInv, QuietIInv, ShiftIInv, ReduceIInv, ErrPopIInv, ReturnIInv
     DEF Next, Step

\* The stacks hold paths of the automaton, and a failure is reported once, at
\* every label of yyparse (y.tab.c:1262-1811).
THEOREM ParserIntact == Spec => []IInv
<1> QED
  BY InitIInv, NextIInv, PTL DEF Spec

\* The two stacks are level whenever the parser looks at them, and no state or
\* rule is out of the tables (y.tab.c:1262-1811).
THEOREM TypeCorrect == Spec => []TypeOK
<1>1. IInv => TypeOK
  <2> SUFFICES ASSUME IInv PROVE TypeOK
    OBVIOUS
  <2>1. pc \notin {"yysetstate", "yyreturn", "done"} =>
          Len(yyvs) = Len(yyss) /\ yystate = Last(yyss)
    BY DEF IInv, Stacks, Reports
  <2>2. pc = "yysetstate" => Len(yyvs) = Len(yyss) + 1
    BY DEF IInv, Stacks
  <2>3. yyerrstatus \in 0..3 /\ reports \in 0..1 /\ yyresult \in -1..2
    BY DEF IInv, Reports
  <2> QED
    BY <2>1, <2>2, <2>3 DEF IInv, Types, TypeOK
<1> QED
  BY ParserIntact, <1>1, PTL

\* For any initial and maximal depth nothing is written outside the stacks
\* (y.tab.c:1323-1398).
THEOREM StacksStayInBounds == Spec => []StackInBounds
<1>1. IInv => StackInBounds
  <2> SUFFICES ASSUME IInv PROVE StackInBounds
    OBVIOUS
  <2>1. /\ Len(yyss) \in Nat /\ Len(yyvs) \in Nat /\ yystacksize \in Nat
        /\ yystacksize <= Max({YYINITDEPTH, YYMAXDEPTH})
    BY LenProperties DEF IInv, Types
  <2>2. CASE pc = "yysetstate"
    BY <2>1, <2>2 DEF IInv, Stacks, StackInBounds
  <2>3. CASE pc \in {"yybackup", "yyreduce", "yyerrlab", "yyerrlab1"}
    BY <2>1, <2>3 DEF IInv, Stacks, StackInBounds
  <2>4. CASE pc \in {"yyreturn", "done"}
    BY <2>1, <2>4 DEF IInv, Stacks, StackInBounds
  <2> QED
    BY <2>2, <2>3, <2>4 DEF IInv, Reports
<1> QED
  BY ParserIntact, <1>1, PTL

\* A failing parse calls yyerror exactly once, whatever was read before: stacks
\* that have grown always have room (y.tab.c:1392, 1629-1784).
THEOREM FailuresAreReported == Spec => []FailureReported
<1>1. IInv => FailureReported
  BY DEF IInv, Reports, FailureReported
<1> QED
  BY ParserIntact, <1>1, PTL
-----------------------------------------------------------------------------
(* FrontEnd *)

\* Where yyparse can be with what the scanner returns.
FrontIInv ==
  /\ nodes = <<>> /\ yystate = 0
  /\ yystacksize \in Nat \ {0}
  /\ input \in Seq(Tokens) /\ Len(input) <= 1
  /\ \/ /\ pc = "yysetstate" /\ yyss = <<>> /\ input = <<>>
        /\ yychar = YYEMPTY /\ yyerrstatus = 0 /\ reports = 0
     \/ /\ pc = "yybackup" /\ yyss = <<0>> /\ yyerrstatus = 0 /\ reports = 0
        /\ yychar # RETURN
        /\ yychar = YYEMPTY => input = <<>>
     \/ pc = "yyerrlab" /\ yyss = <<0>> /\ yyerrstatus = 0 /\ reports = 0
     \/ pc = "yyerrlab1" /\ yyss = <<0>> /\ reports = 1
     \/ pc = "yyreturn" /\ yyresult = 1 /\ reports = 1
     \/ pc = "yyreturn" /\ yyresult = 2 /\ reports = 0
     \/ pc = "done" /\ yyresult \in {1, 2} /\ reports = 1

\* No rule of test.l returns the token "return" (test.l:20-26).
LEMMA NoReturnToken == \A x : RETURN \notin TokensOf(x)
BY DEF TokensOf, RETURN, NAME, NUMBER

\* In state 0 the tables admit no other token (y.tab.c:645-677).
LEMMA OnlyReturnHasEntry ==
  ASSUME yystate = 0, yychar # RETURN
  PROVE  ~HasEntry
<1> DEFINE t == Translate(yychar)
<1>1. t \in 0..26 /\ t # 6
  <2>1. CASE \E u \in 0..26 : At(yytoknum, u) = yychar
    <3>1. t \in 0..26 /\ At(yytoknum, t) = yychar
      BY <2>1 DEF Translate, YYNTOKENS
    <3>2. At(yytoknum, 6) = RETURN
      BY DEF At, yytoknum, RETURN
    <3> QED
      BY <3>1, <3>2
  <2>2. CASE ~ \E u \in 0..26 : At(yytoknum, u) = yychar
    BY <2>2 DEF Translate, YYNTOKENS, YYUNDEFTOK
  <2> QED
    BY <2>1, <2>2
<1>2. Index = t - 4
  <2>1. At(yypact, 0) = -4
    BY DEF At, yypact
  <2> QED
    BY <1>1, <2>1 DEF Index
<1>3. \A u \in 0..26 : u # 6 /\ u - 4 \in 0..35 => At(yycheck, u - 4) # u
  BY DEF At, yycheck
<1> QED
  BY <1>1, <1>2, <1>3 DEF HasEntry, YYLAST
\* yyparse begins with an empty stack in state 0 (y.tab.c:1262-1318).
LEMMA InitFront == FrontInit => FrontIInv
BY ParserAssumption DEF FrontInit, Init, FrontIInv

\* Up to the first token and from its rejection on, nothing is built.
LEMMA NextFront == FrontIInv /\ [FrontNext]_frontVars => FrontIInv'
<1> SUFFICES ASSUME FrontIInv, [FrontNext]_frontVars PROVE FrontIInv'
  OBVIOUS
<1>s. /\ nodes = <<>> /\ yystate = 0 /\ yystacksize \in Nat \ {0}
      /\ input \in Seq(Tokens) /\ Len(input) <= 1
  BY DEF FrontIInv
<1>1. CASE SetState
  <2>1. /\ pc = "yysetstate" /\ yyss = <<>> /\ input = <<>>
        /\ yychar = YYEMPTY /\ yyerrstatus = 0 /\ reports = 0
    BY <1>1 DEF FrontIInv, SetState
  <2>2. yyss' = <<0>> /\ Len(yyss') = 1
    BY <1>1, <2>1, <1>s DEF SetState
  <2>3. /\ UNCHANGED <<input, yychar, yystate, yyerrstatus, reports, nodes>>
        /\ YYEMPTY # RETURN
    BY <1>1 DEF SetState, tree, YYEMPTY, RETURN
  <2>4. \/ pc' = "yybackup" /\ yystacksize' \in Nat \ {0}
        \/ pc' = "yyreturn" /\ yyresult' = 2 /\ yystacksize' = yystacksize
    <3>1. CASE yystacksize < YYMAXDEPTH /\ yystacksize' = Minimum(2 * yystacksize, YYMAXDEPTH)
      BY <1>1, <2>2, <3>1, <1>s, ParserAssumption DEF SetState, Minimum
    <3> QED
      BY <1>1, <3>1, <1>s DEF SetState
  <2> QED
    BY <1>s, <2>1, <2>2, <2>3, <2>4 DEF FrontIInv
<1>2. CASE ReadLexeme
  <2>1. /\ pc = "yybackup" /\ yychar = YYEMPTY /\ pc' = "yybackup"
        /\ UNCHANGED <<nodes, yystate, yystacksize, yyss, yyerrstatus, reports>>
    BY <1>2 DEF ReadLexeme, ReadToken, tree
  <2>2. input = <<>> /\ yyss = <<0>> /\ yyerrstatus = 0 /\ reports = 0
    BY <2>1 DEF FrontIInv
  <2>3. yychar' # RETURN
    BY <1>2, NoReturnToken DEF ReadLexeme, YYEOF, RETURN
  <2>4. input' \in Seq(Tokens) /\ Len(input') <= 1
    <3>1. ASSUME NEW c \in Tokens, input' = Append(<<>>, c)
          PROVE  input' \in Seq(Tokens) /\ Len(input') <= 1
      BY <3>1
    <3>2. input' = input \/ \E c \in Tokens : input' = Append(<<>>, c)
      BY <1>2, <2>2 DEF ReadLexeme, ReadToken
    <3> QED
      BY <1>s, <3>1, <3>2
  <2>5. yychar' # YYEMPTY
    BY <1>2, ParserAssumption DEF ReadLexeme, ReadToken, YYEMPTY, YYEOF
  <2> QED
    BY <1>s, <2>1, <2>2, <2>3, <2>4, <2>5 DEF FrontIInv
<1>3. CASE Shift \/ Accept
  BY <1>3, <1>s, OnlyReturnHasEntry DEF Shift, Accept, FrontIInv
<1>4. CASE Default
  <2>1. At(yydefact, 0) = 0
    BY DEF At, yydefact
  <2>2. /\ pc = "yybackup" /\ pc' = "yyerrlab"
        /\ UNCHANGED <<nodes, yystate, yystacksize, input, yyss, yyerrstatus, reports>>
    BY <1>4, <1>s, <2>1 DEF Default, tree
  <2> QED
    BY <1>s, <2>2 DEF FrontIInv
<1>5. CASE Reduce
  BY <1>5 DEF Reduce, FrontIInv
<1>6. CASE ErrLab
  <2>1. /\ pc = "yyerrlab" /\ yyerrstatus = 0 /\ reports = 0 /\ yyss = <<0>>
    BY <1>6 DEF ErrLab, FrontIInv
  <2>2. /\ pc' = "yyerrlab1" /\ reports' = 1
        /\ UNCHANGED <<nodes, yystate, yystacksize, input, yyss>>
    BY <1>6, <2>1 DEF ErrLab, tree
  <2> QED
    BY <1>s, <2>1, <2>2 DEF FrontIInv
<1>7. CASE ErrPop
  <2>1. yyss = <<0>>
    BY <1>7 DEF ErrPop, FrontIInv
  <2> QED
    BY <1>7, <2>1 DEF ErrPop
<1>8. CASE ErrAbort
  <2>1. /\ pc = "yyerrlab1" /\ reports = 1 /\ pc' = "yyreturn" /\ yyresult' = 1
        /\ UNCHANGED <<nodes, yystate, yystacksize, input, reports>>
    BY <1>8 DEF ErrAbort, FrontIInv, tree
  <2> QED
    BY <1>s, <2>1 DEF FrontIInv
<1>9. CASE Return
  <2>1. /\ pc = "yyreturn" /\ pc' = "done"
        /\ UNCHANGED <<nodes, yystate, yystacksize, input, yyresult>>
        /\ reports' = IF yyresult = 2 THEN reports + 1 ELSE reports
    BY <1>9 DEF Return, tree
  <2> QED
    BY <1>s, <2>1 DEF FrontIInv
<1>10. CASE SkipLexeme \/ FrontStopped \/ UNCHANGED frontVars
  BY <1>10, <1>s DEF SkipLexeme, FrontStopped, Stopped, frontVars, vars, tree, FrontIInv
<1> QED
  BY <1>1, <1>2, <1>3, <1>4, <1>5, <1>6, <1>7, <1>8, <1>9, <1>10
     DEF FrontNext, Parse

\* The parse of a file, whatever it holds, ends at its first token with one
\* message and without a node (test.l:20-26, y.tab.c:1408-1475, 1626-1759).
THEOREM FirstTokenStaysRejected == FrontSpec => []FirstTokenRejected
<1>1. FrontIInv => FirstTokenRejected
  BY DEF FrontIInv, FirstTokenRejected
<1> QED
  BY InitFront, NextFront, <1>1, PTL DEF FrontSpec

-----------------------------------------------------------------------------
(* The language of the tables *)

\* The tokens from position i to k of s: minus signs, or a term.
MinusIn(s, i, k) == \A j \in i..k : s[j] = MINUS
TermIn(s, i, k) == i <= k /\ s[k] \in {NUMBER, NAME} /\ MinusIn(s, i, k - 1)

\* The tokens on the stack.
Shifted == IF yychar \in Tokens THEN Front(input) ELSE input

\* The operand that begins at position i, as far as state s has seen it.
Part(s, f, i) ==
  \/ s \in {1} \cup 10..19 /\ Len(f) = i - 1
  \/ s = 5 /\ i <= Len(f) /\ MinusIn(f, i, Len(f))
  \/ s \in {3, 4, 7, 9} \cup 20..29 /\ TermIn(f, i, Len(f))

\* Position j of f is an operator behind a first operand.
OperatorAt(f, j) == f[j] \in Operators /\ TermIn(f, 2, j - 1)

\* An operator is on the stack.
Behind(ss) == Len(ss) >= 4 /\ ss[3] = 7

\* What the stack stands for, by its last state and whether an operator is on it.
Reading(s, behind, f) ==
  \/ s = 0 /\ f = <<>>
  \/ s \in {2, 6} /\ IsSentence(f)
  \/ /\ Len(f) > 0 /\ f[1] = RETURN
     /\ \/ ~behind /\ Part(s, f, 2)
        \/ behind /\ \E j \in 2..Len(f) : OperatorAt(f, j) /\ Part(s, f, j + 1)

\* After a whole sentence no token can follow that might still come.
Complete ==
  Last(Stack) \in {2, 6} =>
    \A c \in Tokens : yychar \in {c, YYEMPTY} => ~IsPrefixOfSentence(Append(Shifted, c))

\* No sentence goes on with the lookahead.
Rejected ==
  /\ yychar # YYEMPTY
  /\ IF yychar = YYEOF THEN ~IsSentence(input) ELSE ~IsPrefixOfSentence(input)

Language ==
  /\ yychar \in Tokens => input # <<>> /\ Last(input) = yychar
  /\ IsPrefixOfSentence(Shifted)
  /\ pc \in {"yysetstate", "yybackup", "yyreduce"} =>
       Reading(Last(Stack), Behind(Stack), Shifted) /\ Complete
  /\ pc = "yyreduce" /\ At(yypact, yystate) # YYPACT_NINF => yychar # YYEMPTY /\ ~HasEntry
  /\ pc \in {"yyerrlab", "yyerrlab1"} => Rejected
  /\ pc \in {"yyreturn", "done"} /\ yyresult = 1 => Rejected
  /\ yyresult = 0 => yychar = YYEOF /\ IsSentence(input)

\* A sentence, and the beginning of one, read by position.
ReadsWhole(s) ==
  /\ Len(s) > 0 /\ s[1] = RETURN
  /\ \/ Len(s) = 1
     \/ TermIn(s, 2, Len(s))
     \/ \E j \in 2..Len(s) : OperatorAt(s, j) /\ TermIn(s, j + 1, Len(s))

ReadsPart(s) ==
  \/ Len(s) = 0
  \/ ReadsWhole(s)
  \/ /\ s[1] = RETURN
     /\ \/ MinusIn(s, 2, Len(s))
        \/ \E j \in 2..Len(s) : OperatorAt(s, j) /\ MinusIn(s, j + 1, Len(s))

Codes == Seq(Nat)

\* A part of a sequence is a term when its positions are.
LEMMA TermOf ==
  ASSUME NEW s \in Codes, NEW u \in Codes, NEW a \in Nat \ {0}, NEW b \in Nat,
         Len(u) = b + 1 - a, \A i \in 1..Len(u) : u[i] = s[a + i - 1]
  PROVE  /\ IsTerm(u) <=> TermIn(s, a, b)
         /\ AllMinus(u) <=> MinusIn(s, a, b)
<1>1. PICK n \in Nat : n = Len(u) /\ n = b + 1 - a /\ DOMAIN u = 1..n
  BY DEF Codes
<1>2. \A i \in 1..n : u[i] = s[a + i - 1]
  BY <1>1
<1>3. ASSUME NEW m \in Int, NEW k \in Int, m = k + 1 - a, m <= n
      PROVE  (\A j \in 1..m : u[j] = MINUS) <=> MinusIn(s, a, k)
  <2>1. ASSUME \A j \in 1..m : u[j] = MINUS, NEW j \in a..k PROVE s[j] = MINUS
    <3>1. PICK i \in Int : i = j + 1 - a
      BY <2>1
    <3>2. i \in 1..m /\ i \in 1..n /\ a + i - 1 = j
      BY <1>3, <2>1, <3>1
    <3> QED BY <1>2, <2>1, <3>2
  <2>2. ASSUME MinusIn(s, a, k), NEW i \in 1..m PROVE u[i] = MINUS
    <3>1. PICK j \in Int : j = a + i - 1
      BY <2>2
    <3>2. j \in a..k /\ i \in 1..n
      BY <1>3, <2>2, <3>1
    <3> QED BY <1>2, <2>2, <3>1, <3>2 DEF MinusIn
  <2> QED BY <2>1, <2>2 DEF MinusIn
<1>4. AllMinus(u) <=> MinusIn(s, a, b)
  <2>1. (\A j \in 1..n : u[j] = MINUS) <=> MinusIn(s, a, b)
    BY <1>1, <1>3
  <2> QED BY <1>1, <2>1 DEF AllMinus
<1>5. IsTerm(u) <=> TermIn(s, a, b)
  <2>1. CASE n = 0
    <3>1. u = <<>> /\ ~(a <= b)
      BY <1>1, <2>1, EmptySeq DEF Codes
    <3> QED BY <3>1 DEF IsTerm, TermIn
  <2>2. CASE n # 0
    <3>1. u # <<>> /\ a <= b /\ n \in 1..n /\ a + n - 1 = b
      BY <1>1, <2>2
    <3>2. Last(u) = s[b]
      BY <1>1, <1>2, <3>1 DEF Last
    <3>3. (\A j \in 1..(n - 1) : u[j] = MINUS) <=> MinusIn(s, a, b - 1)
      <4>1. n - 1 = (b - 1) + 1 - a /\ n - 1 <= n /\ n - 1 \in Int /\ b - 1 \in Int
        BY <1>1
      <4> QED BY <1>3, <4>1
    <3> QED BY <1>1, <3>1, <3>2, <3>3 DEF IsTerm, TermIn
  <2> QED BY <2>1, <2>2
<1> QED BY <1>4, <1>5

\* The grammar by position (y.tab.c:525-640, the rules of test.y:451 and 483-540).
LEMMA SentenceIs ==
  \A s \in Codes : /\ IsSentence(s) <=> ReadsWhole(s)
                   /\ IsPrefixOfSentence(s) <=> ReadsPart(s)
<1> SUFFICES ASSUME NEW s \in Codes
             PROVE  /\ IsSentence(s) <=> ReadsWhole(s)
                    /\ IsPrefixOfSentence(s) <=> ReadsPart(s)
    OBVIOUS
<1>1. PICK n \in Nat : n = Len(s)
  BY DEF Codes
<1>2. CASE n = 0
  <2>1. s = <<>>
    BY <1>1, <1>2, EmptySeq DEF Codes
  <2> QED BY <1>1, <1>2, <2>1 DEF IsSentence, IsPrefixOfSentence, ReadsWhole, ReadsPart
<1>3. CASE n # 0
  <2>1. s # <<>> /\ Head(s) = s[1]
    <3>1. s # <<>>
      BY <1>1, <1>3
    <3> QED BY <3>1, HeadTailProperties DEF Codes
  <2>2. PICK t \in Codes : t = Tail(s) /\ Len(t) = n - 1 /\ DOMAIN t = 1..(n - 1)
                           /\ \A i \in 1..(n - 1) : t[i] = s[i + 1]
    <3>1. PICK t : t = Tail(s)
      OBVIOUS
    <3>2. t \in Codes /\ Len(t) = n - 1 /\ \A i \in 1..Len(t) : t[i] = s[i + 1]
      BY <1>1, <2>1, <3>1, HeadTailProperties DEF Codes
    <3> QED BY <3>1, <3>2 DEF Codes
  <2>3. ASSUME NEW a \in 1..n, NEW b \in 0..(n - 1), a <= b + 1
        PROVE  /\ IsTerm(SubSeq(t, a, b)) <=> TermIn(s, a + 1, b + 1)
               /\ AllMinus(SubSeq(t, a, b)) <=> MinusIn(s, a + 1, b + 1)
    <3>1. PICK u : u = SubSeq(t, a, b)
      OBVIOUS
    <3>2. u \in Codes /\ Len(u) = b + 1 - a /\ \A i \in 1..(b + 1 - a) : u[i] = t[a + i - 1]
      <4>1. \A i \in a..b : t[i] \in Nat
        BY <2>2 DEF Codes
      <4>2. b <= Len(t) /\ a \in Int /\ b \in Int
        BY <2>2
      <4>3. SubSeq(t, a, b) \in Seq(Nat)
        BY <4>1, <4>2, SubSeqProperties
      <4>4. CASE a <= b
        BY <2>2, <3>1, <4>1, <4>2, <4>3, <4>4, SubSeqProperties DEF Codes
      <4>5. CASE a = b + 1
        <5>1. u = <<>>
          BY <3>1, <4>5, SubSeqEmpty
        <5> QED BY <4>3, <3>1, <4>5, <5>1 DEF Codes
      <4>6. a <= b \/ a = b + 1
        BY <2>3
      <4> QED BY <4>4, <4>5, <4>6
    <3>3. PICK c \in Nat \ {0} : c = a + 1
      OBVIOUS
    <3>4. PICK d \in Nat : d = b + 1
      OBVIOUS
    <3>5. Len(u) = d + 1 - c
      BY <3>2, <3>3, <3>4
    <3>6. \A i \in 1..Len(u) : u[i] = s[c + i - 1]
      <4> SUFFICES ASSUME NEW i \in 1..Len(u) PROVE u[i] = s[c + i - 1]
          OBVIOUS
      <4>1. i \in 1..(b + 1 - a) /\ a + i - 1 \in 1..(n - 1)
            /\ (a + i - 1) + 1 = c + i - 1
        BY <3>2, <3>3
      <4> QED BY <2>2, <3>2, <4>1
    <3>7. /\ IsTerm(u) <=> TermIn(s, c, d)
          /\ AllMinus(u) <=> MinusIn(s, c, d)
      BY <3>2, <3>5, <3>6, TermOf
    <3> QED BY <3>1, <3>3, <3>4, <3>7
  <2>4. /\ IsTerm(t) <=> TermIn(s, 2, n)
        /\ AllMinus(t) <=> MinusIn(s, 2, n)
    <3>1. Len(t) = n + 1 - 2 /\ 2 \in Nat \ {0}
      BY <2>2
    <3>2. \A i \in 1..Len(t) : t[i] = s[2 + i - 1]
      <4> SUFFICES ASSUME NEW i \in 1..Len(t) PROVE t[i] = s[2 + i - 1]
          OBVIOUS
      <4>1. i \in 1..(n - 1) /\ i + 1 = 2 + i - 1
        BY <2>2
      <4> QED BY <2>2, <4>1
    <3> QED BY <3>1, <3>2, TermOf
  <2>5. ASSUME NEW j \in 1..(n - 1)
        PROVE  /\ t[j] = s[j + 1]
               /\ IsTerm(SubSeq(t, 1, j - 1)) <=> TermIn(s, 2, (j + 1) - 1)
               /\ IsTerm(SubSeq(t, j + 1, n - 1)) <=> TermIn(s, (j + 1) + 1, n)
               /\ AllMinus(SubSeq(t, j + 1, n - 1)) <=> MinusIn(s, (j + 1) + 1, n)
    <3>1. /\ 1 \in 1..n /\ j - 1 \in 0..(n - 1) /\ 1 <= (j - 1) + 1
          /\ j + 1 \in 1..n /\ n - 1 \in 0..(n - 1) /\ j + 1 <= (n - 1) + 1
      BY <1>3
    <3>2. 1 + 1 = 2 /\ (j - 1) + 1 = (j + 1) - 1 /\ (n - 1) + 1 = n
      OBVIOUS
    <3>3. IsTerm(SubSeq(t, 1, j - 1)) <=> TermIn(s, 1 + 1, (j - 1) + 1)
      BY <2>3, <3>1
    <3>4. /\ IsTerm(SubSeq(t, j + 1, n - 1)) <=> TermIn(s, (j + 1) + 1, (n - 1) + 1)
          /\ AllMinus(SubSeq(t, j + 1, n - 1)) <=> MinusIn(s, (j + 1) + 1, (n - 1) + 1)
      BY <2>3, <3>1
    <3> QED BY <2>2, <3>2, <3>3, <3>4
  <2>6. \A k \in 2..n : k - 1 \in 1..(n - 1) /\ (k - 1) + 1 = k
    OBVIOUS
  <2>7. \A j \in 1..(n - 1) : j + 1 \in 2..n
    OBVIOUS
  <2>8. (\E j \in DOMAIN t : /\ t[j] \in Operators
                             /\ IsTerm(SubSeq(t, 1, j - 1))
                             /\ IsTerm(SubSeq(t, j + 1, Len(t))))
        <=> \E k \in 2..n : OperatorAt(s, k) /\ TermIn(s, k + 1, n)
    <3>1. ASSUME NEW j \in 1..(n - 1), t[j] \in Operators,
                 IsTerm(SubSeq(t, 1, j - 1)), IsTerm(SubSeq(t, j + 1, n - 1))
          PROVE  \E k \in 2..n : OperatorAt(s, k) /\ TermIn(s, k + 1, n)
      BY <2>5, <2>7, <3>1 DEF OperatorAt
    <3>2. ASSUME NEW k \in 2..n, OperatorAt(s, k), TermIn(s, k + 1, n)
          PROVE  \E j \in 1..(n - 1) : /\ t[j] \in Operators
                                       /\ IsTerm(SubSeq(t, 1, j - 1))
                                       /\ IsTerm(SubSeq(t, j + 1, n - 1))
      <4>1. PICK j \in 1..(n - 1) : j = k - 1 /\ j + 1 = k
        BY <2>6
      <4> QED BY <2>5, <3>2, <4>1 DEF OperatorAt
    <3> QED BY <2>2, <3>1, <3>2
  <2>9. (\E j \in DOMAIN t : /\ t[j] \in Operators
                             /\ IsTerm(SubSeq(t, 1, j - 1))
                             /\ AllMinus(SubSeq(t, j + 1, Len(t))))
        <=> \E k \in 2..n : OperatorAt(s, k) /\ MinusIn(s, k + 1, n)
    <3>1. ASSUME NEW j \in 1..(n - 1), t[j] \in Operators,
                 IsTerm(SubSeq(t, 1, j - 1)), AllMinus(SubSeq(t, j + 1, n - 1))
          PROVE  \E k \in 2..n : OperatorAt(s, k) /\ MinusIn(s, k + 1, n)
      BY <2>5, <2>7, <3>1 DEF OperatorAt
    <3>2. ASSUME NEW k \in 2..n, OperatorAt(s, k), MinusIn(s, k + 1, n)
          PROVE  \E j \in 1..(n - 1) : /\ t[j] \in Operators
                                       /\ IsTerm(SubSeq(t, 1, j - 1))
                                       /\ AllMinus(SubSeq(t, j + 1, n - 1))
      <4>1. PICK j \in 1..(n - 1) : j = k - 1 /\ j + 1 = k
        BY <2>6
      <4> QED BY <2>5, <3>2, <4>1 DEF OperatorAt
    <3> QED BY <2>2, <3>1, <3>2
  <2>10. t = <<>> <=> n = 1
    <3>1. PICK k \in Nat : k = Len(t) /\ k = n - 1
      BY <2>2
    <3>2. t = <<>> <=> k = 0
      BY <2>2, <3>1, EmptySeq DEF Codes
    <3> QED BY <3>1, <3>2
  <2>11. IsSentence(s) <=> ReadsWhole(s)
    BY <1>1, <1>3, <2>1, <2>2, <2>4, <2>8, <2>10 DEF IsSentence, IsExpression, ReadsWhole
  <2> QED BY <1>1, <1>3, <2>1, <2>2, <2>4, <2>9, <2>11 DEF IsPrefixOfSentence, ReadsPart
<1> QED BY <1>2, <1>3

\* The operators, and what an operand ends with.
LEMMA TokensApart ==
  /\ NUMBER \notin Operators /\ NAME \notin Operators
  /\ MINUS \notin {NUMBER, NAME} /\ RETURN \notin Operators \cup {NUMBER, NAME, MINUS}
BY DEF NUMBER, NAME, MINUS, RETURN, Operators

\* The first operand ends at one place, and nothing behind its operator makes
\* it a term or a row of minus signs again.
LEMMA OneOperator ==
  ASSUME NEW h, NEW j \in Nat, OperatorAt(h, j)
  PROVE  /\ \A k \in Nat : OperatorAt(h, k) => k = j
         /\ \A m \in Nat : m >= j => ~TermIn(h, 2, m) /\ ~MinusIn(h, 2, m)
<1>1. j > 2 /\ h[j - 1] \in {NUMBER, NAME} /\ \A i \in 2..(j - 2) : h[i] = MINUS
  <2>1. 2 <= j - 1 /\ h[j - 1] \in {NUMBER, NAME} /\ \A i \in 2..((j - 1) - 1) : h[i] = MINUS
    BY DEF OperatorAt, TermIn, MinusIn
  <2>2. (j - 1) - 1 = j - 2
    OBVIOUS
  <2> QED BY <2>1, <2>2
<1>2. ASSUME NEW k \in Nat, OperatorAt(h, k) PROVE k = j
  <2>1. k > 2 /\ h[k - 1] \in {NUMBER, NAME} /\ \A i \in 2..(k - 2) : h[i] = MINUS
    <3>1. 2 <= k - 1 /\ h[k - 1] \in {NUMBER, NAME} /\ \A i \in 2..((k - 1) - 1) : h[i] = MINUS
      BY <1>2 DEF OperatorAt, TermIn, MinusIn
    <3>2. (k - 1) - 1 = k - 2
      OBVIOUS
    <3> QED BY <3>1, <3>2
  <2>2. CASE k < j
    <3>1. k - 1 \in 2..(j - 2)
      BY <2>1, <2>2
    <3> QED BY <1>1, <2>1, <3>1, TokensApart
  <2>3. CASE k > j
    <3>1. j - 1 \in 2..(k - 2)
      BY <1>1, <2>3
    <3> QED BY <1>1, <2>1, <3>1, TokensApart
  <2> QED BY <2>2, <2>3
<1>3. ASSUME NEW m \in Nat, m >= j PROVE ~TermIn(h, 2, m) /\ ~MinusIn(h, 2, m)
  <2>1. j - 1 \in 2..m /\ j - 1 \in 2..(m - 1)
    BY <1>1, <1>3
  <2>2. h[j - 1] # MINUS
    BY <1>1, TokensApart
  <2> QED BY <2>1, <2>2 DEF TermIn, MinusIn
<1> QED BY <1>2, <1>3

\* A row of minus signs holds no operand, so no operator.
LEMMA NoOperator ==
  ASSUME NEW h, NEW n \in Nat, MinusIn(h, 2, n)
  PROVE  \A j \in 2..(n + 1) : ~OperatorAt(h, j)
<1> SUFFICES ASSUME NEW j \in 2..(n + 1), OperatorAt(h, j) PROVE FALSE
    OBVIOUS
<1>1. j - 1 \in 2..n /\ h[j - 1] \in {NUMBER, NAME}
  BY DEF OperatorAt, TermIn
<1> QED BY <1>1, TokensApart DEF MinusIn

\* The tokens g are f and one more.
Longer(g, f, c) ==
  /\ Len(g) = Len(f) + 1 /\ g[Len(g)] = c
  /\ \A i \in 1..Len(f) : g[i] = f[i]

\* What is read does not change with the token behind it.
LEMMA LongerParts ==
  ASSUME NEW f \in Codes, NEW g \in Codes, NEW c, Longer(g, f, c)
  PROVE  /\ \A i \in Nat \ {0}, k \in Int : k <= Len(f) =>
              /\ MinusIn(g, i, k) <=> MinusIn(f, i, k)
              /\ TermIn(g, i, k) <=> TermIn(f, i, k)
         /\ \A j \in 2..Len(f) : OperatorAt(g, j) <=> OperatorAt(f, j)
         /\ \A i \in 1..(Len(f) + 1) : /\ MinusIn(g, i, Len(f) + 1) <=> MinusIn(f, i, Len(f)) /\ c = MINUS
                                       /\ TermIn(g, i, Len(f) + 1) <=> MinusIn(f, i, Len(f)) /\ c \in {NUMBER, NAME}
<1>1. PICK n \in Nat : n = Len(f)
  BY DEF Codes
<1>2. g[n + 1] = c /\ \A i \in 1..n : g[i] = f[i]
  BY <1>1 DEF Longer
<1>3. ASSUME NEW i \in Nat \ {0}, NEW k \in Int, k <= n
      PROVE  MinusIn(g, i, k) <=> MinusIn(f, i, k)
  <2>1. \A j \in i..k : g[j] = f[j]
    BY <1>2, <1>3
  <2> QED BY <2>1 DEF MinusIn
<1>4. ASSUME NEW i \in Nat \ {0}, NEW k \in Int, k <= n
      PROVE  TermIn(g, i, k) <=> TermIn(f, i, k)
  <2>1. MinusIn(g, i, k - 1) <=> MinusIn(f, i, k - 1)
    BY <1>3, <1>4
  <2>2. i <= k => g[k] = f[k]
    BY <1>2, <1>4
  <2> QED BY <2>1, <2>2 DEF TermIn
<1>5. ASSUME NEW j \in 2..n PROVE OperatorAt(g, j) <=> OperatorAt(f, j)
  <2>1. TermIn(g, 2, j - 1) <=> TermIn(f, 2, j - 1)
    BY <1>4
  <2>2. g[j] = f[j]
    BY <1>2
  <2> QED BY <2>1, <2>2 DEF OperatorAt
<1>6. ASSUME NEW i \in 1..(n + 1)
      PROVE  /\ MinusIn(g, i, n + 1) <=> MinusIn(f, i, n) /\ c = MINUS
             /\ TermIn(g, i, n + 1) <=> MinusIn(f, i, n) /\ c \in {NUMBER, NAME}
  <2>1. MinusIn(g, i, n) <=> MinusIn(f, i, n)
    BY <1>3
  <2>2. MinusIn(g, i, n + 1) <=> MinusIn(g, i, n) /\ g[n + 1] = MINUS
    <3>1. \A j \in i..(n + 1) : j \in i..n \/ j = n + 1
      OBVIOUS
    <3>2. \A j \in i..n : j \in i..(n + 1)
      OBVIOUS
    <3>3. n + 1 \in i..(n + 1)
      OBVIOUS
    <3> QED BY <3>1, <3>2, <3>3 DEF MinusIn
  <2>3. (n + 1) - 1 = n /\ i <= n + 1
    OBVIOUS
  <2> QED BY <1>2, <2>1, <2>2, <2>3 DEF TermIn
<1> QED BY <1>1, <1>3, <1>4, <1>5, <1>6

\* A token the operand at hand cannot have there, and the end of the file.
LEMMA WrongFirst ==
  ASSUME NEW f \in Codes, NEW c \in Nat, NEW g \in Codes, Longer(g, f, c),
         Len(f) > 0, MinusIn(f, 2, Len(f))
  PROVE  /\ c \notin {NUMBER, NAME, MINUS} => ~ReadsPart(g)
         /\ Len(f) > 1 => ~ReadsWhole(f)
<1>1. PICK n \in Nat : n = Len(f) /\ n > 0 /\ Len(g) = n + 1
  BY DEF Codes, Longer
<1>2. \A j \in 2..(n + 1) : ~OperatorAt(f, j) /\ ~OperatorAt(g, j)
  <2>1. MinusIn(g, 2, n)
    BY <1>1, LongerParts
  <2> QED BY <1>1, <2>1, NoOperator
<1>3. ASSUME c \notin {NUMBER, NAME, MINUS} PROVE ~ReadsPart(g)
  <2>1. 2 \in 1..(n + 1) /\ n + 1 # 0 /\ n + 1 # 1
    BY <1>1
  <2>2. ~MinusIn(g, 2, n + 1) /\ ~TermIn(g, 2, n + 1)
    BY <1>1, <1>3, <2>1, LongerParts
  <2> QED BY <1>1, <1>2, <2>1, <2>2 DEF ReadsPart, ReadsWhole
<1>4. ASSUME n > 1 PROVE ~ReadsWhole(f)
  <2>1. ~TermIn(f, 2, n)
    <3>1. f[n] = MINUS
      BY <1>1, <1>4 DEF MinusIn
    <3> QED BY <3>1, TokensApart DEF TermIn
  <2>2. \A j \in 2..n : j \in 2..(n + 1)
    OBVIOUS
  <2> QED BY <1>1, <1>2, <1>4, <2>1, <2>2 DEF ReadsWhole
<1> QED BY <1>1, <1>3, <1>4

\* A token that is no operator behind the first operand.
LEMMA WrongOperator ==
  ASSUME NEW f \in Codes, NEW c \in Nat, NEW g \in Codes, Longer(g, f, c),
         TermIn(f, 2, Len(f)), c \notin Operators
  PROVE  ~ReadsPart(g)
<1>1. PICK n \in Nat : n = Len(f) /\ n > 1 /\ Len(g) = n + 1
  BY DEF Codes, Longer, TermIn
<1>2. ~MinusIn(f, 2, n)
  <2>1. f[n] \in {NUMBER, NAME} /\ n \in 2..n
    BY <1>1 DEF TermIn
  <2> QED BY <2>1, TokensApart DEF MinusIn
<1>3. ~MinusIn(g, 2, n + 1) /\ ~TermIn(g, 2, n + 1)
  <2>1. 2 \in 1..(n + 1)
    BY <1>1
  <2> QED BY <1>1, <1>2, <2>1, LongerParts
<1>4. \A j \in 2..n : ~OperatorAt(g, j)
  <2> SUFFICES ASSUME NEW j \in 2..n, OperatorAt(g, j) PROVE FALSE
      OBVIOUS
  <2>1. j - 1 \in 2..(n - 1) /\ f[j - 1] \in {NUMBER, NAME}
    <3>1. OperatorAt(f, j)
      BY <1>1, LongerParts
    <3> QED BY <3>1 DEF OperatorAt, TermIn
  <2>2. f[j - 1] = MINUS
    BY <1>1, <2>1 DEF TermIn, MinusIn
  <2> QED BY <2>1, <2>2, TokensApart
<1>5. ~OperatorAt(g, n + 1)
  <2>1. g[n + 1] = c
    BY <1>1 DEF Longer
  <2> QED BY <2>1 DEF OperatorAt
<1>6. \A j \in 2..(n + 1) : j \in 2..n \/ j = n + 1
  OBVIOUS
<1>7. n + 1 # 0 /\ n + 1 # 1
  BY <1>1
<1> QED BY <1>1, <1>3, <1>4, <1>5, <1>6, <1>7 DEF ReadsPart, ReadsWhole

\* The same for the second operand, behind which a sentence is over.
LEMMA WrongSecond ==
  ASSUME NEW f \in Codes, NEW c \in Nat, NEW g \in Codes, Longer(g, f, c),
         NEW j \in 2..Len(f), OperatorAt(f, j)
  PROVE  /\ MinusIn(f, j + 1, Len(f)) =>
              /\ ~ReadsWhole(f)
              /\ c \notin {NUMBER, NAME, MINUS} => ~ReadsPart(g)
         /\ TermIn(f, j + 1, Len(f)) => ~ReadsPart(g)
<1>1. PICK n \in Nat : n = Len(f) /\ n > 1 /\ Len(g) = n + 1 /\ j \in Nat /\ j <= n
  BY DEF Codes, Longer
<1>2. OperatorAt(g, j)
  BY <1>1, LongerParts
<1>3. \A k \in Nat : (OperatorAt(f, k) => k = j) /\ (OperatorAt(g, k) => k = j)
  BY <1>1, <1>2, OneOperator
<1>4. ~TermIn(f, 2, n) /\ ~TermIn(g, 2, n + 1) /\ ~MinusIn(g, 2, n + 1)
  <2>1. n + 1 \in Nat /\ n + 1 >= j
    BY <1>1
  <2> QED BY <1>1, <1>2, <2>1, OneOperator
<1>5. ReadsWhole(f) => TermIn(f, j + 1, n)
  BY <1>1, <1>3, <1>4 DEF ReadsWhole
<1>6. ReadsPart(g) => TermIn(g, j + 1, n + 1) \/ MinusIn(g, j + 1, n + 1)
  <2>1. n + 1 # 0 /\ n + 1 # 1
    BY <1>1
  <2>2. ReadsWhole(g) => TermIn(g, j + 1, n + 1)
    BY <1>1, <1>3, <1>4, <2>1 DEF ReadsWhole
  <2> QED BY <1>1, <1>3, <1>4, <2>1, <2>2 DEF ReadsPart
<1>7. /\ MinusIn(g, j + 1, n + 1) <=> MinusIn(f, j + 1, n) /\ c = MINUS
      /\ TermIn(g, j + 1, n + 1) <=> MinusIn(f, j + 1, n) /\ c \in {NUMBER, NAME}
  <2>1. j + 1 \in 1..(n + 1)
    BY <1>1
  <2> QED BY <1>1, <2>1, LongerParts
<1>8. TermIn(f, j + 1, n) => ~MinusIn(f, j + 1, n)
  <2> SUFFICES ASSUME TermIn(f, j + 1, n) PROVE ~MinusIn(f, j + 1, n)
      OBVIOUS
  <2>1. f[n] \in {NUMBER, NAME} /\ n \in (j + 1)..n
    BY <1>1 DEF TermIn
  <2> QED BY <2>1, TokensApart DEF MinusIn
<1> QED BY <1>1, <1>5, <1>6, <1>7, <1>8

\* One token more is a sequence with the token behind it.
LEMMA AppendLonger ==
  ASSUME NEW f \in Codes, NEW c \in Nat
  PROVE  Append(f, c) \in Codes /\ Longer(Append(f, c), f, c)
BY DEF Codes, Longer

\* What the stack stands for is the beginning of a sentence.
LEMMA ReadingPrefix ==
  ASSUME NEW s, NEW b \in BOOLEAN, NEW f \in Codes, Reading(s, b, f)
  PROVE  IsPrefixOfSentence(f)
<1>1. PICK n \in Nat : n = Len(f)
  BY DEF Codes
<1>2. CASE s = 0 /\ f = <<>>
  BY <1>2 DEF IsPrefixOfSentence
<1>3. CASE s \in {2, 6} /\ IsSentence(f)
  BY <1>3 DEF IsPrefixOfSentence
<1>4. CASE n > 0 /\ f[1] = RETURN /\ ~b /\ Part(s, f, 2)
  <2>1. n = 1 \/ MinusIn(f, 2, n) \/ TermIn(f, 2, n)
    BY <1>1, <1>4 DEF Part
  <2>2. ReadsPart(f)
    BY <1>1, <1>4, <2>1 DEF ReadsPart, ReadsWhole
  <2> QED BY <2>2, SentenceIs
<1>5. CASE /\ n > 0 /\ f[1] = RETURN
           /\ \E j \in 2..n : OperatorAt(f, j) /\ Part(s, f, j + 1)
  <2>1. PICK j \in 2..n : OperatorAt(f, j) /\ Part(s, f, j + 1)
    BY <1>5
  <2>2. MinusIn(f, j + 1, n) \/ TermIn(f, j + 1, n)
    BY <1>1, <2>1 DEF Part, MinusIn
  <2>3. ReadsPart(f)
    BY <1>1, <1>5, <2>1, <2>2 DEF ReadsPart, ReadsWhole
  <2> QED BY <2>3, SentenceIs
<1> QED BY <1>1, <1>2, <1>3, <1>4, <1>5 DEF Reading

\* The tokens the tables admit in a state, and the state each leads to
\* (y.tab.c:613-677).
Admits(s, c, u) ==
  \/ s = 0 /\ c = RETURN /\ u = 1
  \/ s \in {1, 5} \cup 10..19 /\ c \in {NUMBER, NAME} /\ u \in {3, 4}
  \/ s \in {1, 5} \cup 10..19 /\ c = MINUS /\ u = 5
  \/ s = 7 /\ c \in Operators /\ u \in 10..19

\* A shift: the operand goes on, or the operator behind the first one.
LEMMA ReadingShift ==
  ASSUME NEW s, NEW b \in BOOLEAN, NEW f \in Codes, Reading(s, b, f),
         NEW c \in Nat, NEW g \in Codes, Longer(g, f, c),
         NEW u, Admits(s, c, u),
         NEW d \in BOOLEAN, d <=> b \/ s = 7, s \in {0, 7} => ~b
  PROVE  Reading(u, d, g)
<1>1. PICK n \in Nat : n = Len(f) /\ Len(g) = n + 1
  BY DEF Codes, Longer
<1>2. /\ g[n + 1] = c /\ \A i \in 1..n : g[i] = f[i]
  BY <1>1 DEF Longer
<1>3. ASSUME n > 0, f[1] = RETURN, NEW i \in 2..(n + 1), Part(s, f, i),
             s \in {1, 5} \cup 10..19
      PROVE  Part(u, g, i)
  <2>1. MinusIn(f, i, n)
    BY <1>1, <1>3 DEF Part, MinusIn
  <2>2. i \in 1..(n + 1)
    BY <1>3
  <2>3. c = MINUS => MinusIn(g, i, n + 1)
    BY <1>1, <2>1, <2>2, LongerParts
  <2>4. c \in {NUMBER, NAME} => TermIn(g, i, n + 1)
    BY <1>1, <2>1, <2>2, LongerParts
  <2>5. i <= n + 1
    BY <1>3
  <2>6. \/ c = MINUS /\ u = 5
        \/ c \in {NUMBER, NAME} /\ u \in {3, 4}
    BY <1>3 DEF Admits
  <2> QED BY <1>1, <2>3, <2>4, <2>5, <2>6 DEF Part
<1>4. CASE s = 0
  <2>1. n = 0 /\ c = RETURN /\ u = 1 /\ ~d
    <3>1. f = <<>>
      BY <1>4 DEF Reading, Part
    <3> QED BY <1>1, <1>4, <3>1 DEF Admits
  <2>2. Len(g) = 2 - 1 /\ Len(g) > 0 /\ g[1] = RETURN
    BY <1>1, <1>2, <2>1
  <2> QED BY <2>1, <2>2 DEF Reading, Part
<1>5. CASE s \in {1, 5} \cup 10..19
  <2>1. n > 0 /\ f[1] = RETURN /\ (d <=> b)
    BY <1>1, <1>5 DEF Reading
  <2>2. Len(g) > 0 /\ g[1] = RETURN
    BY <1>1, <1>2, <2>1
  <2>3. CASE ~b
    <3>1. Part(s, f, 2)
      BY <1>5, <2>3 DEF Reading
    <3>2. 2 \in 2..(n + 1)
      BY <2>1
    <3>3. Part(u, g, 2)
      BY <1>3, <1>5, <2>1, <3>1, <3>2
    <3> QED BY <2>1, <2>2, <2>3, <3>3 DEF Reading
  <2>4. CASE b
    <3>1. PICK j \in 2..n : OperatorAt(f, j) /\ Part(s, f, j + 1)
      BY <1>1, <1>5, <2>4 DEF Reading
    <3>2. j + 1 \in 2..(n + 1) /\ j \in 2..(n + 1)
      OBVIOUS
    <3>3. Part(u, g, j + 1)
      BY <1>3, <1>5, <2>1, <3>1, <3>2
    <3>4. OperatorAt(g, j)
      BY <1>1, <3>1, LongerParts
    <3> QED BY <1>1, <2>1, <2>2, <2>4, <3>2, <3>3, <3>4 DEF Reading
  <2> QED BY <2>3, <2>4
<1>6. CASE s = 7
  <2>1. n > 0 /\ f[1] = RETURN /\ TermIn(f, 2, n) /\ d /\ c \in Operators /\ u \in 10..19
    BY <1>1, <1>6 DEF Reading, Part, Admits
  <2>2. Len(g) > 0 /\ g[1] = RETURN /\ n + 1 \in 2..(n + 1) /\ (n + 1) - 1 = n
    BY <1>1, <1>2, <2>1
  <2>3. TermIn(g, 2, n)
    BY <1>1, <2>1, LongerParts
  <2>4. OperatorAt(g, n + 1)
    BY <1>2, <2>1, <2>2, <2>3 DEF OperatorAt
  <2>5. Part(u, g, (n + 1) + 1)
    <3>1. Len(g) = ((n + 1) + 1) - 1
      BY <1>1
    <3> QED BY <2>1, <3>1 DEF Part
  <2> QED BY <1>1, <2>1, <2>2, <2>4, <2>5 DEF Reading
<1> QED BY <1>4, <1>5, <1>6 DEF Admits

\* What a default reduction of a state leaves to read
\* (y.tab.c:599-640, the rules of test.y:451 and 483-540).
LEMMA ReadingReduce ==
  ASSUME NEW s, NEW b \in BOOLEAN, NEW f \in Codes, Reading(s, b, f),
         NEW u, NEW d \in BOOLEAN,
         \/ s \in {3, 4, 9} /\ u \in {7, 9} \cup 20..29 /\ (d <=> b)
         \/ s = 7 /\ ~b /\ u = 6
         \/ s \in 20..29 /\ b /\ u = 6
         \/ s \in {1, 6} /\ ~b /\ u = 2
  PROVE  Reading(u, d, f)
<1>1. PICK n \in Nat : n = Len(f)
  BY DEF Codes
<1>2. CASE s \in {3, 4, 9}
  <2>1. s \in {3, 4, 7, 9} \cup 20..29 /\ s \notin {1, 5} \cup 10..19
        /\ u \in {3, 4, 7, 9} \cup 20..29
    BY <1>2
  <2>2. ASSUME NEW i, Part(s, f, i) PROVE Part(u, f, i)
    <3>1. TermIn(f, i, Len(f))
      BY <2>1, <2>2 DEF Part
    <3> QED BY <2>1, <3>1 DEF Part
  <2> QED BY <1>2, <2>2 DEF Reading
<1>3. CASE s = 7
  <2>1. n > 0 /\ f[1] = RETURN /\ TermIn(f, 2, n)
    BY <1>1, <1>3 DEF Reading, Part
  <2>2. IsSentence(f)
    BY <1>1, <2>1, SentenceIs DEF ReadsWhole
  <2> QED BY <1>3, <2>2 DEF Reading
<1>4. CASE s \in 20..29
  <2>1. n > 0 /\ f[1] = RETURN /\ \E j \in 2..n : OperatorAt(f, j) /\ TermIn(f, j + 1, n)
    BY <1>1, <1>4 DEF Reading, Part
  <2>2. IsSentence(f)
    BY <1>1, <2>1, SentenceIs DEF ReadsWhole
  <2> QED BY <1>4, <2>2 DEF Reading
<1>5. CASE s = 1
  <2>1. n > 0 /\ f[1] = RETURN /\ n = 1
    BY <1>1, <1>5 DEF Reading, Part
  <2>2. IsSentence(f)
    BY <1>1, <2>1, SentenceIs DEF ReadsWhole
  <2> QED BY <1>5, <2>2 DEF Reading
<1>6. CASE s = 6
  BY <1>6 DEF Reading, Part
<1> QED BY <1>2, <1>3, <1>4, <1>5, <1>6

\* A token a state has no entry for: no sentence goes on with it, when the state
\* stands for the end of an operand or the beginning of one.
LEMMA ReadingRejects ==
  ASSUME NEW s, NEW b \in BOOLEAN, NEW f \in Codes, Reading(s, b, f),
         NEW c \in Nat, ~ \E u : Admits(s, c, u),
         \/ s = 0
         \/ s \in {1, 5} \cup 10..19
         \/ s = 7 /\ ~b
  PROVE  ~IsPrefixOfSentence(Append(f, c))
<1>1. PICK g \in Codes : g = Append(f, c) /\ Longer(g, f, c)
  BY AppendLonger
<1>2. PICK n \in Nat : n = Len(f) /\ Len(g) = n + 1
  BY <1>1 DEF Codes, Longer
<1> SUFFICES ~ReadsPart(g)
  BY <1>1, SentenceIs
<1>3. CASE s = 0
  <2>1. n = 0 /\ c # RETURN
    <3>1. f = <<>>
      BY <1>3 DEF Reading, Part
    <3> QED BY <1>2, <1>3, <3>1 DEF Admits
  <2>2. g[1] # RETURN /\ Len(g) # 0
    BY <1>1, <1>2, <2>1 DEF Longer
  <2> QED BY <2>2 DEF ReadsPart, ReadsWhole
<1>4. CASE s \in {1, 5} \cup 10..19
  <2>1. c \notin {NUMBER, NAME, MINUS}
    BY <1>4 DEF Admits
  <2>2. n > 0 /\ f[1] = RETURN
    BY <1>2, <1>4 DEF Reading
  <2>3. CASE ~b
    <3>1. MinusIn(f, 2, n)
      BY <1>2, <1>4, <2>3 DEF Reading, Part, MinusIn
    <3> QED BY <1>1, <1>2, <2>1, <2>2, <3>1, WrongFirst
  <2>4. CASE b
    <3>1. PICK j \in 2..n : OperatorAt(f, j) /\ Part(s, f, j + 1)
      BY <1>2, <1>4, <2>4 DEF Reading
    <3>2. MinusIn(f, j + 1, n)
      BY <1>2, <1>4, <3>1 DEF Part, MinusIn
    <3> QED BY <1>1, <1>2, <2>1, <3>1, <3>2, WrongSecond
  <2> QED BY <2>3, <2>4
<1>5. CASE s = 7 /\ ~b
  <2>1. c \notin Operators
    BY <1>5 DEF Admits
  <2>2. TermIn(f, 2, n)
    BY <1>2, <1>5 DEF Reading, Part
  <2> QED BY <1>1, <1>2, <2>1, <2>2, WrongOperator
<1> QED BY <1>3, <1>4, <1>5

\* No token can follow a second operand that is complete.
LEMMA ReadingEnds ==
  ASSUME NEW s \in 20..29, NEW f \in Codes, Reading(s, TRUE, f), NEW c \in Nat
  PROVE  ~IsPrefixOfSentence(Append(f, c))
<1>1. PICK g \in Codes : g = Append(f, c) /\ Longer(g, f, c)
  BY AppendLonger
<1>2. PICK j \in 2..Len(f) : OperatorAt(f, j) /\ TermIn(f, j + 1, Len(f))
  BY DEF Reading, Part
<1>3. ~ReadsPart(g)
  BY <1>1, <1>2, WrongSecond
<1> QED BY <1>1, <1>3, SentenceIs

\* Where an operand has to come, the end of the file is an error.
LEMMA ReadingUnfinished ==
  ASSUME NEW s \in {0, 5} \cup 10..19, NEW b \in BOOLEAN, NEW f \in Codes,
         Reading(s, b, f), s \in 10..19 => b
  PROVE  ~IsSentence(f)
<1> SUFFICES ~ReadsWhole(f)
  BY SentenceIs
<1>1. PICK n \in Nat : n = Len(f)
  BY DEF Codes
<1>2. CASE s = 0
  <2>1. f = <<>>
    BY <1>2 DEF Reading, Part
  <2> QED BY <2>1 DEF ReadsWhole
<1>3. CASE s # 0
  <2>1. n > 0 /\ f[1] = RETURN
    BY <1>1, <1>3 DEF Reading
  <2>g. PICK g \in Codes : Longer(g, f, 0)
    BY AppendLonger
  <2>2. CASE ~b
    <3>1. MinusIn(f, 2, n) /\ n > 1
      BY <1>1, <1>3, <2>2 DEF Reading, Part
    <3> QED BY <1>1, <2>1, <2>g, <3>1, WrongFirst
  <2>3. CASE b
    <3>1. PICK j \in 2..n : OperatorAt(f, j) /\ Part(s, f, j + 1)
      BY <1>1, <1>3, <2>3 DEF Reading
    <3>2. MinusIn(f, j + 1, n)
      BY <1>1, <1>3, <3>1 DEF Part, MinusIn
    <3> QED BY <1>1, <2>g, <3>1, <3>2, WrongSecond
  <2> QED BY <2>2, <2>3
<1> QED BY <1>2, <1>3

\* The state a state follows, by the tables (y.tab.c:613-677).
LEMMA FollowsFrom ==
  ASSUME NEW s \in 0..29, NEW u, u \in Follows(s)
  PROVE  /\ u # 0
         /\ u \in {1, 2} => s = 0
         /\ u \in {6, 7} => s = 1
         /\ u \in 10..19 => s = 7
         /\ u \in 20..29 => s \in 10..19
         /\ u \in {3, 4, 5} => s \in {1, 5} \cup 10..19
         /\ u = 9 => s = 5
         /\ u # 8
BY DEF Follows

\* Where a state of the automaton can be on the stack: the operator of an
\* expression and its second operand are above state 7.
LEMMA PathShape ==
  ASSUME NEW ss, Path(ss), NEW i \in 1..Len(ss)
  PROVE  /\ ss[i] = 0 => i = 1
         /\ ss[i] \in {1, 2} => i = 2
         /\ ss[i] \in {6, 7} => i = 3
         /\ ss[i] \in 10..19 => i = 4 /\ ss[3] = 7
         /\ ss[i] \in 20..29 => i = 5 /\ ss[3] = 7
<1>1. /\ ss \in Seq(0..29) /\ Len(ss) \in Nat \ {0} /\ ss[1] = 0
      /\ \A k \in 1..(Len(ss) - 1) : ss[k + 1] \in Follows(ss[k])
      /\ \A k \in 1..Len(ss) : ss[k] \in 0..29
  BY EmptySeq, LenProperties, ElementOfSeq DEF Path
<1>2. ASSUME NEW k \in 1..Len(ss), k # 1
      PROVE  k - 1 \in 1..Len(ss) /\ ss[k] \in Follows(ss[k - 1]) /\ ss[k - 1] \in 0..29
  <2>1. k - 1 \in 1..(Len(ss) - 1) /\ k - 1 \in 1..Len(ss) /\ (k - 1) + 1 = k
    BY <1>1, <1>2
  <2>2. ss[(k - 1) + 1] \in Follows(ss[k - 1])
    BY <1>1, <2>1
  <2> QED BY <1>1, <2>1, <2>2
<1>3. ASSUME NEW k \in 1..Len(ss), ss[k] = 0 PROVE k = 1
  <2> SUFFICES ASSUME k # 1 PROVE FALSE
      OBVIOUS
  <2>1. ss[k] \in Follows(ss[k - 1]) /\ ss[k - 1] \in 0..29
    BY <1>2
  <2>2. ss[k] # 0
    BY <2>1, FollowsFrom, Zenon
  <2> QED BY <1>3, <2>2
<1>4. ASSUME NEW k \in 1..Len(ss), ss[k] \in {1, 2} PROVE k = 2
  <2>1. k # 1
    BY <1>1, <1>4
  <2>2. ss[k - 1] = 0
    BY <1>2, <1>4, <2>1, FollowsFrom
  <2>3. k - 1 = 1
    BY <1>2, <1>3, <2>1, <2>2
  <2> QED BY <2>3
<1>5. ASSUME NEW k \in 1..Len(ss), ss[k] \in {6, 7} PROVE k = 3
  <2>1. k # 1
    BY <1>1, <1>5
  <2>2. ss[k - 1] = 1
    BY <1>2, <1>5, <2>1, FollowsFrom
  <2>3. k - 1 = 2
    BY <1>2, <1>4, <2>1, <2>2
  <2> QED BY <2>3
<1>6. ASSUME NEW k \in 1..Len(ss), ss[k] \in 10..19 PROVE k = 4 /\ ss[3] = 7
  <2>1. k # 1
    BY <1>1, <1>6
  <2>2. ss[k - 1] = 7
    BY <1>2, <1>6, <2>1, FollowsFrom
  <2>3. k - 1 = 3
    BY <1>2, <1>5, <2>1, <2>2
  <2> QED BY <2>2, <2>3
<1>7. ASSUME NEW k \in 1..Len(ss), ss[k] \in 20..29 PROVE k = 5 /\ ss[3] = 7
  <2>1. k # 1
    BY <1>1, <1>7
  <2>2. ss[k - 1] \in 10..19
    BY <1>2, <1>7, <2>1, FollowsFrom
  <2>3. k - 1 = 4 /\ ss[3] = 7
    BY <1>2, <1>6, <2>1, <2>2
  <2> QED BY <2>3
<1> QED BY <1>3, <1>4, <1>5, <1>6, <1>7

\* Whether an operator is on the stack, by the state on top.
LEMMA BehindIs ==
  ASSUME NEW ss, Path(ss)
  PROVE  /\ Last(ss) \in {0, 1, 2, 6, 7} => ~Behind(ss)
         /\ Last(ss) \in 10..29 => Behind(ss)
<1>1. PICK n \in Nat \ {0} : n = Len(ss) /\ Last(ss) = ss[n] /\ n \in 1..Len(ss)
  BY EmptySeq, LenProperties DEF Path, Last
<1>2. /\ ss[n] = 0 => n = 1
      /\ ss[n] \in {1, 2} => n = 2
      /\ ss[n] \in {6, 7} => n = 3
      /\ ss[n] \in 10..19 => n = 4 /\ ss[3] = 7
      /\ ss[n] \in 20..29 => n = 5 /\ ss[3] = 7
  BY <1>1, PathShape, Zenon
<1>3. ASSUME ss[n] \in {0, 1, 2, 6, 7} PROVE ~Behind(ss)
  <2>1. n <= 3
    BY <1>2, <1>3
  <2> QED BY <1>1, <2>1 DEF Behind
<1>4. ASSUME ss[n] \in 10..29 PROVE Behind(ss)
  <2>1. n >= 4 /\ ss[3] = 7
    BY <1>2, <1>4
  <2> QED BY <1>1, <2>1 DEF Behind
<1> QED BY <1>1, <1>3, <1>4

\* A push puts an operator on the stack when it is above state 7.
LEMMA BehindPushed ==
  ASSUME NEW ss, Path(ss), NEW s \in 0..29, Path(Append(ss, s))
  PROVE  Behind(Append(ss, s)) <=> Behind(ss) \/ Last(ss) = 7
<1>1. PICK n \in Nat \ {0} : n = Len(ss) /\ Last(ss) = ss[n] /\ n \in 1..Len(ss)
  BY EmptySeq, LenProperties DEF Path, Last
<1>2. PICK up : up = Append(ss, s)
  OBVIOUS
<1>3. Len(up) = n + 1 /\ \A i \in 1..n : up[i] = ss[i]
  BY <1>1, <1>2 DEF Path
<1>4. CASE n >= 4
  <2>1. Behind(up) <=> Behind(ss)
    <3>1. 3 \in 1..n
      BY <1>4
    <3> QED BY <1>1, <1>3, <1>4, <3>1 DEF Behind
  <2>2. ss[n] # 7
    BY <1>1, <1>4, PathShape
  <2> QED BY <1>1, <1>2, <2>1, <2>2
<1>5. CASE n = 3
  <2>1. 3 \in 1..n
    BY <1>5
  <2> QED BY <1>1, <1>2, <1>3, <1>5, <2>1 DEF Behind
<1>6. CASE n < 3
  <2>1. ss[n] # 7
    BY <1>1, <1>6, PathShape
  <2> QED BY <1>1, <1>2, <1>3, <1>6, <2>1 DEF Behind
<1> QED BY <1>4, <1>5, <1>6

\* Popping the rest of an operand leaves the operator where it is.
LEMMA BehindPopped ==
  ASSUME NEW ss, Path(ss), NEW m \in 1..(Len(ss) - 1), ss[m] # 7
  PROVE  Behind(SubSeq(ss, 1, m)) \/ Last(SubSeq(ss, 1, m)) = 7
           <=> m >= 4 /\ ss[3] = 7
<1>1. m \in 1..Len(ss) /\ m \in Nat
  <2>1. Len(ss) \in Nat
    BY LenProperties DEF Path
  <2> QED BY <2>1
<1>2. PICK below : below = SubSeq(ss, 1, m)
  OBVIOUS
<1>3. Path(below) /\ Len(below) = m /\ Last(below) = ss[m]
  BY <1>1, <1>2, PopPath
<1>4. \A i \in 1..m : below[i] = ss[i]
  <2>1. ss \in Seq(0..29) /\ Len(ss) \in Nat /\ m <= Len(ss)
    BY <1>1, LenProperties DEF Path
  <2>2. ASSUME NEW i \in 1..m PROVE ss[i] \in 0..29
    <3>1. i \in 1..Len(ss)
      BY <1>1, <2>1
    <3> QED BY <2>1, <3>1, ElementOfSeq
  <2> QED BY <1>1, <1>2, <2>1, <2>2, SubSeqProperties
<1>5. m >= 4 => 3 \in 1..m
  BY <1>1
<1> QED BY <1>1, <1>2, <1>3, <1>4, <1>5 DEF Behind

\* The entries of the action table are the tokens a state admits, and the end
\* of the file behind a whole sentence (y.tab.c:562-583, 606-677).
LEMMA EntriesAdmit ==
  ASSUME yystate \in 0..29, yychar \in Nat, HasEntry
  PROVE  \/ yystate = 2 /\ yychar = 0 /\ At(yytable, Index) = YYFINAL
         \/ Admits(yystate, yychar, At(yytable, Index)) /\ At(yytable, Index) # YYFINAL
<1> DEFINE t == Translate(yychar)
<1>1. t \in 0..26
  BY DEF Translate, YYNTOKENS, YYUNDEFTOK
<1>2. t # 2 => At(yytoknum, t) = yychar
  BY DEF Translate, YYNTOKENS, YYUNDEFTOK
<1> HIDE DEF t
<1>3. At(yypact, yystate) # -5 /\ Index \in 0..35 /\ At(yycheck, Index) = t
      /\ Index = At(yypact, yystate) + t
  BY DEF HasEntry, Index, t, YYPACT_NINF, YYLAST
<1>4. yystate \in {0, 1, 2, 5, 7} \cup 10..19
  BY <1>3 DEF At, yypact
<1>5. /\ At(yytoknum, 0) = 0 /\ At(yytoknum, 3) = NUMBER /\ At(yytoknum, 4) = NAME
      /\ At(yytoknum, 6) = RETURN /\ At(yytoknum, 18) = MINUS
      /\ \A u \in 17..26 : At(yytoknum, u) \in Operators
  BY DEF At, yytoknum, NUMBER, NAME, RETURN, MINUS, Operators
<1>6. CASE yystate = 0
  <2>1. t = 6 /\ At(yytable, Index) = 1
    BY <1>1, <1>3, <1>6 DEF At, yypact, yycheck, yytable
  <2> QED BY <1>2, <1>5, <1>6, <2>1 DEF Admits, YYFINAL
<1>7. CASE yystate \in {1, 5} \cup 10..19
  <2>1. At(yypact, yystate) = -3
    BY <1>7 DEF At, yypact
  <2>2. \/ t \in {3, 4} /\ At(yytable, Index) \in {3, 4}
        \/ t = 18 /\ At(yytable, Index) = 5
    BY <1>1, <1>3, <2>1 DEF At, yycheck, yytable
  <2>3. \/ yychar \in {NUMBER, NAME} /\ At(yytable, Index) \in {3, 4}
        \/ yychar = MINUS /\ At(yytable, Index) = 5
    BY <1>2, <1>5, <2>2
  <2> QED BY <1>7, <2>3 DEF Admits, YYFINAL
<1>8. CASE yystate = 2
  <2>1. t = 0 /\ At(yytable, Index) = 8
    BY <1>1, <1>3, <1>8 DEF At, yypact, yycheck, yytable
  <2> QED BY <1>2, <1>5, <1>8, <2>1 DEF YYFINAL
<1>9. CASE yystate = 7
  <2>1. t \in 17..26 /\ At(yytable, Index) \in 10..19
    BY <1>1, <1>3, <1>9 DEF At, yypact, yycheck, yytable
  <2>2. yychar \in Operators
    BY <1>2, <1>5, <2>1
  <2> QED BY <1>9, <2>1, <2>2 DEF Admits, YYFINAL
<1> QED BY <1>4, <1>6, <1>7, <1>8, <1>9

\* The symbol number of a token is its place in yytoknum (y.tab.c:525-532).
LEMMA TranslateIs == \A t \in 0..26 : Translate(At(yytoknum, t)) = t
<1>1. \A t \in 0..26, u \in 0..26 : At(yytoknum, t) = At(yytoknum, u) => t = u
  BY DEF At, yytoknum
<1>2. ASSUME NEW t \in 0..26 PROVE Translate(At(yytoknum, t)) = t
  <2>1. PICK c : c = At(yytoknum, t)
    OBVIOUS
  <2>2. PICK u : u = Translate(c)
    OBVIOUS
  <2>3. u \in 0..26 /\ At(yytoknum, u) = c
    BY <2>1, <2>2 DEF Translate, YYNTOKENS
  <2> QED BY <1>1, <2>1, <2>2, <2>3
<1> QED BY <1>2

\* Every token a state admits has an entry (y.tab.c:562-583, 606-677).
LEMMA AdmitsEntry ==
  ASSUME NEW u, Admits(yystate, yychar, u)
  PROVE  HasEntry
<1> DEFINE t == Translate(yychar)
<1>1. /\ At(yytoknum, 3) = NUMBER /\ At(yytoknum, 4) = NAME
      /\ At(yytoknum, 6) = RETURN /\ At(yytoknum, 18) = MINUS
  BY DEF At, yytoknum, NUMBER, NAME, RETURN, MINUS
<1>2. \A c \in Operators : \E v \in 17..26 : At(yytoknum, v) = c
  <2>1. /\ At(yytoknum, 17) = 43 /\ At(yytoknum, 18) = 45 /\ At(yytoknum, 19) = 42
        /\ At(yytoknum, 20) = 47 /\ At(yytoknum, 21) = 60 /\ At(yytoknum, 22) = 62
        /\ At(yytoknum, 23) = 266 /\ At(yytoknum, 24) = 267 /\ At(yytoknum, 25) = 268
        /\ At(yytoknum, 26) = 269
    BY DEF At, yytoknum
  <2> HIDE DEF At
  <2> QED BY <2>1 DEF Operators
<1> HIDE DEF t
<1>q. ASSUME NEW p \in Int, p # -5, At(yypact, yystate) = p, t \in Int, p + t \in 0..35,
             At(yycheck, p + t) = t
      PROVE  HasEntry
  BY <1>q DEF HasEntry, Index, t, YYPACT_NINF, YYLAST
<1>3. CASE yystate = 0 /\ yychar = RETURN
  <2>1. t = 6
    BY <1>1, <1>3, TranslateIs DEF t
  <2>2. At(yypact, yystate) = -4 /\ At(yycheck, 2) = 6
    BY <1>3 DEF At, yypact, yycheck
  <2>3. -4 + t = 2
    BY <2>1
  <2> QED BY <2>1, <2>2, <2>3, <1>q
<1>4. CASE yystate \in {1, 5} \cup 10..19 /\ yychar \in {NUMBER, NAME, MINUS}
  <2>1. t \in {3, 4, 18}
    <3>1. Translate(NUMBER) = 3 /\ Translate(NAME) = 4 /\ Translate(MINUS) = 18
      BY <1>1, TranslateIs
    <3> QED BY <1>4, <3>1 DEF t
  <2>2. At(yypact, yystate) = -3
    BY <1>4 DEF At, yypact
  <2>3. -3 + t \in 0..35 /\ At(yycheck, -3 + t) = t
    BY <2>1 DEF At, yycheck
  <2>4. t \in Int /\ -3 # -5
    BY <2>1
  <2> QED BY <2>2, <2>3, <2>4, <1>q
<1>5. CASE yystate = 7 /\ yychar \in Operators
  <2>1. t \in 17..26
    BY <1>2, <1>5, TranslateIs DEF t
  <2>2. At(yypact, yystate) = 9
    BY <1>5 DEF At, yypact
  <2>3. 9 + t \in 0..35 /\ At(yycheck, 9 + t) = t
    BY <2>1 DEF At, yycheck
  <2>4. t \in Int /\ 9 # -5
    BY <2>1
  <2> QED BY <2>2, <2>3, <2>4, <1>q
<1> QED BY <1>3, <1>4, <1>5 DEF Admits

\* The default rule of a state: what it pops and its left-hand side.
Pops(s) == At(yyr2, At(yydefact, s))
Left(s) == At(yyr1, At(yydefact, s))

\* (y.tab.c:599-603, 621-640)
LEMMA RulesOf ==
  ASSUME NEW s \in 0..29
  PROVE  /\ At(yydefact, s) # 0 => s \in {1, 3, 4, 6, 7, 8, 9} \cup 20..29
         /\ s \in {3, 4} => Pops(s) = 1 /\ Left(s) = 30
         /\ s = 9 => Pops(s) = 2 /\ Left(s) = 30
         /\ s = 7 => Pops(s) = 1 /\ Left(s) = 29
         /\ s \in 20..29 => Pops(s) = 3 /\ Left(s) = 29
         /\ s = 1 => Pops(s) = 1 /\ Left(s) = 28
         /\ s = 6 => Pops(s) = 2 /\ Left(s) = 28
<1>1. At(yydefact, s) # 0 => s \in {1, 3, 4, 6, 7, 8, 9} \cup 20..29
  BY DEF At, yydefact
<1>2. s \in {3, 4} => Pops(s) = 1 /\ Left(s) = 30
  BY DEF Pops, Left, At, yydefact, yyr1, yyr2
<1>3. s = 9 => Pops(s) = 2 /\ Left(s) = 30
  BY DEF Pops, Left, At, yydefact, yyr1, yyr2
<1>4. s = 7 => Pops(s) = 1 /\ Left(s) = 29
  BY DEF Pops, Left, At, yydefact, yyr1, yyr2
<1>5. s \in 20..29 => Pops(s) = 3 /\ Left(s) = 29
  BY DEF Pops, Left, At, yydefact, yyr1, yyr2
<1>6. s = 1 => Pops(s) = 1 /\ Left(s) = 28
  BY DEF Pops, Left, At, yydefact, yyr1, yyr2
<1>7. s = 6 => Pops(s) = 2 /\ Left(s) = 28
  BY DEF Pops, Left, At, yydefact, yyr1, yyr2
<1> QED BY <1>1, <1>2, <1>3, <1>4, <1>5, <1>6, <1>7

\* The states a term leads to (y.tab.c:641-643).
LEMMA GotoTerm ==
  ASSUME NEW s \in {1, 5} \cup 10..19
  PROVE  Goto(30, s) \in {7, 9} \cup 20..29
<1>1. CASE s \in 10..19
  <2>1. Goto(30, s) = s + 10 /\ s + 10 \in 20..29
    BY <1>1, Gotos
  <2> QED BY <2>1
<1>2. CASE s \in {1, 5}
  <2>1. Goto(30, s) \in {7, 9}
    BY <1>2, Gotos
  <2> QED BY <2>1
<1> QED BY <1>1, <1>2

\* A reduction leaves m states and goes to u.
Reduces(ss, m, u) ==
  /\ At(yydefact, Last(ss)) # 0
  /\ m = Len(ss) - Pops(Last(ss))
  /\ u = Goto(Left(Last(ss)), ss[m])

\* A reduction by its state: what is uncovered, and where it goes
\* (y.tab.c:599-640, 1478-1493, 1607-1623).
LEMMA ReduceTo ==
  ASSUME NEW ss, Path(ss), NEW m \in Nat, NEW u \in 0..29, Reduces(ss, m, u),
         m \in 1..(Len(ss) - 1), Path(SubSeq(ss, 1, m)), Path(Append(SubSeq(ss, 1, m), u))
  PROVE  \/ /\ Last(ss) \in {3, 4, 9} /\ u \in {7, 9} \cup 20..29
            /\ Behind(Append(SubSeq(ss, 1, m), u)) <=> Behind(ss)
         \/ Last(ss) = 7 /\ u = 6
         \/ Last(ss) \in 20..29 /\ u = 6
         \/ Last(ss) \in {1, 6} /\ u = 2
<1>1. PICK n \in Nat \ {0} : n = Len(ss)
  BY EmptySeq, LenProperties DEF Path
<1>3. /\ \A i \in 1..n : ss[i] \in 0..29
      /\ ss[1] = 0 /\ \A i \in 1..(n - 1) : ss[i + 1] \in Follows(ss[i])
  BY <1>1, ElementOfSeq DEF Path
<1>2. PICK s \in 0..29 : s = Last(ss) /\ s = ss[n]
  <2>1. n \in 1..n
    OBVIOUS
  <2> QED BY <1>1, <1>3, <2>1 DEF Last
<1>4. At(yydefact, s) # 0 /\ m = n - Pops(s) /\ u = Goto(Left(s), ss[m])
  BY <1>1, <1>2 DEF Reduces
<1>5. s \in {1, 3, 4, 6, 7, 8, 9} \cup 20..29
  BY <1>4, RulesOf
<1>6. PICK s1 \in 0..29 : s1 = ss[n - 1] /\ n > 1 /\ s \in Follows(s1)
  <2>1. n # 1
    BY <1>2, <1>3, <1>5
  <2>2. n - 1 \in 1..(n - 1) /\ (n - 1) + 1 = n /\ n - 1 \in 1..n /\ n > 1
    BY <2>1
  <2> QED BY <1>2, <1>3, <2>2
<1>7. s # 1 => \E s2 \in 0..29 : s2 = ss[n - 2] /\ n > 2 /\ s1 \in Follows(s2)
  <2> SUFFICES ASSUME s # 1 PROVE \E s2 \in 0..29 : s2 = ss[n - 2] /\ n > 2 /\ s1 \in Follows(s2)
      OBVIOUS
  <2>1. n # 2
    <3>1. s1 # 0
      <4>1. s # 2
        BY <1>5
      <4> QED BY <1>6, <4>1 DEF Follows
    <3> QED BY <1>3, <1>6, <3>1
  <2>2. n - 2 \in 1..(n - 1) /\ (n - 2) + 1 = n - 1 /\ n - 2 \in 1..n /\ n > 2
    BY <1>6, <2>1
  <2> QED BY <1>3, <1>6, <2>2
<1>9. ASSUME NEW v \in 0..29, v = ss[m], v # 7,
             m = 3 => ~Behind(ss), m < 3 => ~Behind(ss)
      PROVE  Behind(Append(SubSeq(ss, 1, m), u)) <=> Behind(ss)
  <2>1. Behind(SubSeq(ss, 1, m)) \/ Last(SubSeq(ss, 1, m)) = 7 <=> m >= 4 /\ ss[3] = 7
    BY <1>9, BehindPopped
  <2>2. Behind(Append(SubSeq(ss, 1, m), u))
          <=> Behind(SubSeq(ss, 1, m)) \/ Last(SubSeq(ss, 1, m)) = 7
    BY BehindPushed
  <2>3. m >= 4 /\ ss[3] = 7 <=> Behind(ss)
    <3>1. CASE m >= 4
      BY <1>1, <3>1 DEF Behind
    <3>2. CASE m = 3 \/ m < 3
      BY <1>9, <3>2
    <3> QED BY <3>1, <3>2
  <2> QED BY <2>1, <2>2, <2>3
<1>10. ASSUME s \in {3, 4}
       PROVE  /\ u \in {7, 9} \cup 20..29
              /\ Behind(Append(SubSeq(ss, 1, m), u)) <=> Behind(ss)
  <2>1. s1 \in {1, 5} \cup 10..19
    BY <1>6, <1>10, FollowsFrom
  <2>2. Pops(s) = 1 /\ Left(s) = 30
    BY <1>10, RulesOf
  <2>3. m = n - 1 /\ ss[m] = s1
    BY <1>4, <1>6, <2>2
  <2>4. u = Goto(30, s1)
    BY <1>4, <2>2, <2>3
  <2>5. u \in {7, 9} \cup 20..29
    BY <2>1, <2>4, GotoTerm
  <2>6. m = 3 => ~Behind(ss)
    BY <2>1, <2>3 DEF Behind
  <2>7. m < 3 => ~Behind(ss)
    BY <1>1, <2>3 DEF Behind
  <2>8. s1 # 7
    BY <2>1
  <2> QED BY <1>9, <2>3, <2>5, <2>6, <2>7, <2>8
<1>11. ASSUME s \in {9}
       PROVE  /\ u \in {7, 9} \cup 20..29
              /\ Behind(Append(SubSeq(ss, 1, m), u)) <=> Behind(ss)
  <2>1. s1 = 5
    BY <1>6, <1>11, FollowsFrom
  <2>2. PICK s2 \in 0..29 : s2 = ss[n - 2] /\ n > 2 /\ s1 \in Follows(s2)
    BY <1>7, <1>11
  <2>3. s2 \in {1, 5} \cup 10..19
    BY <2>1, <2>2, FollowsFrom
  <2>4. Pops(s) = 2 /\ Left(s) = 30
    BY <1>11, RulesOf
  <2>5. m = n - 2 /\ ss[m] = s2
    BY <1>4, <2>2, <2>4
  <2>6. u = Goto(30, s2)
    BY <1>4, <2>4, <2>5
  <2>7. u \in {7, 9} \cup 20..29
    BY <2>3, <2>6, GotoTerm
  <2>8. m = 3 => ~Behind(ss)
    BY <2>3, <2>5 DEF Behind
  <2>9. m < 3 => ~Behind(ss)
    <3> SUFFICES ASSUME m < 3, Len(ss) >= 4, ss[3] = 7 PROVE FALSE
        BY DEF Behind
    <3>1. n >= 4
      BY <1>1
    <3>2. n - 1 = 3
      BY <2>5, <3>1
    <3>3. ss[n - 1] = 5
      BY <1>6, <2>1
    <3> QED BY <3>2, <3>3
  <2>10. s2 # 7
    BY <2>3
  <2> QED BY <1>9, <2>5, <2>7, <2>8, <2>9, <2>10
<1>12. ASSUME s = 7 PROVE u = 6
  <2>1. s1 = 1
    BY <1>6, <1>12, FollowsFrom
  <2>2. Pops(s) = 1 /\ Left(s) = 29
    BY <1>12, RulesOf
  <2>3. ss[m] = 1
    BY <1>4, <1>6, <2>1, <2>2
  <2> QED BY <1>4, <2>2, <2>3, Gotos
<1>13. ASSUME s \in 20..29 PROVE u = 6
  <2>1. s1 \in 10..19
    BY <1>6, <1>13, FollowsFrom
  <2>2. PICK s2 \in 0..29 : s2 = ss[n - 2] /\ n > 2 /\ s1 \in Follows(s2)
    BY <1>7, <1>13
  <2>3. s2 = 7
    BY <2>1, <2>2, FollowsFrom
  <2>4. Pops(s) = 3 /\ Left(s) = 29
    BY <1>13, RulesOf
  <2>n. n # 3
    <3>1. n = 3 => n - 2 = 1
      OBVIOUS
    <3>2. ss[n - 2] = 7 /\ ss[1] = 0
      BY <1>3, <2>2, <2>3
    <3> QED BY <3>1, <3>2
  <2>5. n - 3 \in 1..(n - 1) /\ (n - 3) + 1 = n - 2 /\ n - 3 \in 1..n
    BY <2>2, <2>n
  <2>6. s2 \in Follows(ss[n - 3]) /\ ss[n - 3] \in 0..29
    BY <1>3, <2>2, <2>5
  <2>7. ss[n - 3] = 1
    BY <2>3, <2>6, FollowsFrom
  <2>8. ss[m] = 1
    BY <1>4, <2>4, <2>7
  <2> QED BY <1>4, <2>4, <2>8, Gotos
<1>14. ASSUME s = 1 PROVE u = 2
  <2>1. s1 = 0
    BY <1>6, <1>14, FollowsFrom
  <2>2. Pops(s) = 1 /\ Left(s) = 28
    BY <1>14, RulesOf
  <2>3. ss[m] = 0
    BY <1>4, <1>6, <2>1, <2>2
  <2> QED BY <1>4, <2>2, <2>3, Gotos
<1>15. ASSUME s \in {6} PROVE u = 2
  <2>1. s1 = 1
    BY <1>6, <1>15, FollowsFrom
  <2>2. PICK s2 \in 0..29 : s2 = ss[n - 2] /\ n > 2 /\ s1 \in Follows(s2)
    BY <1>7, <1>15
  <2>3. s2 = 0
    BY <2>1, <2>2, FollowsFrom
  <2>4. Pops(s) = 2 /\ Left(s) = 28
    BY <1>15, RulesOf
  <2>5. ss[m] = 0
    BY <1>4, <2>2, <2>3, <2>4
  <2> QED BY <1>4, <2>4, <2>5, Gotos
<1>16. s # 8
  BY <1>6, FollowsFrom
<1> QED BY <1>2, <1>5, <1>10, <1>11, <1>12, <1>13, <1>14, <1>15, <1>16

\* The front and the last element of what a token is appended to.
LEMMA FrontOfAppend ==
  ASSUME NEW S, NEW s \in Seq(S), NEW c \in S
  PROVE  /\ Append(s, c) # <<>> /\ Last(Append(s, c)) = c
         /\ Front(Append(s, c)) = s
<1>1. PICK g : g = Append(s, c)
  OBVIOUS
<1>2. PICK n \in Nat : n = Len(s)
  OBVIOUS
<1>3. g \in Seq(S) /\ Len(g) = n + 1 /\ g[n + 1] = c /\ \A i \in 1..n : g[i] = s[i]
  BY <1>1, <1>2, AppendProperties
<1>4. g # <<>> /\ Last(g) = c
  <2>1. g # <<>>
    BY <1>2, <1>3
  <2> QED BY <1>3, <2>1 DEF Last
<1>5. PICK f : f = SubSeq(g, 1, n)
  OBVIOUS
<1>6. Front(g) = f
  <2>1. (n + 1) - 1 = n
    OBVIOUS
  <2> QED BY <1>3, <1>5, <2>1 DEF Front
<1>7. f \in Seq(S) /\ Len(f) = n /\ \A i \in 1..n : f[i] = s[i]
  <2>1. \A i \in 1..n : i \in 1..Len(g) /\ g[i] \in S
    <3>1. \A i \in 1..n : i \in 1..Len(s) /\ i \in 1..(n + 1)
      BY <1>2
    <3> QED BY <1>3, <3>1, ElementOfSeq
  <2> QED BY <1>3, <1>5, <2>1, SubSeqProperties
<1>8. f = s
  BY <1>2, <1>7, SeqEqual
<1> QED BY <1>1, <1>4, <1>6, <1>8

\* The tokens read, and those on the stack.
LEMMA CodesRead ==
  ASSUME IInv, Language
  PROVE  /\ input \in Codes /\ Shifted \in Codes
         /\ Tokens \subseteq Nat \ {0} /\ YYEMPTY \notin Tokens /\ YYEOF \notin Tokens
         /\ yychar \in Tokens => input = Append(Shifted, yychar)
         /\ yychar \notin Tokens => Shifted = input
<1>1. input \in Seq(Tokens) /\ Tokens \subseteq Nat \ {0}
  BY ParserAssumption DEF IInv, Types
<1>2. input \in Codes
  <2>1. \A i \in 1..Len(input) : input[i] \in Nat
    BY <1>1, ElementOfSeq
  <2> QED BY <1>1, <2>1 DEF Codes
<1>3. YYEMPTY \notin Tokens /\ YYEOF \notin Tokens
  BY <1>1 DEF YYEMPTY, YYEOF
<1>4. CASE yychar \in Tokens
  <2>1. PICK f : f = Front(input)
    OBVIOUS
  <2>2. PICK n \in Nat : n = Len(input)
    BY <1>2 DEF Codes
  <2>3. input # <<>> /\ input[n] = yychar /\ n > 0
    <3>1. input # <<>> /\ Last(input) = yychar
      BY <1>4 DEF Language
    <3>2. n # 0
      BY <1>2, <2>2, <3>1, EmptySeq DEF Codes
    <3> QED BY <2>2, <3>1, <3>2 DEF Last
  <2>4. f \in Codes /\ Len(f) = n - 1 /\ \A i \in 1..(n - 1) : f[i] = input[i]
    <3>1. f = SubSeq(input, 1, n - 1)
      BY <2>1, <2>2 DEF Front
    <3>2. \A i \in 1..(n - 1) : i \in 1..Len(input)
      BY <2>2
    <3>3. \A i \in 1..(n - 1) : input[i] \in Nat
      BY <1>2, <3>2, ElementOfSeq DEF Codes
    <3> QED BY <1>2, <2>2, <2>3, <3>1, <3>3, SubSeqProperties DEF Codes
  <2>5. input = Append(f, yychar)
    <3>1. PICK g : g = Append(f, yychar)
      OBVIOUS
    <3>2. yychar \in Nat
      BY <1>1, <1>4
    <3>3. /\ g \in Seq(Nat) /\ Len(g) = n /\ g[n] = yychar
          /\ \A i \in 1..(n - 1) : g[i] = f[i]
      <4>1. Len(f) + 1 = n
        BY <2>2, <2>4
      <4> QED BY <2>4, <3>1, <3>2, <4>1, AppendProperties DEF Codes
    <3>4. ASSUME NEW i \in 1..n PROVE input[i] = g[i]
      <4>1. CASE i = n
        BY <2>3, <3>3, <4>1
      <4>2. CASE i \in 1..(n - 1)
        BY <2>4, <3>3, <4>2
      <4> QED BY <4>1, <4>2
    <3>5. input \in Seq(Nat) /\ Len(input) = n
      BY <1>2, <2>2 DEF Codes
    <3> QED BY <3>1, <3>3, <3>4, <3>5, SeqEqual
  <2> QED BY <1>1, <1>2, <1>3, <1>4, <2>1, <2>4, <2>5 DEF Shifted
<1>5. CASE yychar \notin Tokens
  BY <1>1, <1>2, <1>3, <1>5 DEF Shifted
<1> QED BY <1>4, <1>5

\* Nothing is read when yyparse begins (y.tab.c:1262-1318).
LEMMA InitLanguage == Init => Language
<1> SUFFICES ASSUME Init PROVE Language
    OBVIOUS
<1>1. /\ input = <<>> /\ yychar = YYEMPTY /\ pc = "yysetstate" /\ yyresult = -1
      /\ yyss = <<>> /\ yystate = 0
  BY DEF Init
<1>2. YYEMPTY \notin Tokens
  BY ParserAssumption DEF YYEMPTY
<1>3. Shifted = <<>>
  BY <1>1, <1>2 DEF Shifted
<1>4. Stack = <<0>> /\ Last(<<0>>) = 0
  <2>1. Stack = Append(<<>>, 0)
    BY <1>1 DEF Stack
  <2> QED BY <2>1 DEF Last
<1>5. Reading(Last(Stack), Behind(Stack), Shifted)
  BY <1>3, <1>4 DEF Reading
<1>6. Complete
  BY <1>4 DEF Complete
<1>7. IsPrefixOfSentence(Shifted)
  BY <1>3 DEF IsPrefixOfSentence
<1> QED BY <1>1, <1>2, <1>5, <1>6, <1>7 DEF Language

\* The push of the state, the token that is read, and the ends of a failing
\* parse (y.tab.c:1323-1398, 1408-1420, 1626-1811).
LEMMA SetStateLanguage ==
  ASSUME IInv, Language, SetState
  PROVE  Language'
<1>1. /\ pc = "yysetstate" /\ yyss' = Append(yyss, yystate)
      /\ input' = input /\ yychar' = yychar
      /\ pc' \in {"yybackup", "yyreturn"}
  BY DEF SetState
<1>2. yyresult = -1
  BY <1>1 DEF IInv, Reports
<1>3. yyresult' # 0 /\ yyresult' # 1
  <2>1. Reports'
    BY SetStateIInv DEF IInv
  <2>2. reports' = 0
    BY <1>1 DEF SetState, IInv, Reports
  <2>3. yyresult' # 1
    BY <1>1, <2>1, <2>2 DEF Reports
  <2>4. yyresult' # 0
    BY <1>2 DEF SetState
  <2> QED BY <2>3, <2>4
<1>4. Shifted' = Shifted
  BY <1>1 DEF Shifted
<1>5. pc' = "yybackup" => Stack' = Stack
  BY <1>1 DEF Stack
<1>6. pc' = "yybackup" => (Reading(Last(Stack), Behind(Stack), Shifted) /\ Complete)'
  <2>1. Reading(Last(Stack), Behind(Stack), Shifted) /\ Complete
    BY <1>1 DEF Language
  <2> QED BY <1>1, <1>4, <1>5, <2>1 DEF Complete, Reading, Behind, Last
<1> QED BY <1>1, <1>3, <1>4, <1>6 DEF Language

\* The token read is not on the stack yet.
LEMMA ReadTokenShifts ==
  ASSUME IInv, Language, ReadToken
  PROVE  /\ Shifted' = Shifted
         /\ yychar' \in Tokens => input' # <<>> /\ Last(input') = yychar'
         /\ yychar' # YYEMPTY
<1>1. /\ pc = "yybackup" /\ pc' = "yybackup" /\ yychar = YYEMPTY
      /\ yyss' = yyss /\ yystate' = yystate /\ yyresult' = yyresult
  BY DEF ReadToken
<1>2. /\ input \in Codes /\ Shifted \in Codes
      /\ Tokens \subseteq Nat \ {0} /\ YYEMPTY \notin Tokens /\ YYEOF \notin Tokens
      /\ Shifted = input /\ input \in Seq(Tokens)
  BY <1>1, CodesRead DEF IInv, Types
<1>3. /\ Shifted' = Shifted
      /\ yychar' \in Tokens => input' # <<>> /\ Last(input') = yychar'
      /\ yychar' # YYEMPTY
  <2>1. CASE yychar' = YYEOF /\ input' = input
    BY <1>2, <2>1 DEF Shifted, YYEOF, YYEMPTY
  <2>2. ASSUME NEW c \in Tokens, yychar' = c, input' = Append(input, c)
        PROVE  /\ Shifted' = input
               /\ input' # <<>> /\ Last(input') = yychar'
               /\ yychar' # YYEMPTY
    <3>1. PICK g : g = Append(input, c)
      OBVIOUS
    <3>2. Front(g) = input /\ g # <<>> /\ Last(g) = c
      BY <1>2, <3>1, FrontOfAppend
    <3> QED BY <1>2, <2>2, <3>1, <3>2 DEF Shifted
  <2> QED BY <1>2, <2>1, <2>2 DEF ReadToken
<1> QED BY <1>3

LEMMA ReadTokenLanguage ==
  ASSUME IInv, Language, ReadToken
  PROVE  Language'
<1>1. /\ pc = "yybackup" /\ pc' = "yybackup" /\ yychar = YYEMPTY
      /\ yyss' = yyss /\ yystate' = yystate /\ yyresult' = yyresult
  BY DEF ReadToken
<1>2. /\ input \in Codes /\ Shifted \in Codes
      /\ Tokens \subseteq Nat \ {0} /\ YYEMPTY \notin Tokens /\ YYEOF \notin Tokens
      /\ Shifted = input /\ input \in Seq(Tokens)
  BY <1>1, CodesRead DEF IInv, Types
<1>3. /\ Shifted' = Shifted
      /\ yychar' \in Tokens => input' # <<>> /\ Last(input') = yychar'
      /\ yychar' # YYEMPTY
  BY ReadTokenShifts
<1>4. Stack' = Stack
  BY <1>1 DEF Stack
<1>5. (Reading(Last(Stack), Behind(Stack), Shifted))'
  <2>1. Reading(Last(Stack), Behind(Stack), Shifted)
    BY <1>1 DEF Language
  <2> QED BY <1>3, <1>4, <2>1 DEF Reading, Behind, Last
<1>6. Complete'
  <2>1. Complete
    BY <1>1 DEF Language
  <2>2. Last(Stack) \in {2, 6} => \A c \in Tokens : ~IsPrefixOfSentence(Append(Shifted, c))
    BY <1>1, <2>1 DEF Complete
  <2> QED BY <1>3, <1>4, <2>2 DEF Complete
<1>7. IsPrefixOfSentence(Shifted)'
  BY <1>3 DEF Language
<1>8. yyresult = -1
  BY <1>1 DEF IInv, Reports
<1> QED BY <1>1, <1>3, <1>5, <1>6, <1>7, <1>8 DEF Language

\* From the error on nothing is read.
LEMMA RecoveryLanguage ==
  ASSUME IInv, Language, ErrLab \/ ErrPop \/ ErrAbort \/ Return
  PROVE  Language'
<1>1. input' = input /\ yychar' = yychar
  <2>1. ErrLab => yyerrstatus = 0
    BY DEF ErrLab, IInv, Reports
  <2> QED BY <2>1 DEF ErrLab, ErrPop, ErrAbort, Return
<1>2. Shifted' = Shifted /\ (Rejected' <=> Rejected)
  BY <1>1 DEF Shifted, Rejected
<1>3. \/ /\ pc \in {"yyerrlab", "yyerrlab1"} /\ yyresult = -1
         /\ \/ pc' = "yyerrlab1" /\ yyresult' = -1
            \/ pc' = "yyreturn" /\ yyresult' = 1
      \/ pc = "yyreturn" /\ pc' = "done" /\ yyresult' = yyresult
  BY DEF ErrLab, ErrPop, ErrAbort, Return, IInv, Reports
<1> QED BY <1>1, <1>2, <1>3 DEF Language

\* Only the end of the file behind a whole sentence is accepted
\* (y.tab.c:1443-1444).
LEMMA AcceptLanguage ==
  ASSUME IInv, Language, Accept
  PROVE  Language'
<1>1. /\ pc = "yybackup" /\ Decided /\ HasEntry /\ At(yytable, Index) = YYFINAL
      /\ pc' = "yyreturn" /\ yyresult' = 0 /\ input' = input /\ yychar' = yychar
  BY DEF Accept
<1>2. Path(yyss) /\ yystate = Last(yyss) /\ yystate \in 0..29
      /\ yychar \in Tokens \cup {YYEMPTY, YYEOF}
  BY <1>1 DEF IInv, Types, Stacks
<1>3. yychar # YYEMPTY /\ yychar \in Nat
  <2>1. At(yypact, yystate) # YYPACT_NINF
    BY <1>1 DEF HasEntry
  <2> QED BY <1>1, <1>2, <2>1, CodesRead DEF Decided, YYEOF
<1>4. yystate = 2 /\ yychar = YYEOF
  BY <1>1, <1>2, <1>3, EntriesAdmit DEF YYEOF
<1>5. Stack = yyss /\ Shifted = input
  BY <1>1, <1>4, CodesRead DEF Stack
<1>6. IsSentence(input)
  <2>1. Reading(2, Behind(yyss), input)
    BY <1>1, <1>2, <1>4, <1>5 DEF Language
  <2> QED BY <2>1 DEF Reading, Part
<1>7. Shifted' = Shifted
  BY <1>1 DEF Shifted
<1> QED BY <1>1, <1>4, <1>6, <1>7 DEF Language

\* A shift puts the lookahead on the stack, where it may come
\* (y.tab.c:1433-1465).
LEMMA ShiftLanguage ==
  ASSUME IInv, Language, Shift
  PROVE  Language'
<1>1. /\ pc = "yybackup" /\ Decided /\ HasEntry /\ At(yytable, Index) # YYFINAL
      /\ pc' = "yysetstate" /\ yystate' = At(yytable, Index)
      /\ yychar' = IF yychar = YYEOF THEN YYEOF ELSE YYEMPTY
      /\ input' = input /\ yyss' = yyss /\ yyresult' = yyresult
  BY DEF Shift
<1>2. /\ Path(yyss) /\ yystate = Last(yyss) /\ yystate \in 0..29
      /\ yychar \in Tokens \cup {YYEMPTY, YYEOF} /\ yyresult = -1
  BY <1>1 DEF IInv, Types, Stacks, Reports
<1>3. yychar # YYEMPTY /\ yychar \in Nat
  <2>1. At(yypact, yystate) # YYPACT_NINF
    BY <1>1 DEF HasEntry
  <2> QED BY <1>1, <1>2, <2>1, CodesRead DEF Decided, YYEOF
<1>4. PICK u \in 0..29 : u = yystate' /\ Admits(yystate, yychar, u) /\ u \in Follows(Last(yyss))
  <2>1. Admits(yystate, yychar, yystate')
    BY <1>1, <1>2, <1>3, EntriesAdmit
  <2>2. yystate' \in Follows(Last(yyss))
    BY <1>1, <1>2, ShiftFollows
  <2>3. yystate' \in 0..29
    BY <1>2, <2>2 DEF Follows
  <2> QED BY <2>1, <2>2, <2>3
<1>5. yychar \in Tokens
  <2>1. yychar # 0
    BY <1>4 DEF Admits, RETURN, NUMBER, NAME, MINUS, Operators
  <2> QED BY <1>2, <1>3, <2>1 DEF YYEOF
<1>6. /\ input \in Codes /\ Shifted \in Codes /\ input = Append(Shifted, yychar)
      /\ YYEMPTY \notin Tokens /\ YYEOF \notin Tokens
  BY <1>5, CodesRead
<1>7. PICK up : up = Append(yyss, u) /\ Path(up) /\ Last(up) = u
  BY <1>2, <1>4, PushPath
<1>8. Stack = yyss /\ Stack' = up
  BY <1>1, <1>4, <1>7 DEF Stack
<1>9. Shifted' = input
  <2>1. yychar' \notin Tokens
    BY <1>1, <1>6
  <2> QED BY <1>1, <2>1 DEF Shifted
<1>10. Reading(u, Behind(up), input)
  <2>1. Reading(yystate, Behind(yyss), Shifted)
    BY <1>1, <1>2, <1>8 DEF Language
  <2>2. Longer(input, Shifted, yychar)
    BY <1>3, <1>6, AppendLonger
  <2>3. PICK b \in BOOLEAN : b = Behind(yyss)
    BY DEF Behind
  <2>4. PICK d \in BOOLEAN : d = Behind(up)
    BY DEF Behind
  <2>5. d <=> b \/ yystate = 7
    <3>1. Behind(Append(yyss, u)) <=> Behind(yyss) \/ Last(yyss) = 7
      BY <1>2, <1>7, BehindPushed
    <3> QED BY <1>2, <1>7, <2>3, <2>4, <3>1
  <2>6. yystate \in {0, 7} => ~b
    BY <1>2, <2>3, BehindIs
  <2>7. Reading(yystate, b, Shifted)
    BY <2>1, <2>3
  <2>8. Reading(u, d, input)
    BY <1>3, <1>4, <1>6, <2>2, <2>5, <2>6, <2>7, ReadingShift
  <2> QED BY <2>4, <2>8
<1>11. (Reading(Last(Stack), Behind(Stack), Shifted))'
  BY <1>7, <1>8, <1>9, <1>10 DEF Reading, Behind, Last
<1>12. Complete'
  <2>1. u \notin {2, 6}
    BY <1>4 DEF Admits
  <2>2. Last(Stack') = u
    BY <1>7, <1>8
  <2> QED BY <2>1, <2>2 DEF Complete
<1>13. IsPrefixOfSentence(Shifted)'
  <2>1. IsPrefixOfSentence(input)
    <3>1. Behind(up) \in BOOLEAN
      BY DEF Behind
    <3> QED BY <1>6, <1>10, <3>1, ReadingPrefix
  <2> QED BY <1>9, <2>1
<1>14. yychar' \notin Tokens
  BY <1>1, <1>6
<1> QED BY <1>1, <1>2, <1>11, <1>12, <1>13, <1>14 DEF Language

\* The states without a default reduction wait for the lookahead
\* (y.tab.c:599-603, 613-618).
LEMMA WaitingStates ==
  /\ \A s \in 0..29 : At(yydefact, s) = 0 => s \in {0, 2, 5} \cup 10..19
  /\ \A s \in {0, 1, 2, 5, 7} \cup 10..19 : At(yypact, s) # YYPACT_NINF
<1>1. \A s \in 0..29 : At(yydefact, s) = 0 => s \in {0, 2, 5} \cup 10..19
  BY DEF At, yydefact
<1>2. \A s \in {0, 1, 2, 5, 7} \cup 10..19 : At(yypact, s) # -5
  BY DEF At, yypact
<1> QED BY <1>1, <1>2 DEF YYPACT_NINF

\* A lookahead without an entry, in a state that waits for one, is wrong.
LEMMA NoEntryRejects ==
  ASSUME IInv, Language, pc \in {"yybackup", "yyreduce"}, ~HasEntry, yychar \in Tokens,
         yystate \in {0, 1, 5, 7} \cup 10..19
  PROVE  ~IsPrefixOfSentence(Append(Shifted, yychar))
<1>1. Path(yyss) /\ yystate = Last(yyss) /\ Stack = yyss
  BY DEF IInv, Stacks, Stack
<1>2. PICK b \in BOOLEAN : b = Behind(yyss)
  BY DEF Behind
<1>3. Reading(yystate, b, Shifted)
  BY <1>1, <1>2 DEF Language
<1>4. yystate = 7 => ~b
  BY <1>1, <1>2, BehindIs
<1>5. Shifted \in Codes /\ yychar \in Nat
  BY CodesRead
<1>6. ~ \E u : Admits(yystate, yychar, u)
  BY AdmitsEntry
<1> QED BY <1>3, <1>4, <1>5, <1>6, ReadingRejects

\* A default action reduces what was read already, or finds the error at the
\* lookahead (y.tab.c:1408-1436, 1470-1475).
LEMMA DefaultLanguage ==
  ASSUME IInv, Language, Default
  PROVE  Language'
<1>1. /\ pc = "yybackup" /\ Decided /\ ~HasEntry
      /\ yyn' = At(yydefact, yystate)
      /\ pc' = IF yyn' = 0 THEN "yyerrlab" ELSE "yyreduce"
      /\ input' = input /\ yychar' = yychar /\ yyss' = yyss /\ yystate' = yystate
      /\ yyresult' = yyresult
  BY DEF Default
<1>2. /\ Path(yyss) /\ yystate = Last(yyss) /\ yystate \in 0..29
      /\ yychar \in Tokens \cup {YYEMPTY, YYEOF} /\ yyresult = -1
  BY <1>1 DEF IInv, Types, Stacks, Reports
<1>3. Shifted' = Shifted
  BY <1>1 DEF Shifted
<1>4. Stack = yyss
  BY <1>1 DEF Stack
<1>5. Reading(yystate, Behind(yyss), Shifted) /\ Complete
  BY <1>1, <1>2, <1>4 DEF Language
<1>6. CASE At(yydefact, yystate) # 0
  <2>1. pc' = "yyreduce"
    BY <1>1, <1>6
  <2>2. Stack' = Stack
    BY <1>1, <1>4, <2>1 DEF Stack
  <2>3. (Reading(Last(Stack), Behind(Stack), Shifted))'
    BY <1>2, <1>3, <1>4, <1>5, <2>2 DEF Reading, Behind, Last
  <2>4. Complete'
    BY <1>1, <1>3, <1>5, <2>2 DEF Complete
  <2>5. (At(yypact, yystate) # YYPACT_NINF => yychar # YYEMPTY /\ ~HasEntry)'
    BY <1>1 DEF Decided, HasEntry, Index
  <2> QED BY <1>1, <1>2, <1>3, <2>1, <2>3, <2>4, <2>5 DEF Language
<1>7. CASE At(yydefact, yystate) = 0
  <2>1. pc' = "yyerrlab"
    BY <1>1, <1>7
  <2>2. yystate \in {0, 2, 5} \cup 10..19 /\ At(yypact, yystate) # YYPACT_NINF
    BY <1>2, <1>7, WaitingStates
  <2>3. yychar # YYEMPTY
    BY <1>1, <2>2 DEF Decided
  <2>4. ASSUME yychar \in Tokens PROVE Rejected
    <3>1. input = Append(Shifted, yychar) /\ yychar # YYEOF
      BY <2>4, CodesRead
    <3>2. ~IsPrefixOfSentence(Append(Shifted, yychar))
      <4>1. CASE yystate = 2
        <5>1. Last(Stack) = 2
          BY <1>2, <1>4, <4>1
        <5> QED BY <1>5, <2>4, <5>1 DEF Complete
      <4>2. CASE yystate # 2
        BY <1>1, <2>2, <2>4, <4>2, NoEntryRejects
      <4> QED BY <4>1, <4>2
    <3>3. ~IsPrefixOfSentence(input)
      BY <3>1, <3>2, Zenon
    <3> QED BY <2>3, <3>1, <3>3, Zenon DEF Rejected
  <2>5. ASSUME yychar = YYEOF PROVE Rejected
    <3>1. Shifted = input /\ input \in Codes
      BY <2>5, CodesRead
    <3>2. yystate # 2
      <4> SUFFICES ASSUME yystate = 2 PROVE FALSE
          OBVIOUS
      <4>1. Translate(0) = 0
        <5>1. At(yytoknum, 0) = 0
          BY DEF At, yytoknum
        <5> QED BY <5>1, TranslateIs
      <4>2. At(yypact, 2) = 3 /\ At(yycheck, 3) = 0
        BY DEF At, yypact, yycheck
      <4>3. Translate(yychar) = 0 /\ Index = 3
        BY <2>5, <4>1, <4>2 DEF Index, YYEOF
      <4>4. HasEntry
        BY <4>2, <4>3 DEF HasEntry, YYPACT_NINF, YYLAST
      <4> QED BY <1>1, <4>4
    <3>3. PICK b \in BOOLEAN : b = Behind(yyss)
      BY DEF Behind
    <3>4. yystate \in 10..19 => b
      BY <1>2, <3>3, BehindIs
    <3>5. yystate \in {0, 5} \cup 10..19
      BY <2>2, <3>2
    <3>6. Reading(yystate, b, input)
      BY <1>5, <3>1, <3>3, Zenon
    <3>7. ~IsSentence(input)
      BY <3>1, <3>4, <3>5, <3>6, ReadingUnfinished, Zenon
    <3> QED BY <2>3, <2>5, <3>7, Zenon DEF Rejected
  <2>6. Rejected
    <3>1. yychar \in Tokens \/ yychar = YYEOF
      BY <1>2, <2>3
    <3> QED BY <2>4, <2>5, <3>1, Zenon
  <2>7. Rejected'
    BY <1>1, <2>6 DEF Rejected
  <2> QED BY <1>1, <1>2, <1>3, <2>1, <2>7 DEF Language
<1> QED BY <1>6, <1>7

\* A reduction leaves the tokens; it completes a sentence only where the
\* lookahead cannot go on with it (y.tab.c:1478-1493, 1607-1623).
LEMMA ReduceLanguage ==
  ASSUME IInv, Language, Reduce
  PROVE  Language'
<1>1. /\ pc = "yyreduce" /\ pc' = "yysetstate"
      /\ yyss' = SubSeq(yyss, 1, Len(yyss) - At(yyr2, yyn))
      /\ yystate' = Goto(At(yyr1, yyn), Last(yyss'))
      /\ input' = input /\ yychar' = yychar /\ yyresult' = yyresult
  BY DEF Reduce
<1>2. /\ Path(yyss) /\ yystate = Last(yyss) /\ yystate \in 0..29
      /\ yychar \in Tokens \cup {YYEMPTY, YYEOF} /\ yyresult = -1
      /\ yyn = At(yydefact, yystate) /\ yyn # 0 /\ Len(yyss) \in Nat
  BY <1>1, LenProperties DEF IInv, Types, Stacks, Reports
<1>3. PICK m \in Nat : m = Len(yyss) - Pops(yystate) /\ m \in 1..(Len(yyss) - 1)
  <2>1. At(yyr2, yyn) = Pops(yystate)
    BY <1>2 DEF Pops
  <2>2. At(yyr2, yyn) \in 1..3 /\ At(yyr2, yyn) < Len(yyss)
    BY <1>2, Reducible
  <2> QED BY <1>2, <2>1, <2>2
<1>4. PICK below : below = SubSeq(yyss, 1, m) /\ yyss' = below
  BY <1>1, <1>2, <1>3 DEF Pops
<1>5. Path(below) /\ Last(below) = yyss[m]
  <2>1. m \in 1..Len(yyss)
    BY <1>2, <1>3
  <2> QED BY <1>2, <1>4, <2>1, PopPath
<1>6. PICK u \in 0..29 : u = yystate' /\ Path(Append(below, u))
  <2>1. IInv'
    BY ReduceIInv
  <2>2. Path(Append(yyss', yystate')) /\ yystate' \in 0..29
    BY <1>1, <2>1 DEF IInv, Types, Stacks
  <2> QED BY <1>4, <2>2
<1>7. Reduces(yyss, m, u)
  BY <1>1, <1>2, <1>3, <1>4, <1>5, <1>6 DEF Reduces, Left
<1>8. \/ /\ yystate \in {3, 4, 9} /\ u \in {7, 9} \cup 20..29
         /\ Behind(Append(below, u)) <=> Behind(yyss)
      \/ yystate = 7 /\ u = 6
      \/ yystate \in 20..29 /\ u = 6
      \/ yystate \in {1, 6} /\ u = 2
  BY <1>2, <1>3, <1>4, <1>5, <1>6, <1>7, ReduceTo
<1>9. PICK up : up = Append(below, u) /\ Last(up) = u
  BY <1>5, <1>6, FrontOfAppend DEF Path
<1>10. Stack = yyss /\ Stack' = up /\ Shifted' = Shifted
  BY <1>1, <1>4, <1>6, <1>9 DEF Stack, Shifted
<1>11. PICK b \in BOOLEAN : b = Behind(yyss)
  BY DEF Behind
<1>12. PICK d \in BOOLEAN : d = Behind(up)
  BY DEF Behind
<1>13. Reading(yystate, b, Shifted) /\ Complete
  BY <1>1, <1>2, <1>10, <1>11 DEF Language
<1>14. /\ yystate \in {1, 6, 7} => ~b
       /\ yystate \in 20..29 => b
  BY <1>2, <1>11, BehindIs
<1>15. Shifted \in Codes
  BY CodesRead
<1>16. Reading(u, d, Shifted)
  BY <1>8, <1>9, <1>11, <1>12, <1>13, <1>14, <1>15, ReadingReduce
<1>17. (Reading(Last(Stack), Behind(Stack), Shifted))'
  BY <1>9, <1>10, <1>12, <1>16 DEF Reading, Behind, Last
<1>18. ASSUME u \in {2, 6}, NEW c \in Tokens, yychar \in {c, YYEMPTY}
       PROVE  ~IsPrefixOfSentence(Append(Shifted, c))
  <2>1. CASE yystate = 6
    <3>1. Last(Stack) \in {2, 6}
      BY <1>2, <1>10, <2>1
    <3> QED BY <1>13, <1>18, <3>1 DEF Complete
  <2>2. CASE yystate \in {1, 7}
    <3>1. At(yypact, yystate) # YYPACT_NINF
      BY <2>2, WaitingStates
    <3>2. yychar # YYEMPTY /\ ~HasEntry
      BY <1>1, <3>1 DEF Language
    <3>3. yychar = c
      BY <1>18, <3>2
    <3> QED BY <1>1, <2>2, <3>2, <3>3, NoEntryRejects
  <2>3. CASE yystate \in 20..29
    <3>1. Reading(yystate, TRUE, Shifted)
      BY <1>13, <1>14, <2>3
    <3>2. c \in Nat
      BY CodesRead
    <3> QED BY <1>15, <2>3, <3>1, <3>2, ReadingEnds
  <2>4. yystate \in {3, 4, 9} => u \notin {2, 6}
    BY <1>8
  <2> QED BY <1>8, <1>18, <2>1, <2>2, <2>3, <2>4
<1>19. Complete'
  <2>1. Last(Stack') = u
    BY <1>9, <1>10
  <2> QED BY <1>1, <1>10, <1>18, <2>1 DEF Complete
<1>20. IsPrefixOfSentence(Shifted)'
  BY <1>10 DEF Language
<1>21. yychar' \in Tokens => input' # <<>> /\ Last(input') = yychar'
  BY <1>1 DEF Language
<1> QED BY <1>1, <1>2, <1>17, <1>19, <1>20, <1>21 DEF Language

\* The stack stands for the tokens at every label of yyparse
\* (y.tab.c:1320-1811).
LEMMA NextLanguage == IInv /\ Language /\ [Next]_vars => Language'
<1> SUFFICES ASSUME IInv, Language, [Next]_vars PROVE Language'
    OBVIOUS
<1>1. CASE Stopped \/ UNCHANGED vars
  <2>1. UNCHANGED vars
    BY <1>1 DEF Stopped
  <2>2. /\ Shifted' = Shifted /\ Stack' = Stack /\ (Rejected' <=> Rejected)
        /\ (HasEntry' <=> HasEntry)
    BY <2>1 DEF vars, Shifted, Stack, Rejected, HasEntry, Index
  <2>3. (Complete <=> Complete') /\ (Reading(Last(Stack), Behind(Stack), Shifted)
          <=> (Reading(Last(Stack), Behind(Stack), Shifted))')
    BY <2>1, <2>2 DEF vars, Complete, Reading, Behind, Last
  <2> QED BY <2>1, <2>2, <2>3 DEF vars, Language
<1> QED
  BY <1>1, SetStateLanguage, ReadTokenLanguage, RecoveryLanguage, AcceptLanguage,
     ShiftLanguage, DefaultLanguage, ReduceLanguage DEF Next, Step

\* For any number of tokens, the states on the stack stand for the tokens shifted:
\* they are what some sentence begins with (y.tab.c:1403-1759, the tables 525-679).
THEOREM StackReadsTokens == Spec => []Language
<1>1. Init => IInv /\ Language
  BY InitIInv, InitLanguage
<1>2. IInv /\ Language /\ [Next]_vars => (IInv /\ Language)'
  BY NextIInv, NextLanguage
<1> QED BY <1>1, <1>2, PTL DEF Spec

\* The scanner is asked for nothing behind the first wrong token, whatever the
\* default reductions before the error (y.tab.c:1408-1420).
THEOREM ErrorsAreFoundAtOnce == Spec => []ErrorFoundAtOnce
<1>1. Language => ErrorFoundAtOnce
  BY DEF Language, ErrorFoundAtOnce, Shifted
<1> QED BY StackReadsTokens, <1>1, PTL

\* The tables decide the language of return_stmt: what yyparse accepts is a
\* sentence, and what it rejects is none, however long it is
\* (y.tab.c:1403-1759, the tables 525-679).
THEOREM LanguageIsDecided == Spec => []DecidesLanguage
<1>1. Language => DecidesLanguage
  BY DEF Language, Rejected, DecidesLanguage
<1> QED BY StackReadsTokens, <1>1, PTL

-----------------------------------------------------------------------------
(* The tree *)

\* The states that stand for a token of the file.
TokenStates == {1, 3, 4, 5} \cup 10..19

\* Node n of the nodes nd, labelled by lb, stands for the tokens of f from lo[n]
\* to hi[n]: a token, a minus sign before an operand, or an operator between two.
LeafAt(nd, lb, f, lo, hi, n) ==
  /\ nd[n].type \in {"cnst", "var"} /\ nd[n].kids = <<>>
  /\ lo[n] = lb[n] /\ hi[n] = lb[n]
UnaryAt(nd, lb, f, lo, hi, n) ==
  /\ nd[n].type = "uexpr"
  /\ f[lo[n]] = MINUS
  /\ \E k \in 1..(n - 1) : nd[n].kids = <<k>> /\ lo[k] = lo[n] + 1 /\ hi[k] = hi[n]
BinaryAt(nd, lb, f, lo, hi, n) ==
  /\ nd[n].type \in {"bexpr", "rexpr"} /\ lb[n] \in DOMAIN TokenOf
  /\ \E k \in 1..(n - 1), l \in 1..(n - 1) :
       /\ nd[n].kids = <<k, l>>
       /\ lo[k] = lo[n] /\ hi[l] = hi[n] /\ lo[l] = hi[k] + 2
       /\ f[hi[k] + 1] = TokenOf[lb[n]]
SpanAt(nd, lb, f, lo, hi, n) ==
  /\ lo[n] \in 1..hi[n] /\ hi[n] \in 1..Len(f)
  /\ \/ LeafAt(nd, lb, f, lo, hi, n)
     \/ UnaryAt(nd, lb, f, lo, hi, n)
     \/ BinaryAt(nd, lb, f, lo, hi, n)

Spans(nd, lb, f, lo, hi) ==
  /\ lo \in Seq(Nat) /\ hi \in Seq(Nat)
  /\ Len(lo) = Len(nd) /\ Len(hi) = Len(nd)
  /\ \A n \in 1..Len(nd) : SpanAt(nd, lb, f, lo, hi, n)

\* The last token that element i of the stacks ss and vs stands for.
Ending(ss, vs, hi, i) ==
  IF ss[i] = 0 THEN 0 ELSE IF ss[i] \in NodeStates THEN hi[vs[i]] ELSE vs[i]

\* An element begins where the one below it ends.
LaidAt(ss, vs, f, lo, hi, i) ==
  /\ ss[i] \in NodeStates => vs[i] \in 1..Len(lo) /\ lo[vs[i]] = Ending(ss, vs, hi, i - 1) + 1
  /\ ss[i] \in TokenStates => vs[i] \in 1..Len(f) /\ vs[i] = Ending(ss, vs, hi, i - 1) + 1
  /\ ss[i] = 5 => f[vs[i]] = MINUS
  /\ ss[i] \in 10..19 => f[vs[i]] = TokenOf[Operator[ss[i] - 9]]
Laid(ss, vs, f, lo, hi) == \A i \in 2..Len(ss) : LaidAt(ss, vs, f, lo, hi, i)

\* Node n has a parent; it is on the stack.
Child(nd, n) == \E p \in 1..Len(nd) : \E j \in DOMAIN nd[p].kids : nd[p].kids[j] = n
OnStack(ss, vs, n) == \E i \in 2..Len(ss) : ss[i] \in NodeStates /\ vs[i] = n

\* The last node stands for all tokens but the first.
Rooted(nd, f, lo, hi) == Len(nd) > 0 /\ lo[Len(nd)] = 2 /\ hi[Len(nd)] = Len(f)

Built(ss, vs, f, nd, lb, lo, hi) ==
  /\ Spans(nd, lb, f, lo, hi)
  /\ Laid(ss, vs, f, lo, hi)
  /\ Last(ss) # 2 => Ending(ss, vs, hi, Len(ss)) = Len(f)
  /\ Last(ss) \in NodeStates => vs[Len(ss)] = Len(nd)
  /\ \A n \in 1..Len(nd) : \/ Child(nd, n) \/ OnStack(ss, vs, n)
                           \/ Last(ss) = 2 /\ n = Len(nd)
  /\ Last(ss) = 2 /\ Len(f) > 1 => Rooted(nd, f, lo, hi)

Finished(nd, lb, f, lo, hi) ==
  /\ Spans(nd, lb, f, lo, hi)
  /\ Len(f) > 1 => /\ Rooted(nd, f, lo, hi)
                   /\ \A n \in 1..(Len(nd) - 1) : Child(nd, n)

\* The nodes of the stack and those below them read as the tokens shifted, and
\* once a sentence is accepted the last node reads as all of them.
Building == \E lo, hi \in Seq(Nat) : Built(Stack, yyvs, Shifted, nodes, labels, lo, hi)
Whole == \E lo, hi \in Seq(Nat) : Finished(nodes, labels, input, lo, hi)

Tree ==
  /\ pc \in {"yysetstate", "yybackup", "yyreduce"} => Building
  /\ yyresult = 0 => Whole

\* The elements of s up to m are those of t; t begins with s; t has s up to m
\* and then x.
Agree(s, t, m) == \A i \in 1..m : t[i] = s[i]
Begins(s, t) == Len(s) <= Len(t) /\ Agree(s, t, Len(s))
Swapped(s, t, m, x) == Len(t) = m + 1 /\ t[m + 1] = x /\ Agree(s, t, m)

LEMMA BeginsItself == \A s : \A S : s \in Seq(S) => Begins(s, s)
BY DEF Begins, Agree

LEMMA BeginsLonger ==
  ASSUME NEW S, NEW s \in Seq(S), NEW t, NEW x, Longer(t, s, x)
  PROVE  Begins(s, t)
<1>1. PICK n \in Nat : n = Len(s)
  OBVIOUS
<1> QED BY <1>1 DEF Begins, Agree, Longer

\* A node keeps its span when tokens and nodes are added.
LEMMA KeepSpans ==
  ASSUME NEW nd \in Seq(Node), NEW md, NEW lb, NEW mb, NEW f \in Codes, NEW g \in Codes,
         NEW lo, NEW hi, NEW lp \in Seq(Nat), NEW hp \in Seq(Nat),
         Spans(nd, lb, f, lo, hi), Begins(nd, md), Agree(lb, mb, Len(nd)),
         Begins(f, g), Begins(lo, lp), Begins(hi, hp), NEW n \in 1..Len(nd)
  PROVE  SpanAt(md, mb, g, lp, hp, n)
<1>1. PICK q \in Nat : q = Len(nd) /\ Len(lo) = q /\ Len(hi) = q
  BY DEF Spans
<1>2. PICK r \in Nat : r = Len(f) /\ r <= Len(g)
  BY DEF Codes, Begins
<1>3. /\ \A i \in 1..q : md[i] = nd[i] /\ mb[i] = lb[i] /\ lp[i] = lo[i] /\ hp[i] = hi[i]
      /\ \A i \in 1..r : g[i] = f[i]
  BY <1>1, <1>2 DEF Begins, Agree
<1>4. ASSUME NEW k \in 1..q PROVE lo[k] \in 1..hi[k] /\ hi[k] \in 1..r /\ lo[k] \in 1..r
  <2>1. lo[k] \in 1..hi[k] /\ hi[k] \in 1..r
    BY <1>1, <1>2 DEF Spans, SpanAt
  <2> QED BY <2>1
<1>5. SpanAt(nd, lb, f, lo, hi, n) /\ n \in 1..q
  BY <1>1 DEF Spans
<1>6. \A k \in 1..(n - 1) : k \in 1..q
  BY <1>5
<1>7. lp[n] \in 1..hp[n] /\ hp[n] \in 1..Len(g)
  <2>1. PICK t \in Nat : t = Len(g)
    BY DEF Codes
  <2>2. lo[n] \in 1..hi[n] /\ hi[n] \in 1..r /\ lp[n] = lo[n] /\ hp[n] = hi[n]
    BY <1>3, <1>4, <1>5
  <2>3. hi[n] \in 1..t
    BY <1>2, <2>1, <2>2
  <2> QED BY <2>1, <2>2, <2>3
<1>8. CASE LeafAt(nd, lb, f, lo, hi, n)
  <2>1. LeafAt(md, mb, g, lp, hp, n)
    BY <1>3, <1>5, <1>8 DEF LeafAt
  <2> QED BY <1>7, <2>1 DEF SpanAt
<1>9. CASE UnaryAt(nd, lb, f, lo, hi, n)
  <2>1. PICK k \in 1..(n - 1) : nd[n].kids = <<k>> /\ lo[k] = lo[n] + 1 /\ hi[k] = hi[n]
    BY <1>9 DEF UnaryAt
  <2>2. md[n].kids = <<k>> /\ lp[k] = lp[n] + 1 /\ hp[k] = hp[n]
    BY <1>3, <1>5, <1>6, <2>1
  <2>3. md[n].type = "uexpr" /\ g[lp[n]] = MINUS
    BY <1>3, <1>4, <1>5, <1>9 DEF UnaryAt
  <2>4. UnaryAt(md, mb, g, lp, hp, n)
    BY <2>2, <2>3 DEF UnaryAt
  <2> QED BY <1>7, <2>4 DEF SpanAt
<1>10. CASE BinaryAt(nd, lb, f, lo, hi, n)
  <2>1. PICK k \in 1..(n - 1) : \E l \in 1..(n - 1) :
               /\ nd[n].kids = <<k, l>>
               /\ lo[k] = lo[n] /\ hi[l] = hi[n] /\ lo[l] = hi[k] + 2
               /\ f[hi[k] + 1] = TokenOf[lb[n]]
    BY <1>10 DEF BinaryAt
  <2>2. PICK l \in 1..(n - 1) :
               /\ nd[n].kids = <<k, l>>
               /\ lo[k] = lo[n] /\ hi[l] = hi[n] /\ lo[l] = hi[k] + 2
               /\ f[hi[k] + 1] = TokenOf[lb[n]]
    BY <2>1
  <2>3. k \in 1..q /\ l \in 1..q
    BY <1>6
  <2>4. hi[k] + 1 \in 1..r
    <3>1. hi[k] + 2 \in 1..r /\ hi[k] \in 1..r
      BY <1>4, <2>2, <2>3
    <3> QED BY <3>1
  <2>5. md[n].kids = <<k, l>> /\ lp[k] = lp[n] /\ hp[l] = hp[n] /\ lp[l] = hp[k] + 2
    BY <1>3, <1>5, <2>2, <2>3
  <2>6. g[hp[k] + 1] = TokenOf[mb[n]]
    <3>1. hp[k] = hi[k] /\ mb[n] = lb[n]
      BY <1>3, <1>5, <2>3
    <3>2. g[hi[k] + 1] = f[hi[k] + 1]
      BY <1>3, <2>4
    <3> QED BY <2>2, <3>1, <3>2
  <2>7. md[n].type \in {"bexpr", "rexpr"} /\ mb[n] \in DOMAIN TokenOf
    BY <1>3, <1>5, <1>10 DEF BinaryAt
  <2>8. BinaryAt(md, mb, g, lp, hp, n)
    BY <2>5, <2>6, <2>7 DEF BinaryAt
  <2> QED BY <1>7, <2>8 DEF SpanAt
<1> QED BY <1>5, <1>8, <1>9, <1>10 DEF SpanAt

\* An element of the stack keeps its end when those above it change.
LEMMA KeepEnding ==
  ASSUME NEW ss \in Seq(0..29), NEW vs, NEW st, NEW wt, NEW f, NEW lo, NEW hi, NEW hp,
         Laid(ss, vs, f, lo, hi), ss[1] = 0, Len(hi) = Len(lo), Begins(hi, hp),
         NEW m \in 1..Len(ss), Agree(ss, st, m), Agree(vs, wt, m), NEW i \in 1..m
  PROVE  Ending(st, wt, hp, i) = Ending(ss, vs, hi, i)
<1>1. st[i] = ss[i] /\ wt[i] = vs[i]
  BY DEF Agree
<1>2. CASE ss[i] \in NodeStates
  <2>1. i # 1
    <3>1. 0 \notin NodeStates
      BY DEF NodeStates
    <3> QED BY <1>2, <3>1
  <2>2. i \in 2..Len(ss)
    <3>1. Len(ss) \in Nat
      OBVIOUS
    <3> QED BY <2>1, <3>1
  <2>3. vs[i] \in 1..Len(hi)
    BY <1>2, <2>2 DEF Laid, LaidAt
  <2>4. hp[vs[i]] = hi[vs[i]]
    BY <2>3 DEF Begins, Agree
  <2> QED BY <1>1, <2>4 DEF Ending
<1>3. CASE ss[i] \notin NodeStates
  BY <1>1, <1>3 DEF Ending
<1> QED BY <1>2, <1>3

\* What the stack has below a change stays laid out.
LEMMA KeepLaid ==
  ASSUME NEW ss \in Seq(0..29), NEW vs, NEW st, NEW wt, NEW f \in Codes, NEW g \in Codes,
         NEW lo \in Seq(Nat), NEW hi, NEW lp \in Seq(Nat), NEW hp,
         Laid(ss, vs, f, lo, hi), ss[1] = 0, Len(hi) = Len(lo),
         Begins(f, g), Begins(lo, lp), Begins(hi, hp),
         NEW m \in 1..Len(ss), Agree(ss, st, m), Agree(vs, wt, m), NEW i \in 2..m
  PROVE  LaidAt(st, wt, g, lp, hp, i)
<1>1. st[i] = ss[i] /\ wt[i] = vs[i]
  BY DEF Agree
<1>2. PICK j \in 1..m : j = i - 1
  OBVIOUS
<1>3. Ending(st, wt, hp, i - 1) = Ending(ss, vs, hi, i - 1)
  <2>1. Ending(st, wt, hp, j) = Ending(ss, vs, hi, j)
    BY KeepEnding
  <2> QED BY <1>2, <2>1
<1>4. PICK a \in Nat : a = Len(lo) /\ a <= Len(lp) /\ \A k \in 1..a : lp[k] = lo[k]
  BY DEF Begins, Agree
<1>5. PICK b \in Nat : b = Len(f) /\ b <= Len(g) /\ \A k \in 1..b : g[k] = f[k]
  BY DEF Begins, Agree, Codes
<1>6. PICK c \in Nat : c = Len(lp)
  OBVIOUS
<1>7. PICK d \in Nat : d = Len(g)
  BY DEF Codes
<1>8. LaidAt(ss, vs, f, lo, hi, i)
  <2>1. Len(ss) \in Nat
    OBVIOUS
  <2>2. i \in 2..Len(ss)
    BY <2>1
  <2> QED BY <2>2 DEF Laid
<1>9. ss[i] \in NodeStates => vs[i] \in 1..c /\ lp[vs[i]] = Ending(ss, vs, hi, i - 1) + 1
  <2> SUFFICES ASSUME ss[i] \in NodeStates
               PROVE  vs[i] \in 1..c /\ lp[vs[i]] = Ending(ss, vs, hi, i - 1) + 1
      OBVIOUS
  <2>1. vs[i] \in 1..a /\ lo[vs[i]] = Ending(ss, vs, hi, i - 1) + 1
    BY <1>4, <1>8 DEF LaidAt
  <2>2. vs[i] \in 1..c
    BY <1>4, <1>6, <2>1
  <2> QED BY <1>4, <2>1, <2>2
<1>10. ss[i] \in TokenStates => vs[i] \in 1..d /\ vs[i] = Ending(ss, vs, hi, i - 1) + 1
  <2> SUFFICES ASSUME ss[i] \in TokenStates
               PROVE  vs[i] \in 1..d /\ vs[i] = Ending(ss, vs, hi, i - 1) + 1
      OBVIOUS
  <2>1. vs[i] \in 1..b /\ vs[i] = Ending(ss, vs, hi, i - 1) + 1
    BY <1>5, <1>8 DEF LaidAt
  <2>2. vs[i] \in 1..d
    BY <1>5, <1>7, <2>1
  <2> QED BY <2>1, <2>2
<1>11. ss[i] \in {5} \cup 10..19 => g[vs[i]] = f[vs[i]]
  <2> SUFFICES ASSUME ss[i] \in {5} \cup 10..19 PROVE g[vs[i]] = f[vs[i]]
      OBVIOUS
  <2>1. vs[i] \in 1..b
    BY <1>5, <1>8 DEF LaidAt, TokenStates
  <2> QED BY <1>5, <2>1
<1>12. ss[i] = 5 => g[vs[i]] = MINUS
  BY <1>8, <1>11 DEF LaidAt
<1>13. ss[i] \in 10..19 => g[vs[i]] = TokenOf[Operator[ss[i] - 9]]
  BY <1>8, <1>11 DEF LaidAt
<1> QED BY <1>1, <1>3, <1>6, <1>7, <1>9, <1>10, <1>12, <1>13 DEF LaidAt

\* A node that has a parent keeps it, and one below a change stays on the stack.
LEMMA KeepChild ==
  ASSUME NEW nd \in Seq(Node), NEW md \in Seq(Node), Begins(nd, md), NEW n, Child(nd, n)
  PROVE  Child(md, n)
<1>1. PICK q \in Nat : q = Len(nd) /\ q <= Len(md) /\ \A p \in 1..q : md[p] = nd[p]
  BY DEF Begins, Agree
<1>2. PICK p \in 1..q : \E j \in DOMAIN nd[p].kids : nd[p].kids[j] = n
  BY <1>1 DEF Child
<1>3. md[p] = nd[p]
  BY <1>1
<1>4. p \in 1..Len(md)
  <2>1. PICK r \in Nat : r = Len(md)
    OBVIOUS
  <2>2. p \in 1..r
    BY <1>1, <2>1
  <2> QED BY <2>1, <2>2
<1> QED BY <1>2, <1>3, <1>4 DEF Child

\* What the stacks and the tree are made of.
Shaped(ss, vs, f, nd, lb) ==
  /\ ss \in Seq(0..29) /\ vs \in Seq(Int) /\ Len(vs) = Len(ss) /\ ss # <<>> /\ ss[1] = 0
  /\ f \in Codes
  /\ nd \in Seq(Node) /\ lb \in Seq(Names \cup Int) /\ Len(lb) = Len(nd)

\* The ends of the elements are numbers.
LEMMA EndingNumber ==
  ASSUME NEW ss, NEW vs, NEW f, NEW nd, NEW lb, NEW lo \in Seq(Nat), NEW hi \in Seq(Nat),
         Shaped(ss, vs, f, nd, lb), Laid(ss, vs, f, lo, hi), Len(hi) = Len(lo),
         NEW i \in 1..Len(ss)
  PROVE  Ending(ss, vs, hi, i) \in Int
<1>1. vs[i] \in Int
  <2>1. i \in 1..Len(vs)
    BY DEF Shaped
  <2> QED BY <2>1, ElementOfSeq DEF Shaped
<1>2. CASE ss[i] \in NodeStates
  <2>1. i \in 2..Len(ss)
    <3>1. i # 1
      BY <1>2 DEF Shaped, NodeStates
    <3>2. Len(ss) \in Nat
      BY LenProperties DEF Shaped
    <3> QED BY <3>1, <3>2
  <2>2. vs[i] \in 1..Len(hi)
    BY <1>2, <2>1 DEF Laid, LaidAt
  <2>3. hi[vs[i]] \in Nat
    BY <2>2, ElementOfSeq
  <2> QED BY <1>2, <2>3 DEF Ending, NodeStates
<1>3. CASE ss[i] \notin NodeStates
  BY <1>1, <1>3 DEF Ending
<1> QED BY <1>2, <1>3

\* No state stands for a token and for a node.
LEMMA StatesApart == \A u \in TokenStates : u \notin NodeStates /\ u # 0 /\ u # 2
<1>1. ASSUME NEW u \in {1, 3, 4, 5} PROVE u \notin NodeStates /\ u # 0 /\ u # 2
  BY DEF NodeStates
<1>2. ASSUME NEW u \in 10..19 PROVE u \notin NodeStates /\ u # 0 /\ u # 2
  BY DEF NodeStates
<1> QED BY <1>1, <1>2 DEF TokenStates

\* The next place, and the last of it.
LEMMA OneMore == \A n, r \in Nat : (n + 1) - 1 = n /\ r + 1 \in 1..(r + 1)
  OBVIOUS

\* A shift lays its token behind the others (y.tab.c:1450-1465).
LEMMA ShiftBuilt ==
  ASSUME NEW ss, NEW vs, NEW f, NEW nd, NEW lb, NEW lo \in Seq(Nat), NEW hi \in Seq(Nat),
         Shaped(ss, vs, f, nd, lb), Built(ss, vs, f, nd, lb, lo, hi), Last(ss) # 2,
         NEW u \in TokenStates, NEW c \in Nat,
         u \in {5} => c = MINUS, u \in 10..19 => c = TokenOf[Operator[u - 9]],
         NEW g \in Codes, Longer(g, f, c),
         NEW st \in Seq(0..29), Longer(st, ss, u),
         NEW wt \in Seq(Int), Longer(wt, vs, Len(f) + 1)
  PROVE  Built(st, wt, g, nd, lb, lo, hi)
<1>1. PICK n \in Nat \ {0} : n = Len(ss) /\ n = Len(vs) /\ n \in 1..Len(ss)
  BY EmptySeq, LenProperties DEF Shaped
<1>2. PICK r \in Nat : r = Len(f) /\ Len(g) = r + 1 /\ g[r + 1] = c
  BY DEF Codes, Longer, Shaped
<1>3. /\ Len(st) = n + 1 /\ st[n + 1] = u /\ Last(st) = u
      /\ Len(wt) = n + 1 /\ wt[n + 1] = r + 1
      /\ Agree(ss, st, n) /\ Agree(vs, wt, n)
  BY <1>1, <1>2 DEF Longer, Agree, Last
<1>4. /\ Begins(f, g) /\ Begins(lo, lo) /\ Begins(hi, hi) /\ Begins(nd, nd)
      /\ Agree(lb, lb, Len(nd))
  BY BeginsItself, BeginsLonger DEF Codes, Shaped, Agree
<1>5. Spans(nd, lb, f, lo, hi) /\ Laid(ss, vs, f, lo, hi) /\ Len(hi) = Len(lo)
  BY DEF Built, Spans
<1>6. Spans(nd, lb, g, lo, hi)
  <2>1. \A k \in 1..Len(nd) : SpanAt(nd, lb, g, lo, hi, k)
    BY <1>4, <1>5, KeepSpans DEF Shaped
  <2> QED BY <1>5, <2>1 DEF Spans
<1>7. u \notin NodeStates /\ u # 0 /\ u # 2
  BY StatesApart
<1>8. Laid(st, wt, g, lo, hi)
  <2>1. ASSUME NEW i \in 2..n PROVE LaidAt(st, wt, g, lo, hi, i)
    BY <1>1, <1>3, <1>4, <1>5, KeepLaid DEF Shaped
  <2>2. LaidAt(st, wt, g, lo, hi, n + 1)
    <3>1. Ending(st, wt, hi, n) = Ending(ss, vs, hi, n)
      <4>1. n \in 1..n
        BY <1>1
      <4>2. ss \in Seq(0..29) /\ ss[1] = 0
        BY DEF Shaped
      <4>3. n \in 1..Len(ss) /\ Agree(ss, st, n) /\ Agree(vs, wt, n) /\ Begins(hi, hi)
        BY <1>1, <1>3, <1>4
      <4> QED BY <1>5, <4>1, <4>2, <4>3, KeepEnding
    <3>2. Ending(ss, vs, hi, n) = r
      BY <1>1, <1>2 DEF Built
    <3>3. (n + 1) - 1 = n /\ r + 1 \in 1..(r + 1)
      <4>1. n \in Nat /\ r \in Nat
        OBVIOUS
      <4> QED BY <4>1, OneMore, Zenon
    <3>4. Ending(st, wt, hi, (n + 1) - 1) = r
      BY <3>1, <3>2, <3>3
    <3>5. u \in 10..19 => c = TokenOf[Operator[u - 9]]
      OBVIOUS
    <3>6. u = 5 => c = MINUS
      OBVIOUS
    <3> QED BY <1>2, <1>3, <1>7, <3>3, <3>4, <3>5, <3>6 DEF LaidAt
  <2>3. \A i \in 2..(n + 1) : i \in 2..n \/ i = n + 1
    OBVIOUS
  <2> QED BY <1>3, <2>1, <2>2, <2>3 DEF Laid
<1>9. Ending(st, wt, hi, Len(st)) = Len(g)
  BY <1>2, <1>3, <1>7 DEF Ending
<1>10. ASSUME NEW k \in 1..Len(nd) PROVE Child(nd, k) \/ OnStack(st, wt, k)
  <2>1. Child(nd, k) \/ OnStack(ss, vs, k)
    BY DEF Built
  <2>2. ASSUME OnStack(ss, vs, k) PROVE OnStack(st, wt, k)
    <3>1. PICK i \in 2..n : ss[i] \in NodeStates /\ vs[i] = k
      BY <1>1, <2>2 DEF OnStack
    <3>2. i \in 1..n /\ i \in 2..(n + 1)
      OBVIOUS
    <3>3. st[i] = ss[i] /\ wt[i] = vs[i]
      BY <1>3, <3>2 DEF Agree
    <3> QED BY <1>3, <3>1, <3>2, <3>3 DEF OnStack
  <2> QED BY <2>1, <2>2
<1> QED BY <1>3, <1>6, <1>7, <1>8, <1>9, <1>10 DEF Built

\* The first token of an element follows the last one of element m.
Meets(l, k, ss, vs, hi, m) == l[k] = Ending(ss, vs, hi, m) + 1

\* The nodes on the stack above element m become children.
Adopts(node, ss, vs, m) ==
  \A i \in (m + 1)..Len(ss) : ss[i] \in NodeStates =>
     \E j \in DOMAIN node.kids : node.kids[j] = vs[i]

\* A reduction that makes a node puts it in the place of its operands
\* (y.tab.c:1478-1623).
LEMMA NodeBuilt ==
  ASSUME NEW ss, NEW vs, NEW f, NEW nd, NEW lb, NEW lo \in Seq(Nat), NEW hi \in Seq(Nat),
         Shaped(ss, vs, f, nd, lb), Built(ss, vs, f, nd, lb, lo, hi), Last(ss) # 2,
         NEW u \in NodeStates, NEW m \in 1..(Len(ss) - 1),
         NEW st \in Seq(0..29), Swapped(ss, st, m, u),
         NEW wt \in Seq(Int), Swapped(vs, wt, m, Len(nd) + 1),
         NEW node, NEW md \in Seq(Node), Longer(md, nd, node),
         NEW label, NEW mb \in Seq(Names \cup Int), Longer(mb, lb, label),
         NEW a, NEW lp \in Seq(Nat), Longer(lp, lo, a),
         NEW hp \in Seq(Nat), Longer(hp, hi, Len(f)),
         SpanAt(md, mb, f, lp, hp, Len(nd) + 1),
         Meets(lp, Len(nd) + 1, ss, vs, hi, m),
         Adopts(node, ss, vs, m)
  PROVE  Built(st, wt, f, md, mb, lp, hp)
<1>1. PICK n \in Nat \ {0} : n = Len(ss) /\ n = Len(vs) /\ m \in 1..(n - 1) /\ m \in 1..n
  <2>1. PICK n \in Nat \ {0} : n = Len(ss) /\ n = Len(vs)
    BY EmptySeq, LenProperties DEF Shaped
  <2>2. m \in 1..(n - 1)
    BY <2>1
  <2>3. m \in 1..n
    BY <2>1, <2>2
  <2> QED BY <2>1, <2>2, <2>3
<1>2. PICK q \in Nat : q = Len(nd) /\ q = Len(lb) /\ q = Len(lo) /\ q = Len(hi)
  BY LenProperties DEF Shaped, Built, Spans
<1>3. /\ Len(st) = m + 1 /\ st[m + 1] = u /\ Last(st) = u
      /\ Len(wt) = m + 1 /\ wt[m + 1] = q + 1
      /\ Agree(ss, st, m) /\ Agree(vs, wt, m)
  BY <1>1, <1>2 DEF Swapped, Last
<1>4. /\ Len(md) = q + 1 /\ Len(mb) = q + 1 /\ Len(lp) = q + 1 /\ Len(hp) = q + 1
      /\ md[q + 1] = node /\ hp[q + 1] = Len(f)
  BY <1>2 DEF Longer
<1>5. /\ Begins(f, f) /\ Begins(lo, lp) /\ Begins(hi, hp) /\ Begins(nd, md)
      /\ Agree(lb, mb, Len(nd))
  <2>1. Begins(f, f) /\ Begins(lo, lp) /\ Begins(hi, hp) /\ Begins(nd, md) /\ Begins(lb, mb)
    BY BeginsItself, BeginsLonger DEF Codes, Shaped
  <2> QED BY <2>1 DEF Begins, Shaped
<1>6. Spans(nd, lb, f, lo, hi) /\ Laid(ss, vs, f, lo, hi)
  BY DEF Built
<1>7. \A k \in 1..(q + 1) : k \in 1..q \/ k = q + 1
  OBVIOUS
<1>8. Spans(md, mb, f, lp, hp)
  <2>1. \A k \in 1..q : SpanAt(md, mb, f, lp, hp, k)
    BY <1>2, <1>5, <1>6, KeepSpans DEF Shaped
  <2>2. SpanAt(md, mb, f, lp, hp, q + 1)
    BY <1>2
  <2> QED BY <1>4, <1>7, <2>1, <2>2 DEF Spans
<1>9. u # 0 /\ u # 2 /\ u \notin TokenStates /\ u # 5 /\ u \notin 10..19
  BY DEF NodeStates, TokenStates
<1>10. Laid(st, wt, f, lp, hp)
  <2>1. ASSUME NEW i \in 2..m PROVE LaidAt(st, wt, f, lp, hp, i)
    BY <1>1, <1>2, <1>3, <1>5, <1>6, KeepLaid DEF Shaped
  <2>2. LaidAt(st, wt, f, lp, hp, m + 1)
    <3>1. Ending(st, wt, hp, m) = Ending(ss, vs, hi, m)
      <4>1. m \in 1..m /\ m \in 1..Len(ss)
        BY <1>1
      <4>2. ss \in Seq(0..29) /\ ss[1] = 0
        BY DEF Shaped
      <4>3. Len(hi) = Len(lo)
        BY <1>2
      <4> QED BY <1>3, <1>5, <1>6, <4>1, <4>2, <4>3, KeepEnding
    <3>2. lp[q + 1] = Ending(ss, vs, hi, m) + 1
      BY <1>2 DEF Meets
    <3>3. (m + 1) - 1 = m /\ q + 1 \in 1..(q + 1)
      OBVIOUS
    <3>4. lp[q + 1] = Ending(st, wt, hp, (m + 1) - 1) + 1
      BY <3>1, <3>2, <3>3
    <3> QED BY <1>3, <1>4, <1>9, <3>3, <3>4 DEF LaidAt
  <2>3. \A i \in 2..(m + 1) : i \in 2..m \/ i = m + 1
    OBVIOUS
  <2> QED BY <1>3, <2>1, <2>2, <2>3 DEF Laid
<1>11. Ending(st, wt, hp, Len(st)) = Len(f)
  BY <1>3, <1>4, <1>9 DEF Ending
<1>12. ASSUME NEW k \in 1..(q + 1) PROVE Child(md, k) \/ OnStack(st, wt, k)
  <2>1. CASE k = q + 1
    <3>1. m + 1 \in 2..(m + 1)
      BY <1>1
    <3>2. st[m + 1] \in NodeStates /\ wt[m + 1] = k
      BY <1>3, <2>1
    <3> QED BY <1>3, <3>1, <3>2 DEF OnStack
  <2>2. CASE k \in 1..q
    <3>1. Child(nd, k) \/ OnStack(ss, vs, k)
      BY <1>2, <2>2 DEF Built
    <3>2. ASSUME Child(nd, k) PROVE Child(md, k)
      BY <1>5, <3>2, KeepChild DEF Shaped
    <3>3. ASSUME OnStack(ss, vs, k) PROVE Child(md, k) \/ OnStack(st, wt, k)
      <4>1. PICK i \in 2..n : ss[i] \in NodeStates /\ vs[i] = k
        BY <1>1, <3>3 DEF OnStack
      <4>2. CASE i <= m
        <5>1. i \in 1..m /\ i \in 2..(m + 1)
          BY <4>2
        <5>2. st[i] = ss[i] /\ wt[i] = vs[i]
          BY <1>3, <5>1 DEF Agree
        <5> QED BY <1>3, <4>1, <5>1, <5>2 DEF OnStack
      <4>3. CASE i > m
        <5>1. i \in (m + 1)..n
          BY <4>3
        <5>2. \E j \in DOMAIN node.kids : node.kids[j] = k
          BY <1>1, <4>1, <5>1 DEF Adopts
        <5>3. q + 1 \in 1..Len(md)
          BY <1>4
        <5> QED BY <1>4, <5>2, <5>3 DEF Child
      <4>4. i <= m \/ i > m
        BY <1>1
      <4> QED BY <4>2, <4>3, <4>4
    <3> QED BY <3>1, <3>2, <3>3
  <2> QED BY <1>7, <2>1, <2>2
<1>13. wt[Len(st)] = Len(md)
  BY <1>3, <1>4
<1> QED BY <1>3, <1>4, <1>8, <1>9, <1>10, <1>11, <1>12, <1>13 DEF Built

\* The rules whose actions make nodes, by the state that reduces with them, and
\* the rules that pass a value on (y.tab.c:599-640).
LEMMA RuleOfState ==
  /\ At(yydefact, 3) = 16 /\ At(yydefact, 4) = 17 /\ At(yydefact, 9) = 18
  /\ At(yydefact, 7) = 14 /\ At(yydefact, 1) = 3 /\ At(yydefact, 6) = 2
  /\ \A s \in 20..29 : At(yydefact, s) = s - 16
<1>1. /\ At(yydefact, 3) = 16 /\ At(yydefact, 4) = 17 /\ At(yydefact, 9) = 18
      /\ At(yydefact, 7) = 14 /\ At(yydefact, 1) = 3 /\ At(yydefact, 6) = 2
  BY DEF At, yydefact
<1>2. \A s \in 20..29 : At(yydefact, s) = s - 16
  BY DEF At, yydefact
<1> QED BY <1>1, <1>2

\* The tokens of the operators, in the order of the rules and of the symbols
\* (y.tab.c:525-532, test.y:484-513).
LEMMA OperatorTokens ==
  ASSUME NEW k \in 1..10
  PROVE  /\ Operator[k] \in DOMAIN TokenOf
         /\ At(yytoknum, k + 16) = TokenOf[Operator[k]]
<1>1. /\ Operator[1] = "add" /\ Operator[2] = "sub" /\ Operator[3] = "mul"
      /\ Operator[4] = "divide" /\ Operator[5] = "lt" /\ Operator[6] = "gt"
      /\ Operator[7] = "le" /\ Operator[8] = "ge" /\ Operator[9] = "eq"
      /\ Operator[10] = "neq"
  BY DEF Operator
<1>2. /\ TokenOf["add"] = 43 /\ TokenOf["sub"] = 45 /\ TokenOf["mul"] = 42
      /\ TokenOf["divide"] = 47 /\ TokenOf["lt"] = 60 /\ TokenOf["gt"] = 62
      /\ TokenOf["le"] = 266 /\ TokenOf["ge"] = 267 /\ TokenOf["eq"] = 268
      /\ TokenOf["neq"] = 269
  BY DEF TokenOf
<1>3. /\ At(yytoknum, 17) = 43 /\ At(yytoknum, 18) = 45 /\ At(yytoknum, 19) = 42
      /\ At(yytoknum, 20) = 47 /\ At(yytoknum, 21) = 60 /\ At(yytoknum, 22) = 62
      /\ At(yytoknum, 23) = 266 /\ At(yytoknum, 24) = 267 /\ At(yytoknum, 25) = 268
      /\ At(yytoknum, 26) = 269
  BY DEF At, yytoknum
<1>4. {"add", "sub", "mul", "divide", "lt", "gt", "le", "ge", "eq", "neq"} \subseteq DOMAIN TokenOf
  BY DEF TokenOf
<1>5. Operator[k] \in DOMAIN TokenOf
  BY <1>1, <1>4
<1>6. k \in {1, 2, 3, 4, 5, 6, 7, 8, 9, 10}
  OBVIOUS
<1> HIDE DEF At, Operator, TokenOf
<1>7. At(yytoknum, k + 16) = TokenOf[Operator[k]]
  BY <1>1, <1>2, <1>3, <1>6
<1> QED BY <1>5, <1>7

\* The state an operator leads to tells which it is (y.tab.c:637-677).
LEMMA OperatorEntry ==
  ASSUME yystate = 7, yychar \in Nat, HasEntry, At(yytable, Index) # YYFINAL,
         NEW u, u = At(yytable, Index)
  PROVE  u \in 10..19 /\ yychar = TokenOf[Operator[u - 9]]
<1> DEFINE t == Translate(yychar)
<1>1. t \in 0..26
  BY DEF Translate, YYNTOKENS, YYUNDEFTOK
<1>2. t # 2 => At(yytoknum, t) = yychar
  BY DEF Translate, YYNTOKENS, YYUNDEFTOK
<1> HIDE DEF t
<1>3. Index \in 0..35 /\ At(yycheck, Index) = t /\ Index = At(yypact, yystate) + t
  BY DEF HasEntry, Index, t, YYPACT_NINF, YYLAST
<1>4. t \in 17..26 /\ At(yytable, Index) = t - 7
  BY <1>1, <1>3 DEF At, yypact, yycheck, yytable
<1>5. PICK k \in 1..10 : k = u - 9 /\ k + 16 = t /\ u \in 10..19
  BY <1>4
<1>6. At(yytoknum, t) = TokenOf[Operator[u - 9]]
  BY <1>5, OperatorTokens
<1> QED BY <1>2, <1>4, <1>5, <1>6

\* The node a reduction makes of the values it pops (y.tab.c:1497-1594).
Makes(ss, vs, node, label) ==
  \/ /\ Last(ss) \in {3, 4}
     /\ node.type \in {"cnst", "var"} /\ node.kids = <<>> /\ label = vs[Len(vs)]
  \/ /\ Last(ss) = 9
     /\ node.type = "uexpr" /\ node.kids = <<vs[Len(vs)]>>
  \/ /\ Last(ss) \in 20..29
     /\ node.type \in {"bexpr", "rexpr"} /\ node.kids = <<vs[Len(vs) - 2], vs[Len(vs)]>>
     /\ label = Operator[Last(ss) - 19]

\* A node over the tokens of f from a on, its children among the first q nodes.
Over(node, label, f, lo, hi, q, a) ==
  \/ /\ node.type \in {"cnst", "var"} /\ node.kids = <<>>
     /\ a = label /\ label = Len(f)
  \/ /\ node.type = "uexpr" /\ f[a] = MINUS
     /\ \E k \in 1..q : node.kids = <<k>> /\ lo[k] = a + 1 /\ hi[k] = Len(f)
  \/ /\ node.type \in {"bexpr", "rexpr"} /\ label \in DOMAIN TokenOf
     /\ \E k \in 1..q, l \in 1..q :
          /\ node.kids = <<k, l>>
          /\ lo[k] = a /\ hi[l] = Len(f) /\ lo[l] = hi[k] + 2
          /\ f[hi[k] + 1] = TokenOf[label]

\* The first token of the elements above element m.
From(ss, vs, hi, m, a) == a = Ending(ss, vs, hi, m) + 1

\* The spans of the children with those of the new node.
LEMMA OverSpan ==
  ASSUME NEW f \in Codes, NEW nd \in Seq(Node), NEW lb, NEW lo \in Seq(Nat), NEW hi \in Seq(Nat),
         Spans(nd, lb, f, lo, hi),
         NEW node, NEW label, NEW a \in 1..Len(f), Over(node, label, f, lo, hi, Len(nd), a),
         NEW md, Longer(md, nd, node), NEW mb, mb[Len(nd) + 1] = label,
         NEW lp, Longer(lp, lo, a), NEW hp, Longer(hp, hi, Len(f))
  PROVE  SpanAt(md, mb, f, lp, hp, Len(nd) + 1)
<1>1. PICK q \in Nat : q = Len(nd) /\ q = Len(lo) /\ q = Len(hi)
  BY DEF Spans
<1>2. PICK r \in Nat : r = Len(f)
  BY DEF Codes
<1>3. md[q + 1] = node /\ mb[q + 1] = label /\ lp[q + 1] = a /\ hp[q + 1] = r
  BY <1>1, <1>2 DEF Longer
<1>4. \A k \in 1..q : lp[k] = lo[k] /\ hp[k] = hi[k]
  BY <1>1 DEF Longer
<1>5. (q + 1) - 1 = q
  OBVIOUS
<1>6. lp[q + 1] \in 1..hp[q + 1] /\ hp[q + 1] \in 1..Len(f)
  <2>1. a \in 1..r /\ r \in 1..r
    BY <1>2
  <2> QED BY <1>2, <1>3, <2>1
<1>7. CASE /\ node.type \in {"cnst", "var"} /\ node.kids = <<>>
           /\ a = label /\ label = Len(f)
  <2>1. LeafAt(md, mb, f, lp, hp, q + 1)
    BY <1>2, <1>3, <1>7 DEF LeafAt
  <2> QED BY <1>1, <1>6, <2>1 DEF SpanAt
<1>8. CASE /\ node.type = "uexpr" /\ f[a] = MINUS
           /\ \E k \in 1..q : node.kids = <<k>> /\ lo[k] = a + 1 /\ hi[k] = Len(f)
  <2>1. PICK k \in 1..q : node.kids = <<k>> /\ lo[k] = a + 1 /\ hi[k] = r
    BY <1>2, <1>8
  <2>2. lp[k] = a + 1 /\ hp[k] = r
    BY <1>4, <2>1
  <2>3. UnaryAt(md, mb, f, lp, hp, q + 1)
    BY <1>3, <1>5, <1>8, <2>1, <2>2 DEF UnaryAt
  <2> QED BY <1>1, <1>6, <2>3 DEF SpanAt
<1>9. CASE /\ node.type \in {"bexpr", "rexpr"} /\ label \in DOMAIN TokenOf
           /\ \E k \in 1..q, l \in 1..q :
                /\ node.kids = <<k, l>>
                /\ lo[k] = a /\ hi[l] = Len(f) /\ lo[l] = hi[k] + 2
                /\ f[hi[k] + 1] = TokenOf[label]
  <2>1. PICK k \in 1..q, l \in 1..q :
                /\ node.kids = <<k, l>>
                /\ lo[k] = a /\ hi[l] = r /\ lo[l] = hi[k] + 2
                /\ f[hi[k] + 1] = TokenOf[label]
    BY <1>2, <1>9
  <2>2. lp[k] = a /\ hp[k] = hi[k] /\ hp[l] = r /\ lp[l] = hp[k] + 2
    BY <1>4, <2>1
  <2>3. f[hp[k] + 1] = TokenOf[label]
    BY <2>1, <2>2
  <2>4. BinaryAt(md, mb, f, lp, hp, q + 1)
    BY <1>3, <1>5, <1>9, <2>1, <2>2, <2>3 DEF BinaryAt
  <2> QED BY <1>1, <1>6, <2>4 DEF SpanAt
<1> QED BY <1>1, <1>7, <1>8, <1>9 DEF Over

\* An element of the stack that is a token, and one that is a node.
LEMMA TokenElement ==
  ASSUME NEW ss, NEW vs, NEW f, NEW lo, NEW hi, Laid(ss, vs, f, lo, hi),
         NEW i \in 2..Len(ss), NEW s \in TokenStates, ss[i] \in {s}
  PROVE  /\ vs[i] \in 1..Len(f) /\ From(ss, vs, hi, i - 1, vs[i])
         /\ Ending(ss, vs, hi, i) = vs[i]
<1>1. LaidAt(ss, vs, f, lo, hi, i) /\ ss[i] = s
  BY DEF Laid
<1>2. s \notin NodeStates /\ s # 0
  BY StatesApart
<1> QED BY <1>1, <1>2 DEF LaidAt, From, Ending

LEMMA NodeElement ==
  ASSUME NEW ss, NEW vs, NEW f, NEW lo, NEW hi, Laid(ss, vs, f, lo, hi),
         NEW i \in 2..Len(ss), ss[i] \in NodeStates
  PROVE  /\ vs[i] \in 1..Len(lo) /\ From(ss, vs, hi, i - 1, lo[vs[i]])
         /\ Ending(ss, vs, hi, i) = hi[vs[i]]
<1>1. LaidAt(ss, vs, f, lo, hi, i)
  BY DEF Laid
<1>2. ss[i] # 0
  BY DEF NodeStates
<1> QED BY <1>1, <1>2 DEF LaidAt, From, Ending

\* A number or a name becomes a leaf (rules 16 and 17).
LEMMA LeafOver ==
  ASSUME NEW ss, NEW vs, NEW f, NEW nd, NEW lb, NEW lo \in Seq(Nat), NEW hi \in Seq(Nat),
         Shaped(ss, vs, f, nd, lb), Built(ss, vs, f, nd, lb, lo, hi),
         NEW m \in 1..(Len(ss) - 1), NEW u, Reduces(ss, m, u),
         NEW node, NEW label, Makes(ss, vs, node, label), Last(ss) \in {3, 4}
  PROVE  \E a \in 1..Len(f) :
            /\ From(ss, vs, hi, m, a)
            /\ Over(node, label, f, lo, hi, Len(nd), a)
            /\ Adopts(node, ss, vs, m)
<1>1. PICK n \in Nat \ {0} : n = Len(ss) /\ n = Len(vs) /\ Last(ss) = ss[n]
  BY EmptySeq, LenProperties DEF Shaped, Last
<1>2. PICK s \in {3, 4} : s = ss[n] /\ s \in 0..29 /\ s \in TokenStates /\ s = Last(ss)
  BY <1>1 DEF TokenStates
<1>3. m = n - 1 /\ n \in 2..n
  <2>1. Pops(s) = 1
    BY <1>2, RulesOf
  <2> QED BY <1>1, <1>2, <2>1 DEF Reduces
<1>4. vs[n] \in 1..Len(f) /\ From(ss, vs, hi, n - 1, vs[n]) /\ Ending(ss, vs, hi, n) = vs[n]
  <2>1. Laid(ss, vs, f, lo, hi) /\ n \in 2..Len(ss)
    BY <1>1, <1>3 DEF Built
  <2>2. s \in TokenStates /\ ss[n] \in {s}
    BY <1>2
  <2> QED BY <2>1, <2>2, TokenElement
<1>5. Ending(ss, vs, hi, n) = Len(f)
  BY <1>1, <1>2 DEF Built
<1>6. node.type \in {"cnst", "var"} /\ node.kids = <<>> /\ label = vs[n]
  <2>1. Last(ss) # 9 /\ Last(ss) \notin 20..29
    BY <1>2
  <2> QED BY <1>1, <2>1 DEF Makes
<1>7. Over(node, label, f, lo, hi, Len(nd), vs[n])
  BY <1>4, <1>5, <1>6 DEF Over
<1>8. Adopts(node, ss, vs, m)
  <2>1. s \notin NodeStates
    BY <1>2, StatesApart
  <2>2. ASSUME NEW i \in (m + 1)..Len(ss) PROVE ss[i] \notin NodeStates
    <3>1. i = n
      BY <1>1, <1>3
    <3> QED BY <1>2, <2>1, <3>1
  <2> QED BY <2>2 DEF Adopts
<1> QED BY <1>3, <1>4, <1>7, <1>8

\* A minus sign and its operand become one node (rule 18).
LEMMA UnaryOver ==
  ASSUME NEW ss, NEW vs, NEW f, NEW nd, NEW lb, NEW lo \in Seq(Nat), NEW hi \in Seq(Nat),
         Shaped(ss, vs, f, nd, lb), Built(ss, vs, f, nd, lb, lo, hi), Path(ss),
         NEW m \in 1..(Len(ss) - 1), NEW u, Reduces(ss, m, u),
         NEW node, NEW label, Makes(ss, vs, node, label), Last(ss) \in {9}
  PROVE  \E a \in 1..Len(f) :
            /\ From(ss, vs, hi, m, a)
            /\ Over(node, label, f, lo, hi, Len(nd), a)
            /\ Adopts(node, ss, vs, m)
<1>1. PICK n \in Nat \ {0} : n = Len(ss) /\ n = Len(vs) /\ Last(ss) = ss[n] /\ ss[1] = 0
  BY EmptySeq, LenProperties DEF Shaped, Last
<1>2. ss[n] = 9 /\ 9 \in NodeStates
  BY <1>1 DEF NodeStates
<1>3. m = n - 2 /\ n \in 3..n
  <2>1. Pops(9) = 2
    BY RulesOf
  <2> QED BY <1>1, <1>2, <2>1 DEF Reduces
<1>4. PICK i \in 2..n : i = n - 1 /\ i - 1 = m /\ i + 1 = n /\ i \in 2..Len(ss) /\ n \in 2..Len(ss)
  <2>1. /\ n - 1 \in 2..n /\ (n - 1) - 1 = m /\ (n - 1) + 1 = n
        /\ n - 1 \in 2..Len(ss) /\ n \in 2..Len(ss)
    BY <1>1, <1>3
  <2> QED BY <2>1
<1>5. ss[i] = 5 /\ 5 \in TokenStates
  <2>1. ss[n] \in Follows(ss[i]) /\ ss[i] \in 0..29
    <3>1. i \in 1..(Len(ss) - 1) /\ i \in 1..Len(ss)
      BY <1>1, <1>4
    <3> QED BY <1>4, <3>1, ElementOfSeq DEF Path
  <2> QED BY <1>2, <2>1, FollowsFrom DEF TokenStates
<1>6. Laid(ss, vs, f, lo, hi) /\ Ending(ss, vs, hi, n) = Len(f) /\ Len(lo) = Len(nd)
  BY <1>1, <1>2 DEF Built, Spans
<1>7. /\ vs[i] \in 1..Len(f) /\ From(ss, vs, hi, m, vs[i]) /\ Ending(ss, vs, hi, i) = vs[i]
      /\ f[vs[i]] = MINUS
  <2>1. vs[i] \in 1..Len(f) /\ From(ss, vs, hi, i - 1, vs[i]) /\ Ending(ss, vs, hi, i) = vs[i]
    BY <1>4, <1>5, <1>6, TokenElement
  <2>2. f[vs[i]] = MINUS
    BY <1>4, <1>5, <1>6 DEF Laid, LaidAt
  <2> QED BY <1>4, <2>1, <2>2
<1>8. /\ vs[n] \in 1..Len(lo) /\ From(ss, vs, hi, n - 1, lo[vs[n]])
      /\ Ending(ss, vs, hi, n) = hi[vs[n]]
  BY <1>2, <1>4, <1>6, NodeElement
<1>9. lo[vs[n]] = vs[i] + 1 /\ hi[vs[n]] = Len(f) /\ vs[n] \in 1..Len(nd)
  <2>1. From(ss, vs, hi, i, lo[vs[n]])
    BY <1>4, <1>8
  <2> QED BY <1>6, <1>7, <1>8, <2>1 DEF From
<1>10. node.type = "uexpr" /\ node.kids = <<vs[n]>>
  BY <1>1, <1>2 DEF Makes
<1>11. Over(node, label, f, lo, hi, Len(nd), vs[i])
  BY <1>7, <1>9, <1>10 DEF Over
<1>12. Adopts(node, ss, vs, m)
  <2>1. ASSUME NEW k \in (m + 1)..Len(ss), ss[k] \in NodeStates
        PROVE  \E j \in DOMAIN node.kids : node.kids[j] = vs[k]
    <3>1. k = i \/ k = n
      BY <1>1, <1>3, <1>4
    <3>2. k = n
      BY <1>5, <2>1, <3>1, StatesApart
    <3>3. 1 \in DOMAIN node.kids /\ node.kids[1] = vs[k]
      BY <1>10, <3>2
    <3> QED BY <3>3
  <2> QED BY <2>1 DEF Adopts
<1> QED BY <1>7, <1>11, <1>12

\* What follows an operator.
LEMMA FollowsOperator == \A v \in 10..19 : Follows(v) = {3, 4, 5, v + 10}
BY DEF Follows

\* Two operands and the operator between them become one node (rules 4 to 13).
LEMMA BinaryOver ==
  ASSUME NEW ss, NEW vs, NEW f, NEW nd, NEW lb, NEW lo \in Seq(Nat), NEW hi \in Seq(Nat),
         Shaped(ss, vs, f, nd, lb), Built(ss, vs, f, nd, lb, lo, hi), Path(ss),
         NEW m \in 1..(Len(ss) - 1), NEW u, Reduces(ss, m, u),
         NEW node, NEW label, Makes(ss, vs, node, label), Last(ss) \in 20..29
  PROVE  \E a \in 1..Len(f) :
            /\ From(ss, vs, hi, m, a)
            /\ Over(node, label, f, lo, hi, Len(nd), a)
            /\ Adopts(node, ss, vs, m)
<1>1. PICK n \in Nat \ {0} : n = Len(ss) /\ n = Len(vs) /\ Last(ss) = ss[n] /\ n \in 1..Len(ss)
  BY EmptySeq, LenProperties DEF Shaped, Last
<1>2. PICK s \in 20..29 : s = ss[n] /\ s = Last(ss)
  BY <1>1
<1>3. n = 5 /\ ss[3] = 7
  BY <1>1, <1>2, PathShape
<1>4. m = 2
  <2>1. Pops(s) = 3
    <3>1. s \in 0..29
      OBVIOUS
    <3> QED BY <3>1, RulesOf
  <2> QED BY <1>1, <1>2, <1>3, <2>1 DEF Reduces
<1>5. \A i \in 2..5 : i \in 2..Len(ss)
  BY <1>1, <1>3
<1>6. PICK v \in 10..19 : v = ss[4] /\ s - 19 = v - 9
  <2>1. ss[5] \in Follows(ss[4]) /\ ss[4] \in 0..29
    <3>1. 4 \in 1..(Len(ss) - 1) /\ 4 \in 1..Len(ss) /\ 4 + 1 = 5
      BY <1>1, <1>3
    <3> QED BY <3>1, ElementOfSeq DEF Path
  <2>2. ss[4] \in 10..19
    <3>1. ss[5] \in 20..29
      BY <1>2, <1>3
    <3> QED BY <2>1, <3>1, FollowsFrom
  <2>3. PICK v \in 10..19 : v = ss[4]
    BY <2>2
  <2>4. s \in {3, 4, 5, v + 10}
    <3>1. s \in Follows(v)
      BY <1>2, <1>3, <2>1, <2>3
    <3> QED BY <3>1, FollowsOperator
  <2>5. s - 19 = v - 9
    BY <2>4
  <2> QED BY <2>3, <2>5
<1>7. v \in TokenStates /\ s \in NodeStates /\ 7 \in NodeStates
  BY DEF TokenStates, NodeStates
<1>8. Laid(ss, vs, f, lo, hi) /\ Ending(ss, vs, hi, 5) = Len(f) /\ Len(lo) = Len(nd)
  <2>1. Last(ss) # 2
    BY <1>2
  <2> QED BY <1>1, <1>3, <2>1 DEF Built, Spans
<1>9. /\ vs[3] \in 1..Len(nd) /\ From(ss, vs, hi, 2, lo[vs[3]])
      /\ Ending(ss, vs, hi, 3) = hi[vs[3]]
  <2>1. /\ vs[3] \in 1..Len(lo) /\ From(ss, vs, hi, 3 - 1, lo[vs[3]])
        /\ Ending(ss, vs, hi, 3) = hi[vs[3]]
    BY <1>3, <1>5, <1>7, <1>8, NodeElement
  <2> QED BY <1>8, <2>1
<1>10. /\ vs[4] \in 1..Len(f) /\ From(ss, vs, hi, 3, vs[4]) /\ Ending(ss, vs, hi, 4) = vs[4]
       /\ f[vs[4]] = TokenOf[Operator[v - 9]]
  <2>1. 4 \in 2..Len(ss) /\ ss[4] \in {v}
    BY <1>5, <1>6
  <2>2. /\ vs[4] \in 1..Len(f) /\ From(ss, vs, hi, 4 - 1, vs[4])
        /\ Ending(ss, vs, hi, 4) = vs[4]
    BY <1>7, <1>8, <2>1, TokenElement
  <2>3. LaidAt(ss, vs, f, lo, hi, 4)
    BY <1>8, <2>1 DEF Laid
  <2>4. ss[4] \in 10..19 => f[vs[4]] = TokenOf[Operator[ss[4] - 9]]
    BY <2>3 DEF LaidAt
  <2>5. f[vs[4]] = TokenOf[Operator[v - 9]]
    BY <1>6, <2>4
  <2> QED BY <2>2, <2>5
<1>11. /\ vs[5] \in 1..Len(nd) /\ From(ss, vs, hi, 4, lo[vs[5]])
       /\ Ending(ss, vs, hi, 5) = hi[vs[5]]
  <2>1. 5 \in 2..Len(ss) /\ ss[5] \in NodeStates
    <3>1. ss[5] = s
      BY <1>2, <1>3
    <3>2. 5 \in 2..5
      OBVIOUS
    <3> QED BY <1>5, <1>7, <3>1, <3>2
  <2>2. /\ vs[5] \in 1..Len(lo) /\ From(ss, vs, hi, 5 - 1, lo[vs[5]])
        /\ Ending(ss, vs, hi, 5) = hi[vs[5]]
    BY <1>8, <2>1, NodeElement
  <2> QED BY <1>8, <2>2
<1>12. /\ node.type \in {"bexpr", "rexpr"} /\ node.kids = <<vs[3], vs[5]>>
       /\ label = Operator[v - 9]
  <2>1. Last(ss) # 9 /\ Last(ss) \notin {3, 4}
    BY <1>2
  <2>2. /\ node.type \in {"bexpr", "rexpr"} /\ node.kids = <<vs[Len(vs) - 2], vs[Len(vs)]>>
        /\ label = Operator[Last(ss) - 19]
    BY <2>1 DEF Makes
  <2>3. Len(vs) = 5 /\ Len(vs) - 2 = 3 /\ Last(ss) - 19 = v - 9
    BY <1>1, <1>2, <1>3, <1>6
  <2> QED BY <2>2, <2>3
<1>13. label \in DOMAIN TokenOf
  <2>1. v - 9 \in 1..10
    OBVIOUS
  <2> QED BY <1>12, <2>1, OperatorTokens
<1>14. PICK a \in Nat, b \in Nat : a = lo[vs[3]] /\ b = hi[vs[3]]
  <2>1. Len(hi) = Len(nd)
    BY DEF Built, Spans
  <2> QED BY <1>8, <1>9, <2>1, ElementOfSeq
<1>15. vs[4] = b + 1 /\ lo[vs[5]] = b + 2 /\ hi[vs[5]] = Len(f)
  <2>1. vs[4] = b + 1
    BY <1>9, <1>10, <1>14 DEF From
  <2>2. lo[vs[5]] = vs[4] + 1
    BY <1>10, <1>11 DEF From
  <2> QED BY <1>8, <1>11, <2>1, <2>2
<1>16. a \in 1..Len(f)
  <2>1. SpanAt(nd, lb, f, lo, hi, vs[3])
    BY <1>9 DEF Built, Spans
  <2>2. a \in 1..b /\ b \in 1..Len(f)
    BY <1>14, <2>1 DEF SpanAt
  <2>3. PICK r \in Nat : r = Len(f)
    BY DEF Shaped, Codes
  <2> QED BY <2>2, <2>3
<1>17. Over(node, label, f, lo, hi, Len(nd), a)
  <2>1. f[hi[vs[3]] + 1] = TokenOf[label]
    BY <1>10, <1>12, <1>14, <1>15
  <2>2. /\ node.kids = <<vs[3], vs[5]>>
        /\ lo[vs[3]] = a /\ hi[vs[5]] = Len(f) /\ lo[vs[5]] = hi[vs[3]] + 2
    BY <1>12, <1>14, <1>15
  <2> QED BY <1>9, <1>11, <1>12, <1>13, <2>1, <2>2 DEF Over
<1>18. Adopts(node, ss, vs, m)
  <2>1. ASSUME NEW k \in (m + 1)..Len(ss), ss[k] \in NodeStates
        PROVE  \E j \in DOMAIN node.kids : node.kids[j] = vs[k]
    <3>1. k \in {3, 4, 5}
      BY <1>1, <1>3, <1>4
    <3>2. k # 4
      BY <1>6, <1>7, <2>1, StatesApart
    <3>3. /\ 1 \in DOMAIN node.kids /\ node.kids[1] = vs[3]
          /\ 2 \in DOMAIN node.kids /\ node.kids[2] = vs[5]
      BY <1>12
    <3> QED BY <3>1, <3>2, <3>3
  <2> QED BY <2>1 DEF Adopts
<1>19. From(ss, vs, hi, m, a)
  BY <1>4, <1>9, <1>14
<1> QED BY <1>16, <1>17, <1>18, <1>19

\* State 2, behind a whole sentence, makes no node.
LEMMA MakingStates == \A s : s \in {3, 4} \/ s = 9 \/ s \in 20..29 => s # 2
OBVIOUS

\* A reduction that makes a node keeps the stack and the tree in step.
LEMMA MakeBuilt ==
  ASSUME NEW ss, NEW vs, NEW f, NEW nd, NEW lb, NEW lo \in Seq(Nat), NEW hi \in Seq(Nat),
         Shaped(ss, vs, f, nd, lb), Built(ss, vs, f, nd, lb, lo, hi), Path(ss),
         NEW m \in 1..(Len(ss) - 1), NEW u \in NodeStates, Reduces(ss, m, u),
         NEW node, NEW label, Makes(ss, vs, node, label),
         NEW st \in Seq(0..29), Swapped(ss, st, m, u),
         NEW wt \in Seq(Int), Swapped(vs, wt, m, Len(nd) + 1),
         NEW md \in Seq(Node), Longer(md, nd, node),
         NEW mb \in Seq(Names \cup Int), Longer(mb, lb, label)
  PROVE  \E lp, hp \in Seq(Nat) : Built(st, wt, f, md, mb, lp, hp)
<1>0. Last(ss) \in {3, 4} \/ Last(ss) \in {9} \/ Last(ss) \in 20..29
  BY DEF Makes
<1>1. PICK a \in 1..Len(f) :
         /\ From(ss, vs, hi, m, a)
         /\ Over(node, label, f, lo, hi, Len(nd), a)
         /\ Adopts(node, ss, vs, m)
  <2>2. CASE Last(ss) \in {3, 4}
    BY <2>2, LeafOver
  <2>3. CASE Last(ss) \in {9}
    BY <2>3, UnaryOver
  <2>4. CASE Last(ss) \in 20..29
    BY <2>4, BinaryOver
  <2> QED BY <1>0, <2>2, <2>3, <2>4
<1>2. PICK q \in Nat : q = Len(nd) /\ q = Len(lb) /\ q = Len(lo) /\ q = Len(hi)
  BY LenProperties DEF Shaped, Built, Spans
<1>3. Len(f) \in Nat /\ a \in Nat
  <2>1. PICK r \in Nat : r = Len(f)
    BY DEF Shaped, Codes
  <2> QED BY <2>1
<1>4. PICK lp \in Seq(Nat) : Longer(lp, lo, a)
  <2>1. lo \in Codes
    BY DEF Codes
  <2> QED BY <1>3, <2>1, AppendLonger DEF Codes
<1>5. PICK hp \in Seq(Nat) : Longer(hp, hi, Len(f))
  <2>1. hi \in Codes
    BY DEF Codes
  <2> QED BY <1>3, <2>1, AppendLonger DEF Codes
<1>6. SpanAt(md, mb, f, lp, hp, Len(nd) + 1)
  <2>1. mb[Len(nd) + 1] = label
    BY <1>2 DEF Longer
  <2>2. f \in Codes /\ nd \in Seq(Node) /\ Spans(nd, lb, f, lo, hi)
    BY DEF Shaped, Built
  <2> QED BY <1>1, <1>4, <1>5, <2>1, <2>2, OverSpan
<1>7. Meets(lp, Len(nd) + 1, ss, vs, hi, m)
  <2>1. lp[Len(nd) + 1] = a
    BY <1>2, <1>4 DEF Longer
  <2> QED BY <1>1, <2>1 DEF Meets, From
<1>8. Last(ss) # 2
  BY MakingStates, Zenon DEF Makes
<1>9. Built(st, wt, f, md, mb, lp, hp)
  BY <1>1, <1>4, <1>5, <1>6, <1>7, <1>8, NodeBuilt
<1> QED BY <1>9

\* A term that is the whole expression keeps its place (rule 14).
LEMMA RenameBuilt ==
  ASSUME NEW ss, NEW vs, NEW f, NEW nd, NEW lb, NEW lo \in Seq(Nat), NEW hi \in Seq(Nat),
         Shaped(ss, vs, f, nd, lb), Built(ss, vs, f, nd, lb, lo, hi), Last(ss) \in {7},
         NEW m \in 1..(Len(ss) - 1), NEW u \in NodeStates, Reduces(ss, m, u),
         NEW st \in Seq(0..29), Swapped(ss, st, m, u),
         NEW wt \in Seq(Int), Swapped(vs, wt, m, vs[Len(vs)])
  PROVE  Built(st, wt, f, nd, lb, lo, hi)
<1>1. PICK n \in Nat \ {0} : n = Len(ss) /\ n = Len(vs) /\ Last(ss) = ss[n] /\ ss[1] = 0
  BY EmptySeq, LenProperties DEF Shaped, Last
<1>2. m = n - 1 /\ n = m + 1 /\ m \in 1..n /\ m \in 1..m /\ n \in 2..n
  <2>1. Pops(7) = 1
    BY RulesOf
  <2> QED BY <1>1, <2>1 DEF Reduces
<1>3. ss[n] = 7 /\ ss[n] \in NodeStates
  BY <1>1 DEF NodeStates
<1>4. /\ Len(st) = n /\ st[n] = u /\ Last(st) = u /\ Len(wt) = n /\ wt[n] = vs[n]
      /\ Agree(ss, st, m) /\ Agree(vs, wt, m)
  BY <1>1, <1>2 DEF Swapped, Last
<1>5. Begins(f, f) /\ Begins(lo, lo) /\ Begins(hi, hi)
  BY BeginsItself DEF Shaped, Codes
<1>6. /\ Spans(nd, lb, f, lo, hi) /\ Laid(ss, vs, f, lo, hi) /\ Len(hi) = Len(lo)
      /\ Ending(ss, vs, hi, n) = Len(f) /\ vs[n] = Len(nd)
      /\ \A k \in 1..Len(nd) : Child(nd, k) \/ OnStack(ss, vs, k)
  BY <1>1, <1>3 DEF Built, Spans
<1>7. /\ vs[n] \in 1..Len(lo) /\ From(ss, vs, hi, m, lo[vs[n]])
      /\ Ending(ss, vs, hi, n) = hi[vs[n]]
  <2>1. n \in 2..Len(ss) /\ n - 1 = m
    BY <1>1, <1>2
  <2>2. /\ vs[n] \in 1..Len(lo) /\ From(ss, vs, hi, n - 1, lo[vs[n]])
        /\ Ending(ss, vs, hi, n) = hi[vs[n]]
    <3>1. Laid(ss, vs, f, lo, hi) /\ n \in 2..Len(ss) /\ ss[n] \in NodeStates
      BY <1>3, <1>6, <2>1
    <3> QED BY <3>1, NodeElement
  <2> QED BY <2>1, <2>2
<1>8. u # 0 /\ u # 2 /\ u \notin TokenStates /\ u # 5 /\ u \notin 10..19
  BY DEF NodeStates, TokenStates
<1>9. Laid(st, wt, f, lo, hi)
  <2>0. ss \in Seq(0..29) /\ f \in Codes /\ m \in 1..Len(ss)
    BY <1>1, <1>2 DEF Shaped
  <2>1. ASSUME NEW i \in 2..m PROVE LaidAt(st, wt, f, lo, hi, i)
    BY <1>1, <1>4, <1>5, <1>6, <2>0, KeepLaid
  <2>2. LaidAt(st, wt, f, lo, hi, n)
    <3>1. Ending(st, wt, hi, m) = Ending(ss, vs, hi, m)
      <4>1. m \in 1..m /\ ss[1] = 0
        BY <1>1, <1>2
      <4> QED BY <1>4, <1>5, <1>6, <2>0, <4>1, KeepEnding
    <3>2. lo[wt[n]] = Ending(st, wt, hi, n - 1) + 1
      BY <1>2, <1>4, <1>7, <3>1 DEF From
    <3> QED BY <1>4, <1>7, <1>8, <3>2 DEF LaidAt
  <2>3. \A i \in 2..n : i \in 2..m \/ i = n
    BY <1>2
  <2> QED BY <1>4, <2>1, <2>2, <2>3 DEF Laid
<1>10. Ending(st, wt, hi, Len(st)) = Len(f)
  BY <1>4, <1>6, <1>7, <1>8 DEF Ending
<1>11. ASSUME NEW k, OnStack(ss, vs, k) PROVE OnStack(st, wt, k)
  <2>1. PICK i \in 2..n : ss[i] \in NodeStates /\ vs[i] = k
    BY <1>1, <1>11 DEF OnStack
  <2>2. CASE i = n
    BY <1>4, <2>1, <2>2 DEF OnStack
  <2>3. CASE i # n
    <3>1. i \in 1..m /\ i \in 2..n
      BY <1>2, <2>3
    <3>2. st[i] = ss[i] /\ wt[i] = vs[i]
      BY <1>4, <3>1 DEF Agree
    <3> QED BY <1>4, <2>1, <3>1, <3>2 DEF OnStack
  <2> QED BY <2>2, <2>3
<1> QED BY <1>4, <1>6, <1>8, <1>9, <1>10, <1>11 DEF Built

\* The end of the statement: its expression, if any, is the root
\* (rules 2 and 3).
LEMMA FinishBuilt ==
  ASSUME NEW ss, NEW vs, NEW f, NEW nd, NEW lb, NEW lo \in Seq(Nat), NEW hi \in Seq(Nat),
         Shaped(ss, vs, f, nd, lb), Built(ss, vs, f, nd, lb, lo, hi), Path(ss),
         Last(ss) \in {1, 6}, NEW m \in 1..(Len(ss) - 1), NEW u, Reduces(ss, m, u),
         NEW st \in Seq(0..29), Swapped(ss, st, m, 2), NEW wt
  PROVE  Built(st, wt, f, nd, lb, lo, hi)
<1>1. PICK n \in Nat \ {0} : n = Len(ss) /\ n = Len(vs) /\ Last(ss) = ss[n] /\ ss[1] = 0
                             /\ n \in 1..Len(ss)
  BY EmptySeq, LenProperties DEF Shaped, Last
<1>2. \/ ss[n] = 1 /\ n = 2
      \/ ss[n] = 6 /\ n = 3
  <2>1. /\ ss[n] \in {1, 2} => n = 2
        /\ ss[n] \in {6, 7} => n = 3
    BY <1>1, PathShape, Zenon
  <2>2. ss[n] \in {1, 6}
    BY <1>1
  <2> QED BY <2>1, <2>2
<1>3. m = 1
  <2>1. Pops(1) = 1 /\ Pops(6) = 2
    BY RulesOf
  <2>2. m = n - Pops(ss[n])
    BY <1>1 DEF Reduces
  <2>3. CASE ss[n] = 1 /\ n = 2
    BY <2>1, <2>2, <2>3
  <2>4. CASE ss[n] = 6 /\ n = 3
    BY <2>1, <2>2, <2>4
  <2> QED BY <1>2, <2>3, <2>4
<1>4. Len(st) = 2 /\ st[2] = 2 /\ Last(st) = 2
  BY <1>3 DEF Swapped, Last
<1>5. /\ Spans(nd, lb, f, lo, hi) /\ Laid(ss, vs, f, lo, hi) /\ Len(lo) = Len(nd)
      /\ Ending(ss, vs, hi, n) = Len(f)
      /\ \A k \in 1..Len(nd) : Child(nd, k) \/ OnStack(ss, vs, k)
  BY <1>1, <1>2 DEF Built, Spans
<1>6. 2 \in 2..n /\ 2 \in 2..Len(ss) /\ ss[2] = 1 /\ 1 \in TokenStates /\ 2 - 1 = 1
  <2>1. ss[2] = 1
    <3>1. CASE n = 2
      BY <1>2, <3>1
    <3>2. CASE n = 3
      <4>1. ss[3] \in Follows(ss[2]) /\ ss[2] \in 0..29 /\ ss[3] = 6
        <5>1. 2 \in 1..(Len(ss) - 1) /\ 2 \in 1..Len(ss) /\ 2 + 1 = 3
          BY <1>1, <3>2
        <5>2. ss \in Seq(0..29) /\ ss[2 + 1] \in Follows(ss[2])
          BY <5>1 DEF Path
        <5>3. ss[2] \in 0..29
          BY <5>1, <5>2, ElementOfSeq
        <5> QED BY <1>2, <3>2, <5>1, <5>2, <5>3
      <4> QED BY <4>1, FollowsFrom
    <3> QED BY <1>2, <3>1, <3>2
  <2> QED BY <1>1, <1>2, <2>1 DEF TokenStates
<1>7. vs[2] = 1 /\ Ending(ss, vs, hi, 2) = 1
  <2>1. From(ss, vs, hi, 2 - 1, vs[2]) /\ Ending(ss, vs, hi, 2) = vs[2]
    BY <1>5, <1>6, TokenElement
  <2>2. Ending(ss, vs, hi, 1) = 0
    BY <1>1 DEF Ending
  <2> QED BY <1>6, <2>1, <2>2 DEF From
<1>8. Laid(st, wt, f, lo, hi)
  <2>1. 2 \notin NodeStates /\ 2 \notin TokenStates /\ 2 \notin 10..19
    BY DEF NodeStates, TokenStates
  <2>2. LaidAt(st, wt, f, lo, hi, 2)
    BY <1>4, <2>1 DEF LaidAt
  <2> QED BY <1>4, <2>2 DEF Laid
<1>9. 1 \notin NodeStates /\ 6 \in NodeStates /\ 2 \notin NodeStates
  BY DEF NodeStates
<1>10. CASE n = 2
  <2>1. Len(f) = 1
    BY <1>5, <1>7, <1>10
  <2>2. \A k \in 1..Len(nd) : Child(nd, k)
    <3>1. ASSUME NEW k PROVE ~OnStack(ss, vs, k)
      <4>1. \A i \in 2..Len(ss) : ss[i] = 1
        BY <1>1, <1>6, <1>10
      <4> QED BY <1>9, <4>1 DEF OnStack
    <3> QED BY <1>5, <3>1
  <2> QED BY <1>4, <1>5, <1>8, <1>9, <2>1, <2>2 DEF Built
<1>11. CASE n = 3
  <2>1. ss[3] = 6 /\ 3 \in 2..Len(ss) /\ 3 - 1 = 2
    BY <1>1, <1>2, <1>11
  <2>2. vs[3] = Len(nd)
    BY <1>1, <1>9, <1>11, <2>1 DEF Built
  <2>3. /\ vs[3] \in 1..Len(lo) /\ From(ss, vs, hi, 2, lo[vs[3]])
        /\ Ending(ss, vs, hi, 3) = hi[vs[3]]
    BY <1>5, <1>9, <2>1, NodeElement
  <2>4. Rooted(nd, f, lo, hi)
    <3>1. lo[Len(nd)] = 2
      BY <1>7, <2>2, <2>3 DEF From
    <3>2. hi[Len(nd)] = Len(f)
      BY <1>5, <1>11, <2>2, <2>3
    <3>3. Len(nd) > 0
      BY <1>5, <2>2, <2>3
    <3> QED BY <3>1, <3>2, <3>3 DEF Rooted
  <2>5. ASSUME NEW k, OnStack(ss, vs, k) PROVE k = Len(nd)
    <3>1. PICK i \in 2..3 : ss[i] \in NodeStates /\ vs[i] = k
      BY <1>1, <1>11, <2>5 DEF OnStack
    <3>2. i = 3
      BY <1>6, <1>9, <3>1
    <3> QED BY <2>2, <3>1, <3>2
  <2> QED BY <1>4, <1>5, <1>8, <1>9, <2>4, <2>5 DEF Built
<1> QED BY <1>2, <1>10, <1>11

\* What is pushed after popping.
LEMMA SwappedAppend ==
  ASSUME NEW S, NEW s \in Seq(S), NEW m \in 1..Len(s), NEW x \in S
  PROVE  /\ Append(SubSeq(s, 1, m), x) \in Seq(S)
         /\ Swapped(s, Append(SubSeq(s, 1, m), x), m, x)
<1>1. PICK r : r = SubSeq(s, 1, m)
  OBVIOUS
<1>2. r \in Seq(S) /\ Len(r) = m /\ \A i \in 1..m : r[i] = s[i]
  <2>1. Len(s) \in Nat /\ m <= Len(s)
    BY LenProperties
  <2>2. ASSUME NEW i \in 1..m PROVE s[i] \in S
    <3>1. i \in 1..Len(s)
      BY <2>1
    <3> QED BY <3>1, ElementOfSeq
  <2> QED BY <1>1, <2>1, <2>2, SubSeqProperties
<1>3. PICK t : t = Append(r, x)
  OBVIOUS
<1>4. t \in Seq(S) /\ Len(t) = m + 1 /\ t[m + 1] = x /\ \A i \in 1..m : t[i] = r[i]
  BY <1>2, <1>3, AppendProperties
<1>5. t \in Seq(S) /\ Swapped(s, t, m, x)
  BY <1>2, <1>4 DEF Swapped, Agree
<1> QED BY <1>1, <1>3, <1>5

\* The node of a semantic action.
LEMMA ActionOf ==
  ASSUME NEW rule \in 2..18 \ {15}, Action(rule)
  PROVE  /\ rule \in {16, 17} =>
              /\ nodes' = Append(nodes, [type |-> IF rule = 16 THEN "cnst" ELSE "var",
                                        kids |-> <<>>])
              /\ labels' = Append(labels, Rhs(1, 1))
         /\ rule = 18 =>
              /\ nodes' = Append(nodes, [type |-> "uexpr", kids |-> <<Rhs(2, 2)>>])
              /\ labels' = Append(labels, "uminus")
         /\ rule \in 4..13 =>
              /\ nodes' = Append(nodes, [type |-> IF rule <= 7 THEN "bexpr" ELSE "rexpr",
                                        kids |-> <<Rhs(1, 3), Rhs(3, 3)>>])
              /\ labels' = Append(labels, Operator[rule - 3])
<1>1. CASE rule \in {16, 17}
  BY <1>1 DEF Action, Made
<1>2. CASE rule = 18
  BY <1>2 DEF Action, Made
<1>3. CASE rule \in 4..13
  BY <1>3 DEF Action, Made
<1> QED BY <1>1, <1>2, <1>3

LEMMA AppendIsLonger ==
  ASSUME NEW S, NEW s \in Seq(S), NEW t \in Seq(S), NEW x, t = Append(s, x)
  PROVE  Longer(t, s, x)
<1>1. PICK n \in Nat : n = Len(s)
  OBVIOUS
<1>2. Len(t) = n + 1 /\ t[n + 1] = x /\ \A i \in 1..n : t[i] = s[i]
  BY <1>1
<1> QED BY <1>1, <1>2 DEF Longer

\* The semantic actions by the state that reduces: a node of the values on top
\* of the stack, or nothing (y.tab.c:1493-1609).
LEMMA ActionMakes ==
  ASSUME IInv, Reduce
  PROVE  /\ yystate \in {3, 4, 9} \cup 20..29 =>
              /\ YyVal(yyn) = Len(nodes) + 1
              /\ \E node, label : /\ nodes' = Append(nodes, node)
                                  /\ labels' = Append(labels, label)
                                  /\ Makes(yyss, yyvs, node, label)
         /\ yystate \in {1, 6, 7} => nodes' = nodes /\ labels' = labels
         /\ yystate = 7 => YyVal(yyn) = yyvs[Len(yyvs)]
<1>1. /\ pc = "yyreduce" /\ Action(yyn)
      /\ yystate = Last(yyss) /\ yystate \in 0..29 /\ yyn = At(yydefact, yystate)
  BY DEF Reduce, IInv, Types, Stacks
<1>2. PICK n \in Nat : n = Len(yyvs) /\ n - 1 + 1 = n /\ n - 2 + 2 = n
                       /\ n - 3 + 3 = n /\ n - 3 + 1 = n - 2
  BY LenProperties DEF IInv, Types
<1>3. CASE yystate \in {3, 4}
  <2>1. yyn \in {16, 17}
    BY <1>1, <1>3, RuleOfState
  <2>2. Rhs(1, 1) = yyvs[n]
    BY <1>2 DEF Rhs
  <2>3. /\ nodes' = Append(nodes, [type |-> IF yyn = 16 THEN "cnst" ELSE "var", kids |-> <<>>])
        /\ labels' = Append(labels, Rhs(1, 1))
    <3>1. Action(yyn) /\ yyn \in 2..18 \ {15}
      BY <1>1, <2>1
    <3> QED BY <2>1, <3>1, ActionOf, Zenon
  <2>4. PICK node : node = [type |-> IF yyn = 16 THEN "cnst" ELSE "var", kids |-> <<>>]
    OBVIOUS
  <2>5. node.type \in {"cnst", "var"} /\ node.kids = <<>>
    BY <2>4
  <2>6. Makes(yyss, yyvs, node, Rhs(1, 1))
    BY <1>1, <1>2, <1>3, <2>2, <2>5 DEF Makes
  <2>7. YyVal(yyn) = Len(nodes) + 1
    BY <2>1 DEF YyVal
  <2> QED BY <1>3, <2>3, <2>4, <2>6, <2>7
<1>4. CASE yystate = 9
  <2>1. yyn = 18
    BY <1>1, <1>4, RuleOfState
  <2>2. Rhs(2, 2) = yyvs[n]
    BY <1>2 DEF Rhs
  <2>3. /\ nodes' = Append(nodes, [type |-> "uexpr", kids |-> <<Rhs(2, 2)>>])
        /\ labels' = Append(labels, "uminus")
    <3>1. Action(yyn) /\ yyn \in 2..18 \ {15}
      BY <1>1, <2>1
    <3> QED BY <2>1, <3>1, ActionOf, Zenon
  <2>4. PICK node : node = [type |-> "uexpr", kids |-> <<Rhs(2, 2)>>]
    OBVIOUS
  <2>5. node.type = "uexpr" /\ node.kids = <<yyvs[n]>>
    BY <2>2, <2>4
  <2>6. Makes(yyss, yyvs, node, "uminus")
    BY <1>1, <1>2, <1>4, <2>5 DEF Makes
  <2>7. YyVal(yyn) = Len(nodes) + 1
    BY <2>1 DEF YyVal
  <2> QED BY <1>4, <2>3, <2>4, <2>6, <2>7
<1>5. CASE yystate \in 20..29
  <2>1. yyn = yystate - 16 /\ yyn \in 4..13 /\ yyn - 3 = yystate - 19
    <3>1. At(yydefact, yystate) = yystate - 16
      BY <1>5, RuleOfState
    <3> QED BY <1>1, <1>5, <3>1
  <2>2. Rhs(1, 3) = yyvs[n - 2] /\ Rhs(3, 3) = yyvs[n]
    BY <1>2 DEF Rhs
  <2>3. /\ nodes' = Append(nodes, [type |-> IF yyn <= 7 THEN "bexpr" ELSE "rexpr",
                                   kids |-> <<Rhs(1, 3), Rhs(3, 3)>>])
        /\ labels' = Append(labels, Operator[yyn - 3])
    <3>1. Action(yyn) /\ yyn \in 2..18 \ {15}
      BY <1>1, <2>1
    <3> QED BY <2>1, <3>1, ActionOf, Zenon
  <2>4. PICK node : node = [type |-> IF yyn <= 7 THEN "bexpr" ELSE "rexpr",
                            kids |-> <<Rhs(1, 3), Rhs(3, 3)>>]
    OBVIOUS
  <2>5. node.type \in {"bexpr", "rexpr"} /\ node.kids = <<yyvs[n - 2], yyvs[n]>>
    BY <2>2, <2>4
  <2>6. Makes(yyss, yyvs, node, Operator[yyn - 3])
    BY <1>1, <1>2, <1>5, <2>1, <2>5 DEF Makes
  <2>7. YyVal(yyn) = Len(nodes) + 1
    BY <2>1 DEF YyVal
  <2>8. yystate \notin {1, 6, 7}
    BY <1>5
  <2> QED BY <2>3, <2>4, <2>6, <2>7, <2>8
<1>6. CASE yystate \in {1, 6, 7}
  <2>1. yyn \in {2, 3, 14} /\ (yystate = 7 => yyn = 14)
    BY <1>1, <1>6, RuleOfState
  <2>2. nodes' = nodes /\ labels' = labels
    BY <1>1, <2>1 DEF Action, tree
  <2>3. yystate = 7 => YyVal(yyn) = yyvs[n]
    <3>1. At(yyr2, 14) = 1
      BY DEF At, yyr2
    <3> QED BY <1>2, <2>1, <3>1 DEF YyVal, Rhs
  <2> QED BY <1>2, <1>6, <2>2, <2>3
<1> QED BY <1>3, <1>4, <1>5, <1>6

\* What the stacks are made of while tokens are read.
LEMMA ShapedNow ==
  ASSUME IInv, Language, pc \in {"yysetstate", "yybackup", "yyreduce"}
  PROVE  Shaped(Stack, yyvs, Shifted, nodes, labels) /\ Path(Stack)
<1>1. Path(Stack)
  BY DEF IInv, Stacks, Stack
<1>2. Len(yyvs) = Len(Stack)
  <2>1. CASE pc = "yysetstate"
    <3>1. Len(yyvs) = Len(yyss) + 1
      BY <2>1 DEF IInv, Stacks
    <3>2. Len(Append(yyss, yystate)) = Len(yyss) + 1
      BY DEF IInv, Types
    <3> QED BY <2>1, <3>1, <3>2 DEF Stack
  <2>2. CASE pc \in {"yybackup", "yyreduce"}
    BY <2>2 DEF IInv, Stacks, Stack
  <2> QED BY <2>1, <2>2
<1>3. Shifted \in Codes
  BY CodesRead
<1>4. /\ yyvs \in Seq(Int) /\ nodes \in Seq(Node) /\ labels \in Seq(Names \cup Int)
      /\ Len(labels) = Len(nodes)
  BY DEF IInv, Types
<1> QED BY <1>1, <1>2, <1>3, <1>4 DEF Shaped, Path

\* Nothing is on the stacks and nothing read when yyparse begins
\* (y.tab.c:1262-1318).
LEMMA InitTree == Init => Tree
<1> SUFFICES ASSUME Init PROVE Tree
    OBVIOUS
<1>1. /\ input = <<>> /\ yychar = YYEMPTY /\ nodes = <<>> /\ labels = <<>>
      /\ pc = "yysetstate" /\ yyresult = -1 /\ yyvs = <<Garbage>>
      /\ Stack = Append(<<>>, 0)
  BY DEF Init, Stack
<1>2. Shifted = <<>>
  BY <1>1, ParserAssumption DEF Shifted, YYEMPTY
<1>3. Len(Stack) = 1 /\ Stack[1] = 0 /\ Last(Stack) = 0
  BY <1>1 DEF Last
<1>4. 0 \notin NodeStates
  BY DEF NodeStates
<1>5. PICK e \in Seq(Nat) : e = <<>>
  BY EmptySeq
<1>6. Spans(nodes, labels, Shifted, e, e)
  BY <1>1, <1>5 DEF Spans
<1>7. Laid(Stack, yyvs, Shifted, e, e) /\ Ending(Stack, yyvs, e, Len(Stack)) = Len(Shifted)
  BY <1>2, <1>3 DEF Laid, Ending
<1>8. Built(Stack, yyvs, Shifted, nodes, labels, e, e)
  BY <1>1, <1>3, <1>4, <1>6, <1>7 DEF Built
<1>9. Building
  BY <1>8 DEF Building
<1> QED BY <1>1, <1>9 DEF Tree

\* Steps that leave the stacks and the tree.
LEMMA SameBuilding ==
  ASSUME Building, Stack' = Stack, yyvs' = yyvs, Shifted' = Shifted,
         nodes' = nodes, labels' = labels
  PROVE  Building'
<1>1. PICK lo \in Seq(Nat) : \E hi \in Seq(Nat) :
         Built(Stack, yyvs, Shifted, nodes, labels, lo, hi)
  BY DEF Building
<1>2. PICK hi \in Seq(Nat) : Built(Stack, yyvs, Shifted, nodes, labels, lo, hi)
  BY <1>1
<1>3. Built(Stack', yyvs', Shifted', nodes', labels', lo, hi)
  BY <1>2, Zenon
<1> QED BY <1>3 DEF Building

LEMMA QuietTree ==
  ASSUME IInv, Language, Tree, SetState \/ ReadToken \/ Default
  PROVE  Tree'
<1>1. pc \in {"yysetstate", "yybackup"} /\ Building /\ yyresult = -1
  BY DEF SetState, ReadToken, Default, Tree, IInv, Reports
<1>2. yyvs' = yyvs /\ nodes' = nodes /\ labels' = labels /\ yyresult' # 0
  BY <1>1 DEF SetState, ReadToken, Default, tree
<1>3. Shifted' = Shifted
  <2>1. CASE SetState \/ Default
    BY <2>1 DEF SetState, Default, Shifted
  <2>2. CASE ReadToken
    BY <2>2, ReadTokenShifts
  <2> QED BY <2>1, <2>2
<1>4. pc' \in {"yysetstate", "yybackup", "yyreduce"} => Stack' = Stack
  BY DEF SetState, ReadToken, Default, Stack
<1>5. pc' \in {"yysetstate", "yybackup", "yyreduce"} => Building'
  BY <1>1, <1>2, <1>3, <1>4, SameBuilding
<1> QED BY <1>2, <1>5 DEF Tree

\* From the error on, and after the end, nothing is built.
LEMMA RecoveryTree ==
  ASSUME IInv, Tree, ErrLab \/ ErrPop \/ ErrAbort \/ Return
  PROVE  Tree'
<1>1. input' = input /\ nodes' = nodes /\ labels' = labels
  BY DEF ErrLab, ErrPop, ErrAbort, Return, tree
<1>2. /\ pc' \in {"yyerrlab1", "yyreturn", "done"}
      /\ yyresult' = 0 => yyresult = 0
  BY DEF ErrLab, ErrPop, ErrAbort, Return, IInv, Reports
<1>3. Whole' <=> Whole
  BY <1>1 DEF Whole
<1> QED BY <1>2, <1>3 DEF Tree

\* The last node is the root of what is accepted (y.tab.c:1443-1444).
LEMMA AcceptTree ==
  ASSUME IInv, Language, Tree, Accept
  PROVE  Tree'
<1>1. /\ pc = "yybackup" /\ Decided /\ HasEntry /\ At(yytable, Index) = YYFINAL
      /\ pc' = "yyreturn" /\ yyresult' = 0 /\ input' = input
      /\ nodes' = nodes /\ labels' = labels
  BY DEF Accept, tree
<1>2. Path(yyss) /\ yystate = Last(yyss) /\ yystate \in 0..29
      /\ yychar \in Tokens \cup {YYEMPTY, YYEOF}
  BY <1>1 DEF IInv, Types, Stacks
<1>3. yychar # YYEMPTY /\ yychar \in Nat
  <2>1. At(yypact, yystate) # YYPACT_NINF
    BY <1>1 DEF HasEntry
  <2> QED BY <1>1, <1>2, <2>1, CodesRead DEF Decided, YYEOF
<1>4. yystate = 2 /\ yychar = YYEOF
  BY <1>1, <1>2, <1>3, EntriesAdmit DEF YYEOF
<1>5. Stack = yyss /\ Shifted = input
  BY <1>1, <1>4, CodesRead DEF Stack
<1>6. PICK lo \in Seq(Nat) : \E hi \in Seq(Nat) :
         Built(yyss, yyvs, input, nodes, labels, lo, hi)
  BY <1>1, <1>5 DEF Tree, Building
<1>7. PICK hi \in Seq(Nat) : Built(yyss, yyvs, input, nodes, labels, lo, hi)
  BY <1>6
<1>8. ASSUME NEW k PROVE ~OnStack(yyss, yyvs, k)
  <2>1. PICK n \in Nat \ {0} : n = Len(yyss) /\ Last(yyss) = yyss[n] /\ n \in 1..Len(yyss)
    BY <1>2, EmptySeq, LenProperties DEF Path, Last
  <2>2. n = 2
    <3>1. yyss[n] \in {1, 2} => n = 2
      BY <1>2, <2>1, PathShape, Zenon
    <3> QED BY <1>2, <1>4, <2>1, <3>1
  <2>3. ASSUME NEW i \in 2..Len(yyss) PROVE yyss[i] = 2
    <3>1. Len(yyss) = 2 /\ yyss[2] = 2
      BY <1>2, <1>4, <2>1, <2>2
    <3>2. i = 2
      BY <3>1
    <3> QED BY <3>1, <3>2
  <2>4. 2 \notin NodeStates
    BY DEF NodeStates
  <2> QED BY <2>3, <2>4 DEF OnStack
<1>9. PICK q \in Nat : q = Len(nodes) /\ \A k \in 1..(q - 1) : k \in 1..q /\ k # q
  <2>1. PICK q \in Nat : q = Len(nodes)
    BY DEF IInv, Types
  <2> QED BY <2>1
<1>10. Finished(nodes, labels, input, lo, hi)
  <2>1. Last(yyss) = 2
    BY <1>2, <1>4
  <2>2. \A k \in 1..(q - 1) : Child(nodes, k)
    BY <1>7, <1>8, <1>9 DEF Built
  <2> QED BY <1>7, <1>9, <2>1, <2>2 DEF Built, Finished
<1>11. Whole
  BY <1>10 DEF Whole
<1>12. Whole'
  BY <1>1, <1>11 DEF Whole
<1> QED BY <1>1, <1>12 DEF Tree

\* The token shifted is the one its state stands for (y.tab.c:1433-1465).
LEMMA ShiftTree ==
  ASSUME IInv, Language, Tree, Shift
  PROVE  Tree'
<1>1. /\ pc = "yybackup" /\ Decided /\ HasEntry /\ At(yytable, Index) # YYFINAL
      /\ pc' = "yysetstate" /\ yystate' = At(yytable, Index)
      /\ yychar' = IF yychar = YYEOF THEN YYEOF ELSE YYEMPTY
      /\ input' = input /\ yyss' = yyss /\ yyresult' = yyresult
      /\ yyvs' = Append(yyvs, Len(input)) /\ nodes' = nodes /\ labels' = labels
  BY DEF Shift, tree
<1>2. /\ Path(yyss) /\ yystate = Last(yyss) /\ yystate \in 0..29
      /\ yychar \in Tokens \cup {YYEMPTY, YYEOF} /\ yyresult = -1
  BY <1>1 DEF IInv, Types, Stacks, Reports
<1>3. yychar # YYEMPTY /\ yychar \in Nat
  <2>1. At(yypact, yystate) # YYPACT_NINF
    BY <1>1 DEF HasEntry
  <2> QED BY <1>1, <1>2, <2>1, CodesRead DEF Decided, YYEOF
<1>4. Admits(yystate, yychar, yystate')
  BY <1>1, <1>2, <1>3, EntriesAdmit
<1>5. yychar \in Tokens
  <2>1. yychar # 0
    BY <1>4 DEF Admits, RETURN, NUMBER, NAME, MINUS, Operators
  <2> QED BY <1>2, <1>3, <2>1 DEF YYEOF
<1>6. /\ input \in Codes /\ Shifted \in Codes /\ input = Append(Shifted, yychar)
      /\ YYEMPTY \notin Tokens /\ YYEOF \notin Tokens
  BY <1>5, CodesRead
<1>7. Longer(input, Shifted, yychar)
  BY <1>3, <1>6, AppendLonger
<1>8. Stack = yyss /\ Stack' = Append(yyss, yystate') /\ Shifted' = input
  <2>1. yychar' \notin Tokens
    BY <1>1, <1>6
  <2> QED BY <1>1, <2>1 DEF Stack, Shifted
<1>9. yystate' \in TokenStates /\ yystate # 2
  BY <1>4 DEF Admits, TokenStates
<1>10. yystate' = 5 => yychar = MINUS
  BY <1>4 DEF Admits
<1>11. yystate' \in 10..19 => yychar = TokenOf[Operator[yystate' - 9]]
  <2>1. ASSUME yystate' \in 10..19 PROVE yystate = 7
    BY <1>4, <2>1 DEF Admits
  <2>2. yystate = 7 => yychar = TokenOf[Operator[yystate' - 9]]
    BY <1>1, <1>3, OperatorEntry
  <2> QED BY <2>1, <2>2
<1>12. Shaped(yyss, yyvs, Shifted, nodes, labels)
  BY <1>1, <1>8, ShapedNow
<1>13. PICK lo \in Seq(Nat) : \E hi \in Seq(Nat) :
          Built(yyss, yyvs, Shifted, nodes, labels, lo, hi)
  BY <1>1, <1>8 DEF Tree, Building
<1>14. PICK hi \in Seq(Nat) : Built(yyss, yyvs, Shifted, nodes, labels, lo, hi)
  BY <1>13
<1>15. PICK u \in TokenStates : u = yystate' /\ u \in 0..29
  BY <1>9 DEF TokenStates
<1>16. PICK st \in Seq(0..29) : st = Append(yyss, u) /\ Longer(st, yyss, u)
  <2>1. yyss \in Seq(0..29)
    BY <1>2 DEF Path
  <2>2. PICK st : st = Append(yyss, u)
    OBVIOUS
  <2>3. st \in Seq(0..29) /\ Longer(st, yyss, u)
    BY <1>15, <2>1, <2>2 DEF Longer
  <2> QED BY <2>2, <2>3
<1>17. PICK wt \in Seq(Int) : wt = yyvs' /\ Longer(wt, yyvs, Len(Shifted) + 1)
  <2>1. yyvs \in Seq(Int)
    BY DEF IInv, Types
  <2>2. PICK k \in Int : k = Len(input) /\ k = Len(Shifted) + 1
    BY <1>6, <1>7 DEF Longer, Codes
  <2>3. PICK wt : wt = Append(yyvs, k)
    OBVIOUS
  <2>4. wt \in Seq(Int) /\ Longer(wt, yyvs, k)
    BY <2>1, <2>2, <2>3 DEF Longer
  <2> QED BY <1>1, <2>2, <2>3, <2>4
<1>18. Built(st, wt, input, nodes, labels, lo, hi)
  <2>1. u \in {5} => yychar = MINUS
    BY <1>10, <1>15
  <2>2. u \in 10..19 => yychar = TokenOf[Operator[u - 9]]
    BY <1>11, <1>15
  <2>3. Last(yyss) # 2
    BY <1>2, <1>9
  <2> QED BY <1>3, <1>6, <1>7, <1>12, <1>14, <1>16, <1>17, <2>1, <2>2, <2>3, ShiftBuilt
<1>19. Building'
  <2>1. Stack' = st /\ yyvs' = wt
    BY <1>8, <1>15, <1>16, <1>17, Zenon
  <2>2. Built(Stack', yyvs', Shifted', nodes', labels', lo, hi)
    BY <1>1, <1>8, <1>18, <2>1, Zenon
  <2> QED BY <2>2 DEF Building
<1> QED BY <1>1, <1>2, <1>19 DEF Tree

\* What a reduction pops, and what it pushes instead (y.tab.c:1478-1623).
LEMMA ReduceParts ==
  ASSUME IInv, Language, Reduce
  PROVE  \E m \in 1..(Len(yyss) - 1), u \in 0..29, v \in Int :
            /\ Reduces(yyss, m, u) /\ v = YyVal(yyn)
            /\ Swapped(yyss, Stack', m, u) /\ Swapped(yyvs, yyvs', m, v)
            /\ Stack' \in Seq(0..29) /\ yyvs' \in Seq(Int) /\ Shifted' = Shifted
            /\ \/ yystate \in {3, 4, 9} /\ u \in {7, 9} \cup 20..29
               \/ yystate = 7 /\ u = 6
               \/ yystate \in 20..29 /\ u = 6
               \/ yystate \in {1, 6} /\ u = 2
<1>1. /\ pc = "yyreduce" /\ pc' = "yysetstate"
      /\ yyss' = SubSeq(yyss, 1, Len(yyss) - At(yyr2, yyn))
      /\ yyvs' = Append(SubSeq(yyvs, 1, Len(yyvs) - At(yyr2, yyn)), YyVal(yyn))
      /\ yystate' = Goto(At(yyr1, yyn), Last(yyss'))
      /\ input' = input /\ yychar' = yychar /\ yyresult' = yyresult
  BY DEF Reduce
<1>2. /\ Path(yyss) /\ yystate = Last(yyss) /\ yystate \in 0..29
      /\ yyresult = -1 /\ Len(yyvs) = Len(yyss) /\ yyvs \in Seq(Int)
      /\ yyn = At(yydefact, yystate) /\ yyn # 0 /\ Len(yyss) \in Nat
  BY <1>1, LenProperties DEF IInv, Types, Stacks, Reports
<1>3. PICK m \in Nat : m = Len(yyss) - Pops(yystate) /\ m \in 1..(Len(yyss) - 1)
                       /\ m \in 1..Len(yyss)
  <2>1. At(yyr2, yyn) = Pops(yystate)
    BY <1>2 DEF Pops
  <2>2. At(yyr2, yyn) \in 1..3 /\ At(yyr2, yyn) < Len(yyss)
    BY <1>2, Reducible
  <2> QED BY <1>2, <2>1, <2>2
<1>4. PICK below : below = SubSeq(yyss, 1, m) /\ yyss' = below
                   /\ yyvs' = Append(SubSeq(yyvs, 1, m), YyVal(yyn))
  BY <1>1, <1>2, <1>3 DEF Pops
<1>5. Path(below) /\ Last(below) = yyss[m]
  BY <1>2, <1>3, <1>4, PopPath
<1>6. IInv'
  BY ReduceIInv
<1>7. PICK u \in 0..29 : u = yystate' /\ Path(Append(below, u))
  <2>1. Path(Append(yyss', yystate')) /\ yystate' \in 0..29
    BY <1>1, <1>6 DEF IInv, Types, Stacks
  <2> QED BY <1>4, <2>1
<1>8. Reduces(yyss, m, u)
  BY <1>1, <1>2, <1>3, <1>4, <1>5, <1>7 DEF Reduces, Left
<1>9. \/ yystate \in {3, 4, 9} /\ u \in {7, 9} \cup 20..29
      \/ yystate = 7 /\ u = 6
      \/ yystate \in 20..29 /\ u = 6
      \/ yystate \in {1, 6} /\ u = 2
  BY <1>2, <1>3, <1>4, <1>5, <1>7, <1>8, ReduceTo
<1>10. Stack' = Append(below, u) /\ Shifted' = Shifted
  BY <1>1, <1>4, <1>7 DEF Stack, Shifted
<1>11. PICK st \in Seq(0..29) : st = Stack' /\ Swapped(yyss, st, m, u)
  <2>1. yyss \in Seq(0..29)
    BY <1>2 DEF Path
  <2>2. /\ Append(SubSeq(yyss, 1, m), u) \in Seq(0..29)
        /\ Swapped(yyss, Append(SubSeq(yyss, 1, m), u), m, u)
    BY <1>3, <2>1, SwappedAppend
  <2> QED BY <1>4, <1>10, <2>2, Zenon
<1>12. PICK v \in Int : v = YyVal(yyn)
  <2>1. yyvs' \in Seq(Int)
    BY <1>6 DEF IInv, Types
  <2>2. PICK wt : wt = SubSeq(yyvs, 1, m) /\ wt \in Seq(Int) /\ Len(wt) \in Nat
    <3>1. ASSUME NEW i \in 1..m PROVE yyvs[i] \in Int
      <4>1. i \in 1..Len(yyvs)
        BY <1>2, <1>3
      <4> QED BY <1>2, <4>1, ElementOfSeq
    <3>2. SubSeq(yyvs, 1, m) \in Seq(Int)
      BY <1>2, <1>3, <3>1, SubSeqProperties
    <3> QED BY <3>2, LenProperties
  <2>3. PICK x : x = YyVal(yyn)
    OBVIOUS
  <2>4. Append(wt, x) \in Seq(Int)
    BY <1>4, <2>1, <2>2, <2>3, Zenon
  <2>5. x \in Int
    <3>1. Append(wt, x)[Len(wt) + 1] = x /\ Len(wt) + 1 \in 1..Len(Append(wt, x))
      BY <2>2
    <3> QED BY <2>4, <3>1, ElementOfSeq
  <2> QED BY <2>3, <2>5
<1>13. PICK wt \in Seq(Int) : wt = yyvs' /\ Swapped(yyvs, wt, m, v)
  <2>1. m \in 1..Len(yyvs) /\ yyvs \in Seq(Int)
    BY <1>2, <1>3
  <2>2. /\ Append(SubSeq(yyvs, 1, m), v) \in Seq(Int)
        /\ Swapped(yyvs, Append(SubSeq(yyvs, 1, m), v), m, v)
    BY <2>1, SwappedAppend
  <2> QED BY <1>4, <1>12, <2>2, Zenon
<1> QED BY <1>3, <1>8, <1>9, <1>10, <1>11, <1>12, <1>13

\* A reduction makes a node of what it pops, renames a term or ends the statement
\* (y.tab.c:1478-1623).
LEMMA ReduceTree ==
  ASSUME IInv, Language, Tree, Reduce
  PROVE  Tree'
<1>1. /\ pc = "yyreduce" /\ pc' = "yysetstate"
      /\ input' = input /\ yychar' = yychar /\ yyresult' = yyresult
  BY DEF Reduce
<1>2. /\ Path(yyss) /\ yystate = Last(yyss) /\ yyresult = -1
  BY <1>1 DEF IInv, Stacks, Reports
<1>3. PICK m \in 1..(Len(yyss) - 1), u \in 0..29, v \in Int :
         /\ Reduces(yyss, m, u) /\ v = YyVal(yyn)
         /\ Swapped(yyss, Stack', m, u) /\ Swapped(yyvs, yyvs', m, v)
         /\ Stack' \in Seq(0..29) /\ yyvs' \in Seq(Int) /\ Shifted' = Shifted
         /\ \/ yystate \in {3, 4, 9} /\ u \in {7, 9} \cup 20..29
            \/ yystate = 7 /\ u = 6
            \/ yystate \in 20..29 /\ u = 6
            \/ yystate \in {1, 6} /\ u = 2
  BY ReduceParts
<1>4. IInv'
  BY ReduceIInv
<1>5. Reduces(yyss, m, u)
  BY <1>3
<1>6. \/ yystate \in {3, 4, 9} /\ u \in {7, 9} \cup 20..29
      \/ yystate = 7 /\ u = 6
      \/ yystate \in 20..29 /\ u = 6
      \/ yystate \in {1, 6} /\ u = 2
  BY <1>3
<1>7. /\ Stack = yyss /\ Shifted' = Shifted
       /\ Shaped(yyss, yyvs, Shifted, nodes, labels)
  BY <1>1, <1>3, ShapedNow DEF Stack
<1>8. PICK lo \in Seq(Nat) : \E hi \in Seq(Nat) :
          Built(yyss, yyvs, Shifted, nodes, labels, lo, hi)
  BY <1>1, <1>7 DEF Tree, Building
<1>9. PICK hi \in Seq(Nat) : Built(yyss, yyvs, Shifted, nodes, labels, lo, hi)
  BY <1>8
<1>10. PICK st \in Seq(0..29) : st = Stack' /\ Swapped(yyss, st, m, u)
  BY <1>3
<1>11. v = YyVal(yyn)
  BY <1>3
<1>12. PICK wt \in Seq(Int) : wt = yyvs' /\ Swapped(yyvs, wt, m, v)
  BY <1>3
<1>13. ASSUME NEW lp \in Seq(Nat), NEW hp \in Seq(Nat),
              Built(st, wt, Shifted, nodes', labels', lp, hp)
       PROVE  Building'
  <2>1. Built(Stack', yyvs', Shifted', nodes', labels', lp, hp)
    BY <1>7, <1>10, <1>12, <1>13, Zenon
  <2> QED BY <2>1 DEF Building
<1>14. CASE yystate \in {3, 4, 9} \cup 20..29
  <2>1. v = Len(nodes) + 1
    BY <1>11, <1>14, ActionMakes
  <2>2. PICK node, label : /\ nodes' = Append(nodes, node)
                           /\ labels' = Append(labels, label)
                           /\ Makes(yyss, yyvs, node, label)
    BY <1>14, ActionMakes
  <2>3. PICK md \in Seq(Node) : md = nodes' /\ Longer(md, nodes, node)
    <3>1. nodes \in Seq(Node) /\ nodes' \in Seq(Node)
      BY <1>4 DEF IInv, Types
    <3>2. Longer(nodes', nodes, node)
      BY <2>2, <3>1, AppendIsLonger
    <3> QED BY <3>1, <3>2
  <2>4. PICK mb \in Seq(Names \cup Int) : mb = labels' /\ Longer(mb, labels, label)
    <3>1. labels \in Seq(Names \cup Int) /\ labels' \in Seq(Names \cup Int)
      BY <1>4 DEF IInv, Types
    <3>2. Longer(labels', labels, label)
      BY <2>2, <3>1, AppendIsLonger
    <3> QED BY <3>1, <3>2
  <2>5. u \in NodeStates
    <3>1. u \in {7, 9} \cup 20..29 \/ u = 6
      BY <1>6, <1>14
    <3> QED BY <3>1 DEF NodeStates
  <2>6. Swapped(yyvs, wt, m, Len(nodes) + 1)
    BY <1>12, <2>1, Zenon
  <2>7. \E lp, hp \in Seq(Nat) : Built(st, wt, Shifted, md, mb, lp, hp)
    BY <1>2, <1>3, <1>5, <1>7, <1>9, <1>10, <2>2, <2>3, <2>4, <2>5, <2>6, MakeBuilt
  <2>8. PICK lp \in Seq(Nat) : \E hp \in Seq(Nat) : Built(st, wt, Shifted, md, mb, lp, hp)
    BY <2>7
  <2>9. PICK hp \in Seq(Nat) : Built(st, wt, Shifted, md, mb, lp, hp)
    BY <2>8
  <2>10. Built(st, wt, Shifted, nodes', labels', lp, hp)
    BY <2>3, <2>4, <2>9, Zenon
  <2>11. Building'
    BY <1>13, <2>10
  <2> QED BY <1>1, <1>2, <2>11 DEF Tree
<1>15. CASE yystate = 7
  <2>1. nodes' = nodes /\ labels' = labels /\ v = yyvs[Len(yyvs)]
    BY <1>11, <1>15, ActionMakes
  <2>2. u \in NodeStates /\ Last(yyss) \in {7}
    BY <1>2, <1>6, <1>15 DEF NodeStates
  <2>3. Swapped(yyvs, wt, m, yyvs[Len(yyvs)])
    BY <1>12, <2>1, Zenon
  <2>4. Built(st, wt, Shifted, nodes, labels, lo, hi)
    BY <1>3, <1>5, <1>7, <1>9, <1>10, <2>2, <2>3, RenameBuilt
  <2>5. Built(st, wt, Shifted, nodes', labels', lo, hi)
    BY <2>1, <2>4, Zenon
  <2>6. Building'
    BY <1>13, <2>5
  <2> QED BY <1>1, <1>2, <2>6 DEF Tree
<1>16. CASE yystate \in {1, 6}
  <2>1. nodes' = nodes /\ labels' = labels
    BY <1>16, ActionMakes
  <2>0. yystate \notin {3, 4, 9} \cup 20..29 /\ yystate # 7
    BY <1>16
  <2>2. u = 2 /\ Last(yyss) \in {1, 6}
    BY <1>2, <1>6, <1>16, <2>0
  <2>3. Swapped(yyss, st, m, 2)
    BY <1>10, <2>2, Zenon
  <2>4. Built(st, wt, Shifted, nodes, labels, lo, hi)
    BY <1>2, <1>3, <1>5, <1>7, <1>9, <2>2, <2>3, FinishBuilt
  <2>5. Built(st, wt, Shifted, nodes', labels', lo, hi)
    BY <2>1, <2>4, Zenon
  <2>6. Building'
    BY <1>13, <2>5
  <2> QED BY <1>1, <1>2, <2>6 DEF Tree
<1> QED BY <1>6, <1>14, <1>15, <1>16

\* The tree is in step with the stack at every label of yyparse
\* (y.tab.c:1320-1811).
LEMMA NextTree == IInv /\ Language /\ Tree /\ [Next]_vars => Tree'
<1> SUFFICES ASSUME IInv, Language, Tree, [Next]_vars PROVE Tree'
    OBVIOUS
<1>1. CASE Stopped \/ UNCHANGED vars
  <2>1. UNCHANGED vars
    BY <1>1 DEF Stopped
  <2>2. Stack' = Stack /\ Shifted' = Shifted
    BY <2>1 DEF vars, Stack, Shifted
  <2>3. yyvs' = yyvs /\ nodes' = nodes /\ labels' = labels /\ input' = input
        /\ pc' = pc /\ yyresult' = yyresult
    BY <2>1 DEF vars, tree
  <2>4. Building => Building'
    BY <2>2, <2>3, SameBuilding
  <2>5. Whole => Whole'
    BY <2>3 DEF Whole
  <2> QED BY <2>3, <2>4, <2>5 DEF Tree
<1> QED
  BY <1>1, QuietTree, RecoveryTree, AcceptTree, ShiftTree, ReduceTree DEF Next, Step

\* The pieces of a sequence: one element, and two that meet.
LEMMA OnePiece ==
  ASSUME NEW f \in Codes, NEW a \in 1..Len(f)
  PROVE  SubSeq(f, a, a) = <<f[a]>>
<1>1. PICK s : s = SubSeq(f, a, a)
  OBVIOUS
<1>2. Len(f) \in Nat /\ \A i \in a..a : f[i] \in Nat
  BY ElementOfSeq DEF Codes
<1>3. s \in Seq(Nat) /\ Len(s) = 1 /\ s[1] = f[a]
  BY <1>1, <1>2, SubSeqProperties DEF Codes
<1>4. s = <<f[a]>>
  <2>1. <<f[a]>> \in Seq(Nat) /\ Len(<<f[a]>>) = 1 /\ <<f[a]>>[1] = f[a]
    BY <1>2
  <2> QED BY <1>3, <2>1, SeqEqual
<1> QED BY <1>1, <1>4

\* The elements of s are those of f from a to b.
Covers(s, f, a, b) ==
  /\ s \in Seq(Nat) /\ Len(s) = b - a + 1
  /\ \A i \in 1..(b - a + 1) : s[i] = f[a + i - 1]

LEMMA PieceCovers ==
  ASSUME NEW f \in Codes, NEW a \in 1..Len(f), NEW b \in a..Len(f)
  PROVE  Covers(SubSeq(f, a, b), f, a, b)
<1>1. Len(f) \in Nat /\ \A i \in a..b : i \in 1..Len(f)
  BY DEF Codes
<1>2. \A i \in a..b : f[i] \in Nat
  BY <1>1, ElementOfSeq DEF Codes
<1>3. PICK s : s = SubSeq(f, a, b)
  OBVIOUS
<1>4. s \in Seq(Nat) /\ Len(s) = b - a + 1 /\ \A i \in 1..(b - a + 1) : s[i] = f[a + i - 1]
  BY <1>1, <1>2, <1>3, SubSeqProperties DEF Codes
<1> QED BY <1>3, <1>4 DEF Covers

LEMMA CoverIs ==
  ASSUME NEW f \in Codes, NEW a \in Nat, NEW b \in Nat,
         NEW s, Covers(s, f, a, b), NEW t, Covers(t, f, a, b)
  PROVE  s = t
<1>1. PICK n \in Int : n = b - a + 1
  OBVIOUS
<1>2. /\ s \in Seq(Nat) /\ t \in Seq(Nat) /\ Len(s) = n /\ Len(t) = n
      /\ \A i \in 1..n : s[i] = t[i]
  BY <1>1 DEF Covers
<1> QED BY <1>2, SeqEqual

LEMMA JoinedPieces ==
  ASSUME NEW f \in Codes, NEW a \in 1..Len(f), NEW c \in a..Len(f), NEW b \in (c + 1)..Len(f)
  PROVE  SubSeq(f, a, b) = SubSeq(f, a, c) \o SubSeq(f, c + 1, b)
<1>1. PICK r \in Nat : r = Len(f)
  BY DEF Codes
<1>2. a \in 1..r /\ c \in a..r /\ c + 1 \in 1..r /\ b \in (c + 1)..r /\ b \in a..r /\ b \in Nat
  BY <1>1
<1>3. PICK s : s = SubSeq(f, a, c)
  OBVIOUS
<1>4. PICK u : u = SubSeq(f, c + 1, b)
  OBVIOUS
<1>5. Covers(s, f, a, c) /\ Covers(u, f, c + 1, b) /\ Covers(SubSeq(f, a, b), f, a, b)
  BY <1>1, <1>2, <1>3, <1>4, PieceCovers
<1>6. PICK t : t = s \o u
  OBVIOUS
<1>7. PICK m \in Nat : m = c - a + 1
  BY <1>2
<1>8. PICK n \in Nat : n = b - c
  BY <1>2
<1>9. /\ s \in Seq(Nat) /\ Len(s) = m /\ \A i \in 1..m : s[i] = f[a + i - 1]
      /\ u \in Seq(Nat) /\ Len(u) = n /\ \A i \in 1..n : u[i] = f[(c + 1) + i - 1]
  <2>1. b - (c + 1) + 1 = n
    BY <1>2, <1>8
  <2> QED BY <1>5, <1>7, <2>1 DEF Covers
<1>10. t \in Seq(Nat) /\ Len(t) = m + n
       /\ \A i \in 1..(m + n) : t[i] = IF i <= m THEN s[i] ELSE u[i - m]
  BY <1>6, <1>9, ConcatProperties
<1>11. Covers(t, f, a, b)
  <2>1. m + n = b - a + 1
    BY <1>2, <1>7, <1>8
  <2>2. ASSUME NEW i \in 1..(m + n) PROVE t[i] = f[a + i - 1]
    <3>1. CASE i <= m
      BY <1>9, <1>10, <3>1
    <3>2. CASE i > m
      <4>1. i - m \in 1..n /\ (c + 1) + (i - m) - 1 = a + i - 1
        BY <1>2, <1>7, <3>2
      <4>2. u[i - m] = f[(c + 1) + (i - m) - 1]
        BY <1>9, <4>1
      <4>3. t[i] = u[i - m]
        BY <1>10, <3>2
      <4> QED BY <4>1, <4>2, <4>3
    <3> QED BY <3>1, <3>2
  <2> QED BY <1>10, <2>1, <2>2 DEF Covers
<1> QED BY <1>2, <1>3, <1>4, <1>5, <1>6, <1>11, CoverIs

LEMMA Associative ==
  \A s, t, u \in Seq(Nat) : (s \o t) \o u = s \o (t \o u)
BY ConcatAssociative

\* What node n reads as, when its children read as y says.
Reads(y, n) ==
  LET kids == nodes[n].kids
  IN  CASE nodes[n].type \in {"cnst", "var"} -> <<input[labels[n]]>>
        [] nodes[n].type = "uexpr" -> <<MINUS>> \o y[kids[1]]
        [] OTHER -> y[kids[1]] \o <<TokenOf[labels[n]]>> \o y[kids[2]]

\* The children of a node read as its parts, so it reads as its span.
LEMMA NodeReads ==
  ASSUME NEW lo, NEW hi, Spans(nodes, labels, input, lo, hi), input \in Codes,
         NEW n \in 1..Len(nodes), NEW y,
         \A k \in 1..(n - 1) : y[k] = SubSeq(input, lo[k], hi[k])
  PROVE  Reads(y, n) = SubSeq(input, lo[n], hi[n])
<1>1. PICK q \in Nat : q = Len(nodes) /\ n \in 1..q
  BY DEF Spans
<1>2. PICK r \in Nat : r = Len(input)
  BY DEF Codes
<1>3. SpanAt(nodes, labels, input, lo, hi, n)
  BY DEF Spans
<1>4. PICK a \in 1..r : a = lo[n] /\ hi[n] \in a..r
  <2>1. lo[n] \in 1..hi[n] /\ hi[n] \in 1..r
    BY <1>2, <1>3 DEF SpanAt
  <2> QED BY <2>1
<1>5. PICK b \in a..r : b = hi[n]
  BY <1>4
<1>6. ASSUME NEW k \in 1..(n - 1)
      PROVE  lo[k] \in 1..hi[k] /\ hi[k] \in 1..r
  <2>1. k \in 1..Len(nodes)
    BY <1>1
  <2>2. SpanAt(nodes, labels, input, lo, hi, k)
    BY <2>1 DEF Spans
  <2> QED BY <1>2, <2>2 DEF SpanAt
<1>7. CASE LeafAt(nodes, labels, input, lo, hi, n)
  <2>1. Reads(y, n) = <<input[a]>> /\ b = a
    BY <1>4, <1>5, <1>7 DEF LeafAt, Reads
  <2>2. SubSeq(input, a, a) = <<input[a]>>
    BY <1>2, OnePiece
  <2> QED BY <1>4, <1>5, <2>1, <2>2
<1>8. CASE UnaryAt(nodes, labels, input, lo, hi, n)
  <2>1. PICK k \in 1..(n - 1) : nodes[n].kids = <<k>> /\ lo[k] = a + 1 /\ hi[k] = b
    BY <1>4, <1>5, <1>8 DEF UnaryAt
  <2>2. Reads(y, n) = <<MINUS>> \o y[k]
    <3>1. nodes[n].type = "uexpr" /\ nodes[n].kids[1] = k
      BY <1>8, <2>1 DEF UnaryAt
    <3> QED BY <3>1 DEF Reads
  <2>3. y[k] = SubSeq(input, a + 1, b) /\ input[a] = MINUS
    BY <1>4, <1>8, <2>1 DEF UnaryAt
  <2>4. SubSeq(input, a, b) = <<input[a]>> \o SubSeq(input, a + 1, b)
    BY <1>2, SubSeqRecursiveFirst DEF Codes
  <2>5. SubSeq(input, a, b) = Reads(y, n)
    BY <2>2, <2>3, <2>4, Zenon
  <2> QED BY <1>4, <1>5, <2>5
<1>9. CASE BinaryAt(nodes, labels, input, lo, hi, n)
  <2>1. PICK k \in 1..(n - 1) : \E l \in 1..(n - 1) :
           /\ nodes[n].kids = <<k, l>>
           /\ lo[k] = a /\ hi[l] = b /\ lo[l] = hi[k] + 2
           /\ input[hi[k] + 1] = TokenOf[labels[n]]
    BY <1>4, <1>5, <1>9 DEF BinaryAt
  <2>2. PICK l \in 1..(n - 1) :
           /\ nodes[n].kids = <<k, l>>
           /\ lo[k] = a /\ hi[l] = b /\ lo[l] = hi[k] + 2
           /\ input[hi[k] + 1] = TokenOf[labels[n]]
    BY <2>1
  <2>3. PICK c \in a..r : c = hi[k] /\ c + 2 \in 1..b /\ c + 1 \in 1..r /\ b \in (c + 1)..r
                          /\ b \in 1..r /\ (c + 1) + 1 = c + 2
    <3>1. a \in 1..hi[k] /\ hi[k] \in 1..r /\ hi[k] + 2 \in 1..b
      BY <1>6, <2>2
    <3> QED BY <3>1
  <2>4. Reads(y, n) = y[k] \o <<TokenOf[labels[n]]>> \o y[l]
    <3>1. nodes[n].type \in {"bexpr", "rexpr"} /\ nodes[n].kids[1] = k /\ nodes[n].kids[2] = l
      BY <1>9, <2>2 DEF BinaryAt
    <3> QED BY <3>1 DEF Reads
  <2>5. /\ y[k] = SubSeq(input, a, c) /\ y[l] = SubSeq(input, c + 2, b)
        /\ input[c + 1] = TokenOf[labels[n]]
    BY <2>2, <2>3
  <2>6. SubSeq(input, a, b) = SubSeq(input, a, c) \o SubSeq(input, c + 1, b)
    BY <1>2, <2>3, JoinedPieces
  <2>7. SubSeq(input, c + 1, b) = <<input[c + 1]>> \o SubSeq(input, c + 2, b)
    <3>1. input \in Seq(Nat) /\ c + 1 \in 1..Len(input) /\ b \in (c + 1)..Len(input)
      BY <1>2, <2>3 DEF Codes
    <3>2. SubSeq(input, c + 1, b) = <<input[c + 1]>> \o SubSeq(input, (c + 1) + 1, b)
      BY <3>1, SubSeqRecursiveFirst
    <3> QED BY <2>3, <3>2
  <2>8. SubSeq(input, a, b) = y[k] \o (<<TokenOf[labels[n]]>> \o y[l])
    BY <2>5, <2>6, <2>7, Zenon
  <2>9. y[k] \o (<<TokenOf[labels[n]]>> \o y[l]) = y[k] \o <<TokenOf[labels[n]]>> \o y[l]
    <3>1. y[k] \in Seq(Nat) /\ y[l] \in Seq(Nat)
      <4>1. c + 2 \in 1..Len(input) /\ b \in (c + 2)..Len(input) /\ c \in a..Len(input)
        BY <1>2, <2>3
      <4>2. Covers(SubSeq(input, a, c), input, a, c) /\ Covers(SubSeq(input, c + 2, b), input, c + 2, b)
        BY <1>2, <4>1, PieceCovers
      <4> QED BY <2>5, <4>2 DEF Covers
    <3>2. <<TokenOf[labels[n]]>> \in Seq(Nat)
      <4>1. input[c + 1] \in Nat
        BY <1>2, <2>3, ElementOfSeq DEF Codes
      <4> QED BY <2>5, <4>1
    <3>3. PICK s \in Seq(Nat), t \in Seq(Nat), u \in Seq(Nat) :
             s = y[k] /\ t = <<TokenOf[labels[n]]>> /\ u = y[l]
      BY <3>1, <3>2
    <3>4. (s \o t) \o u = s \o (t \o u)
      BY Associative
    <3> QED BY <3>3, <3>4, Zenon
  <2>10. SubSeq(input, a, b) = Reads(y, n)
    BY <2>4, <2>8, <2>9, Zenon
  <2> QED BY <1>4, <1>5, <2>10
<1> QED BY <1>3, <1>7, <1>8, <1>9 DEF SpanAt

\* The least of some numbers.
LEMMA LeastOf ==
  ASSUME NEW P \in SUBSET Nat, P # {}
  PROVE  \E n \in P : \A m \in P : n <= m
<1>1. PICK n \in P : \A m \in P : <<m, n>> \notin OpToRel(<, Nat)
  BY NatLessThanWellFounded, WFMin
<1>2. ASSUME NEW m \in P PROVE n <= m
  <2>1. n \in Nat /\ m \in Nat
    OBVIOUS
  <2>2. ~(m < n)
    BY <1>1, <2>1 DEF OpToRel
  <2> QED BY <2>1, <2>2
<1> QED BY <1>2

\* A node reads as its span: the children of a node are made before it.
LEMMA YieldIs ==
  ASSUME NEW lo, NEW hi, Spans(nodes, labels, input, lo, hi), input \in Codes,
         nodes \in Seq(Node)
  PROVE  \A n \in 1..Len(nodes) : Yield[n] = SubSeq(input, lo[n], hi[n])
<1> DEFINE G(f) == [n \in DOMAIN nodes |-> Reads(f, n)]
           w == CHOOSE f : f = G(f)
           f0 == [n \in 1..Len(nodes) |-> SubSeq(input, lo[n], hi[n])]
<1>1. Yield = w
  BY DEF Yield, Reads
<1>2. DOMAIN nodes = 1..Len(nodes) /\ Len(nodes) \in Nat
  OBVIOUS
<1>3. f0 = G(f0)
  <2>1. ASSUME NEW n \in 1..Len(nodes) PROVE Reads(f0, n) = SubSeq(input, lo[n], hi[n])
    <3>1. ASSUME NEW k \in 1..(n - 1) PROVE f0[k] = SubSeq(input, lo[k], hi[k])
      <4>1. k \in 1..Len(nodes)
        BY <1>2
      <4> QED BY <4>1
    <3> HIDE DEF f0
    <3> QED BY <3>1, NodeReads
  <2> QED BY <1>2, <2>1
<1>4. w = G(w)
  <2>1. w = CHOOSE f : f = G(f)
    OBVIOUS
  <2> HIDE DEF w, G, f0
  <2> QED BY <1>3, <2>1, Zenon
<1> HIDE DEF w
<1>5. ASSUME NEW n \in 1..Len(nodes) PROVE w[n] = Reads(w, n)
  <2>1. G(w)[n] = Reads(w, n)
    BY <1>2
  <2> HIDE DEF G
  <2> QED BY <1>4, <2>1, Zenon
<1> DEFINE Bad == {n \in 1..Len(nodes) : w[n] # SubSeq(input, lo[n], hi[n])}
<1>6. Bad = {}
  <2> SUFFICES ASSUME Bad # {} PROVE FALSE
      OBVIOUS
  <2>1. Bad \in SUBSET Nat
    OBVIOUS
  <2>2. PICK n \in Bad : \A m \in Bad : n <= m
    <3> HIDE DEF Bad
    <3> QED BY <2>1, LeastOf
  <2>3. ASSUME NEW k \in 1..(n - 1) PROVE w[k] = SubSeq(input, lo[k], hi[k])
    <3>1. k \in 1..Len(nodes) /\ ~(n <= k)
      BY <1>2, <2>2
    <3> QED BY <2>2, <3>1
  <2>4. n \in 1..Len(nodes)
    OBVIOUS
  <2>5. Reads(w, n) = SubSeq(input, lo[n], hi[n])
    BY <2>3, <2>4, NodeReads
  <2>6. w[n] = SubSeq(input, lo[n], hi[n])
    BY <1>5, <2>4, <2>5, Zenon
  <2> QED BY <2>2, <2>6
<1> QED BY <1>1, <1>6

\* For any number of tokens, the tree of what is accepted reads back as the tokens
\* after "return", in order, and none of its nodes is lost (test.y:484-528,
\* y.tab.c:1493-1609).
THEOREM TreesReadBack == Spec => []TreeReadsBack
<1>1. Init => IInv /\ Language /\ Tree
  BY InitIInv, InitLanguage, InitTree
<1>2. IInv /\ Language /\ Tree /\ [Next]_vars => (IInv /\ Language /\ Tree)'
  BY NextIInv, NextLanguage, NextTree
<1>3. IInv /\ Language /\ Tree => TreeReadsBack
  <2> SUFFICES ASSUME IInv, Language, Tree, yyresult = 0, Len(input) > 1
               PROVE  /\ Yield[Len(nodes)] = Tail(input)
                      /\ \A n \in 1..(Len(nodes) - 1) :
                           \E p \in DOMAIN nodes : \E j \in DOMAIN nodes[p].kids :
                             nodes[p].kids[j] = n
      BY DEF TreeReadsBack
  <2>1. PICK lo \in Seq(Nat) : \E hi \in Seq(Nat) : Finished(nodes, labels, input, lo, hi)
    BY DEF Tree, Whole
  <2>2. PICK hi \in Seq(Nat) : Finished(nodes, labels, input, lo, hi)
    BY <2>1
  <2>3. nodes \in Seq(Node) /\ input \in Codes
    BY CodesRead DEF IInv, Types
  <2>4. Spans(nodes, labels, input, lo, hi) /\ Rooted(nodes, input, lo, hi)
    BY <2>2 DEF Finished
  <2>5. Len(nodes) \in 1..Len(nodes) /\ lo[Len(nodes)] = 2 /\ hi[Len(nodes)] = Len(input)
    BY <2>3, <2>4 DEF Rooted
  <2>6. Yield[Len(nodes)] = SubSeq(input, 2, Len(input))
    <3>1. \A n \in 1..Len(nodes) : Yield[n] = SubSeq(input, lo[n], hi[n])
      BY <2>3, <2>4, YieldIs
    <3>2. Yield[Len(nodes)] = SubSeq(input, lo[Len(nodes)], hi[Len(nodes)])
      BY <2>5, <3>1, Zenon
    <3> QED BY <2>5, <3>2, Zenon
  <2>7. Tail(input) = SubSeq(input, 2, Len(input))
    <3>1. input # <<>>
      OBVIOUS
    <3> QED BY <2>3, <3>1, TailIsSubSeq DEF Codes
  <2>8. ASSUME NEW n \in 1..(Len(nodes) - 1)
        PROVE  \E p \in DOMAIN nodes : \E j \in DOMAIN nodes[p].kids : nodes[p].kids[j] = n
    <3>1. Child(nodes, n)
      BY <2>2 DEF Finished
    <3>2. DOMAIN nodes = 1..Len(nodes)
      BY <2>3
    <3> QED BY <3>1, <3>2 DEF Child
  <2> QED BY <2>6, <2>7, <2>8
<1> QED BY <1>1, <1>2, <1>3, PTL DEF Spec

-----------------------------------------------------------------------------
(* The nodes the actions make are those Ast's callers may create *)

\* Children are nodes; the nodes on the stack are apart and have no parent.
Inside(nd) ==
  \A p \in 1..Len(nd) : \A j \in DOMAIN nd[p].kids : nd[p].kids[j] \in 1..Len(nd)
Orphan(ss, vs, nd, i) ==
  ss[i] \in NodeStates => vs[i] \in 1..Len(nd) /\ ~Child(nd, vs[i])
Apart(ss, vs, i, j) ==
  ss[i] \in NodeStates /\ ss[j] \in NodeStates /\ vs[i] = vs[j] => i = j
Loose(ss, vs, nd) ==
  /\ Inside(nd)
  /\ \A i \in 2..Len(ss) : Orphan(ss, vs, nd, i)
  /\ \A i, j \in 2..Len(ss) : Apart(ss, vs, i, j)

\* A token pushes one element and makes one node at most.
Leaf(ss) == IF Last(ss) \in {3, 4} THEN 1 ELSE 0
Spare(ss, f, nd) == Len(nd) + Len(ss) + Leaf(ss) <= 2 * Len(f) + 1

Orphans ==
  /\ Len(input) <= MaxTokens
  /\ pc \in {"yysetstate", "yybackup", "yyreduce"} =>
       Loose(Stack, yyvs, nodes) /\ Spare(Stack, Shifted, nodes)

\* A shift puts no node on the stack (y.tab.c:1450-1465).
LEMMA ShiftLoose ==
  ASSUME NEW ss \in Seq(0..29), NEW vs \in Seq(Int), NEW nd, Loose(ss, vs, nd),
         Len(vs) = Len(ss),
         NEW u \in TokenStates, NEW st \in Seq(0..29), Longer(st, ss, u),
         NEW x, NEW wt \in Seq(Int), Longer(wt, vs, x)
  PROVE  Loose(st, wt, nd)
<1>1. PICK n \in Nat : n = Len(ss) /\ n = Len(vs)
  OBVIOUS
<1>2. /\ Len(st) = n + 1 /\ st[n + 1] = u
      /\ \A i \in 1..n : st[i] = ss[i] /\ wt[i] = vs[i]
  BY <1>1 DEF Longer
<1>3. u \notin NodeStates
  BY StatesApart
<1>4. ASSUME NEW i \in 2..Len(st), st[i] \in NodeStates
      PROVE  i \in 2..n /\ st[i] = ss[i] /\ wt[i] = vs[i]
  <2>1. i # n + 1
    BY <1>2, <1>3, <1>4
  <2>2. i \in 2..n /\ i \in 1..n
    BY <1>2, <2>1
  <2> QED BY <1>2, <2>2
<1>5. \A i \in 2..Len(st) : Orphan(st, wt, nd, i)
  BY <1>1, <1>4 DEF Loose, Orphan
<1>6. ASSUME NEW i \in 2..Len(st), NEW j \in 2..Len(st) PROVE Apart(st, wt, i, j)
  <2> SUFFICES ASSUME st[i] \in NodeStates, st[j] \in NodeStates, wt[i] = wt[j] PROVE i = j
      BY DEF Apart
  <2>1. /\ i \in 2..n /\ st[i] = ss[i] /\ wt[i] = vs[i]
        /\ j \in 2..n /\ st[j] = ss[j] /\ wt[j] = vs[j]
    BY <1>4
  <2>2. Apart(ss, vs, i, j)
    BY <1>1, <2>1 DEF Loose
  <2> QED BY <2>1, <2>2 DEF Apart
<1> QED BY <1>5, <1>6 DEF Loose

\* The operands a node is made of are the nodes above element m.
Operands(node, ss, vs, m) ==
  \A j \in DOMAIN node.kids :
     \E i \in (m + 1)..Len(ss) : ss[i] \in NodeStates /\ node.kids[j] = vs[i]

\* The new node takes its operands off the stack and is nobody's child.
LEMMA MakeLoose ==
  ASSUME NEW ss \in Seq(0..29), NEW vs \in Seq(Int), NEW nd \in Seq(Node),
         Loose(ss, vs, nd), NEW m \in 1..(Len(ss) - 1), NEW u \in NodeStates,
         NEW st \in Seq(0..29), Swapped(ss, st, m, u),
         NEW wt \in Seq(Int), Swapped(vs, wt, m, Len(nd) + 1),
         NEW node, Operands(node, ss, vs, m),
         NEW md \in Seq(Node), Longer(md, nd, node)
  PROVE  Loose(st, wt, md)
<1>1. PICK n \in Nat, q \in Nat : n = Len(ss) /\ q = Len(nd) /\ m \in 1..(n - 1)
  OBVIOUS
<1>2. /\ Len(st) = m + 1 /\ st[m + 1] = u
      /\ Len(wt) = m + 1 /\ wt[m + 1] = q + 1
      /\ \A i \in 1..m : st[i] = ss[i] /\ wt[i] = vs[i]
  BY <1>1 DEF Swapped, Agree
<1>3. /\ Len(md) = q + 1 /\ md[q + 1] = node
      /\ \A p \in 1..q : md[p] = nd[p]
  BY <1>1 DEF Longer
<1>4. ASSUME NEW j \in DOMAIN node.kids
      PROVE  \E i \in (m + 1)..n : /\ i \in 2..n /\ ss[i] \in NodeStates
                                   /\ node.kids[j] = vs[i] /\ vs[i] \in 1..q
  <2>1. PICK i \in (m + 1)..n : ss[i] \in NodeStates /\ node.kids[j] = vs[i]
    BY <1>1 DEF Operands
  <2>2. i \in 2..n
    BY <1>1
  <2>3. vs[i] \in 1..q
    BY <1>1, <2>1, <2>2 DEF Loose, Orphan
  <2> QED BY <2>1, <2>2, <2>3
<1>5. ASSUME NEW p \in 1..(q + 1), NEW j \in DOMAIN md[p].kids
      PROVE  \/ p \in 1..q /\ md[p] = nd[p] /\ md[p].kids[j] \in 1..q
             \/ p = q + 1 /\ md[p] = node /\ md[p].kids[j] \in 1..q
  <2>1. CASE p = q + 1
    BY <1>3, <1>4, <2>1
  <2>2. CASE p # q + 1
    <3>1. p \in 1..q /\ md[p] = nd[p]
      BY <1>3, <2>2
    <3>2. nd[p].kids[j] \in 1..q
      BY <1>1, <1>5, <3>1 DEF Loose, Inside
    <3> QED BY <3>1, <3>2
  <2> QED BY <2>1, <2>2
<1>6. Inside(md)
  <2>1. \A x \in 1..q : x \in 1..(q + 1)
    OBVIOUS
  <2> QED BY <1>3, <1>5, <2>1 DEF Inside
<1>7. ASSUME NEW i \in 2..Len(st)
      PROVE  \/ i = m + 1 /\ st[i] = u /\ wt[i] = q + 1
             \/ i \in 2..m /\ i \in 2..n /\ st[i] = ss[i] /\ wt[i] = vs[i]
  <2>1. CASE i = m + 1
    BY <1>2, <2>1
  <2>2. CASE i # m + 1
    <3>1. i \in 2..m /\ i \in 1..m /\ i \in 2..n
      BY <1>1, <1>2, <2>2
    <3> QED BY <1>2, <3>1
  <2> QED BY <2>1, <2>2
<1>8. ASSUME NEW i \in 2..m, i \in 2..n, ss[i] \in NodeStates
      PROVE  vs[i] \in 1..q /\ ~Child(md, vs[i])
  <2>1. vs[i] \in 1..q /\ ~Child(nd, vs[i])
    BY <1>1, <1>8 DEF Loose, Orphan
  <2>2. SUFFICES ASSUME NEW p \in 1..(q + 1), NEW j \in DOMAIN md[p].kids,
                        md[p].kids[j] = vs[i]
                 PROVE  FALSE
    BY <1>3, <2>1 DEF Child
  <2>3. CASE p \in 1..q /\ md[p] = nd[p]
    <3>1. Child(nd, vs[i])
      BY <1>1, <2>2, <2>3 DEF Child
    <3> QED BY <2>1, <3>1
  <2>4. CASE p = q + 1 /\ md[p] = node
    <3>1. PICK k \in (m + 1)..n : k \in 2..n /\ ss[k] \in NodeStates /\ node.kids[j] = vs[k]
      BY <1>4, <2>2, <2>4
    <3>2. Apart(ss, vs, i, k)
      BY <1>1, <1>8, <3>1 DEF Loose
    <3>3. vs[i] = vs[k]
      BY <2>2, <2>4, <3>1
    <3>4. i = k
      BY <1>8, <3>1, <3>2, <3>3 DEF Apart
    <3>5. i # k
      BY <1>1
    <3> QED BY <3>4, <3>5
  <2> QED BY <1>5, <2>2, <2>3, <2>4
<1>9. ~Child(md, q + 1)
  <2>1. \A x \in 1..q : x # q + 1
    OBVIOUS
  <2> QED BY <1>3, <1>5, <2>1 DEF Child
<1>10. \A i \in 2..Len(st) : Orphan(st, wt, md, i)
  <2>1. ASSUME NEW i \in 2..Len(st), st[i] \in NodeStates
        PROVE  wt[i] \in 1..(q + 1) /\ ~Child(md, wt[i])
    <3>1. CASE i = m + 1 /\ st[i] = u /\ wt[i] = q + 1
      BY <1>9, <3>1
    <3>2. CASE i \in 2..m /\ i \in 2..n /\ st[i] = ss[i] /\ wt[i] = vs[i]
      <4>1. vs[i] \in 1..q /\ ~Child(md, vs[i])
        BY <1>8, <2>1, <3>2
      <4> QED BY <3>2, <4>1
    <3> QED BY <1>7, <3>1, <3>2
  <2> QED BY <1>3, <2>1 DEF Orphan
<1>11. ASSUME NEW i \in 2..Len(st), NEW j \in 2..Len(st) PROVE Apart(st, wt, i, j)
  <2> SUFFICES ASSUME st[i] \in NodeStates, st[j] \in NodeStates, wt[i] = wt[j] PROVE i = j
      BY DEF Apart
  <2>1. ASSUME NEW k \in 2..Len(st), st[k] \in NodeStates
        PROVE  k = m + 1 \/ wt[k] \in 1..q
    BY <1>7, <1>8, <2>1
  <2>2. CASE i = m + 1 \/ j = m + 1
    <3>1. wt[i] = q + 1 /\ wt[j] = q + 1
      BY <1>2, <2>2
    <3>2. wt[i] \notin 1..q /\ wt[j] \notin 1..q
      BY <3>1
    <3>3. i = m + 1 /\ j = m + 1
      BY <2>1, <3>2
    <3> QED BY <3>3
  <2>3. CASE i # m + 1 /\ j # m + 1
    <3>1. /\ i \in 2..n /\ st[i] = ss[i] /\ wt[i] = vs[i]
          /\ j \in 2..n /\ st[j] = ss[j] /\ wt[j] = vs[j]
      BY <1>7, <2>3
    <3>2. Apart(ss, vs, i, j)
      BY <1>1, <3>1 DEF Loose
    <3> QED BY <3>1, <3>2 DEF Apart
  <2> QED BY <2>2, <2>3
<1> QED BY <1>6, <1>10, <1>11 DEF Loose

\* A term that is the whole expression stays on the stack (rule 14).
LEMMA RenameLoose ==
  ASSUME NEW ss \in Seq(0..29), NEW vs \in Seq(Int), NEW nd, Loose(ss, vs, nd),
         Len(vs) = Len(ss), Last(ss) \in NodeStates,
         NEW m \in 1..(Len(ss) - 1), m + 1 \in {Len(ss)},
         NEW u, NEW st \in Seq(0..29), Swapped(ss, st, m, u),
         NEW wt \in Seq(Int), Swapped(vs, wt, m, vs[Len(vs)])
  PROVE  Loose(st, wt, nd)
<1>1. PICK n \in Nat : n = Len(ss) /\ n = Len(vs) /\ m \in 1..(n - 1) /\ m + 1 = n
  OBVIOUS
<1>2. /\ Len(st) = n /\ wt[n] = vs[n] /\ ss[n] \in NodeStates
      /\ \A i \in 1..m : st[i] = ss[i] /\ wt[i] = vs[i]
  BY <1>1 DEF Swapped, Agree, Last
<1>3. ASSUME NEW i \in 2..n, st[i] \in NodeStates PROVE ss[i] \in NodeStates /\ wt[i] = vs[i]
  <2>1. CASE i = n
    BY <1>2, <2>1
  <2>2. CASE i # n
    <3>1. i \in 1..m
      BY <1>1, <2>2
    <3> QED BY <1>2, <1>3, <3>1
  <2> QED BY <2>1, <2>2
<1>4. \A i \in 2..Len(st) : Orphan(st, wt, nd, i)
  BY <1>1, <1>2, <1>3 DEF Loose, Orphan
<1>5. ASSUME NEW i \in 2..Len(st), NEW j \in 2..Len(st) PROVE Apart(st, wt, i, j)
  <2> SUFFICES ASSUME st[i] \in NodeStates, st[j] \in NodeStates, wt[i] = wt[j] PROVE i = j
      BY DEF Apart
  <2>1. Apart(ss, vs, i, j)
    BY <1>1, <1>2 DEF Loose
  <2>2. ss[i] \in NodeStates /\ wt[i] = vs[i] /\ ss[j] \in NodeStates /\ wt[j] = vs[j]
    BY <1>2, <1>3
  <2> QED BY <2>1, <2>2 DEF Apart
<1> QED BY <1>4, <1>5 DEF Loose

\* The end of the statement takes its expression off the stack (rules 2 and 3).
LEMMA DropLoose ==
  ASSUME NEW ss \in Seq(0..29), NEW vs \in Seq(Int), NEW nd, Loose(ss, vs, nd),
         NEW m \in 1..(Len(ss) - 1),
         NEW st \in Seq(0..29), Swapped(ss, st, m, 2),
         NEW x, NEW wt \in Seq(Int), Swapped(vs, wt, m, x)
  PROVE  Loose(st, wt, nd)
<1>1. PICK n \in Nat : n = Len(ss) /\ m \in 1..(n - 1)
  OBVIOUS
<1>2. /\ Len(st) = m + 1 /\ st[m + 1] = 2
      /\ \A i \in 1..m : st[i] = ss[i] /\ wt[i] = vs[i]
  BY DEF Swapped, Agree
<1>3. 2 \notin NodeStates
  BY DEF NodeStates
<1>4. ASSUME NEW i \in 2..Len(st), st[i] \in NodeStates
      PROVE  i \in 2..n /\ st[i] = ss[i] /\ wt[i] = vs[i]
  <2>1. i # m + 1
    BY <1>2, <1>3, <1>4
  <2>2. i \in 1..m /\ i \in 2..n
    BY <1>1, <1>2, <2>1
  <2> QED BY <1>2, <2>2
<1>5. \A i \in 2..Len(st) : Orphan(st, wt, nd, i)
  BY <1>1, <1>4 DEF Loose, Orphan
<1>6. ASSUME NEW i \in 2..Len(st), NEW j \in 2..Len(st) PROVE Apart(st, wt, i, j)
  <2> SUFFICES ASSUME st[i] \in NodeStates, st[j] \in NodeStates, wt[i] = wt[j] PROVE i = j
      BY DEF Apart
  <2>1. /\ i \in 2..n /\ st[i] = ss[i] /\ wt[i] = vs[i]
        /\ j \in 2..n /\ st[j] = ss[j] /\ wt[j] = vs[j]
    BY <1>4
  <2>2. Apart(ss, vs, i, j)
    BY <1>1, <2>1 DEF Loose
  <2> QED BY <2>1, <2>2 DEF Apart
<1> QED BY <1>5, <1>6 DEF Loose

\* What a node is made of by the state that reduces: nothing, the term behind
\* the minus sign, or the terms on both sides of the operator (y.tab.c:1497-1594).
LEMMA OperandsOf ==
  ASSUME NEW ss, Path(ss), NEW vs, Len(vs) = Len(ss),
         NEW m \in 1..(Len(ss) - 1), NEW u, Reduces(ss, m, u),
         NEW node, NEW label, Makes(ss, vs, node, label)
  PROVE  \/ node.type \in {"cnst", "var"} /\ node.kids = <<>>
         \/ /\ node.type = "uexpr" /\ Len(ss) >= 3
            /\ \E i \in (m + 1)..Len(ss) : ss[i] \in NodeStates /\ node.kids = <<vs[i]>>
         \/ /\ node.type \in {"bexpr", "rexpr"} /\ Len(ss) = 5
            /\ \E i, j \in (m + 1)..Len(ss) :
                  /\ i # j /\ ss[i] \in NodeStates /\ ss[j] \in NodeStates
                  /\ node.kids = <<vs[i], vs[j]>>
<1>1. PICK n \in Nat \ {0} : n = Len(ss) /\ n = Len(vs) /\ Last(ss) = ss[n] /\ n \in 1..Len(ss)
  BY EmptySeq, LenProperties DEF Path, Last
<1>2. CASE Last(ss) \in {3, 4}
  <2>1. Last(ss) # 9 /\ Last(ss) \notin 20..29
    BY <1>2
  <2> QED BY <2>1 DEF Makes
<1>3. CASE Last(ss) \in {9}
  <2>1. m = n - 2 /\ n >= 3
    <3>1. Pops(9) = 2
      BY RulesOf
    <3> QED BY <1>1, <1>3, <3>1 DEF Reduces
  <2>2. n \in (m + 1)..Len(ss) /\ ss[n] \in NodeStates
    BY <1>1, <1>3, <2>1 DEF NodeStates
  <2>3. node.type = "uexpr" /\ node.kids = <<vs[n]>>
    BY <1>1, <1>3 DEF Makes
  <2> QED BY <1>1, <2>1, <2>2, <2>3
<1>4. CASE Last(ss) \in 20..29
  <2>1. n = 5 /\ ss[3] = 7
    BY <1>1, <1>4, PathShape
  <2>2. m = 2
    <3>1. PICK s \in 20..29 : s = Last(ss) /\ s \in 0..29
      BY <1>4
    <3>2. Pops(s) = 3
      BY <3>1, RulesOf
    <3>3. m = Len(ss) - Pops(s)
      BY <3>1 DEF Reduces
    <3>4. Len(ss) = 5
      BY <1>1, <2>1
    <3>5. m = 5 - 3
      BY <3>2, <3>3, <3>4, Zenon
    <3> QED BY <3>5
  <2>3. 3 \in (m + 1)..Len(ss) /\ 5 \in (m + 1)..Len(ss) /\ 3 # 5
    BY <1>1, <2>1, <2>2
  <2>4. ss[3] \in NodeStates /\ ss[5] \in NodeStates
    BY <1>1, <1>4, <2>1 DEF NodeStates
  <2>5. node.type \in {"bexpr", "rexpr"} /\ node.kids = <<vs[3], vs[5]>>
    <3>1. Last(ss) # 9 /\ Last(ss) \notin {3, 4}
      BY <1>4
    <3>2. Len(vs) = 5 /\ Len(vs) - 2 = 3
      BY <1>1, <2>1
    <3> QED BY <3>1, <3>2 DEF Makes
  <2> QED BY <1>1, <2>1, <2>3, <2>4, <2>5
<1> QED BY <1>2, <1>3, <1>4 DEF Makes

LEMMA MadeOfOperands ==
  ASSUME NEW ss, Path(ss), NEW vs, Len(vs) = Len(ss),
         NEW m \in 1..(Len(ss) - 1), NEW u, Reduces(ss, m, u),
         NEW node, NEW label, Makes(ss, vs, node, label)
  PROVE  Operands(node, ss, vs, m)
<1>1. CASE node.kids = <<>>
  BY <1>1 DEF Operands
<1>2. CASE \E i \in (m + 1)..Len(ss) : ss[i] \in NodeStates /\ node.kids = <<vs[i]>>
  <2>1. PICK i \in (m + 1)..Len(ss) : ss[i] \in NodeStates /\ node.kids = <<vs[i]>>
    BY <1>2
  <2>2. \A j \in DOMAIN node.kids : node.kids[j] = vs[i]
    BY <2>1
  <2> QED BY <2>1, <2>2 DEF Operands
<1>3. CASE \E i, k \in (m + 1)..Len(ss) :
             /\ i # k /\ ss[i] \in NodeStates /\ ss[k] \in NodeStates
             /\ node.kids = <<vs[i], vs[k]>>
  <2>1. PICK i \in (m + 1)..Len(ss), k \in (m + 1)..Len(ss) :
           ss[i] \in NodeStates /\ ss[k] \in NodeStates /\ node.kids = <<vs[i], vs[k]>>
    BY <1>3
  <2>2. \A j \in DOMAIN node.kids : node.kids[j] = vs[i] \/ node.kids[j] = vs[k]
    BY <2>1
  <2> QED BY <2>1, <2>2 DEF Operands
<1> QED BY <1>1, <1>2, <1>3, OperandsOf

\* A step keeps room for the nodes still to be made of the tokens read.
LEMMA SpareNumbers ==
  ASSUME NEW ss \in Seq(0..29), NEW f \in Codes, NEW nd \in Seq(Node)
  PROVE  Len(ss) \in Nat /\ Len(f) \in Nat /\ Len(nd) \in Nat /\ Leaf(ss) \in 0..1
BY DEF Codes, Leaf

LEMMA ShiftSpare ==
  ASSUME NEW ss \in Seq(0..29), NEW f \in Codes, NEW nd \in Seq(Node), Spare(ss, f, nd),
         NEW st \in Seq(0..29), NEW u, Longer(st, ss, u),
         NEW g \in Codes, NEW c, Longer(g, f, c)
  PROVE  Spare(st, g, nd)
<1>1. PICK n \in Nat, r \in Nat, q \in Nat, a \in 0..1, b \in 0..1 :
         /\ n = Len(ss) /\ r = Len(f) /\ q = Len(nd) /\ a = Leaf(ss) /\ b = Leaf(st)
  BY SpareNumbers
<1>2. Len(st) = n + 1 /\ Len(g) = r + 1
  BY <1>1 DEF Longer
<1>3. q + n + a <= 2 * r + 1
  BY <1>1 DEF Spare
<1>4. q + (n + 1) + b <= 2 * (r + 1) + 1
  BY <1>3
<1> QED BY <1>1, <1>2, <1>4 DEF Spare

\* A reduction that makes a node pops two elements more than one, or a leaf.
LEMMA MakeSpare ==
  ASSUME NEW ss \in Seq(0..29), NEW f \in Codes, NEW nd \in Seq(Node), Spare(ss, f, nd),
         NEW m \in 1..(Len(ss) - 1), NEW u \in NodeStates,
         NEW st \in Seq(0..29), Swapped(ss, st, m, u),
         Last(ss) \in {3, 4} \/ m \in 1..(Len(ss) - 2),
         NEW node, NEW md \in Seq(Node), Longer(md, nd, node)
  PROVE  Spare(st, f, md) /\ Len(nd) < 2 * Len(f)
<1>1. PICK n \in Nat, r \in Nat, q \in Nat, a \in 0..1 :
         /\ n = Len(ss) /\ r = Len(f) /\ q = Len(nd) /\ a = Leaf(ss)
  BY SpareNumbers
<1>2. Len(st) = m + 1 /\ Last(st) = u /\ Len(md) = q + 1
  BY <1>1 DEF Swapped, Longer, Last
<1>3. Leaf(st) = 0
  <2>1. u \notin {3, 4}
    BY DEF NodeStates
  <2> QED BY <1>2, <2>1 DEF Leaf
<1>4. q + n + a <= 2 * r + 1
  BY <1>1 DEF Spare
<1>5. a = 1 \/ m \in 1..(n - 2)
  BY <1>1 DEF Leaf
<1>6. m \in 1..(n - 1)
  BY <1>1
<1>7. (q + 1) + (m + 1) + 0 <= 2 * r + 1 /\ q < 2 * r
  BY <1>4, <1>5, <1>6
<1> QED BY <1>1, <1>2, <1>3, <1>7 DEF Spare

\* Any other reduction makes no node and leaves no more elements.
LEMMA KeepSpare ==
  ASSUME NEW ss \in Seq(0..29), NEW f \in Codes, NEW nd \in Seq(Node), Spare(ss, f, nd),
         NEW m \in 1..(Len(ss) - 1), NEW u \in {2} \cup NodeStates,
         NEW st \in Seq(0..29), Swapped(ss, st, m, u)
  PROVE  Spare(st, f, nd)
<1>1. PICK n \in Nat, r \in Nat, q \in Nat, a \in 0..1 :
         /\ n = Len(ss) /\ r = Len(f) /\ q = Len(nd) /\ a = Leaf(ss)
  BY SpareNumbers
<1>2. Len(st) = m + 1 /\ Last(st) = u
  BY DEF Swapped, Last
<1>3. Leaf(st) = 0
  <2>1. u \notin {3, 4}
    BY DEF NodeStates
  <2> QED BY <1>2, <2>1 DEF Leaf
<1>4. q + n + a <= 2 * r + 1
  BY <1>1 DEF Spare
<1>5. m \in 1..(n - 1)
  BY <1>1
<1>6. q + (m + 1) + 0 <= 2 * r + 1
  BY <1>4, <1>5
<1> QED BY <1>1, <1>2, <1>3, <1>6 DEF Spare

\* Nothing is on the stack when yyparse begins (y.tab.c:1262-1318).
LEMMA InitOrphans == Init => Orphans
<1> SUFFICES ASSUME Init PROVE Orphans
    OBVIOUS
<1>1. /\ input = <<>> /\ yychar = YYEMPTY /\ nodes = <<>>
      /\ Stack = Append(<<>>, 0)
  BY DEF Init, Stack
<1>2. Shifted = <<>>
  BY <1>1, ParserAssumption DEF Shifted, YYEMPTY
<1>3. Len(Stack) = 1 /\ Last(Stack) = 0
  BY <1>1 DEF Last
<1>4. Loose(Stack, yyvs, nodes)
  BY <1>1, <1>3 DEF Loose, Inside
<1>5. Spare(Stack, Shifted, nodes)
  BY <1>1, <1>2, <1>3 DEF Spare, Leaf
<1>6. Len(input) <= MaxTokens
  BY <1>1, ParserAssumption
<1> QED BY <1>4, <1>5, <1>6 DEF Orphans

\* Steps that leave the stacks and the tree.
LEMMA QuietOrphans ==
  ASSUME IInv, Language, Orphans, SetState \/ ReadToken \/ Default \/ Accept
  PROVE  Orphans'
<1>1. pc \in {"yysetstate", "yybackup"}
  BY DEF SetState, ReadToken, Default, Accept
<1>2. yyvs' = yyvs /\ nodes' = nodes
  BY DEF SetState, ReadToken, Default, Accept, tree
<1>3. Shifted' = Shifted
  <2>1. CASE SetState \/ Default \/ Accept
    BY <2>1 DEF SetState, Default, Accept, Shifted
  <2>2. CASE ReadToken
    BY <2>2, ReadTokenShifts
  <2> QED BY <2>1, <2>2
<1>4. pc' \in {"yysetstate", "yybackup", "yyreduce"} => Stack' = Stack
  BY DEF SetState, ReadToken, Default, Accept, Stack
<1>5. Len(input') <= MaxTokens
  <2>1. CASE input' = input
    BY <2>1 DEF Orphans
  <2>2. CASE Len(input) < MaxTokens /\ \E c \in Tokens : input' = Append(input, c)
    <3>1. PICK c \in Tokens : input' = Append(input, c)
      BY <2>2
    <3>2. Len(input') = Len(input) + 1
      BY <3>1 DEF IInv, Types
    <3>3. Len(input) \in Nat
      BY DEF IInv, Types
    <3> QED BY <2>2, <3>2, <3>3, ParserAssumption
  <2>3. \/ input' = input
        \/ Len(input) < MaxTokens /\ \E c \in Tokens : input' = Append(input, c)
    BY DEF SetState, ReadToken, Default, Accept
  <2> QED BY <2>1, <2>2, <2>3
<1>6. Loose(Stack, yyvs, nodes) /\ Spare(Stack, Shifted, nodes)
  BY <1>1 DEF Orphans
<1>7. ASSUME pc' \in {"yysetstate", "yybackup", "yyreduce"}
      PROVE  Loose(Stack', yyvs', nodes') /\ Spare(Stack', Shifted', nodes')
  BY <1>2, <1>3, <1>4, <1>6, <1>7, Zenon
<1> QED BY <1>5, <1>7 DEF Orphans

LEMMA RecoveryOrphans ==
  ASSUME Orphans, ErrLab \/ ErrPop \/ ErrAbort \/ Return, IInv
  PROVE  Orphans'
<1>1. input' = input /\ pc' \in {"yyerrlab1", "yyreturn", "done"}
  BY DEF ErrLab, ErrPop, ErrAbort, Return
<1> QED BY <1>1 DEF Orphans

LEMMA ShiftOrphans ==
  ASSUME IInv, Language, Orphans, Shift
  PROVE  Orphans'
<1>1. /\ pc = "yybackup" /\ Decided /\ HasEntry /\ At(yytable, Index) # YYFINAL
      /\ pc' = "yysetstate" /\ yystate' = At(yytable, Index)
      /\ yychar' = IF yychar = YYEOF THEN YYEOF ELSE YYEMPTY
      /\ input' = input /\ yyss' = yyss
      /\ yyvs' = Append(yyvs, Len(input)) /\ nodes' = nodes
  BY DEF Shift, tree
<1>2. /\ Path(yyss) /\ yystate = Last(yyss) /\ yystate \in 0..29
      /\ yychar \in Tokens \cup {YYEMPTY, YYEOF}
  BY <1>1 DEF IInv, Types, Stacks
<1>3. yychar # YYEMPTY /\ yychar \in Nat
  <2>1. At(yypact, yystate) # YYPACT_NINF
    BY <1>1 DEF HasEntry
  <2> QED BY <1>1, <1>2, <2>1, CodesRead DEF Decided, YYEOF
<1>4. Admits(yystate, yychar, yystate')
  BY <1>1, <1>2, <1>3, EntriesAdmit
<1>5. yychar \in Tokens
  <2>1. yychar # 0
    BY <1>4 DEF Admits, RETURN, NUMBER, NAME, MINUS, Operators
  <2> QED BY <1>2, <1>3, <2>1 DEF YYEOF
<1>6. /\ input \in Codes /\ Shifted \in Codes /\ input = Append(Shifted, yychar)
      /\ YYEMPTY \notin Tokens /\ YYEOF \notin Tokens
  BY <1>5, CodesRead
<1>7. Longer(input, Shifted, yychar)
  BY <1>3, <1>6, AppendLonger
<1>8. Stack = yyss /\ Stack' = Append(yyss, yystate') /\ Shifted' = input
  <2>1. yychar' \notin Tokens
    BY <1>1, <1>6
  <2> QED BY <1>1, <2>1 DEF Stack, Shifted
<1>9. PICK u \in TokenStates : u = yystate' /\ u \in 0..29
  BY <1>4 DEF Admits, TokenStates
<1>10. PICK st \in Seq(0..29) : st = Append(yyss, u) /\ Longer(st, yyss, u)
  <2>1. yyss \in Seq(0..29)
    BY <1>2 DEF Path
  <2>2. PICK st : st = Append(yyss, u)
    OBVIOUS
  <2>3. st \in Seq(0..29) /\ Longer(st, yyss, u)
    BY <1>9, <2>1, <2>2 DEF Longer
  <2> QED BY <2>2, <2>3
<1>11. PICK wt \in Seq(Int) : wt = yyvs' /\ Longer(wt, yyvs, Len(input))
  <2>1. yyvs \in Seq(Int)
    BY DEF IInv, Types
  <2>2. PICK k \in Int : k = Len(input)
    BY <1>6 DEF Codes
  <2>3. PICK wt : wt = Append(yyvs, k)
    OBVIOUS
  <2>4. wt \in Seq(Int) /\ Longer(wt, yyvs, k)
    BY <2>1, <2>2, <2>3 DEF Longer
  <2> QED BY <1>1, <2>2, <2>3, <2>4
<1>12. /\ yyss \in Seq(0..29) /\ yyvs \in Seq(Int) /\ nodes \in Seq(Node)
       /\ Len(yyvs) = Len(yyss)
  BY <1>1, <1>2 DEF Path, IInv, Types, Stacks
<1>13. Loose(yyss, yyvs, nodes) /\ Spare(yyss, Shifted, nodes)
  BY <1>1, <1>8 DEF Orphans
<1>14. Loose(st, wt, nodes)
  BY <1>10, <1>11, <1>12, <1>13, ShiftLoose
<1>15. Spare(st, input, nodes)
  BY <1>6, <1>7, <1>10, <1>12, <1>13, ShiftSpare
<1>16. Loose(Stack', yyvs', nodes') /\ Spare(Stack', Shifted', nodes')
  <2>1. Stack' = st
    BY <1>8, <1>9, <1>10, Zenon
  <2> QED BY <1>1, <1>8, <1>11, <1>14, <1>15, <2>1, Zenon
<1>17. Len(input') <= MaxTokens
  BY <1>1 DEF Orphans
<1> QED BY <1>16, <1>17 DEF Orphans

\* A reduction that makes a node is a call Ast expects: the operands have no
\* parent yet, and there are no more nodes than the tokens allow.
LEMMA FieldsOf ==
  /\ \A t \in {"cnst", "var"} : Len(Trees!Fields[t]) = 0
  /\ Len(Trees!Fields["uexpr"]) = 1 /\ Trees!Fields["uexpr"][1] = NodeTypes
  /\ \A t \in {"bexpr", "rexpr"} :
       Len(Trees!Fields[t]) = 2 /\ \A j \in 1..2 : Trees!Fields[t][j] = NodeTypes
<1>1. Trees!Fields["cnst"] = <<>> /\ Trees!Fields["var"] = <<>>
  BY DEF Trees!Fields
<1>2. Trees!Fields["uexpr"] = <<Trees!Exprs>>
  BY DEF Trees!Fields
<1>3. Trees!Fields["bexpr"] = <<Trees!Exprs, Trees!Exprs>>
      /\ Trees!Fields["rexpr"] = <<Trees!Exprs, Trees!Exprs>>
  BY DEF Trees!Fields
<1>4. Trees!Exprs = NodeTypes
  BY DEF Trees!Exprs, NodeTypes
<1> HIDE DEF NodeTypes
<1>5. \A t \in {"cnst", "var"} : Len(Trees!Fields[t]) = 0
  BY <1>1
<1>6. Len(Trees!Fields["uexpr"]) = 1 /\ Trees!Fields["uexpr"][1] = NodeTypes
  BY <1>2, <1>4
<1>7. ASSUME NEW t \in {"bexpr", "rexpr"}
      PROVE  Len(Trees!Fields[t]) = 2 /\ \A j \in 1..2 : Trees!Fields[t][j] = NodeTypes
  <2>1. Trees!Fields[t] = <<NodeTypes, NodeTypes>>
    BY <1>3, <1>4
  <2> QED BY <2>1
<1> QED BY <1>5, <1>6, <1>7

\* The operands of an expression can be children of it.
LEMMA MayBeChildren ==
  ASSUME nodes \in Seq(Node), NEW node,
         NEW k, node.kids \in [1..k -> Trees!Roots], node.type \in NodeTypes,
         k \in {Len(Trees!Fields[node.type])},
         \A j \in 1..k : Trees!Fields[node.type][j] = NodeTypes,
         \A i, j \in 1..k : node.kids[i] = node.kids[j] => i = j
  PROVE  node.kids \in Trees!Children(node.type)
<1>1. node.type # "block"
  BY DEF NodeTypes
<1>2. \A n \in Trees!Roots : n \in 1..Len(nodes) /\ n # Trees!Nil
  BY DEF Trees!Roots, Trees!Nil
<1>3. ASSUME NEW j \in 1..k
      PROVE  Trees!TypeOf(node.kids[j]) \in Trees!Fields[node.type][j]
  <2>1. node.kids[j] \in Trees!Roots
    OBVIOUS
  <2>2. nodes[node.kids[j]] \in Node
    BY <1>2, <2>1, ElementOfSeq
  <2>3. Trees!TypeOf(node.kids[j]) = nodes[node.kids[j]].type
    BY <1>2, <2>1 DEF Trees!TypeOf
  <2> QED BY <2>2, <2>3 DEF Node
<1>4. node.kids \in [1..k -> Trees!Roots \cup {Trees!Nil}] /\ DOMAIN node.kids = 1..k
  OBVIOUS
<1>5. k = Len(Trees!Fields[node.type])
  OBVIOUS
<1> QED BY <1>1, <1>3, <1>4, <1>5 DEF Trees!Children

LEMMA OperandRoots ==
  ASSUME NEW ss, NEW vs, Loose(ss, vs, nodes), NEW i \in 2..Len(ss), ss[i] \in NodeStates
  PROVE  vs[i] \in Trees!Roots
<1>1. vs[i] \in 1..Len(nodes) /\ ~Child(nodes, vs[i])
  BY DEF Loose, Orphan
<1> QED BY <1>1 DEF Child, Trees!Roots

LEMMA MadeOfChildren ==
  ASSUME nodes \in Seq(Node), NEW ss, Path(ss), NEW vs, Len(vs) = Len(ss),
         Loose(ss, vs, nodes),
         NEW m \in 1..(Len(ss) - 1), NEW u, Reduces(ss, m, u),
         NEW node, NEW label, Makes(ss, vs, node, label)
  PROVE  node.type \in NodeTypes /\ node.kids \in Trees!Children(node.type)
<1>0. \A i \in (m + 1)..Len(ss) : i \in 2..Len(ss)
  <2>1. PICK n \in Nat : n = Len(ss) /\ m \in 1..(n - 1)
    BY LenProperties DEF Path
  <2> QED BY <2>1
<1>1. CASE node.type \in {"cnst", "var"} /\ node.kids = <<>>
  <2>1. node.type \in NodeTypes
    BY <1>1 DEF NodeTypes
  <2>2. node.kids \in [1..0 -> Trees!Roots]
    BY <1>1
  <2>3. Len(Trees!Fields[node.type]) = 0
    BY <1>1, FieldsOf
  <2>4. 0 \in {Len(Trees!Fields[node.type])}
    BY <2>3
  <2>5. \A j \in 1..0 : FALSE
    OBVIOUS
  <2> QED BY <2>1, <2>2, <2>4, <2>5, MayBeChildren
<1>2. CASE /\ node.type = "uexpr"
           /\ \E i \in (m + 1)..Len(ss) : ss[i] \in NodeStates /\ node.kids = <<vs[i]>>
  <2>1. node.type \in NodeTypes
    BY <1>2 DEF NodeTypes
  <2>2. PICK i \in (m + 1)..Len(ss) : ss[i] \in NodeStates /\ node.kids = <<vs[i]>>
    BY <1>2
  <2>3. PICK x \in Trees!Roots : x = vs[i]
    BY <1>0, <2>2, OperandRoots
  <2>4. node.kids \in [1..1 -> Trees!Roots]
    BY <2>2, <2>3
  <2>5. 1 \in {Len(Trees!Fields[node.type])} /\ \A j \in 1..1 : Trees!Fields[node.type][j] = NodeTypes
    BY <1>2, FieldsOf
  <2>6. \A i1, j1 \in 1..1 : i1 = j1
    OBVIOUS
  <2> QED BY <2>1, <2>4, <2>5, <2>6, MayBeChildren
<1>3. CASE /\ node.type \in {"bexpr", "rexpr"}
           /\ \E i, j \in (m + 1)..Len(ss) :
                 /\ i # j /\ ss[i] \in NodeStates /\ ss[j] \in NodeStates
                 /\ node.kids = <<vs[i], vs[j]>>
  <2>1. node.type \in NodeTypes
    BY <1>3 DEF NodeTypes
  <2>2. PICK i \in (m + 1)..Len(ss), j \in (m + 1)..Len(ss) :
           /\ i # j /\ ss[i] \in NodeStates /\ ss[j] \in NodeStates
           /\ node.kids = <<vs[i], vs[j]>>
    BY <1>3
  <2>3. PICK x \in Trees!Roots, y \in Trees!Roots : x = vs[i] /\ y = vs[j]
    BY <1>0, <2>2, OperandRoots
  <2>4. node.kids \in [1..2 -> Trees!Roots] /\ node.kids[1] = x /\ node.kids[2] = y
    BY <2>2, <2>3
  <2>5. /\ 2 \in {Len(Trees!Fields[node.type])}
        /\ \A k \in 1..2 : Trees!Fields[node.type][k] = NodeTypes
    BY <1>3, FieldsOf
  <2>6. x # y
    <3>1. Apart(ss, vs, i, j)
      BY <1>0 DEF Loose
    <3> QED BY <2>2, <2>3, <3>1 DEF Apart
  <2>7. \A k, l \in 1..2 : node.kids[k] = node.kids[l] => k = l
    BY <2>4, <2>6
  <2> QED BY <2>1, <2>4, <2>5, <2>7, MayBeChildren
<1> QED BY <1>1, <1>2, <1>3, OperandsOf

\* What Ast does to create a node, here: a node with a name if it is a variable.
LEMMA CreateIs ==
  ASSUME nodes \in Seq(Node), NEW t \in NodeTypes, NEW kids \in Trees!Children(t),
         Len(nodes) < 2 * MaxTokens,
         nodes' = Append(nodes, [type |-> t, kids |-> kids])
  PROVE  Trees!Create(t)
<1>1. PICK q \in Nat : q = Len(nodes) /\ DOMAIN nodes = 1..q
  OBVIOUS
<1>2. PICK node : node = [type |-> t, kids |-> kids]
  OBVIOUS
<1>3. node.type = t /\ nodes' = Append(nodes, node)
  BY <1>2
<1>4. /\ DOMAIN nodes' = (1..q) \cup {q + 1} /\ nodes'[q + 1] = node
      /\ \A n \in 1..q : nodes'[n] = nodes[n]
  BY <1>1, <1>3
<1>5. DOMAIN nodes' = DOMAIN nodes \cup {Len(nodes) + 1}
  BY <1>1, <1>4
<1>6. {n \in DOMAIN nodes' : nodes'[n].type = "var"}
        = IF t \in Trees!Named
          THEN {n \in DOMAIN nodes : nodes[n].type = "var"} \cup {Len(nodes) + 1}
          ELSE {n \in DOMAIN nodes : nodes[n].type = "var"}
  <2>1. t \in Trees!Named <=> t = "var"
    BY DEF Trees!Named, NodeTypes
  <2>2. q + 1 \notin 1..q
    OBVIOUS
  <2> QED BY <1>1, <1>3, <1>4, <2>1, <2>2
<1>7. t # "block"
  BY DEF NodeTypes
<1> QED BY <1>5, <1>6, <1>7 DEF Trees!Create

\* A reduction leaves nodes without parents on the stack, and creates a node of
\* such ones or none (y.tab.c:1478-1623).
LEMMA ReduceOrphans ==
  ASSUME IInv, Language, Orphans, Reduce
  PROVE  Orphans' /\ (nodes' = nodes \/ \E t \in NodeTypes : Trees!Create(t))
<1>1. /\ pc = "yyreduce" /\ pc' = "yysetstate" /\ input' = input
  BY DEF Reduce
<1>2. /\ Path(yyss) /\ yystate = Last(yyss) /\ Len(yyvs) = Len(yyss)
      /\ yyss \in Seq(0..29) /\ yyvs \in Seq(Int) /\ nodes \in Seq(Node)
      /\ Stack = yyss /\ Shifted \in Codes /\ nodes' \in Seq(Node)
  <2>1. IInv'
    BY ReduceIInv
  <2>2. nodes' \in Seq(Node)
    BY <2>1 DEF IInv, Types
  <2> QED BY <1>1, <2>2, CodesRead DEF IInv, Types, Stacks, Path, Stack
<1>3. PICK m \in 1..(Len(yyss) - 1), u \in 0..29, v \in Int :
         /\ Reduces(yyss, m, u) /\ v = YyVal(yyn)
         /\ Swapped(yyss, Stack', m, u) /\ Swapped(yyvs, yyvs', m, v)
         /\ Stack' \in Seq(0..29) /\ yyvs' \in Seq(Int) /\ Shifted' = Shifted
         /\ \/ yystate \in {3, 4, 9} /\ u \in {7, 9} \cup 20..29
            \/ yystate = 7 /\ u = 6
            \/ yystate \in 20..29 /\ u = 6
            \/ yystate \in {1, 6} /\ u = 2
  BY ReduceParts
<1>4. Loose(yyss, yyvs, nodes) /\ Spare(yyss, Shifted, nodes) /\ Len(input) <= MaxTokens
  BY <1>1, <1>2 DEF Orphans
<1>5. ASSUME NEW md, md = nodes', Loose(Stack', yyvs', md), Spare(Stack', Shifted, md)
      PROVE  Orphans'
  <2>1. Loose(Stack', yyvs', nodes') /\ Spare(Stack', Shifted', nodes')
    BY <1>3, <1>5, Zenon
  <2> QED BY <1>1, <1>4, <2>1 DEF Orphans
<1>6. CASE yystate \in {3, 4, 9} \cup 20..29
  <2>1. v = Len(nodes) + 1
    BY <1>3, <1>6, ActionMakes
  <2>2. PICK node, label : /\ nodes' = Append(nodes, node)
                           /\ Makes(yyss, yyvs, node, label)
    BY <1>6, ActionMakes
  <2>3. u \in NodeStates
    <3>1. yystate # 7 /\ yystate \notin {1, 6}
      BY <1>6
    <3>2. u \in {7, 9} \cup 20..29 \/ u = 6
      BY <1>3, <3>1
    <3> QED BY <3>2 DEF NodeStates
  <2>4. PICK md \in Seq(Node) : md = nodes' /\ Longer(md, nodes, node)
    BY <1>2, <2>2, AppendIsLonger
  <2>5. Operands(node, yyss, yyvs, m)
    BY <1>2, <1>3, <2>2, MadeOfOperands
  <2>6. Swapped(yyvs, yyvs', m, Len(nodes) + 1)
    BY <1>3, <2>1, Zenon
  <2>7. Loose(Stack', yyvs', md)
    BY <1>2, <1>3, <1>4, <2>3, <2>4, <2>5, <2>6, MakeLoose
  <2>8. Last(yyss) \in {3, 4} \/ m \in 1..(Len(yyss) - 2)
    <3>1. CASE yystate \in {3, 4}
      BY <1>2, <3>1
    <3>2. CASE yystate \in {9} \cup 20..29
      <4>1. Pops(yystate) \in {2, 3}
        <5>1. Pops(9) = 2 /\ \A s \in 20..29 : s \in 0..29 /\ Pops(s) = 3
          BY RulesOf
        <5> QED BY <3>2, <5>1
      <4>2. m = Len(yyss) - Pops(yystate)
        BY <1>2, <1>3 DEF Reduces
      <4>3. PICK n \in Nat : n = Len(yyss)
        BY <1>2, LenProperties
      <4> QED BY <4>1, <4>2, <4>3
    <3> QED BY <1>6, <3>1, <3>2
  <2>9. Spare(Stack', Shifted, md) /\ Len(nodes) < 2 * Len(Shifted)
    BY <1>2, <1>3, <1>4, <2>3, <2>4, <2>8, MakeSpare
  <2>10. Len(nodes) < 2 * MaxTokens
    <3>1. PICK r \in Nat, k \in Nat, q \in Nat : r = Len(Shifted) /\ k = Len(input) /\ q = Len(nodes)
      BY <1>2 DEF Codes, IInv, Types
    <3>2. r <= k
      <4>1. Shifted = input \/ input = Append(Shifted, yychar)
        BY CodesRead DEF Shifted
      <4> QED BY <1>2, <3>1, <4>1 DEF Codes
    <3> QED BY <1>4, <2>9, <3>1, <3>2, ParserAssumption
  <2>11. node.type \in NodeTypes /\ node.kids \in Trees!Children(node.type)
    BY <1>2, <1>3, <1>4, <2>2, MadeOfChildren
  <2>12. Trees!Create(node.type)
    <3>1. node = [type |-> node.type, kids |-> node.kids]
      <4>1. md[Len(md)] = node /\ Len(md) \in 1..Len(md)
        BY <1>2, <2>4 DEF Longer
      <4>2. node \in Node
        BY <4>1, ElementOfSeq
      <4> QED BY <4>2 DEF Node
    <3>2. PICK t \in NodeTypes : t = node.type
      BY <2>11
    <3> QED BY <1>2, <2>2, <2>10, <2>11, <3>1, <3>2, CreateIs
  <2> QED BY <1>5, <2>4, <2>7, <2>9, <2>11, <2>12
<1>7. CASE yystate = 7
  <2>1. nodes' = nodes /\ v = yyvs[Len(yyvs)]
    BY <1>3, <1>7, ActionMakes
  <2>2. u = 6 /\ u \in {2} \cup NodeStates /\ Last(yyss) \in NodeStates
    BY <1>2, <1>3, <1>7 DEF NodeStates
  <2>3. m + 1 \in {Len(yyss)}
    <3>1. Pops(yystate) = 1
      BY <1>7, RulesOf
    <3>2. m = Len(yyss) - Pops(yystate)
      BY <1>2, <1>3 DEF Reduces
    <3>3. PICK n \in Nat : n = Len(yyss)
      BY <1>2, LenProperties
    <3> QED BY <3>1, <3>2, <3>3
  <2>4. Swapped(yyvs, yyvs', m, yyvs[Len(yyvs)])
    BY <1>3, <2>1, Zenon
  <2>5. Loose(Stack', yyvs', nodes)
    BY <1>2, <1>3, <1>4, <2>2, <2>3, <2>4, RenameLoose
  <2>6. Spare(Stack', Shifted, nodes)
    BY <1>2, <1>3, <1>4, <2>2, KeepSpare
  <2> QED BY <1>5, <2>1, <2>5, <2>6
<1>8. CASE yystate \in {1, 6}
  <2>1. nodes' = nodes
    BY <1>8, ActionMakes
  <2>2. yystate \notin {3, 4, 9} \cup 20..29 /\ yystate # 7
    BY <1>8
  <2>3. u = 2 /\ u \in {2} \cup NodeStates
    BY <1>3, <2>2
  <2>4. Swapped(yyss, Stack', m, 2)
    BY <1>3, <2>3, Zenon
  <2>5. Loose(Stack', yyvs', nodes)
    BY <1>2, <1>3, <1>4, <2>4, DropLoose
  <2>6. Spare(Stack', Shifted, nodes)
    BY <1>2, <1>3, <1>4, <2>3, KeepSpare
  <2> QED BY <1>5, <2>1, <2>5, <2>6
<1> QED BY <1>3, <1>6, <1>7, <1>8

LEMMA NextOrphans ==
  ASSUME IInv, Language, Orphans, [Next]_vars
  PROVE  Orphans' /\ (nodes' = nodes \/ \E t \in NodeTypes : Trees!Create(t))
<1>1. CASE Stopped \/ UNCHANGED vars
  <2>1. UNCHANGED vars
    BY <1>1 DEF Stopped
  <2>2. /\ Stack' = Stack /\ Shifted' = Shifted /\ yyvs' = yyvs /\ nodes' = nodes
        /\ input' = input /\ pc' = pc
    BY <2>1 DEF vars, tree, Stack, Shifted
  <2> QED BY <2>2 DEF Orphans
<1>2. CASE SetState \/ ReadToken \/ Default \/ Accept
  <2>1. nodes' = nodes
    BY <1>2 DEF SetState, ReadToken, Default, Accept, tree
  <2> QED BY <1>2, <2>1, QuietOrphans
<1>3. CASE ErrLab \/ ErrPop \/ ErrAbort \/ Return
  <2>1. nodes' = nodes
    BY <1>3 DEF ErrLab, ErrPop, ErrAbort, Return, tree
  <2> QED BY <1>3, <2>1, RecoveryOrphans
<1>4. CASE Shift
  <2>1. nodes' = nodes
    BY <1>4 DEF Shift, tree
  <2> QED BY <1>4, <2>1, ShiftOrphans
<1> QED BY <1>1, <1>2, <1>3, <1>4, ReduceOrphans DEF Next, Step

\* The actions call the create functions of ast.c as their callers should: with
\* nodes of the types the struct is for that no other node has for a child, and
\* twice as many nodes as tokens are enough (y.tab.c:1497-1594).
THEOREM TreesAreBuilt == Spec => BuildsTrees
<1>1. Init => Trees!Init
  BY DEF Init, Trees!Init
<1>2. IInv /\ Language /\ Orphans /\ [Next]_vars => [Trees!Next]_(Trees!vars)
  <2> SUFFICES ASSUME IInv, Language, Orphans, [Next]_vars PROVE [Trees!Next]_(Trees!vars)
      OBVIOUS
  <2>1. CASE nodes' = nodes
    BY <2>1 DEF Trees!vars
  <2>2. CASE \E t \in NodeTypes : Trees!Create(t)
    BY <2>2 DEF Trees!Next, NodeTypes
  <2> QED BY <2>1, <2>2, NextOrphans
<1> QED
  BY <1>1, <1>2, InitOrphans, NextOrphans, ParserIntact, StackReadsTokens, PTL
     DEF Spec, BuildsTrees

-----------------------------------------------------------------------------
(* Every node has one owner *)

\* NodesOwnedOnce, of a stack and nodes.
OwnersOf(ss, vs, nd, n) ==
  {slot \in (1..Len(nd)) \X {1, 2} :
     slot[2] \in DOMAIN nd[slot[1]].kids /\ nd[slot[1]].kids[slot[2]] = n}
  \cup {<<0, i>> : i \in {k \in 1..Len(ss) : ss[k] \in NodeStates /\ vs[k] = n}}
OwnedOnce(ss, vs, nd) ==
  \A n \in 1..Len(nd) :
    IF Last(ss) = 2 /\ n = Len(nd)
    THEN OwnersOf(ss, vs, nd, n) = {}
    ELSE \E o : OwnersOf(ss, vs, nd, n) = {o}

\* No node is two children; children were made before, and there are two at most.
Slots(nd) ==
  \A p, q \in 1..Len(nd) : \A i \in DOMAIN nd[p].kids, j \in DOMAIN nd[q].kids :
    nd[p].kids[i] = nd[q].kids[j] /\ nd[p].kids[i] # 0 => p = q /\ i = j
Forked(nd) ==
  \A p \in 1..Len(nd) : \A j \in DOMAIN nd[p].kids : j \in {1, 2} /\ nd[p].kids[j] \in 1..(p - 1)
Held(ss, vs, nd) ==
  \A n \in 1..Len(nd) : Child(nd, n) \/ OnStack(ss, vs, n) \/ (Last(ss) = 2 /\ n = Len(nd))

\* An owner is a child of a node or an element of the stack.
LEMMA OwnerIs ==
  ASSUME NEW ss, NEW vs, NEW nd, NEW n, NEW x
  PROVE  x \in OwnersOf(ss, vs, nd, n) <=>
           \/ \E p \in 1..Len(nd), j \in {1, 2} :
                x = <<p, j>> /\ j \in DOMAIN nd[p].kids /\ nd[p].kids[j] = n
           \/ \E k \in 1..Len(ss) : x = <<0, k>> /\ ss[k] \in NodeStates /\ vs[k] = n
<1> DEFINE Slot == {slot \in (1..Len(nd)) \X {1, 2} :
                      slot[2] \in DOMAIN nd[slot[1]].kids /\ nd[slot[1]].kids[slot[2]] = n}
           Elements == {<<0, i>> : i \in {k \in 1..Len(ss) : ss[k] \in NodeStates /\ vs[k] = n}}
<1>1. x \in Slot <=> \E p \in 1..Len(nd), j \in {1, 2} :
                       x = <<p, j>> /\ j \in DOMAIN nd[p].kids /\ nd[p].kids[j] = n
  <2>1. ASSUME x \in Slot
        PROVE  \E p \in 1..Len(nd), j \in {1, 2} :
                 x = <<p, j>> /\ j \in DOMAIN nd[p].kids /\ nd[p].kids[j] = n
    BY <2>1
  <2>2. ASSUME NEW p \in 1..Len(nd), NEW j \in {1, 2}, x = <<p, j>>,
               j \in DOMAIN nd[p].kids, nd[p].kids[j] = n
        PROVE  x \in Slot
    BY <2>2
  <2> QED BY <2>1, <2>2
<1>2. x \in Elements <=> \E k \in 1..Len(ss) : x = <<0, k>> /\ ss[k] \in NodeStates /\ vs[k] = n
  OBVIOUS
<1>3. OwnersOf(ss, vs, nd, n) = Slot \cup Elements
  BY DEF OwnersOf
<1> HIDE DEF Slot, Elements
<1> QED BY <1>1, <1>2, <1>3

\* A complete statement is alone on the stack (y.tab.c:637-677).
LEMMA StatementAlone ==
  ASSUME NEW ss, Path(ss), Last(ss) = 2
  PROVE  \A k \in 1..Len(ss) : ss[k] \notin NodeStates
<1>1. PICK n \in Nat \ {0} : n = Len(ss) /\ Last(ss) = ss[n] /\ n \in 1..Len(ss)
  BY EmptySeq, LenProperties DEF Path, Last
<1>2. n = 2
  <2>1. ss[n] \in {1, 2} => n = 2
    BY <1>1, PathShape, Zenon
  <2> QED BY <1>1, <2>1
<1>3. ss[1] = 0 /\ ss[2] = 2
  BY <1>1, <1>2 DEF Path
<1>4. \A k \in 1..Len(ss) : k = 1 \/ k = 2
  BY <1>1, <1>2
<1> QED BY <1>3, <1>4 DEF NodeStates

LEMMA OwnedIs ==
  ASSUME NEW ss, Path(ss), NEW vs, NEW nd, Len(nd) \in Nat,
         Loose(ss, vs, nd), Slots(nd), Forked(nd), Held(ss, vs, nd)
  PROVE  OwnedOnce(ss, vs, nd)
<1>1. PICK q \in Nat : q = Len(nd)
  OBVIOUS
<1>2. ASSUME NEW k \in 1..Len(ss), ss[k] \in NodeStates PROVE k \in 2..Len(ss)
  <2>1. ss[1] = 0 /\ 0 \notin NodeStates
    BY DEF Path, NodeStates
  <2>2. k # 1
    BY <1>2, <2>1
  <2>3. Len(ss) \in Nat
    BY LenProperties DEF Path
  <2> QED BY <2>2, <2>3
<1>3. ASSUME NEW n \in 1..q, Last(ss) = 2, n = q PROVE OwnersOf(ss, vs, nd, n) = {}
  <2>1. \A k \in 1..Len(ss) : ss[k] \notin NodeStates
    BY <1>3, StatementAlone
  <2>2. ASSUME NEW p \in 1..Len(nd), NEW j \in DOMAIN nd[p].kids PROVE nd[p].kids[j] # n
    <3>1. nd[p].kids[j] \in 1..(p - 1) /\ p \in 1..q
      BY <1>1 DEF Forked
    <3> QED BY <1>3, <3>1
  <2> QED BY <2>1, <2>2, OwnerIs
<1>4. ASSUME NEW n \in 1..q, Child(nd, n) PROVE \E o : OwnersOf(ss, vs, nd, n) = {o}
  <2>1. PICK p \in 1..Len(nd) : \E j \in DOMAIN nd[p].kids : nd[p].kids[j] = n
    BY <1>4 DEF Child
  <2>2. PICK j \in DOMAIN nd[p].kids : nd[p].kids[j] = n
    BY <2>1
  <2>3. j \in {1, 2} /\ n # 0
    BY DEF Forked
  <2>4. <<p, j>> \in OwnersOf(ss, vs, nd, n)
    BY <2>2, <2>3, OwnerIs
  <2>5. ASSUME NEW x \in OwnersOf(ss, vs, nd, n) PROVE x = <<p, j>>
    <3>1. CASE \E r \in 1..Len(nd), i \in {1, 2} :
                 x = <<r, i>> /\ i \in DOMAIN nd[r].kids /\ nd[r].kids[i] = n
      <4>1. PICK r \in 1..Len(nd), i \in {1, 2} :
              x = <<r, i>> /\ i \in DOMAIN nd[r].kids /\ nd[r].kids[i] = n
        BY <3>1
      <4>2. r = p /\ i = j
        BY <2>2, <2>3, <4>1 DEF Slots
      <4> QED BY <4>1, <4>2
    <3>2. CASE \E k \in 1..Len(ss) : x = <<0, k>> /\ ss[k] \in NodeStates /\ vs[k] = n
      <4>1. PICK k \in 1..Len(ss) : ss[k] \in NodeStates /\ vs[k] = n
        BY <3>2
      <4>2. ~Child(nd, vs[k])
        BY <1>2, <4>1 DEF Loose, Orphan
      <4> QED BY <1>4, <4>1, <4>2
    <3> QED BY <3>1, <3>2, OwnerIs
  <2> QED BY <2>4, <2>5
<1>5. ASSUME NEW n \in 1..q, OnStack(ss, vs, n) PROVE \E o : OwnersOf(ss, vs, nd, n) = {o}
  <2>1. PICK k \in 2..Len(ss) : ss[k] \in NodeStates /\ vs[k] = n
    BY <1>5 DEF OnStack
  <2>2. k \in 1..Len(ss)
    OBVIOUS
  <2>3. <<0, k>> \in OwnersOf(ss, vs, nd, n)
    BY <2>1, <2>2, OwnerIs
  <2>4. ~Child(nd, n)
    BY <2>1 DEF Loose, Orphan
  <2>5. ASSUME NEW x \in OwnersOf(ss, vs, nd, n) PROVE x = <<0, k>>
    <3>1. ~\E r \in 1..Len(nd), i \in {1, 2} :
             x = <<r, i>> /\ i \in DOMAIN nd[r].kids /\ nd[r].kids[i] = n
      BY <2>4 DEF Child
    <3>2. PICK l \in 1..Len(ss) : x = <<0, l>> /\ ss[l] \in NodeStates /\ vs[l] = n
      BY <2>5, <3>1, OwnerIs
    <3>3. Apart(ss, vs, k, l)
      BY <1>2, <3>2 DEF Loose
    <3>4. k = l
      BY <2>1, <3>2, <3>3 DEF Apart
    <3> QED BY <3>2, <3>4
  <2> QED BY <2>3, <2>5
<1>6. ASSUME NEW n \in 1..Len(nd)
      PROVE  IF Last(ss) = 2 /\ n = Len(nd)
             THEN OwnersOf(ss, vs, nd, n) = {}
             ELSE \E o : OwnersOf(ss, vs, nd, n) = {o}
  <2>1. CASE Last(ss) = 2 /\ n = Len(nd)
    BY <1>1, <1>3, <2>1
  <2>2. CASE ~(Last(ss) = 2 /\ n = Len(nd))
    <3>1. Child(nd, n) \/ OnStack(ss, vs, n)
      BY <2>2 DEF Held
    <3> QED BY <1>1, <1>4, <1>5, <2>2, <3>1
  <2> QED BY <2>1, <2>2
<1> QED BY <1>6 DEF OwnedOnce

\* A node is made of nodes that have no parent, all different (ast.c:33-225).
LEMMA CreateSlots ==
  ASSUME nodes \in Seq(Node), Slots(nodes), NEW t \in NodeTypes, Trees!Create(t)
  PROVE  Slots(nodes')
<1>1. PICK kids \in Trees!Children(t) : nodes' = Append(nodes, [type |-> t, kids |-> kids])
  BY DEF Trees!Create
<1>2. PICK q \in Nat : q = Len(nodes) /\ DOMAIN nodes = 1..q
  OBVIOUS
<1>3. PICK node : node = [type |-> t, kids |-> kids]
  OBVIOUS
<1>4. PICK md : md = nodes'
  OBVIOUS
<1>5. /\ Len(md) = q + 1 /\ md[q + 1] = node /\ node.kids = kids
      /\ \A p \in 1..q : md[p] = nodes[p]
  BY <1>1, <1>2, <1>3, <1>4
<1>6. /\ \A j \in DOMAIN kids : kids[j] \in Trees!Roots \/ kids[j] = 0
      /\ \A j, l \in DOMAIN kids : kids[j] = kids[l] /\ kids[j] # 0 => j = l
  BY DEF Trees!Children, Trees!Nil
<1>7. ASSUME NEW p \in 1..q, NEW i \in DOMAIN nodes[p].kids, NEW j \in DOMAIN kids,
             kids[j] # 0
      PROVE  nodes[p].kids[i] # kids[j]
  BY <1>2, <1>6, <1>7 DEF Trees!Roots
<1>8. ASSUME NEW p \in 1..(q + 1), NEW r \in 1..(q + 1),
             NEW i \in DOMAIN md[p].kids, NEW j \in DOMAIN md[r].kids,
             md[p].kids[i] = md[r].kids[j], md[p].kids[i] # 0
      PROVE  p = r /\ i = j
  <2>1. CASE p = q + 1 /\ r = q + 1
    BY <1>5, <1>6, <1>8, <2>1
  <2>2. CASE p = q + 1 /\ r # q + 1
    <3>1. r \in 1..q
      BY <2>2
    <3>2. md[r] = nodes[r] /\ md[p].kids = kids
      BY <1>5, <2>2, <3>1
    <3> QED BY <1>7, <1>8, <3>1, <3>2
  <2>3. CASE p # q + 1 /\ r = q + 1
    <3>1. p \in 1..q
      BY <2>3
    <3>2. md[p] = nodes[p] /\ md[r].kids = kids
      BY <1>5, <2>3, <3>1
    <3> QED BY <1>7, <1>8, <3>1, <3>2
  <2>4. CASE p # q + 1 /\ r # q + 1
    <3>1. p \in 1..q /\ r \in 1..q
      BY <2>4
    <3>2. md[p] = nodes[p] /\ md[r] = nodes[r]
      BY <1>5, <3>1
    <3> QED BY <1>2, <1>8, <3>1, <3>2 DEF Slots
  <2> QED BY <2>1, <2>2, <2>3, <2>4
<1>9. Slots(md)
  BY <1>5, <1>8 DEF Slots
<1> QED BY <1>4, <1>9

\* As long as yyparse builds, every node has one owner.
LEMMA BuildingOwns ==
  ASSUME IInv, Tree, Orphans, Slots(nodes), pc \in {"yysetstate", "yybackup", "yyreduce"}
  PROVE  OwnedOnce(Stack, yyvs, nodes)
<1>1. Path(Stack) /\ Len(nodes) \in Nat
  BY DEF IInv, Types, Stacks, Stack
<1>2. Loose(Stack, yyvs, nodes)
  BY DEF Orphans
<1>3. PICK lo \in Seq(Nat) : \E hi \in Seq(Nat) :
         Built(Stack, yyvs, Shifted, nodes, labels, lo, hi)
  BY DEF Tree, Building
<1>4. PICK hi \in Seq(Nat) : Built(Stack, yyvs, Shifted, nodes, labels, lo, hi)
  BY <1>3
<1>5. Held(Stack, yyvs, nodes)
  BY <1>4 DEF Built, Held
<1>6. ASSUME NEW p \in 1..Len(nodes), NEW j \in DOMAIN nodes[p].kids
      PROVE  j \in {1, 2} /\ nodes[p].kids[j] \in 1..(p - 1)
  <2>1. SpanAt(nodes, labels, Shifted, lo, hi, p)
    BY <1>4 DEF Built, Spans
  <2>2. CASE LeafAt(nodes, labels, Shifted, lo, hi, p)
    BY <1>6, <2>2 DEF LeafAt
  <2>3. CASE UnaryAt(nodes, labels, Shifted, lo, hi, p)
    <3>1. PICK k \in 1..(p - 1) : nodes[p].kids = <<k>>
      BY <2>3 DEF UnaryAt
    <3> QED BY <1>6, <3>1
  <2>4. CASE BinaryAt(nodes, labels, Shifted, lo, hi, p)
    <3>1. PICK k \in 1..(p - 1), l \in 1..(p - 1) : nodes[p].kids = <<k, l>>
      BY <2>4 DEF BinaryAt
    <3> QED BY <1>6, <3>1
  <2> QED BY <2>1, <2>2, <2>3, <2>4 DEF SpanAt
<1>7. Forked(nodes)
  BY <1>6 DEF Forked
<1> QED BY <1>1, <1>2, <1>5, <1>7, OwnedIs

\* What leaves that part of yyparse leaves the stacks and the nodes first.
Distinct == Slots(nodes)
OwnedNow == OwnedOnce(Stack, yyvs, nodes)
Builds == pc \in {"yysetstate", "yybackup", "yyreduce"}
Owned == Distinct /\ (Uncut => OwnedNow)

LEMMA BuildsOwned == IInv /\ Tree /\ Orphans /\ Distinct /\ Builds => OwnedNow
BY BuildingOwns DEF Distinct, Builds, OwnedNow

LEMMA NextOwned ==
  ASSUME IInv, Language, Tree, Orphans, Owned, [Next]_vars, IInv', Tree', Orphans'
  PROVE  Owned'
<1>1. Distinct'
  <2>1. CASE nodes' = nodes
    BY <2>1 DEF Owned, Distinct
  <2>2. CASE \E t \in NodeTypes : Trees!Create(t)
    BY <2>2, CreateSlots DEF Owned, Distinct, IInv, Types
  <2> QED BY <2>1, <2>2, NextOrphans
<1>2. CASE Builds'
  <2>1. OwnedNow'
    BY <1>1, <1>2, BuildsOwned, PTL
  <2> QED BY <1>1, <2>1 DEF Owned
<1>3. CASE Uncut' /\ ~Builds'
  <2>1. pc' = "yyerrlab" \/ (pc' = "yyreturn" /\ yyresult' \in {0, 2})
    BY <1>3 DEF Uncut, Builds
  <2>2. SetState \/ Default \/ Accept \/ UNCHANGED vars
    BY <2>1 DEF Next, Step, Stopped, ReadToken, Shift, Reduce, ErrLab, ErrPop, ErrAbort, Return
  <2>3. Uncut
    BY <2>1, <2>2 DEF SetState, Default, Accept, vars, Uncut
  <2>4. Stack' = Stack /\ yyvs' = yyvs /\ nodes' = nodes
    BY <2>1, <2>2 DEF SetState, Default, Accept, vars, tree, Stack
  <2>5. OwnedNow
    BY <2>3 DEF Owned
  <2>6. OwnedNow'
    BY <2>4, <2>5, Zenon DEF OwnedNow
  <2> QED BY <1>1, <2>6 DEF Owned
<1>4. CASE ~Uncut'
  BY <1>1, <1>4 DEF Owned
<1> QED BY <1>2, <1>3, <1>4

\* Up to the first pop of a parse that fails, every node the actions made has one
\* owner: nothing has leaked before, and nothing would be freed twice by a
\* %destructor (y.tab.c:1478-1623, 1743, 1800).
THEOREM NodesStayOwned == Spec => []NodesOwnedOnce
<1>1. Init => Owned
  <2> SUFFICES ASSUME Init PROVE Owned
      OBVIOUS
  <2>1. Len(nodes) = 0
    BY DEF Init
  <2> QED BY <2>1 DEF Owned, Distinct, OwnedNow, Slots, OwnedOnce
<1>2. IInv /\ Owned => NodesOwnedOnce
  <2> SUFFICES ASSUME IInv, Owned, Uncut, NEW n \in DOMAIN nodes
               PROVE  Cardinality(Owners(n)) = IF Last(Stack) = 2 /\ n = Len(nodes) THEN 0 ELSE 1
      BY DEF NodesOwnedOnce
  <2>1. DOMAIN nodes = 1..Len(nodes) /\ DOMAIN Stack = 1..Len(Stack)
    BY DEF IInv, Types, Stack
  <2>2. Owners(n) = OwnersOf(Stack, yyvs, nodes, n)
    BY <2>1 DEF Owners, OwnersOf
  <2>3. IF Last(Stack) = 2 /\ n = Len(nodes)
        THEN Owners(n) = {} ELSE \E o : Owners(n) = {o}
    <3>1. OwnedOnce(Stack, yyvs, nodes) /\ n \in 1..Len(nodes)
      BY <2>1 DEF Owned, OwnedNow
    <3> QED BY <2>2, <3>1 DEF OwnedOnce
  <2> QED BY <2>3, FS_EmptySet, FS_Singleton
<1> QED BY <1>1, <1>2, InitTree, InitOrphans, NextTree, NextOrphans, NextLanguage, NextIInv,
           NextOwned, ParserIntact, StackReadsTokens, PTL DEF Spec

-----------------------------------------------------------------------------

\* Tokens that can still be shifted: those to come, and the lookahead.
ToShift == MaxTokens - Len(input) + (IF yychar \in Tokens THEN 1 ELSE 0)

\* States on the stack, the one about to be pushed among them.
Height == Len(yyss) + (IF pc = "yysetstate" THEN 1 ELSE 0)

\* Reductions by rules of length 1 that may follow from a state.
Units(s) == IF s \in {3, 4} THEN 2 ELSE IF s \in {1, 7} THEN 1 ELSE 0

\* Labels yyparse comes to before it has to shift or reduce.
Phase == CASE pc = "yysetstate" -> 3
           [] pc = "yybackup" -> 2
           [] pc \in {"yyreduce", "yyerrlab"} -> 1
           [] OTHER -> 0

\* A bound of the steps yyparse has left.
StepsLeft ==
  IF pc = "done" THEN 0
  ELSE IF pc = "yyreturn" THEN 1
  ELSE 2 + 18 * ToShift + 9 * Height + 3 * Units(yystate) + Phase
         + (IF yychar = YYEMPTY THEN 1 ELSE 0)

\* The scanner delivers MaxTokens tokens at most: the bound of the input.
Bounded == Len(input) <= MaxTokens

\* What StepsLeft is made of are natural numbers, and so is StepsLeft.
Counts ==
  /\ ToShift \in Nat /\ Height \in Nat /\ Phase \in 0..3
  /\ Units(yystate) \in 0..2 /\ StepsLeft \in Nat

LEMMA CountsHold == IInv /\ Bounded => Counts
<1> SUFFICES ASSUME IInv, Bounded PROVE Counts
  OBVIOUS
<1>1. Len(input) \in Nat /\ Len(yyss) \in Nat /\ MaxTokens \in Nat
  BY LenProperties, ParserAssumption DEF IInv, Types
<1>2. ToShift \in Nat
  BY <1>1 DEF ToShift, Bounded
<1>3. Height \in Nat
  BY <1>1 DEF Height
<1>4. Phase \in 0..3
  BY DEF Phase
<1>5. Units(yystate) \in 0..2
  BY DEF Units
<1> HIDE DEF ToShift, Height, Phase, Units
<1>6. StepsLeft \in Nat
  BY <1>2, <1>3, <1>4, <1>5 DEF StepsLeft
<1> QED
  BY <1>2, <1>3, <1>4, <1>5, <1>6 DEF Counts

\* What makes the sum smaller: a label passed or a lookahead read, a shift, or
\* a reduction or a pop.
LEMMA SumFalls ==
  ASSUME NEW t \in Nat, NEW h \in Nat, NEW u \in 0..2, NEW p \in 0..3, NEW e \in 0..1,
         NEW t2 \in Nat, NEW h2 \in Nat, NEW u2 \in 0..2, NEW p2 \in 0..3, NEW f \in 0..1,
         \/ t2 = t /\ h2 = h /\ u2 = u /\ p2 + f < p + e
         \/ t2 = t - 1 /\ h2 = h + 1 /\ p2 = p + 1
         \/ t2 = t /\ h2 = h /\ u2 < u /\ p2 <= p + 2 /\ f = e
         \/ t2 = t /\ h2 < h /\ p2 <= p + 2 /\ f = e
  PROVE  18 * t2 + 9 * h2 + 3 * u2 + p2 + f < 18 * t + 9 * h + 3 * u + p + e
OBVIOUS

\* In the middle of a parse such a step makes StepsLeft smaller.
LEMMA LeftFalls ==
  ASSUME Counts, Counts',
         NEW e \in 0..1, e = (IF yychar = YYEMPTY THEN 1 ELSE 0),
         NEW f \in 0..1, f = (IF yychar' = YYEMPTY THEN 1 ELSE 0),
         pc \notin {"yyreturn", "done"}, pc' \notin {"yyreturn", "done"},
         \/ /\ ToShift' = ToShift /\ Height' = Height
            /\ Units(yystate)' = Units(yystate) /\ Phase' + f < Phase + e
         \/ ToShift' = ToShift - 1 /\ Height' = Height + 1 /\ Phase' = Phase + 1
         \/ /\ ToShift' = ToShift /\ Height' = Height /\ Units(yystate)' < Units(yystate)
            /\ Phase' <= Phase + 2 /\ f = e
         \/ ToShift' = ToShift /\ Height' < Height /\ Phase' <= Phase + 2 /\ f = e
  PROVE  StepsLeft' < StepsLeft
<1>a. PICK t \in Nat, h \in Nat, u \in 0..2, p \in 0..3 :
      t = ToShift /\ h = Height /\ u = Units(yystate) /\ p = Phase
  BY DEF Counts
<1>b. PICK t2 \in Nat, h2 \in Nat, u2 \in 0..2, p2 \in 0..3 :
      t2 = ToShift' /\ h2 = Height' /\ u2 = Units(yystate)' /\ p2 = Phase'
  BY DEF Counts
<1>1. StepsLeft = 2 + 18 * t + 9 * h + 3 * u + p + e
  BY <1>a DEF StepsLeft
<1>2. StepsLeft' = 2 + 18 * t2 + 9 * h2 + 3 * u2 + p2 + f
  BY <1>b DEF StepsLeft
<1> HIDE DEF ToShift, Height, Phase, Units
<1>3. \/ t2 = t /\ h2 = h /\ u2 = u /\ p2 + f < p + e
      \/ t2 = t - 1 /\ h2 = h + 1 /\ p2 = p + 1
      \/ t2 = t /\ h2 = h /\ u2 < u /\ p2 <= p + 2 /\ f = e
      \/ t2 = t /\ h2 < h /\ p2 <= p + 2 /\ f = e
  BY <1>a, <1>b
<1>4. 18 * t2 + 9 * h2 + 3 * u2 + p2 + f < 18 * t + 9 * h + 3 * u + p + e
  BY <1>3, SumFalls
<1> QED
  BY <1>1, <1>2, <1>4

\* A reduction by a rule of length 1 goes to a state from which fewer follow
\* (y.tab.c:1612-1623).
LEMMA UnitsFall ==
  ASSUME NEW s \in 0..29, NEW v \in 0..29, s \in Follows(v),
         At(yydefact, s) # 0, At(yyr2, At(yydefact, s)) = 1
  PROVE  Units(Goto(At(yyr1, At(yydefact, s)), v)) < Units(s)
<1>1. s \in {1, 3, 4, 7}
  BY DEF At, yydefact, yyr2
<1>2. CASE s = 1
  <2>1. v = 0 /\ At(yyr1, At(yydefact, s)) = 28
    BY <1>2 DEF Follows, At, yydefact, yyr1
  <2> QED
    BY <1>2, <2>1, Gotos DEF Units
<1>3. CASE s \in {3, 4}
  <2>1. v \in {1, 5} \cup 10..19 /\ At(yyr1, At(yydefact, s)) = 30
    BY <1>3 DEF Follows, At, yydefact, yyr1
  <2>2. Goto(30, v) \in {7, 9} \cup 20..29
    BY <2>1, Gotos
  <2> QED
    BY <1>3, <2>1, <2>2 DEF Units
<1>4. CASE s = 7
  <2>1. v = 1 /\ At(yyr1, At(yydefact, s)) = 29
    BY <1>4 DEF Follows, At, yydefact, yyr1
  <2> QED
    BY <1>4, <2>1, Gotos DEF Units
<1> QED
  BY <1>1, <1>2, <1>3, <1>4

\* The end of the file is not shifted but accepted: the one entry for it is
\* that of state 2 (y.tab.c:1433-1445).
LEMMA ShiftsTokens ==
  ASSUME IInv, Shift
  PROVE  yychar \in Tokens
<1>1. /\ pc = "yybackup" /\ Decided /\ HasEntry /\ At(yytable, Index) # 8
      /\ yystate \in 0..29 /\ yychar \in Tokens \cup {-2, 0}
  BY DEF Shift, IInv, Types, YYFINAL, YYEMPTY, YYEOF
<1>2. yychar # -2
  BY <1>1 DEF Decided, HasEntry, YYEMPTY
<1>3. ASSUME yychar = 0 PROVE FALSE
  <2>1. Translate(0) = 0
    <3>1. At(yytoknum, 0) = 0
      BY DEF At, yytoknum
    <3> QED
      BY <3>1, TranslateIs
  <2>2. Index = At(yypact, yystate) + 0
    BY <1>3, <2>1 DEF Index
  <2>3. Index \in 0..35 /\ At(yycheck, Index) = 0
    BY <1>1, <1>3, <2>1 DEF HasEntry, YYLAST
  <2>4. Index = 3
    BY <2>3 DEF At, yycheck
  <2> QED
    BY <1>1, <2>4 DEF At, yytable
<1> QED
  BY <1>1, <1>2, <1>3

\* A reduction takes states off the stack or, by a rule of length 1, goes to
\* one with fewer such rules ahead (y.tab.c:1468-1623).
LEMMA ReduceShrinks ==
  ASSUME IInv, Reduce
  PROVE  /\ Len(yyss) \in Nat /\ Len(yyss') \in Nat
         /\ \/ Len(yyss') + 1 = Len(yyss) /\ Units(yystate') < Units(yystate)
            \/ Len(yyss') + 1 < Len(yyss)
<1> DEFINE yylen == At(yyr2, yyn)
           m == Len(yyss) - yylen
<1>1. /\ pc = "yyreduce" /\ yyss' = SubSeq(yyss, 1, m)
      /\ yystate' = Goto(At(yyr1, yyn), Last(yyss'))
  BY DEF Reduce
<1>2. /\ Path(yyss) /\ yystate = Last(yyss) /\ yystate \in 0..29
      /\ yyn = At(yydefact, yystate) /\ yyn # 0 /\ Len(yyss) \in Nat
  BY <1>1, LenProperties DEF IInv, Types, Stacks
<1>3. yylen \in 1..3 /\ yylen < Len(yyss)
  BY <1>2, Reducible
<1> HIDE DEF yylen
<1>4. m \in 1..Len(yyss) /\ m = Len(yyss) - yylen
  BY <1>2, <1>3
<1> HIDE DEF m
<1>5. Len(yyss') = m /\ Last(yyss') = yyss[m]
  BY <1>1, <1>2, <1>4, PopPath
<1>6. ASSUME yylen = 1 PROVE Units(yystate') < Units(yystate)
  <2>1. m + 1 = Len(yyss) /\ m \in 1..(Len(yyss) - 1)
    BY <1>2, <1>4, <1>6
  <2>2. yyss[m + 1] \in Follows(yyss[m]) /\ yyss[m] \in 0..29
    BY <1>2, <1>4, <2>1, ElementOfSeq DEF Path
  <2>3. yystate \in Follows(yyss[m])
    BY <1>2, <2>1, <2>2 DEF Last
  <2> QED
    BY <1>1, <1>2, <1>5, <1>6, <2>2, <2>3, UnitsFall DEF yylen
<1> QED
  BY <1>2, <1>3, <1>4, <1>5, <1>6

\* The bound of the input is kept.
LEMMA NextBounded == IInv /\ Bounded /\ [Next]_vars => Bounded'
<1> SUFFICES ASSUME IInv, Bounded, [Next]_vars PROVE Bounded'
  OBVIOUS
<1>1. CASE ReadToken
  <2>1. CASE UNCHANGED input
    BY <2>1 DEF Bounded
  <2>2. ASSUME NEW c \in Tokens, input' = Append(input, c), Len(input) < MaxTokens
        PROVE  Bounded'
    <3>1. input \in Seq(Tokens) /\ Len(input) \in Nat /\ MaxTokens \in Nat
      BY LenProperties, ParserAssumption DEF IInv, Types
    <3>2. Len(input') = Len(input) + 1
      BY <2>2, <3>1, AppendProperties
    <3> QED
      BY <2>2, <3>1, <3>2 DEF Bounded
  <2> QED
    BY <1>1, <2>1, <2>2 DEF ReadToken
<1>2. CASE ~ReadToken
  BY <1>2 DEF Next, Step, Stopped, vars, SetState, Shift, Accept, Default, Reduce,
              ErrLab, ErrPop, ErrAbort, Return, Bounded
<1> QED
  BY <1>1, <1>2

\* Every step but the stop comes nearer to the return (y.tab.c:1262-1811).
LEMMA StepShrinks ==
  ASSUME IInv, Bounded, Step
  PROVE  StepsLeft' < StepsLeft
<1>0. IInv' /\ Bounded'
  BY NextIInv, NextBounded DEF Next
<1>t. /\ Len(input) \in Nat /\ Len(yyss) \in Nat /\ MaxTokens \in Nat
      /\ Counts /\ Counts'
  <2>1. Len(input) \in Nat /\ Len(yyss) \in Nat /\ MaxTokens \in Nat
    BY LenProperties, ParserAssumption DEF IInv, Types
  <2>2. Counts
    BY CountsHold
  <2>3. Counts'
    BY <1>0, CountsHold, PTL
  <2> QED
    BY <2>1, <2>2, <2>3
<1>e. -2 \notin Tokens /\ 0 \notin Tokens
  BY ParserAssumption
\* The parse ends with the step: what was left was more than 1.
<1>1. ASSUME pc \notin {"yyreturn", "done"}, pc' = "yyreturn" PROVE StepsLeft' < StepsLeft
  <2> PICK t \in Nat, h \in Nat, u \in 0..2, p \in 0..3 :
        t = ToShift /\ h = Height /\ u = Units(yystate) /\ p = Phase
    BY <1>t DEF Counts
  <2>1. StepsLeft' = 1
    BY <1>1 DEF StepsLeft
  <2>2. \/ StepsLeft = 2 + 18 * t + 9 * h + 3 * u + p + 1
        \/ StepsLeft = 2 + 18 * t + 9 * h + 3 * u + p + 0
    BY <1>1 DEF StepsLeft
  <2> QED
    BY <2>1, <2>2
<1>e1. PICK e \in 0..1 : e = (IF yychar = YYEMPTY THEN 1 ELSE 0)
  OBVIOUS
<1>f1. PICK f \in 0..1 : f = (IF yychar' = YYEMPTY THEN 1 ELSE 0)
  OBVIOUS
<1>3. CASE SetState
  <2>1. CASE pc' = "yyreturn"
    BY <1>1, <1>3, <2>1 DEF SetState
  <2>2. CASE pc' # "yyreturn"
    <3>1. pc = "yysetstate" /\ pc' = "yybackup" /\ UNCHANGED <<input, yychar, yystate>>
      BY <1>3, <2>2 DEF SetState
    <3>2. Len(yyss') = Len(yyss) + 1
      BY <1>3, AppendProperties DEF SetState, IInv, Types
    <3>3. ToShift' = ToShift /\ Height' = Height /\ Units(yystate)' = Units(yystate)
      BY <1>t, <3>1, <3>2 DEF ToShift, Height
    <3>4. Phase = 3 /\ Phase' = 2 /\ f = e
      BY <3>1, <1>e1, <1>f1 DEF Phase
    <3> QED
      BY <1>t, <1>e1, <1>f1, <3>1, <3>2, <3>3, <3>4, LeftFalls
  <2> QED
    BY <2>1, <2>2
<1>4. CASE ReadToken
  <2>1. /\ pc = "yybackup" /\ pc' = "yybackup" /\ yychar = -2
        /\ UNCHANGED <<yyss, yystate>>
    BY <1>4 DEF ReadToken, YYEMPTY
  <2>2. ToShift' = ToShift /\ yychar' # -2
    <3>1. CASE yychar' = 0 /\ input' = input
      BY <2>1, <3>1, <1>e DEF ToShift
    <3>2. CASE yychar' \in Tokens /\ Len(input') = Len(input) + 1
      BY <1>t, <2>1, <3>2, <1>e DEF ToShift
    <3>3. \/ yychar' = 0 /\ input' = input
          \/ yychar' \in Tokens /\ Len(input') = Len(input) + 1
      BY <1>4, AppendProperties DEF ReadToken, YYEOF, IInv, Types
    <3> QED
      BY <3>1, <3>2, <3>3
  <2>3. Height' = Height /\ Units(yystate)' = Units(yystate)
    BY <2>1 DEF Height
  <2>4. Phase = 2 /\ Phase' = 2 /\ e = 1 /\ f = 0
    BY <2>1, <2>2, <1>e1, <1>f1 DEF Phase, YYEMPTY
  <2> QED
    BY <1>t, <1>e1, <1>f1, <2>1, <2>2, <2>3, <2>4, LeftFalls
<1>5. CASE Shift
  <2>1. /\ pc = "yybackup" /\ pc' = "yysetstate" /\ yychar \in Tokens /\ yychar' = -2
        /\ UNCHANGED <<input, yyss>>
    BY <1>5, <1>e, ShiftsTokens DEF Shift, YYEOF, YYEMPTY
  <2>2. ToShift' = ToShift - 1 /\ Height' = Height + 1
    BY <1>t, <1>e, <2>1 DEF ToShift, Height
  <2>3. Phase = 2 /\ Phase' = 3 /\ e = 0 /\ f = 1
    BY <2>1, <1>e, <1>e1, <1>f1 DEF Phase, YYEMPTY
  <2> QED
    BY <1>t, <1>e1, <1>f1, <2>1, <2>2, <2>3, LeftFalls
<1>6. CASE Accept \/ ErrAbort
  BY <1>1, <1>6 DEF Accept, ErrAbort
<1>7. CASE Default
  <2>1. /\ pc = "yybackup" /\ pc' \in {"yyreduce", "yyerrlab"}
        /\ UNCHANGED <<input, yychar, yystate, yyss>>
    BY <1>7 DEF Default
  <2>2. ToShift' = ToShift /\ Height' = Height /\ Units(yystate)' = Units(yystate)
    BY <2>1 DEF ToShift, Height
  <2>3. Phase = 2 /\ Phase' = 1 /\ f = e
    BY <2>1, <1>e1, <1>f1 DEF Phase
  <2> QED
    BY <1>t, <1>e1, <1>f1, <2>1, <2>2, <2>3, LeftFalls
<1>8. CASE Reduce
  <2>1. /\ pc = "yyreduce" /\ pc' = "yysetstate" /\ UNCHANGED <<input, yychar>>
    BY <1>8 DEF Reduce
  <2>2. \/ Height' = Height /\ Units(yystate)' < Units(yystate)
        \/ Height' < Height
    BY <1>8, <2>1, ReduceShrinks DEF Height
  <2>3. ToShift' = ToShift
    BY <2>1 DEF ToShift
  <2>4. Phase = 1 /\ Phase' = 3 /\ f = e
    BY <2>1, <1>e1, <1>f1 DEF Phase
  <2> QED
    BY <1>t, <1>e1, <1>f1, <2>1, <2>2, <2>3, <2>4, LeftFalls
<1>9. CASE ErrLab
  <2>1. /\ pc = "yyerrlab" /\ pc' = "yyerrlab1"
        /\ UNCHANGED <<input, yychar, yystate, yyss>>
    BY <1>9 DEF ErrLab, IInv, Reports
  <2>2. ToShift' = ToShift /\ Height' = Height /\ Units(yystate)' = Units(yystate)
    BY <2>1 DEF ToShift, Height
  <2>3. Phase = 1 /\ Phase' = 0 /\ f = e
    BY <2>1, <1>e1, <1>f1 DEF Phase
  <2> QED
    BY <1>t, <1>e1, <1>f1, <2>1, <2>2, <2>3, LeftFalls
<1>10. CASE ErrPop
  <2>1. /\ pc = "yyerrlab1" /\ pc' = "yyerrlab1" /\ UNCHANGED <<input, yychar>>
        /\ Len(yyss) > 1 /\ yyss' = SubSeq(yyss, 1, Len(yyss) - 1)
    BY <1>10 DEF ErrPop, Front
  <2>2. Path(yyss)
    BY <2>1 DEF IInv, Stacks
  <2>3. Len(yyss') = Len(yyss) - 1
    BY <1>t, <2>1, <2>2, PopPath
  <2>4. ToShift' = ToShift /\ Height' < Height
    BY <1>t, <2>1, <2>3 DEF ToShift, Height
  <2>5. Phase = 0 /\ Phase' = 0 /\ f = e
    BY <2>1, <1>e1, <1>f1 DEF Phase
  <2> QED
    BY <1>t, <1>e1, <1>f1, <2>1, <2>2, <2>3, <2>4, <2>5, LeftFalls
<1>11. CASE Return
  BY <1>11 DEF Return, StepsLeft
<1> QED
  BY <1>3, <1>4, <1>5, <1>6, <1>7, <1>8, <1>9, <1>10, <1>11 DEF Step

\* What stands behind ParseReturns: every step of yyparse but the stop makes
\* StepsLeft smaller, a natural number that is 18 times the length of the longest
\* input and 15 at first: no input makes yyparse loop, whatever it is, and
\* neither its default reductions nor its error recovery go on without end
\* (y.tab.c:1320-1811).
THEOREM ParseShrinks ==
  Spec => /\ StepsLeft = 18 * MaxTokens + 15
          /\ [](StepsLeft \in Nat)
          /\ [][StepsLeft' < StepsLeft]_vars
<1>1. Init => StepsLeft = 18 * MaxTokens + 15
  <2> SUFFICES ASSUME Init PROVE StepsLeft = 18 * MaxTokens + 15
    OBVIOUS
  <2>1. YYEMPTY \notin Tokens /\ MaxTokens \in Nat
    BY ParserAssumption DEF YYEMPTY
  <2>2. ToShift = MaxTokens /\ Height = 1 /\ Units(yystate) = 0 /\ Phase = 3
    BY <2>1 DEF Init, ToShift, Height, Units, Phase
  <2> HIDE DEF ToShift, Height, Units, Phase
  <2>3. StepsLeft = 2 + 18 * ToShift + 9 * Height + 3 * Units(yystate) + Phase + 1
    BY DEF Init, StepsLeft
  <2> QED
    BY <2>1, <2>2, <2>3
<1>2. Init => Bounded
  BY ParserAssumption DEF Init, Bounded
<1>3. Spec => []Bounded
  BY ParserIntact, <1>2, NextBounded, PTL DEF Spec
<1>4. IInv /\ Bounded => StepsLeft \in Nat
  BY CountsHold DEF Counts
<1>5. IInv /\ Bounded /\ [Next]_vars => [StepsLeft' < StepsLeft]_vars
  BY StepShrinks DEF Next, Stopped
<1> QED
  BY ParserIntact, <1>1, <1>3, <1>4, <1>5, PTL DEF Spec
=============================================================================
