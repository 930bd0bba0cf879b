------------------------------- MODULE Parser -------------------------------
(***************************************************************************)
(* yyparse of y.tab.c with the tables bison generated: the LALR automaton  *)
(* that drives the semantic actions of test.y, its two stacks and how they *)
(* grow, and its error recovery.  The names are the code's; a step is what *)
(* the code does from one label to the next.                               *)
(***************************************************************************)
EXTENDS Integers, SequencesExt

CONSTANTS
  Tokens,      \* what yylex may return, 0 (end of file) excepted
  YYINITDEPTH, \* elements of the stacks the function begins with
  YYMAXDEPTH,  \* elements the stacks may grow to
  MaxTokens    \* bound: tokens the scanner delivers before the end of file

ASSUME ParserAssumption ==
  /\ Tokens \subseteq Nat \ {0}
  /\ YYINITDEPTH \in Nat \ {0}
  /\ YYMAXDEPTH \in Nat
  /\ MaxTokens \in Nat

-----------------------------------------------------------------------------
(* The tables, indexed from 0 as in C. *)

At(t, n) == t[n + 1]

YYFINAL == 8
YYLAST == 35
YYNTOKENS == 27
YYPACT_NINF == -5
YYTERROR == 1
YYUNDEFTOK == 2

yytoknum == <<0, 256, 257, 258, 259, 59, 260, 261, 40, 41, 262, 263, 264, 265,
              61, 123, 125, 43, 45, 42, 47, 60, 62, 266, 267, 268, 269>>
yyr1 == <<0, 27, 28, 28, 29, 29, 29, 29, 29, 29, 29, 29, 29, 29, 29, 29, 30, 30, 30>>
yyr2 == <<0, 2, 2, 1, 3, 3, 3, 3, 3, 3, 3, 3, 3, 3, 1, 0, 1, 1, 2>>
yydefact == <<0, 3, 0, 16, 17, 0, 2, 14, 1, 18, 0, 0, 0, 0, 0, 0, 0, 0, 0, 0,
              4, 5, 6, 7, 8, 9, 10, 11, 12, 13>>
yydefgoto == <<-1, 2, 6, 7>>
yypact == <<-4, -3, 3, -5, -5, -3, -5, 9, -5, -5,
            -3, -3, -3, -3, -3, -3, -3, -3, -3, -3,
            -5, -5, -5, -5, -5, -5, -5, -5, -5, -5>>
yypgoto == <<-5, -5, -5, 6>>
yytable == <<3, 4, 1, 8, 0, 0, 0, 0, 0, 0, 0, 9, 0, 0, 0, 5,
             20, 21, 22, 23, 24, 25, 26, 27, 28, 29,
             10, 11, 12, 13, 14, 15, 16, 17, 18, 19>>
yycheck == <<3, 4, 6, 0, -1, -1, -1, -1, -1, -1, -1, 5, -1, -1, -1, 18,
             10, 11, 12, 13, 14, 15, 16, 17, 18, 19,
             17, 18, 19, 20, 21, 22, 23, 24, 25, 26>>

\* The states yystos gives the symbols expression and term.
NodeStates == {6, 7, 9} \cup 20..29

\* YYTRANSLATE: the symbol number of a token, $undefined for any other code.
Translate(c) ==
  IF \E t \in 0..(YYNTOKENS - 1) : At(yytoknum, t) = c
  THEN CHOOSE t \in 0..(YYNTOKENS - 1) : At(yytoknum, t) = c
  ELSE YYUNDEFTOK

\* No entry the check table admits is 0, so the branch of yybackup for an
\* entry that is not a shift is never taken with these tables.
ASSUME EveryEntryShifts ==
  \A n \in 0..YYLAST : At(yycheck, n) >= 0 => At(yytable, n) > 0

-----------------------------------------------------------------------------

VARIABLES
  input,       \* the tokens yylex has returned
  yychar,      \* the lookahead, YYEMPTY or YYEOF
  yystate,     \* the current state
  yyn,         \* the rule to reduce with
  yyss,        \* the state stack
  yyvs,        \* the value stack: token positions and nodes
  yystacksize, \* elements allocated for each
  yyerrstatus, \* 3 from a syntax error until the error token is shifted
  reports,     \* calls of yyerror
  nodes,       \* the AST nodes the actions created
  labels,      \* the operator or the token of each node
  yyresult,    \* 0, 1 or 2 once the parse has ended
  pc           \* the label of yyparse that comes next

vars == <<input, yychar, yystate, yyn, yyss, yyvs, yystacksize, yyerrstatus,
          reports, nodes, labels, yyresult, pc>>
tree == <<nodes, labels>>

YYEMPTY == -2
YYEOF == 0
Garbage == -1   \* a stack element nothing was stored in

Init ==
  /\ input = <<>>
  /\ yychar = YYEMPTY
  /\ yystate = 0 /\ yyn = 0
  /\ yyss = <<>> /\ yyvs = <<Garbage>>
  /\ yystacksize = YYINITDEPTH
  /\ yyerrstatus = 0 /\ reports = 0
  /\ nodes = <<>> /\ labels = <<>>
  /\ yyresult = -1
  /\ pc = "yysetstate"

\* The states the elements of yyvs belong to, the one about to be pushed too.
Stack == IF pc = "yysetstate" THEN Append(yyss, yystate) ELSE yyss

Minimum(x, y) == IF x <= y THEN x ELSE y

\* Mutant: the stacks grow when the last element is already taken.
SetStateLate ==
  /\ pc = "yysetstate"
  /\ yyss' = Append(yyss, yystate)
  /\ IF Len(yyss') <= yystacksize
     THEN /\ pc' = "yybackup"
          /\ UNCHANGED <<yystacksize, yyresult>>
     ELSE IF YYMAXDEPTH <= yystacksize
     THEN /\ yyresult' = 2
          /\ pc' = "yyreturn"
          /\ UNCHANGED yystacksize
     ELSE /\ yystacksize' = Minimum(2 * yystacksize, YYMAXDEPTH)
          /\ pc' = "yybackup"
          /\ UNCHANGED yyresult
  /\ UNCHANGED <<input, yychar, yystate, yyn, yyvs, yyerrstatus, reports, tree>>

\* Push the state; when that was the last element, double the stacks, or
\* give up if they have their maximal size or there is no memory.  Stacks
\* that are full again after growing end the parse without a message.
SetState ==
  /\ pc = "yysetstate"
  /\ yyss' = Append(yyss, yystate)
  /\ \/ /\ Len(yyss') < yystacksize
        /\ pc' = "yybackup"
        /\ UNCHANGED <<yystacksize, yyresult>>
     \/ /\ Len(yyss') >= yystacksize
        /\ yyresult' = 2
        /\ pc' = "yyreturn"
        /\ UNCHANGED yystacksize
     \/ /\ Len(yyss') >= yystacksize
        /\ yystacksize < YYMAXDEPTH
        /\ yystacksize' = Minimum(2 * yystacksize, YYMAXDEPTH)
        /\ IF Len(yyss') < yystacksize'
           THEN pc' = "yybackup" /\ UNCHANGED yyresult
           ELSE pc' = "yyreturn" /\ yyresult' = 1
  /\ UNCHANGED <<input, yychar, yystate, yyn, yyvs, yyerrstatus, reports, tree>>

\* YYLEX, when the state needs a lookahead and there is none.
ReadToken ==
  /\ pc = "yybackup"
  /\ At(yypact, yystate) # YYPACT_NINF
  /\ yychar = YYEMPTY
  /\ \/ yychar' = YYEOF /\ UNCHANGED input
     \/ /\ Len(input) < MaxTokens
        /\ \E c \in Tokens : yychar' = c /\ input' = Append(input, c)
  /\ UNCHANGED <<yystate, yyn, yyss, yyvs, yystacksize, yyerrstatus, reports,
                 tree, yyresult, pc>>

\* The action table has an entry for the lookahead.
Index == At(yypact, yystate) + Translate(yychar)
HasEntry ==
  /\ At(yypact, yystate) # YYPACT_NINF
  /\ Index \in 0..YYLAST
  /\ At(yycheck, Index) = Translate(yychar)

\* The decision of yybackup can be taken.
Decided == At(yypact, yystate) = YYPACT_NINF \/ yychar # YYEMPTY

Shift ==
  /\ pc = "yybackup"
  /\ Decided /\ HasEntry
  /\ At(yytable, Index) # YYFINAL
  /\ yyerrstatus' = IF yyerrstatus = 0 THEN 0 ELSE yyerrstatus - 1
  /\ yychar' = IF yychar = YYEOF THEN YYEOF ELSE YYEMPTY
  /\ yystate' = At(yytable, Index)
  /\ yyvs' = Append(yyvs, Len(input))
  /\ pc' = "yysetstate"
  /\ UNCHANGED <<input, yyn, yyss, yystacksize, reports, tree, yyresult>>

Accept ==
  /\ pc = "yybackup"
  /\ Decided /\ HasEntry
  /\ At(yytable, Index) = YYFINAL
  /\ yyresult' = 0
  /\ pc' = "yyreturn"
  /\ UNCHANGED <<input, yychar, yystate, yyn, yyss, yyvs, yystacksize,
                 yyerrstatus, reports, tree>>

\* Mutant: the default action is to reduce also where there is none.
DefaultNeverFails ==
  /\ pc = "yybackup"
  /\ Decided /\ ~HasEntry
  /\ yyn' = At(yydefact, yystate)
  /\ pc' = IF yyn' = 0 THEN "yybackup" ELSE "yyreduce"
  /\ yychar' = IF yyn' = 0 THEN YYEMPTY ELSE yychar
  /\ UNCHANGED <<input, yystate, yyss, yyvs, yystacksize,
                 yyerrstatus, reports, tree, yyresult>>

\* yydefault
Default ==
  /\ pc = "yybackup"
  /\ Decided /\ ~HasEntry
  /\ yyn' = At(yydefact, yystate)
  /\ pc' = IF yyn' = 0 THEN "yyerrlab" ELSE "yyreduce"
  /\ UNCHANGED <<input, yychar, yystate, yyss, yyvs, yystacksize,
                 yyerrstatus, reports, tree, yyresult>>

-----------------------------------------------------------------------------
(* Reductions *)

\* Value n of the right-hand side of length yylen.
Rhs(n, yylen) == yyvs[Len(yyvs) - yylen + n]

Operator == <<"add", "sub", "mul", "divide", "lt", "gt", "le", "ge", "eq", "neq">>

Made(type, kids, label) ==
  /\ nodes' = Append(nodes, [type |-> type, kids |-> kids])
  /\ labels' = Append(labels, label)

\* Mutant: the operands of a binary expression are swapped.
ActionSwapsOperands(rule) ==
  \/ /\ rule \in 4..13
     /\ Made(IF rule <= 7 THEN "bexpr" ELSE "rexpr",
             <<Rhs(3, 3), Rhs(1, 3)>>, Operator[rule - 3])
  \/ /\ rule \in {16, 17}
     /\ Made(IF rule = 16 THEN "cnst" ELSE "var", <<>>, Rhs(1, 1))
  \/ /\ rule = 18
     /\ Made("uexpr", <<Rhs(2, 2)>>, "uminus")
  \/ /\ rule \in {2, 3, 14}
     /\ UNCHANGED tree

\* Mutant: a minus sign makes a subtraction of its operand from itself.
ActionSharesOperand(rule) ==
  \/ /\ rule \in 4..13
     /\ Made(IF rule <= 7 THEN "bexpr" ELSE "rexpr",
             <<Rhs(1, 3), Rhs(3, 3)>>, Operator[rule - 3])
  \/ /\ rule \in {16, 17}
     /\ Made(IF rule = 16 THEN "cnst" ELSE "var", <<>>, Rhs(1, 1))
  \/ /\ rule = 18
     /\ Made("bexpr", <<Rhs(2, 2), Rhs(2, 2)>>, "sub")
  \/ /\ rule \in {2, 3, 14}
     /\ UNCHANGED tree

\* The semantic actions of test.y.
Action(rule) ==
  \/ /\ rule \in 4..13
     /\ Made(IF rule <= 7 THEN "bexpr" ELSE "rexpr",
             <<Rhs(1, 3), Rhs(3, 3)>>, Operator[rule - 3])
  \/ /\ rule \in {16, 17}
     /\ Made(IF rule = 16 THEN "cnst" ELSE "var", <<>>, Rhs(1, 1))
  \/ /\ rule = 18
     /\ Made("uexpr", <<Rhs(2, 2)>>, "uminus")
  \/ /\ rule \in {2, 3, 14}
     /\ UNCHANGED tree

\* Mutant: the action for a minus sign does not assign $$.
YyValForgetsMinus(rule) ==
  IF rule \in {2, 3, 14, 18} THEN Rhs(1, At(yyr2, rule))
  ELSE IF rule = 15 THEN Garbage
  ELSE Len(nodes) + 1

\* yyval: the node the action creates, by default the first value of the
\* right-hand side.  For the empty right-hand side of rule 15 the default is
\* a stack element above the top; no state reduces with that rule.
YyVal(rule) ==
  IF rule \in {2, 3, 14} THEN Rhs(1, At(yyr2, rule))
  ELSE IF rule = 15 THEN Garbage
  ELSE Len(nodes) + 1

\* The state to go to with left-hand side lhs from the state uncovered.
Goto(lhs, state) ==
  LET n == At(yypgoto, lhs - YYNTOKENS) + state
  IN  IF n \in 0..YYLAST /\ At(yycheck, n) = state
      THEN At(yytable, n)
      ELSE At(yydefgoto, lhs - YYNTOKENS)

Reduce ==
  /\ pc = "yyreduce"
  /\ LET yylen == At(yyr2, yyn)
         below == SubSeq(yyss, 1, Len(yyss) - yylen)
     IN  /\ yyss' = below
         /\ yyvs' = Append(SubSeq(yyvs, 1, Len(yyvs) - yylen), YyVal(yyn))
         /\ yystate' = Goto(At(yyr1, yyn), Last(below))
  /\ Action(yyn)
  /\ pc' = "yysetstate"
  /\ UNCHANGED <<input, yychar, yyn, yystacksize, yyerrstatus, reports, yyresult>>

-----------------------------------------------------------------------------
(* Error recovery *)

\* Mutant: the message is for errors met while recovering.
ErrLabRecovering ==
  /\ pc = "yyerrlab"
  /\ reports' = IF yyerrstatus # 0 THEN reports + 1 ELSE reports
  /\ yychar' = IF yyerrstatus = 3 /\ yychar # YYEOF THEN YYEMPTY ELSE yychar
  /\ IF yyerrstatus = 3 /\ yychar = YYEOF
     THEN pc' = "yyreturn" /\ yyresult' = 1 /\ UNCHANGED yyerrstatus
     ELSE pc' = "yyerrlab1" /\ yyerrstatus' = 3 /\ UNCHANGED yyresult
  /\ UNCHANGED <<input, yystate, yyn, yyss, yyvs, yystacksize, tree>>

\* Report, unless recovering; a lookahead that failed twice is discarded.
ErrLab ==
  /\ pc = "yyerrlab"
  /\ reports' = IF yyerrstatus = 0 THEN reports + 1 ELSE reports
  /\ yychar' = IF yyerrstatus = 3 /\ yychar # YYEOF THEN YYEMPTY ELSE yychar
  /\ IF yyerrstatus = 3 /\ yychar = YYEOF
     THEN pc' = "yyreturn" /\ yyresult' = 1 /\ UNCHANGED yyerrstatus
     ELSE pc' = "yyerrlab1" /\ yyerrstatus' = 3 /\ UNCHANGED yyresult
  /\ UNCHANGED <<input, yystate, yyn, yyss, yyvs, yystacksize, tree>>

\* The state can shift the error token.
ShiftsError ==
  LET n == At(yypact, yystate) + YYTERROR
  IN  /\ At(yypact, yystate) # YYPACT_NINF
      /\ n \in 0..YYLAST
      /\ At(yycheck, n) = YYTERROR

\* Mutant: the stack pointer is not moved.
ErrPopStays ==
  /\ pc = "yyerrlab1"
  /\ ~ShiftsError
  /\ Len(yyss) > 1
  /\ UNCHANGED vars

\* Pop states until one can; no rule of test.y has an error token, so the
\* loop ends at the bottom of the stack.
ErrPop ==
  /\ pc = "yyerrlab1"
  /\ ~ShiftsError
  /\ Len(yyss) > 1
  /\ yyss' = Front(yyss)
  /\ yyvs' = Front(yyvs)
  /\ yystate' = Last(Front(yyss))
  /\ UNCHANGED <<input, yychar, yyn, yystacksize, yyerrstatus, reports, tree,
                 yyresult, pc>>

ErrAbort ==
  /\ pc = "yyerrlab1"
  /\ ~ShiftsError
  /\ Len(yyss) = 1
  /\ yyresult' = 1
  /\ pc' = "yyreturn"
  /\ UNCHANGED <<input, yychar, yystate, yyn, yyss, yyvs, yystacksize,
                 yyerrstatus, reports, tree>>

\* Memory exhaustion is reported, and what is left on the stacks is dropped;
\* yydestruct frees nothing, %destructor is not used.
Return ==
  /\ pc = "yyreturn"
  /\ reports' = IF yyresult = 2 THEN reports + 1 ELSE reports
  /\ yyss' = SubSeq(yyss, 1, 1)
  /\ yyvs' = SubSeq(yyvs, 1, 1)
  /\ pc' = "done"
  /\ UNCHANGED <<input, yychar, yystate, yyn, yystacksize, yyerrstatus, tree,
                 yyresult>>

Stopped == pc = "done" /\ UNCHANGED vars

Step ==
  \/ SetState \/ ReadToken \/ Shift \/ Accept \/ Default \/ Reduce
  \/ ErrLab \/ ErrPop \/ ErrAbort \/ Return

Next == Step \/ Stopped

\* yyparse runs until it returns, and yylex always answers.
Spec == Init /\ [][Next]_vars /\ WF_vars(Step)

-----------------------------------------------------------------------------

Terminal(name) == At(yytoknum, name)
NUMBER == 258
NAME == 259
RETURN == 260
MINUS == 45
Operators == {43, 45, 42, 47, 60, 62, 266, 267, 268, 269}

\* Every variable has its type, and the two stacks are level.
TypeOK ==
  /\ input \in Seq(Tokens)
  /\ yychar \in Tokens \cup {YYEMPTY, YYEOF}
  /\ yystate \in 0..29 /\ yyn \in 0..18
  /\ yyss \in Seq(0..29)
  /\ yyvs \in Seq(Int)
  /\ pc \notin {"yysetstate", "yyreturn", "done"} =>
       Len(yyvs) = Len(yyss) /\ yystate = Last(yyss)
  /\ pc = "yysetstate" => Len(yyvs) = Len(yyss) + 1
  /\ yyerrstatus \in 0..3 /\ reports \in 0..1
  /\ Len(labels) = Len(nodes)
  /\ yyresult \in -1..2

\* term: any number of minus signs before a number or a name.
IsTerm(s) ==
  /\ s # <<>>
  /\ Last(s) \in {NUMBER, NAME}
  /\ \A j \in 1..(Len(s) - 1) : s[j] = MINUS

AllMinus(s) == \A j \in DOMAIN s : s[j] = MINUS

IsExpression(s) ==
  \/ IsTerm(s)
  \/ \E j \in DOMAIN s : /\ s[j] \in Operators
                         /\ IsTerm(SubSeq(s, 1, j - 1))
                         /\ IsTerm(SubSeq(s, j + 1, Len(s)))

\* The sentences of return_stmt, the start symbol of y.tab.c.
IsSentence(s) ==
  s # <<>> /\ Head(s) = RETURN /\ (Tail(s) = <<>> \/ IsExpression(Tail(s)))

\* What some sentence begins with.
IsPrefixOfSentence(s) ==
  \/ s = <<>>
  \/ IsSentence(s)
  \/ /\ Head(s) = RETURN
     /\ \/ AllMinus(Tail(s))
        \/ \E j \in DOMAIN Tail(s) :
             /\ Tail(s)[j] \in Operators
             /\ IsTerm(SubSeq(Tail(s), 1, j - 1))
             /\ AllMinus(SubSeq(Tail(s), j + 1, Len(Tail(s))))

\* What is accepted is a sentence of the grammar, all of it read; what is
\* rejected is not the beginning of one, or ends where none does
\* (y.tab.c:1403-1759, the tables 525-679).
DecidesLanguage ==
  /\ yyresult = 0 => yychar = YYEOF /\ IsSentence(input)
  /\ pc \in {"yyreturn", "done"} /\ yyresult = 1 =>
       IF yychar = YYEOF THEN ~IsSentence(input)
       ELSE ~IsPrefixOfSentence(input)

\* The scanner is never asked for a token after one that no sentence can
\* have there: the error is found at the first wrong token, also where
\* default reductions come first (y.tab.c:1408-1420).
ErrorFoundAtOnce ==
  IsPrefixOfSentence(IF yychar \in Tokens THEN Front(input) ELSE input)

\* No element beyond those allocated is written: the push that fills the
\* stacks makes room for the next one or ends the parse, whatever the two
\* depths are (y.tab.c:1323-1398).
StackInBounds ==
  /\ Len(yyss) <= yystacksize /\ Len(yyvs) <= yystacksize
  /\ pc = "yybackup" => Len(yyss) < yystacksize
  /\ yystacksize <= Max({YYINITDEPTH, YYMAXDEPTH})

\* The tokens a node stands for, by the comments of ast.h:37-53.
TokenOf ==
  [add |-> 43, sub |-> 45, mul |-> 42, divide |-> 47, lt |-> 60, gt |-> 62,
   le |-> 266, ge |-> 267, eq |-> 268, neq |-> 269]
Yield ==
  LET yield[n \in DOMAIN nodes] ==
        LET kids == nodes[n].kids
        IN  CASE nodes[n].type \in {"cnst", "var"} -> <<input[labels[n]]>>
              [] nodes[n].type = "uexpr" -> <<MINUS>> \o yield[kids[1]]
              [] OTHER -> yield[kids[1]] \o <<TokenOf[labels[n]]>> \o yield[kids[2]]
  IN  yield

\* When a sentence is accepted the last node created is the root of a tree
\* that reads back as the tokens after "return", operators and operands in
\* order, and every node is part of it (test.y actions, y.tab.c:1493-1609).
TreeReadsBack ==
  yyresult = 0 /\ Len(input) > 1 =>
    /\ Yield[Len(nodes)] = Tail(input)
    /\ \A n \in 1..(Len(nodes) - 1) :
         \E p \in DOMAIN nodes : \E j \in DOMAIN nodes[p].kids : nodes[p].kids[j] = n

\* Who could free node n: the node it is a child of, or an element of yyvs.
Owners(n) ==
  {slot \in (DOMAIN nodes) \X {1, 2} :
     slot[2] \in DOMAIN nodes[slot[1]].kids /\ nodes[slot[1]].kids[slot[2]] = n}
  \cup {<<0, i>> : i \in {k \in DOMAIN Stack : Stack[k] \in NodeStates /\ yyvs[k] = n}}

\* Nothing was popped for an error or for the return.
Uncut == pc \in {"yysetstate", "yybackup", "yyreduce", "yyerrlab"}
         \/ (pc = "yyreturn" /\ yyresult \in {0, 2})

\* What yydestruct is handed, and with no %destructor leaks, is all there is: up
\* to the first pop of a parse that fails, on an error or on stacks that cannot
\* grow, every node made has one owner, and no operand is shared, forgotten by an
\* action or left on the stack as well.  Once the statement is complete its rule,
\* which has no action, has dropped the root (y.tab.c:1478-1623, 1743, 1800).
NodesOwnedOnce ==
  Uncut => \A n \in DOMAIN nodes :
    Cardinality(Owners(n)) = IF Last(Stack) = 2 /\ n = Len(nodes) THEN 0 ELSE 1

\* A parse that fails calls yyerror, and calls it once: after a syntax error
\* the recovery is silent, and stacks that have grown are never still full,
\* the one way to return 1 without a message (y.tab.c:1392, 1629-1784).
FailureReported == pc = "done" => (reports = 1 <=> yyresult # 0)

\* yyparse returns (y.tab.c:1811).
ParseReturns == <>(pc = "done")

\* The actions call the create functions as Ast expects its callers to: the
\* operands are nodes, of the types the struct is for, and no node gets two
\* parents (y.tab.c:1497-1594).
Trees == INSTANCE Ast WITH
  Types <- {"var", "cnst", "rexpr", "bexpr", "uexpr"},
  MaxNodes <- 2 * MaxTokens,
  MaxList <- 0,
  live <- DOMAIN nodes,
  names <- {n \in DOMAIN nodes : nodes[n].type = "var"},
  lists <- {}, call <- "none", stack <- <<>>, printed <- <<>>, indents <- 0
BuildsTrees == Trees!Init /\ [][Trees!Next]_(Trees!vars)
=============================================================================
