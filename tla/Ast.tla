-------------------------------- MODULE Ast --------------------------------
(***************************************************************************)
(* The life of AST nodes (ast.h, ast.c): the create functions allocate     *)
(* them, freeNode and the free functions it calls release a tree, and      *)
(* printNode walks one.  A node is a number, in order of allocation; the   *)
(* block of its name and of its statement list are allocations of their    *)
(* own.  The callers build what the header's comments describe, and hand   *)
(* a node to one parent only, as the actions of a parser do.               *)
(***************************************************************************)
EXTENDS Integers, SequencesExt

CONSTANTS
  Types,     \* the node and statement types the callers create
  MaxNodes,  \* bound: nodes created
  MaxList    \* bound: statements in a block

Exprs == {"var", "cnst", "rexpr", "bexpr", "uexpr"}
Stmts == {"call", "ret", "block", "while", "if", "asgn", "decl"}

ASSUME AstAssumption ==
  /\ Types \subseteq Exprs \cup Stmts \cup {"prog", "func", "extern"}
  /\ MaxNodes \in Nat /\ MaxList \in Nat

VARIABLES
  nodes,    \* type and children of every node created
  live,     \* nodes whose memory is allocated
  names,    \* nodes whose name is allocated
  lists,    \* blocks whose statement vector is allocated
  call,     \* "none", or the traversal that runs: "free" or "print"
  stack,    \* its active calls, innermost last: node, next child
  printed,  \* the nodes the last call of printNode has shown
  indents   \* indent strings allocated

vars == <<nodes, live, names, lists, call, stack, printed, indents>>
heap == <<nodes, live, names, lists>>

Nil == 0
Ids == 1..Len(nodes)
TypeOf(n) == IF n = Nil THEN "null" ELSE nodes[n].type

\* What the fields of a node may point to, in the order of the struct;
\* the header says which may be NULL.
Fields ==
  [prog  |-> <<{"extern"}, {"extern"}, {"func"}>>,
   func  |-> <<{"var", "null"}, {"block"}>>,
   extern |-> <<>>, var |-> <<>>, cnst |-> <<>>, decl |-> <<>>,
   rexpr |-> <<Exprs, Exprs>>,
   bexpr |-> <<Exprs, Exprs>>,
   uexpr |-> <<Exprs>>,
   call  |-> <<Exprs \cup {"null"}>>,
   ret   |-> <<Exprs>>,
   while |-> <<Exprs, Stmts>>,
   if    |-> <<Exprs, Stmts, Stmts \cup {"null"}>>,
   asgn  |-> <<{"var"}, Exprs>>]

Named == {"func", "extern", "var", "call", "decl"}

Roots == {n \in live : \A p \in live : \A j \in DOMAIN nodes[p].kids :
                         nodes[p].kids[j] # n}

\* Children a caller can give a new node of type t.
Children(t) ==
  LET free == Roots \cup {Nil}
      lengths == IF t = "block" THEN 0..MaxList ELSE {Len(Fields[t])}
      fits(s, j) == TypeOf(s[j]) \in (IF t = "block" THEN Stmts ELSE Fields[t][j])
  IN  {s \in UNION {[1..m -> free] : m \in lengths} :
         /\ \A j \in DOMAIN s : fits(s, j)
         /\ \A j, l \in DOMAIN s : s[j] = s[l] /\ s[j] # Nil => j = l}

Init ==
  /\ nodes = <<>>
  /\ live = {} /\ names = {} /\ lists = {}
  /\ call = "none"
  /\ stack = <<>>
  /\ printed = <<>>
  /\ indents = 0

\* createProg, createFunc, ..., createAsgn
Create(t) ==
  /\ call = "none"
  /\ Len(nodes) < MaxNodes
  /\ \E kids \in Children(t) :
       nodes' = Append(nodes, [type |-> t, kids |-> kids])
  /\ LET new == Len(nodes) + 1
     IN  /\ live' = live \cup {new}
         /\ names' = IF t \in Named THEN names \cup {new} ELSE names
         /\ lists' = IF t = "block" THEN lists \cup {new} ELSE lists
  /\ printed' = <<>>
  /\ UNCHANGED <<call, stack, indents>>

-----------------------------------------------------------------------------

Top == Last(stack)
Child == nodes[Top.node].kids[Top.child]
Done == Top.child > Len(nodes[Top.node].kids)
Enter(n) == [node |-> n, child |-> 1]
Advanced == [stack EXCEPT ![Len(stack)].child = @ + 1]

\* Mutant: freeAsgn calls freeVar on both its sides.
CalleeAsgnVars(t, j) ==
  IF t = "asgn" THEN {"var"}
  ELSE Exprs \cup Stmts \cup {"prog", "func", "extern"}

\* The type the function called on a child asserts; freeNode takes any.
Callee(t, j) ==
  CASE t = "prog" -> <<{"extern"}, {"extern"}, {"func"}>>[j]
    [] t = "func" -> <<{"var"}, {"block"}>>[j]
    [] t = "asgn" -> <<{"var"}, Exprs \cup Stmts \cup {"prog", "func", "extern"}>>[j]
    [] OTHER      -> Exprs \cup Stmts \cup {"prog", "func", "extern"}

\* The children whose pointer is tested before the call.
MayBeNull(t, j) == <<t, j>> \in {<<"func", 1>>, <<"call", 1>>, <<"if", 3>>}

FreeCall(n) ==
  /\ call = "none"
  /\ n \in Roots
  /\ call' = "free"
  /\ stack' = <<Enter(n)>>
  /\ names' = names \ {n}
  /\ printed' = <<>>
  /\ UNCHANGED <<nodes, live, lists, indents>>

\* The next child is NULL, and tested.
SkipChild ==
  /\ call \in {"free", "print"}
  /\ ~Done
  /\ Child = Nil
  /\ MayBeNull(TypeOf(Top.node), Top.child)
  /\ stack' = Advanced
  /\ UNCHANGED <<heap, call, printed, indents>>

\* The free function called on the next child passes its assert; the name
\* of the child, if it has one, is freed first.
FreeChild ==
  /\ call = "free"
  /\ ~Done
  /\ TypeOf(Child) \in Callee(TypeOf(Top.node), Top.child)
  /\ stack' = Append(Advanced, Enter(Child))
  /\ names' = names \ {Child}
  /\ UNCHANGED <<nodes, live, lists, call, printed, indents>>

\* Mutant: freeBlock does not delete the statement vector.
FreeReturnKeepsList ==
  /\ call = "free"
  /\ Done
  /\ live' = live \ {Top.node}
  /\ stack' = Front(stack)
  /\ call' = IF Len(stack) = 1 THEN "none" ELSE "free"
  /\ UNCHANGED <<nodes, names, lists, printed, indents>>

\* Mutant: the node is freed before the loop over its children ends.
FreeReturnEarly ==
  /\ call = "free"
  /\ Top.child >= Len(nodes[Top.node].kids)
  /\ live' = live \ {Top.node}
  /\ lists' = lists \ {Top.node}
  /\ IF Done
     THEN stack' = Front(stack)
     ELSE stack' = stack
  /\ call' = IF Done /\ Len(stack) = 1 THEN "none" ELSE "free"
  /\ UNCHANGED <<nodes, names, printed, indents>>

\* All children are freed: the vector of a block and the node itself.
FreeReturn ==
  /\ call = "free"
  /\ Done
  /\ live' = live \ {Top.node}
  /\ lists' = lists \ {Top.node}
  /\ stack' = Front(stack)
  /\ call' = IF Len(stack) = 1 THEN "none" ELSE "free"
  /\ UNCHANGED <<nodes, names, printed, indents>>

-----------------------------------------------------------------------------

\* printNode allocates one indent string, and printStmt a second one.
Indents(n) == IF TypeOf(n) \in Stmts THEN 2 ELSE 1

\* printNode goes straight to the function of a program.
EnterPrint(n) == [node |-> n, child |-> IF TypeOf(n) = "prog" THEN 3 ELSE 1]

PrintCall(n) ==
  /\ call = "none"
  /\ n \in Roots
  /\ call' = "print"
  /\ stack' = <<EnterPrint(n)>>
  /\ printed' = <<n>>
  /\ indents' = Indents(n)
  /\ UNCHANGED heap

\* Mutant: the else branch of an if is never visited.
PrintChildNoElse ==
  /\ call = "print"
  /\ ~Done
  /\ Child # Nil
  /\ IF TypeOf(Top.node) = "if" /\ Top.child = 3
     THEN stack' = Advanced /\ UNCHANGED <<printed, indents>>
     ELSE /\ stack' = Append(Advanced, EnterPrint(Child))
          /\ printed' = Append(printed, Child)
          /\ indents' = indents + Indents(Child)
  /\ UNCHANGED <<heap, call>>

PrintChild ==
  /\ call = "print"
  /\ ~Done
  /\ Child # Nil
  /\ stack' = Append(Advanced, EnterPrint(Child))
  /\ printed' = Append(printed, Child)
  /\ indents' = indents + Indents(Child)
  /\ UNCHANGED <<heap, call>>

\* Mutant: a frame that stays on the stack.
PrintReturnNever ==
  /\ call = "print"
  /\ Done
  /\ UNCHANGED vars

\* Mutant: both strings are freed whatever the node is.
PrintReturnBothIndents ==
  /\ call = "print"
  /\ Done
  /\ indents' = indents - 2
  /\ stack' = Front(stack)
  /\ call' = IF Len(stack) = 1 THEN "none" ELSE "print"
  /\ UNCHANGED <<heap, printed>>

PrintReturn ==
  /\ call = "print"
  /\ Done
  /\ indents' = indents - Indents(Top.node)
  /\ stack' = Front(stack)
  /\ call' = IF Len(stack) = 1 THEN "none" ELSE "print"
  /\ UNCHANGED <<heap, printed>>

\* The bound is reached and every tree was freed.
Stopped ==
  /\ call = "none" /\ Len(nodes) = MaxNodes /\ live = {}
  /\ UNCHANGED vars

Step == SkipChild \/ FreeChild \/ FreeReturn \/ PrintChild \/ PrintReturn

Next ==
  \/ \E t \in Types : Create(t)
  \/ \E n \in live : FreeCall(n) \/ PrintCall(n)
  \/ Step
  \/ Stopped

\* A call that has begun goes on until it returns: there is one thread.
Spec == Init /\ [][Next]_vars /\ WF_vars(Step)

-----------------------------------------------------------------------------

\* Every variable has its type; calls are active only during a traversal.
TypeOK ==
  /\ nodes \in Seq([type : Types, kids : Seq(Ids \cup {Nil})])
  /\ live \subseteq Ids /\ names \subseteq Ids /\ lists \subseteq Ids
  /\ call \in {"none", "free", "print"}
  /\ stack \in Seq([node : Ids, child : Nat \ {0}])
  /\ call = "none" <=> stack = <<>>
  /\ printed \in Seq(Ids)
  /\ indents \in Nat

\* What printNode has to show of each node: the node, then what its children
\* have to show, in order, the externs of a program excepted.
Preorder ==
  LET under[n \in Ids] ==
        LET kids == nodes[n].kids
            shown(c) == c # Nil /\ TypeOf(c) # "extern"
        IN  <<n>> \o FlattenSeq([j \in DOMAIN kids |->
                                   IF shown(kids[j]) THEN under[kids[j]] ELSE <<>>])
  IN  under

Kids(n) == {nodes[n].kids[j] : j \in DOMAIN nodes[n].kids} \ {Nil}

\* The nodes of the active calls.
Active == {stack[f].node : f \in DOMAIN stack}

\* Everything allocated for n is still allocated, and so are its children: if
\* that is so of every node of a set, it is so of the trees under them.
Intact(n) ==
  /\ n \in live
  /\ TypeOf(n) \in Named => n \in names
  /\ TypeOf(n) = "block" => n \in lists
  /\ Kids(n) \subseteq live

\* Nothing allocated for n is left, nor are its children.
Gone(n) ==
  /\ n \notin live \cup names \cup lists
  /\ Kids(n) \cap live = {}

\* No assert of ast.c fails on a tree built as the header says: each call
\* gets a node, of the type the function called is for (ast.c:28-418).
AssertsHold ==
  call # "none" /\ ~Done =>
    \/ Child = Nil /\ MayBeNull(TypeOf(Top.node), Top.child)
    \/ Child # Nil /\ TypeOf(Child) \in Callee(TypeOf(Top.node), Top.child)

\* While a tree is freed, what a call still has to read is allocated: the node
\* of each active call, the children it has not come to, and whatever no call
\* has come to in this tree or another (ast.c:259-274 deletes the vector after
\* the children were freed).
NothingReadAfterFree ==
  call = "free" =>
    /\ \A f \in DOMAIN stack :
         LET n == stack[f].node
         IN  /\ n \in live
             /\ TypeOf(n) = "block" => n \in lists
             /\ \A j \in DOMAIN nodes[n].kids :
                  j >= stack[f].child /\ nodes[n].kids[j] # Nil =>
                    Intact(nodes[n].kids[j])
    /\ \A n \in live \ Active : Intact(n)

\* Between calls a tree is whole or gone: the free functions release the
\* memory allocated by the corresponding create functions (ast.h:193-194),
\* names and statement vectors included, and nothing of another tree.
WholeOrGone ==
  call = "none" => \A n \in Ids : Intact(n) \/ Gone(n)

\* printNode shows each node of the tree once, parents before children and
\* children in order, the externs of a program excepted, and returns every
\* indent string (ast.c:454-579).
PrintsTree ==
  call = "none" /\ printed # <<>> =>
    /\ indents = 0
    /\ printed = Preorder[printed[1]]

\* freeNode and printNode return (ast.c:373, 454).
CallsReturn == call # "none" ~> call = "none"
=============================================================================
