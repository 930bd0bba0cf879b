------------------------------ MODULE AstProofs ------------------------------
(***************************************************************************)
(* For trees of any size and statement lists of any length: the free and   *)
(* print functions get the nodes they assert, and freeing takes a tree     *)
(* apart without reading what it has freed and without leaving any of it.  *)
(***************************************************************************)
EXTENDS Ast, SequenceTheorems, WellFoundedInduction, TLAPS

\* The types of the variables, the counts of indent strings left aside.
AstTypes ==
  /\ nodes \in Seq([type : Types, kids : Seq(Nat)])
  /\ live \subseteq Ids /\ names \subseteq Ids /\ lists \subseteq Ids
  /\ call \in {"none", "free", "print"}
  /\ stack \in Seq([node : Ids, child : Nat \ {0}])
  /\ call = "none" <=> stack = <<>>

\* A type the header allows for child j of a node of type t.
Fits(t, j, u) == u \in IF t = "block" THEN Stmts ELSE Fields[t][j]

Kid(n, j) == nodes[n].kids[j]

\* Children were there before their parent, and are what the header says.
Wired ==
  \A n \in Ids :
    /\ nodes[n].type # "block" => Len(nodes[n].kids) = Len(Fields[nodes[n].type])
    /\ \A j \in DOMAIN nodes[n].kids :
         Kid(n, j) \in 0..(n - 1) /\ Fits(nodes[n].type, j, TypeOf(Kid(n, j)))

\* A node is the child of one live node, in one place.
OneParent ==
  \A p, q \in live : \A j \in DOMAIN nodes[p].kids, l \in DOMAIN nodes[q].kids :
    Kid(p, j) = Kid(q, l) /\ Kid(p, j) # Nil => p = q /\ j = l

\* How far call f of a traversal that frees has come: what it has not come to
\* is allocated, what it has left behind is not.
Midway(f) ==
  LET n == stack[f].node
  IN  /\ n \in live \ names
      /\ TypeOf(n) = "block" => n \in lists
      /\ \A j \in DOMAIN nodes[n].kids :
           /\ j >= stack[f].child => Kid(n, j) \in live \cup {Nil}
           /\ j < stack[f].child - 1 => Kid(n, j) \notin live
           /\ j = stack[f].child - 1 /\ f = Len(stack) => Kid(n, j) \notin live

\* The call above f is at the child f came to last.
Nested(f) ==
  LET n == stack[f - 1].node
      j == stack[f - 1].child - 1
  IN  j \in DOMAIN nodes[n].kids /\ Kid(n, j) = stack[f].node

Frames ==
  call = "free" =>
    /\ stack[1].node \in Roots
    /\ \A f \in DOMAIN stack : Midway(f)
    /\ \A f \in DOMAIN stack : f > 1 => Nested(f)
    /\ \A f, g \in DOMAIN stack : f < g => stack[g].node < stack[f].node

\* A node no call that frees is at is all there, or all gone.
Whole ==
  \A n \in Ids :
    /\ n \in live => (call = "free" /\ n \in Active) \/ Intact(n)
    /\ n \notin live => Gone(n)

IInv == AstTypes /\ Wired /\ OneParent /\ Frames /\ Whole

-----------------------------------------------------------------------------

\* What the types say of one node.
LEMMA NodeFacts ==
  ASSUME AstTypes
  PROVE  /\ Len(nodes) \in Nat /\ DOMAIN nodes = 1..Len(nodes) /\ 0 \notin live
         /\ \A n \in Ids :
              /\ n # 0 /\ nodes[n] \in [type : Types, kids : Seq(Nat)]
              /\ nodes[n].type \in Types /\ TypeOf(n) = nodes[n].type
              /\ nodes[n].kids \in Seq(Nat) /\ Len(nodes[n].kids) \in Nat
              /\ DOMAIN nodes[n].kids = 1..Len(nodes[n].kids)
<1>1. nodes \in Seq([type : Types, kids : Seq(Nat)]) /\ live \subseteq Ids
  BY DEF AstTypes
<1>2. Len(nodes) \in Nat /\ DOMAIN nodes = 1..Len(nodes)
  BY <1>1
<1>3. ASSUME NEW n \in Ids PROVE nodes[n] \in [type : Types, kids : Seq(Nat)] /\ n # 0
  <2> DEFINE S == [type : Types, kids : Seq(Nat)]
  <2>1. nodes \in Seq(S) /\ n \in 1..Len(nodes)
    BY <1>1 DEF Ids
  <2> HIDE DEF S
  <2>2. nodes[n] \in S
    BY <2>1, ElementOfSeq
  <2> QED
    BY <1>2, <2>1, <2>2 DEF S
<1>4. ASSUME NEW n \in Ids PROVE nodes[n].kids \in Seq(Nat) /\ nodes[n].type \in Types
  BY <1>3
<1>5. ASSUME NEW n \in Ids
      PROVE  Len(nodes[n].kids) \in Nat /\ DOMAIN nodes[n].kids = 1..Len(nodes[n].kids)
  BY <1>4
<1>6. 0 \notin live
  BY <1>1, <1>2 DEF Ids
<1> QED
  BY <1>2, <1>3, <1>4, <1>5, <1>6 DEF TypeOf, Nil

\* What the header allows for a child is what the function called on it
\* asserts, or the NULL its caller tests for.
LEMMA CalleeTakes ==
  ASSUME NEW t \in Types, NEW j \in Nat \ {0}, NEW u \in Types \cup {"null"},
         t # "block" => j <= Len(Fields[t]), Fits(t, j, u)
  PROVE  IF u = "null" THEN MayBeNull(t, j) ELSE u \in Callee(t, j)
<1> DEFINE Given == Exprs \cup Stmts \cup {"prog", "func", "extern"}
<1>1. u # "null" => u \in Given
  BY AstAssumption
<1>2. CASE t = "block"
  BY <1>1, <1>2 DEF Fits, Callee, Stmts, Exprs
<1>3. CASE t = "prog"
  <2>1. Fields[t] = <<{"extern"}, {"extern"}, {"func"}>>
    BY <1>3 DEF Fields
  <2>2. j \in 1..3 /\ u \in Fields[t][j] /\ Fields[t][j] \in {{"extern"}, {"func"}}
    BY <1>3, <2>1 DEF Fits
  <2> QED
    BY <1>3, <2>1, <2>2 DEF Callee
<1>4. CASE t = "func"
  <2>1. Fields[t] = <<{"var", "null"}, {"block"}>>
    BY <1>4 DEF Fields
  <2>2. j \in 1..2 /\ u \in Fields[t][j]
    BY <1>4, <2>1 DEF Fits
  <2>3. j = 1 => Fields[t][j] = {"var", "null"}
    BY <2>1
  <2>4. j = 2 => Fields[t][j] = {"block"}
    BY <2>1
  <2> QED
    BY <1>4, <2>2, <2>3, <2>4 DEF Callee, MayBeNull
<1>5. CASE t = "asgn"
  <2>1. Fields[t] = <<{"var"}, Exprs>>
    BY <1>5 DEF Fields
  <2>2. j \in 1..2 /\ u \in Fields[t][j]
    BY <1>5, <2>1 DEF Fits
  <2>3. j = 1 => Fields[t][j] = {"var"}
    BY <2>1
  <2>4. j = 2 => Fields[t][j] = Exprs
    BY <2>1
  <2> QED
    BY <1>1, <1>5, <2>2, <2>3, <2>4 DEF Callee, Exprs
<1>6. CASE t = "call"
  <2>1. Fields[t] = <<Exprs \cup {"null"}>>
    BY <1>6 DEF Fields
  <2> QED
    BY <1>1, <1>6, <2>1 DEF Fits, Callee, MayBeNull
<1>7. CASE t = "if"
  <2>1. Fields[t] = <<Exprs, Stmts, Stmts \cup {"null"}>>
    BY <1>7 DEF Fields
  <2>2. j \in 1..3 /\ u \in Fields[t][j]
    BY <1>7, <2>1 DEF Fits
  <2>3. (j = 1 => u \in Exprs) /\ (j = 2 => u \in Stmts)
    BY <2>1, <2>2
  <2> QED
    BY <1>1, <1>7, <2>2, <2>3 DEF Callee, MayBeNull, Exprs, Stmts
<1>8. CASE t = "while"
  <2>1. Fields[t] = <<Exprs, Stmts>>
    BY <1>8 DEF Fields
  <2>2. j \in 1..2 /\ u \in Fields[t][j]
    BY <1>8, <2>1 DEF Fits
  <2>3. (j = 1 => u \in Exprs) /\ (j = 2 => u \in Stmts)
    BY <2>1, <2>2
  <2> QED
    BY <1>1, <1>8, <2>2, <2>3 DEF Callee, Exprs, Stmts
<1>9. CASE t \in {"rexpr", "bexpr", "uexpr", "ret"}
  <2>1. Fields[t] = <<Exprs, Exprs>> \/ Fields[t] = <<Exprs>>
    BY <1>9 DEF Fields
  <2>2. u \in Exprs
    BY <1>9, <2>1 DEF Fits
  <2> QED
    BY <1>1, <1>9, <2>2 DEF Callee, Exprs
<1>10. CASE t \in {"extern", "var", "cnst", "decl"}
  <2>1. Len(Fields[t]) = 0
    BY <1>10 DEF Fields
  <2> QED
    BY <1>10, <2>1
<1> QED
  BY <1>2, <1>3, <1>4, <1>5, <1>6, <1>7, <1>8, <1>9, <1>10, AstAssumption
     DEF Exprs, Stmts

\* The next child of the innermost call, and the call itself.
LEMMA NextChild ==
  ASSUME IInv, call # "none"
  PROVE  /\ Len(stack) \in Nat \ {0} /\ Top = stack[Len(stack)]
         /\ Top.node \in Ids /\ Top.child \in Nat \ {0}
         /\ Done <=> Top.child > Len(nodes[Top.node].kids)
         /\ ~Done => /\ Top.child \in DOMAIN nodes[Top.node].kids
                     /\ Child = Kid(Top.node, Top.child)
                     /\ Child \in 0..(Top.node - 1)
                     /\ Child # Nil => Child \in Ids
                     /\ IF Child = Nil THEN MayBeNull(TypeOf(Top.node), Top.child)
                        ELSE TypeOf(Child) \in Callee(TypeOf(Top.node), Top.child)
<1>1. stack \in Seq([node : Ids, child : Nat \ {0}]) /\ stack # <<>>
  BY DEF IInv, AstTypes
<1>2. Len(stack) \in Nat \ {0} /\ Top = stack[Len(stack)]
  BY <1>1 DEF Top, Last
<1>3. Top \in [node : Ids, child : Nat \ {0}]
  <2> DEFINE S == [node : Ids, child : Nat \ {0}]
  <2>1. stack \in Seq(S) /\ Len(stack) \in 1..Len(stack)
    BY <1>1, <1>2
  <2> HIDE DEF S
  <2>2. stack[Len(stack)] \in S
    BY <2>1, ElementOfSeq
  <2> QED
    BY <1>2, <2>2 DEF S
<1>4. Top.node \in Ids /\ Top.child \in Nat \ {0}
  BY <1>3
<1> DEFINE n == Top.node
<1>5. AstTypes /\ Wired
  BY DEF IInv
<1>6. /\ DOMAIN nodes[n].kids = 1..Len(nodes[n].kids) /\ Len(nodes[n].kids) \in Nat
      /\ nodes[n].type \in Types /\ TypeOf(n) = nodes[n].type
  BY <1>4, <1>5, NodeFacts
<1>7. ASSUME ~Done
      PROVE  /\ Top.child \in DOMAIN nodes[n].kids
             /\ Child = Kid(n, Top.child)
             /\ Child \in 0..(n - 1)
             /\ Child # Nil => Child \in Ids
             /\ IF Child = Nil THEN MayBeNull(TypeOf(n), Top.child)
                ELSE TypeOf(Child) \in Callee(TypeOf(n), Top.child)
  <2>1. Top.child \in DOMAIN nodes[n].kids /\ Child = Kid(n, Top.child)
    BY <1>4, <1>6, <1>7 DEF Done, Child, Kid
  <2>2. Child \in 0..(n - 1) /\ Fits(nodes[n].type, Top.child, TypeOf(Child))
    BY <1>4, <1>5, <2>1 DEF Wired
  <2>3. Child # Nil => Child \in Ids
    BY <1>4, <2>2, <1>5, NodeFacts DEF Ids, Nil
  <2>4. TypeOf(Child) \in Types \cup {"null"} /\ (Child = Nil <=> TypeOf(Child) = "null")
    <3>1. "null" \notin Types
      BY AstAssumption DEF Exprs, Stmts
    <3> QED
      BY <1>5, <2>3, <3>1, NodeFacts DEF TypeOf
  <2>5. nodes[n].type # "block" => Top.child <= Len(Fields[nodes[n].type])
    BY <1>4, <1>5, <1>6, <2>1 DEF Wired
  <2> HIDE DEF n
  <2>6. IF TypeOf(Child) = "null" THEN MayBeNull(nodes[n].type, Top.child)
        ELSE TypeOf(Child) \in Callee(nodes[n].type, Top.child)
    BY <1>4, <1>6, <2>2, <2>4, <2>5, CalleeTakes
  <2> QED
    BY <1>6, <2>1, <2>2, <2>3, <2>4, <2>6
<1> QED
  BY <1>2, <1>4, <1>7 DEF Done

-----------------------------------------------------------------------------

Call == [node : Ids, child : Nat \ {0}]

\* Each active call is at a node, and Advanced moves the innermost one on.
LEMMA StackFacts ==
  ASSUME AstTypes, stack # <<>>
  PROVE  /\ Len(stack) \in Nat \ {0} /\ DOMAIN stack = 1..Len(stack)
         /\ \A f \in 1..Len(stack) :
              stack[f] \in Call /\ stack[f].node \in Ids /\ stack[f].child \in Nat \ {0}
         /\ Advanced \in Seq(Call) /\ Advanced # <<>> /\ Len(Advanced) = Len(stack)
         /\ \A f \in 1..Len(stack) :
              /\ Advanced[f].node = stack[f].node
              /\ Advanced[f].child = IF f = Len(stack) THEN stack[f].child + 1
                                     ELSE stack[f].child
<1>1. stack \in Seq(Call)
  BY DEF AstTypes, Call
<1>2. Len(stack) \in Nat \ {0} /\ DOMAIN stack = 1..Len(stack)
  BY <1>1
<1>3. \A f \in 1..Len(stack) : stack[f] \in Call
  BY <1>1, ElementOfSeq
<1>4. \A f \in 1..Len(stack) : stack[f].node \in Ids /\ stack[f].child \in Nat \ {0}
  BY <1>3 DEF Call
<1> DEFINE k == Len(stack)
           e == [stack[k] EXCEPT !.child = @ + 1]
<1>5. k \in 1..Len(stack) /\ stack[k] \in Call
  BY <1>2, <1>3
<1>6. e \in Call /\ e.node = stack[k].node /\ e.child = stack[k].child + 1
  BY <1>5 DEF Call
<1>7. Advanced = [stack EXCEPT ![k] = e]
  BY DEF Advanced
<1> HIDE DEF e
<1>8. /\ Advanced \in Seq(Call) /\ Len(Advanced) = Len(stack)
      /\ \A f \in 1..Len(stack) : Advanced[f] = IF f = k THEN e ELSE stack[f]
  BY <1>1, <1>5, <1>6, <1>7, ExceptSeq
<1>9. Advanced # <<>>
  BY <1>2, <1>8
<1> QED
  BY <1>2, <1>3, <1>4, <1>6, <1>8, <1>9

\* A call on top of the stack.
LEMMA AppendFacts ==
  ASSUME NEW S, NEW s \in Seq(S), NEW e \in S
  PROVE  /\ Append(s, e) \in Seq(S) /\ Append(s, e) # <<>>
         /\ Len(Append(s, e)) = Len(s) + 1 /\ Len(s) \in Nat
         /\ \A f \in 1..Len(s) : Append(s, e)[f] = s[f]
         /\ Append(s, e)[Len(s) + 1] = e
<1> QED
  OBVIOUS

\* The innermost call returns.
LEMMA FrontFacts ==
  ASSUME NEW S, NEW s \in Seq(S), s # <<>>
  PROVE  /\ Front(s) \in Seq(S) /\ Len(Front(s)) = Len(s) - 1
         /\ \A f \in 1..(Len(s) - 1) : Front(s)[f] = s[f]
         /\ Front(s) = <<>> <=> Len(s) = 1
<1>1. Len(s) \in Nat \ {0} /\ \A f \in 1..(Len(s) - 1) : s[f] \in S
  BY ElementOfSeq
<1>2. /\ Front(s) \in Seq(S) /\ Len(Front(s)) = Len(s) - 1
      /\ \A f \in 1..(Len(s) - 1) : Front(s)[f] = s[f]
  <2> DEFINE n == Len(s) - 1
  <2>1. n \in Int /\ 1 \in Int /\ \A f \in 1..n : s[f] \in S
    BY <1>1
  <2>2. /\ SubSeq(s, 1, n) \in Seq(S) /\ Len(SubSeq(s, 1, n)) = IF 1 <= n THEN n - 1 + 1 ELSE 0
        /\ \A f \in 1..(n - 1 + 1) : SubSeq(s, 1, n)[f] = s[1 + f - 1]
    BY <2>1, SubSeqProperties
  <2>3. \A f \in 1..n : 1 + f - 1 = f
    OBVIOUS
  <2>4. n - 1 + 1 = n /\ n \in Nat
    BY <1>1
  <2> QED
    BY <2>2, <2>3, <2>4 DEF Front
<1> QED
  BY <1>1, <1>2

\* The steps keep the types.
LEMMA StepTypes ==
  ASSUME IInv, call # "none", SkipChild \/ FreeChild \/ FreeReturn \/ PrintChild \/ PrintReturn
  PROVE  AstTypes'
<1>1. AstTypes /\ stack # <<>> /\ stack \in Seq(Call)
  BY DEF IInv, AstTypes, Call
<1>2. nodes' = nodes /\ live' \subseteq live /\ names' \subseteq names
      /\ lists' \subseteq lists
  BY DEF SkipChild, FreeChild, FreeReturn, PrintChild, PrintReturn, heap
<1>3. Call' = Call /\ Ids' = Ids
  BY <1>2 DEF Call, Ids
<1>4. stack' \in Seq(Call) /\ call' \in {"none", "free", "print"}
      /\ (call' = "none" <=> stack' = <<>>)
  <2>1. CASE SkipChild
    BY <1>1, <2>1, StackFacts DEF SkipChild
  <2>2. CASE FreeChild
    <3>1. Child \in Ids
      <4>1. ~Done /\ TypeOf(Child) \in Callee(TypeOf(Top.node), Top.child)
        BY <2>2 DEF FreeChild
      <4>2. Child # Nil \/ (Child = Nil /\ MayBeNull(TypeOf(Top.node), Top.child))
        BY <4>1, NextChild
      <4>3. "null" \notin Callee(TypeOf(Top.node), Top.child)
            \/ ~MayBeNull(TypeOf(Top.node), Top.child)
        BY DEF MayBeNull, Callee, Exprs, Stmts
      <4> QED
        BY <4>1, <4>2, <4>3, NextChild DEF TypeOf
    <3>2. Enter(Child) \in Call
      BY <3>1 DEF Enter, Call
    <3>3. Append(Advanced, Enter(Child)) \in Seq(Call) /\ Append(Advanced, Enter(Child)) # <<>>
      <4>1. Advanced \in Seq(Call)
        BY <1>1, StackFacts
      <4> QED
        BY <3>2, <4>1, AppendFacts
    <3> QED
      BY <2>2, <3>3 DEF FreeChild
  <2>3. CASE PrintChild
    <3>1. Child \in Ids
      BY <2>3, NextChild DEF PrintChild
    <3>2. EnterPrint(Child) \in Call
      BY <3>1 DEF EnterPrint, Call
    <3>3. Append(Advanced, EnterPrint(Child)) \in Seq(Call) /\ Append(Advanced, EnterPrint(Child)) # <<>>
      <4>1. Advanced \in Seq(Call)
        BY <1>1, StackFacts
      <4> QED
        BY <3>2, <4>1, AppendFacts
    <3> QED
      BY <2>3, <3>3 DEF PrintChild
  <2>4. CASE FreeReturn
    BY <1>1, <2>4, FrontFacts DEF FreeReturn
  <2>5. CASE PrintReturn
    BY <1>1, <2>5, FrontFacts DEF PrintReturn
  <2> QED
    BY <2>1, <2>2, <2>3, <2>4, <2>5
<1> QED
  BY <1>1, <1>2, <1>3, <1>4 DEF AstTypes, Call

\* Whatever leaves the heap alone and frees nothing preserves the invariant.
LEMMA HeapUnchanged ==
  ASSUME IInv, AstTypes', UNCHANGED heap, call # "free", call' # "free"
  PROVE  IInv'
<1>1. UNCHANGED <<nodes, live, names, lists>>
  BY DEF heap
<1>2. Wired' /\ OneParent'
  BY <1>1 DEF IInv, Wired, OneParent, Ids, Kid, Fits, TypeOf
<1>3. Frames'
  BY DEF Frames
<1>4. Whole'
  BY <1>1 DEF IInv, Whole, Ids, Intact, Gone, Kids, TypeOf
<1> QED
  BY <1>2, <1>3, <1>4 DEF IInv

\* The node of an active call is a root, or the child another call came to last.
LEMMA ActiveIsVisited ==
  ASSUME IInv, call = "free", NEW p \in live, NEW j \in DOMAIN nodes[p].kids,
         Kid(p, j) \in Active
  PROVE  \E f \in 1..(Len(stack) - 1) :
           /\ stack[f].node = p /\ stack[f].child - 1 = j
           /\ stack[f + 1].node = Kid(p, j)
<1>1. AstTypes /\ stack # <<>> /\ Frames /\ OneParent
  BY DEF IInv, AstTypes
<1>2. PICK g \in 1..Len(stack) : stack[g].node = Kid(p, j)
  BY <1>1, StackFacts DEF Active
<1>3. Len(stack) \in Nat \ {0} /\ DOMAIN stack = 1..Len(stack)
  BY <1>1, StackFacts
<1>4. g # 1
  BY <1>1, <1>2 DEF Frames, Roots, Kid
<1>5. g > 1 /\ g - 1 \in 1..(Len(stack) - 1) /\ g - 1 \in DOMAIN stack /\ (g - 1) + 1 = g
  BY <1>2, <1>3, <1>4
<1>6. Nested(g) /\ Midway(g - 1)
  BY <1>1, <1>2, <1>3, <1>5 DEF Frames
<1> DEFINE q == stack[g - 1].node
           l == stack[g - 1].child - 1
<1>7. q \in live /\ l \in DOMAIN nodes[q].kids /\ Kid(q, l) = Kid(p, j)
  BY <1>2, <1>6 DEF Nested, Midway
<1>8. Kid(p, j) # Nil
  <2>1. stack[g].node \in Ids
    BY <1>1, <1>2, StackFacts
  <2> QED
    BY <1>1, <1>2, <2>1, NodeFacts DEF Nil
<1>9. q = p /\ l = j
  BY <1>1, <1>7, <1>8 DEF OneParent
<1> QED
  BY <1>2, <1>5, <1>9

\* The child a call comes to next is not the node of another active call.
LEMMA ChildNotActive ==
  ASSUME IInv, call = "free", NEW f \in 1..Len(stack),
         NEW j \in DOMAIN nodes[stack[f].node].kids,
         j >= stack[f].child
  PROVE  Kid(stack[f].node, j) \notin Active
<1>1. AstTypes /\ stack # <<>> /\ Frames
  BY DEF IInv, AstTypes
<1>2. Len(stack) \in Nat \ {0} /\ DOMAIN stack = 1..Len(stack)
  BY <1>1, StackFacts
<1>3. stack[f].node \in live
  BY <1>1, <1>2 DEF Frames, Midway
<1> SUFFICES ASSUME Kid(stack[f].node, j) \in Active PROVE FALSE
  OBVIOUS
<1>4. PICK g \in 1..(Len(stack) - 1) :
        stack[g].node = stack[f].node /\ stack[g].child - 1 = j
  BY <1>3, ActiveIsVisited
<1>5. g \in 1..Len(stack)
  BY <1>2
<1>6. stack[g].node \in Ids /\ stack[f].node \in Ids /\ stack[g].child \in Nat
  BY <1>1, <1>5, StackFacts
<1>7. g = f
  <2>1. g < f => stack[f].node < stack[g].node
    BY <1>1, <1>2, <1>5 DEF Frames
  <2>2. f < g => stack[g].node < stack[f].node
    BY <1>1, <1>2, <1>5 DEF Frames
  <2>3. stack[f].node \in Int
    BY <1>1, <1>6, NodeFacts DEF Ids
  <2> QED
    BY <1>4, <1>5, <2>1, <2>2, <2>3
<1> QED
  BY <1>4, <1>6, <1>7

\* freeNode is called on a root.
LEMMA FreeCallStep ==
  ASSUME IInv, NEW n \in live, FreeCall(n)
  PROVE  IInv'
<1>1. AstTypes /\ Wired /\ OneParent /\ Whole
  BY DEF IInv
<1>2. /\ call = "none" /\ call' = "free" /\ n \in Roots /\ stack' = <<Enter(n)>>
      /\ names' = names \ {n} /\ UNCHANGED <<nodes, live, lists>>
  BY DEF FreeCall
<1>3. n \in Ids /\ Ids' = Ids
  BY <1>1, <1>2 DEF AstTypes, Ids
<1>4. Enter(n) \in [node : Ids, child : Nat \ {0}] /\ Enter(n).node = n /\ Enter(n).child = 1
  BY <1>3 DEF Enter
<1>5. AstTypes'
  BY <1>1, <1>2, <1>3, <1>4 DEF AstTypes
<1>6. Wired' /\ OneParent'
  BY <1>1, <1>2 DEF Wired, OneParent, Ids, Kid, Fits, TypeOf
<1>7. DOMAIN stack' = {1} /\ Len(stack') = 1 /\ stack'[1].node = n /\ stack'[1].child = 1
  BY <1>2, <1>4
<1>8. Frames'
  <2>1. stack'[1].node \in Roots'
    BY <1>2, <1>7 DEF Roots
  <2>2. Intact(n)
    BY <1>1, <1>2, <1>3 DEF Whole
  <2>3. DOMAIN nodes[n].kids \subseteq Nat \ {0}
    BY <1>1, <1>3, NodeFacts
  <2>4. Midway(1)'
    BY <1>2, <1>3, <1>7, <2>2, <2>3 DEF Midway, Intact, Kids, Kid, TypeOf
  <2> QED
    BY <1>7, <2>1, <2>4 DEF Frames
<1>9. Whole'
  <2>1. Active' = {n}
    BY <1>7 DEF Active
  <2>2. ASSUME NEW m \in Ids, m \in live, m # n PROVE Intact(m)'
    BY <1>1, <1>2, <2>2 DEF Whole, Intact, Kids, TypeOf
  <2>3. ASSUME NEW m \in Ids, m \notin live PROVE Gone(m)'
    BY <1>1, <1>2, <2>3 DEF Whole, Gone, Kids
  <2> QED
    BY <1>2, <1>3, <2>1, <2>2, <2>3 DEF Whole
<1> QED
  BY <1>5, <1>6, <1>8, <1>9 DEF IInv

\* A NULL child is stepped over by a call that frees.
LEMMA SkipStep ==
  ASSUME IInv, SkipChild, call = "free"
  PROVE  IInv'
<1>1. AstTypes /\ stack # <<>> /\ Wired /\ OneParent /\ Frames /\ Whole
  BY DEF IInv, AstTypes
<1>2. /\ stack' = Advanced /\ ~Done /\ Child = Nil
      /\ UNCHANGED <<nodes, live, names, lists, call>>
  BY DEF SkipChild, heap
<1>3. AstTypes'
  BY StepTypes
<1>4. Wired' /\ OneParent'
  BY <1>1, <1>2 DEF Wired, OneParent, Ids, Kid, Fits, TypeOf
<1> DEFINE k == Len(stack)
<1>5. /\ k \in Nat \ {0} /\ DOMAIN stack = 1..k /\ DOMAIN stack' = 1..k /\ Len(stack') = k
      /\ \A f \in 1..k : /\ stack'[f].node = stack[f].node /\ stack[f].child \in Nat \ {0}
                         /\ stack'[f].child = IF f = k THEN stack[f].child + 1 ELSE stack[f].child
  <2>1. Advanced \in Seq(Call) /\ Len(Advanced) = k
    BY <1>1, StackFacts
  <2>2. DOMAIN Advanced = 1..k
    BY <2>1
  <2> QED
    BY <1>1, <1>2, <2>1, <2>2, StackFacts
<1>6. /\ stack[k] = Top /\ Kid(stack[k].node, stack[k].child) = Nil /\ Nil \notin live
      /\ stack[k].node \in Ids
  BY <1>1, <1>2, NextChild, NodeFacts DEF Nil
<1> HIDE DEF k
<1>7. Frames'
  <2>1. stack'[1].node \in Roots'
    BY <1>1, <1>2, <1>5 DEF Frames, Roots
  <2>2. ASSUME NEW f \in 1..k PROVE Midway(f)'
    <3>1. Midway(f)
      BY <1>1, <1>5 DEF Frames
    <3>2. stack[f].node \in Ids
      BY <1>1, <3>1 DEF Midway, AstTypes
    <3>3. DOMAIN nodes[stack[f].node].kids \subseteq Nat
      BY <1>1, <3>2, NodeFacts
    <3>4. CASE f = k
      <4> DEFINE p == stack[f].node
                 d == stack[f].child
      <4>1. p \in live' \ names' /\ (TypeOf(p) = "block" => p \in lists')
        BY <1>2, <3>1 DEF Midway
      <4>2. ASSUME NEW j \in DOMAIN nodes[p].kids
            PROVE  /\ j >= d => Kid(p, j) \in live \cup {Nil}
                   /\ j < d => Kid(p, j) \notin live
        <5>1. j \in Nat /\ d \in Nat /\ (j < d => j < d - 1 \/ j = d - 1)
          BY <1>5, <3>3
        <5> QED
          BY <1>5, <3>1, <3>4, <5>1 DEF Midway, k
      <4>3. Kid(p, d) = Nil /\ Nil \notin live /\ d \in Nat
        BY <1>5, <1>6, <3>4
      <4> HIDE DEF p, d
      <4>4. stack'[f].node = p /\ stack'[f].child = d + 1
        BY <1>5, <3>4 DEF p, d
      <4>5. ASSUME NEW j \in DOMAIN nodes[p].kids
            PROVE  /\ j >= d + 1 => Kid(p, j) \in live \cup {Nil}
                   /\ j < (d + 1) - 1 => Kid(p, j) \notin live
                   /\ j = (d + 1) - 1 => Kid(p, j) \notin live
        <5>1. j \in Nat /\ d \in Nat
          BY <3>3, <4>3 DEF p
        <5> QED
          BY <4>2, <4>3, <5>1
      <4> QED
        BY <1>2, <4>1, <4>4, <4>5 DEF Midway, Kid, TypeOf
    <3>5. CASE f # k
      BY <1>2, <1>5, <3>1, <3>3, <3>5 DEF Midway, Kid, TypeOf
    <3> QED
      BY <3>4, <3>5
  <2>3. ASSUME NEW f \in 1..k, f > 1 PROVE Nested(f)'
    <3>1. Nested(f) /\ f - 1 \in 1..k /\ f - 1 # k
      BY <1>1, <1>5, <2>3 DEF Frames
    <3> QED
      BY <1>2, <1>5, <3>1 DEF Nested, Kid
  <2>4. \A f, g \in 1..k : f < g => stack'[g].node < stack'[f].node
    BY <1>1, <1>5 DEF Frames
  <2> QED
    BY <1>5, <2>1, <2>2, <2>3, <2>4 DEF Frames
<1>8. Whole'
  <2>1. Active' = Active
    BY <1>5 DEF Active
  <2> QED
    BY <1>1, <1>2, <2>1 DEF Whole, Intact, Gone, Kids, TypeOf, Ids
<1> QED
  BY <1>3, <1>4, <1>7, <1>8 DEF IInv

\* A free function is called on the next child.
LEMMA FreeChildStep ==
  ASSUME IInv, FreeChild
  PROVE  IInv'
<1>0. PICK k, n, i, c : k = Len(stack) /\ n = Top.node /\ i = Top.child /\ c = Child
  OBVIOUS
<1>1. AstTypes /\ stack # <<>> /\ Wired /\ OneParent /\ Frames /\ Whole
  BY DEF IInv, AstTypes, FreeChild
<1>2. /\ call = "free" /\ stack' = Append(Advanced, Enter(c)) /\ ~Done
      /\ names' = names \ {c} /\ UNCHANGED <<nodes, live, lists, call>>
  BY <1>0 DEF FreeChild
<1>3. AstTypes'
  BY <1>2, StepTypes
<1>4. Wired' /\ OneParent'
  BY <1>1, <1>2 DEF Wired, OneParent, Ids, Kid, Fits, TypeOf
<1>5. /\ k \in Nat \ {0} /\ DOMAIN stack = 1..k /\ n = stack[k].node /\ i = stack[k].child
      /\ n \in Ids /\ i \in Nat \ {0} /\ i \in DOMAIN nodes[n].kids /\ c = Kid(n, i)
      /\ \A f \in 1..k : stack[f].node \in Ids /\ stack[f].child \in Nat \ {0}
  BY <1>0, <1>1, <1>2, NextChild, StackFacts
<1>6. Midway(k) /\ \A f \in 1..k : Midway(f)
  BY <1>1, <1>2, <1>5 DEF Frames
<1>7. c \in live /\ c \in Ids /\ c < n
  <2>1. c # Nil
    <3>1. "null" \notin Callee(TypeOf(n), i) \/ ~MayBeNull(TypeOf(n), i)
      BY DEF MayBeNull, Callee, Exprs, Stmts
    <3> QED
      BY <1>0, <1>2, <3>1, NextChild DEF FreeChild, TypeOf
  <2>2. c \in Ids /\ c \in 0..(n - 1)
    BY <1>0, <1>2, <2>1, NextChild
  <2>3. c \in live
    <3>1. i >= i
      BY <1>5
    <3>2. Kid(n, i) \in live \cup {Nil}
      BY <1>5, <1>6, <3>1 DEF Midway
    <3> QED
      BY <1>5, <2>1, <3>2
  <2> QED
    BY <1>1, <1>5, <2>2, <2>3, NodeFacts DEF Ids
<1>8. Intact(c)
  <2>1. c \notin Active
    <3>1. /\ k \in 1..Len(stack) /\ i \in DOMAIN nodes[stack[k].node].kids
          /\ i >= stack[k].child
      BY <1>0, <1>5
    <3>2. Kid(stack[k].node, i) \notin Active
      BY <1>2, <3>1, ChildNotActive
    <3> QED
      BY <1>5, <3>2
  <2> QED
    BY <1>1, <1>7, <2>1 DEF Whole
<1>9. /\ DOMAIN stack' = 1..(k + 1) /\ Len(stack') = k + 1
      /\ stack'[k + 1].node = c /\ stack'[k + 1].child = 1
      /\ \A f \in 1..k : /\ stack'[f].node = stack[f].node
                         /\ stack'[f].child = IF f = k THEN stack[f].child + 1 ELSE stack[f].child
  <2>1. Advanced \in Seq(Call) /\ Len(Advanced) = k
    BY <1>0, <1>1, StackFacts
  <2>2. Enter(c) \in Call /\ Enter(c).node = c /\ Enter(c).child = 1
    BY <1>7 DEF Enter, Call
  <2>3. /\ stack' \in Seq(Call) /\ Len(stack') = k + 1 /\ stack'[k + 1] = Enter(c)
        /\ \A f \in 1..k : stack'[f] = Advanced[f]
    BY <1>2, <2>1, <2>2, AppendFacts
  <2>4. DOMAIN stack' = 1..(k + 1)
    BY <2>3
  <2> QED
    BY <1>0, <1>1, <2>2, <2>3, <2>4, StackFacts
<1>10. Frames'
  <2>1. stack'[1].node \in Roots'
    BY <1>1, <1>2, <1>5, <1>9 DEF Frames, Roots
  <2>2. ASSUME NEW f \in 1..k PROVE Midway(f)'
    <3> DEFINE p == stack[f].node
               d == stack[f].child
    <3>1. Midway(f) /\ DOMAIN nodes[p].kids \subseteq Nat /\ d \in Nat \ {0}
      BY <1>1, <1>5, <1>6, NodeFacts
    <3>2. p \in live' \ names' /\ (TypeOf(p) = "block" => p \in lists')
      BY <1>2, <3>1 DEF Midway
    <3>3. ASSUME NEW j \in DOMAIN nodes[p].kids
          PROVE  /\ j >= d => Kid(p, j) \in live \cup {Nil}
                 /\ j < d - 1 => Kid(p, j) \notin live
                 /\ j = d - 1 /\ f = k => Kid(p, j) \notin live
      BY <1>0, <3>1 DEF Midway
    <3> HIDE DEF p, d
    <3>4. stack'[f].node = p /\ stack'[f].child = IF f = k THEN d + 1 ELSE d
      BY <1>9 DEF p, d
    <3>5. f # Len(stack')
      BY <1>5, <1>9
    <3>6. ASSUME NEW j \in DOMAIN nodes[p].kids
          PROVE  /\ j >= stack'[f].child => Kid(p, j) \in live
                                              \/ Kid(p, j) = Nil
                 /\ j < stack'[f].child - 1 => Kid(p, j) \notin live
      <4>1. j \in Nat
        BY <3>1
      <4>2. CASE f = k
        <5>1. j >= d + 1 => j >= d
          BY <3>1, <4>1
        <5>2. j < (d + 1) - 1 => j < d - 1 \/ j = d - 1
          BY <3>1, <4>1
        <5> QED
          BY <3>3, <3>4, <4>2, <5>1, <5>2
      <4>3. CASE f # k
        BY <3>3, <3>4, <4>3
      <4> QED
        BY <4>2, <4>3
    <3> QED
      BY <1>2, <3>2, <3>4, <3>5, <3>6 DEF Midway, Kid, TypeOf
  <2>3. Midway(k + 1)'
    <3>1. DOMAIN nodes[c].kids \subseteq Nat \ {0}
      BY <1>1, <1>7, NodeFacts
    <3>2. c \in live' \ names' /\ (TypeOf(c) = "block" => c \in lists')
      BY <1>2, <1>7, <1>8 DEF Intact
    <3>3. \A j \in DOMAIN nodes[c].kids :
            Kid(c, j) \in live' \cup {Nil} /\ ~(j < 1 - 1) /\ ~(j = 1 - 1)
      BY <1>2, <1>8, <3>1 DEF Intact, Kids, Kid
    <3> QED
      BY <1>2, <1>9, <3>2, <3>3 DEF Midway, Kid, TypeOf
  <2>4. ASSUME NEW f \in 1..k, f > 1 PROVE Nested(f)'
    <3>1. Nested(f) /\ f - 1 \in 1..k /\ f - 1 # k
      BY <1>1, <1>2, <1>5, <2>4 DEF Frames
    <3> QED
      BY <1>2, <1>5, <1>9, <3>1 DEF Nested, Kid
  <2>5. Nested(k + 1)'
    <3>1. k \in 1..k /\ (k + 1) - 1 = k
      BY <1>5
    <3>2. stack'[k].node = n /\ stack'[k].child = i + 1
      BY <1>5, <1>9, <3>1
    <3>3. (i + 1) - 1 = i
      BY <1>5
    <3>4. stack'[(k + 1) - 1].node = n /\ stack'[(k + 1) - 1].child - 1 = i
      BY <3>1, <3>2, <3>3
    <3> QED
      BY <1>2, <1>5, <1>9, <3>4 DEF Nested, Kid
  <2>6. ASSUME NEW f \in 1..(k + 1), NEW g \in 1..(k + 1), f < g
        PROVE  stack'[g].node < stack'[f].node
    <3>1. CASE g # k + 1
      <4>1. f \in 1..k /\ g \in 1..k
        BY <1>5, <2>6, <3>1
      <4> QED
        BY <1>1, <1>2, <1>5, <1>9, <2>6, <4>1 DEF Frames
    <3>2. CASE g = k + 1
      <4>1. f \in 1..k /\ k \in 1..k
        BY <1>5, <2>6, <3>2
      <4>2. f = k \/ stack[k].node < stack[f].node
        BY <1>1, <1>2, <1>5, <4>1 DEF Frames
      <4>3. c \in Int /\ n \in Int /\ stack[f].node \in Int
        BY <1>1, <1>5, <1>7, <4>1, NodeFacts DEF Ids
      <4> QED
        BY <1>5, <1>7, <1>9, <3>2, <4>1, <4>2, <4>3
    <3> QED
      BY <3>1, <3>2
  <2>7. \A f \in 1..(k + 1) : f \in 1..k \/ f = k + 1
    BY <1>5
  <2> QED
    BY <1>9, <2>1, <2>2, <2>3, <2>4, <2>5, <2>6, <2>7 DEF Frames
<1>11. Whole'
  <2>1. Active \cup {c} \subseteq Active'
    BY <1>5, <1>9 DEF Active
  <2>2. ASSUME NEW m \in Ids, m \in live, m \notin Active' PROVE Intact(m)'
    <3>1. Intact(m) /\ m # c
      BY <1>1, <2>1, <2>2 DEF Whole
    <3> QED
      BY <1>2, <3>1 DEF Intact, Kids, TypeOf
  <2>3. ASSUME NEW m \in Ids, m \notin live PROVE Gone(m)'
    BY <1>1, <1>2, <2>3 DEF Whole, Gone, Kids
  <2> QED
    BY <1>2, <2>2, <2>3 DEF Whole, Ids
<1> QED
  BY <1>3, <1>4, <1>10, <1>11 DEF IInv

\* A call that has come to the end of its children frees its node.
LEMMA FreeReturnStep ==
  ASSUME IInv, FreeReturn
  PROVE  IInv'
<1>0. PICK k, n : k = Len(stack) /\ n = Top.node
  OBVIOUS
<1>1. AstTypes /\ stack # <<>> /\ Wired /\ OneParent /\ Frames /\ Whole
  BY DEF IInv, AstTypes, FreeReturn
<1>2. /\ call = "free" /\ Done /\ stack' = Front(stack)
      /\ live' = live \ {n} /\ lists' = lists \ {n} /\ UNCHANGED <<nodes, names>>
      /\ call' = IF k = 1 THEN "none" ELSE "free"
  BY <1>0 DEF FreeReturn
<1>3. AstTypes'
  BY <1>2, StepTypes
<1>4. Wired' /\ OneParent'
  BY <1>1, <1>2 DEF Wired, OneParent, Ids, Kid, Fits, TypeOf
<1>5. /\ k \in Nat \ {0} /\ DOMAIN stack = 1..k /\ n = stack[k].node /\ n \in Ids
      /\ Top.child = stack[k].child
      /\ \A f \in 1..k : stack[f].node \in Ids /\ stack[f].child \in Nat \ {0}
  BY <1>0, <1>1, <1>2, NextChild, StackFacts
<1>6. /\ DOMAIN stack' = 1..(k - 1) /\ Len(stack') = k - 1
      /\ \A f \in 1..(k - 1) : stack'[f] = stack[f]
  <2>1. stack \in Seq(Call)
    BY <1>1 DEF AstTypes, Call
  <2>2. /\ stack' \in Seq(Call) /\ Len(stack') = k - 1
        /\ \A f \in 1..(k - 1) : stack'[f] = stack[f]
    BY <1>0, <1>1, <1>2, <2>1, FrontFacts
  <2> QED
    BY <2>2
<1>7. \A f \in 1..k : Midway(f)
  BY <1>1, <1>2, <1>5 DEF Frames
<1>8. n \in Active /\ n # Nil
  BY <1>1, <1>5, NodeFacts DEF Active, Nil
<1>9. \A f \in 1..(k - 1) : stack[f].node # n
  <2>1. \A f \in 1..(k - 1) : n < stack[f].node
    BY <1>1, <1>2, <1>5 DEF Frames
  <2> QED
    BY <1>1, <1>5, <2>1, NodeFacts DEF Ids
<1>10. DOMAIN nodes[n].kids \subseteq Nat /\ \A j \in DOMAIN nodes[n].kids : j < Top.child
  <2>1. DOMAIN nodes[n].kids = 1..Len(nodes[n].kids) /\ Len(nodes[n].kids) \in Nat
    BY <1>1, <1>5, NodeFacts
  <2>2. Top.child > Len(nodes[n].kids)
    BY <1>0, <1>2 DEF Done
  <2>3. Top.child \in Nat
    BY <1>5
  <2> QED
    BY <2>1, <2>2, <2>3
<1>11. Frames'
  <2> SUFFICES ASSUME k # 1 PROVE Frames'
    BY <1>2 DEF Frames
  <2>1. 1 \in 1..(k - 1)
    BY <1>5
  <2>2. stack'[1].node \in Roots'
    <3>1. stack'[1].node = stack[1].node
      BY <1>6, <2>1
    <3> QED
      BY <1>1, <1>2, <1>9, <2>1, <3>1 DEF Frames, Roots
  <2>3. ASSUME NEW f \in 1..(k - 1) PROVE Midway(f)'
    <3> DEFINE p == stack[f].node
    <3>1. f \in 1..k /\ Midway(f) /\ DOMAIN nodes[p].kids \subseteq Nat
      BY <1>1, <1>5, <1>7, NodeFacts
    <3>2. p \in live' \ names' /\ (TypeOf(p) = "block" => p \in lists')
      BY <1>2, <1>9, <3>1 DEF Midway
    <3>3. ASSUME NEW j \in DOMAIN nodes[p].kids, j >= stack[f].child
          PROVE  Kid(p, j) \in live' \cup {Nil}
      <4>1. Kid(p, j) \notin Active
        BY <1>0, <1>2, <3>1, <3>3, ChildNotActive
      <4> QED
        BY <1>2, <1>8, <3>1, <3>3, <4>1 DEF Midway
    <3>4. ASSUME NEW j \in DOMAIN nodes[p].kids, j < stack[f].child - 1
          PROVE  Kid(p, j) \notin live'
      BY <1>2, <3>1, <3>4 DEF Midway
    <3>5. ASSUME NEW j \in DOMAIN nodes[p].kids, j = stack[f].child - 1, f = k - 1
          PROVE  Kid(p, j) \notin live'
      <4>1. k \in 1..k /\ k > 1
        BY <1>5, <2>1
      <4>2. Nested(k) /\ k - 1 = f
        BY <1>1, <1>2, <1>5, <3>5, <4>1 DEF Frames
      <4>3. Kid(p, j) = n
        BY <1>5, <3>5, <4>2 DEF Nested
      <4> QED
        BY <1>2, <4>3
    <3> HIDE DEF p
    <3>6. stack'[f].node = p /\ stack'[f].child = stack[f].child
      BY <1>6 DEF p
    <3> QED
      BY <1>2, <1>6, <3>2, <3>3, <3>4, <3>5, <3>6 DEF Midway, Kid, TypeOf
  <2>4. ASSUME NEW f \in 1..(k - 1), f > 1 PROVE Nested(f)'
    <3>1. Nested(f) /\ f - 1 \in 1..(k - 1)
      BY <1>1, <1>2, <1>5, <2>4 DEF Frames
    <3> QED
      BY <1>2, <1>6, <3>1 DEF Nested, Kid
  <2>5. ASSUME NEW f \in 1..(k - 1), NEW g \in 1..(k - 1), f < g
        PROVE  stack'[g].node < stack'[f].node
    <3>1. f \in DOMAIN stack /\ g \in DOMAIN stack
      BY <1>5
    <3>2. stack[g].node < stack[f].node
      BY <1>1, <1>2, <2>5, <3>1 DEF Frames
    <3> QED
      BY <1>6, <3>2
  <2> QED
    BY <1>6, <2>2, <2>3, <2>4, <2>5 DEF Frames
<1>12. Whole'
  <2>1. \A m \in Active : m = n \/ m \in Active'
    <3>1. \A f \in 1..k : f = k \/ f \in 1..(k - 1)
      BY <1>5
    <3> QED
      BY <1>5, <1>6, <3>1 DEF Active
  <2>2. ASSUME NEW m \in live, NEW j \in DOMAIN nodes[m].kids, Kid(m, j) = n
        PROVE  \E f \in 1..(k - 1) : stack'[f].node = m
    <3>1. \E f \in 1..(k - 1) : stack[f].node = m
      BY <1>0, <1>2, <1>8, <2>2, ActiveIsVisited
    <3> QED
      BY <1>6, <3>1
  <2>3. ASSUME NEW m \in live', ~(call' = "free" /\ m \in Active') PROVE Intact(m)'
    <3>1. m \in live /\ m # n /\ m \in Ids
      BY <1>1, <1>2 DEF AstTypes
    <3>2. m \notin Active'
      BY <1>2, <1>6, <2>3 DEF Active
    <3>3. Intact(m)
      BY <1>1, <2>1, <3>1, <3>2 DEF Whole
    <3>4. n \notin Kids(m)
      BY <1>6, <2>2, <3>1, <3>2 DEF Active, Kids, Kid
    <3> QED
      BY <1>2, <3>1, <3>3, <3>4 DEF Intact, Kids, TypeOf
  <2>4. Gone(n)'
    <3>1. \A j \in DOMAIN nodes[n].kids : Kid(n, j) \notin live
      <4>1. Midway(k) /\ k \in 1..k
        BY <1>5, <1>7
      <4>2. \A j \in DOMAIN nodes[n].kids : j < Top.child - 1 \/ j = Top.child - 1
        BY <1>5, <1>10
      <4> QED
        BY <1>5, <4>1, <4>2 DEF Midway
    <3>2. n \notin names
      <4>1. Midway(k) /\ k \in 1..k
        BY <1>5, <1>7
      <4> QED
        BY <1>5, <4>1 DEF Midway
    <3> QED
      BY <1>2, <3>1, <3>2 DEF Gone, Kids, Kid
  <2>5. ASSUME NEW m \in Ids, m \notin live PROVE Gone(m)'
    BY <1>1, <1>2, <2>5 DEF Whole, Gone, Kids
  <2>6. ASSUME NEW m \in Ids, m \notin live' PROVE Gone(m)'
    BY <1>2, <2>4, <2>5, <2>6
  <2>7. Ids' = Ids
    BY <1>2 DEF Ids
  <2> QED
    BY <2>3, <2>6, <2>7 DEF Whole
<1> QED
  BY <1>3, <1>4, <1>11, <1>12 DEF IInv

\* What a caller gives a new node.
LEMMA ChildrenGiven ==
  ASSUME AstTypes, NEW t \in Types, NEW s \in Children(t)
  PROVE  /\ s \in Seq(Nat) /\ DOMAIN s = 1..Len(s) /\ Len(s) \in Nat
         /\ t # "block" => Len(s) = Len(Fields[t])
         /\ \A j \in DOMAIN s : s[j] \in Roots \cup {Nil} /\ Fits(t, j, TypeOf(s[j]))
         /\ \A j, l \in DOMAIN s : s[j] = s[l] /\ s[j] # Nil => j = l
<1> DEFINE free == Roots \cup {Nil}
           lengths == IF t = "block" THEN 0..MaxList ELSE {Len(Fields[t])}
<1>1. /\ s \in UNION {[1..m -> free] : m \in lengths}
      /\ \A j \in DOMAIN s : TypeOf(s[j]) \in (IF t = "block" THEN Stmts ELSE Fields[t][j])
      /\ \A j, l \in DOMAIN s : s[j] = s[l] /\ s[j] # Nil => j = l
  BY DEF Children
<1>2. lengths \subseteq Nat
  <2>1. CASE t = "block"
    BY <2>1, AstAssumption
  <2>2. CASE t # "block"
    <3>1. Len(Fields[t]) \in Nat
      BY <2>2, AstAssumption DEF Fields, Exprs, Stmts
    <3> QED
      BY <2>2, <3>1
  <2> QED
    BY <2>1, <2>2
<1>3. free \subseteq Nat
  <2>1. Roots \subseteq live /\ live \subseteq Ids
    BY DEF Roots, AstTypes
  <2>2. Ids \subseteq Nat
    BY NodeFacts DEF Ids
  <2> QED
    BY <2>1, <2>2 DEF Nil
<1> HIDE DEF free
<1>4. PICK m \in lengths : s \in [1..m -> free]
  BY <1>1
<1>5. m \in Nat
  BY <1>2, <1>4
<1>6. s \in Seq(free) /\ Len(s) = m
  BY <1>4, <1>5
<1>7. s \in Seq(Nat)
  BY <1>3, <1>6, SeqMonotonic
<1> QED
  BY <1>1, <1>4, <1>5, <1>6, <1>7 DEF Fits, free

\* A create function puts a node above some of the roots.
LEMMA CreateStep ==
  ASSUME IInv, NEW t \in Types, Create(t)
  PROVE  IInv'
<1>0. PICK new : new = Len(nodes) + 1
  OBVIOUS
<1>1. AstTypes /\ Wired /\ OneParent /\ Whole
  BY DEF IInv
<1>2. PICK s \in Children(t) : nodes' = Append(nodes, [type |-> t, kids |-> s])
  BY DEF Create
<1>3. /\ call = "none" /\ call' = "none" /\ stack' = stack
      /\ live' = live \cup {new}
      /\ names' = (IF t \in Named THEN names \cup {new} ELSE names)
      /\ lists' = (IF t = "block" THEN lists \cup {new} ELSE lists)
  BY <1>0 DEF Create
<1>4. /\ s \in Seq(Nat) /\ DOMAIN s = 1..Len(s) /\ Len(s) \in Nat
      /\ t # "block" => Len(s) = Len(Fields[t])
      /\ \A j \in DOMAIN s : s[j] \in Roots \cup {Nil} /\ Fits(t, j, TypeOf(s[j]))
      /\ \A j, l \in DOMAIN s : s[j] = s[l] /\ s[j] # Nil => j = l
  BY <1>1, <1>2, ChildrenGiven
<1>5. /\ nodes' \in Seq([type : Types, kids : Seq(Nat)])
      /\ Len(nodes') = new /\ Len(nodes) \in Nat
      /\ nodes'[new] = [type |-> t, kids |-> s]
      /\ \A n \in Ids : nodes'[n] = nodes[n]
  <2> DEFINE S == [type : Types, kids : Seq(Nat)]
             e == [type |-> t, kids |-> s]
  <2>1. nodes \in Seq(S) /\ e \in S
    BY <1>1, <1>4 DEF AstTypes
  <2> HIDE DEF S, e
  <2>2. /\ Append(nodes, e) \in Seq(S)
        /\ Len(Append(nodes, e)) = Len(nodes) + 1 /\ Len(nodes) \in Nat
        /\ \A f \in 1..Len(nodes) : Append(nodes, e)[f] = nodes[f]
        /\ Append(nodes, e)[Len(nodes) + 1] = e
    BY <2>1, AppendFacts
  <2> QED
    BY <1>0, <1>2, <2>2 DEF S, e, Ids
<1>6. /\ Ids' = Ids \cup {new} /\ new \notin Ids /\ new \in Nat
      /\ \A n \in Ids : n \in 1..(new - 1)
      /\ live \subseteq Ids /\ names \subseteq Ids /\ lists \subseteq Ids
  <2>1. live \subseteq Ids /\ names \subseteq Ids /\ lists \subseteq Ids
    BY <1>1 DEF AstTypes
  <2>2. Ids = 1..(new - 1) /\ new \in Nat \ {0} /\ Ids' = 1..new
    BY <1>0, <1>5 DEF Ids
  <2> QED
    BY <2>1, <2>2
<1>7. \A n \in Ids : nodes'[n].kids = nodes[n].kids /\ nodes'[n].type = nodes[n].type
  BY <1>5
<1>8. nodes'[new].kids = s /\ nodes'[new].type = t
  BY <1>5
<1>9. stack = <<>>
  BY <1>1, <1>3 DEF AstTypes
<1>10. AstTypes'
  <2>1. <<>> \in Seq([node : Ids', child : Nat \ {0}])
    OBVIOUS
  <2>2. live' \subseteq Ids' /\ names' \subseteq Ids' /\ lists' \subseteq Ids'
    BY <1>3, <1>6
  <2> QED
    BY <1>3, <1>5, <1>9, <2>1, <2>2 DEF AstTypes
<1>11. \A n \in Ids \cup {Nil} : n # new /\ TypeOf(n)' = TypeOf(n)
  BY <1>0, <1>5, <1>6, <1>7 DEF TypeOf, Nil
<1>12. Roots \subseteq Ids /\ Roots \subseteq live /\ 0 \notin live
  BY <1>1, <1>6, NodeFacts DEF Roots
<1>13. Wired'
  <2>1. ASSUME NEW n \in Ids
        PROVE  /\ nodes'[n].type # "block" => Len(nodes'[n].kids) = Len(Fields[nodes'[n].type])
               /\ \A j \in DOMAIN nodes'[n].kids :
                    LET c == nodes'[n].kids[j]
                    IN  /\ c \in 0..(n - 1)
                        /\ Fits(nodes'[n].type, j,
                                IF c = Nil THEN "null" ELSE nodes'[c].type)
    <3>1. ASSUME NEW j \in DOMAIN nodes[n].kids, NEW c, c = Kid(n, j)
          PROVE  /\ c \in 0..(n - 1)
                 /\ Fits(nodes[n].type, j, IF c = Nil THEN "null" ELSE nodes'[c].type)
      <4>1. c \in 0..(n - 1) /\ Fits(nodes[n].type, j, TypeOf(c))
        BY <1>1, <3>1 DEF Wired
      <4>2. c \in Ids \cup {Nil}
        BY <1>5, <4>1 DEF Ids, Nil
      <4>3. TypeOf(c) = IF c = Nil THEN "null" ELSE nodes'[c].type
        BY <1>7, <4>2 DEF TypeOf
      <4> QED
        BY <4>1, <4>3
    <3>2. nodes[n].type # "block" => Len(nodes[n].kids) = Len(Fields[nodes[n].type])
      BY <1>1 DEF Wired
    <3> QED
      BY <1>7, <3>1, <3>2 DEF Kid
  <2>2. \A j \in DOMAIN s : s[j] \in 0..(new - 1)
    BY <1>4, <1>5, <1>6, <1>12 DEF Ids, Nil
  <2>3. \A j \in DOMAIN s : Fits(t, j, IF s[j] = Nil THEN "null" ELSE nodes'[s[j]].type)
    <3>1. ASSUME NEW j \in DOMAIN s
          PROVE  TypeOf(s[j]) = IF s[j] = Nil THEN "null" ELSE nodes'[s[j]].type
      BY <1>4, <1>7, <1>12 DEF TypeOf, Nil
    <3> QED
      BY <1>4, <3>1
  <2> QED
    BY <1>4, <1>6, <1>8, <2>1, <2>2, <2>3 DEF Wired, Kid, TypeOf
<1>14. OneParent'
  <2>1. ASSUME NEW p \in live, NEW j \in DOMAIN nodes[p].kids, NEW l \in DOMAIN s,
               Kid(p, j) = s[l], s[l] # Nil
        PROVE  FALSE
    BY <1>4, <2>1 DEF Roots, Kid
  <2>2. \A p, q \in live' : \A j \in DOMAIN nodes'[p].kids, l \in DOMAIN nodes'[q].kids :
          nodes'[p].kids[j] = nodes'[q].kids[l] /\ nodes'[p].kids[j] # Nil => p = q /\ j = l
    <3> SUFFICES ASSUME NEW p \in live', NEW q \in live', NEW j \in DOMAIN nodes'[p].kids,
                        NEW l \in DOMAIN nodes'[q].kids,
                        nodes'[p].kids[j] = nodes'[q].kids[l], nodes'[p].kids[j] # Nil
                 PROVE  p = q /\ j = l
      OBVIOUS
    <3>1. CASE p \in live /\ q \in live
      BY <1>1, <1>6, <1>7, <3>1 DEF OneParent, Kid
    <3>2. CASE p \in live /\ q = new
      BY <1>6, <1>7, <1>8, <2>1, <3>2 DEF Kid
    <3>3. CASE p = new /\ q \in live
      BY <1>6, <1>7, <1>8, <2>1, <3>3 DEF Kid
    <3>4. CASE p = new /\ q = new
      BY <1>4, <1>8, <3>4
    <3> QED
      BY <1>3, <3>1, <3>2, <3>3, <3>4
  <2> QED
    BY <2>2 DEF OneParent, Kid
<1>15. Frames'
  BY <1>3 DEF Frames
<1>16. Whole'
  <2>1. ASSUME NEW n \in Ids PROVE Kids(n)' = Kids(n) /\ new \notin Kids(n)
    <3>1. Kids(n)' = Kids(n)
      BY <1>7 DEF Kids
    <3>2. \A j \in DOMAIN nodes[n].kids : Kid(n, j) \in 0..(n - 1)
      BY <1>1 DEF Wired
    <3> QED
      BY <1>6, <3>1, <3>2 DEF Kids, Kid
  <2>2. ASSUME NEW n \in Ids, n \in live PROVE Intact(n)'
    <3>1. Intact(n)
      BY <1>1, <1>3, <2>2 DEF Whole
    <3>2. TypeOf(n)' = TypeOf(n)
      BY <1>7 DEF TypeOf
    <3> QED
      BY <1>3, <2>1, <3>1, <3>2 DEF Intact
  <2>3. ASSUME NEW n \in Ids, n \notin live PROVE Gone(n)'
    <3>1. Gone(n)
      BY <1>1, <2>3 DEF Whole
    <3> QED
      BY <1>3, <1>6, <2>1, <3>1 DEF Gone
  <2>4. Intact(new)'
    <3>1. Kids(new)' \subseteq live
      BY <1>4, <1>8, <1>12 DEF Kids
    <3>2. TypeOf(new)' = t
      BY <1>0, <1>5, <1>8 DEF TypeOf, Nil
    <3> QED
      BY <1>3, <3>1, <3>2 DEF Intact
  <2> QED
    BY <1>3, <1>6, <2>2, <2>3, <2>4 DEF Whole
<1> QED
  BY <1>10, <1>13, <1>14, <1>15, <1>16 DEF IInv

-----------------------------------------------------------------------------

\* No node exists yet.
LEMMA InitIInv == Init => IInv
<1> SUFFICES ASSUME Init PROVE IInv
  OBVIOUS
<1>1. Ids = {} /\ live = {} /\ nodes = <<>>
  BY DEF Init, Ids
<1>2. AstTypes
  <2>1. nodes \in Seq([type : Types, kids : Seq(Nat)])
    BY <1>1
  <2>2. stack \in Seq([node : Ids, child : Nat \ {0}])
    BY DEF Init
  <2> QED
    BY <1>1, <2>1, <2>2 DEF Init, AstTypes
<1> QED
  BY <1>1, <1>2 DEF Init, IInv, Wired, OneParent, Frames, Whole

\* Every step preserves the induction hypothesis.
LEMMA StepIInv == IInv /\ [Next]_vars => IInv'
<1> SUFFICES ASSUME IInv, [Next]_vars PROVE IInv'
  OBVIOUS
<1>1. ASSUME NEW t \in Types, Create(t) PROVE IInv'
  BY <1>1, CreateStep
<1>2. ASSUME NEW n \in live, FreeCall(n) PROVE IInv'
  BY <1>2, FreeCallStep
<1>3. ASSUME NEW n \in live, PrintCall(n) PROVE IInv'
  <2>1. /\ call = "none" /\ call' = "print" /\ stack' = <<EnterPrint(n)>> /\ UNCHANGED heap
    BY <1>3 DEF PrintCall
  <2>2. AstTypes /\ UNCHANGED <<nodes, live, names, lists>>
    BY <2>1 DEF IInv, heap
  <2>3. EnterPrint(n) \in [node : Ids, child : Nat \ {0}]
    BY <2>2 DEF EnterPrint, AstTypes
  <2>4. AstTypes'
    BY <2>1, <2>2, <2>3 DEF AstTypes, Ids
  <2> QED
    BY <2>1, <2>4, HeapUnchanged
<1>4. CASE SkipChild
  <2>1. CASE call = "free"
    BY <1>4, <2>1, SkipStep
  <2>2. CASE call # "free"
    BY <1>4, <2>2, StepTypes, HeapUnchanged DEF SkipChild
  <2> QED
    BY <2>1, <2>2
<1>5. CASE FreeChild
  BY <1>5, FreeChildStep
<1>6. CASE FreeReturn
  BY <1>6, FreeReturnStep
<1>7. CASE PrintChild
  BY <1>7, StepTypes, HeapUnchanged DEF PrintChild
<1>8. CASE PrintReturn
  BY <1>8, StepTypes, HeapUnchanged DEF PrintReturn
<1>9. CASE UNCHANGED vars
  BY <1>9 DEF vars, IInv, AstTypes, Wired, OneParent, Frames, Whole, Ids, Kid, Fits,
     TypeOf, Roots, Midway, Nested, Active, Intact, Gone, Kids
<1> QED
  BY <1>1, <1>2, <1>3, <1>4, <1>5, <1>6, <1>7, <1>8, <1>9 DEF Next, Step, Stopped

\* The induction hypothesis holds: trees are wired as the header says, a call
\* that frees is where its stack says, and every other node is whole or gone.
THEOREM TreesIntact == Spec => []IInv
<1> QED
  BY InitIInv, StepIInv, PTL DEF Spec

\* No assert of ast.c fails, in traversals of trees of any size and shape
\* (ast.c:28-418).
THEOREM AssertsAlwaysHold == Spec => []AssertsHold
<1>1. IInv => AssertsHold
  BY NextChild DEF AssertsHold
<1> QED
  BY <1>1, TreesIntact, PTL

\* Freeing reads nothing it has freed, and frees nothing twice (ast.c:28-418).
THEOREM FreedIsNeverRead == Spec => []NothingReadAfterFree
<1>1. ASSUME IInv, call = "free", NEW f \in 1..Len(stack) PROVE Midway(f)
  <2>1. AstTypes /\ stack # <<>> /\ Frames
    BY <1>1 DEF IInv, AstTypes
  <2> QED
    BY <1>1, <2>1, StackFacts DEF Frames
<1>2. ASSUME IInv, call = "free", NEW m \in live \ Active PROVE Intact(m)
  BY <1>2 DEF IInv, Whole, AstTypes
<1>3. ASSUME IInv, call = "free", NEW f \in 1..Len(stack),
             NEW j \in DOMAIN nodes[stack[f].node].kids, j >= stack[f].child,
             Kid(stack[f].node, j) # Nil
      PROVE  Intact(Kid(stack[f].node, j))
  <2>1. Kid(stack[f].node, j) \in live
    BY <1>1, <1>3 DEF Midway
  <2>2. Kid(stack[f].node, j) \notin Active
    BY <1>3, ChildNotActive
  <2> QED
    BY <1>2, <1>3, <2>1, <2>2
<1>4. ASSUME IInv, call = "free" PROVE DOMAIN stack = 1..Len(stack)
  BY <1>4 DEF IInv, AstTypes
<1>5. IInv => NothingReadAfterFree
  BY <1>1, <1>2, <1>3, <1>4 DEF NothingReadAfterFree, Midway, Kid
<1> QED
  BY <1>5, TreesIntact, PTL

\* What create allocated, free gives back, all of it and nothing else
\* (ast.h:193-194).
THEOREM TreesWholeOrGone == Spec => []WholeOrGone
<1>1. IInv => WholeOrGone
  BY DEF IInv, Whole, WholeOrGone
<1> QED
  BY <1>1, TreesIntact, PTL
-----------------------------------------------------------------------------
(***************************************************************************)
(* What printNode shows.  A call has shown its node and, of the children   *)
(* it has come to, what they have to show; the texts of the active calls,  *)
(* one after the other, are what was printed.                              *)
(***************************************************************************)

\* The least of some numbers.
LEMMA LeastOf ==
  ASSUME NEW P \in SUBSET Nat, P # {}
  PROVE  \E n \in P : \A m \in P : n <= m
<1>1. PICK n \in P : \A m \in P : <<m, n>> \notin OpToRel(<, Nat)
  BY NatLessThanWellFounded, WFMin
<1>2. ASSUME NEW m \in P PROVE n <= m
  <2>1. n \in Nat /\ m \in Nat
    OBVIOUS
  <2>2. ~(m < n)
    BY <1>1, <2>1 DEF OpToRel
  <2> QED BY <2>1, <2>2
<1> QED BY <1>2

Orders == Seq(Nat)

LEMMA Associate == \A s, t, u \in Orders : s \o (t \o u) = (s \o t) \o u
BY ConcatAssociative DEF Orders

\* Sequences put together one by one.
Joined(f, ts, m) ==
  /\ f \in [0..m -> Orders]
  /\ f[0] = <<>>
  /\ \A i \in 1..m : f[i] = f[i - 1] \o ts[i]

LEMMA JoinExists ==
  ASSUME NEW m \in Nat, NEW ts \in [1..m -> Orders]
  PROVE  \E f : Joined(f, ts, m)
<1> DEFINE Bad == {k \in 0..m : ~\E f : Joined(f, ts, k)}
<1> SUFFICES ASSUME Bad # {} PROVE FALSE
  <2>1. m \in 0..m
    OBVIOUS
  <2> QED BY <2>1, Zenon
<1>1. PICK k \in Bad : \A l \in Bad : k <= l
  <2>1. Bad \in SUBSET Nat
    OBVIOUS
  <2> HIDE DEF Bad
  <2> QED BY <2>1, LeastOf
<1>2. k # 0
  <2> SUFFICES ASSUME k = 0 PROVE FALSE
      OBVIOUS
  <2> DEFINE f == [i \in 0..0 |-> <<>>]
  <2>1. Joined(f, ts, 0)
    BY DEF Joined, Orders
  <2> QED BY <1>1, <2>1
<1>3. k - 1 \in 0..m /\ k - 1 \notin Bad /\ k \in 1..m
  <2>1. k \in 0..m
    BY <1>1
  <2> HIDE DEF Bad
  <2> QED BY <1>1, <1>2, <2>1
<1>4. PICK e : Joined(e, ts, k - 1)
  BY <1>3
<1> DEFINE f == [i \in 0..k |-> IF i = k THEN e[k - 1] \o ts[k] ELSE e[i]]
<1>5. e \in [0..(k - 1) -> Orders] /\ e[k - 1] \in Orders /\ ts[k] \in Orders
  BY <1>3, <1>4 DEF Joined
<1>6. e[k - 1] \o ts[k] \in Orders
  BY <1>5, ConcatProperties DEF Orders
<1>7. f \in [0..k -> Orders] /\ f[0] = <<>>
  BY <1>2, <1>3, <1>4, <1>5, <1>6 DEF Joined
<1>8. \A i \in 1..k : f[i] = f[i - 1] \o ts[i]
  <2> SUFFICES ASSUME NEW i \in 1..k PROVE f[i] = f[i - 1] \o ts[i]
      OBVIOUS
  <2>1. f[i - 1] = e[i - 1] /\ f[i] = IF i = k THEN e[k - 1] \o ts[k] ELSE e[i]
    BY <1>3
  <2>2. i # k => e[i] = e[i - 1] \o ts[i]
    <3>1. i # k => i \in 1..(k - 1)
      BY <1>3
    <3> QED BY <1>4, <3>1 DEF Joined
  <2> HIDE DEF f
  <2> QED BY <2>1, <2>2
<1>9. Joined(f, ts, k)
  BY <1>7, <1>8 DEF Joined
<1> QED BY <1>1, <1>9

\* FlattenSeq puts its sequences together one by one.
LEMMA FlattenJoins ==
  ASSUME NEW m \in Nat, NEW ts \in [1..m -> Orders]
  PROVE  \E f : Joined(f, ts, m) /\ FlattenSeq(ts) = f[m]
<1> DEFINE G(f) == [i \in 1..Len(ts) |-> IF i = 1 THEN ts[i] ELSE f[i - 1] \o ts[i]]
           w == CHOOSE f : f = G(f)
<1>1. PICK h : Joined(h, ts, m)
  BY JoinExists
<1>2. ts \in Seq(Orders) /\ Len(ts) = m
  OBVIOUS
<1>3. CASE m = 0
  <2>1. ts = <<>>
    BY <1>2, <1>3, EmptySeq
  <2>2. FlattenSeq(ts) = ts
    BY <1>2, <1>3 DEF FlattenSeq
  <2> QED BY <1>1, <1>3, <2>1, <2>2 DEF Joined
<1>4. CASE m # 0
  <2> DEFINE f0 == [i \in 1..m |-> h[i]]
  <2>1. FlattenSeq(ts) = w[m]
    BY <1>2, <1>4 DEF FlattenSeq
  <2>2. ASSUME NEW i \in 1..m
        PROVE  h[i] = IF i = 1 THEN ts[i] ELSE h[i - 1] \o ts[i]
    <3>1. h[i] = h[i - 1] \o ts[i]
      BY <1>1 DEF Joined
    <3>2. CASE i = 1
      <4>1. h[i - 1] = <<>> /\ ts[i] \in Orders
        BY <1>1, <3>2 DEF Joined
      <4>2. <<>> \o ts[i] = ts[i]
        BY <4>1, ConcatEmptySeq DEF Orders
      <4> QED BY <3>1, <3>2, <4>1, <4>2
    <3> QED BY <3>1, <3>2
  <2>3. f0 = G(f0)
    <3>1. ASSUME NEW i \in 1..m, i # 1 PROVE f0[i - 1] = h[i - 1]
      BY <3>1
    <3>2. ASSUME NEW i \in 1..m PROVE f0[i] = IF i = 1 THEN ts[i] ELSE f0[i - 1] \o ts[i]
      <4>1. f0[i] = h[i]
        OBVIOUS
      <4> HIDE DEF f0
      <4> QED BY <2>2, <3>1, <4>1
    <3> QED BY <1>2, <3>2
  <2>4. w = G(w)
    <3>1. w = CHOOSE f : f = G(f)
      OBVIOUS
    <3> HIDE DEF w, G, f0
    <3> QED BY <2>3, <3>1, Zenon
  <2> HIDE DEF w
  <2>5. ASSUME NEW i \in 1..m PROVE w[i] = IF i = 1 THEN ts[i] ELSE w[i - 1] \o ts[i]
    <3>1. G(w)[i] = IF i = 1 THEN ts[i] ELSE w[i - 1] \o ts[i]
      BY <1>2
    <3> HIDE DEF G
    <3> QED BY <2>4, <3>1, Zenon
  <2> DEFINE Bad == {i \in 1..m : w[i] # h[i]}
  <2>6. Bad = {}
    <3> SUFFICES ASSUME Bad # {} PROVE FALSE
        OBVIOUS
    <3>1. Bad \in SUBSET Nat
      OBVIOUS
    <3>2. PICK i \in Bad : \A l \in Bad : i <= l
      <4> HIDE DEF Bad
      <4> QED BY <3>1, LeastOf
    <3>3. i \in 1..m
      OBVIOUS
    <3>4. i # 1 => w[i - 1] = h[i - 1]
      <4>1. ~(i <= i - 1) /\ (i # 1 => i - 1 \in 1..m)
        BY <3>3
      <4> QED BY <3>2, <4>1
    <3>5. w[i] = h[i]
      <4> HIDE DEF Bad
      <4> QED BY <2>2, <2>5, <3>3, <3>4
    <3> QED BY <3>2, <3>5
  <2>7. w[m] = h[m]
    BY <1>4, <2>6
  <2> QED BY <1>1, <2>1, <2>7
<1> QED BY <1>3, <1>4
\* What node number c is among the nodes of N, and whether it is shown.
TypeIn(N, c) == IF c = Nil THEN "null" ELSE N[c].type
Shows(N, c) == c # Nil /\ TypeIn(N, c) # "extern"

\* What child j of n has to show, by y.
Piece(N, y, n, j) == IF Shows(N, N[n].kids[j]) THEN y[N[n].kids[j]] ELSE <<>>
Listing(N, y, n) == <<n>> \o FlattenSeq([j \in DOMAIN N[n].kids |-> Piece(N, y, n, j)])

\* Preorder of the nodes of N.
PreorderOf(N) == CHOOSE f : f = [n \in 1..Len(N) |-> Listing(N, f, n)]

\* Children were there before their parent.
Grown(N) ==
  /\ Len(N) \in Nat
  /\ \A n \in 1..Len(N) :
       /\ N[n].kids \in Seq(Nat)
       /\ \A j \in 1..Len(N[n].kids) : N[n].kids[j] \in 0..(n - 1)

Ordering(N, y, k) ==
  /\ y \in [1..k -> Orders]
  /\ \A n \in 1..k : y[n] = Listing(N, y, n)

LEMMA PreorderOfNodes == Preorder = PreorderOf(nodes)
BY DEF Preorder, PreorderOf, Listing, Piece, Shows, TypeIn, TypeOf, Ids

\* What the children have to show, one after the other.
LEMMA Pieces ==
  ASSUME NEW N, Grown(N), NEW n \in 1..Len(N), NEW y, \A k \in 1..(n - 1) : y[k] \in Orders
  PROVE  \E f : /\ Joined(f, [j \in DOMAIN N[n].kids |-> Piece(N, y, n, j)], Len(N[n].kids))
                /\ Listing(N, y, n) = <<n>> \o f[Len(N[n].kids)]
                /\ Listing(N, y, n) \in Orders
<1> DEFINE ts == [j \in DOMAIN N[n].kids |-> Piece(N, y, n, j)]
<1>1. N[n].kids \in Seq(Nat) /\ \A j \in 1..Len(N[n].kids) : N[n].kids[j] \in 0..(n - 1)
  BY DEF Grown
<1>2. PICK m \in Nat : m = Len(N[n].kids)
  BY <1>1
<1>3. DOMAIN N[n].kids = 1..m
  BY <1>1, <1>2
<1>4. ASSUME NEW j \in 1..m PROVE Piece(N, y, n, j) \in Orders
  <2>1. N[n].kids[j] \in 0..(n - 1)
    BY <1>1, <1>2
  <2>2. <<>> \in Orders
    BY DEF Orders
  <2>3. N[n].kids[j] # 0 => y[N[n].kids[j]] \in Orders
    <3>1. N[n].kids[j] # 0 => N[n].kids[j] \in 1..(n - 1)
      BY <2>1
    <3> QED BY <3>1, Zenon
  <2> QED BY <2>2, <2>3 DEF Piece, Shows, Nil
<1>5. ts \in [1..m -> Orders]
  BY <1>3, <1>4
<1> HIDE DEF ts
<1>6. PICK f : Joined(f, ts, m) /\ FlattenSeq(ts) = f[m]
  BY <1>5, FlattenJoins
<1>7. Listing(N, y, n) = <<n>> \o f[m]
  BY <1>6 DEF Listing, ts
<1>8. <<n>> \o f[m] \in Orders
  <2>1. f[m] \in Orders
    BY <1>6 DEF Joined
  <2>2. <<n>> \in Orders
    BY DEF Orders, Grown
  <2> QED BY <2>1, <2>2, ConcatProperties DEF Orders
<1> QED BY <1>2, <1>6, <1>7, <1>8 DEF ts

\* A node's listing looks at its children only.
LEMMA ListingLooks ==
  ASSUME NEW N, Grown(N), NEW n \in 1..Len(N), NEW y, NEW z,
         \A k \in 1..(n - 1) : y[k] = z[k]
  PROVE  Listing(N, y, n) = Listing(N, z, n)
<1>1. N[n].kids \in Seq(Nat) /\ \A j \in 1..Len(N[n].kids) : N[n].kids[j] \in 0..(n - 1)
  BY DEF Grown
<1>2. DOMAIN N[n].kids = 1..Len(N[n].kids)
  BY <1>1
<1>3. ASSUME NEW j \in DOMAIN N[n].kids PROVE Piece(N, y, n, j) = Piece(N, z, n, j)
  <2>1. N[n].kids[j] \in 0..(n - 1)
    BY <1>1, <1>2
  <2>2. N[n].kids[j] # 0 => N[n].kids[j] \in 1..(n - 1)
    BY <2>1
  <2> QED BY <2>2 DEF Piece, Shows, Nil
<1>4. [j \in DOMAIN N[n].kids |-> Piece(N, y, n, j)]
      = [j \in DOMAIN N[n].kids |-> Piece(N, z, n, j)]
  BY <1>3
<1> QED BY <1>4, Zenon DEF Listing

LEMMA OrderingExists ==
  ASSUME NEW N, Grown(N)
  PROVE  \E y : Ordering(N, y, Len(N))
<1>0. Len(N) \in Nat
  BY DEF Grown
<1> DEFINE Bad == {k \in 0..Len(N) : ~\E y : Ordering(N, y, k)}
<1> SUFFICES ASSUME Bad # {} PROVE FALSE
  <2>1. Len(N) \in 0..Len(N)
    BY <1>0
  <2> QED BY <2>1, Zenon
<1>1. PICK k \in Bad : \A l \in Bad : k <= l
  <2>1. Bad \in SUBSET Nat
    OBVIOUS
  <2> HIDE DEF Bad
  <2> QED BY <2>1, LeastOf
<1>2. k \in 0..Len(N) /\ ~\E y : Ordering(N, y, k)
  OBVIOUS
<1>3. k # 0
  <2> SUFFICES ASSUME k = 0 PROVE FALSE
      OBVIOUS
  <2> DEFINE y0 == [i \in 1..0 |-> <<>>]
  <2>1. Ordering(N, y0, 0)
    BY DEF Ordering, Orders
  <2> QED BY <1>2, <2>1
<1>4. k - 1 \in 0..Len(N) /\ k \in 1..Len(N) /\ ~(k <= k - 1)
  BY <1>0, <1>2, <1>3
<1>5. PICK y : Ordering(N, y, k - 1)
  BY <1>1, <1>4
<1>6. y \in [1..(k - 1) -> Orders]
  BY <1>5 DEF Ordering
<1> DEFINE z == [i \in 1..k |-> IF i = k THEN Listing(N, y, k) ELSE y[i]]
<1>7. Listing(N, y, k) \in Orders
  <2>1. \A i \in 1..(k - 1) : y[i] \in Orders
    BY <1>6
  <2> QED BY <1>4, <2>1, Pieces
<1>8. z \in [1..k -> Orders]
  BY <1>4, <1>6, <1>7
<1>9. ASSUME NEW n \in 1..k PROVE z[n] = Listing(N, z, n)
  <2>1. ASSUME NEW i \in 1..(n - 1) PROVE y[i] = z[i]
    BY <1>4
  <2>2. n \in 1..Len(N)
    BY <1>4
  <2>3. z[n] = IF n = k THEN Listing(N, y, k) ELSE y[n]
    OBVIOUS
  <2>4. n # k => n \in 1..(k - 1)
    BY <1>4
  <2> HIDE DEF z
  <2>5. Listing(N, y, n) = Listing(N, z, n)
    BY <2>1, <2>2, ListingLooks
  <2>6. n # k => y[n] = Listing(N, y, n)
    BY <1>5, <2>4 DEF Ordering
  <2> QED BY <2>3, <2>5, <2>6
<1>10. Ordering(N, z, k)
  BY <1>8, <1>9 DEF Ordering
<1> QED BY <1>2, <1>10

LEMMA PreorderIs ==
  ASSUME NEW N, Grown(N)
  PROVE  Ordering(N, PreorderOf(N), Len(N))
<1> DEFINE G(f) == [n \in 1..Len(N) |-> Listing(N, f, n)]
           w == PreorderOf(N)
<1>0. Len(N) \in Nat
  BY DEF Grown
<1>1. PICK y : Ordering(N, y, Len(N))
  BY OrderingExists
<1>2. y = G(y)
  BY <1>1 DEF Ordering
<1>3. w = G(w)
  <2>1. w = CHOOSE f : f = G(f)
    BY DEF PreorderOf
  <2> HIDE DEF w, G
  <2> QED BY <1>2, <2>1, Zenon
<1> HIDE DEF w
<1>4. ASSUME NEW n \in 1..Len(N) PROVE w[n] = Listing(N, w, n)
  <2>1. G(w)[n] = Listing(N, w, n)
    OBVIOUS
  <2> HIDE DEF G
  <2> QED BY <1>3, <2>1, Zenon
<1> DEFINE Bad == {n \in 1..Len(N) : w[n] \notin Orders}
<1>5. Bad = {}
  <2> SUFFICES ASSUME Bad # {} PROVE FALSE
      OBVIOUS
  <2>1. Bad \in SUBSET Nat
    OBVIOUS
  <2>2. PICK n \in Bad : \A l \in Bad : n <= l
    <3> HIDE DEF Bad
    <3> QED BY <2>1, LeastOf
  <2>3. n \in 1..Len(N) /\ w[n] \notin Orders
    OBVIOUS
  <2>4. ASSUME NEW k \in 1..(n - 1) PROVE w[k] \in Orders
    <3>1. k \in 1..Len(N) /\ ~(n <= k)
      BY <1>0, <2>3
    <3> QED BY <2>2, <3>1
  <2>5. Listing(N, w, n) \in Orders
    <3> HIDE DEF Bad
    <3> QED BY <2>3, <2>4, Pieces
  <2> QED BY <1>4, <2>3, <2>5
<1>6. w = [n \in 1..Len(N) |-> w[n]]
  <2>1. DOMAIN G(w) = 1..Len(N) /\ G(w) = [n \in DOMAIN G(w) |-> G(w)[n]]
    OBVIOUS
  <2> HIDE DEF G
  <2> QED BY <1>3, <2>1, Zenon
<1>7. \A n \in 1..Len(N) : w[n] \in Orders
  BY <1>5
<1>8. w \in [1..Len(N) -> Orders]
  BY <1>6, <1>7
<1>9. Ordering(N, w, Len(N))
  BY <1>4, <1>8 DEF Ordering
<1> QED BY <1>9 DEF w

\* What a call at n has shown once it has left j children behind.
Partial(N, n, p) ==
  /\ p \in [0..Len(N[n].kids) -> Orders]
  /\ p[0] = <<n>>
  /\ \A j \in 1..Len(N[n].kids) : p[j] = p[j - 1] \o Piece(N, PreorderOf(N), n, j)
  /\ p[Len(N[n].kids)] = PreorderOf(N)[n]
Shown(N, n) == CHOOSE p : Partial(N, n, p)

LEMMA ShownIs ==
  ASSUME NEW N, Grown(N), NEW n \in 1..Len(N)
  PROVE  Partial(N, n, Shown(N, n))
<1> SUFFICES \E p : Partial(N, n, p)
    BY Zenon DEF Shown
<1>0. Len(N) \in Nat /\ N[n].kids \in Seq(Nat)
  BY DEF Grown
<1>1. PICK m \in Nat : m = Len(N[n].kids)
  BY <1>0
<1>2. DOMAIN N[n].kids = 1..m
  BY <1>0, <1>1
<1> DEFINE w == PreorderOf(N)
           ts == [j \in DOMAIN N[n].kids |-> Piece(N, w, n, j)]
<1>3. Ordering(N, w, Len(N))
  BY PreorderIs
<1>4. \A k \in 1..(n - 1) : w[k] \in Orders
  BY <1>0, <1>3 DEF Ordering
<1>5. w[n] = Listing(N, w, n)
  BY <1>3 DEF Ordering
<1> HIDE DEF w
<1>6. PICK f : Joined(f, ts, m) /\ Listing(N, w, n) = <<n>> \o f[m]
  BY <1>1, <1>4, Pieces
<1>7. \A j \in 1..m : ts[j] = Piece(N, w, n, j)
  BY <1>2
<1> HIDE DEF ts
<1>8. f \in [0..m -> Orders] /\ <<n>> \in Orders
  BY <1>0, <1>6 DEF Joined, Orders
<1> DEFINE p == [j \in 0..m |-> <<n>> \o f[j]]
<1>9. p \in [0..m -> Orders]
  <2>1. ASSUME NEW j \in 0..m PROVE <<n>> \o f[j] \in Orders
    <3>1. f[j] \in Orders
      BY <1>8
    <3> QED BY <1>8, <3>1, ConcatProperties DEF Orders
  <2> QED BY <2>1
<1>10. p[0] = <<n>>
  <2>0. f[0] = <<>> /\ 0 \in 0..m
    BY <1>6 DEF Joined
  <2>1. p[0] = <<n>> \o <<>>
    <3>1. p[0] = <<n>> \o f[0]
      BY <2>0
    <3> HIDE DEF p
    <3> QED BY <2>0, <3>1
  <2> HIDE DEF p
  <2> QED BY <1>8, <2>1, ConcatEmptySeq DEF Orders
<1>11. ASSUME NEW j \in 1..m PROVE p[j] = p[j - 1] \o Piece(N, w, n, j)
  <2>1. f[j] = f[j - 1] \o ts[j] /\ ts[j] = Piece(N, w, n, j)
    BY <1>6, <1>7 DEF Joined
  <2>2. j - 1 \in 0..m /\ j \in 0..m
    OBVIOUS
  <2>3. p[j] = <<n>> \o f[j] /\ p[j - 1] = <<n>> \o f[j - 1]
    BY <2>2
  <2>4. f[j - 1] \in Orders
    BY <1>8, <2>2
  <2>5. ts[j] \in Orders
    <3>1. N[n].kids[j] # 0 => w[N[n].kids[j]] \in Orders
      <4>1. N[n].kids[j] \in 0..(n - 1)
        BY <1>1 DEF Grown
      <4>2. N[n].kids[j] # 0 => N[n].kids[j] \in 1..(n - 1)
        BY <4>1
      <4> QED BY <1>4, <4>2
    <3>2. <<>> \in Orders
      BY DEF Orders
    <3>3. Piece(N, w, n, j) \in Orders
      BY <3>1, <3>2 DEF Piece, Shows, Nil
    <3> QED BY <2>1, <3>3
  <2>6. <<n>> \o (f[j - 1] \o ts[j]) = (<<n>> \o f[j - 1]) \o ts[j]
    BY <1>8, <2>4, <2>5, Associate, Zenon
  <2> HIDE DEF p
  <2> QED BY <2>1, <2>3, <2>6
<1>12. p[m] = w[n]
  BY <1>5, <1>6
<1> HIDE DEF p
<1>13. Partial(N, n, p)
  BY <1>1, <1>9, <1>10, <1>11, <1>12 DEF Partial, w
<1> QED BY <1>13
-----------------------------------------------------------------------------

\* How many children the call at place f of the stack st has shown: the calls
\* below the innermost one have moved on from a child that is not all shown.
Come(st, f) == st[f].child - (IF f = Len(st) THEN 1 ELSE 2)

\* pr is what the calls of st have shown, the outermost first.
Written(N, st, pr, g) ==
  /\ g \in [0..Len(st) -> Orders]
  /\ g[0] = <<>>
  /\ \A f \in 1..Len(st) : g[f] = g[f - 1] \o Shown(N, st[f].node)[Come(st, f)]
  /\ g[Len(st)] = pr

\* The indent strings of a node.
Cost(N, n) == IF TypeIn(N, n) \in Stmts THEN 2 ELSE 1

\* s is the number of indent strings the calls of st hold.
Held(N, st, s, h) ==
  /\ h \in [0..Len(st) -> Nat]
  /\ h[0] = 0
  /\ \A f \in 1..Len(st) : h[f] = h[f - 1] + Cost(N, st[f].node)
  /\ h[Len(st)] = s

\* Each call is at a node and a child of it, or past the last; the call above it
\* is at the child it came to last, which is shown.
Walk(N, st) ==
  /\ Len(st) \in Nat \ {0}
  /\ \A f \in 1..Len(st) :
       /\ st[f].node \in 1..Len(N)
       /\ st[f].child \in 1..(Len(N[st[f].node].kids) + 1)
       /\ TypeIn(N, st[f].node) = "prog" => st[f].child >= 3
  /\ \A f \in 2..Len(st) :
       /\ st[f - 1].child - 1 \in 1..Len(N[st[f - 1].node].kids)
       /\ N[st[f - 1].node].kids[st[f - 1].child - 1] = st[f].node
       /\ Shows(N, st[f].node)

\* From stack st to stack su: the innermost call moves on; it calls for node
\* c, to start at child k; it returns.
Moved(st, su) ==
  /\ Len(su) = Len(st)
  /\ \A f \in 1..Len(st) :
       /\ su[f].node = st[f].node
       /\ su[f].child = IF f = Len(st) THEN st[f].child + 1 ELSE st[f].child
Entered(st, su, c, k) ==
  /\ Len(su) = Len(st) + 1
  /\ \A f \in 1..Len(st) :
       /\ su[f].node = st[f].node
       /\ su[f].child = IF f = Len(st) THEN st[f].child + 1 ELSE st[f].child
  /\ su[Len(st) + 1].node = c /\ su[Len(st) + 1].child = k
Returned(st, su) ==
  /\ Len(su) = Len(st) - 1
  /\ \A f \in 1..(Len(st) - 1) : su[f] = st[f]

\* What a call has shown grows by what its child has to show.
LEMMA ShownGrows ==
  ASSUME NEW N, Grown(N), NEW n \in 1..Len(N), NEW j \in 1..Len(N[n].kids)
  PROVE  /\ Shown(N, n)[j - 1] \in Orders
         /\ Shown(N, n)[j] = Shown(N, n)[j - 1] \o Piece(N, PreorderOf(N), n, j)
         /\ Piece(N, PreorderOf(N), n, j) \in Orders
<1>1. Partial(N, n, Shown(N, n))
  BY ShownIs
<1>2. N[n].kids[j] \in 0..(n - 1) /\ Len(N) \in Nat /\ Len(N[n].kids) \in Nat
  BY DEF Grown
<1>3. N[n].kids[j] # 0 => N[n].kids[j] \in 1..Len(N)
  BY <1>2
<1>4. PreorderOf(N) \in [1..Len(N) -> Orders]
  BY PreorderIs DEF Ordering
<1>5. Piece(N, PreorderOf(N), n, j) \in Orders
  <2>1. <<>> \in Orders
    BY DEF Orders
  <2> QED BY <1>3, <1>4, <2>1 DEF Piece, Shows, Nil
<1>6. j - 1 \in 0..Len(N[n].kids)
  BY <1>2
<1> QED BY <1>1, <1>5, <1>6 DEF Partial

LEMMA EmptyAdds == <<>> \in Orders /\ \A s \in Orders : s \o <<>> = s /\ <<>> \o s = s
<1>1. <<>> \in Orders
  BY DEF Orders
<1> QED BY <1>1, ConcatEmptySeq DEF Orders

\* A NULL child adds nothing.
LEMMA MoveWritten ==
  ASSUME NEW N, Grown(N), NEW st, NEW su, Walk(N, st), Moved(st, su), NEW pr, NEW g,
         Written(N, st, pr, g),
         st[Len(st)].child \in 1..Len(N[st[Len(st)].node].kids),
         ~Shows(N, N[st[Len(st)].node].kids[st[Len(st)].child])
  PROVE  Written(N, su, pr, g)
<1>1. PICK L \in Nat \ {0} : L = Len(st)
  BY DEF Walk
<1>2. Len(su) = L /\ L \in 1..L
  BY <1>1 DEF Moved
<1>3. ASSUME NEW f \in 1..L
      PROVE  Shown(N, su[f].node)[Come(su, f)] = Shown(N, st[f].node)[Come(st, f)]
  <2>1. su[f].node = st[f].node
    BY <1>1 DEF Moved
  <2>2. st[f].node \in 1..Len(N) /\ st[f].child \in Nat
    <3>1. st[f].node \in 1..Len(N) /\ st[f].child \in 1..(Len(N[st[f].node].kids) + 1)
      BY <1>1 DEF Walk
    <3> QED BY <3>1
  <2>3. CASE f # L
    <3>1. Come(su, f) = Come(st, f)
      BY <1>1, <1>2, <2>2, <2>3 DEF Come, Moved
    <3> QED BY <2>1, <3>1
  <2>4. CASE f = L
    <3>1. PICK j \in Nat : j = st[L].child
      BY <2>2, <2>4
    <3>2. PICK n \in 1..Len(N) : n = st[L].node
      BY <2>2, <2>4
    <3>3. Come(su, f) = j /\ Come(st, f) = j - 1
      BY <1>1, <1>2, <2>4, <3>1 DEF Come, Moved
    <3>4. j \in 1..Len(N[n].kids) /\ Piece(N, PreorderOf(N), n, j) = <<>>
      BY <1>1, <3>1, <3>2 DEF Piece
    <3>5. Shown(N, n)[j] = Shown(N, n)[j - 1]
      <4>1. /\ Shown(N, n)[j - 1] \in Orders
            /\ Shown(N, n)[j] = Shown(N, n)[j - 1] \o Piece(N, PreorderOf(N), n, j)
        BY <3>4, ShownGrows
      <4> QED BY <3>4, <4>1, EmptyAdds, Zenon
    <3> QED BY <2>1, <2>4, <3>2, <3>3, <3>5
  <2> QED BY <2>3, <2>4
<1> QED BY <1>1, <1>2, <1>3 DEF Written

LEMMA AppendOne == \A s \in Orders, c \in Nat : s \o <<c>> = Append(s, c) /\ Append(s, c) \in Orders
BY AppendIsConcat DEF Orders

\* A call for a child adds the child.
LEMMA EnterWritten ==
  ASSUME NEW N, Grown(N), NEW st, NEW su, Walk(N, st), NEW c \in Nat, NEW k \in Nat,
         Entered(st, su, c, k), NEW pr, NEW g, Written(N, st, pr, g),
         Shown(N, c)[k - 1] = <<c>>
  PROVE  \E e : Written(N, su, Append(pr, c), e)
<1>1. PICK L \in Nat \ {0} : L = Len(st)
  BY DEF Walk
<1>2. Len(su) = L + 1
  BY <1>1 DEF Entered
<1>3. g \in [0..L -> Orders] /\ g[0] = <<>> /\ g[L] = pr /\ pr \in Orders
  BY <1>1 DEF Written
<1>4. pr \o <<c>> = Append(pr, c) /\ Append(pr, c) \in Orders
  BY <1>3, AppendOne
<1> DEFINE e == [f \in 0..(L + 1) |-> IF f = L + 1 THEN Append(pr, c) ELSE g[f]]
<1>5. e \in [0..(L + 1) -> Orders] /\ e[0] = <<>> /\ e[L + 1] = Append(pr, c)
  BY <1>3, <1>4
<1>6. ASSUME NEW f \in 1..(L + 1)
      PROVE  e[f] = e[f - 1] \o Shown(N, su[f].node)[Come(su, f)]
  <2>1. CASE f = L + 1
    <3>1. su[f].node = c /\ Come(su, f) = k - 1
      BY <1>1, <1>2, <2>1 DEF Entered, Come
    <3>2. e[f] = Append(pr, c) /\ e[f - 1] = pr
      BY <1>3, <2>1
    <3> HIDE DEF e
    <3> QED BY <1>4, <3>1, <3>2
  <2>2. CASE f # L + 1
    <3>1. f \in 1..L
      BY <2>2
    <3>2. e[f] = g[f] /\ e[f - 1] = g[f - 1]
      BY <3>1
    <3>3. su[f].node = st[f].node
      BY <1>1, <3>1 DEF Entered
    <3>4. st[f].child \in Nat
      <4>1. st[f].child \in 1..(Len(N[st[f].node].kids) + 1)
        BY <1>1, <3>1 DEF Walk
      <4> QED BY <4>1
    <3>5. Come(su, f) = Come(st, f)
      BY <1>1, <1>2, <3>1, <3>4 DEF Come, Entered
    <3>6. g[f] = g[f - 1] \o Shown(N, st[f].node)[Come(st, f)]
      BY <1>1, <3>1 DEF Written
    <3> HIDE DEF e
    <3> QED BY <3>2, <3>3, <3>5, <3>6
  <2> QED BY <2>1, <2>2
<1> HIDE DEF e
<1>7. Written(N, su, Append(pr, c), e)
  BY <1>2, <1>5, <1>6 DEF Written
<1> QED BY <1>7

\* A call that returns has shown all it had to.
LEMMA AllShown ==
  ASSUME NEW N, Grown(N), NEW st, Walk(N, st), NEW pr, NEW g, Written(N, st, pr, g),
         st[Len(st)].child > Len(N[st[Len(st)].node].kids)
  PROVE  /\ pr = g[Len(st) - 1] \o PreorderOf(N)[st[Len(st)].node]
         /\ PreorderOf(N)[st[Len(st)].node] \in Orders
<1>1. PICK L \in Nat \ {0} : L = Len(st)
  BY DEF Walk
<1>2. PICK n \in 1..Len(N) : n = st[L].node
  BY <1>1 DEF Walk
<1>3. st[L].child \in 1..(Len(N[n].kids) + 1) /\ Len(N[n].kids) \in Nat
  BY <1>1, <1>2 DEF Walk, Grown
<1>4. Come(st, L) = Len(N[n].kids)
  BY <1>1, <1>2, <1>3 DEF Come
<1>5. pr = g[L - 1] \o Shown(N, n)[Come(st, L)]
  <2>1. L \in 1..Len(st)
    BY <1>1
  <2> QED BY <1>1, <1>2, <2>1 DEF Written
<1>6. Shown(N, n)[Len(N[n].kids)] = PreorderOf(N)[n]
  BY ShownIs DEF Partial
<1>7. PreorderOf(N)[n] \in Orders
  BY PreorderIs DEF Ordering
<1> QED BY <1>1, <1>2, <1>4, <1>5, <1>6, <1>7

LEMMA ReturnWritten ==
  ASSUME NEW N, Grown(N), NEW st, NEW su, Walk(N, st), Returned(st, su), NEW pr, NEW g,
         Written(N, st, pr, g), Len(st) # 1,
         st[Len(st)].child > Len(N[st[Len(st)].node].kids)
  PROVE  \E e : Written(N, su, pr, e)
<1>1. PICK L \in Nat : L + 1 = Len(st)
  <2>1. Len(st) - 1 \in Nat /\ (Len(st) - 1) + 1 = Len(st)
    BY DEF Walk
  <2> QED BY <2>1
<1>2. L # 0 /\ Len(su) = L /\ L \in 1..(L + 1) /\ L + 1 \in 2..(L + 1) /\ (L + 1) - 1 = L
  BY <1>1 DEF Returned
<1>3. g \in [0..(L + 1) -> Orders] /\ g[0] = <<>>
  BY <1>1 DEF Written
<1>4. pr = g[L] \o PreorderOf(N)[st[L + 1].node] /\ PreorderOf(N)[st[L + 1].node] \in Orders
  <2>1. (L + 1) - 1 = L
    BY <1>2
  <2> QED BY <1>1, <2>1, AllShown
<1>5. PICK n \in 1..Len(N) : n = st[L].node
  BY <1>1, <1>2 DEF Walk
<1>6. PICK c \in Nat : c = st[L].child
  <2>1. st[L].child \in 1..(Len(N[st[L].node].kids) + 1)
    BY <1>1, <1>2 DEF Walk
  <2> QED BY <2>1
<1>7. c - 1 \in 1..Len(N[n].kids) /\ N[n].kids[c - 1] = st[L + 1].node
      /\ Shows(N, st[L + 1].node)
  BY <1>1, <1>2, <1>5, <1>6 DEF Walk
<1>8. PICK j \in Nat : j = c - 1
  BY <1>7
<1>9. Piece(N, PreorderOf(N), n, j) = PreorderOf(N)[st[L + 1].node]
  BY <1>7, <1>8 DEF Piece
<1>10. /\ Shown(N, n)[j] = Shown(N, n)[j - 1] \o PreorderOf(N)[st[L + 1].node]
       /\ Shown(N, n)[j - 1] \in Orders
  <2>1. j \in 1..Len(N[n].kids)
    BY <1>7, <1>8
  <2>2. /\ Shown(N, n)[j - 1] \in Orders
        /\ Shown(N, n)[j] = Shown(N, n)[j - 1] \o Piece(N, PreorderOf(N), n, j)
    BY <2>1, ShownGrows
  <2> QED BY <1>9, <2>2, Zenon
<1>11. g[L] = g[L - 1] \o Shown(N, n)[j - 1] /\ g[L - 1] \in Orders
  <2>1. Come(st, L) = j - 1
    BY <1>1, <1>2, <1>6, <1>8 DEF Come
  <2>2. L - 1 \in 0..(L + 1)
    BY <1>2
  <2> QED BY <1>1, <1>2, <1>3, <1>5, <2>1, <2>2 DEF Written
<1>12. pr = g[L - 1] \o Shown(N, n)[j]
  <2> DEFINE a == g[L - 1]
             b == Shown(N, n)[j - 1]
             d == PreorderOf(N)[st[L + 1].node]
  <2>1. a \in Orders /\ b \in Orders /\ d \in Orders
    BY <1>4, <1>10, <1>11
  <2>2. pr = (a \o b) \o d /\ Shown(N, n)[j] = b \o d
    BY <1>4, <1>10, <1>11, Zenon
  <2> HIDE DEF a, b, d
  <2>3. pr = a \o Shown(N, n)[j]
    <3>1. a \o (b \o d) = (a \o b) \o d
      BY <2>1, Associate
    <3> QED BY <2>2, <3>1, Zenon
  <2> QED BY <2>3 DEF a
<1>13. pr \in Orders
  <2>1. g[L] \in Orders
    BY <1>2, <1>3
  <2> QED BY <1>4, <2>1, ConcatProperties DEF Orders
<1> DEFINE e == [f \in 0..L |-> IF f = L THEN pr ELSE g[f]]
<1>14. e \in [0..L -> Orders] /\ e[0] = <<>> /\ e[L] = pr
  BY <1>2, <1>3, <1>13
<1>15. ASSUME NEW f \in 1..L
       PROVE  e[f] = e[f - 1] \o Shown(N, su[f].node)[Come(su, f)]
  <2>1. su[f] = st[f] /\ f \in 1..Len(st) /\ f # Len(st)
    BY <1>1 DEF Returned
  <2>2. CASE f = L
    <3>1. su[f].node = n /\ Come(su, f) = j
      BY <1>1, <1>2, <1>5, <1>6, <1>8, <2>1, <2>2 DEF Come
    <3>2. e[f] = pr /\ e[f - 1] = g[L - 1]
      BY <1>2, <2>2
    <3> HIDE DEF e
    <3> QED BY <1>12, <3>1, <3>2
  <2>3. CASE f # L
    <3>1. e[f] = g[f] /\ e[f - 1] = g[f - 1]
      BY <2>3
    <3>2. Come(su, f) = Come(st, f)
      BY <1>2, <2>1, <2>3 DEF Come
    <3>3. g[f] = g[f - 1] \o Shown(N, st[f].node)[Come(st, f)]
      BY <2>1 DEF Written
    <3> HIDE DEF e
    <3> QED BY <2>1, <3>1, <3>2, <3>3
  <2> QED BY <2>2, <2>3
<1> HIDE DEF e
<1>16. Written(N, su, pr, e)
  BY <1>2, <1>14, <1>15 DEF Written
<1> QED BY <1>16
\* Moving on allocates no indent string, a call its node's, and a return
\* gives them back.
LEMMA MoveHeld ==
  ASSUME NEW N, NEW st, NEW su, Moved(st, su), NEW s, NEW h, Held(N, st, s, h)
  PROVE  Held(N, su, s, h)
BY DEF Held, Moved

LEMMA CostIs == \A N, n : Cost(N, n) \in {1, 2}
BY DEF Cost

LEMMA EnterHeld ==
  ASSUME NEW N, NEW st, NEW su, NEW L \in Nat, Len(st) \in {L}, NEW c, NEW k,
         Entered(st, su, c, k), NEW s, NEW h, Held(N, st, s, h)
  PROVE  \E e : Held(N, su, s + Cost(N, c), e)
<1> DEFINE e == [f \in 0..(L + 1) |-> IF f = L + 1 THEN s + Cost(N, c) ELSE h[f]]
<1>1. h \in [0..L -> Nat] /\ h[0] = 0 /\ h[L] = s /\ Len(su) = L + 1
  BY DEF Held, Entered
<1>2. PICK d \in {1, 2} : d = Cost(N, c)
  BY CostIs
<1>3. e \in [0..(L + 1) -> Nat] /\ e[0] = 0 /\ e[L + 1] = s + Cost(N, c)
  BY <1>1, <1>2
<1>4. ASSUME NEW f \in 1..(L + 1) PROVE e[f] = e[f - 1] + Cost(N, su[f].node)
  <2>1. CASE f = L + 1
    <3>1. e[f] = s + Cost(N, c) /\ e[f - 1] = s
      BY <1>1, <2>1
    <3>2. su[f].node = c
      BY <2>1 DEF Entered
    <3> HIDE DEF e
    <3> QED BY <3>1, <3>2
  <2>2. CASE f # L + 1
    <3>1. e[f] = h[f] /\ e[f - 1] = h[f - 1] /\ f \in 1..L
      BY <2>2
    <3>2. su[f].node = st[f].node /\ h[f] = h[f - 1] + Cost(N, st[f].node)
      BY <3>1 DEF Entered, Held
    <3> HIDE DEF e
    <3> QED BY <3>1, <3>2
  <2> QED BY <2>1, <2>2
<1> HIDE DEF e
<1>5. Held(N, su, s + Cost(N, c), e)
  BY <1>1, <1>3, <1>4 DEF Held
<1> QED BY <1>5

LEMMA ReturnHeld ==
  ASSUME NEW N, NEW st, NEW su, NEW L \in Nat, Len(st) \in {L + 1},
         Returned(st, su), NEW s, NEW h, Held(N, st, s, h)
  PROVE  /\ s - Cost(N, st[L + 1].node) = h[L] /\ h[L] \in Nat
         /\ \E e : Held(N, su, s - Cost(N, st[L + 1].node), e)
<1>0. Len(st) = L + 1
  OBVIOUS
<1>1. h \in [0..(L + 1) -> Nat] /\ h[0] = 0 /\ h[L + 1] = s /\ Len(su) = L
  <2>1. h \in [0..(L + 1) -> Nat] /\ h[0] = 0 /\ h[L + 1] = s
    BY <1>0 DEF Held
  <2>2. Len(su) = L
    BY <1>0 DEF Returned
  <2> QED BY <2>1, <2>2
<1>2. PICK d \in {1, 2} : d = Cost(N, st[L + 1].node)
  BY CostIs
<1>3. h[L + 1] = h[L] + d /\ h[L] \in Nat
  <2>1. L + 1 \in 1..(L + 1) /\ (L + 1) - 1 = L
    OBVIOUS
  <2> QED BY <1>1, <1>2, <2>1 DEF Held
<1>4. s - Cost(N, st[L + 1].node) = h[L]
  BY <1>1, <1>2, <1>3
<1> DEFINE e == [f \in 0..L |-> h[f]]
<1>5. e \in [0..L -> Nat] /\ e[0] = 0 /\ e[L] = h[L]
  BY <1>1
<1>6. ASSUME NEW f \in 1..L PROVE e[f] = e[f - 1] + Cost(N, su[f].node)
  <2>1. e[f] = h[f] /\ e[f - 1] = h[f - 1]
    OBVIOUS
  <2>2. su[f] = st[f] /\ h[f] = h[f - 1] + Cost(N, st[f].node)
    BY DEF Returned, Held
  <2> HIDE DEF e
  <2> QED BY <2>1, <2>2
<1> HIDE DEF e
<1>7. Held(N, su, h[L], e)
  BY <1>1, <1>5, <1>6 DEF Held
<1> QED BY <1>3, <1>4, <1>7

\* The calls stay on their way.
LEMMA MoveWalk ==
  ASSUME NEW N, Grown(N), NEW st, NEW su, Walk(N, st), Moved(st, su),
         st[Len(st)].child <= Len(N[st[Len(st)].node].kids)
  PROVE  Walk(N, su)
<1>1. PICK L \in Nat \ {0} : L = Len(st)
  BY DEF Walk
<1>2. Len(su) = L
  BY <1>1 DEF Moved
<1>3. ASSUME NEW f \in 1..L
      PROVE  /\ su[f].node \in 1..Len(N)
             /\ su[f].child \in 1..(Len(N[su[f].node].kids) + 1)
             /\ TypeIn(N, su[f].node) = "prog" => su[f].child >= 3
  <2>1. /\ st[f].node \in 1..Len(N)
        /\ st[f].child \in 1..(Len(N[st[f].node].kids) + 1)
        /\ TypeIn(N, st[f].node) = "prog" => st[f].child >= 3
    BY <1>1 DEF Walk
  <2>2. /\ su[f].node = st[f].node
        /\ su[f].child = IF f = L THEN st[f].child + 1 ELSE st[f].child
    BY <1>1 DEF Moved
  <2>3. Len(N[st[f].node].kids) \in Nat
    BY <2>1 DEF Grown
  <2>4. f = L => st[f].child <= Len(N[st[f].node].kids)
    BY <1>1
  <2> QED BY <2>1, <2>2, <2>3, <2>4
<1>4. ASSUME NEW f \in 2..L
      PROVE  /\ su[f - 1].child - 1 \in 1..Len(N[su[f - 1].node].kids)
             /\ N[su[f - 1].node].kids[su[f - 1].child - 1] = su[f].node
             /\ Shows(N, su[f].node)
  <2>1. f - 1 \in 1..L /\ f - 1 # L /\ f \in 1..L
    OBVIOUS
  <2>2. /\ su[f].node = st[f].node /\ su[f - 1].node = st[f - 1].node
        /\ su[f - 1].child = st[f - 1].child
    BY <1>1, <2>1 DEF Moved
  <2>3. /\ st[f - 1].child - 1 \in 1..Len(N[st[f - 1].node].kids)
        /\ N[st[f - 1].node].kids[st[f - 1].child - 1] = st[f].node
        /\ Shows(N, st[f].node)
    BY <1>1 DEF Walk
  <2> QED BY <2>2, <2>3
<1> QED BY <1>1, <1>2, <1>3, <1>4 DEF Walk

LEMMA EnterWalk ==
  ASSUME NEW N, Grown(N), NEW st, NEW su, Walk(N, st), NEW c \in 1..Len(N), NEW k,
         Entered(st, su, c, k), Shows(N, c),
         st[Len(st)].child \in 1..Len(N[st[Len(st)].node].kids),
         N[st[Len(st)].node].kids[st[Len(st)].child] = c,
         k \in 1..(Len(N[c].kids) + 1), TypeIn(N, c) = "prog" => k >= 3
  PROVE  Walk(N, su)
<1>1. PICK L \in Nat \ {0} : L = Len(st)
  BY DEF Walk
<1>2. Len(su) = L + 1 /\ L + 1 \in Nat \ {0}
  BY <1>1 DEF Entered
<1>3. ASSUME NEW f \in 1..(L + 1)
      PROVE  /\ su[f].node \in 1..Len(N)
             /\ su[f].child \in 1..(Len(N[su[f].node].kids) + 1)
             /\ TypeIn(N, su[f].node) = "prog" => su[f].child >= 3
  <2>1. CASE f = L + 1
    BY <1>1, <2>1 DEF Entered
  <2>2. CASE f # L + 1
    <3>0. f \in 1..L
      BY <2>2
    <3>1. /\ st[f].node \in 1..Len(N)
          /\ st[f].child \in 1..(Len(N[st[f].node].kids) + 1)
          /\ TypeIn(N, st[f].node) = "prog" => st[f].child >= 3
      BY <1>1, <3>0 DEF Walk
    <3>2. /\ su[f].node = st[f].node
          /\ su[f].child = IF f = L THEN st[f].child + 1 ELSE st[f].child
      BY <1>1, <3>0 DEF Entered
    <3>3. Len(N[st[f].node].kids) \in Nat
      BY <3>1 DEF Grown
    <3>4. f = L => st[f].child \in 1..Len(N[st[f].node].kids)
      BY <1>1
    <3>5. PICK m \in Nat : m = Len(N[st[f].node].kids)
      BY <3>3
    <3>6. PICK d \in 1..(m + 1) : d = st[f].child
      BY <3>1, <3>5
    <3>7. su[f].child \in 1..(m + 1) /\ su[f].child >= d
      <4>1. su[f].child = (IF f = L THEN d + 1 ELSE d) /\ (f = L => d <= m)
        BY <3>2, <3>4, <3>5, <3>6
      <4> QED BY <4>1
    <3>8. su[f].child \in Nat /\ (d >= 3 => su[f].child >= 3)
      BY <3>7
    <3> QED BY <3>1, <3>2, <3>5, <3>6, <3>7, <3>8
  <2> QED BY <2>1, <2>2
<1>4. ASSUME NEW f \in 2..(L + 1)
      PROVE  /\ su[f - 1].child - 1 \in 1..Len(N[su[f - 1].node].kids)
             /\ N[su[f - 1].node].kids[su[f - 1].child - 1] = su[f].node
             /\ Shows(N, su[f].node)
  <2>0. f - 1 \in 1..L
    OBVIOUS
  <2>1. CASE f = L + 1
    <3>1. f - 1 = L /\ L \in 1..L
      BY <2>1
    <3>2. PICK j \in Nat : j = st[L].child
      BY <1>1
    <3>3. su[f].node = c /\ su[f - 1].node = st[L].node /\ su[f - 1].child = j + 1
      BY <1>1, <2>1, <3>1, <3>2 DEF Entered
    <3>4. (j + 1) - 1 = j
      OBVIOUS
    <3>5. j \in 1..Len(N[st[L].node].kids) /\ N[st[L].node].kids[j] = c
      BY <1>1, <3>2
    <3> QED BY <3>3, <3>4, <3>5
  <2>2. CASE f # L + 1
    <3>1. f \in 2..L /\ f - 1 # L /\ f \in 1..L
      BY <2>0, <2>2
    <3>2. /\ su[f].node = st[f].node /\ su[f - 1].node = st[f - 1].node
          /\ su[f - 1].child = st[f - 1].child
      BY <1>1, <2>0, <3>1 DEF Entered
    <3>3. /\ st[f - 1].child - 1 \in 1..Len(N[st[f - 1].node].kids)
          /\ N[st[f - 1].node].kids[st[f - 1].child - 1] = st[f].node
          /\ Shows(N, st[f].node)
      BY <1>1, <3>1 DEF Walk
    <3> QED BY <3>2, <3>3
  <2> QED BY <2>1, <2>2
<1> QED BY <1>2, <1>3, <1>4 DEF Walk

LEMMA ReturnWalk ==
  ASSUME NEW N, NEW st, NEW su, Walk(N, st), Returned(st, su), Len(st) # 1
  PROVE  Walk(N, su)
<1>1. PICK L \in Nat \ {0} : L = Len(st)
  BY DEF Walk
<1>2. Len(su) = L - 1 /\ L - 1 \in Nat \ {0} /\ \A f \in 1..(L - 1) : su[f] = st[f]
  BY <1>1 DEF Returned
<1>3. \A f \in 1..(L - 1) : f \in 1..L
  OBVIOUS
<1>4. \A f \in 2..(L - 1) : f \in 2..L /\ f \in 1..(L - 1) /\ f - 1 \in 1..(L - 1)
  OBVIOUS
<1>5. ASSUME NEW f \in 1..(L - 1)
      PROVE  /\ su[f].node \in 1..Len(N)
             /\ su[f].child \in 1..(Len(N[su[f].node].kids) + 1)
             /\ TypeIn(N, su[f].node) = "prog" => su[f].child >= 3
  <2>1. su[f] = st[f] /\ f \in 1..L
    BY <1>2, <1>3
  <2> QED BY <1>1, <2>1 DEF Walk
<1>6. ASSUME NEW f \in 2..(L - 1)
      PROVE  /\ su[f - 1].child - 1 \in 1..Len(N[su[f - 1].node].kids)
             /\ N[su[f - 1].node].kids[su[f - 1].child - 1] = su[f].node
             /\ Shows(N, su[f].node)
  <2>1. su[f] = st[f] /\ su[f - 1] = st[f - 1] /\ f \in 2..L
    BY <1>2, <1>4
  <2> QED BY <1>1, <2>1 DEF Walk
<1> QED BY <1>2, <1>5, <1>6 DEF Walk
-----------------------------------------------------------------------------

\* Where a traversal that prints is, and what it has left when it returned.
Printing ==
  /\ printed \in Seq(Ids)
  /\ call # "print" => indents = 0
  /\ call = "free" => printed = <<>>
  /\ call = "none" /\ printed # <<>> => printed = PreorderOf(nodes)[printed[1]]
  /\ call = "print" =>
       /\ Walk(nodes, stack)
       /\ \E g : Written(nodes, stack, printed, g)
       /\ \E h : Held(nodes, stack, indents, h)
       /\ printed # <<>> /\ printed[1] = stack[1].node

LEMMA NodesGrown == IInv => Grown(nodes)
<1> SUFFICES ASSUME IInv PROVE Grown(nodes)
    OBVIOUS
<1>1. AstTypes /\ Wired
  BY DEF IInv
<1>2. Len(nodes) \in Nat
  BY <1>1, NodeFacts
<1>3. ASSUME NEW n \in 1..Len(nodes)
      PROVE  /\ nodes[n].kids \in Seq(Nat)
             /\ \A j \in 1..Len(nodes[n].kids) : nodes[n].kids[j] \in 0..(n - 1)
  <2>1. n \in Ids
    BY DEF Ids
  <2>2. nodes[n].kids \in Seq(Nat) /\ DOMAIN nodes[n].kids = 1..Len(nodes[n].kids)
    BY <1>1, <2>1, NodeFacts
  <2> QED BY <1>1, <2>1, <2>2 DEF Wired, Kid
<1> QED BY <1>2, <1>3 DEF Grown

LEMMA TypesIn == \A n : TypeIn(nodes, n) = TypeOf(n) /\ Cost(nodes, n) = Indents(n)
BY DEF TypeIn, TypeOf, Cost, Indents

\* Only a program has externs, in its first two fields.
LEMMA ExternsOfProgram ==
  ASSUME NEW t \in Types, NEW j \in Nat \ {0}, t # "block" => j <= Len(Fields[t]),
         Fits(t, j, "extern")
  PROVE  t = "prog" /\ j <= 2
<1>1. CASE t = "block"
  BY <1>1 DEF Fits, Stmts
<1>2. CASE t = "prog"
  <2>1. Fields[t] = <<{"extern"}, {"extern"}, {"func"}>>
    BY <1>2 DEF Fields
  <2>2. j \in 1..3 /\ "extern" \in Fields[t][j]
    BY <1>2, <2>1 DEF Fits
  <2>3. j = 3 => Fields[t][j] = {"func"}
    BY <2>1
  <2> QED BY <1>2, <2>2, <2>3
<1>3. CASE t = "func"
  <2>1. Fields[t] = <<{"var", "null"}, {"block"}>>
    BY <1>3 DEF Fields
  <2>2. j \in 1..2 /\ "extern" \in Fields[t][j]
    BY <1>3, <2>1 DEF Fits
  <2>3. Fields[t][j] \in {{"var", "null"}, {"block"}}
    BY <2>1, <2>2
  <2> QED BY <2>2, <2>3
<1>4. CASE t \in {"asgn", "call", "if", "while", "rexpr", "bexpr", "uexpr", "ret"}
  <2>1. Fields[t] \in {<<{"var"}, Exprs>>, <<Exprs \cup {"null"}>>,
                       <<Exprs, Stmts, Stmts \cup {"null"}>>, <<Exprs, Stmts>>,
                       <<Exprs, Exprs>>, <<Exprs>>}
    BY <1>4 DEF Fields
  <2>2. j \in 1..Len(Fields[t]) /\ "extern" \in Fields[t][j]
    BY <1>4, <2>1 DEF Fits
  <2>3. Fields[t][j] \in {{"var"}, Exprs, Exprs \cup {"null"}, Stmts, Stmts \cup {"null"}}
    BY <2>1, <2>2
  <2> QED BY <2>2, <2>3 DEF Exprs, Stmts
<1>5. CASE t \in {"extern", "var", "cnst", "decl"}
  <2>1. Len(Fields[t]) = 0
    BY <1>5 DEF Fields
  <2> QED BY <1>5, <2>1
<1> QED BY <1>1, <1>2, <1>3, <1>4, <1>5, AstAssumption DEF Exprs, Stmts

\* The child a call comes to is not an extern.
LEMMA ChildShown ==
  ASSUME IInv, call # "none", Walk(nodes, stack), ~Done, Child # Nil
  PROVE  Shows(nodes, Child)
<1>1. AstTypes /\ Wired
  BY DEF IInv
<1>2. PICK L \in Nat \ {0} : L = Len(stack) /\ Top = stack[L]
  BY NextChild
<1>3. /\ Top.node \in Ids /\ Top.child \in DOMAIN nodes[Top.node].kids
      /\ Child = Kid(Top.node, Top.child) /\ Top.child \in Nat \ {0}
  BY NextChild
<1>4. Fits(nodes[Top.node].type, Top.child, TypeOf(Child))
  BY <1>1, <1>3 DEF Wired
<1>5. /\ nodes[Top.node].type \in Types /\ TypeOf(Top.node) = nodes[Top.node].type
      /\ nodes[Top.node].type # "block" => Top.child <= Len(Fields[nodes[Top.node].type])
  <2>1. /\ DOMAIN nodes[Top.node].kids = 1..Len(nodes[Top.node].kids)
        /\ nodes[Top.node].type \in Types /\ TypeOf(Top.node) = nodes[Top.node].type
    BY <1>1, <1>3, NodeFacts
  <2>2. nodes[Top.node].type # "block" =>
          Len(nodes[Top.node].kids) = Len(Fields[nodes[Top.node].type])
    BY <1>1, <1>3 DEF Wired
  <2> QED BY <1>3, <2>1, <2>2
<1>6. TypeOf(Top.node) = "prog" => Top.child >= 3
  BY <1>2, TypesIn DEF Walk
<1>7. TypeOf(Child) # "extern"
  <2> SUFFICES ASSUME TypeOf(Child) = "extern" PROVE FALSE
      OBVIOUS
  <2>1. Fits(nodes[Top.node].type, Top.child, "extern")
    BY <1>4
  <2>2. nodes[Top.node].type = "prog" /\ Top.child <= 2
    BY <1>3, <1>5, <2>1, ExternsOfProgram
  <2> QED BY <1>3, <1>5, <1>6, <2>2
<1> QED BY <1>7, TypesIn DEF Shows

\* Where printNode starts, only the node itself has been shown.
LEMMA StartShown ==
  ASSUME IInv, NEW n \in Ids
  PROVE  LET k == EnterPrint(n).child
         IN  /\ EnterPrint(n).node = n
             /\ k \in 1..(Len(nodes[n].kids) + 1) /\ (TypeIn(nodes, n) = "prog" => k >= 3)
             /\ k \in Nat /\ Shown(nodes, n)[k - 1] = <<n>>
<1>1. AstTypes /\ Wired /\ Grown(nodes) /\ n \in 1..Len(nodes)
  BY NodesGrown DEF IInv, Ids
<1>2. Partial(nodes, n, Shown(nodes, n))
  BY <1>1, ShownIs
<1>3. /\ Len(nodes[n].kids) \in Nat /\ TypeOf(n) = nodes[n].type /\ nodes[n].type \in Types
      /\ DOMAIN nodes[n].kids = 1..Len(nodes[n].kids)
  BY <1>1, NodeFacts
<1>4. CASE TypeOf(n) # "prog"
  <2>1. EnterPrint(n).node = n /\ EnterPrint(n).child = 1
    BY <1>4 DEF EnterPrint
  <2>2. Shown(nodes, n)[1 - 1] = <<n>>
    BY <1>2 DEF Partial
  <2> QED BY <1>3, <1>4, <2>1, <2>2, TypesIn
<1>5. CASE TypeOf(n) = "prog"
  <2>1. EnterPrint(n).node = n /\ EnterPrint(n).child = 3
    BY <1>5 DEF EnterPrint
  <2>2. Fields["prog"] = <<{"extern"}, {"extern"}, {"func"}>>
    BY DEF Fields
  <2>3. Len(nodes[n].kids) = 3
    <3>1. nodes[n].type # "block" => Len(nodes[n].kids) = Len(Fields[nodes[n].type])
      BY <1>1, Zenon DEF Wired
    <3>2. nodes[n].type = "prog"
      BY <1>3, <1>5
    <3>3. Len(Fields["prog"]) = 3
      BY <2>2
    <3> QED BY <3>1, <3>2, <3>3
  <2>4. ASSUME NEW j \in 1..2
        PROVE  Shown(nodes, n)[j] = Shown(nodes, n)[j - 1]
    <3>1. Fits("prog", j, TypeOf(Kid(n, j))) /\ j \in 1..Len(nodes[n].kids)
      <4>1. j \in 1..Len(nodes[n].kids)
        BY <2>3
      <4>2. Fits(nodes[n].type, j, TypeOf(Kid(n, j)))
        BY <1>1, <1>3, <4>1, Zenon DEF Wired
      <4> QED BY <1>3, <1>5, <4>1, <4>2, Zenon
    <3>2. TypeOf(Kid(n, j)) = "extern"
      <4>1. Fields["prog"][j] = {"extern"}
        BY <2>2
      <4> QED BY <3>1, <4>1 DEF Fits
    <3>3. ~Shows(nodes, nodes[n].kids[j])
      BY <3>2, TypesIn DEF Shows, Kid
    <3>4. Piece(nodes, PreorderOf(nodes), n, j) = <<>>
      BY <3>3 DEF Piece
    <3>5. /\ Shown(nodes, n)[j - 1] \in Orders
          /\ Shown(nodes, n)[j] = Shown(nodes, n)[j - 1] \o Piece(nodes, PreorderOf(nodes), n, j)
      BY <1>1, <3>1, ShownGrows
    <3> QED BY <3>4, <3>5, EmptyAdds, Zenon
  <2>5. Shown(nodes, n)[3 - 1] = <<n>>
    <3>1. Shown(nodes, n)[2] = Shown(nodes, n)[2 - 1]
      BY <2>4
    <3>2. Shown(nodes, n)[1] = Shown(nodes, n)[1 - 1]
      BY <2>4
    <3>3. Shown(nodes, n)[0] = <<n>>
      BY <1>2 DEF Partial
    <3> QED BY <3>1, <3>2, <3>3
  <2> QED BY <2>1, <2>3, <2>5
<1> QED BY <1>4, <1>5
\* printNode is called.
LEMMA PrintCallPrints ==
  ASSUME IInv, Printing, NEW n \in live, PrintCall(n)
  PROVE  Printing'
<1>1. AstTypes /\ n \in Ids
  BY DEF IInv, AstTypes
<1>2. /\ call' = "print" /\ stack' = <<EnterPrint(n)>> /\ printed' = <<n>>
      /\ indents' = Indents(n) /\ nodes' = nodes
  BY DEF PrintCall, heap
<1>3. PICK k \in Nat : k = EnterPrint(n).child
  BY <1>1, StartShown
<1>4. /\ EnterPrint(n).node = n /\ k \in 1..(Len(nodes[n].kids) + 1)
      /\ (TypeIn(nodes, n) = "prog" => k >= 3) /\ Shown(nodes, n)[k - 1] = <<n>>
  BY <1>1, <1>3, StartShown
<1>5. PICK st : st = <<EnterPrint(n)>>
  OBVIOUS
<1>6. Len(st) = 1 /\ st[1].node = n /\ st[1].child = k
  BY <1>3, <1>4, <1>5
<1>7. n \in 1..Len(nodes)
  BY <1>1 DEF Ids
<1>8. Walk(nodes, st)
  BY <1>4, <1>6, <1>7 DEF Walk
<1>9. \E g : Written(nodes, st, <<n>>, g)
  <2> DEFINE g == [f \in 0..1 |-> IF f = 0 THEN <<>> ELSE <<n>>]
  <2>1. <<n>> \in Orders /\ <<>> \in Orders
    BY <1>7, EmptyAdds DEF Orders
  <2>2. g \in [0..1 -> Orders] /\ g[0] = <<>> /\ g[1] = <<n>>
    BY <2>1
  <2> HIDE DEF g
  <2>3. Come(st, 1) = k - 1
    BY <1>6 DEF Come
  <2>4. g[1] = g[1 - 1] \o Shown(nodes, st[1].node)[Come(st, 1)]
    <3>1. g[1] = g[0] \o <<n>>
      BY <2>1, <2>2, EmptyAdds
    <3>2. 1 - 1 = 0
      OBVIOUS
    <3>3. Shown(nodes, st[1].node)[Come(st, 1)] = <<n>>
      BY <1>4, <1>6, <2>3, Zenon
    <3> QED BY <3>1, <3>2, <3>3, Zenon
  <2>5. Written(nodes, st, <<n>>, g)
    BY <1>6, <2>2, <2>4 DEF Written
  <2> QED BY <2>5
<1>10. \E h : Held(nodes, st, Indents(n), h)
  <2> DEFINE h == [f \in 0..1 |-> IF f = 0 THEN 0 ELSE Indents(n)]
  <2>1. Indents(n) \in {1, 2} /\ Cost(nodes, n) = Indents(n)
    BY CostIs, TypesIn
  <2>2. h \in [0..1 -> Nat] /\ h[0] = 0 /\ h[1] = Indents(n)
    BY <2>1
  <2> HIDE DEF h
  <2>3. h[1] = h[1 - 1] + Cost(nodes, st[1].node)
    BY <1>6, <2>1, <2>2
  <2>4. Held(nodes, st, Indents(n), h)
    BY <1>6, <2>2, <2>3 DEF Held
  <2> QED BY <2>4
<1>11. printed' \in Seq(Ids') /\ printed' # <<>> /\ printed'[1] = n
  BY <1>1, <1>2 DEF Ids
<1>12. stack'[1].node = n
  BY <1>2, <1>5, <1>6
<1>13. /\ Walk(nodes', stack')
       /\ \E g : Written(nodes', stack', printed', g)
       /\ \E h : Held(nodes', stack', indents', h)
  BY <1>2, <1>5, <1>8, <1>9, <1>10, Zenon
<1> QED BY <1>2, <1>11, <1>12, <1>13 DEF Printing

\* The innermost call, as the lemmas above see it.
LEMMA Innermost ==
  ASSUME IInv, call # "none"
  PROVE  /\ Grown(nodes) /\ Top.node = stack[Len(stack)].node /\ Top.child = stack[Len(stack)].child
         /\ Moved(stack, Advanced)
         /\ ~Done => /\ stack[Len(stack)].child
                          \in 1..Len(nodes[stack[Len(stack)].node].kids)
                     /\ nodes[stack[Len(stack)].node].kids[stack[Len(stack)].child] = Child
         /\ Done => stack[Len(stack)].child > Len(nodes[stack[Len(stack)].node].kids)
<1>1. AstTypes /\ stack # <<>>
  BY DEF IInv, AstTypes
<1>2. Top = stack[Len(stack)] /\ Top.node \in Ids
  BY NextChild
<1>3. Moved(stack, Advanced)
  BY <1>1, StackFacts DEF Moved
<1>4. DOMAIN nodes[Top.node].kids = 1..Len(nodes[Top.node].kids)
  BY <1>1, <1>2, NodeFacts
<1> QED BY <1>2, <1>3, <1>4, NodesGrown, NextChild DEF Kid

\* A NULL child is stepped over by a call that prints.
LEMMA SkipPrints ==
  ASSUME IInv, Printing, SkipChild, call = "print"
  PROVE  Printing'
<1>1. /\ ~Done /\ Child = Nil /\ stack' = Advanced /\ call' = call /\ printed' = printed
      /\ indents' = indents /\ nodes' = nodes
  BY DEF SkipChild, heap
<1>2. /\ Walk(nodes, stack) /\ (\E g : Written(nodes, stack, printed, g))
      /\ (\E h : Held(nodes, stack, indents, h))
      /\ printed # <<>> /\ printed[1] = stack[1].node /\ printed \in Seq(Ids)
  BY DEF Printing
<1>3. /\ Grown(nodes) /\ Moved(stack, Advanced)
      /\ stack[Len(stack)].child \in 1..Len(nodes[stack[Len(stack)].node].kids)
      /\ nodes[stack[Len(stack)].node].kids[stack[Len(stack)].child] = Nil
  BY <1>1, Innermost
<1>4. Walk(nodes, Advanced)
  <2>1. Len(nodes[stack[Len(stack)].node].kids) \in Nat
    <3>1. Len(stack) \in 1..Len(stack)
      BY <1>2 DEF Walk
    <3>2. stack[Len(stack)].node \in 1..Len(nodes)
      BY <1>2, <3>1 DEF Walk
    <3> QED BY <1>3, <3>2 DEF Grown
  <2>2. stack[Len(stack)].child <= Len(nodes[stack[Len(stack)].node].kids)
    BY <1>3, <2>1
  <2> QED BY <1>2, <1>3, <2>2, MoveWalk
<1>5. \E g : Written(nodes, Advanced, printed, g)
  <2>1. PICK g : Written(nodes, stack, printed, g)
    BY <1>2
  <2>2. ~Shows(nodes, nodes[stack[Len(stack)].node].kids[stack[Len(stack)].child])
    BY <1>3 DEF Shows
  <2> QED BY <1>2, <1>3, <2>1, <2>2, MoveWritten
<1>6. \E h : Held(nodes, Advanced, indents, h)
  BY <1>2, <1>3, MoveHeld
<1>7. Advanced[1].node = stack[1].node
  <2>1. 1 \in 1..Len(stack)
    BY <1>2 DEF Walk
  <2> QED BY <1>3, <2>1 DEF Moved
<1>8. /\ Walk(nodes', stack')
      /\ \E g : Written(nodes', stack', printed', g)
      /\ \E h : Held(nodes', stack', indents', h)
  BY <1>1, <1>4, <1>5, <1>6, Zenon
<1>9. Ids' = Ids
  BY <1>1 DEF Ids
<1> QED BY <1>1, <1>2, <1>7, <1>8, <1>9 DEF Printing

\* The next child is printed.
LEMMA ChildPrints ==
  ASSUME IInv, Printing, PrintChild
  PROVE  Printing'
<1>1. /\ call = "print" /\ ~Done /\ Child # Nil /\ nodes' = nodes /\ call' = call
      /\ stack' = Append(Advanced, EnterPrint(Child)) /\ printed' = Append(printed, Child)
      /\ indents' = indents + Indents(Child)
  BY DEF PrintChild, heap
<1>2. /\ Walk(nodes, stack) /\ (\E g : Written(nodes, stack, printed, g))
      /\ (\E h : Held(nodes, stack, indents, h))
      /\ printed # <<>> /\ printed[1] = stack[1].node /\ printed \in Seq(Ids)
  BY <1>1 DEF Printing
<1>3. PICK c \in Ids : c = Child
  BY <1>1, NextChild
<1>4. /\ Grown(nodes) /\ Moved(stack, Advanced)
      /\ stack[Len(stack)].child \in 1..Len(nodes[stack[Len(stack)].node].kids)
      /\ nodes[stack[Len(stack)].node].kids[stack[Len(stack)].child] = c
  BY <1>1, <1>3, Innermost
<1>5. Shows(nodes, c)
  BY <1>1, <1>2, <1>3, ChildShown
<1>6. PICK k \in Nat : k = EnterPrint(c).child
  BY StartShown
<1>7. /\ EnterPrint(c).node = c /\ k \in 1..(Len(nodes[c].kids) + 1)
      /\ (TypeIn(nodes, c) = "prog" => k >= 3) /\ Shown(nodes, c)[k - 1] = <<c>>
  BY <1>6, StartShown
<1>8. c \in 1..Len(nodes) /\ c \in Nat
  BY DEF Ids
<1>9. PICK L \in Nat \ {0} : L = Len(stack)
  BY <1>2 DEF Walk
<1>10. Entered(stack, stack', c, k)
  <2>1. AstTypes /\ stack # <<>>
    BY <1>1 DEF IInv, AstTypes
  <2>2. Advanced \in Seq(Call) /\ Len(Advanced) = Len(stack)
    BY <2>1, StackFacts
  <2>3. PICK e \in Call : e = EnterPrint(c)
    <3>1. c \in Ids /\ (IF TypeOf(c) = "prog" THEN 3 ELSE 1) \in Nat \ {0}
      OBVIOUS
    <3> QED BY <3>1 DEF EnterPrint, Call
  <2>4. stack' = Append(Advanced, e)
    BY <1>1, <1>3, <2>3
  <2>5. /\ Len(stack') = L + 1 /\ \A f \in 1..L : stack'[f] = Advanced[f]
        /\ stack'[L + 1] = e
    <3>1. Len(Advanced) = L
      BY <1>9, <2>2
    <3> QED BY <2>2, <2>4, <3>1, AppendFacts
  <2>6. e.node = c /\ e.child = k
    BY <1>6, <1>7, <2>3
  <2> QED BY <1>4, <1>9, <2>5, <2>6 DEF Entered, Moved
<1>11. Walk(nodes, stack')
  BY <1>2, <1>4, <1>5, <1>7, <1>8, <1>10, EnterWalk
<1>12. \E g : Written(nodes, stack', Append(printed, c), g)
  <2>1. PICK g : Written(nodes, stack, printed, g)
    BY <1>2
  <2> QED BY <1>2, <1>4, <1>7, <1>8, <1>10, <2>1, EnterWritten
<1>13. \E h : Held(nodes, stack', indents + Cost(nodes, c), h)
  <2>1. PICK h : Held(nodes, stack, indents, h)
    BY <1>2
  <2>2. Len(stack) \in {L} /\ L \in Nat
    BY <1>9
  <2> QED BY <1>10, <2>1, <2>2, EnterHeld
<1>14. stack'[1].node = stack[1].node
  BY <1>9, <1>10 DEF Entered
<1>15. /\ Append(printed, c) \in Seq(Ids) /\ Append(printed, c) # <<>>
       /\ Append(printed, c)[1] = printed[1]
  <2>1. 1 \in 1..Len(printed)
    BY <1>2, EmptySeq
  <2> QED BY <1>2, <2>1, AppendFacts
<1>16. printed' = Append(printed, c) /\ indents' = indents + Cost(nodes, c)
  BY <1>1, <1>3, TypesIn
<1>17. /\ Walk(nodes', stack')
       /\ \E g : Written(nodes', stack', printed', g)
       /\ \E h : Held(nodes', stack', indents', h)
  BY <1>1, <1>11, <1>12, <1>13, <1>16, Zenon
<1>18. Ids' = Ids
  BY <1>1 DEF Ids
<1> QED BY <1>1, <1>2, <1>14, <1>15, <1>16, <1>17, <1>18 DEF Printing

\* A call of printNode returns.
LEMMA ReturnPrints ==
  ASSUME IInv, Printing, PrintReturn
  PROVE  Printing'
<1>1. /\ call = "print" /\ Done /\ nodes' = nodes /\ stack' = Front(stack)
      /\ call' = (IF Len(stack) = 1 THEN "none" ELSE "print")
      /\ printed' = printed /\ indents' = indents - Indents(Top.node)
  BY DEF PrintReturn, heap
<1>2. /\ Walk(nodes, stack) /\ (\E g : Written(nodes, stack, printed, g))
      /\ (\E h : Held(nodes, stack, indents, h))
      /\ printed # <<>> /\ printed[1] = stack[1].node /\ printed \in Seq(Ids)
  BY <1>1 DEF Printing
<1>3. /\ Grown(nodes) /\ Top.node = stack[Len(stack)].node
      /\ stack[Len(stack)].child > Len(nodes[stack[Len(stack)].node].kids)
  BY <1>1, Innermost
<1>4. PICK L \in Nat : L + 1 = Len(stack)
  <2>1. Len(stack) - 1 \in Nat /\ (Len(stack) - 1) + 1 = Len(stack)
    BY <1>2 DEF Walk
  <2> QED BY <2>1
<1>5. Returned(stack, stack')
  <2>1. stack \in Seq(Call) /\ stack # <<>>
    BY <1>1 DEF IInv, AstTypes, Call
  <2> QED BY <1>1, <2>1, FrontFacts DEF Returned
<1>6. PICK h : Held(nodes, stack, indents, h)
  BY <1>2
<1>7. /\ indents' = h[L] /\ h[L] \in Nat
      /\ \E e : Held(nodes, stack', indents', e)
  <2>1. indents' = indents - Cost(nodes, stack[L + 1].node)
    BY <1>1, <1>3, <1>4, TypesIn
  <2>2. Len(stack) \in {L + 1}
    BY <1>4
  <2>3. /\ indents - Cost(nodes, stack[L + 1].node) = h[L] /\ h[L] \in Nat
        /\ \E e : Held(nodes, stack', indents - Cost(nodes, stack[L + 1].node), e)
    BY <1>5, <1>6, <2>2, ReturnHeld
  <2> QED BY <2>1, <2>3, Zenon
<1>8. Ids' = Ids
  BY <1>1 DEF Ids
<1>9. PICK g : Written(nodes, stack, printed, g)
  BY <1>2
<1>10. CASE L = 0
  <2>1. Len(stack) = 1 /\ call' = "none" /\ Len(stack) - 1 = 0
    BY <1>1, <1>4, <1>10
  <2>2. indents' = 0
    BY <1>6, <1>7, <1>10 DEF Held
  <2>3. /\ printed = g[Len(stack) - 1] \o PreorderOf(nodes)[stack[Len(stack)].node]
        /\ PreorderOf(nodes)[stack[Len(stack)].node] \in Orders
    BY <1>2, <1>3, <1>9, AllShown
  <2>4. g[0] = <<>>
    BY <1>9 DEF Written
  <2>5. printed = PreorderOf(nodes)[stack[1].node]
    <3>1. printed = <<>> \o PreorderOf(nodes)[stack[1].node]
          /\ PreorderOf(nodes)[stack[1].node] \in Orders
      BY <2>1, <2>3, <2>4
    <3> QED BY <3>1, EmptyAdds, Zenon
  <2>6. printed' = PreorderOf(nodes')[printed'[1]]
    BY <1>1, <1>2, <2>5, Zenon
  <2> QED BY <1>1, <1>2, <1>8, <2>1, <2>2, <2>6 DEF Printing
<1>11. CASE L # 0
  <2>1. Len(stack) # 1 /\ call' = "print"
    BY <1>1, <1>4, <1>11
  <2>2. Walk(nodes, stack')
    BY <1>2, <1>5, <2>1, ReturnWalk
  <2>3. \E e : Written(nodes, stack', printed, e)
    BY <1>2, <1>3, <1>5, <1>9, <2>1, ReturnWritten
  <2>4. stack'[1] = stack[1]
    BY <1>4, <1>5, <1>11 DEF Returned
  <2>5. /\ Walk(nodes', stack')
        /\ \E e : Written(nodes', stack', printed', e)
        /\ \E e : Held(nodes', stack', indents', e)
    BY <1>1, <1>7, <2>2, <2>3, Zenon
  <2> QED BY <1>1, <1>2, <1>8, <2>1, <2>4, <2>5 DEF Printing
<1> QED BY <1>10, <1>11

LEMMA InitPrinting == Init => Printing
<1> SUFFICES ASSUME Init PROVE Printing
    OBVIOUS
<1>1. printed = <<>> /\ call = "none" /\ indents = 0
  BY DEF Init
<1> QED BY <1>1 DEF Printing

LEMMA StepPrinting == IInv /\ Printing /\ [Next]_vars => Printing'
<1> SUFFICES ASSUME IInv, Printing, [Next]_vars PROVE Printing'
    OBVIOUS
<1>1. ASSUME printed' = <<>>, indents' = indents, call # "print", call' # "print"
      PROVE  Printing'
  BY <1>1 DEF Printing
<1>2. ASSUME NEW t \in Types, Create(t) PROVE Printing'
  <2>1. printed' = <<>> /\ indents' = indents /\ call # "print" /\ call' # "print"
    BY <1>2 DEF Create
  <2> QED BY <1>1, <2>1
<1>3. ASSUME NEW n \in live, FreeCall(n) PROVE Printing'
  <2>1. printed' = <<>> /\ indents' = indents /\ call # "print" /\ call' # "print"
    BY <1>3 DEF FreeCall
  <2> QED BY <1>1, <2>1
<1>4. ASSUME NEW n \in live, PrintCall(n) PROVE Printing'
  BY <1>4, PrintCallPrints
<1>5. CASE SkipChild
  <2>1. CASE call = "print"
    BY <1>5, <2>1, SkipPrints
  <2>2. CASE call # "print"
    <3>1. printed' = <<>> /\ indents' = indents /\ call' # "print"
      BY <1>5, <2>2 DEF SkipChild, Printing
    <3> QED BY <1>1, <2>2, <3>1
  <2> QED BY <2>1, <2>2
<1>6. CASE FreeChild
  <2>1. printed' = <<>> /\ indents' = indents /\ call # "print" /\ call' # "print"
    BY <1>6 DEF FreeChild, Printing
  <2> QED BY <1>1, <2>1
<1>7. CASE FreeReturn
  <2>1. printed' = <<>> /\ indents' = indents /\ call # "print" /\ call' # "print"
    BY <1>7 DEF FreeReturn, Printing
  <2> QED BY <1>1, <2>1
<1>8. CASE PrintChild
  BY <1>8, ChildPrints
<1>9. CASE PrintReturn
  BY <1>9, ReturnPrints
<1>10. CASE UNCHANGED vars
  <2>1. /\ nodes' = nodes /\ printed' = printed /\ call' = call /\ indents' = indents
        /\ stack' = stack
    BY <1>10 DEF vars
  <2>2. Ids' = Ids
    BY <2>1 DEF Ids
  <2> QED BY <2>1, <2>2 DEF Printing
<1> QED
  BY <1>2, <1>3, <1>4, <1>5, <1>6, <1>7, <1>8, <1>9, <1>10 DEF Next, Step, Stopped

\* printNode shows each node of a tree of any size once, in preorder, and gives
\* back every indent string it took (ast.c:454-579).
THEOREM TreesArePrinted == Spec => []PrintsTree
<1>1. Printing => PrintsTree
  <2> SUFFICES ASSUME Printing, call = "none", printed # <<>>
               PROVE  indents = 0 /\ printed = Preorder[printed[1]]
      BY DEF PrintsTree
  <2>1. indents = 0 /\ printed = PreorderOf(nodes)[printed[1]]
    BY DEF Printing
  <2> QED BY <2>1, PreorderOfNodes, Zenon
<1>2. Spec => [](IInv /\ Printing)
  BY InitIInv, StepIInv, InitPrinting, StepPrinting, PTL DEF Spec
<1> QED BY <1>1, <1>2, PTL

\* Nodes, calls and what was printed have their types, the children of every
\* node are nodes, and no indent string is freed that was not allocated
\* (ast.c:454-579).
THEOREM TypeCorrect == Spec => []TypeOK
<1>1. IInv /\ Printing => TypeOK
  <2> SUFFICES ASSUME IInv, Printing PROVE TypeOK
      OBVIOUS
  <2>1. AstTypes /\ Wired
    BY DEF IInv
  <2>2. nodes \in Seq([type : Types, kids : Seq(Ids \cup {Nil})])
    <3>0. DOMAIN nodes = 1..Len(nodes) /\ Len(nodes) \in Nat
      BY <2>1, NodeFacts
    <3>1. ASSUME NEW n \in 1..Len(nodes)
          PROVE  nodes[n] \in [type : Types, kids : Seq(Ids \cup {Nil})]
      <4>1. n \in Ids
        BY DEF Ids
      <4>2. /\ nodes[n] \in [type : Types, kids : Seq(Nat)] /\ nodes[n].kids \in Seq(Nat)
            /\ DOMAIN nodes[n].kids = 1..Len(nodes[n].kids) /\ Len(nodes[n].kids) \in Nat
        BY <2>1, <4>1, NodeFacts
      <4>3. \A j \in 1..Len(nodes[n].kids) : nodes[n].kids[j] \in Ids \cup {Nil}
        <5> SUFFICES ASSUME NEW j \in 1..Len(nodes[n].kids)
                     PROVE  nodes[n].kids[j] \in Ids \cup {Nil}
            OBVIOUS
        <5>1. nodes[n].kids[j] \in 0..(n - 1)
          BY <2>1, <4>1, <4>2 DEF Wired, Kid
        <5> QED BY <3>0, <5>1 DEF Ids, Nil
      <4>4. nodes[n].kids \in Seq(Ids \cup {Nil})
        BY <4>2, <4>3
      <4> QED BY <4>2, <4>4
    <3>2. nodes = [n \in 1..Len(nodes) |-> nodes[n]]
      <4> DEFINE S == [type : Types, kids : Seq(Nat)]
      <4>1. nodes \in Seq(S)
        BY <2>1 DEF AstTypes
      <4> HIDE DEF S
      <4> QED BY <4>1
    <3> DEFINE T == [type : Types, kids : Seq(Ids \cup {Nil})]
    <3>3. \A n \in 1..Len(nodes) : nodes[n] \in T
      BY <3>1
    <3> HIDE DEF T
    <3>4. nodes \in Seq(T)
      BY <3>0, <3>2, <3>3
    <3> QED BY <3>4 DEF T
  <2>3. indents \in Nat
    <3>1. CASE call = "print"
      <4>1. PICK h : Held(nodes, stack, indents, h)
        BY <3>1 DEF Printing
      <4>2. Len(stack) \in Nat
        BY <3>1 DEF Printing, Walk
      <4> QED BY <4>1, <4>2 DEF Held
    <3>2. CASE call # "print"
      BY <3>2 DEF Printing
    <3> QED BY <3>1, <3>2
  <2> QED BY <2>1, <2>2, <2>3 DEF TypeOK, AstTypes, Printing
<1>2. Spec => [](IInv /\ Printing)
  BY InitIInv, StepIInv, InitPrinting, StepPrinting, PTL DEF Spec
<1> QED BY <1>1, <1>2, PTL
=============================================================================
