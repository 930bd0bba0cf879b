----------------------------- MODULE MCLlvmDriver -----------------------------
(* What "main" of the module read may be: functions of up to seven instructions, *)
(* arithmetic, stack slots, two blocks, and a declaration.                       *)
EXTENDS LlvmDriver

ret(v) == <<"ret", <<v>>>>

\* One more instruction behind those of body.
Arithmetic(body, ops, leaves) ==
  {<<o, <<v, w>>>> : o \in ops, v, w \in leaves \cup {Inst(j) : j \in DOMAIN body}}
Extended(bodies, ops, leaves) ==
  UNION {{Append(b, i) : i \in Arithmetic(b, ops, leaves)} : b \in bodies}
Returning(bodies) == {Append(b, ret(Inst(Len(b)))) : b \in bodies}

\* Three instructions that depend on the argument, and their result returned.
Arith1 == Extended({<<>>}, {"add", "sub"}, {Arg, Const(1)})
Arith3 == Extended(Extended(Arith1, {"add", "mul"}, {Arg, Const(1)}), {"sub", "mul"}, {Arg})
\* Two with constants, among them operations that foldBinOp does not know.
Folding == Extended(Extended({<<>>}, {"add", "sub", "mul", "icmp"}, {Const(1), Const(2)}),
                    {"sub", "icmp"}, {Arg, Const(3)})

\* Four, of which the last may use an operation made of another one.
Two == <<<<"add", <<Arg, Const(1)>>>>, <<"add", <<Arg, Const(1)>>>>>>
Four == Extended(Extended({Two}, {"add"}, {Arg}), {"add"}, {Arg})

\* An instruction behind one whose operands eliminateSubexpr has taken away.
Taken == Append(Two, <<"add", <<Inst(1), Inst(2)>>>>)
Behind == {Append(b, <<"add", <<Inst(4), v>>>>) :
             b \in Extended({Taken}, {"add"}, {Arg}), v \in {Inst(1), Inst(2), Inst(3)}}

\* Its user is the operand of an instruction that is replaced.
Orphan == Taken \o <<<<"add", <<Inst(3), Arg>>>>, <<"add", <<Arg, Const(1)>>>>,
                     <<"add", <<Inst(5), Inst(4)>>>>>>

\* A variable on the stack: alloca, two of store, load and add, and a return.
Slot == <<"alloca", <<Const(1)>>>>
Access(body) ==
  LET ints == {Const(2)} \cup {Inst(j) : j \in {k \in DOMAIN body : body[k][1] \in {"load", "add"}}}
  IN  {<<"load", <<Inst(1)>>>>} \cup {<<"store", <<v, Inst(1)>>>> : v \in ints}
      \cup {<<"add", <<v, w>>>> : v, w \in ints}
Accessed(bodies) == UNION {{Append(b, i) : i \in Access(b)} : b \in bodies}
Stack == Accessed(Accessed(Accessed({<<Slot>>})))

\* A branch between two instructions.
Blocks == Extended({Append(b, <<"br", <<Label(2)>>>>) : b \in Arith1}, {"add"}, {Arg})
NoVoidUse(b) ==
  \A i, j \in DOMAIN b : b[j][1] \in NoResult =>
    \A n \in DOMAIN b[i][2] : b[i][2][n] # Inst(j)

AsFunction(b) == [op |-> [i \in DOMAIN b |-> b[i][1]], args |-> [i \in DOMAIN b |-> b[i][2]]]
MCFunctions ==
  {AsFunction(b) : b \in {<<>>} \cup Returning(Arith3 \cup Folding \cup Behind \cup Four \cup {Orphan})
                         \cup {Append(s, ret(Const(0))) : s \in Stack}
                         \cup {b \in Returning(Blocks) : NoVoidUse(b)}}
=============================================================================
