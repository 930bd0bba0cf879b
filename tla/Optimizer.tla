------------------------------- MODULE Optimizer -------------------------------
(***************************************************************************)
(* constantPropagation of test.y and the three functions it calls, on a    *)
(* function in SSA form as LLVM holds it: a list of instructions, each an  *)
(* opcode and operands.  The LLVM calls are modelled by what they do to    *)
(* that list, for a library built without assertions.                      *)
(*                                                                         *)
(* The walk goes on to use what it has erased.  What it does to the        *)
(* function from there on may be anything: the model of the walk ends      *)
(* there, and pc says why.                                                 *)
(***************************************************************************)
EXTENDS Integers, Sequences

CONSTANTS
  Functions,  \* what "main" of the module read may be
  Modulus     \* an integer is computed modulo this

Inst(i) == <<"inst", i>>
Const(c) == <<"const", c>>
Arg == <<"arg", 0>>
Label(b) == <<"block", b>>
Wild == <<"wild", 0>>       \* read beyond the operands

\* What may be an operand, where the instructions are those of s.
ValuesOf(s) == ({"inst"} \X s) \cup ({"const", "block", "arg"} \X Nat)

NoResult == {"ret", "br", "store"}
TypeOf(o) == CASE o = "alloca" -> "ptr" [] o = "icmp" -> "bool"
               [] o \in NoResult -> "void" [] OTHER -> "int"

\* What LLVMParseIRInContext delivers.  A function that has instructions has
\* one that ends a block; what has no result is nobody's operand.
WellFormed(f) ==
  /\ f.op \in Seq(STRING)
  /\ f.args \in [DOMAIN f.op -> Seq(ValuesOf(DOMAIN f.op))]
  /\ \A i, j \in DOMAIN f.op : \A n \in DOMAIN f.args[i] :
       f.args[i][n] = Inst(j) => f.op[j] \notin NoResult
  /\ f.op # <<>> => \E t \in DOMAIN f.op : f.op[t] \in NoResult

ASSUME OptimizerAssumption ==
  /\ \A f \in Functions : WellFormed(f)
  /\ Modulus \in Nat \ {0}

VARIABLES
  op,       \* the opcode of each instruction
  args,     \* its operands; none once it is erased
  erased,   \* the instructions deleted
  inst,     \* the loop variable instruction
  temp,     \* the local variable of eliminateSubexpr
  pc        \* the statement of the loop that comes next, or how it stopped

data == <<args, erased>>
vars == <<op, args, erased, inst, temp, pc>>

Insts == DOMAIN op
Values == ValuesOf(Insts) \cup {Wild}
Running == {"deadcode", "fold", "subexpr", "temp", "next"}
Undefineds == {"erased", "unset", "no instruction"}

\* LLVMGetFirstBasicBlock is null for a declaration.
Init ==
  /\ \E f \in Functions : op = f.op /\ args = f.args
  /\ erased = {} /\ inst = 1 /\ temp = Wild
  /\ pc = IF op = <<>> THEN "done" ELSE "deadcode"

-----------------------------------------------------------------------------
(* The LLVM calls *)

\* LLVMGetOperand; the assertion of User.h:170 is not compiled in.
Operand(i, n) == IF n < Len(args[i]) THEN args[i][n + 1] ELSE Wild

IsErased(v) == \E i \in erased : v = Inst(i)
IsAnInst(v) == \E i \in Insts : v = Inst(i)

\* LLVMIsAConstant; what lies behind the operands may be taken for anything.
MayBeConstant(v) == v[1] = "const" \/ v = Wild
MayBeOther(v) == v[1] # "const"

\* LLVMGetNumUses is 0, as far as this function goes.
Unused(v) == \A i \in Insts : \A n \in DOMAIN args[i] : args[i][n] # v

\* LLVMReplaceAllUsesWith
Replaced(a, v, w) ==
  [i \in DOMAIN a |-> [n \in DOMAIN a[i] |-> IF a[i][n] = v THEN w ELSE a[i][n]]]

\* LLVMInstructionEraseFromParent, as far as it changes operands
Without(a, i) == [a EXCEPT ![i] = <<>>]

\* Taking an operand out of the use list of a deleted value writes there.
Dangling(i) == \E n \in DOMAIN args[i] : IsErased(args[i][n])

Stop(why) == pc' = why /\ UNCHANGED <<op, args, erased, inst, temp>>
Proceed(to) == pc' = to /\ UNCHANGED <<op, inst>>

-----------------------------------------------------------------------------

\* Mutant: a value without uses that is no instruction is left alone, and so
\* is an instruction without a result.
EliminateDeadValues(v, then) ==
  /\ ~IsErased(v)
  /\ UNCHANGED temp
  /\ \/ UNCHANGED data /\ Proceed(then)
     \/ /\ Unused(v) /\ IsAnInst(v) /\ op[v[2]] \notin NoResult /\ ~Dangling(v[2])
        /\ args' = Without(args, v[2]) /\ erased' = erased \cup {v[2]}
        /\ Proceed(then)

\* eliminateDeadCode(v).  A constant may have uses in other functions.
EliminateDeadCode(v, then) ==
  \/ IsErased(v) /\ Stop("erased")
  \/ Unused(v) /\ IsAnInst(v) /\ Dangling(v[2]) /\ Stop("erased")
  \/ Unused(v) /\ ~IsAnInst(v) /\ Stop("no instruction")
  \/ /\ ~IsErased(v)
     /\ ~Unused(v) \/ v[1] = "const"
     /\ UNCHANGED <<data, temp>> /\ Proceed(then)
  \/ /\ ~IsErased(v) /\ Unused(v) /\ IsAnInst(v) /\ ~Dangling(v[2])
     /\ args' = Without(args, v[2]) /\ erased' = erased \cup {v[2]}
     /\ UNCHANGED temp /\ Proceed(then)

DeadInstruction == pc = "deadcode" /\ EliminateDeadCode(Inst(inst), "fold")
DeadTemp == pc = "temp" /\ EliminateDeadCode(temp, "next")

-----------------------------------------------------------------------------
(* foldBinOp *)

\* LLVMConstAdd, LLVMConstSub and LLVMConstMul on integers of one width.
Folded(o, c, d) ==
  (CASE o = "add" -> c + d [] o = "sub" -> c - d [] o = "mul" -> c * d) % Modulus

\* It reads the instruction, its first operand and, behind &&, the second.
ReadsErased ==
  \/ inst \in erased
  \/ IsErased(Operand(inst, 0))
  \/ MayBeConstant(Operand(inst, 0)) /\ IsErased(Operand(inst, 1))
BothConstant == \A n \in {0, 1} : MayBeConstant(Operand(inst, n))

FoldReads == pc = "fold" /\ ReadsErased /\ Stop("erased")

\* Mutant: the uses of the instruction are left as they are.
FoldConstantKeepsUses ==
  /\ pc = "fold" /\ ~ReadsErased /\ BothConstant
  /\ op[inst] \in {"add", "sub", "mul"}
  /\ args' = Without(args, inst) /\ erased' = erased \cup {inst}
  /\ UNCHANGED temp /\ Proceed("next")

\* Mutant: op1 - op0 instead of op0 - op1.
FoldConstantSwapped ==
  /\ pc = "fold" /\ ~ReadsErased /\ BothConstant
  /\ op[inst] \in {"add", "sub", "mul"}
  /\ LET result == Folded(op[inst], Operand(inst, 1)[2], Operand(inst, 0)[2])
     IN  args' = Without(Replaced(args, Inst(inst), Const(result)), inst)
  /\ erased' = erased \cup {inst}
  /\ UNCHANGED temp /\ Proceed("next")

\* eliminateSubexpr then does nothing with the constant returned.
FoldConstant ==
  /\ pc = "fold" /\ ~ReadsErased /\ BothConstant
  /\ op[inst] \in {"add", "sub", "mul"}
  /\ LET result == Folded(op[inst], Operand(inst, 0)[2], Operand(inst, 1)[2])
     IN  args' = Without(Replaced(args, Inst(inst), Const(result)), inst)
  /\ erased' = erased \cup {inst}
  /\ UNCHANGED temp /\ Proceed("next")

\* No branch sets the variable constant.
FoldUnset ==
  /\ pc = "fold" /\ ~ReadsErased /\ BothConstant
  /\ op[inst] \notin {"add", "sub", "mul"}
  /\ Stop("unset")

FoldNothing ==
  /\ pc = "fold" /\ ~ReadsErased
  /\ \E n \in {0, 1} : MayBeOther(Operand(inst, n))
  /\ UNCHANGED <<data, temp>> /\ Proceed("subexpr")

-----------------------------------------------------------------------------
(* eliminateSubexpr, on an instruction that foldBinOp returned as it was *)

Op0 == Operand(inst, 0)[2]
Op1 == Operand(inst, 1)[2]
Subexpr == Operand(Op0, 0)

\* Its conditions, from left to right.
ReadsErasedOp1 ==
  Len(args[inst]) = 2 /\ IsAnInst(Operand(inst, 0)) /\ IsErased(Operand(inst, 1))
SameOperation ==
  /\ Len(args[inst]) = 2
  /\ IsAnInst(Operand(inst, 0)) /\ IsAnInst(Operand(inst, 1))
  /\ op[Op0] = op[Op1] /\ TypeOf(op[Op0]) = TypeOf(op[Op1])

SubexprReads ==
  /\ pc = "subexpr"
  /\ \/ ReadsErasedOp1
     \/ /\ SameOperation /\ ~ReadsErasedOp1
        /\ Dangling(Op0) \/ IsErased(Operand(Op1, 0))
  /\ Stop("erased")

SubexprNothing ==
  /\ pc = "subexpr" /\ ~ReadsErasedOp1 /\ ~SameOperation
  /\ UNCHANGED <<data, temp>> /\ Proceed("next")

SubexprDefined ==
  /\ pc = "subexpr" /\ ~ReadsErasedOp1 /\ SameOperation
  /\ ~Dangling(Op0) /\ ~IsErased(Operand(Op1, 0))

\* A value replaced by itself is used as often as before: the loop of
\* LLVMReplaceAllUsesWith does not end.
SubexprForever == SubexprDefined /\ Subexpr = Inst(Op1) /\ Stop("forever")

\* op1 is replaced and op0 erased; eliminateDeadCode(temp) follows.
SubexprReplace ==
  /\ SubexprDefined
  /\ Subexpr # Inst(Op1)
  /\ temp' = Operand(Op1, 0)
  /\ args' = Without([Replaced(args, Inst(Op1), Subexpr) EXCEPT ![Op1][1] = Subexpr], Op0)
  /\ erased' = erased \cup {Op0}
  /\ Proceed("temp")

-----------------------------------------------------------------------------

\* The instructions left behind inst, in its block and those after it.
Following == {j \in Insts : j > inst /\ j \notin erased}

\* LLVMGetNextInstruction, or the first instruction of the next block.
NextInstruction ==
  /\ pc = "next" /\ inst \notin erased
  /\ IF Following = {}
     THEN Stop("done")
     ELSE /\ inst' \in {j \in Following : \A k \in Following : j <= k}
          /\ pc' = "deadcode"
          /\ UNCHANGED <<op, data, temp>>

NextErased == pc = "next" /\ inst \in erased /\ Stop("erased")

Stopped == pc \notin Running /\ UNCHANGED vars

Walk ==
  \/ DeadInstruction \/ DeadTemp
  \/ FoldReads \/ FoldConstant \/ FoldUnset \/ FoldNothing
  \/ SubexprReads \/ SubexprNothing \/ SubexprForever \/ SubexprReplace
  \/ NextInstruction \/ NextErased

Next == Walk \/ Stopped

Spec == Init /\ [][Next]_vars

-----------------------------------------------------------------------------

\* The type invariant.  What is erased has given its operands back.
TypeOK ==
  /\ op \in Seq(STRING)
  /\ args \in [Insts -> Seq(Values)]
  /\ erased \in SUBSET Insts
  /\ \A i \in erased : DOMAIN args[i] = {}
  /\ pc \in Running => inst \in Insts
  /\ pc \in Running \cup Undefineds \cup {"done", "forever"}

\* The walk of test.y:294-302 does not get behind an instruction without a
\* result, the first store or the end of the first block, before it has used
\* something it erased: nothing uses such an instruction, so eliminateDeadCode
\* erases it and foldBinOp reads it.  Only a declaration is walked to its end
\* without that.
NothingBehindVoid ==
  \A t \in Insts : op[t] \in NoResult => inst <= t /\ pc # "done"

\* What an operand is when instruction i gives val[i] and the argument is val[0].
Evaluated(val, v) ==
  CASE v[1] = "const" -> v[2]
    [] v[1] = "inst" -> val[v[2]]
    [] v = Arg -> val[0]
    [] OTHER -> 0

\* The instructions may give val: the arithmetic ones compute it, in whatever
\* order; what others give, a load for instance, is anything.
Computes(val) ==
  \A i \in Insts \ erased :
    op[i] \in {"add", "sub", "mul"} =>
      val[i] = Folded(op[i], Evaluated(val, Operand(i, 0)), Evaluated(val, Operand(i, 1)))

Valuations == [{0} \cup Insts -> 0..(Modulus - 1)]

\* What is left gets the operands it got.
MeaningKept ==
  UNCHANGED data \/
  \A val \in Valuations : Computes(val) =>
    \A i \in Insts \ erased' :
      /\ DOMAIN args'[i] = DOMAIN args[i]
      /\ \A n \in DOMAIN args[i] : Evaluated(val, args'[i][n]) = Evaluated(val, args[i][n])

\* The two functions that are named for it, dead code elimination and constant
\* folding (test.y:251-275), change no value that is still computed.
FoldKeepsMeaning == [][(pc \in {"deadcode", "fold"}) => MeaningKept]_vars

\* They leave no operand behind that refers to an instruction they erased
\* (test.y:264-265 replace the uses before they erase).
FoldLeavesNoUse ==
  [][(pc \in {"deadcode", "fold"}) =>
       \A i \in erased' \ erased : Unused(Inst(i))']_vars

-----------------------------------------------------------------------------
(* What the code does not keep *)

\* All of the walk, common subexpressions included, keeps what the function
\* computes (test.y:228 and test.y:14-15 call it an optimization).
WalkKeepsMeaning == [][MeaningKept]_vars
=============================================================================
