---------------------------- MODULE OptimizerProofs ----------------------------
(***************************************************************************)
(* Proofs about Optimizer: for every function the module read may hold,    *)
(* the walk does not get behind the first instruction without a result,    *)
(* and the steps that eliminate dead code and fold constants leave no      *)
(* operand behind that refers to what they erase; and about the whole      *)
(* (LlvmDriver): the walk is the same in it, and what it creates of LLVM's *)
(* objects is disposed of once.                                            *)
(***************************************************************************)
EXTENDS LlvmDriver, TLAPS

\* What has no result is nobody's operand, and temp is or was an operand.
NotAnOperand ==
  \A t \in Insts : op[t] \in NoResult =>
    /\ \A i \in Insts : \A n \in DOMAIN args[i] : args[i][n] # Inst(t)
    /\ temp # Inst(t)

\* An instruction without a result is erased when the walk is at it, before
\* foldBinOp reads it, and by nothing else.
ErasedInPlace ==
  \A t \in Insts : op[t] \in NoResult /\ pc \in Running =>
    /\ inst = t => (pc = "deadcode" /\ t \notin erased) \/ (pc = "fold" /\ t \in erased)
    /\ inst # t => t \notin erased

\* The inductive invariant.
IInv == TypeOK /\ NotAnOperand /\ NothingBehindVoid /\ ErasedInPlace

\* Every function LLVM delivers satisfies it (test.y:294-295).
LEMMA InitHolds == Init => IInv
<1> SUFFICES ASSUME Init PROVE IInv
  OBVIOUS
<1>1. PICK f \in Functions : op = f.op /\ args = f.args
  BY DEF Init
<1>2. WellFormed(f)
  BY OptimizerAssumption
<1>3. TypeOK
  BY <1>1, <1>2 DEF Init, TypeOK, WellFormed, Insts, Values, Running
<1>4. NotAnOperand
  BY <1>1, <1>2 DEF Init, NotAnOperand, WellFormed, Insts, Inst, Wild
<1>5. NothingBehindVoid /\ ErasedInPlace
  BY <1>1, <1>2 DEF Init, NothingBehindVoid, ErasedInPlace, WellFormed, Insts
<1> QED
  BY <1>3, <1>4, <1>5 DEF IInv

\* The operands foldBinOp and eliminateSubexpr read are values, or lie behind
\* the operands of the instruction (test.y:252-253 and 279-285).
LEMMA OperandTyped ==
  ASSUME TypeOK, NEW i \in Insts, NEW n \in {0, 1}
  PROVE  /\ Operand(i, n) \in Values
         /\ Operand(i, n) # Wild => \E m \in DOMAIN args[i] : args[i][m] = Operand(i, n)
<1>1. args[i] \in Seq(Values)
  BY DEF TypeOK
<1>2. CASE n < Len(args[i])
  <2>1. n + 1 \in DOMAIN args[i]
    BY <1>1, <1>2
  <2> QED
    BY <1>1, <1>2, <2>1 DEF Operand
<1> QED
  BY <1>2 DEF Operand, Values

\* What they read has a result (test.y:252-253 and 279-285).
LEMMA OperandHasResult ==
  ASSUME TypeOK, NotAnOperand, NEW i \in Insts, NEW n \in {0, 1},
         NEW t \in Insts, op[t] \in NoResult
  PROVE  Operand(i, n) # Inst(t)
<1>1. CASE Operand(i, n) = Wild
  BY <1>1 DEF Wild, Inst
<1>2. CASE Operand(i, n) # Wild
  <2>1. PICK m \in DOMAIN args[i] : args[i][m] = Operand(i, n)
    BY <1>2, OperandTyped
  <2> QED
    BY <2>1 DEF NotAnOperand
<1> QED
  BY <1>1, <1>2

\* LLVMReplaceAllUsesWith leaves operands, and no use of the value replaced.
LEMMA ReplacedTyped ==
  ASSUME NEW a \in [Insts -> Seq(Values)], NEW v, NEW w \in Values
  PROVE  /\ Replaced(a, v, w) \in [Insts -> Seq(Values)]
         /\ \A i \in Insts : DOMAIN Replaced(a, v, w)[i] = DOMAIN a[i]
         /\ \A i \in Insts : \A n \in DOMAIN a[i] :
              \/ Replaced(a, v, w)[i][n] = w /\ a[i][n] = v
              \/ Replaced(a, v, w)[i][n] = a[i][n] /\ a[i][n] # v
<1>1. ASSUME NEW i \in Insts
      PROVE  [n \in DOMAIN a[i] |-> IF a[i][n] = v THEN w ELSE a[i][n]] \in Seq(Values)
  BY <1>1
<1>2. /\ DOMAIN Replaced(a, v, w) = Insts
      /\ Replaced(a, v, w) = [i \in Insts |-> Replaced(a, v, w)[i]]
      /\ \A i \in Insts : Replaced(a, v, w)[i] =
           [n \in DOMAIN a[i] |-> IF a[i][n] = v THEN w ELSE a[i][n]]
  BY DEF Replaced
<1>3. Replaced(a, v, w) \in [Insts -> Seq(Values)]
  BY <1>1, <1>2
<1>4. ASSUME NEW i \in Insts
      PROVE  /\ DOMAIN Replaced(a, v, w)[i] = DOMAIN a[i]
             /\ \A n \in DOMAIN a[i] :
                  Replaced(a, v, w)[i][n] = IF a[i][n] = v THEN w ELSE a[i][n]
  BY <1>2
<1>5. ASSUME NEW i \in Insts, NEW n \in DOMAIN a[i]
      PROVE  \/ Replaced(a, v, w)[i][n] = w /\ a[i][n] = v
             \/ Replaced(a, v, w)[i][n] = a[i][n] /\ a[i][n] # v
  <2>1. CASE a[i][n] = v
    BY <2>1, <1>4
  <2>2. CASE a[i][n] # v
    BY <2>2, <1>4
  <2> QED
    BY <2>1, <2>2
<1> QED
  BY <1>3, <1>4, <1>5

\* LLVMInstructionEraseFromParent leaves the operands of the others.
LEMMA WithoutTyped ==
  ASSUME NEW a \in [Insts -> Seq(Values)], NEW i \in Insts
  PROVE  /\ Without(a, i) \in [Insts -> Seq(Values)]
         /\ Without(a, i)[i] = <<>>
         /\ \A j \in Insts : j # i => Without(a, i)[j] = a[j]
BY DEF Without

\* eliminateDeadCode keeps the invariant, called with the instruction the walk
\* is at or with temp (test.y:271-275).
LEMMA DeadCodeHolds ==
  ASSUME IInv, NEW v, NEW then \in {"fold", "next"},
         EliminateDeadCode(v, then),
         \/ pc = "deadcode" /\ v = Inst(inst) /\ then = "fold"
         \/ pc = "temp" /\ v = temp /\ then = "next"
  PROVE  IInv'
<1> USE DEF IInv
<1>1. CASE Stop("erased") \/ Stop("no instruction")
  BY <1>1 DEF Stop, TypeOK, NotAnOperand, NothingBehindVoid, ErasedInPlace, Insts, Values,
              Running, Undefineds, ValuesOf
<1>2. CASE UNCHANGED <<data, temp>> /\ Proceed(then) /\ (~Unused(v) \/ v[1] = "const")
  <2>1. TypeOK' /\ NotAnOperand' /\ NothingBehindVoid'
    BY <1>2 DEF Proceed, data, TypeOK, NotAnOperand, NothingBehindVoid, Insts, Values, Running
  <2>2. v = Inst(inst) => ~Unused(v)
    BY <1>2 DEF Inst
  <2>3. ErasedInPlace'
    BY <1>2, <2>2 DEF Proceed, data, ErasedInPlace, NotAnOperand, Unused, Insts, Running
  <2> QED
    BY <2>1, <2>3
<1>3. CASE /\ ~IsErased(v) /\ Unused(v) /\ IsAnInst(v)
           /\ args' = Without(args, v[2]) /\ erased' = erased \cup {v[2]}
           /\ UNCHANGED temp /\ Proceed(then)
  <2>1. PICK i \in Insts : v = Inst(i) /\ v[2] = i
    BY <1>3 DEF IsAnInst, Inst
  <2>2. UNCHANGED <<op, inst, temp>> /\ pc' = then /\ Insts' = Insts /\ Values' = Values
    BY <1>3 DEF Proceed, Insts, Values
  <2>3. args \in [Insts -> Seq(Values)]
    BY DEF TypeOK
  <2>4. /\ args' \in [Insts -> Seq(Values)]
        /\ args'[i] = <<>>
        /\ \A j \in Insts : j # i => args'[j] = args[j]
    <3>1. args' = Without(args, i)
      BY <1>3, <2>1
    <3> QED
      BY <3>1, <2>3, WithoutTyped
  <2>5. TypeOK'
    BY <1>3, <2>1, <2>2, <2>4 DEF TypeOK, Running
  <2>6. NotAnOperand'
    <3>1. \A t \in Insts : op[t] \in NoResult =>
            /\ \A j \in Insts : \A n \in DOMAIN args'[j] : args'[j][n] # Inst(t)
            /\ temp # Inst(t)
      <4> SUFFICES ASSUME NEW t \in Insts, op[t] \in NoResult
                   PROVE  /\ \A j \in Insts : \A n \in DOMAIN args'[j] : args'[j][n] # Inst(t)
                          /\ temp # Inst(t)
        OBVIOUS
      <4>1. \A j \in Insts : \A n \in DOMAIN args[j] : args[j][n] # Inst(t)
        BY DEF NotAnOperand
      <4>2. ASSUME NEW j \in Insts, NEW n \in DOMAIN args'[j] PROVE args'[j][n] # Inst(t)
        <5>1. j # i
          BY <2>4
        <5> QED
          BY <5>1, <2>4, <4>1
      <4> QED
        BY <4>2 DEF NotAnOperand
    <3> QED
      BY <3>1, <2>2 DEF NotAnOperand
  <2>7. NothingBehindVoid'
    BY <2>2 DEF NothingBehindVoid
  <2>8. ErasedInPlace'
    BY <1>3, <2>1, <2>2 DEF ErasedInPlace, NotAnOperand, Running, Inst, TypeOK
  <2> QED
    BY <2>5, <2>6, <2>7, <2>8
<1> QED
  BY <1>1, <1>2, <1>3 DEF EliminateDeadCode

\* foldBinOp keeps it where it folds: what it erases has a result, as what has
\* none is already erased (test.y:255-266).
LEMMA FoldConstantHolds ==
  ASSUME IInv, FoldConstant
  PROVE  /\ IInv'
         /\ Unused(Inst(inst))'
         /\ erased' = erased \cup {inst}
<1> DEFINE c == Folded(op[inst], Operand(inst, 0)[2], Operand(inst, 1)[2])
           r == Replaced(args, Inst(inst), Const(c))
<1>1. op[inst] \in {"add", "sub", "mul"} /\ inst \notin erased
  BY DEF FoldConstant, ReadsErased
<1>2. inst \in Insts /\ args \in [Insts -> Seq(Values)]
  BY DEF FoldConstant, IInv, TypeOK, Running
<1>3. c \in Nat
  <2>1. ASSUME NEW n \in {0, 1}
        PROVE  Operand(inst, n)[2] \in Nat
    <3>1. Operand(inst, n) \in Values
      BY <1>2, OperandTyped DEF IInv
    <3>2. Operand(inst, n) = Wild \/ Operand(inst, n)[1] = "const"
      BY DEF FoldConstant, BothConstant, MayBeConstant
    <3> QED
      BY <3>1, <3>2 DEF Values, ValuesOf, Wild
  <2>3. Operand(inst, 0)[2] \in Nat /\ Operand(inst, 1)[2] \in Nat
    BY <2>1
  <2>4. \A x, y \in Nat : Folded(op[inst], x, y) \in Nat
    <3>1. \A z \in Int : z % Modulus \in Nat
      BY OptimizerAssumption
    <3>2. CASE op[inst] = "add"
      BY <3>1, <3>2 DEF Folded
    <3>3. CASE op[inst] = "sub"
      BY <3>1, <3>3 DEF Folded
    <3>4. CASE op[inst] = "mul"
      <4>1. \A x, y \in Nat : x * y \in Int
        OBVIOUS
      <4> QED
        BY <3>1, <3>4, <4>1 DEF Folded
    <3> QED
      BY <1>1, <3>2, <3>3, <3>4
  <2> QED
    BY <2>3, <2>4
<1>4. Const(c) \in Values /\ \A j \in Insts : Const(c) # Inst(j)
  BY <1>3 DEF Const, Inst, Values, ValuesOf
<1>5. args' = Without(r, inst) /\ erased' = erased \cup {inst}
      /\ UNCHANGED <<op, inst, temp>> /\ pc' = "next"
  BY DEF FoldConstant, Proceed
<1> HIDE DEF c
<1>6. /\ r \in [Insts -> Seq(Values)]
      /\ \A i \in Insts : DOMAIN r[i] = DOMAIN args[i]
      /\ \A i \in Insts : \A n \in DOMAIN args[i] :
           \/ r[i][n] = Const(c) /\ args[i][n] = Inst(inst)
           \/ r[i][n] = args[i][n] /\ args[i][n] # Inst(inst)
  BY <1>2, <1>4, ReplacedTyped
<1> HIDE DEF r
<1>7. /\ args' \in [Insts -> Seq(Values)]
      /\ args'[inst] = <<>>
      /\ \A j \in Insts : j # inst => args'[j] = r[j]
  BY <1>2, <1>5, <1>6, WithoutTyped
<1>8. \A j \in Insts : \A n \in DOMAIN args'[j] :
        /\ args'[j][n] # Inst(inst)
        /\ \A t \in Insts : args'[j][n] = Inst(t) => n \in DOMAIN args[j] /\ args[j][n] = Inst(t)
  <2> SUFFICES ASSUME NEW j \in Insts, NEW n \in DOMAIN args'[j]
               PROVE  /\ args'[j][n] # Inst(inst)
                      /\ \A t \in Insts : args'[j][n] = Inst(t) =>
                           n \in DOMAIN args[j] /\ args[j][n] = Inst(t)
    OBVIOUS
  <2>1. j # inst
    BY <1>7
  <2>2. n \in DOMAIN args[j] /\ args'[j][n] = r[j][n]
    BY <2>1, <1>6, <1>7
  <2> QED
    BY <2>2, <1>2, <1>4, <1>6
<1>9. Insts' = Insts /\ Values' = Values
  BY <1>5 DEF Insts, Values
<1>10. TypeOK'
  <2>1. ASSUME NEW i \in erased PROVE DOMAIN args'[i] = {}
    <3>1. i \in Insts /\ i # inst /\ DOMAIN args[i] = {}
      BY <1>1 DEF IInv, TypeOK
    <3> QED
      BY <3>1, <1>6, <1>7
  <2> QED
    BY <2>1, <1>2, <1>5, <1>7, <1>9 DEF IInv, TypeOK, Running, FoldConstant
<1>11. NotAnOperand'
  BY <1>5, <1>8, <1>9 DEF IInv, NotAnOperand
<1>12. NothingBehindVoid' /\ ErasedInPlace'
  BY <1>1, <1>5, <1>9 DEF IInv, NothingBehindVoid, ErasedInPlace, FoldConstant, NoResult, Running
<1>13. Unused(Inst(inst))'
  BY <1>5, <1>8, <1>9 DEF Unused, Inst
<1> QED
  BY <1>5, <1>10, <1>11, <1>12, <1>13 DEF IInv

\* The rest of eliminateSubexpr keeps it: op0, which it erases, and the operands
\* it moves have results (test.y:285-288).
LEMMA SubexprReplaceHolds ==
  ASSUME IInv, SubexprReplace
  PROVE  IInv'
<1> DEFINE r == Replaced(args, Inst(Op1), Subexpr)
           s == [r EXCEPT ![Op1][1] = Subexpr]
<1>1. inst \in Insts /\ args \in [Insts -> Seq(Values)]
  BY DEF SubexprReplace, SubexprDefined, IInv, TypeOK, Running
<1>2. /\ Op0 \in Insts /\ Operand(inst, 0) = Inst(Op0)
      /\ Op1 \in Insts /\ Operand(inst, 1) = Inst(Op1)
  BY DEF SubexprReplace, SubexprDefined, SameOperation, IsAnInst, Op0, Op1, Inst
<1>3. op[Op0] \notin NoResult /\ op[Op1] \notin NoResult
  BY <1>1, <1>2, OperandHasResult DEF IInv
<1>4. Subexpr \in Values /\ temp' = Operand(Op1, 0)
  BY <1>2, OperandTyped DEF IInv, SubexprReplace, Subexpr
<1>5. \A t \in Insts : op[t] \in NoResult => Subexpr # Inst(t) /\ temp' # Inst(t)
  BY <1>2, <1>4, OperandHasResult DEF IInv, Subexpr
<1>6. /\ args' = Without(s, Op0) /\ erased' = erased \cup {Op0}
      /\ UNCHANGED <<op, inst>> /\ pc' = "temp" /\ pc = "subexpr"
  BY DEF SubexprReplace, SubexprDefined, Proceed
<1>7. /\ r \in [Insts -> Seq(Values)]
      /\ \A i \in Insts : DOMAIN r[i] = DOMAIN args[i]
      /\ \A i \in Insts : \A n \in DOMAIN args[i] :
           r[i][n] = Subexpr \/ r[i][n] = args[i][n]
  BY <1>1, <1>4, ReplacedTyped
<1> HIDE DEF r
<1>8. /\ s \in [Insts -> Seq(Values)]
      /\ \A i \in Insts : DOMAIN s[i] = DOMAIN r[i]
      /\ \A i \in Insts : \A n \in DOMAIN r[i] : s[i][n] = Subexpr \/ s[i][n] = r[i][n]
  <2>1. [r[Op1] EXCEPT ![1] = Subexpr] \in Seq(Values)
    <3>1. r[Op1] \in Seq(Values)
      BY <1>2, <1>7
    <3>2. ASSUME NEW q \in Seq(Values), NEW x \in Values
          PROVE  [n \in DOMAIN q |-> IF n = 1 THEN x ELSE q[n]] \in Seq(Values)
      OBVIOUS
    <3>3. ASSUME NEW q \in Seq(Values), NEW x \in Values
          PROVE  [q EXCEPT ![1] = x] = [n \in DOMAIN q |-> IF n = 1 THEN x ELSE q[n]]
      OBVIOUS
    <3> QED
      BY <3>1, <3>2, <3>3, <1>4
  <2>2. s = [r EXCEPT ![Op1] = [r[Op1] EXCEPT ![1] = Subexpr]]
    BY <1>2, <1>7
  <2> QED
    BY <2>1, <2>2, <1>2, <1>7
<1> HIDE DEF s
<1>9. /\ args' \in [Insts -> Seq(Values)]
      /\ args'[Op0] = <<>>
      /\ \A j \in Insts : j # Op0 => args'[j] = s[j]
  BY <1>2, <1>6, <1>8, WithoutTyped
<1>10. Insts' = Insts /\ Values' = Values
  BY <1>6 DEF Insts, Values
<1>11. TypeOK'
  <2>1. ASSUME NEW i \in erased' PROVE DOMAIN args'[i] = {}
    <3>1. CASE i = Op0
      BY <3>1, <1>9
    <3>2. CASE i # Op0
      <4>1. i \in Insts /\ DOMAIN args[i] = {}
        BY <3>2, <1>6 DEF IInv, TypeOK
      <4> QED
        BY <4>1, <3>2, <1>7, <1>8, <1>9
    <3> QED
      BY <3>1, <3>2
  <2> QED
    BY <2>1, <1>1, <1>2, <1>6, <1>9, <1>10 DEF IInv, TypeOK, Running
<1>12. NotAnOperand'
  <2>1. ASSUME NEW t \in Insts, op[t] \in NoResult, NEW j \in Insts, NEW n \in DOMAIN args'[j]
        PROVE  args'[j][n] # Inst(t)
    <3>1. j # Op0
      BY <1>9
    <3>2. n \in DOMAIN args[j] /\ (args'[j][n] = Subexpr \/ args'[j][n] = args[j][n])
      BY <3>1, <1>7, <1>8, <1>9
    <3> QED
      BY <2>1, <3>2, <1>5 DEF IInv, NotAnOperand
  <2> QED
    BY <2>1, <1>5, <1>6, <1>10 DEF NotAnOperand
<1>13. NothingBehindVoid' /\ ErasedInPlace'
  BY <1>3, <1>6, <1>10 DEF IInv, NothingBehindVoid, ErasedInPlace, Running
<1> QED
  BY <1>11, <1>12, <1>13 DEF IInv

\* A statement that changes only where the walk is, and not to an instruction
\* without a result, keeps it.
LEMMA ProceedHolds ==
  ASSUME IInv, (pc = "fold" /\ inst \notin erased) \/ pc = "subexpr",
         UNCHANGED <<data, temp>>, Proceed("subexpr") \/ Proceed("next")
  PROVE  IInv'
<1>1. \A t \in Insts : op[t] \in NoResult => inst # t
  BY DEF IInv, ErasedInPlace, Running
<1> QED
  BY <1>1 DEF data, Proceed, IInv, TypeOK, NotAnOperand, NothingBehindVoid, ErasedInPlace,
              Running, Insts, Values

\* The end of the walk, and of what is defined, keeps it: a walk that ends has
\* passed everything.
LEMMA StopHolds ==
  ASSUME IInv, NEW why \in Undefineds \cup {"forever"}, Stop(why)
  PROVE  IInv'
<1>1. /\ UNCHANGED <<op, args, erased, inst, temp>> /\ Insts' = Insts /\ Values' = Values
      /\ pc' = why /\ why # "done" /\ why \notin Running
  BY DEF Stop, Undefineds, Running, Insts, Values
<1>2. TypeOK'
  BY <1>1 DEF IInv, TypeOK
<1>3. NotAnOperand' /\ NothingBehindVoid' /\ ErasedInPlace'
  BY <1>1 DEF IInv, NotAnOperand, NothingBehindVoid, ErasedInPlace
<1> QED
  BY <1>2, <1>3 DEF IInv

\* Every step keeps the invariant.
LEMMA StepHolds == IInv /\ [Next]_vars => IInv'
<1> SUFFICES ASSUME IInv, [Next]_vars PROVE IInv'
  OBVIOUS
<1>1. CASE DeadInstruction
  BY <1>1, DeadCodeHolds DEF DeadInstruction
<1>2. CASE DeadTemp
  BY <1>2, DeadCodeHolds DEF DeadTemp
<1>3. CASE FoldConstant
  BY <1>3, FoldConstantHolds
<1>4. CASE FoldNothing
  BY <1>4, ProceedHolds DEF FoldNothing, ReadsErased, Running
<1>5. CASE SubexprNothing
  BY <1>5, ProceedHolds DEF SubexprNothing
<1>6. CASE SubexprReplace
  BY <1>6, SubexprReplaceHolds
<1>7. CASE FoldReads \/ FoldUnset \/ SubexprReads \/ SubexprForever \/ NextErased
  BY <1>7, StopHolds DEF FoldReads, FoldUnset, SubexprReads, SubexprForever, NextErased, Undefineds
<1>8. CASE NextInstruction
  <2>1. pc = "next" /\ inst \in Insts
    BY <1>8 DEF NextInstruction, IInv, TypeOK, Running
  <2>2. ASSUME NEW t \in Insts, op[t] \in NoResult PROVE t \in Following
    <3>1. inst <= t /\ inst # t /\ t \notin erased
      BY <2>1, <2>2 DEF IInv, NothingBehindVoid, ErasedInPlace, Running
    <3>2. inst \in Int /\ t \in Int
      BY <2>1 DEF IInv, TypeOK, Insts
    <3> QED
      BY <3>1, <3>2 DEF Following
  <2>3. CASE Following = {}
    <3>1. Stop("done")
      BY <1>8, <2>3 DEF NextInstruction
    <3> QED
      BY <3>1, <2>2, <2>3 DEF Stop, IInv, TypeOK, NotAnOperand, NothingBehindVoid, ErasedInPlace,
                              Running, Insts, Values
  <2>4. CASE Following # {}
    <3>1. /\ inst' \in Following /\ \A k \in Following : inst' <= k
          /\ pc' = "deadcode" /\ UNCHANGED <<op, data, temp>>
      BY <1>8, <2>4 DEF NextInstruction
    <3>2. inst' \in Insts /\ inst' \notin erased
      BY <3>1 DEF Following
    <3>3. Insts' = Insts /\ Values' = Values
      BY <3>1 DEF Insts, Values
    <3>4. TypeOK' /\ NotAnOperand'
      BY <3>1, <3>2, <3>3 DEF data, IInv, TypeOK, NotAnOperand, Running
    <3>5. NothingBehindVoid' /\ ErasedInPlace'
      BY <3>1, <3>2, <3>3, <2>1, <2>2 DEF data, IInv, NothingBehindVoid, ErasedInPlace, Running, Following
    <3> QED
      BY <3>4, <3>5 DEF IInv
  <2> QED
    BY <2>3, <2>4
<1>9. CASE UNCHANGED vars
  BY <1>9 DEF vars, IInv, TypeOK, NotAnOperand, NothingBehindVoid, ErasedInPlace, Insts, Values
<1> QED
  BY <1>1, <1>2, <1>3, <1>4, <1>5, <1>6, <1>7, <1>8, <1>9 DEF Next, Walk, Stopped

-----------------------------------------------------------------------------

\* The inductive invariant holds throughout, for every function.
THEOREM WalkIntact == Spec => []IInv
<1> QED
  BY InitHolds, StepHolds, PTL DEF Spec

\* Type correctness of the walk.
THEOREM TypeCorrect == Spec => []TypeOK
<1>1. IInv => TypeOK
  BY DEF IInv
<1> QED
  BY <1>1, WalkIntact, PTL

\* constantPropagation (test.y:294-302) does not get behind the first instruction
\* without a result, whatever function it is given, before it uses what it erased.
THEOREM WalkStopsAtVoid == Spec => []NothingBehindVoid
<1>1. IInv => NothingBehindVoid
  BY DEF IInv
<1> QED
  BY <1>1, WalkIntact, PTL

LEMMA StepLeavesNoUse ==
  IInv /\ [Next]_vars =>
    [(pc \in {"deadcode", "fold"}) => \A i \in erased' \ erased : Unused(Inst(i))']_vars
<1>1. ASSUME IInv, Next, pc \in {"deadcode", "fold"}, NEW i \in erased' \ erased
      PROVE  Unused(Inst(i))'
  <2>1. CASE DeadInstruction
    <3>1. /\ Unused(Inst(inst)) /\ args' = Without(args, inst) /\ inst \in Insts
          /\ erased' = erased \cup {inst} /\ UNCHANGED op
      BY <1>1, <2>1 DEF DeadInstruction, EliminateDeadCode, Inst, Stop, Proceed, data, IInv,
                        TypeOK, Running
    <3>2. args \in [Insts -> Seq(Values)]
      BY <1>1 DEF IInv, TypeOK
    <3>3. /\ args'[inst] = <<>>
          /\ \A j \in Insts : j # inst => args'[j] = args[j]
      BY <3>1, <3>2, WithoutTyped
    <3>4. \A j \in Insts : \A n \in DOMAIN args'[j] : args'[j][n] # Inst(inst)
      BY <3>1, <3>3 DEF Unused
    <3>5. Insts' = Insts /\ i = inst
      BY <1>1, <3>1 DEF Insts
    <3> QED
      BY <3>4, <3>5 DEF Unused, Inst
  <2>2. CASE FoldConstant
    <3>1. Unused(Inst(inst))' /\ i = inst /\ UNCHANGED inst
      BY <1>1, <2>2, FoldConstantHolds DEF FoldConstant, Proceed
    <3> QED
      BY <3>1 DEF Unused, Inst
  <2>3. CASE ~DeadInstruction /\ ~FoldConstant
    <3>1. erased' = erased
      BY <1>1, <2>3 DEF Next, Walk, DeadTemp, FoldReads, FoldUnset, FoldNothing, SubexprReads,
           SubexprNothing, SubexprForever, SubexprReplace, SubexprDefined, NextInstruction,
           NextErased, Stopped, Stop, vars, data, Running
    <3> QED
      BY <3>1, <1>1
  <2> QED
    BY <2>1, <2>2, <2>3
<1> QED
  BY <1>1 DEF vars

\* eliminateDeadCode and foldBinOp leave no use of what they erase
\* (test.y:264-265 and 272-273).
THEOREM FoldingLeavesNoUse == Spec => FoldLeavesNoUse
BY StepLeavesNoUse, WalkIntact, PTL DEF Spec, FoldLeavesNoUse

\* A constant instruction gives the constant it is replaced by; what is read
\* behind the operands is taken for 0 (test.y:253-262).
LEMMA FoldedGives ==
  ASSUME IInv, FoldConstant, NEW val \in Valuations, Computes(val)
  PROVE  val[inst] = Folded(op[inst], Operand(inst, 0)[2], Operand(inst, 1)[2])
<1>1. inst \in Insts \ erased /\ op[inst] \in {"add", "sub", "mul"}
  BY DEF FoldConstant, ReadsErased, IInv, TypeOK, Running
<1>2. ASSUME NEW v, MayBeConstant(v) PROVE Evaluated(val, v) = v[2]
  <2>1. CASE v[1] = "const"
    <3>1. v # Arg /\ v[1] # "inst"
      BY <2>1 DEF Arg
    <3> QED BY <2>1, <3>1 DEF Evaluated
  <2>2. CASE v = Wild
    BY <2>2 DEF Evaluated, Wild, Arg
  <2> QED BY <1>2, <2>1, <2>2 DEF MayBeConstant
<1>3. /\ Evaluated(val, Operand(inst, 0)) = Operand(inst, 0)[2]
      /\ Evaluated(val, Operand(inst, 1)) = Operand(inst, 1)[2]
  <2>1. MayBeConstant(Operand(inst, 0)) /\ MayBeConstant(Operand(inst, 1))
    BY DEF FoldConstant, BothConstant
  <2> QED BY <1>2, <2>1
<1>4. val[inst] = Folded(op[inst], Evaluated(val, Operand(inst, 0)),
                                  Evaluated(val, Operand(inst, 1)))
  BY <1>1 DEF Computes
<1> QED BY <1>3, <1>4

LEMMA FoldConstantKeeps ==
  ASSUME IInv, FoldConstant
  PROVE  MeaningKept
<1> SUFFICES ASSUME NEW val \in Valuations, Computes(val), NEW i \in Insts \ erased'
             PROVE  /\ DOMAIN args'[i] = DOMAIN args[i]
                    /\ \A n \in DOMAIN args[i] :
                         Evaluated(val, args'[i][n]) = Evaluated(val, args[i][n])
    BY DEF MeaningKept
<1>1. PICK result : result = Folded(op[inst], Operand(inst, 0)[2], Operand(inst, 1)[2])
  OBVIOUS
<1>2. /\ args' = Without(Replaced(args, Inst(inst), Const(result)), inst)
      /\ erased' = erased \cup {inst}
  BY <1>1 DEF FoldConstant
<1>3. args \in [Insts -> Seq(Values)] /\ i # inst
  BY <1>2 DEF IInv, TypeOK
<1>4. args'[i] = [n \in DOMAIN args[i] |-> IF args[i][n] = Inst(inst) THEN Const(result)
                                          ELSE args[i][n]]
  BY <1>2, <1>3 DEF Without, Replaced
<1>5. Evaluated(val, Const(result)) = result
  <2>1. PICK v : v = Const(result)
    OBVIOUS
  <2>2. v[1] = "const" /\ v[2] = result /\ v # Arg
    BY <2>1 DEF Const, Arg
  <2>3. Evaluated(val, v) = result
    BY <2>2 DEF Evaluated
  <2> QED BY <2>1, <2>3
<1>6. Evaluated(val, Inst(inst)) = val[inst]
  <2>1. PICK v : v = Inst(inst)
    OBVIOUS
  <2>2. v[1] = "inst" /\ v[2] = inst /\ v # Arg
    BY <2>1 DEF Inst, Arg
  <2>3. Evaluated(val, v) = val[inst]
    BY <2>2 DEF Evaluated
  <2> QED BY <2>1, <2>3
<1>7. val[inst] = result
  BY <1>1, FoldedGives
<1> QED BY <1>4, <1>5, <1>6, <1>7

LEMMA DeadInstructionKeeps ==
  ASSUME IInv, DeadInstruction
  PROVE  MeaningKept
<1>1. CASE UNCHANGED data
  BY <1>1 DEF MeaningKept
<1>2. CASE args' = Without(args, inst) /\ erased' = erased \cup {inst}
  <2>1. args \in [Insts -> Seq(Values)]
    BY DEF IInv, TypeOK
  <2>2. ASSUME NEW i \in Insts \ erased' PROVE args'[i] = args[i]
    <3>1. i # inst
      BY <1>2, <2>2
    <3> QED BY <1>2, <2>1, <3>1 DEF Without
  <2> QED BY <2>2 DEF MeaningKept
<1> QED
  BY <1>1, <1>2 DEF DeadInstruction, EliminateDeadCode, Stop, data, Inst

LEMMA StepKeepsMeaning ==
  IInv /\ [Next]_vars => [(pc \in {"deadcode", "fold"}) => MeaningKept]_vars
<1>1. ASSUME IInv, Next, pc \in {"deadcode", "fold"} PROVE MeaningKept
  <2>1. CASE ~DeadInstruction /\ ~FoldConstant
    <3>1. UNCHANGED data
      BY <1>1, <2>1 DEF Next, Walk, DeadTemp, FoldReads, FoldUnset, FoldNothing, SubexprReads,
           SubexprNothing, SubexprForever, SubexprReplace, SubexprDefined, NextInstruction,
           NextErased, Stopped, Stop, vars, data, Running
    <3> QED BY <3>1 DEF MeaningKept
  <2> QED BY <1>1, <2>1, DeadInstructionKeeps, FoldConstantKeeps
<1> QED
  BY <1>1 DEF vars

\* Dead code elimination and constant folding change no operand of what is left,
\* for functions of any length and whatever loads and calls give
\* (test.y:251-275).
THEOREM FoldingKeepsMeaning == Spec => FoldKeepsMeaning
BY StepKeepsMeaning, WalkIntact, PTL DEF Spec, FoldKeepsMeaning

-----------------------------------------------------------------------------
(* LlvmDriver *)

Before == {"generate", "verify", "dump", "create", "parse"}

\* The inductive invariant: the walk is intact, and until a module is parsed it
\* has not begun.
DriverInv ==
  /\ IInv
  /\ at \in Before => op = <<>> /\ erased = {} /\ inst = 1 /\ temp = Wild

\* Nothing is read before the module is (test.y:306-350).
LEMMA DriverInitHolds == DriverInit => DriverInv
<1> SUFFICES ASSUME DriverInit PROVE DriverInv
  OBVIOUS
<1>1. IInv
  BY DEF DriverInit, IInv, TypeOK, NotAnOperand, NothingBehindVoid, ErasedInPlace, Insts, Running
<1> QED
  BY <1>1 DEF DriverInit, DriverInv

\* A function parsed is one constantPropagation may begin with (test.y:244 and
\* 355-359).
LEMMA ParseMainHolds == DriverInv /\ ParseMain => DriverInv'
<1> SUFFICES ASSUME DriverInv, ParseMain PROVE DriverInv'
  OBVIOUS
<1>1. PICK f \in Functions :
        op' = f.op /\ args' = f.args /\ pc' = IF f.op = <<>> THEN "done" ELSE "deadcode"
  BY DEF ParseMain
<1>2. at = "parse" /\ at' \in {"optimize", "use after dispose"} /\ UNCHANGED <<erased, inst, temp>>
  BY DEF ParseMain, Do
<1>3. Init'
  BY <1>1, <1>2 DEF Init, DriverInv, Before
<1>4. Init' => IInv'
  BY InitHolds, PTL
<1> QED
  BY <1>2, <1>3, <1>4 DEF DriverInv, Before

\* Every other step leaves the function alone or is one of the walk.
LEMMA DriverStepHolds == DriverInv /\ [DriverNext]_driverVars => DriverInv'
<1> SUFFICES ASSUME DriverInv, [DriverNext]_driverVars PROVE DriverInv'
  OBVIOUS
<1>1. ASSUME UNCHANGED vars, ~ParseMain PROVE DriverInv'
  <2>1. IInv'
    BY <1>1, StepHolds DEF DriverInv
  <2>2. UNCHANGED <<op, erased, inst, temp>>
    BY <1>1 DEF vars
  <2>3. at' \in Before => at \in Before
    BY <1>1 DEF DriverNext, driverVars, Generate, Reported, Verified, DumpAndCleanUp,
         CreateFails, CreateBuffer, ParseFails, ParseNoMain, Optimize, Optimized, CodeGen, Emit,
         EmitFails, CleanUp, DriverStopped, Do, Before
  <2> QED
    BY <2>1, <2>2, <2>3 DEF DriverInv
<1>2. CASE Optimize
  <2>1. Next /\ at' = "optimize"
    BY <1>2 DEF Optimize, Next
  <2>2. IInv'
    BY <2>1, StepHolds DEF DriverInv
  <2> QED
    BY <2>1, <2>2 DEF DriverInv, Before
<1>3. CASE ParseMain
  BY <1>3, ParseMainHolds
<1>4. UNCHANGED vars \/ Optimize \/ ParseMain
  BY DEF DriverNext, driverVars, vars, Generate, Reported, Verified, DumpAndCleanUp, CreateFails,
         CreateBuffer, ParseFails, ParseNoMain, Optimized, CodeGen, Emit, EmitFails, CleanUp,
         DriverStopped
<1> QED
  BY <1>1, <1>2, <1>3, <1>4

\* The driver leaves the function alone, takes a step of the walk, or reads the
\* function before there is one to walk over (test.y:313-359).
LEMMA DriverWalks ==
  DriverInv /\ [DriverNext]_driverVars => [Next]_vars \/ pc \notin {"deadcode", "fold"}
<1> SUFFICES ASSUME DriverInv, [DriverNext]_driverVars
             PROVE  [Next]_vars \/ pc \notin {"deadcode", "fold"}
  OBVIOUS
<1>1. CASE UNCHANGED vars
  BY <1>1
<1>2. CASE Optimize
  BY <1>2 DEF Optimize, Next
<1>3. CASE ParseMain
  <2>1. op = <<>>
    BY <1>3 DEF ParseMain, Do, DriverInv, Before
  <2>2. pc \notin Running
    BY <2>1 DEF DriverInv, IInv, TypeOK, Insts
  <2> QED BY <2>2 DEF Running
<1>4. UNCHANGED vars \/ Optimize \/ ParseMain
  BY DEF DriverNext, driverVars, vars, Generate, Reported, Verified, DumpAndCleanUp, CreateFails,
         CreateBuffer, ParseFails, ParseNoMain, Optimized, CodeGen, Emit, EmitFails, CleanUp,
         DriverStopped
<1> QED BY <1>1, <1>2, <1>3, <1>4

\* In the driver, too, these two change no operand of what is left and leave no
\* use of what they erase (test.y:251-275 and 359).
THEOREM DriverFoldsRight == DriverSpec => FoldKeepsMeaning /\ FoldLeavesNoUse
<1>1. DriverSpec => []DriverInv
  BY DriverInitHolds, DriverStepHolds, PTL DEF DriverSpec
<1>2. DriverInv /\ [DriverNext]_driverVars =>
        [(pc \in {"deadcode", "fold"}) => MeaningKept]_vars
  BY DriverWalks, StepKeepsMeaning DEF DriverInv
<1>3. DriverInv /\ [DriverNext]_driverVars =>
        [(pc \in {"deadcode", "fold"}) => \A i \in erased' \ erased : Unused(Inst(i))']_vars
  BY DriverWalks, StepLeavesNoUse DEF DriverInv
<1> QED
  BY <1>1, <1>2, <1>3, PTL DEF DriverSpec, FoldKeepsMeaning, FoldLeavesNoUse

\* What the code holds at each of its statements; createLLVMModel leaves "m" or a
\* message.
Left == {"m", "err"}
Made == {"my_module 2", "builder 2", "machine", "layout"}

HeldAt ==
  /\ at \in Before \cup {"optimize", "codegen", "emit", "clean up", "return", "null pointer"}
  /\ reported => at = "return"
  /\ at \in {"generate", "create"} => live = {}
  /\ at \in {"verify", "dump"} => live = {"my_module", "builder"}
  /\ at = "parse" => live = {"buffer"}
  /\ at = "optimize" => live = {"m"}
  /\ at = "codegen" => live \subseteq Left
  /\ at \in {"emit", "clean up"} => live \subseteq Left \cup Made /\ Made \subseteq live
  /\ at = "return" => live \subseteq IF reported THEN {"my_module", "builder"} ELSE {"err"}

\* Each statement finds what it uses and disposes of (test.y:305-411 and 229-249).
LEMMA HeldStep == HeldAt /\ [DriverNext]_driverVars => HeldAt'
<1> SUFFICES ASSUME HeldAt, [DriverNext]_driverVars PROVE HeldAt'
  OBVIOUS
<1>1. CASE Generate
  <2>1. at = "generate" /\ live = {} /\ ~reported
    BY <1>1 DEF Generate, Do, HeldAt
  <2>2. at' = "verify" /\ live' = {"my_module", "builder"} /\ reported' = reported
    BY <1>1, <2>1 DEF Generate, Do
  <2> QED
    BY <2>1, <2>2 DEF HeldAt, Before
<1>2. CASE Reported
  <2>1. at = "verify" /\ live = {"my_module", "builder"} /\ ~reported
    BY <1>2 DEF Reported, Do, HeldAt
  <2>2. at' = "return" /\ live' = {"my_module", "builder"} /\ reported'
    BY <1>2, <2>1 DEF Reported, Do
  <2> QED
    BY <2>1, <2>2 DEF HeldAt, Before
<1>3. CASE Verified
  <2>1. at = "verify" /\ live = {"my_module", "builder"} /\ ~reported
    BY <1>3 DEF Verified, Do, HeldAt
  <2>2. at' = "dump" /\ live' = {"my_module", "builder"} /\ reported' = reported
    BY <1>3, <2>1 DEF Verified, Do
  <2> QED
    BY <2>1, <2>2 DEF HeldAt, Before
<1>4. CASE DumpAndCleanUp
  <2>1. at = "dump" /\ live = {"my_module", "builder"} /\ ~reported
    BY <1>4 DEF DumpAndCleanUp, Do, HeldAt
  <2>2. at' \in {"create", "return"} /\ live' = {} /\ reported' = reported
    BY <1>4, <2>1 DEF DumpAndCleanUp, Do
  <2> QED
    BY <2>1, <2>2 DEF HeldAt, Before
<1>5. CASE CreateFails
  <2>1. at = "create" /\ live = {} /\ ~reported
    BY <1>5 DEF CreateFails, Do, HeldAt
  <2>2. at' = "codegen" /\ live' = {"err"} /\ reported' = reported
    BY <1>5, <2>1 DEF CreateFails, Do
  <2> QED
    BY <2>1, <2>2 DEF HeldAt, Before, Left
<1>6. CASE CreateBuffer
  <2>1. at = "create" /\ live = {} /\ ~reported
    BY <1>6 DEF CreateBuffer, Do, HeldAt
  <2>2. at' = "parse" /\ live' = {"buffer"} /\ reported' = reported
    BY <1>6, <2>1 DEF CreateBuffer, Do
  <2> QED
    BY <2>1, <2>2 DEF HeldAt, Before
<1>7. CASE ParseFails
  <2>1. at = "parse" /\ live = {"buffer"} /\ ~reported
    BY <1>7 DEF ParseFails, Do, HeldAt
  <2>2. at' = "codegen" /\ live' = {"err"} /\ reported' = reported
    BY <1>7, <2>1 DEF ParseFails, Do
  <2> QED
    BY <2>1, <2>2 DEF HeldAt, Before, Left
<1>8. CASE ParseNoMain
  <2>1. at = "parse" /\ live = {"buffer"} /\ ~reported
    BY <1>8 DEF ParseNoMain, Do, HeldAt
  <2>2. at' = "codegen" /\ live' = {"m"} /\ reported' = reported
    BY <1>8, <2>1 DEF ParseNoMain, Do
  <2> QED
    BY <2>1, <2>2 DEF HeldAt, Before, Left
<1>9. CASE ParseMain
  <2>1. at = "parse" /\ live = {"buffer"} /\ ~reported
    BY <1>9 DEF ParseMain, Do, HeldAt
  <2>2. at' = "optimize" /\ live' = {"m"} /\ reported' = reported
    BY <1>9, <2>1 DEF ParseMain, Do
  <2> QED
    BY <2>1, <2>2 DEF HeldAt, Before
<1>10. CASE Optimized
  <2>1. at = "optimize" /\ live = {"m"} /\ ~reported
    BY <1>10 DEF Optimized, Do, HeldAt
  <2>2. at' = "codegen" /\ live' = {"m"} /\ reported' = reported
    BY <1>10, <2>1 DEF Optimized, Do
  <2> QED
    BY <2>1, <2>2 DEF HeldAt, Before, Left
<1>11. CASE CodeGen
  <2>1. at = "codegen" /\ live \subseteq Left /\ ~reported
    BY <1>11 DEF CodeGen, Do, HeldAt
  <2>2. at' = "emit" /\ live' = live \cup Made /\ reported' = reported
    BY <1>11, <2>1 DEF CodeGen, Do, Made
  <2> QED
    BY <2>1, <2>2 DEF HeldAt, Before, Left, Made
<1>12. CASE Emit
  <2>1. at = "emit" /\ live \subseteq Left \cup Made /\ Made \subseteq live /\ ~reported
    BY <1>12 DEF Emit, Do, HeldAt
  <2>2. at' = "clean up" /\ live' = live /\ reported' = reported
    BY <1>12, <2>1 DEF Emit, Do, Made
  <2> QED
    BY <2>1, <2>2 DEF HeldAt, Before, Left
<1>13. CASE EmitFails
  <2>1. at = "emit" /\ live \subseteq Left \cup Made /\ Made \subseteq live /\ ~reported
    BY <1>13 DEF EmitFails, Do, HeldAt
  <2>2. at' = "null pointer" /\ reported' = reported
    BY <1>13, <2>1 DEF EmitFails, Do, Made
  <2> QED
    BY <2>1, <2>2 DEF HeldAt, Before, Left
<1>14. CASE Optimize \/ DriverStopped \/ UNCHANGED driverVars
  <2>1. UNCHANGED <<at, live, reported>>
    BY <1>14 DEF Optimize, DriverStopped, driverVars
  <2> QED
    BY <2>1 DEF HeldAt
<1>15. CASE CleanUp
  <2>1. at = "clean up" /\ live \subseteq Left \cup Made /\ Made \subseteq live /\ ~reported
    BY <1>15 DEF CleanUp, Do, HeldAt
  <2>2. at' = "return" /\ live' = live \ (Made \cup (live \cap Modules)) /\ reported' = reported
    BY <1>15, <2>1 DEF CleanUp, Do, Made
  <2>3. live' \subseteq {"err"}
    BY <2>1, <2>2 DEF Modules, Left
  <2> QED
    BY <2>1, <2>2, <2>3 DEF HeldAt, Before
<1> QED
  BY <1>1, <1>2, <1>3, <1>4, <1>5, <1>6, <1>7, <1>8, <1>9, <1>10, <1>11, <1>12, <1>13, <1>14, <1>15 DEF DriverNext

\* Whatever the library answers, and whatever module is read, nothing is used or
\* disposed of twice, and what is left at the return is a message, or the module
\* and builder the failed verification leaves (test.y:305-411 and 229-249).
THEOREM DisposalStaysSound == DriverSpec => []DisposedOnce
<1>1. DriverInit => HeldAt
  BY DEF DriverInit, HeldAt, Before
<1>2. HeldAt => DisposedOnce
  BY DEF HeldAt, Before, DisposedOnce
<1> QED
  BY <1>1, <1>2, HeldStep, PTL DEF DriverSpec
=============================================================================
