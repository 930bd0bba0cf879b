-------------------------------- MODULE RegAlloc --------------------------------
(***************************************************************************)
(* compute_liveness and allocate_register of test.y.  A function is a      *)
(* sequence of basic blocks, a block a sequence of instructions, and an    *)
(* instruction the sequence of its operands.  The register stack and the   *)
(* functions LLVMGetRegister and LLVMSetRegister are used there and        *)
(* defined nowhere; they are a stack and a map.  The set dead is written   *)
(* and never read, and left out.                                           *)
(***************************************************************************)
EXTENDS Naturals, Sequences

CONSTANTS
  Values,       \* what may be an operand: values, constants, basic blocks
  Functions,    \* what func may be
  Stack,        \* available_registers when the walk begins, the top first
  None,         \* LLVMGetRegister returns null
  Spilled       \* LLVMRegisterSpilled

Registers == {Stack[k] : k \in DOMAIN Stack}

ASSUME RegAllocAssumption ==
  /\ Functions \subseteq Seq(Seq(Seq(Values)))
  /\ Stack \in Seq(Registers)
  /\ \A j, k \in DOMAIN Stack : Stack[j] = Stack[k] => j = k
  /\ None # Spilled /\ None \notin Registers /\ Spilled \notin Registers

VARIABLES
  func,
  bb, inst,     \* the loop variables; 0 is the null pointer
  live,         \* the set of that name
  todo,         \* values the loop over live has not come to
  reg,          \* the register of each value
  available,    \* available_registers
  pc            \* "block", "inst", "allocate", "done"

vars == <<func, bb, inst, live, todo, reg, available, pc>>

Init ==
  /\ func \in Functions
  /\ bb = 1 /\ inst = 0
  /\ live = {} /\ todo = {}
  /\ reg = [v \in Values |-> None]
  /\ available = Stack
  /\ pc = "block"

\* The operands the last loop inserts, from the third on.
UsedFrom2(operands) == {operands[n] : n \in {m \in DOMAIN operands : m > 2}}
-----------------------------------------------------------------------------

\* A block is walked from its last instruction.
EnterBlock ==
  /\ pc = "block" /\ bb <= Len(func)
  /\ inst' = Len(func[bb])
  /\ live' = {}
  /\ pc' = "inst"
  /\ UNCHANGED <<func, bb, todo, reg, available>>

Finish ==
  /\ pc = "block" /\ bb > Len(func)
  /\ pc' = "done"
  /\ UNCHANGED <<func, bb, inst, live, todo, reg, available>>

\* Mutant: the last operand is left out.
VisitButLast ==
  /\ pc = "inst" /\ inst # 0
  /\ LET operands == func[bb][inst]
     IN  live' = {operands[n] : n \in {m \in DOMAIN operands : m > 2 /\ m < Len(operands)}}
  /\ todo' = live'
  /\ pc' = "allocate"
  /\ UNCHANGED <<func, bb, inst, reg, available>>

\* The second operand is erased from live, and the third and later ones are
\* inserted.  Where there is no second one, what is read in its place is
\* erased from a set that is empty.
Visit ==
  /\ pc = "inst" /\ inst # 0
  /\ LET operands == func[bb][inst]
     IN  live' = (live \ {operands[n] : n \in DOMAIN operands \cap {2}}) \cup UsedFrom2(operands)
  /\ todo' = live'
  /\ pc' = "allocate"
  /\ UNCHANGED <<func, bb, inst, reg, available>>

\* Mutant: the register handed out stays on the stack.
AllocateRegisterNoPop(v) ==
  IF available = <<>>
  THEN reg' = [reg EXCEPT ![v] = Spilled] /\ UNCHANGED available
  ELSE reg' = [reg EXCEPT ![v] = Head(available)] /\ UNCHANGED available

\* LLVMSetRegister(v, allocate_register())
AllocateRegister(v) ==
  IF available = <<>>
  THEN reg' = [reg EXCEPT ![v] = Spilled] /\ UNCHANGED available
  ELSE reg' = [reg EXCEPT ![v] = Head(available)] /\ available' = Tail(available)

\* One turn of the loop over the unordered set live.
Allocate ==
  /\ pc = "allocate"
  /\ \E v \in todo :
       /\ todo' = todo \ {v}
       /\ IF reg[v] = None THEN AllocateRegister(v) ELSE UNCHANGED <<reg, available>>
  /\ UNCHANGED <<func, bb, inst, live, pc>>

\* live and dead are cleared, and the previous instruction follows.
Previous ==
  /\ pc = "allocate" /\ todo = {}
  /\ live' = {}
  /\ inst' = inst - 1
  /\ pc' = "inst"
  /\ UNCHANGED <<func, bb, todo, reg, available>>

LeaveBlock ==
  /\ pc = "inst" /\ inst = 0
  /\ bb' = bb + 1
  /\ pc' = "block"
  /\ UNCHANGED <<func, inst, live, todo, reg, available>>

Step == EnterBlock \/ Finish \/ Visit \/ Allocate \/ Previous \/ LeaveBlock
Stopped == pc = "done" /\ UNCHANGED vars
Next == Step \/ Stopped
Spec == Init /\ [][Next]_vars /\ WF_vars(Step)

-----------------------------------------------------------------------------

\* The type invariant.
TypeOK ==
  /\ func \in Functions
  /\ bb \in Nat \ {0} /\ inst \in Nat
  /\ live \subseteq Values /\ todo \subseteq live
  /\ reg \in [Values -> Registers \cup {None, Spilled}]
  /\ available \in Seq(Registers)
  /\ pc \in {"block", "inst", "allocate", "done"}
  /\ pc \in {"inst", "allocate"} => bb \in DOMAIN func /\ inst <= Len(func[bb])
  /\ IF pc = "allocate" THEN inst # 0 ELSE todo = {}

\* Every register is available once or the register of one value; none is
\* handed out twice, and none is lost (test.y:199-205 and 215-226).
RegistersPartition ==
  /\ \A j, k \in DOMAIN available : available[j] = available[k] => j = k
  /\ \A v \in Values, k \in DOMAIN available : reg[v] # available[k]
  /\ \A v, w \in Values : reg[v] = reg[w] /\ reg[v] \in Registers => v = w
  /\ \A r \in Registers :
       (\E k \in DOMAIN available : available[k] = r) \/ (\E v \in Values : reg[v] = r)

\* A value is spilled only when all registers belong to others, which they do
\* for ever (test.y:217-219): as many values have a register as can have one.
SpilledOnlyWhenExhausted ==
  \A v \in Values : reg[v] = Spilled => available = <<>>

\* What was decided for a value stays, in whatever blocks it is met again
\* (test.y:201-203).
RegistersKept == [][\A v \in Values : reg[v] # None => reg'[v] = reg[v]]_reg

\* What the invariants above say together: where each register is, and when
\* there is none.
RegistersAccounted == RegistersPartition /\ SpilledOnlyWhenExhausted

\* The walk comes to its end, and then exactly the values that are the third or
\* a later operand of some instruction have a register or are spilled, whatever
\* order unordered_set gave them in.  What is live at an instruction and what
\* the other operands are makes no difference (test.y:173-209).
LaterOperandsServed ==
  <>(pc = "done" /\ \A v \in Values :
       reg[v] # None <=>
         \E b \in DOMAIN func : \E i \in DOMAIN func[b] : v \in UsedFrom2(func[b][i]))
=============================================================================
