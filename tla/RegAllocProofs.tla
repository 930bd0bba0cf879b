----------------------------- MODULE RegAllocProofs -----------------------------
(***************************************************************************)
(* Proofs about RegAlloc, for every function, any number of values and any *)
(* stack of registers: no register is handed out twice or lost, a value is *)
(* spilled only when none is left, and the later operands are served.      *)
(***************************************************************************)
EXTENDS RegAlloc, TLAPS

\* The inductive invariant.
IInv == TypeOK /\ RegistersPartition /\ SpilledOnlyWhenExhausted

\* Before the walk every register is available (test.y:171).
LEMMA InitHolds == Init => IInv
BY RegAllocAssumption DEF Init, IInv, TypeOK, RegistersPartition, SpilledOnlyWhenExhausted, Registers

\* What allocate_register does for a value without a register (test.y:215-226).
LEMMA AllocateRegisterHolds ==
  ASSUME IInv, NEW v \in Values, reg[v] = None, AllocateRegister(v)
  PROVE  /\ reg' \in [Values -> Registers \cup {None, Spilled}]
         /\ available' \in Seq(Registers)
         /\ RegistersPartition' /\ SpilledOnlyWhenExhausted'
<1>1. available \in Seq(Registers) /\ reg \in [Values -> Registers \cup {None, Spilled}]
  BY DEF IInv, TypeOK
<1>2. CASE available = <<>>
  BY <1>1, <1>2, RegAllocAssumption
  DEF AllocateRegister, IInv, RegistersPartition, SpilledOnlyWhenExhausted
<1>3. CASE available # <<>>
  <2>1. /\ reg' = [reg EXCEPT ![v] = available[1]]
        /\ available[1] \in Registers
        /\ available' \in Seq(Registers)
        /\ \A k \in DOMAIN available' : k + 1 \in DOMAIN available /\ available'[k] = available[k + 1]
        /\ \A k \in DOMAIN available : k = 1 \/ (k - 1 \in DOMAIN available' /\ available'[k - 1] = available[k])
    BY <1>1, <1>3 DEF AllocateRegister
  <2>2. \A j, k \in DOMAIN available' : available'[j] = available'[k] => j = k
    BY <2>1, <1>1 DEF IInv, RegistersPartition
  <2>3. \A w \in Values, k \in DOMAIN available' : reg'[w] # available'[k]
    BY <2>1, <1>1 DEF IInv, RegistersPartition
  <2>4. \A w, x \in Values : reg'[w] = reg'[x] /\ reg'[w] \in Registers => w = x
    <3>1. 1 \in DOMAIN available /\ \A w \in Values : reg[w] # available[1]
      BY <1>1, <1>3 DEF IInv, RegistersPartition
    <3>2. \A w \in Values : reg'[w] = IF w = v THEN available[1] ELSE reg[w]
      BY <2>1, <1>1
    <3> QED
      BY <3>1, <3>2 DEF IInv, RegistersPartition
  <2>5. \A r \in Registers :
          (\E k \in DOMAIN available' : available'[k] = r) \/ (\E w \in Values : reg'[w] = r)
    <3> SUFFICES ASSUME NEW r \in Registers, \A k \in DOMAIN available' : available'[k] # r
                 PROVE  \E w \in Values : reg'[w] = r
      OBVIOUS
    <3>1. CASE r = available[1]
      BY <3>1, <2>1, <1>1
    <3>2. CASE r # available[1]
      <4>1. \A k \in DOMAIN available : available[k] # r
        BY <3>2, <2>1
      <4>2. PICK w \in Values : reg[w] = r
        BY <4>1 DEF IInv, RegistersPartition
      <4>3. w # v
        BY <4>2, RegAllocAssumption
      <4> QED
        BY <4>2, <4>3, <2>1, <1>1
    <3> QED
      BY <3>1, <3>2
  <2>6. SpilledOnlyWhenExhausted'
    BY <2>1, <1>1, <1>3, RegAllocAssumption DEF IInv, SpilledOnlyWhenExhausted
  <2> QED
    BY <2>1, <2>2, <2>3, <2>4, <2>5, <2>6, <1>1 DEF RegistersPartition
<1> QED
  BY <1>2, <1>3

\* Every step keeps the invariant.
LEMMA StepHolds == IInv /\ [Next]_vars => IInv'
<1> SUFFICES ASSUME IInv, [Next]_vars PROVE IInv'
  OBVIOUS
<1>1. ASSUME UNCHANGED <<reg, available>> PROVE RegistersPartition' /\ SpilledOnlyWhenExhausted'
  BY <1>1 DEF IInv, RegistersPartition, SpilledOnlyWhenExhausted
<1>2. /\ func \in Seq(Seq(Seq(Values)))
      /\ \A b \in DOMAIN func : Len(func[b]) \in Nat /\ \A i \in 1..Len(func[b]) : func[b][i] \in Seq(Values)
  BY RegAllocAssumption DEF IInv, TypeOK
<1>3. CASE EnterBlock
  <2>1. bb \in DOMAIN func /\ Len(func[bb]) \in Nat
    BY <1>2, <1>3 DEF EnterBlock, IInv, TypeOK
  <2>2. TypeOK'
    BY <1>3, <2>1 DEF EnterBlock, IInv, TypeOK
  <2> QED
    BY <1>1, <1>3, <2>2 DEF EnterBlock, IInv
<1>4. CASE Finish
  BY <1>1, <1>4 DEF Finish, IInv, TypeOK
<1>5. CASE Visit
  <2>1. func[bb][inst] \in Seq(Values)
    BY <1>2, <1>5 DEF Visit, IInv, TypeOK
  <2>2. live' \subseteq Values
    BY <1>5, <2>1 DEF Visit, UsedFrom2, IInv, TypeOK
  <2> QED
    BY <1>1, <1>5, <2>2 DEF Visit, IInv, TypeOK
<1>6. CASE Allocate
  <2>1. PICK v \in todo :
          /\ todo' = todo \ {v}
          /\ IF reg[v] = None THEN AllocateRegister(v) ELSE UNCHANGED <<reg, available>>
    BY <1>6 DEF Allocate
  <2>2. v \in Values /\ pc = "allocate" /\ UNCHANGED <<func, bb, inst, live, pc>>
    BY <1>6, <2>1 DEF Allocate, IInv, TypeOK
  <2>3. CASE reg[v] = None
    BY <2>1, <2>2, <2>3, AllocateRegisterHolds DEF IInv, TypeOK
  <2>4. CASE reg[v] # None
    BY <1>1, <2>1, <2>2, <2>4 DEF IInv, TypeOK
  <2> QED
    BY <2>3, <2>4
<1>7. CASE Previous
  BY <1>1, <1>2, <1>7 DEF Previous, IInv, TypeOK
<1>8. CASE LeaveBlock
  BY <1>1, <1>8 DEF LeaveBlock, IInv, TypeOK
<1>9. CASE UNCHANGED vars
  BY <1>1, <1>9 DEF vars, IInv, TypeOK
<1> QED
  BY <1>3, <1>4, <1>5, <1>6, <1>7, <1>8, <1>9 DEF Next, Step, Stopped

-----------------------------------------------------------------------------

\* The inductive invariant holds throughout.
THEOREM AllocationIntact == Spec => []IInv
<1> QED
  BY InitHolds, StepHolds, PTL DEF Spec

\* Type correctness of the allocator.
THEOREM TypeCorrect == Spec => []TypeOK
<1>1. IInv => TypeOK
  BY DEF IInv
<1> QED
  BY <1>1, AllocationIntact, PTL

\* No register is handed out twice or lost, and a value is spilled only when
\* none is left, then or later (test.y:199-205 and 215-226).
THEOREM RegistersStayAccounted == Spec => []RegistersAccounted
<1>1. IInv => RegistersAccounted
  BY DEF IInv, RegistersAccounted
<1> QED
  BY <1>1, AllocationIntact, PTL

\* A value keeps what was decided for it (test.y:201-203).
THEOREM RegistersStay == Spec => RegistersKept
<1>1. ASSUME IInv, Next PROVE \A v \in Values : reg[v] # None => reg'[v] = reg[v]
  <2>1. CASE Allocate
    <3>1. PICK w \in todo : IF reg[w] = None THEN AllocateRegister(w) ELSE UNCHANGED reg
      BY <2>1 DEF Allocate
    <3> QED
      BY <3>1, <1>1 DEF AllocateRegister, IInv, TypeOK
  <2>2. CASE ~Allocate
    BY <1>1, <2>2 DEF Next, Step, Stopped, EnterBlock, Finish, Visit, Previous, LeaveBlock, vars
  <2> QED
    BY <2>1, <2>2
<1>2. IInv /\ [Next]_vars => [\A v \in Values : reg[v] # None => reg'[v] = reg[v]]_reg
  BY <1>1 DEF vars
<1> QED
  BY <1>2, AllocationIntact, PTL DEF Spec, RegistersKept

-----------------------------------------------------------------------------

\* The walk has left instruction i of block b behind, or is allocating what it
\* uses (test.y:174-209).
Behind(b, i) ==
  \/ b < bb
  \/ b = bb /\ pc = "inst" /\ i > inst
  \/ b = bb /\ pc = "allocate" /\ i >= inst

\* The value is a third or later operand of such an instruction.
UsedBehind(v) ==
  \E b \in DOMAIN func : \E i \in DOMAIN func[b] : Behind(b, i) /\ v \in UsedFrom2(func[b][i])

\* live is what the instruction at hand uses and is cleared behind it: a value
\* has a register, or gets one in the loop at hand, exactly if it was used.
Serving ==
  /\ live = IF pc = "allocate" THEN UsedFrom2(func[bb][inst]) ELSE {}
  /\ pc = "done" => bb > Len(func)
  /\ \A v \in Values : reg[v] # None \/ v \in todo <=> UsedBehind(v)

\* Every step keeps it: no instruction is passed over, and no value but those
\* of live is given a register.
LEMMA StepServes == IInv /\ Serving /\ [Next]_vars => Serving'
<1> SUFFICES ASSUME IInv, Serving, [Next]_vars PROVE Serving'
  OBVIOUS
<1>1. /\ func \in Seq(Seq(Seq(Values)))
      /\ bb \in Nat \ {0} /\ inst \in Nat /\ Len(func) \in Nat
      /\ DOMAIN func = 1..Len(func)
      /\ \A b \in DOMAIN func : Len(func[b]) \in Nat /\ DOMAIN func[b] = 1..Len(func[b])
  BY RegAllocAssumption DEF IInv, TypeOK
\* A step that passes no instruction and decides nothing.
<1>2. ASSUME UNCHANGED <<func, reg, todo>>,
             \A b \in DOMAIN func : \A i \in DOMAIN func[b] : Behind(b, i)' <=> Behind(b, i)
      PROVE  \A v \in Values : (reg[v] # None \/ v \in todo <=> UsedBehind(v))'
  BY <1>2 DEF Serving, UsedBehind
<1>3. CASE EnterBlock
  <2>1. \A b \in DOMAIN func : \A i \in DOMAIN func[b] : Behind(b, i)' <=> Behind(b, i)
    BY <1>1, <1>3 DEF EnterBlock, Behind
  <2>2. UNCHANGED <<func, reg, todo>> /\ live' = {} /\ pc' = "inst"
    BY <1>3 DEF EnterBlock
  <2> QED
    BY <1>2, <2>1, <2>2 DEF Serving
<1>4. CASE Finish
  <2>1. \A b \in DOMAIN func : \A i \in DOMAIN func[b] : Behind(b, i)' <=> Behind(b, i)
    BY <1>1, <1>4 DEF Finish, Behind
  <2>2. UNCHANGED <<func, bb, reg, todo>> /\ live' = {} /\ pc' = "done" /\ bb > Len(func)
    BY <1>4 DEF Finish, Serving
  <2> QED
    BY <1>2, <2>1, <2>2 DEF Serving
<1>5. CASE Visit
  <2>1. /\ bb \in DOMAIN func /\ inst \in DOMAIN func[bb] /\ pc = "inst"
        /\ live = {} /\ todo = {}
    BY <1>1, <1>5 DEF Visit, Serving, IInv, TypeOK
  <2>2. /\ live' = UsedFrom2(func[bb][inst]) /\ todo' = live' /\ pc' = "allocate"
        /\ UNCHANGED <<func, bb, inst, reg>>
    BY <1>5, <2>1 DEF Visit
  <2>3. \A b \in DOMAIN func : \A i \in DOMAIN func[b] :
          Behind(b, i)' <=> Behind(b, i) \/ (b = bb /\ i = inst)
    BY <1>1, <2>1, <2>2 DEF Behind
  <2>4. \A v \in Values : UsedBehind(v)' <=> UsedBehind(v) \/ v \in todo'
    BY <2>1, <2>2, <2>3 DEF UsedBehind
  <2>5. \A v \in Values : (reg[v] # None \/ v \in todo <=> UsedBehind(v))'
    BY <2>1, <2>2, <2>4 DEF Serving
  <2> QED
    BY <2>2, <2>5 DEF Serving
<1>6. CASE Allocate
  <2>1. PICK v \in todo :
          /\ todo' = todo \ {v}
          /\ IF reg[v] = None THEN AllocateRegister(v) ELSE UNCHANGED <<reg, available>>
    BY <1>6 DEF Allocate
  <2>2. v \in Values /\ pc = "allocate" /\ UNCHANGED <<func, bb, inst, live, pc>>
    BY <1>6, <2>1 DEF Allocate, IInv, TypeOK
  <2>3. reg'[v] # None /\ \A w \in Values : w # v => reg'[w] = reg[w]
    <3>1. reg \in [Values -> Registers \cup {None, Spilled}] /\ available \in Seq(Registers)
      BY DEF IInv, TypeOK
    <3>2. available # <<>> => Head(available) \in Registers
      BY <3>1
    <3> QED
      BY <2>1, <2>2, <3>1, <3>2, RegAllocAssumption DEF AllocateRegister
  <2>4. \A w \in Values : UsedBehind(w)' <=> UsedBehind(w)
    BY <2>2 DEF UsedBehind, Behind
  <2>5. \A w \in Values : (reg[w] # None \/ w \in todo <=> UsedBehind(w))'
    BY <2>1, <2>2, <2>3, <2>4 DEF Serving
  <2> QED
    BY <2>2, <2>5 DEF Serving
<1>7. CASE Previous
  <2>1. \A b \in DOMAIN func : \A i \in DOMAIN func[b] : Behind(b, i)' <=> Behind(b, i)
    BY <1>1, <1>7 DEF Previous, Behind, IInv, TypeOK
  <2>2. UNCHANGED <<func, reg, todo>> /\ live' = {} /\ pc' = "inst"
    BY <1>7 DEF Previous
  <2> QED
    BY <1>2, <2>1, <2>2 DEF Serving
<1>8. CASE LeaveBlock
  <2>1. \A b \in DOMAIN func : \A i \in DOMAIN func[b] : Behind(b, i)' <=> Behind(b, i)
    BY <1>1, <1>8 DEF LeaveBlock, Behind
  <2>2. UNCHANGED <<func, reg, todo>> /\ live' = {} /\ pc' = "block"
    BY <1>8 DEF LeaveBlock, Serving
  <2> QED
    BY <1>2, <2>1, <2>2 DEF Serving
<1>9. CASE UNCHANGED vars
  BY <1>9 DEF vars, Serving, UsedBehind, Behind
<1> QED
  BY <1>3, <1>4, <1>5, <1>6, <1>7, <1>8, <1>9 DEF Next, Step, Stopped

\* Before the walk nothing is behind it and no value has a register (test.y:171).
LEMMA InitServes == Init => Serving
<1> SUFFICES ASSUME Init PROVE Serving
  OBVIOUS
<1>1. func \in Seq(Seq(Seq(Values)))
  BY RegAllocAssumption DEF Init
<1>2. \A b \in DOMAIN func : \A i \in DOMAIN func[b] : ~Behind(b, i)
  BY <1>1 DEF Init, Behind
<1> QED
  BY <1>2 DEF Init, Serving, UsedBehind

\* What LaterOperandsServed says of the end of the walk, of every end there is:
\* the values that have a register or are spilled are the third and later
\* operands, no other and no less (test.y:173-209).
THEOREM ServesLaterOperands ==
  Spec => [](pc = "done" =>
               \A v \in Values :
                 reg[v] # None <=>
                   \E b \in DOMAIN func : \E i \in DOMAIN func[b] : v \in UsedFrom2(func[b][i]))
<1> DEFINE Served == pc = "done" =>
             \A v \in Values :
               reg[v] # None <=>
                 \E b \in DOMAIN func : \E i \in DOMAIN func[b] : v \in UsedFrom2(func[b][i])
<1>1. Spec => []Serving
  BY AllocationIntact, InitServes, StepServes, PTL DEF Spec
<1>2. IInv /\ Serving => Served
  <2> SUFFICES ASSUME IInv, Serving, pc = "done", NEW v \in Values
               PROVE  reg[v] # None <=>
                        \E b \in DOMAIN func : \E i \in DOMAIN func[b] : v \in UsedFrom2(func[b][i])
    OBVIOUS
  <2>1. todo = {} /\ bb > Len(func) /\ bb \in Nat /\ func \in Seq(Seq(Seq(Values)))
    BY RegAllocAssumption DEF IInv, TypeOK, Serving
  <2>2. \A b \in DOMAIN func : b < bb
    BY <2>1
  <2>3. UsedBehind(v) <=> \E b \in DOMAIN func : \E i \in DOMAIN func[b] : v \in UsedFrom2(func[b][i])
    BY <2>2 DEF UsedBehind, Behind
  <2> QED
    BY <2>1, <2>3 DEF Serving
<1> QED
  BY AllocationIntact, <1>1, <1>2, PTL
=============================================================================
