--------------------------- MODULE OptimizerProofs ---------------------------
(***************************************************************************)
(* Proofs about Optimizer for every width, program and bound: the blocks   *)
(* may have any length, any literals, slots and inputs.  Each pass is a    *)
(* recursive function over the block; that it exists, and what it keeps of *)
(* the run of the block, is shown by induction over its steps (UpTo).      *)
(***************************************************************************)
EXTENDS Optimizer, SequenceTheorems, FiniteSetTheorems, WellFoundedInduction, TLAPS

\* Every set of numbers that is not empty has a least one.
LEMMA LeastOfSet ==
  ASSUME NEW T \in SUBSET Nat, T # {}
  PROVE  \E n \in T : \A m \in T : n <= m
<1>1. PICK n \in T : \A m \in T : <<m, n>> \notin OpToRel(<, Nat)
  BY NatLessThanWellFounded, WFMin
<1>2. \A m \in T : ~(m < n)
  BY <1>1 DEF OpToRel
<1> QED BY <1>2

\* Induction up to n: what 0 has, and i + 1 with every i below n.
LEMMA UpTo ==
  ASSUME NEW n \in Nat, NEW T, 0 \in T, \A i \in 0 .. n - 1 : i \in T => i + 1 \in T
  PROVE  \A i \in 0 .. n : i \in T
<1> DEFINE Out == {i \in 0 .. n : i \notin T}
<1> SUFFICES ASSUME Out # {} PROVE FALSE
  OBVIOUS
<1>1. PICK i \in Out : \A j \in Out : i <= j
  <2>1. Out \in SUBSET Nat
    OBVIOUS
  <2> HIDE DEF Out
  <2> QED BY <2>1, LeastOfSet
<1>2. i # 0 /\ i - 1 \in 0 .. n - 1 /\ i - 1 \notin Out
  BY <1>1
<1> QED BY <1>2

-----------------------------------------------------------------------------
(* Blocks *)

Terminators == Branches \cup {"ret"}
NoDest == Terminators \cup {"store"}
Unary == Calls \cup {"store", "ret", "br_cond"}
Leaves == {"const", "param", "load", "br"}
Operations == Binary \cup Unary \cup Leaves

\* An instruction has its operands, and a register unless it defines none.
Insts ==
  {inst \in [op : Operations, dest : Nat, args : Seq(Nat \ {0}), imm : Int \cup Slots] :
     /\ inst.op \in Binary => Len(inst.args) = 2
     /\ inst.op \in Unary => Len(inst.args) = 1
     /\ inst.op \in Leaves => Len(inst.args) = 0
     /\ inst.dest = 0 <=> inst.op \in NoDest
     /\ inst.op = "const" => inst.imm \in Int
     /\ inst.op \in {"load", "store"} => inst.imm \in Slots}

\* The registers that the first i instructions of a block define.
Defs(b, i) == {b[j].dest : j \in 1 .. i} \ {0}

\* Registers are defined once, and before they are read.
Formed(b) ==
  /\ b \in Seq(Insts)
  /\ \A i \in 1 .. Len(b) : b[i].dest \notin Defs(b, i - 1)
  /\ \A i \in 1 .. Len(b) : \A a \in 1 .. Len(b[i].args) : b[i].args[a] \in Defs(b, i - 1)

\* Appending an instruction that defines a new register or none.
LEMMA FormedAppend ==
  ASSUME NEW b, Formed(b), NEW x \in Insts, x.dest \notin Defs(b, Len(b)),
         \A a \in 1 .. Len(x.args) : x.args[a] \in Defs(b, Len(b))
  PROVE  /\ Formed(Append(b, x)) /\ Len(Append(b, x)) = Len(b) + 1
         /\ Append(b, x)[Len(b) + 1] = x /\ \A i \in 1 .. Len(b) : Append(b, x)[i] = b[i]
         /\ \A i \in 0 .. Len(b) : Defs(Append(b, x), i) = Defs(b, i)
         /\ Defs(Append(b, x), Len(b) + 1) = Defs(b, Len(b)) \cup ({x.dest} \ {0})
<1> DEFINE c == Append(b, x)
<1>1. b \in Seq(Insts) /\ Len(b) \in Nat
  BY DEF Formed
<1>2. /\ c \in Seq(Insts) /\ Len(c) = Len(b) + 1 /\ c[Len(b) + 1] = x
      /\ \A i \in 1 .. Len(b) : c[i] = b[i]
  BY <1>1
<1> HIDE DEF c
<1>3. ASSUME NEW i \in 0 .. Len(b) PROVE Defs(c, i) = Defs(b, i)
  <2>1. \A j \in 1 .. i : c[j].dest = b[j].dest
    BY <1>1, <1>2
  <2> QED BY <2>1 DEF Defs
<1>4. Defs(c, Len(b) + 1) = Defs(b, Len(b)) \cup ({x.dest} \ {0})
  BY <1>1, <1>2 DEF Defs
<1>5. Formed(c)
  <2>1. ASSUME NEW i \in 1 .. Len(c)
        PROVE  /\ c[i].dest \notin Defs(c, i - 1)
               /\ \A a \in 1 .. Len(c[i].args) : c[i].args[a] \in Defs(c, i - 1)
    <3>1. Defs(c, i - 1) = Defs(b, i - 1) /\ (i \in 1 .. Len(b) \/ i = Len(b) + 1)
      BY <1>1, <1>2, <1>3
    <3>2. CASE i \in 1 .. Len(b)
      BY <1>2, <3>1, <3>2 DEF Formed
    <3>3. CASE i = Len(b) + 1
      BY <1>1, <1>2, <3>1, <3>3
    <3> QED BY <3>1, <3>2, <3>3
  <2> QED BY <1>2, <2>1 DEF Formed
<1> QED BY <1>2, <1>3, <1>4, <1>5 DEF c

LEMMA EmptyFormed == Formed(<<>>)
BY DEF Formed

-----------------------------------------------------------------------------
(* Runs *)

Going == <<"runs", 0>>
IsRun(r) ==
  /\ r = [regs |-> r.regs, mem |-> r.mem, trace |-> r.trace, end |-> r.end, input |-> r.input]
  /\ r.mem = [p \in DOMAIN r.mem |-> r.mem[p]]
  /\ r.regs = [d \in DOMAIN r.regs |-> r.regs[d]]
  /\ \E V : r.trace \in Seq(V)

Operand(r, inst, k) == r.regs[inst.args[k]]
Trapped(r, inst) == inst.op \in Binary /\ Traps(inst.op, Operand(r, inst, 1), Operand(r, inst, 2))
Value(r, inst) ==
  CASE inst.op = "const" -> inst.imm
    [] inst.op \in Calls \cup {"param"} -> r.input
    [] inst.op = "load" -> r.mem[inst.imm]
    [] OTHER -> Exec(inst.op, Operand(r, inst, 1), Operand(r, inst, 2))
Ending(r, inst) ==
  CASE inst.op = "ret" -> <<"ret", Operand(r, inst, 1)>>
    [] inst.op = "br" -> <<"br", 0>>
    [] inst.op = "br_cond" -> <<"br_cond", Bool(Operand(r, inst, 1) # 0)>>
    [] OTHER -> IF Trapped(r, inst) THEN <<"trap", inst.dest>> ELSE Going

\* What an instruction with defined operands does, field by field.
After(r, inst) ==
  [regs |-> IF inst.op \in NoDest \/ Trapped(r, inst) THEN r.regs
            ELSE With(r.regs, inst.dest, Value(r, inst)),
   mem |-> IF inst.op = "store" THEN [r.mem EXCEPT ![inst.imm] = Operand(r, inst, 1)] ELSE r.mem,
   trace |-> IF inst.op \in Calls THEN Append(r.trace, Operand(r, inst, 1)) ELSE r.trace,
   end |-> Ending(r, inst),
   input |-> r.input]

LEMMA ExecIsAfter ==
  ASSUME NEW r, IsRun(r), r.end = Going, NEW inst \in Insts, ~Unread(r, inst)
  PROVE  ExecInst(r, inst) = After(r, inst)
<1> DEFINE Arg(i) == r.regs[inst.args[i]]
           Def(value) == [r EXCEPT !.regs = With(@, inst.dest, value)]
<1>1. inst.op \in Operations
  BY DEF Insts
<1>2. CASE inst.op \in Binary
  <2>1. inst.op \notin NoDest \cup Calls \cup {"const", "param", "load", "ret", "br", "br_cond"}
    BY <1>2 DEF Binary, Arithmetic, Compare, Bitops, Shifts, UShift, Checked, UCompare, NoDest,
                Terminators, Branches, Calls
  <2>2. ExecInst(r, inst) = IF Trapped(r, inst) THEN [r EXCEPT !.end = <<"trap", inst.dest>>]
                            ELSE Def(Exec(inst.op, Arg(1), Arg(2)))
    BY <1>2, <2>1, Zenon DEF ExecInst, Going, Trapped, Operand, NoDest
  <2> QED BY <2>1, <2>2 DEF After, IsRun, Value, Ending, Operand, NoDest
<1>3. CASE inst.op \in Calls
  <2>1. inst.op \notin Binary \cup NoDest \cup {"const", "param", "load", "ret", "br", "br_cond"}
    BY <1>3 DEF Binary, Arithmetic, Compare, Bitops, Shifts, UShift, Checked, UCompare, NoDest,
                Terminators, Branches, Calls
  <2>2. ExecInst(r, inst) = [Def(r.input) EXCEPT !.trace = Append(@, Arg(1))]
    BY <1>3, <2>1, Zenon DEF ExecInst, Going, NoDest
  <2> QED BY <1>3, <2>1, <2>2 DEF After, IsRun, Value, Ending, Operand, Trapped, NoDest
<1>4. CASE inst.op \in {"const", "param", "load", "store", "ret", "br", "br_cond"}
  <2>1. inst.op \notin Binary \cup Calls
    BY <1>4 DEF Binary, Arithmetic, Compare, Bitops, Shifts, UShift, Checked, UCompare, Calls
  <2>2. ~Trapped(r, inst)
    BY <2>1 DEF Trapped
  <2> QED BY <1>4, <2>1, <2>2 DEF ExecInst, Going, After, IsRun, Value, Ending, Operand,
                                  NoDest, Terminators, Branches
<1> QED BY <1>1, <1>2, <1>3, <1>4 DEF Operations, Unary, Leaves

LEMMA ExecEnded ==
  ASSUME NEW r, r.end # Going, NEW inst
  PROVE  ExecInst(r, inst) = r
BY DEF ExecInst, Going

Start(input, mem) ==
  [regs |-> <<>>, mem |-> mem, trace |-> <<>>, end |-> Going, input |-> input]

\* The recursive function exists, and its equations hold.
LEMMA RunsSteps ==
  ASSUME NEW b, Len(b) \in Nat, NEW input, NEW mem
  PROVE  /\ Runs(b, input, mem)[0] = Start(input, mem)
         /\ \A i \in 1 .. Len(b) :
              Runs(b, input, mem)[i] = ExecInst(Runs(b, input, mem)[i - 1], b[i])
<1> DEFINE Ok(f, n) == f = [i \in 0 .. n |-> IF i = 0 THEN Start(input, mem)
                                             ELSE ExecInst(f[i - 1], b[i])]
           T == {n \in 0 .. Len(b) : \E f : Ok(f, n)}
<1>1. 0 \in T
  <2>1. Ok([i \in 0 .. 0 |-> Start(input, mem)], 0)
    OBVIOUS
  <2> HIDE DEF Ok
  <2> QED BY <2>1
<1>2. ASSUME NEW n \in 0 .. Len(b) - 1, n \in T PROVE n + 1 \in T
  <2>1. PICK f : Ok(f, n)
    BY <1>2
  <2> DEFINE g == [i \in 0 .. n + 1 |-> IF i = n + 1 THEN ExecInst(f[n], b[n + 1]) ELSE f[i]]
  <2>2. Ok(g, n + 1)
    BY <2>1
  <2> HIDE DEF Ok, g
  <2> QED BY <2>2
<1> HIDE DEF Ok
<1>3. Len(b) \in T
  <2> HIDE DEF T
  <2>1. \A i \in 0 .. Len(b) : i \in T
    BY <1>1, <1>2, UpTo
  <2> QED BY <2>1
<1>4. PICK f : Ok(f, Len(b))
  BY <1>3
<1>5. Ok(Runs(b, input, mem), Len(b))
  BY <1>4 DEF Runs, Ok, Start, Going
<1> QED BY <1>5 DEF Ok

LEMMA RunsFirst ==
  ASSUME NEW b, Len(b) \in Nat, NEW input, NEW mem
  PROVE  Runs(b, input, mem)[0] = Start(input, mem)
BY RunsSteps

LEMMA RunOfEmpty ==
  ASSUME NEW input, NEW mem
  PROVE  Run(<<>>, input, mem) = Start(input, mem)
<1>1. Runs(<<>>, input, mem)[0] = Start(input, mem)
  <2>1. Len(<<>>) \in Nat
    OBVIOUS
  <2> QED BY <2>1, RunsFirst, Zenon
<1>2. Len(<<>>) = 0
  OBVIOUS
<1> QED BY <1>1, <1>2 DEF Run

\* An instruction more makes the run one step longer.
LEMMA RunOfAppend ==
  ASSUME NEW S, NEW b \in Seq(S), NEW x \in S, NEW input, NEW mem
  PROVE  Run(Append(b, x), input, mem) = ExecInst(Run(b, input, mem), x)
<1> DEFINE c == Append(b, x)
           T == {i \in 0 .. Len(b) : Runs(c, input, mem)[i] = Runs(b, input, mem)[i]}
<1>1. /\ Len(b) \in Nat /\ Len(c) = Len(b) + 1 /\ c[Len(b) + 1] = x
      /\ \A i \in 1 .. Len(b) : c[i] = b[i]
  OBVIOUS
<1> HIDE DEF c
<1>2. /\ Runs(b, input, mem)[0] = Start(input, mem) /\ Runs(c, input, mem)[0] = Start(input, mem)
      /\ \A i \in 1 .. Len(b) :
           Runs(b, input, mem)[i] = ExecInst(Runs(b, input, mem)[i - 1], b[i])
      /\ \A i \in 1 .. Len(b) + 1 :
           Runs(c, input, mem)[i] = ExecInst(Runs(c, input, mem)[i - 1], c[i])
  BY <1>1, RunsSteps
<1>3. 0 \in T
  BY <1>1, <1>2
<1>4. ASSUME NEW i \in 0 .. Len(b) - 1, i \in T PROVE i + 1 \in T
  BY <1>1, <1>2, <1>4
<1>5. Len(b) \in T
  <2> HIDE DEF T
  <2>1. \A i \in 0 .. Len(b) : i \in T
    BY <1>1, <1>3, <1>4, UpTo
  <2> QED BY <1>1, <2>1
<1> QED BY <1>1, <1>2, <1>5 DEF Run, c

-----------------------------------------------------------------------------
(* The run of a formed block reads no undefined register: as long as it    *)
(* goes on, it has every register defined so far.                          *)

Sound(b, i, r, input, mem) ==
  /\ IsRun(r) /\ r.input = input /\ DOMAIN r.mem = DOMAIN mem
  /\ r.end = Going => DOMAIN r.regs = Defs(b, i)

LEMMA AfterIsRun ==
  ASSUME NEW r, IsRun(r), NEW inst \in Insts
  PROVE  IsRun(After(r, inst)) /\ DOMAIN After(r, inst).mem = DOMAIN r.mem
<1> DEFINE m == After(r, inst)
           V == UNION {{r.trace[k] : k \in 1 .. Len(r.trace)}, {Operand(r, inst, 1)}}
<1>1. m.mem = [p \in DOMAIN m.mem |-> m.mem[p]] /\ DOMAIN m.mem = DOMAIN r.mem
  BY DEF After, IsRun
<1>2. m.regs = [d \in DOMAIN m.regs |-> m.regs[d]]
  BY DEF After, IsRun, With
<1>3. \E W : m.trace \in Seq(W)
  <2>1. PICK W : r.trace \in Seq(W)
    BY DEF IsRun
  <2>2. r.trace \in Seq(W \cup {Operand(r, inst, 1)})
    BY <2>1, SeqMonotonic, Zenon
  <2>3. Append(r.trace, Operand(r, inst, 1)) \in Seq(W \cup {Operand(r, inst, 1)})
    BY <2>2
  <2> QED BY <2>1, <2>3 DEF After
<1> QED BY <1>1, <1>2, <1>3 DEF IsRun, After

LEMMA DefsStep ==
  ASSUME NEW b, Formed(b), NEW i \in 1 .. Len(b)
  PROVE  Defs(b, i) = Defs(b, i - 1) \cup ({b[i].dest} \ {0})
<1>1. Len(b) \in Nat
  BY DEF Formed
<1> QED BY <1>1 DEF Defs

LEMMA SoundStep ==
  ASSUME NEW b, Formed(b), NEW i \in 1 .. Len(b), NEW r, NEW input, NEW mem,
         Sound(b, i - 1, r, input, mem), r.end = Going
  PROVE  /\ ~Unread(r, b[i]) /\ ExecInst(r, b[i]) = After(r, b[i])
         /\ Sound(b, i, After(r, b[i]), input, mem)
<1>1. b[i] \in Insts /\ IsRun(r) /\ r.input = input /\ DOMAIN r.mem = DOMAIN mem
  BY DEF Formed, Sound
<1>2. ~Unread(r, b[i])
  <2>1. DOMAIN b[i].args = 1 .. Len(b[i].args)
    BY <1>1 DEF Insts
  <2> QED BY <2>1 DEF Unread, Formed, Sound
<1>3. ExecInst(r, b[i]) = After(r, b[i])
  BY <1>1, <1>2, ExecIsAfter
<1>4. IsRun(After(r, b[i])) /\ DOMAIN After(r, b[i]).mem = DOMAIN mem
  BY <1>1, AfterIsRun
<1>5. After(r, b[i]).input = input
  BY <1>1 DEF After
<1>6. ASSUME After(r, b[i]).end = Going
      PROVE  DOMAIN After(r, b[i]).regs = Defs(b, i)
  <2>1. Ending(r, b[i]) = Going
    BY <1>6 DEF After
  <2>2. b[i].op \notin {"ret", "br", "br_cond"} /\ ~Trapped(r, b[i])
    BY <2>1 DEF Ending, Going
  <2>3. b[i].dest = 0 <=> b[i].op = "store"
    BY <1>1, <2>2 DEF Insts, NoDest, Terminators, Branches
  <2>4. DOMAIN r.regs = Defs(b, i - 1)
    BY DEF Sound
  <2>5. After(r, b[i]).regs = IF b[i].op = "store" THEN r.regs ELSE With(r.regs, b[i].dest, Value(r, b[i]))
    BY <2>2 DEF After, NoDest, Terminators, Branches
  <2>6. Defs(b, i) = Defs(b, i - 1) \cup ({b[i].dest} \ {0})
    BY DefsStep
  <2>7. CASE b[i].op = "store"
    BY <2>3, <2>4, <2>5, <2>6, <2>7
  <2>8. CASE b[i].op # "store"
    BY <2>3, <2>4, <2>5, <2>6, <2>8 DEF With
  <2> QED BY <2>7, <2>8
<1> QED BY <1>2, <1>3, <1>4, <1>5, <1>6 DEF Sound

\* The steps of the run of a formed block.
LEMMA RunsSound ==
  ASSUME NEW b, Formed(b), NEW input, NEW mem, mem = [p \in DOMAIN mem |-> mem[p]]
  PROVE  /\ \A i \in 0 .. Len(b) : Sound(b, i, Runs(b, input, mem)[i], input, mem)
         /\ \A i \in 1 .. Len(b) :
              Runs(b, input, mem)[i] =
                IF Runs(b, input, mem)[i - 1].end = Going
                THEN After(Runs(b, input, mem)[i - 1], b[i]) ELSE Runs(b, input, mem)[i - 1]
<1> DEFINE R(i) == Runs(b, input, mem)[i]
           T == {i \in 0 .. Len(b) : Sound(b, i, R(i), input, mem)}
<1>1. Len(b) \in Nat
  BY DEF Formed
<1>2. R(0) = Start(input, mem) /\ \A i \in 1 .. Len(b) : R(i) = ExecInst(R(i - 1), b[i])
  BY <1>1, RunsSteps
<1> HIDE DEF R
<1>3. 0 \in T
  <2>1. Defs(b, 0) = {}
    BY DEF Defs
  <2>2. Start(input, mem).trace \in Seq({})
    BY DEF Start
  <2>3. Start(input, mem).regs = [d \in {} |-> 0]
    BY DEF Start
  <2>4. IsRun(Start(input, mem))
    BY <2>2, <2>3 DEF IsRun, Start
  <2>5. Sound(b, 0, Start(input, mem), input, mem)
    BY <2>1, <2>3, <2>4 DEF Sound, Start
  <2> QED BY <1>1, <1>2, <2>5
<1>4. ASSUME NEW i \in 0 .. Len(b) - 1, Sound(b, i, R(i), input, mem)
      PROVE  /\ R(i + 1) = IF R(i).end = Going THEN After(R(i), b[i + 1]) ELSE R(i)
             /\ Sound(b, i + 1, R(i + 1), input, mem)
  <2>1. i + 1 \in 1 .. Len(b) /\ (i + 1) - 1 = i
    BY <1>1
  <2>2. R(i + 1) = ExecInst(R(i), b[i + 1])
    BY <1>2, <2>1
  <2>3. CASE R(i).end = Going
    BY <2>1, <2>2, <2>3, <1>4, SoundStep
  <2>4. CASE R(i).end # Going
    BY <2>2, <2>4, <1>4, ExecEnded DEF Sound
  <2> QED BY <2>3, <2>4
<1>5. ASSUME NEW i \in 0 .. Len(b) - 1, i \in T PROVE i + 1 \in T
  BY <1>1, <1>4, <1>5
<1>6. \A i \in 0 .. Len(b) : i \in T
  <2> HIDE DEF T
  <2> QED BY <1>1, <1>3, <1>5, UpTo
<1>7. \A i \in 0 .. Len(b) : Sound(b, i, R(i), input, mem)
  BY <1>6
<1>8. ASSUME NEW i \in 1 .. Len(b)
      PROVE  R(i) = IF R(i - 1).end = Going THEN After(R(i - 1), b[i]) ELSE R(i - 1)
  <2>1. i - 1 \in 0 .. Len(b) - 1 /\ (i - 1) + 1 = i
    BY <1>1
  <2> QED BY <1>4, <1>7, <2>1
<1> QED BY <1>7, <1>8 DEF R

-----------------------------------------------------------------------------
(* Passes that put constants in the place of instructions. *)

\* No instruction that the dead code pass has no case for.
Plain(b) == \A i \in 1 .. Len(b) : b[i].op \notin UCompare \cup UShift

\* x may become y: the same instruction, or a constant in its register.
Becomes(x, y) == y = x \/ (x.op \notin NoDest /\ \E v \in Int : y = Const(x.dest, v))

\* A block made of what the first i instructions of b became.
Derived(b, i, out) ==
  /\ Formed(out) /\ Len(out) = i /\ Defs(out, i) = Defs(b, i)
  /\ \A j \in 1 .. i : Becomes(b[j], out[j])

LEMMA ConstIsInst ==
  ASSUME NEW x \in Insts, x.op \notin NoDest, NEW v \in Int
  PROVE  /\ Const(x.dest, v) \in Insts /\ Len(Const(x.dest, v).args) = 0
         /\ Const(x.dest, v).op = "const" /\ Const(x.dest, v).dest = x.dest
         /\ Const(x.dest, v).imm = v /\ Const(x.dest, v).args = <<>>
<1> DEFINE y == Const(x.dest, v)
<1>1. /\ y = [op |-> "const", dest |-> x.dest, args |-> <<>>, imm |-> v]
      /\ x.dest \in Nat \ {0}
  BY DEF Const, Inst, Insts
<1>2. /\ "const" \in Operations
      /\ "const" \notin Binary \cup Unary \cup NoDest \cup {"load", "store"}
  BY DEF Operations, Leaves, Binary, Arithmetic, Compare, Bitops, Shifts, UShift, Checked, UCompare,
         Unary, Calls, NoDest, Terminators, Branches
<1>3. <<>> \in Seq(Nat \ {0}) /\ Len(<<>>) = 0
  OBVIOUS
<1> HIDE DEF y
<1>4. y \in [op : Operations, dest : Nat, args : Seq(Nat \ {0}), imm : Int \cup Slots]
  BY <1>1, <1>2, <1>3
<1>5. y \in Insts
  BY <1>1, <1>2, <1>3, <1>4 DEF Insts
<1> QED BY <1>1, <1>3, <1>5 DEF y

LEMMA DerivedStep ==
  ASSUME NEW b, Formed(b), NEW i \in 1 .. Len(b), NEW out, Derived(b, i - 1, out),
         NEW y, Becomes(b[i], y)
  PROVE  /\ Derived(b, i, Append(out, y))
         /\ \A input, mem : Run(Append(out, y), input, mem) = ExecInst(Run(out, input, mem), y)
<1>1. /\ Len(b) \in Nat /\ b[i] \in Insts /\ Formed(out) /\ out \in Seq(Insts) /\ Len(out) = i - 1
      /\ Defs(out, i - 1) = Defs(b, i - 1) /\ b[i].dest \notin Defs(b, i - 1)
      /\ \A a \in 1 .. Len(b[i].args) : b[i].args[a] \in Defs(b, i - 1)
      /\ Defs(b, i) = Defs(b, i - 1) \cup ({b[i].dest} \ {0})
  <2>1. Defs(b, i) = Defs(b, i - 1) \cup ({b[i].dest} \ {0})
    BY DefsStep
  <2>2. Formed(out) /\ Len(out) = i - 1 /\ Defs(out, i - 1) = Defs(b, i - 1)
    BY DEF Derived
  <2>3. out \in Seq(Insts) /\ Len(b) \in Nat /\ b[i] \in Insts
    BY <2>2 DEF Formed
  <2>4. /\ b[i].dest \notin Defs(b, i - 1)
        /\ \A a \in 1 .. Len(b[i].args) : b[i].args[a] \in Defs(b, i - 1)
    BY DEF Formed
  <2> QED BY <2>1, <2>2, <2>3, <2>4
<1>2. /\ y \in Insts /\ y.dest = b[i].dest
      /\ \A a \in 1 .. Len(y.args) : y.args[a] \in Defs(b, i - 1)
  BY <1>1, ConstIsInst DEF Becomes
<1> DEFINE c == Append(out, y)
<1>3. /\ Formed(c) /\ Len(c) = i /\ c[i] = y /\ \A j \in 1 .. i - 1 : c[j] = out[j]
      /\ Defs(c, i) = Defs(out, i - 1) \cup ({y.dest} \ {0})
  <2>1. y.dest \notin Defs(out, Len(out))
    BY <1>1, <1>2
  <2>2. \A a \in 1 .. Len(y.args) : y.args[a] \in Defs(out, Len(out))
    BY <1>1, <1>2
  <2>3. /\ Formed(c) /\ Len(c) = Len(out) + 1 /\ c[Len(out) + 1] = y
        /\ \A j \in 1 .. Len(out) : c[j] = out[j]
        /\ Defs(c, Len(out) + 1) = Defs(out, Len(out)) \cup ({y.dest} \ {0})
    <3> HIDE DEF c
    <3> QED BY <1>1, <1>2, <2>1, <2>2, FormedAppend DEF c
  <2>4. Len(out) + 1 = i
    BY <1>1
  <2> HIDE DEF c
  <2> QED BY <1>1, <2>3, <2>4
<1>4. \A input, mem : Run(c, input, mem) = ExecInst(Run(out, input, mem), y)
  BY <1>1, <1>2, RunOfAppend
<1> HIDE DEF c
<1>5. \A j \in 1 .. i : Becomes(b[j], c[j])
  <2>1. \A j \in 1 .. i : j \in 1 .. i - 1 \/ j = i
    OBVIOUS
  <2> QED BY <1>3, <2>1 DEF Derived
<1> QED BY <1>1, <1>2, <1>3, <1>4, <1>5 DEF Derived, c

\* What a block that ends in a terminator keeps in every pass.
Keeps(b, c) ==
  /\ Formed(c) /\ Plain(c) /\ Len(c) > 0 /\ c[Len(c)].op = b[Len(b)].op
  /\ \A j \in 1 .. Len(c) : c[j].op \in {"load", "store"} =>
       \E k \in 1 .. Len(b) : b[k].op \in {"load", "store"} /\ b[k].imm = c[j].imm

Terminated(b) == Len(b) > 0 /\ b[Len(b)].op \in Terminators

LEMMA DerivedKeeps ==
  ASSUME NEW b, Formed(b), Plain(b), Terminated(b), NEW c, Derived(b, Len(b), c)
  PROVE  Keeps(b, c)
<1>1. /\ Len(b) \in Nat /\ Len(b) > 0 /\ b[Len(b)].op \in NoDest /\ Formed(c) /\ Len(c) = Len(b)
      /\ \A j \in 1 .. Len(b) : Becomes(b[j], c[j])
  BY DEF Formed, Terminated, NoDest, Derived
<1>2. \A j \in 1 .. Len(b) : c[j] = b[j] \/ (c[j].op = "const" /\ b[j].op \notin NoDest)
  <2> SUFFICES ASSUME NEW j \in 1 .. Len(b)
               PROVE  c[j] = b[j] \/ (c[j].op = "const" /\ b[j].op \notin NoDest)
    OBVIOUS
  <2>1. Becomes(b[j], c[j])
    BY <1>1
  <2>2. \A d, v : Const(d, v).op = "const"
    BY DEF Const, Inst
  <2> QED BY <2>1, <2>2 DEF Becomes
<1>3. Plain(c)
  <2> SUFFICES ASSUME NEW j \in 1 .. Len(b) PROVE c[j].op \notin UCompare \cup UShift
    BY <1>1 DEF Plain
  <2>1. b[j].op \notin UCompare \cup UShift /\ "const" \notin UCompare \cup UShift
    BY DEF Plain, UCompare, UShift
  <2> QED BY <1>2, <2>1
<1>4. c[Len(c)].op = b[Len(b)].op
  BY <1>1, <1>2
<1> QED BY <1>1, <1>2, <1>3, <1>4 DEF Keeps

\* A constant does what the instruction did that computes it.
LEMMA ConstInstead ==
  ASSUME NEW r, IsRun(r), r.end = Going, NEW x \in Insts, ~Unread(r, x),
         x.op \notin NoDest \cup Calls, ~Trapped(r, x), NEW v \in Int, Value(r, x) = v
  PROVE  ExecInst(r, Const(x.dest, v)) = ExecInst(r, x)
<1> DEFINE y == Const(x.dest, v)
<1>1. /\ y \in Insts /\ y.args = <<>> /\ y.op = "const" /\ y.dest = x.dest /\ y.imm = v
  BY ConstIsInst
<1> HIDE DEF y
<1>2. ~Unread(r, y)
  BY <1>1 DEF Unread
<1>3. "const" \notin NoDest \cup Calls \cup Binary
  BY DEF Binary, Arithmetic, Compare, Bitops, Shifts, UShift, Checked, UCompare, Calls, NoDest,
         Terminators, Branches
<1>4. ~Trapped(r, y) /\ Value(r, y) = v
  BY <1>1, <1>3 DEF Trapped, Value
<1>5. x.op \notin {"ret", "br", "br_cond", "store"}
  BY DEF NoDest, Terminators, Branches
<1>6. Ending(r, x) = Going /\ Ending(r, y) = Going
  BY <1>1, <1>4, <1>5 DEF Ending
<1>7. After(r, y) = After(r, x)
  BY <1>1, <1>3, <1>4, <1>5, <1>6 DEF After
<1> QED BY <1>1, <1>2, <1>7, ExecIsAfter DEF y

-----------------------------------------------------------------------------
(* Constant folding *)

LEMMA WrapIsInt ==
  ASSUME NEW n \in Int
  PROVE  Wrap(n) \in Ints /\ Wrap(n) \in Int
<1>1. Half \in Nat \ {0} /\ 2 * Half \in Nat \ {0}
  BY IntsAssumption
<1>2. Unsigned(n) \in 0 .. 2 * Half - 1
  BY <1>1 DEF Unsigned
<1> QED BY <1>1, <1>2 DEF Wrap, Signed, Ints, MinInt

LEMMA QuotientIsInt ==
  ASSUME NEW a \in Int, NEW b \in Int \ {0}
  PROVE  Quotient(a, b) \in Int
<1>1. Abs(a) \in Nat /\ Abs(b) \in Nat \ {0}
  BY DEF Abs
<1>2. Abs(a) \div Abs(b) \in Int
  BY <1>1
<1> QED BY <1>2 DEF Quotient

LEMMA BitsAreInt ==
  ASSUME NEW a \in Int, NEW b \in Int
  PROVE  /\ Signed(BitAnd(Unsigned(a), Unsigned(b))) \in Ints
         /\ Signed(BitOr(Unsigned(a), Unsigned(b))) \in Ints
         /\ Signed(BitXor(Unsigned(a), Unsigned(b))) \in Ints
<1>1. Half \in Nat \ {0} /\ 2 * Half \in Nat \ {0}
  BY IntsAssumption
<1>2. Unsigned(a) \in 0 .. 2 * Half - 1 /\ Unsigned(b) \in 0 .. 2 * Half - 1
  BY <1>1 DEF Unsigned
<1>3. {BitAnd(Unsigned(a), Unsigned(b)), BitOr(Unsigned(a), Unsigned(b)),
       BitXor(Unsigned(a), Unsigned(b))} \subseteq 0 .. 2 * Half - 1
  BY <1>2, IntsAssumption
<1>4. \A u \in 0 .. 2 * Half - 1 : Signed(u) \in Ints
  BY <1>1 DEF Signed, Ints, MinInt
<1> QED BY <1>3, <1>4

\* The fold computes what the emitted signed operation does.
LEMMA FoldsRight ==
  ASSUME NEW op \in Folded \ UCompare, NEW a \in Int, NEW b \in Int,
         op \in {"div", "mod"} => b # 0
  PROVE  FoldValue(op, a, b) = Exec(op, a, b) /\ Exec(op, a, b) \in Int
<1>1. op \in {"add", "sub", "mul", "div", "mod", "eq", "ne", "slt", "sgt", "sle", "sge", "and", "or", "xor"}
  BY DEF Folded, Arithmetic, Compare, Bitops
<1>2. CASE op \in {"add", "sub", "mul"}
  <2>1. {Wrap(a + b), Wrap(a - b), Wrap(a * b)} \subseteq Int
    BY WrapIsInt
  <2> QED BY <1>2, <2>1 DEF FoldValue, Exec
<1>3. CASE op \in {"div", "mod"}
  <2>1. Quotient(a, b) \in Int
    BY <1>3, QuotientIsInt
  <2>2. a - Quotient(a, b) * b = a - b * Quotient(a, b) /\ a - b * Quotient(a, b) \in Int
    BY <2>1
  <2> QED BY <1>3, <2>1, <2>2 DEF FoldValue, Exec
<1>4. CASE op \in {"eq", "ne", "slt", "sgt", "sle", "sge"}
  BY <1>4 DEF FoldValue, Exec, Bool
<1>5. CASE op \in {"and", "or", "xor"}
  <2>1. Ints \subseteq Int
    BY IntsAssumption DEF Ints, MinInt
  <2> QED BY <1>5, <2>1, BitsAreInt DEF FoldValue, Exec
<1> QED BY <1>1, <1>2, <1>3, <1>4, <1>5

FoldStart == [known |-> <<>>, out |-> <<>>, panics |-> FALSE]

LEMMA FoldingSteps ==
  ASSUME NEW b, Len(b) \in Nat
  PROVE  /\ Folding(b)[0] = FoldStart
         /\ \A i \in 1 .. Len(b) : Folding(b)[i] = FoldInst(Folding(b)[i - 1], b[i])
<1> DEFINE Ok(f, n) == f = [i \in 0 .. n |-> IF i = 0 THEN FoldStart ELSE FoldInst(f[i - 1], b[i])]
           T == {n \in 0 .. Len(b) : \E f : Ok(f, n)}
<1>1. 0 \in T
  <2>1. Ok([i \in 0 .. 0 |-> FoldStart], 0)
    OBVIOUS
  <2> HIDE DEF Ok
  <2> QED BY <2>1
<1>2. ASSUME NEW n \in 0 .. Len(b) - 1, n \in T PROVE n + 1 \in T
  <2>1. PICK f : Ok(f, n)
    BY <1>2
  <2> DEFINE g == [i \in 0 .. n + 1 |-> IF i = n + 1 THEN FoldInst(f[n], b[n + 1]) ELSE f[i]]
  <2>2. Ok(g, n + 1)
    BY <2>1
  <2> HIDE DEF Ok, g
  <2> QED BY <2>2
<1> HIDE DEF Ok
<1>3. Len(b) \in T
  <2> HIDE DEF T
  <2>1. \A i \in 0 .. Len(b) : i \in T
    BY <1>1, <1>2, UpTo
  <2> QED BY <2>1
<1>4. PICK f : Ok(f, Len(b))
  BY <1>3
<1>5. Ok(Folding(b), Len(b))
  BY <1>4 DEF Folding, Ok, FoldStart
<1> QED BY <1>5 DEF Ok

\* The fold of an instruction: it folds a known operation that is no division
\* by zero.
Folds(s, x) ==
  /\ x.op \in Folded /\ s.known[x.args[1]] \in Int /\ s.known[x.args[2]] \in Int
  /\ x.args[1] \in DOMAIN s.known /\ x.args[2] \in DOMAIN s.known
  /\ x.op \in {"div", "mod"} => s.known[x.args[2]] # 0
Overflows(s, x) ==
  Folds(s, x) /\ x.op \in {"div", "mod"} /\ s.known[x.args[1]] = MinInt /\ s.known[x.args[2]] = -1
FoldedTo(s, x) == FoldValue(x.op, s.known[x.args[1]], s.known[x.args[2]])

\* What is known after i instructions, and the block made of them.
FoldOk(b, i, s) ==
  /\ s = [known |-> s.known, out |-> s.out, panics |-> s.panics] /\ s.panics \in BOOLEAN
  /\ DOMAIN s.known \subseteq Defs(b, i) /\ \A d \in DOMAIN s.known : s.known[d] \in Int
  /\ Derived(b, i, s.out)

LEMMA FoldInstIs ==
  ASSUME NEW s, NEW x \in Insts,
         s = [known |-> s.known, out |-> s.out, panics |-> s.panics], s.panics \in BOOLEAN,
         \A d \in DOMAIN s.known : s.known[d] \in Int
  PROVE  FoldInst(s, x) =
           [known |-> IF x.op = "const" THEN With(s.known, x.dest, x.imm)
                      ELSE IF Folds(s, x) THEN With(s.known, x.dest, FoldedTo(s, x)) ELSE s.known,
            out |-> Append(s.out, IF Folds(s, x) THEN Const(x.dest, FoldedTo(s, x)) ELSE x),
            panics |-> s.panics \/ Overflows(s, x)]
<1>1. x.op = "const" => x.op \notin Folded
  BY DEF Folded, Arithmetic, Compare, Bitops, UCompare
<1> DEFINE Known == x.op \in Folded /\ \A i \in 1 .. 2 : x.args[i] \in DOMAIN s.known
           Zero == x.op \in {"div", "mod"} /\ s.known[x.args[2]] = 0
<1>2. Known => s.known[x.args[1]] \in Int /\ s.known[x.args[2]] \in Int
  BY DEF Known
<1>3. Folds(s, x) <=> Known /\ ~Zero
  <2>1. Known <=> x.op \in Folded /\ x.args[1] \in DOMAIN s.known /\ x.args[2] \in DOMAIN s.known
    BY \A i \in 1 .. 2 : i = 1 \/ i = 2
  <2> QED BY <1>2, <2>1 DEF Folds
<1>4. CASE x.op = "const"
  BY <1>1, <1>4 DEF FoldInst, Folds, Overflows
<1>5. CASE x.op # "const" /\ Folds(s, x)
  BY <1>3, <1>5 DEF FoldInst, FoldedTo, Overflows
<1>6. CASE x.op # "const" /\ ~Folds(s, x)
  <2>1. FoldInst(s, x) = [s EXCEPT !.out = Append(@, x)]
    BY <1>3, <1>6 DEF FoldInst
  <2> QED BY <1>6, <2>1 DEF Overflows
<1> QED BY <1>4, <1>5, <1>6

LEMMA FoldStep ==
  ASSUME NEW b, Formed(b), Plain(b), NEW i \in 1 .. Len(b), NEW s, FoldOk(b, i - 1, s)
  PROVE  FoldOk(b, i, FoldInst(s, b[i])) /\ Becomes(b[i], IF Folds(s, b[i]) THEN Const(b[i].dest, FoldedTo(s, b[i])) ELSE b[i])
<1> DEFINE x == b[i]
           n == FoldInst(s, x)
           y == IF Folds(s, x) THEN Const(x.dest, FoldedTo(s, x)) ELSE x
<1>1. x \in Insts /\ Defs(b, i) = Defs(b, i - 1) \cup ({x.dest} \ {0})
  <2>1. x \in Insts
    BY DEF Formed
  <2> QED BY <2>1, DefsStep
<1>2. Folds(s, x) => x.op \in Folded \ UCompare /\ x.op \notin NoDest /\ FoldedTo(s, x) \in Int
  <2>1. ASSUME Folds(s, x) PROVE x.op \in Folded \ UCompare /\ x.op \notin NoDest
    BY <2>1 DEF Folds, Plain, Folded, NoDest, Terminators, Branches, Arithmetic, Compare, Bitops
  <2>2. ASSUME Folds(s, x) PROVE FoldedTo(s, x) \in Int
    BY <2>1, <2>2, FoldsRight DEF Folds, FoldedTo
  <2> QED BY <2>1, <2>2
<1>3. x.op = "const" => x.dest # 0 /\ x.imm \in Int
  BY <1>1 DEF Insts, NoDest, Terminators, Branches
<1>4. Folds(s, x) => x.dest # 0
  BY <1>1, <1>2 DEF Insts
<1>5. n = [known |-> IF x.op = "const" THEN With(s.known, x.dest, x.imm)
                     ELSE IF Folds(s, x) THEN With(s.known, x.dest, FoldedTo(s, x)) ELSE s.known,
           out |-> Append(s.out, y),
           panics |-> s.panics \/ Overflows(s, x)]
  BY <1>1, FoldInstIs DEF FoldOk
<1>6. Becomes(x, y)
  <2>1. CASE Folds(s, x)
    BY <1>2, <2>1 DEF Becomes
  <2>2. CASE ~Folds(s, x)
    BY <2>2 DEF Becomes
  <2> QED BY <2>1, <2>2
<1>7. Derived(b, i, Append(s.out, y))
  BY <1>6, DerivedStep DEF FoldOk
<1>8. DOMAIN n.known \subseteq Defs(b, i) /\ \A d \in DOMAIN n.known : n.known[d] \in Int
  BY <1>1, <1>2, <1>3, <1>4, <1>5 DEF FoldOk, With
<1> QED BY <1>5, <1>6, <1>7, <1>8 DEF FoldOk

LEMMA FoldPanicsStay ==
  ASSUME NEW b, Formed(b), NEW i \in 1 .. Len(b), NEW s, FoldOk(b, i - 1, s),
         ~FoldInst(s, b[i]).panics
  PROVE  ~s.panics /\ ~Overflows(s, b[i])
<1>1. b[i] \in Insts
  BY DEF Formed
<1>2. \A k, o, p : [known |-> k, out |-> o, panics |-> p].panics = p
  OBVIOUS
<1>3. FoldInst(s, b[i]).panics = (s.panics \/ Overflows(s, b[i]))
  BY <1>1, <1>2, FoldInstIs DEF FoldOk
<1> QED BY <1>3, Zenon

\* The known registers hold what is known of them.
Agrees(known, r) == \A d \in DOMAIN known : d \in DOMAIN r.regs /\ r.regs[d] = known[d]

\* Before the fold panics, the block it makes runs as the block it folds.
LEMMA FoldStepRuns ==
  ASSUME NEW b, Formed(b), Plain(b), NEW i \in 1 .. Len(b), NEW s, FoldOk(b, i - 1, s),
         ~FoldInst(s, b[i]).panics, NEW input, NEW mem, NEW r, Sound(b, i - 1, r, input, mem),
         Run(s.out, input, mem) = r, r.end = Going => Agrees(s.known, r)
  PROVE  /\ Run(FoldInst(s, b[i]).out, input, mem) = ExecInst(r, b[i])
         /\ ExecInst(r, b[i]).end = Going => Agrees(FoldInst(s, b[i]).known, ExecInst(r, b[i]))
<1> DEFINE x == b[i]
           y == IF Folds(s, x) THEN Const(x.dest, FoldedTo(s, x)) ELSE x
<1>1. /\ x \in Insts /\ b[i].dest \notin Defs(b, i - 1)
      /\ FoldInst(s, x) =
           [known |-> IF x.op = "const" THEN With(s.known, x.dest, x.imm)
                      ELSE IF Folds(s, x) THEN With(s.known, x.dest, FoldedTo(s, x)) ELSE s.known,
            out |-> Append(s.out, y),
            panics |-> s.panics \/ Overflows(s, x)]
  <2>1. x \in Insts /\ b[i].dest \notin Defs(b, i - 1)
    BY DEF Formed
  <2>2. /\ s = [known |-> s.known, out |-> s.out, panics |-> s.panics] /\ s.panics \in BOOLEAN
        /\ \A d \in DOMAIN s.known : s.known[d] \in Int
    BY DEF FoldOk
  <2> QED BY <2>1, <2>2, FoldInstIs
<1>2. ~s.panics /\ ~Overflows(s, x)
  BY FoldPanicsStay
<1>3. Run(Append(s.out, y), input, mem) = ExecInst(r, y)
  <2>1. Becomes(x, y) /\ Derived(b, i - 1, s.out)
    BY FoldStep, Zenon DEF FoldOk
  <2> HIDE DEF y
  <2> QED BY <2>1, DerivedStep
<1>4. CASE r.end # Going
  <2>1. ExecInst(r, x) = r /\ ExecInst(r, y) = r
    BY <1>4, ExecEnded
  <2> QED BY <1>1, <1>2, <1>3, <1>4, <2>1
<1>5. CASE r.end = Going
  <2>1. /\ ~Unread(r, x) /\ ExecInst(r, x) = After(r, x) /\ IsRun(r)
        /\ DOMAIN r.regs = Defs(b, i - 1)
    BY <1>5, SoundStep DEF Sound
  <2>2. ASSUME Folds(s, x)
        PROVE  /\ x.op \notin NoDest \cup Calls /\ ~Trapped(r, x)
               /\ Value(r, x) = FoldedTo(s, x) /\ FoldedTo(s, x) \in Int
    <3>1. /\ x.op \in Folded \ UCompare
          /\ x.op \notin NoDest \cup Calls \cup {"const", "param", "load", "add_ov"}
      BY <2>2 DEF Folds, Plain, Folded, NoDest, Terminators, Branches, Arithmetic, Compare, Bitops,
                  Calls
    <3>2. /\ Operand(r, x, 1) = s.known[x.args[1]] /\ s.known[x.args[1]] \in Int
          /\ Operand(r, x, 2) = s.known[x.args[2]] /\ s.known[x.args[2]] \in Int
      BY <1>5, <2>2 DEF Folds, Agrees, Operand
    <3>3. ~Trapped(r, x)
      BY <1>2, <2>2, <3>1, <3>2 DEF Trapped, Traps, Folds, Overflows
    <3>4. Value(r, x) = Exec(x.op, Operand(r, x, 1), Operand(r, x, 2))
      BY <3>1 DEF Value
    <3> QED BY <2>2, <3>1, <3>2, <3>3, <3>4, FoldsRight DEF FoldedTo, Folds
  <2>3. ExecInst(r, y) = ExecInst(r, x)
    BY <1>1, <1>5, <2>1, <2>2, ConstInstead
  <2>4. ASSUME After(r, x).end = Going PROVE Agrees(FoldInst(s, x).known, After(r, x))
    <3>1. Ending(r, x) = Going
      BY <2>4 DEF After
    <3>2. ~Trapped(r, x)
      BY <3>1 DEF Ending, Going
    <3>3. x.op = "const" => x.op \notin NoDest /\ Value(r, x) = x.imm
      BY DEF NoDest, Terminators, Branches, Value, Calls
    <3>4. \A d \in DOMAIN s.known : d # x.dest /\ d \in DOMAIN After(r, x).regs
                                     /\ After(r, x).regs[d] = s.known[d]
      BY <1>1, <1>5, <2>1 DEF Agrees, After, With, FoldOk
    <3>5. x.op \notin NoDest => /\ x.dest \in DOMAIN After(r, x).regs
                                /\ After(r, x).regs[x.dest] = Value(r, x)
      BY <3>2 DEF After, With
    <3> QED BY <1>1, <2>2, <3>3, <3>4, <3>5 DEF Agrees, With
  <2> QED BY <1>1, <1>2, <1>3, <2>1, <2>3, <2>4
<1> QED BY <1>4, <1>5

\* The fold keeps the shape of the block and what it does, if it comes to an
\* end.
LEMMA FoldKeeps ==
  ASSUME NEW b, Formed(b), Plain(b), Terminated(b)
  PROVE  /\ Keeps(b, FoldPass(b).out)
         /\ ~FoldPass(b).panics => \A input, mem : mem = [p \in DOMAIN mem |-> mem[p]] =>
              Run(FoldPass(b).out, input, mem) = Run(b, input, mem)
<1> DEFINE F(i) == Folding(b)[i]
           T == {i \in 0 .. Len(b) : FoldOk(b, i, F(i))}
<1>1. /\ Len(b) \in Nat /\ F(0) = FoldStart
      /\ \A i \in 1 .. Len(b) : F(i) = FoldInst(F(i - 1), b[i])
  <2>1. Len(b) \in Nat
    BY DEF Formed
  <2> QED BY <2>1, FoldingSteps
<1> HIDE DEF F
<1>2. 0 \in T
  <2>1. Derived(b, 0, <<>>)
    BY EmptyFormed DEF Derived, Defs
  <2>2. FoldOk(b, 0, FoldStart)
    BY <2>1 DEF FoldOk, FoldStart
  <2> QED BY <1>1, <2>2
<1>3. ASSUME NEW i \in 0 .. Len(b) - 1, i \in T PROVE i + 1 \in T
  <2>1. i + 1 \in 1 .. Len(b) /\ (i + 1) - 1 = i
    BY <1>1
  <2>2. F(i + 1) = FoldInst(F(i), b[i + 1]) /\ FoldOk(b, i, F(i))
    BY <1>1, <1>3, <2>1
  <2>3. FoldOk(b, i + 1, F(i + 1))
    BY <2>1, <2>2, FoldStep
  <2> QED BY <2>1, <2>3
<1>4. \A i \in 0 .. Len(b) : FoldOk(b, i, F(i))
  <2> HIDE DEF T
  <2>1. \A i \in 0 .. Len(b) : i \in T
    BY <1>1, <1>2, <1>3, UpTo
  <2> QED BY <2>1 DEF T
<1>5. F(Len(b)) = FoldPass(b)
  BY DEF F, FoldPass
<1>6. Keeps(b, FoldPass(b).out)
  BY <1>1, <1>4, <1>5, DerivedKeeps DEF FoldOk
<1>7. ASSUME ~FoldPass(b).panics, NEW input, NEW mem, mem = [p \in DOMAIN mem |-> mem[p]]
      PROVE  Run(FoldPass(b).out, input, mem) = Run(b, input, mem)
  <2> DEFINE R(i) == Runs(b, input, mem)[i]
             Same(i) == Run(F(i).out, input, mem) = R(i) /\ (R(i).end = Going => Agrees(F(i).known, R(i)))
             G == {i \in 0 .. Len(b) : F(i).panics \/ Same(i)}
  <2>1. /\ \A i \in 0 .. Len(b) : Sound(b, i, R(i), input, mem)
        /\ R(0) = Start(input, mem) /\ \A i \in 1 .. Len(b) : R(i) = ExecInst(R(i - 1), b[i])
    BY <1>1, <1>7, RunsSound, RunsSteps
  <2>2. Run(<<>>, input, mem) = Start(input, mem)
    BY RunOfEmpty
  <2> HIDE DEF R
  <2>3. 0 \in G
    <3>1. F(0).out = <<>> /\ F(0).known = <<>>
      BY <1>1 DEF FoldStart
    <3>2. Same(0)
      BY <2>1, <2>2, <3>1 DEF Agrees
    <3> QED BY <1>1, <3>2
  <2>4. ASSUME NEW i \in 0 .. Len(b) - 1, i \in G PROVE i + 1 \in G
    <3>1. i + 1 \in 1 .. Len(b) /\ (i + 1) - 1 = i /\ i \in 0 .. Len(b)
      BY <1>1
    <3>2. /\ F(i + 1) = FoldInst(F(i), b[i + 1]) /\ FoldOk(b, i, F(i)) /\ R(i + 1) = ExecInst(R(i), b[i + 1])
          /\ Sound(b, i, R(i), input, mem)
      BY <1>1, <1>4, <2>1, <3>1
    <3>3. SUFFICES ASSUME ~F(i + 1).panics PROVE Same(i + 1)
      BY <3>1
    <3>4. ~F(i).panics
      BY <3>1, <3>2, <3>3, FoldPanicsStay
    <3>5. Same(i)
      BY <2>4, <3>4
    <3> HIDE DEF F
    <3> QED BY <3>1, <3>2, <3>3, <3>5, FoldStepRuns
  <2>5. Len(b) \in G
    <3> HIDE DEF G
    <3>1. \A i \in 0 .. Len(b) : i \in G
      BY <1>1, <2>3, <2>4, UpTo
    <3> QED BY <1>1, <3>1
  <2> QED BY <1>5, <1>7, <2>5 DEF R, Run
<1> QED BY <1>6, <1>7

-----------------------------------------------------------------------------
(* Store-load propagation *)

PropStart == [known |-> <<>>, stored |-> <<>>, out |-> <<>>]

LEMMA PropagatingSteps ==
  ASSUME NEW b, Len(b) \in Nat
  PROVE  /\ Propagating(b)[0] = PropStart
         /\ \A i \in 1 .. Len(b) : Propagating(b)[i] = PropInst(Propagating(b)[i - 1], b[i])
<1> DEFINE Ok(f, n) == f = [i \in 0 .. n |-> IF i = 0 THEN PropStart ELSE PropInst(f[i - 1], b[i])]
           T == {n \in 0 .. Len(b) : \E f : Ok(f, n)}
<1>1. 0 \in T
  <2>1. Ok([i \in 0 .. 0 |-> PropStart], 0)
    OBVIOUS
  <2> HIDE DEF Ok
  <2> QED BY <2>1
<1>2. ASSUME NEW n \in 0 .. Len(b) - 1, n \in T PROVE n + 1 \in T
  <2>1. PICK f : Ok(f, n)
    BY <1>2
  <2> DEFINE g == [i \in 0 .. n + 1 |-> IF i = n + 1 THEN PropInst(f[n], b[n + 1]) ELSE f[i]]
  <2>2. Ok(g, n + 1)
    BY <2>1
  <2> HIDE DEF Ok, g
  <2> QED BY <2>2
<1> HIDE DEF Ok
<1>3. Len(b) \in T
  <2> HIDE DEF T
  <2>1. \A i \in 0 .. Len(b) : i \in T
    BY <1>1, <1>2, UpTo
  <2> QED BY <2>1
<1>4. PICK f : Ok(f, Len(b))
  BY <1>3
<1>5. Ok(Propagating(b), Len(b))
  BY <1>4 DEF Propagating, Ok, PropStart
<1> QED BY <1>5 DEF Ok

Loads(s, x) == x.op = "load" /\ x.imm \in DOMAIN s.stored
StoredAfter(s, x) ==
  CASE x.op = "store" -> IF x.args[1] \in DOMAIN s.known
                         THEN With(s.stored, x.imm, s.known[x.args[1]])
                         ELSE [p \in DOMAIN s.stored \ {x.imm} |-> s.stored[p]]
    [] x.op \in Calls -> <<>>
    [] OTHER -> s.stored

\* What is known of registers and slots after i instructions.
PropOk(b, i, s) ==
  /\ s = [known |-> s.known, stored |-> s.stored, out |-> s.out]
  /\ DOMAIN s.known \subseteq Defs(b, i) /\ \A d \in DOMAIN s.known : s.known[d] \in Int
  /\ \A p \in DOMAIN s.stored : s.stored[p] \in Int
  /\ Derived(b, i, s.out)

LEMMA PropInstIs ==
  ASSUME NEW s, NEW x \in Insts, s = [known |-> s.known, stored |-> s.stored, out |-> s.out]
  PROVE  PropInst(s, x) =
           [known |-> IF x.op = "const" THEN With(s.known, x.dest, x.imm)
                      ELSE IF Loads(s, x) THEN With(s.known, x.dest, s.stored[x.imm]) ELSE s.known,
            stored |-> StoredAfter(s, x),
            out |-> Append(s.out, IF Loads(s, x) THEN Const(x.dest, s.stored[x.imm]) ELSE x)]
<1>1. CASE x.op = "const"
  BY <1>1 DEF PropInst, Loads, StoredAfter, Calls
<1>2. CASE x.op = "store"
  BY <1>2 DEF PropInst, Loads, StoredAfter, Calls
<1>3. CASE x.op = "load"
  BY <1>3 DEF PropInst, Loads, StoredAfter, Calls
<1>4. CASE x.op \in Calls
  BY <1>4 DEF PropInst, Loads, StoredAfter, Calls
<1>5. CASE x.op \notin {"const", "store", "load"} \cup Calls
  BY <1>5 DEF PropInst, Loads, StoredAfter
<1> QED BY <1>1, <1>2, <1>3, <1>4, <1>5

LEMMA PropStep ==
  ASSUME NEW b, Formed(b), NEW i \in 1 .. Len(b), NEW s, PropOk(b, i - 1, s)
  PROVE  /\ PropOk(b, i, PropInst(s, b[i]))
         /\ Becomes(b[i], IF Loads(s, b[i]) THEN Const(b[i].dest, s.stored[b[i].imm]) ELSE b[i])
<1> DEFINE x == b[i]
           n == PropInst(s, x)
           y == IF Loads(s, x) THEN Const(x.dest, s.stored[x.imm]) ELSE x
<1>1. x \in Insts /\ Defs(b, i) = Defs(b, i - 1) \cup ({x.dest} \ {0})
  <2>1. x \in Insts
    BY DEF Formed
  <2> QED BY <2>1, DefsStep
<1>2. Loads(s, x) => x.op \notin NoDest /\ x.dest # 0 /\ s.stored[x.imm] \in Int
  BY <1>1 DEF Loads, PropOk, NoDest, Terminators, Branches, Insts
<1>3. x.op = "const" => x.dest # 0 /\ x.imm \in Int
  BY <1>1 DEF Insts, NoDest, Terminators, Branches
<1>4. n = [known |-> IF x.op = "const" THEN With(s.known, x.dest, x.imm)
                     ELSE IF Loads(s, x) THEN With(s.known, x.dest, s.stored[x.imm]) ELSE s.known,
           stored |-> StoredAfter(s, x),
           out |-> Append(s.out, y)]
  BY <1>1, PropInstIs DEF PropOk
<1>5. Becomes(x, y)
  <2>1. CASE Loads(s, x)
    BY <1>2, <2>1 DEF Becomes
  <2>2. CASE ~Loads(s, x)
    BY <2>2 DEF Becomes
  <2> QED BY <2>1, <2>2
<1>6. Derived(b, i, Append(s.out, y))
  BY <1>5, DerivedStep DEF PropOk
<1>7. DOMAIN n.known \subseteq Defs(b, i) /\ \A d \in DOMAIN n.known : n.known[d] \in Int
  BY <1>1, <1>2, <1>3, <1>4 DEF PropOk, With
<1>8. \A p \in DOMAIN n.stored : n.stored[p] \in Int
  BY <1>4 DEF PropOk, With, StoredAfter
<1> QED BY <1>4, <1>5, <1>6, <1>7, <1>8 DEF PropOk

\* The slots have the content that is known of them.
Holds(stored, r) == \A p \in DOMAIN stored : p \in DOMAIN r.mem /\ r.mem[p] = stored[p]

LEMMA PropStepRuns ==
  ASSUME NEW b, Formed(b), NEW i \in 1 .. Len(b), NEW s, PropOk(b, i - 1, s),
         NEW input, NEW mem, b[i].op = "store" => b[i].imm \in DOMAIN mem,
         LET r == Run(s.out, input, mem)
         IN  Sound(b, i - 1, r, input, mem) /\ (r.end = Going => Agrees(s.known, r) /\ Holds(s.stored, r))
  PROVE  LET r == Run(s.out, input, mem)
             n == PropInst(s, b[i])
         IN  /\ Run(n.out, input, mem) = ExecInst(r, b[i])
             /\ ExecInst(r, b[i]).end = Going => /\ Agrees(n.known, ExecInst(r, b[i]))
                                                 /\ Holds(n.stored, ExecInst(r, b[i]))
<1> DEFINE r == Run(s.out, input, mem)
           x == b[i]
           n == PropInst(s, x)
           y == IF Loads(s, x) THEN Const(x.dest, s.stored[x.imm]) ELSE x
<1>1. /\ x \in Insts /\ b[i].dest \notin Defs(b, i - 1)
      /\ n = [known |-> IF x.op = "const" THEN With(s.known, x.dest, x.imm)
                        ELSE IF Loads(s, x) THEN With(s.known, x.dest, s.stored[x.imm]) ELSE s.known,
              stored |-> StoredAfter(s, x),
              out |-> Append(s.out, y)]
  <2>1. x \in Insts /\ b[i].dest \notin Defs(b, i - 1)
    BY DEF Formed
  <2> QED BY <2>1, PropInstIs DEF PropOk
<1>2. Run(Append(s.out, y), input, mem) = ExecInst(r, y)
  <2>1. Becomes(x, y) /\ Derived(b, i - 1, s.out)
    BY PropStep, Zenon DEF PropOk
  <2> HIDE DEF y
  <2> QED BY <2>1, DerivedStep
<1>3. CASE r.end # Going
  <2>1. ExecInst(r, x) = r /\ ExecInst(r, y) = r
    BY <1>3, ExecEnded
  <2> QED BY <1>1, <1>2, <1>3, <2>1
<1>4. CASE r.end = Going
  <2>1. /\ ~Unread(r, x) /\ ExecInst(r, x) = After(r, x) /\ IsRun(r)
        /\ DOMAIN r.regs = Defs(b, i - 1) /\ DOMAIN r.mem = DOMAIN mem
    BY <1>4, SoundStep DEF Sound
  <2>2. ASSUME Loads(s, x)
        PROVE  /\ x.op \notin NoDest \cup Calls /\ ~Trapped(r, x)
               /\ Value(r, x) = s.stored[x.imm] /\ s.stored[x.imm] \in Int
    <3>1. x.op = "load" /\ x.op \notin NoDest \cup Calls \cup Binary \cup {"const", "param"}
      BY <2>2 DEF Loads, NoDest, Terminators, Branches, Binary, Arithmetic, Compare, Bitops, Shifts,
                  UShift, Checked, UCompare, Calls
    <3> QED BY <1>4, <2>2, <3>1 DEF Loads, Holds, Value, Trapped, PropOk
  <2>3. ExecInst(r, y) = ExecInst(r, x)
    BY <1>1, <1>4, <2>1, <2>2, ConstInstead
  <2>4. ASSUME After(r, x).end = Going PROVE Agrees(n.known, After(r, x))
    <3>1. Ending(r, x) = Going
      BY <2>4 DEF After
    <3>2. ~Trapped(r, x)
      BY <3>1 DEF Ending, Going
    <3>3. x.op = "const" => x.op \notin NoDest /\ Value(r, x) = x.imm
      BY DEF NoDest, Terminators, Branches, Value, Calls
    <3>4. \A d \in DOMAIN s.known : d # x.dest /\ d \in DOMAIN After(r, x).regs
                                     /\ After(r, x).regs[d] = s.known[d]
      BY <1>1, <1>4, <2>1 DEF Agrees, After, With, PropOk
    <3>5. x.op \notin NoDest => /\ x.dest \in DOMAIN After(r, x).regs
                                /\ After(r, x).regs[x.dest] = Value(r, x)
      BY <3>2 DEF After, With
    <3> QED BY <1>1, <2>2, <3>3, <3>4, <3>5 DEF Agrees, With
  <2>5. Holds(n.stored, After(r, x))
    <3>1. n.stored = StoredAfter(s, x)
      BY <1>1
    <3>2. CASE x.op = "store"
      <4>1. After(r, x).mem = [r.mem EXCEPT ![x.imm] = Operand(r, x, 1)] /\ x.imm \in DOMAIN r.mem
        BY <2>1, <3>2 DEF After
      <4>2. x.args[1] \in DOMAIN s.known => Operand(r, x, 1) = s.known[x.args[1]]
        BY <1>4 DEF Agrees, Operand
      <4>3. StoredAfter(s, x) = IF x.args[1] \in DOMAIN s.known
                                THEN With(s.stored, x.imm, s.known[x.args[1]])
                                ELSE [p \in DOMAIN s.stored \ {x.imm} |-> s.stored[p]]
        BY <3>2 DEF StoredAfter, Calls
      <4> QED BY <1>4, <3>1, <4>1, <4>2, <4>3 DEF Holds, With
    <3>3. CASE x.op # "store"
      <4>1. After(r, x).mem = r.mem
        BY <3>3 DEF After
      <4> QED BY <1>4, <3>1, <3>3, <4>1 DEF Holds, StoredAfter
    <3> QED BY <3>2, <3>3
  <2> QED BY <1>1, <1>2, <2>1, <2>3, <2>4, <2>5
<1> QED BY <1>3, <1>4

\* The slots a block uses are there.
SlotsIn(b, mem) == \A i \in 1 .. Len(b) : b[i].op \in {"load", "store"} => b[i].imm \in DOMAIN mem

LEMMA PropKeeps ==
  ASSUME NEW b, Formed(b), Plain(b), Terminated(b)
  PROVE  /\ Keeps(b, PropPass(b))
         /\ \A input, mem : mem = [p \in DOMAIN mem |-> mem[p]] /\ SlotsIn(b, mem) =>
              Run(PropPass(b), input, mem) = Run(b, input, mem)
<1> DEFINE F(i) == Propagating(b)[i]
           T == {i \in 0 .. Len(b) : PropOk(b, i, F(i))}
<1>1. /\ Len(b) \in Nat /\ F(0) = PropStart
      /\ \A i \in 1 .. Len(b) : F(i) = PropInst(F(i - 1), b[i])
  <2>1. Len(b) \in Nat
    BY DEF Formed
  <2> QED BY <2>1, PropagatingSteps
<1> HIDE DEF F
<1>2. 0 \in T
  <2>1. Derived(b, 0, <<>>)
    BY EmptyFormed DEF Derived, Defs
  <2>2. PropOk(b, 0, PropStart)
    BY <2>1 DEF PropOk, PropStart
  <2> QED BY <1>1, <2>2
<1>3. ASSUME NEW i \in 0 .. Len(b) - 1, i \in T PROVE i + 1 \in T
  <2>1. i + 1 \in 1 .. Len(b) /\ (i + 1) - 1 = i
    BY <1>1
  <2>2. F(i + 1) = PropInst(F(i), b[i + 1]) /\ PropOk(b, i, F(i))
    BY <1>1, <1>3, <2>1
  <2>3. PropOk(b, i + 1, F(i + 1))
    BY <2>1, <2>2, PropStep
  <2> QED BY <2>1, <2>3
<1>4. \A i \in 0 .. Len(b) : PropOk(b, i, F(i))
  <2> HIDE DEF T
  <2>1. \A i \in 0 .. Len(b) : i \in T
    BY <1>1, <1>2, <1>3, UpTo
  <2> QED BY <2>1 DEF T
<1>5. F(Len(b)).out = PropPass(b)
  BY DEF F, PropPass
<1>6. Keeps(b, PropPass(b))
  BY <1>1, <1>4, <1>5, DerivedKeeps DEF PropOk
<1>7. ASSUME NEW input, NEW mem, mem = [p \in DOMAIN mem |-> mem[p]], SlotsIn(b, mem)
      PROVE  Run(PropPass(b), input, mem) = Run(b, input, mem)
  <2> DEFINE R(i) == Runs(b, input, mem)[i]
             Same(i) == /\ Run(F(i).out, input, mem) = R(i)
                        /\ R(i).end = Going => Agrees(F(i).known, R(i)) /\ Holds(F(i).stored, R(i))
             G == {i \in 0 .. Len(b) : Same(i)}
  <2>1. /\ \A i \in 0 .. Len(b) : Sound(b, i, R(i), input, mem)
        /\ R(0) = Start(input, mem) /\ \A i \in 1 .. Len(b) : R(i) = ExecInst(R(i - 1), b[i])
    BY <1>1, <1>7, RunsSound, RunsSteps
  <2>2. Run(<<>>, input, mem) = Start(input, mem)
    BY RunOfEmpty
  <2> HIDE DEF R
  <2>3. 0 \in G
    <3>1. F(0).out = <<>> /\ F(0).known = <<>> /\ F(0).stored = <<>>
      BY <1>1 DEF PropStart
    <3>2. Same(0)
      BY <2>1, <2>2, <3>1 DEF Agrees, Holds
    <3> QED BY <1>1, <3>2
  <2>4. ASSUME NEW i \in 0 .. Len(b) - 1, i \in G PROVE i + 1 \in G
    <3>1. i + 1 \in 1 .. Len(b) /\ (i + 1) - 1 = i /\ i \in 0 .. Len(b)
      BY <1>1
    <3>2. /\ F(i + 1) = PropInst(F(i), b[i + 1]) /\ PropOk(b, i, F(i)) /\ R(i + 1) = ExecInst(R(i), b[i + 1])
          /\ Sound(b, i, R(i), input, mem)
      BY <1>1, <1>4, <2>1, <3>1
    <3>3. b[i + 1].op = "store" => b[i + 1].imm \in DOMAIN mem
      BY <1>7, <3>1 DEF SlotsIn
    <3>4. Same(i)
      BY <2>4
    <3> HIDE DEF F
    <3> DEFINE n == PropInst(F(i), b[i + 1])
               q == ExecInst(R(i), b[i + 1])
    <3>5. /\ Run(n.out, input, mem) = q
          /\ q.end = Going => Agrees(n.known, q) /\ Holds(n.stored, q)
      <4> DEFINE r == Run(F(i).out, input, mem)
                 p == ExecInst(r, b[i + 1])
      <4>1. /\ PropOk(b, (i + 1) - 1, F(i)) /\ Sound(b, (i + 1) - 1, r, input, mem)
            /\ r.end = Going => Agrees(F(i).known, r) /\ Holds(F(i).stored, r)
        BY <3>1, <3>2, <3>4
      <4>2. /\ Run(n.out, input, mem) = p
            /\ p.end = Going => Agrees(n.known, p) /\ Holds(n.stored, p)
        BY <3>1, <3>3, <4>1, PropStepRuns
      <4> QED BY <3>4, <4>2
    <3> QED BY <3>1, <3>2, <3>5
  <2>5. Len(b) \in G
    <3> HIDE DEF G
    <3>1. \A i \in 0 .. Len(b) : i \in G
      BY <1>1, <2>3, <2>4, UpTo
    <3> QED BY <1>1, <3>1
  <2> QED BY <1>5, <2>5 DEF R, Run
<1> QED BY <1>6, <1>7

-----------------------------------------------------------------------------
(* Passes that remove instructions *)

LEMMA WithoutSteps ==
  ASSUME NEW b, Len(b) \in Nat, NEW gone
  PROVE  /\ Without(b, gone)[0] = <<>>
         /\ \A i \in 1 .. Len(b) :
              Without(b, gone)[i] = IF i \in gone THEN Without(b, gone)[i - 1]
                                    ELSE Append(Without(b, gone)[i - 1], b[i])
<1> DEFINE Ok(f, n) == f = [i \in 0 .. n |-> IF i = 0 THEN <<>> ELSE
                                             IF i \in gone THEN f[i - 1] ELSE Append(f[i - 1], b[i])]
           T == {n \in 0 .. Len(b) : \E f : Ok(f, n)}
<1>1. 0 \in T
  <2>1. Ok([i \in 0 .. 0 |-> <<>>], 0)
    OBVIOUS
  <2> HIDE DEF Ok
  <2> QED BY <2>1
<1>2. ASSUME NEW n \in 0 .. Len(b) - 1, n \in T PROVE n + 1 \in T
  <2>1. PICK f : Ok(f, n)
    BY <1>2
  <2> DEFINE last == IF n + 1 \in gone THEN f[n] ELSE Append(f[n], b[n + 1])
             g == [i \in 0 .. n + 1 |-> IF i = n + 1 THEN last ELSE f[i]]
  <2>2. ASSUME NEW i \in 0 .. n + 1
        PROVE  g[i] = IF i = 0 THEN <<>> ELSE IF i \in gone THEN g[i - 1] ELSE Append(g[i - 1], b[i])
    <3>1. CASE i = n + 1
      <4>1. i # 0 /\ i - 1 = n /\ g[i - 1] = f[n] /\ g[i] = last
        BY <3>1
      <4> QED BY <3>1, <4>1
    <3>2. CASE i \in 0 .. n
      <4>1. f[i] = IF i = 0 THEN <<>> ELSE IF i \in gone THEN f[i - 1] ELSE Append(f[i - 1], b[i])
        BY <2>1, <3>2
      <4>2. g[i] = f[i] /\ (i # 0 => g[i - 1] = f[i - 1])
        BY <3>2
      <4> HIDE DEF g
      <4> QED BY <4>1, <4>2
    <3> QED BY <3>1, <3>2
  <2>3. Ok(g, n + 1)
    BY <2>2
  <2> HIDE DEF Ok, g
  <2> QED BY <2>3
<1> HIDE DEF Ok
<1>3. Len(b) \in T
  <2> HIDE DEF T
  <2>1. \A i \in 0 .. Len(b) : i \in T
    BY <1>1, <1>2, UpTo
  <2> QED BY <2>1
<1>4. PICK f : Ok(f, Len(b))
  BY <1>3
<1>5. Ok(Without(b, gone), Len(b))
  BY <1>4 DEF Without, Ok
<1> DEFINE W == Without(b, gone)
<1>6. W = [i \in 0 .. Len(b) |-> IF i = 0 THEN <<>> ELSE
                                 IF i \in gone THEN W[i - 1] ELSE Append(W[i - 1], b[i])]
  BY <1>5 DEF Ok
<1> HIDE DEF W
<1>7. \A i \in 0 .. Len(b) : W[i] = IF i = 0 THEN <<>> ELSE
                                     IF i \in gone THEN W[i - 1] ELSE Append(W[i - 1], b[i])
  BY <1>6, Zenon
<1>8. W[0] = <<>>
  BY <1>7
<1>9. \A i \in 1 .. Len(b) : W[i] = IF i \in gone THEN W[i - 1] ELSE Append(W[i - 1], b[i])
  BY <1>7
<1> QED BY <1>8, <1>9 DEF W

\* What is left of the first i instructions of b.
Rest(b, gone, i, c) ==
  /\ Formed(c) /\ Defs(c, Len(c)) = {b[j].dest : j \in (1 .. i) \ gone} \ {0}
  /\ \A p \in 1 .. Len(c) : \E j \in 1 .. i : c[p] = b[j]
  /\ i > 0 /\ i \notin gone => Len(c) > 0 /\ c[Len(c)] = b[i]

LEMMA RestStep ==
  ASSUME NEW b, Formed(b), NEW gone, NEW i \in 1 .. Len(b), NEW c, Rest(b, gone, i - 1, c),
         \A j \in (1 .. Len(b)) \cap gone : \A a \in 1 .. Len(b[i].args) : b[i].args[a] # b[j].dest
  PROVE  /\ i \in gone => Rest(b, gone, i, c)
         /\ i \notin gone => /\ Rest(b, gone, i, Append(c, b[i]))
                            /\ \A input, mem : Run(Append(c, b[i]), input, mem)
                                               = ExecInst(Run(c, input, mem), b[i])
<1>1. /\ Len(b) \in Nat /\ b[i] \in Insts /\ Formed(c) /\ c \in Seq(Insts) /\ Len(c) \in Nat
      /\ b[i].dest \notin Defs(b, i - 1)
      /\ \A a \in 1 .. Len(b[i].args) : b[i].args[a] \in Defs(b, i - 1)
  <2>1. Formed(c)
    BY DEF Rest
  <2>2. c \in Seq(Insts) /\ Len(c) \in Nat /\ Len(b) \in Nat /\ b[i] \in Insts
    BY <2>1 DEF Formed
  <2>3. /\ b[i].dest \notin Defs(b, i - 1)
        /\ \A a \in 1 .. Len(b[i].args) : b[i].args[a] \in Defs(b, i - 1)
    BY DEF Formed
  <2> QED BY <2>1, <2>2, <2>3
<1>2. Defs(c, Len(c)) = {b[j].dest : j \in (1 .. i - 1) \ gone} \ {0}
  BY DEF Rest
<1>3. CASE i \in gone
  <2>1. (1 .. i) \ gone = (1 .. i - 1) \ gone
    BY <1>1, <1>3
  <2>2. \A p \in 1 .. Len(c) : \E j \in 1 .. i : c[p] = b[j]
    BY <1>1 DEF Rest
  <2> QED BY <1>1, <1>2, <1>3, <2>1, <2>2 DEF Rest
<1>4. CASE i \notin gone
  <2> DEFINE x == b[i]
             e == Append(c, x)
  <2>1. x.dest \notin Defs(c, Len(c))
    <3>1. Defs(c, Len(c)) \subseteq Defs(b, i - 1)
      BY <1>2 DEF Defs
    <3> QED BY <1>1, <3>1
  <2>2. ASSUME NEW a \in 1 .. Len(x.args) PROVE x.args[a] \in Defs(c, Len(c))
    <3>1. PICK j \in 1 .. i - 1 : x.args[a] = b[j].dest
      BY <1>1 DEF Defs
    <3>2. x.args[a] # 0
      BY <1>1 DEF Defs
    <3>3. j \notin gone
      BY <1>1, <3>1
    <3> QED BY <1>2, <3>1, <3>2, <3>3
  <2>3. /\ Formed(e) /\ Len(e) = Len(c) + 1 /\ e[Len(c) + 1] = x
        /\ \A p \in 1 .. Len(c) : e[p] = c[p]
        /\ Defs(e, Len(c) + 1) = Defs(c, Len(c)) \cup ({x.dest} \ {0})
    <3> HIDE DEF e
    <3> QED BY <1>1, <2>1, <2>2, FormedAppend DEF e
  <2>4. \A input, mem : Run(e, input, mem) = ExecInst(Run(c, input, mem), x)
    BY <1>1, RunOfAppend
  <2> HIDE DEF e
  <2>5. Defs(e, Len(e)) = {b[j].dest : j \in (1 .. i) \ gone} \ {0}
    <3>1. (1 .. i) \ gone = ((1 .. i - 1) \ gone) \cup {i}
      BY <1>1, <1>4
    <3> QED BY <1>2, <2>3, <3>1
  <2>6. \A p \in 1 .. Len(e) : \E j \in 1 .. i : e[p] = b[j]
    <3> SUFFICES ASSUME NEW p \in 1 .. Len(e) PROVE \E j \in 1 .. i : e[p] = b[j]
      OBVIOUS
    <3>1. CASE p \in 1 .. Len(c)
      <4>1. PICK j \in 1 .. i - 1 : c[p] = b[j]
        BY <3>1 DEF Rest
      <4> QED BY <2>3, <3>1, <4>1
    <3>2. CASE p = Len(c) + 1
      BY <1>1, <2>3, <3>2
    <3> QED BY <1>1, <2>3, <3>1, <3>2
  <2>7. Len(e) > 0 /\ e[Len(e)] = b[i]
    BY <1>1, <2>3
  <2>8. Rest(b, gone, i, e)
    BY <1>1, <2>3, <2>5, <2>6, <2>7 DEF Rest
  <2> QED BY <1>4, <2>4, <2>8 DEF e
<1> QED BY <1>3, <1>4

\* Nothing uses what a removed instruction defines.
Useless(b, gone) ==
  /\ Len(b) \notin gone
  /\ \A j \in (1 .. Len(b)) \cap gone : \A i \in 1 .. Len(b) : \A a \in 1 .. Len(b[i].args) :
       b[i].args[a] # b[j].dest

LEMMA WithoutRest ==
  ASSUME NEW b, Formed(b), NEW gone, Useless(b, gone)
  PROVE  \A i \in 0 .. Len(b) : Rest(b, gone, i, Without(b, gone)[i])
<1> DEFINE W(i) == Without(b, gone)[i]
           T == {i \in 0 .. Len(b) : Rest(b, gone, i, W(i))}
<1>1. /\ Len(b) \in Nat /\ W(0) = <<>>
      /\ \A i \in 1 .. Len(b) : W(i) = IF i \in gone THEN W(i - 1) ELSE Append(W(i - 1), b[i])
  <2>1. Len(b) \in Nat
    BY DEF Formed
  <2> QED BY <2>1, WithoutSteps
<1> HIDE DEF W
<1>2. 0 \in T
  <2>1. Rest(b, gone, 0, <<>>)
    BY EmptyFormed DEF Rest, Defs
  <2> QED BY <1>1, <2>1
<1>3. ASSUME NEW i \in 0 .. Len(b) - 1, i \in T PROVE i + 1 \in T
  <2>1. i + 1 \in 1 .. Len(b) /\ (i + 1) - 1 = i
    BY <1>1
  <2>2. /\ Rest(b, gone, (i + 1) - 1, W(i))
        /\ \A j \in (1 .. Len(b)) \cap gone : \A a \in 1 .. Len(b[i + 1].args) : b[i + 1].args[a] # b[j].dest
    BY <1>3, <2>1 DEF Useless
  <2>3. /\ i + 1 \in gone => Rest(b, gone, i + 1, W(i))
        /\ i + 1 \notin gone => Rest(b, gone, i + 1, Append(W(i), b[i + 1]))
    BY <2>1, <2>2, RestStep
  <2>4. Rest(b, gone, i + 1, W(i + 1))
    BY <1>1, <2>1, <2>3
  <2> QED BY <2>1, <2>4
<1>4. \A i \in 0 .. Len(b) : i \in T
  <2> HIDE DEF T
  <2> QED BY <1>1, <1>2, <1>3, UpTo
<1> QED BY <1>4 DEF W

\* The run of what is left skips the removed instructions.
LEMMA WithoutRuns ==
  ASSUME NEW b, Formed(b), NEW gone, Useless(b, gone), NEW input, NEW mem
  PROVE  /\ Run(Without(b, gone)[0], input, mem) = Start(input, mem)
         /\ \A i \in 1 .. Len(b) :
              Run(Without(b, gone)[i], input, mem) =
                IF i \in gone THEN Run(Without(b, gone)[i - 1], input, mem)
                ELSE ExecInst(Run(Without(b, gone)[i - 1], input, mem), b[i])
<1> DEFINE W(i) == Without(b, gone)[i]
<1>1. /\ Len(b) \in Nat /\ W(0) = <<>>
      /\ \A i \in 1 .. Len(b) : W(i) = IF i \in gone THEN W(i - 1) ELSE Append(W(i - 1), b[i])
  <2>1. Len(b) \in Nat
    BY DEF Formed
  <2> QED BY <2>1, WithoutSteps
<1>2. \A i \in 0 .. Len(b) : Rest(b, gone, i, W(i))
  BY WithoutRest
<1> HIDE DEF W
<1>3. Run(W(0), input, mem) = Start(input, mem)
  BY <1>1, RunOfEmpty
<1>4. ASSUME NEW i \in 1 .. Len(b)
      PROVE  Run(W(i), input, mem) = IF i \in gone THEN Run(W(i - 1), input, mem)
                                     ELSE ExecInst(Run(W(i - 1), input, mem), b[i])
  <2>1. Rest(b, gone, i - 1, W(i - 1))
    BY <1>1, <1>2
  <2>2. \A j \in (1 .. Len(b)) \cap gone : \A a \in 1 .. Len(b[i].args) : b[i].args[a] # b[j].dest
    BY DEF Useless
  <2>3. i \notin gone => Run(Append(W(i - 1), b[i]), input, mem) = ExecInst(Run(W(i - 1), input, mem), b[i])
    BY <2>1, <2>2, RestStep
  <2> QED BY <1>1, <2>3
<1> QED BY <1>3, <1>4 DEF W

LEMMA WithoutKeeps ==
  ASSUME NEW b, Formed(b), Plain(b), Terminated(b), NEW gone, Useless(b, gone)
  PROVE  Keeps(b, Without(b, gone)[Len(b)])
<1> DEFINE c == Without(b, gone)[Len(b)]
<1>1. Len(b) \in Nat /\ Len(b) > 0
  BY DEF Formed, Terminated
<1>2. Rest(b, gone, Len(b), c)
  BY <1>1, WithoutRest
<1> HIDE DEF c
<1>3. /\ Formed(c) /\ Len(c) > 0 /\ c[Len(c)] = b[Len(b)]
      /\ \A p \in 1 .. Len(c) : \E j \in 1 .. Len(b) : c[p] = b[j]
  BY <1>1, <1>2 DEF Rest, Useless
<1>4. Plain(c)
  BY <1>3 DEF Plain
<1>5. Keeps(b, c)
  BY <1>3, <1>4 DEF Keeps
<1> QED BY <1>5 DEF c

-----------------------------------------------------------------------------
(* Dead stores *)

\* A store to p among the first i instructions that the block overwrites
\* later, with nothing between that could see the slot.
Pending(b, p, i) ==
  \E j \in 1 .. i, l \in i + 1 .. Len(b) :
    /\ b[j].op = "store" /\ b[l].op = "store" /\ b[j].imm = p /\ b[l].imm = p
    /\ \A k \in j + 1 .. l - 1 :
         b[k].op \notin Calls \cup Branches \cup {"ret"} /\ ~(b[k].op = "load" /\ b[k].imm = p)

\* s is r, but for the slots whose store is pending.
DeadSim(b, i, s, r) ==
  /\ s.regs = r.regs /\ s.trace = r.trace /\ s.end = r.end /\ s.input = r.input
  /\ DOMAIN s.mem = DOMAIN r.mem
  /\ r.end = Going => \A p \in DOMAIN r.mem : s.mem[p] = r.mem[p] \/ Pending(b, p, i)
  /\ r.end # Going /\ r.end[1] # "trap" => s.mem = r.mem

LEMMA PendingStep ==
  ASSUME NEW b, Len(b) \in Nat, NEW i \in 1 .. Len(b), NEW p, Pending(b, p, i - 1)
  PROVE  /\ b[i].op \notin Calls \cup Branches \cup {"ret"} /\ ~(b[i].op = "load" /\ b[i].imm = p)
         /\ Pending(b, p, i) \/ (b[i].op = "store" /\ b[i].imm = p)
<1>1. PICK j \in 1 .. i - 1, l \in (i - 1) + 1 .. Len(b) :
        /\ b[j].op = "store" /\ b[l].op = "store" /\ b[j].imm = p /\ b[l].imm = p
        /\ \A k \in j + 1 .. l - 1 :
             b[k].op \notin Calls \cup Branches \cup {"ret"} /\ ~(b[k].op = "load" /\ b[k].imm = p)
  BY DEF Pending
<1>2. CASE l = i
  BY <1>1, <1>2 DEF Calls, Branches
<1>3. CASE l # i
  <2>1. j \in 1 .. i /\ l \in i + 1 .. Len(b) /\ i \in j + 1 .. l - 1
    BY <1>3
  <2>2. Pending(b, p, i)
    BY <1>1, <2>1 DEF Pending
  <2> QED BY <1>1, <2>1, <2>2
<1> QED BY <1>2, <1>3

\* A removed store: its slot is pending from now on.
LEMMA DeadStoreSkipped ==
  ASSUME NEW b, Formed(b), NEW i \in 1 .. Len(b), i \in Overwritten(b), NEW s, NEW r,
         DeadSim(b, i - 1, s, r), r.end = Going
  PROVE  DeadSim(b, i, s, After(r, b[i]))
<1>1. Len(b) \in Nat
  BY DEF Formed
<1>2. b[i].op = "store" /\ Pending(b, b[i].imm, i)
  BY <1>1 DEF Overwritten, Pending
<1>3. "store" \notin Binary \cup Calls \cup {"ret", "br", "br_cond"} /\ "store" \in NoDest
  BY DEF Binary, Arithmetic, Compare, Bitops, Shifts, UShift, Checked, UCompare, Calls, NoDest
<1>4. Ending(r, b[i]) = Going
  BY <1>2, <1>3 DEF Ending, Trapped
<1> DEFINE q == After(r, b[i])
<1>5. /\ q.regs = r.regs /\ q.trace = r.trace /\ q.end = Going /\ q.input = r.input
      /\ q.mem = [r.mem EXCEPT ![b[i].imm] = Operand(r, b[i], 1)]
  BY <1>2, <1>3, <1>4 DEF After
<1> HIDE DEF q
<1>6. ASSUME NEW p \in DOMAIN q.mem PROVE s.mem[p] = q.mem[p] \/ Pending(b, p, i)
  <2>1. CASE p = b[i].imm
    BY <1>2, <2>1
  <2>2. CASE p # b[i].imm
    <3>1. p \in DOMAIN r.mem /\ q.mem[p] = r.mem[p]
      BY <1>5, <2>2
    <3>2. s.mem[p] = r.mem[p] \/ Pending(b, p, i - 1)
      BY <3>1 DEF DeadSim
    <3> QED BY <1>1, <2>2, <3>1, <3>2, PendingStep
  <2> QED BY <2>1, <2>2
<1>7. DeadSim(b, i, s, q)
  BY <1>5, <1>6 DEF DeadSim
<1> QED BY <1>7 DEF q

\* Any other instruction does the same in both runs.
LEMMA DeadStoreKept ==
  ASSUME NEW b, Formed(b), NEW i \in 1 .. Len(b), NEW s, NEW r, IsRun(s), IsRun(r),
         DeadSim(b, i - 1, s, r), r.end = Going, b[i].op = "load" => b[i].imm \in DOMAIN r.mem
  PROVE  DeadSim(b, i, After(s, b[i]), After(r, b[i]))
<1> DEFINE x == b[i]
           t == After(s, x)
           q == After(r, x)
<1>1. Len(b) \in Nat /\ x \in Insts
  BY DEF Formed
<1>2. /\ s.regs = r.regs /\ s.trace = r.trace /\ s.end = r.end /\ s.input = r.input
      /\ DOMAIN s.mem = DOMAIN r.mem
      /\ \A p \in DOMAIN r.mem : s.mem[p] = r.mem[p] \/ Pending(b, p, i - 1)
  BY DEF DeadSim
<1>3. Operand(s, x, 1) = Operand(r, x, 1) /\ Operand(s, x, 2) = Operand(r, x, 2)
  BY <1>2 DEF Operand
<1>4. Trapped(s, x) = Trapped(r, x) /\ Ending(s, x) = Ending(r, x)
  BY <1>3 DEF Trapped, Ending
<1>5. x.op = "load" => s.mem[x.imm] = r.mem[x.imm]
  BY <1>1, <1>2, PendingStep
<1>6. Value(s, x) = Value(r, x)
  BY <1>2, <1>3, <1>5 DEF Value
<1>7. t.regs = q.regs /\ t.trace = q.trace /\ t.end = q.end /\ t.input = q.input
  BY <1>2, <1>3, <1>4, <1>6 DEF After
<1>8. /\ t.mem = IF x.op = "store" THEN [s.mem EXCEPT ![x.imm] = Operand(r, x, 1)] ELSE s.mem
      /\ q.mem = IF x.op = "store" THEN [r.mem EXCEPT ![x.imm] = Operand(r, x, 1)] ELSE r.mem
      /\ q.end = Ending(r, x)
  BY <1>3 DEF After
<1> HIDE DEF t, q
<1>9. DOMAIN t.mem = DOMAIN q.mem
  BY <1>2, <1>8
<1>10. ASSUME NEW p \in DOMAIN q.mem PROVE t.mem[p] = q.mem[p] \/ Pending(b, p, i)
  <2>1. p \in DOMAIN r.mem /\ p \in DOMAIN s.mem
    BY <1>2, <1>8
  <2>2. CASE x.op = "store" /\ x.imm = p
    BY <1>8, <2>1, <2>2
  <2>3. CASE ~(x.op = "store" /\ x.imm = p)
    <3>1. t.mem[p] = s.mem[p] /\ q.mem[p] = r.mem[p]
      BY <1>8, <2>1, <2>3
    <3>2. s.mem[p] = r.mem[p] \/ Pending(b, p, i - 1)
      BY <1>2, <2>1
    <3>3. Pending(b, p, i - 1) => Pending(b, p, i)
      BY <1>1, <2>3, PendingStep
    <3> QED BY <3>1, <3>2, <3>3
  <2> QED BY <2>2, <2>3
<1>11. ASSUME q.end # Going, q.end[1] # "trap" PROVE t.mem = q.mem
  <2>1. x.op \in Branches \cup {"ret"}
    BY <1>8, <1>11 DEF Ending, Branches
  <2>2. x.op # "store"
    BY <2>1 DEF Branches
  <2>3. \A p \in DOMAIN r.mem : s.mem[p] = r.mem[p]
    BY <1>1, <1>2, <2>1, PendingStep
  <2>4. s.mem = r.mem
    BY <1>2, <2>3 DEF IsRun
  <2> QED BY <1>8, <2>2, <2>4
<1>12. DeadSim(b, i, t, q)
  BY <1>7, <1>9, <1>10, <1>11 DEF DeadSim
<1> QED BY <1>12 DEF t, q

LEMMA OverwrittenUseless ==
  ASSUME NEW b, Formed(b), Terminated(b)
  PROVE  Useless(b, Overwritten(b))
<1>1. Len(b) \in Nat /\ Len(b) > 0 /\ b[Len(b)].op # "store"
  BY DEF Formed, Terminated, Terminators, Branches
<1>2. Len(b) \notin Overwritten(b)
  BY <1>1 DEF Overwritten
<1>3. ASSUME NEW j \in (1 .. Len(b)) \cap Overwritten(b), NEW i \in 1 .. Len(b),
             NEW a \in 1 .. Len(b[i].args)
      PROVE  b[i].args[a] # b[j].dest
  <2>1. b[j] \in Insts /\ b[j].op = "store"
    BY DEF Formed, Overwritten
  <2>2. b[j].dest = 0
    BY <2>1 DEF Insts, NoDest
  <2>3. b[i].args[a] # 0
    BY DEF Formed, Defs
  <2> QED BY <2>2, <2>3
<1> QED BY <1>2, <1>3 DEF Useless

\* Without its dead stores a block leaves the same registers, makes the same
\* calls and ends the same way; unless it traps, it leaves the same slots.
LEMMA DeadStoreKeeps ==
  ASSUME NEW b, Formed(b), Plain(b), Terminated(b)
  PROVE  /\ Keeps(b, DeadStorePass(b))
         /\ \A input, mem : mem = [p \in DOMAIN mem |-> mem[p]] /\ SlotsIn(b, mem) =>
              LET s == Run(DeadStorePass(b), input, mem)
                  r == Run(b, input, mem)
              IN  /\ s.regs = r.regs /\ s.trace = r.trace /\ s.end = r.end
                  /\ r.end[1] # "trap" => s.mem = r.mem
<1> DEFINE W(i) == Without(b, Overwritten(b))[i]
<1>1. Useless(b, Overwritten(b)) /\ Len(b) \in Nat
  BY OverwrittenUseless DEF Formed
<1>2. Keeps(b, DeadStorePass(b))
  BY <1>1, WithoutKeeps DEF DeadStorePass
<1>3. ASSUME NEW input, NEW mem, mem = [p \in DOMAIN mem |-> mem[p]], SlotsIn(b, mem)
      PROVE  LET s == Run(DeadStorePass(b), input, mem)
                 r == Run(b, input, mem)
             IN  /\ s.regs = r.regs /\ s.trace = r.trace /\ s.end = r.end
                 /\ r.end[1] # "trap" => s.mem = r.mem
  <2> DEFINE R(i) == Runs(b, input, mem)[i]
             S(i) == Run(W(i), input, mem)
             G == {i \in 0 .. Len(b) : DeadSim(b, i, S(i), R(i))}
  <2>1. /\ \A i \in 0 .. Len(b) : Sound(b, i, R(i), input, mem)
        /\ R(0) = Start(input, mem)
        /\ \A i \in 1 .. Len(b) : R(i) = IF R(i - 1).end = Going THEN After(R(i - 1), b[i]) ELSE R(i - 1)
    BY <1>1, <1>3, RunsSound, RunsFirst
  <2>2. /\ S(0) = Start(input, mem)
        /\ \A i \in 1 .. Len(b) : S(i) = IF i \in Overwritten(b) THEN S(i - 1)
                                        ELSE ExecInst(S(i - 1), b[i])
    <3> DEFINE gone == Overwritten(b)
    <3> HIDE DEF gone
    <3>1. Useless(b, gone)
      BY <1>1 DEF gone
    <3>2. /\ Run(Without(b, gone)[0], input, mem) = Start(input, mem)
          /\ \A i \in 1 .. Len(b) :
               Run(Without(b, gone)[i], input, mem) =
                 IF i \in gone THEN Run(Without(b, gone)[i - 1], input, mem)
                 ELSE ExecInst(Run(Without(b, gone)[i - 1], input, mem), b[i])
      BY <3>1, WithoutRuns
    <3> QED BY <3>2 DEF gone
  <2>3. \A i \in 0 .. Len(b) : IsRun(S(i))
    <3> SUFFICES ASSUME NEW i \in 0 .. Len(b) PROVE IsRun(S(i))
      OBVIOUS
    <3>1. Formed(W(i))
      BY <1>1, WithoutRest DEF Rest
    <3> HIDE DEF W
    <3>2. Len(W(i)) \in 0 .. Len(W(i))
      BY <3>1 DEF Formed
    <3> QED BY <1>3, <3>1, <3>2, RunsSound DEF Run, Sound
  <2> HIDE DEF R, S
  <2>4. 0 \in G
    <3>1. DeadSim(b, 0, Start(input, mem), Start(input, mem))
      BY DEF DeadSim, Start
    <3> QED BY <1>1, <2>1, <2>2, <3>1
  <2>5. ASSUME NEW i \in 0 .. Len(b) - 1, i \in G PROVE i + 1 \in G
    <3>1. i + 1 \in 1 .. Len(b) /\ (i + 1) - 1 = i /\ i \in 0 .. Len(b)
      BY <1>1
    <3>2. /\ DeadSim(b, i, S(i), R(i)) /\ IsRun(S(i)) /\ Sound(b, i, R(i), input, mem)
          /\ S(i + 1) = IF i + 1 \in Overwritten(b) THEN S(i) ELSE ExecInst(S(i), b[i + 1])
          /\ R(i + 1) = IF R(i).end = Going THEN After(R(i), b[i + 1]) ELSE R(i)
      BY <2>1, <2>2, <2>3, <2>5, <3>1
    <3>3. CASE R(i).end = Going /\ i + 1 \in Overwritten(b)
      <4>1. DeadSim(b, i + 1, S(i), After(R(i), b[i + 1]))
        BY <3>1, <3>2, <3>3, DeadStoreSkipped
      <4> QED BY <3>1, <3>2, <3>3, <4>1
    <3>4. CASE R(i).end = Going /\ i + 1 \notin Overwritten(b)
      <4>1. /\ b[i + 1] \in Insts /\ DOMAIN R(i).mem = DOMAIN mem /\ IsRun(R(i))
            /\ b[i + 1].op = "load" => b[i + 1].imm \in DOMAIN R(i).mem
        BY <1>3, <3>1, <3>2 DEF Formed, Sound, SlotsIn
      <4>2. ~Unread(R(i), b[i + 1])
        BY <3>1, <3>2, <3>4, SoundStep
      <4>3. ~Unread(S(i), b[i + 1]) /\ S(i).end = Going
        BY <3>2, <3>4, <4>2 DEF Unread, DeadSim
      <4>4. S(i + 1) = After(S(i), b[i + 1])
        BY <3>2, <3>4, <4>1, <4>3, ExecIsAfter
      <4>5. DeadSim(b, i + 1, After(S(i), b[i + 1]), After(R(i), b[i + 1]))
        BY <3>1, <3>2, <3>4, <4>1, DeadStoreKept
      <4> QED BY <3>1, <3>2, <3>4, <4>4, <4>5
    <3>5. CASE R(i).end # Going
      <4>1. S(i).end # Going
        BY <3>2, <3>5 DEF DeadSim
      <4>2. S(i + 1) = S(i)
        BY <3>2, <4>1, ExecEnded
      <4>3. DeadSim(b, i + 1, S(i), R(i))
        BY <3>2, <3>5 DEF DeadSim
      <4> QED BY <3>1, <3>2, <3>5, <4>2, <4>3
    <3> QED BY <3>3, <3>4, <3>5
  <2>6. Len(b) \in G
    <3> HIDE DEF G
    <3>1. \A i \in 0 .. Len(b) : i \in G
      BY <1>1, <2>4, <2>5, UpTo
    <3> QED BY <1>1, <3>1
  <2>7. R(Len(b)) = Run(b, input, mem) /\ S(Len(b)) = Run(DeadStorePass(b), input, mem)
    BY DEF R, S, Run, DeadStorePass
  <2>8. DeadSim(b, Len(b), S(Len(b)), R(Len(b))) /\ IsRun(S(Len(b))) /\ IsRun(R(Len(b)))
    BY <1>1, <2>1, <2>3, <2>6 DEF Sound
  <2>9. ASSUME R(Len(b)).end = Going PROVE S(Len(b)).mem = R(Len(b)).mem
    <3>1. \A p : ~Pending(b, p, Len(b))
      BY <1>1 DEF Pending
    <3> QED BY <2>8, <2>9, <3>1 DEF DeadSim, IsRun
  <2> QED BY <2>7, <2>8, <2>9 DEF DeadSim
<1> QED BY <1>2, <1>3

-----------------------------------------------------------------------------
(* Common subexpressions *)

\* A register keeps its value as long as the run goes on.
LEMMA RegistersKept ==
  ASSUME NEW b, Formed(b), NEW input, NEW mem, mem = [p \in DOMAIN mem |-> mem[p]],
         NEW k \in 1 .. Len(b), b[k].op \notin NoDest,
         NEW j \in k .. Len(b), Runs(b, input, mem)[j].end = Going
  PROVE  /\ Runs(b, input, mem)[k - 1].end = Going
         /\ b[k].dest \in DOMAIN Runs(b, input, mem)[j].regs
         /\ Runs(b, input, mem)[j].regs[b[k].dest] = Value(Runs(b, input, mem)[k - 1], b[k])
<1> DEFINE R(i) == Runs(b, input, mem)[i]
           v == Value(R(k - 1), b[k])
           Kept(i) == /\ R(k - 1).end = Going /\ b[k].dest \in DOMAIN R(i).regs
                      /\ R(i).regs[b[k].dest] = v
           T == {i \in 0 .. Len(b) : i >= k /\ R(i).end = Going => Kept(i)}
<1>1. /\ Len(b) \in Nat /\ k \in 1 .. Len(b)
      /\ \A i \in 0 .. Len(b) : Sound(b, i, R(i), input, mem)
      /\ \A i \in 1 .. Len(b) : R(i) = IF R(i - 1).end = Going THEN After(R(i - 1), b[i]) ELSE R(i - 1)
  <2>1. Len(b) \in Nat
    BY DEF Formed
  <2> QED BY <2>1, RunsSound
<1> HIDE DEF R, v
<1>2. 0 \in T
  BY <1>1
<1>3. ASSUME NEW i \in 0 .. Len(b) - 1, i \in T PROVE i + 1 \in T
  <2>1. i + 1 \in 1 .. Len(b) /\ (i + 1) - 1 = i
    BY <1>1
  <2> SUFFICES ASSUME i + 1 >= k, R(i + 1).end = Going PROVE Kept(i + 1)
    BY <2>1
  <2>2. R(i).end = Going /\ R(i + 1) = After(R(i), b[i + 1])
    BY <1>1, <2>1
  <2>3. b[i + 1].op \notin NoDest =>
          R(i + 1).regs = With(R(i).regs, b[i + 1].dest, Value(R(i), b[i + 1]))
    BY <2>2 DEF After, Ending, Going
  <2>4. b[i + 1].op \in NoDest => R(i + 1).regs = R(i).regs
    BY <2>2 DEF After
  <2>5. CASE i + 1 = k
    BY <1>1, <2>2, <2>3, <2>5 DEF With, v
  <2>6. CASE i + 1 # k
    <3>1. Kept(i) /\ i \in k .. Len(b)
      BY <1>1, <1>3, <2>1, <2>2, <2>6
    <3>2. b[k].dest # b[i + 1].dest
      <4>1. b[k].dest \in Defs(b, i)
        <5>1. b[k].dest # 0
          BY <1>1 DEF Formed, Insts
        <5> QED BY <3>1, <5>1 DEF Defs
      <4> QED BY <2>1, <4>1 DEF Formed
    <3> QED BY <2>3, <2>4, <3>1, <3>2 DEF With
  <2> QED BY <2>5, <2>6
<1>4. \A i \in 0 .. Len(b) : i \in T
  <2> HIDE DEF T
  <2> QED BY <1>1, <1>2, <1>3, UpTo
<1>5. Kept(j)
  BY <1>1, <1>4 DEF R
<1> QED BY <1>5 DEF R, v

\* A constant or an operation depends on its operands alone: computed twice, it
\* gives the same value.
LEMMA SameExpression ==
  ASSUME NEW b, Formed(b), NEW input, NEW mem, mem = [p \in DOMAIN mem |-> mem[p]],
         NEW k \in 1 .. Len(b), NEW i \in 1 .. Len(b), k < i,
         b[i].op \in Shared, Expression(b[k]) = Expression(b[i]),
         NEW j \in i .. Len(b), Runs(b, input, mem)[j].end = Going
  PROVE  Runs(b, input, mem)[j].regs[b[i].dest] = Runs(b, input, mem)[j].regs[b[k].dest]
<1> DEFINE R(n) == Runs(b, input, mem)[n]
<1>1. /\ Len(b) \in Nat /\ b[k] \in Insts /\ b[i] \in Insts
      /\ b[k].op = b[i].op /\ b[k].args = b[i].args /\ b[k].imm = b[i].imm
  BY DEF Formed, Expression
<1>2. /\ b[i].op \notin NoDest \cup Calls \cup {"param", "load"}
      /\ b[i].op = "const" \/ b[i].op \in Binary
  BY DEF Shared, NoDest, Terminators, Branches, Calls, Binary, Arithmetic, Compare, Bitops
<1>3. /\ R(k - 1).end = Going /\ R(j).regs[b[k].dest] = Value(R(k - 1), b[k])
      /\ R(i - 1).end = Going /\ R(j).regs[b[i].dest] = Value(R(i - 1), b[i])
  <2>1. j \in k .. Len(b) /\ b[k].op \notin NoDest
    BY <1>1, <1>2
  <2>2. R(k - 1).end = Going /\ R(j).regs[b[k].dest] = Value(R(k - 1), b[k])
    BY <2>1, RegistersKept
  <2>3. R(i - 1).end = Going /\ R(j).regs[b[i].dest] = Value(R(i - 1), b[i])
    BY <1>2, RegistersKept
  <2> QED BY <2>2, <2>3
<1>4. ASSUME NEW a \in 1 .. Len(b[k].args) PROVE Operand(R(k - 1), b[k], a) = Operand(R(i - 1), b[i], a)
  <2>0. b[k].args[a] \in Defs(b, k - 1)
    BY DEF Formed
  <2>1. PICK m \in 1 .. k - 1 : b[m].dest = b[k].args[a]
    BY <2>0 DEF Defs
  <2>2. b[m].dest # 0 /\ m \in 1 .. Len(b)
    BY <1>1, <2>0, <2>1 DEF Defs
  <2>3. b[m].op \notin NoDest
    <3>1. b[m] \in Insts
      BY <2>2 DEF Formed
    <3> QED BY <2>2, <3>1 DEF Insts
  <2>4. k - 1 \in m .. Len(b) /\ i - 1 \in m .. Len(b)
    BY <1>1, <2>1
  <2>5. R(k - 1).regs[b[m].dest] = Value(R(m - 1), b[m])
    BY <1>3, <2>2, <2>3, <2>4, RegistersKept
  <2>6. R(i - 1).regs[b[m].dest] = Value(R(m - 1), b[m])
    BY <1>3, <2>2, <2>3, <2>4, RegistersKept
  <2> HIDE DEF R
  <2> QED BY <1>1, <2>1, <2>5, <2>6 DEF Operand
<1>5. Value(R(k - 1), b[k]) = Value(R(i - 1), b[i])
  <2> HIDE DEF R
  <2>1. CASE b[i].op = "const"
    BY <1>1, <1>2, <2>1 DEF Value
  <2>2. CASE b[i].op \in Binary
    <3>1. Len(b[k].args) = 2
      BY <1>1, <2>2 DEF Insts
    <3>2. /\ Operand(R(k - 1), b[k], 1) = Operand(R(i - 1), b[i], 1)
          /\ Operand(R(k - 1), b[k], 2) = Operand(R(i - 1), b[i], 2)
      BY <1>4, <3>1
    <3>3. b[i].op # "const"
      BY <2>2 DEF Binary, Arithmetic, Compare, Bitops, Shifts, UShift, Checked, UCompare
    <3> QED BY <1>1, <1>2, <3>2, <3>3 DEF Value
  <2> QED BY <1>2, <2>1, <2>2
<1> QED BY <1>3, <1>5

\* Instructions that differ in where they read the same operands.
LEMMA SameOperands ==
  ASSUME NEW r, NEW x \in Insts, NEW y \in Insts, x.op = y.op, x.dest = y.dest, x.imm = y.imm,
         Len(x.args) = Len(y.args), \A a \in 1 .. Len(x.args) : Operand(r, x, a) = Operand(r, y, a)
  PROVE  After(r, x) = After(r, y)
<1>1. CASE x.op \in Binary
  <2>0. Len(x.args) = 2
    BY <1>1 DEF Insts
  <2>1. Operand(r, x, 1) = Operand(r, y, 1) /\ Operand(r, x, 2) = Operand(r, y, 2)
    BY <2>0
  <2>2. Trapped(r, x) = Trapped(r, y) /\ Value(r, x) = Value(r, y) /\ Ending(r, x) = Ending(r, y)
    BY <2>1 DEF Trapped, Value, Ending
  <2> QED BY <2>1, <2>2 DEF After
<1>2. CASE x.op \in Unary
  <2>1. Operand(r, x, 1) = Operand(r, y, 1)
    BY <1>2 DEF Insts
  <2>2. x.op \in Calls \cup NoDest /\ x.op \notin Binary
    BY <1>2 DEF Unary, NoDest, Terminators, Branches, Calls, Binary, Arithmetic, Compare, Bitops,
                Shifts, UShift, Checked, UCompare
  <2>3. ~Trapped(r, x) /\ ~Trapped(r, y) /\ Ending(r, x) = Ending(r, y)
    BY <2>1, <2>2 DEF Trapped, Ending
  <2>4. x.op \notin NoDest => Value(r, x) = Value(r, y)
    BY <2>2 DEF Value, Calls
  <2> QED BY <2>1, <2>3, <2>4 DEF After
<1>3. CASE x.op \in Leaves
  <2>1. x.op \notin Binary \cup Calls \cup {"store", "ret", "br_cond"}
    BY <1>3 DEF Leaves, Calls, Binary, Arithmetic, Compare, Bitops, Shifts, UShift, Checked, UCompare
  <2>2. ~Trapped(r, x) /\ ~Trapped(r, y) /\ Ending(r, x) = Ending(r, y)
    BY <2>1 DEF Trapped, Ending
  <2>3. x.op \notin NoDest => Value(r, x) = Value(r, y)
    BY <1>3 DEF Value, Leaves, NoDest, Terminators, Branches
  <2> QED BY <2>1, <2>2, <2>3 DEF After
<1> QED BY <1>1, <1>2, <1>3 DEF Insts, Operations

\* Blocks that differ in the registers they read only, and run the same.
Alike(b, c) ==
  /\ Formed(c) /\ Len(c) = Len(b)
  /\ \A j \in 1 .. Len(b) : c[j].op = b[j].op /\ c[j].dest = b[j].dest /\ c[j].imm = b[j].imm
  /\ \A input, mem : mem = [p \in DOMAIN mem |-> mem[p]] =>
       \A j \in 0 .. Len(b) : Runs(c, input, mem)[j] = Runs(b, input, mem)[j]

LEMMA RewriteShape ==
  ASSUME NEW b, Formed(b), NEW k \in 1 .. Len(b), NEW i \in 1 .. Len(b), k < i,
         b[k].op \in Shared, b[i].op \in Shared
  PROVE  LET c == RewriteUses(b, i, b[i].dest, b[k].dest)
         IN  /\ Formed(c) /\ Len(c) = Len(b) /\ \A j \in 1 .. i : c[j] = b[j]
             /\ \A j \in 1 .. Len(b) :
                  /\ c[j].op = b[j].op /\ c[j].dest = b[j].dest /\ c[j].imm = b[j].imm
                  /\ Len(c[j].args) = Len(b[j].args)
                  /\ \A a \in 1 .. Len(b[j].args) :
                       \/ c[j].args[a] = b[j].args[a]
                       \/ i < j /\ b[j].args[a] = b[i].dest /\ c[j].args[a] = b[k].dest
<1> DEFINE d == b[i].dest
           e == b[k].dest
           c == RewriteUses(b, i, d, e)
<1>1. Len(b) \in Nat /\ DOMAIN b = 1 .. Len(b) /\ \A j \in 1 .. Len(b) : b[j] \in Insts
  BY DEF Formed
<1>2. e \in Nat \ {0}
  <2>1. b[k] \in Insts /\ b[k].op \notin NoDest
    BY <1>1 DEF Shared, Arithmetic, Compare, Bitops, NoDest, Terminators, Branches
  <2> QED BY <2>1 DEF Insts
<1> HIDE DEF d, e
<1>3. ASSUME NEW j \in 1 .. Len(b)
      PROVE  /\ c[j] \in Insts
             /\ c[j].op = b[j].op /\ c[j].dest = b[j].dest /\ c[j].imm = b[j].imm
             /\ Len(c[j].args) = Len(b[j].args) /\ (j <= i => c[j] = b[j])
             /\ \A a \in 1 .. Len(b[j].args) :
                  \/ c[j].args[a] = b[j].args[a]
                  \/ i < j /\ b[j].args[a] = d /\ c[j].args[a] = e
  <2>1. b[j] \in Insts
    BY <1>1
  <2>2. CASE c[j] = b[j]
    BY <2>1, <2>2
  <2>3. CASE j > i /\ c[j] = [b[j] EXCEPT !.args = [n \in DOMAIN @ |-> IF @[n] = d THEN e ELSE @[n]]]
    <3> DEFINE n == Len(b[j].args)
               new == [a \in 1 .. n |-> IF b[j].args[a] = d THEN e ELSE b[j].args[a]]
    <3>1. /\ b[j] \in [op : Operations, dest : Nat, args : Seq(Nat \ {0}), imm : Int \cup Slots]
          /\ b[j].args \in Seq(Nat \ {0}) /\ n \in Nat /\ DOMAIN b[j].args = 1 .. n
      BY <2>1 DEF Insts
    <3>2. new \in Seq(Nat \ {0}) /\ Len(new) = n
      <4>1. \A a \in 1 .. n : new[a] \in Nat \ {0}
        BY <1>2, <3>1
      <4>2. new = [a \in 1 .. n |-> new[a]]
        OBVIOUS
      <4> HIDE DEF new, n
      <4>3. new \in [1 .. n -> Nat \ {0}]
        BY <4>1, <4>2
      <4>4. n \in Nat
        BY <3>1 DEF n
      <4>5. new \in Seq(Nat \ {0}) /\ DOMAIN new = 1 .. n
        BY <4>3, <4>4, SeqDef
      <4>6. Len(new) \in Nat /\ 1 .. Len(new) = 1 .. n
        BY <4>5, LenProperties
      <4> QED BY <4>4, <4>5, <4>6
    <3>3. c[j] = [b[j] EXCEPT !.args = new]
      BY <2>3, <3>1
    <3> HIDE DEF new
    <3>4. /\ c[j].args = new /\ c[j].op = b[j].op /\ c[j].dest = b[j].dest /\ c[j].imm = b[j].imm
          /\ c[j] \in [op : Operations, dest : Nat, args : Seq(Nat \ {0}), imm : Int \cup Slots]
      BY <3>1, <3>2, <3>3
    <3>5. c[j] \in Insts
      BY <2>1, <3>2, <3>4 DEF Insts
    <3>6. \A a \in 1 .. n : c[j].args[a] = b[j].args[a] \/ (b[j].args[a] = d /\ c[j].args[a] = e)
      BY <3>4 DEF new
    <3> QED BY <2>3, <3>2, <3>4, <3>5, <3>6
  <2>4. c[j] = b[j] \/ (j > i /\ c[j] = [b[j] EXCEPT !.args = [n \in DOMAIN @ |-> IF @[n] = d THEN e ELSE @[n]]])
    BY <1>1 DEF RewriteUses
  <2> QED BY <2>2, <2>3, <2>4
<1>4. c \in Seq(Insts) /\ Len(c) = Len(b)
  <2>1. c = [j \in 1 .. Len(b) |-> c[j]]
    BY <1>1 DEF RewriteUses
  <2> HIDE DEF c
  <2> QED BY <1>1, <1>3, <2>1, IsASeq
<1> HIDE DEF c
<1>5. \A j \in 0 .. Len(b) : Defs(c, j) = Defs(b, j)
  <2> SUFFICES ASSUME NEW j \in 0 .. Len(b) PROVE Defs(c, j) = Defs(b, j)
    OBVIOUS
  <2>1. \A n \in 1 .. j : c[n].dest = b[n].dest
    BY <1>1, <1>3
  <2> QED BY <2>1 DEF Defs
<1>6. Formed(c)
  <2>1. ASSUME NEW j \in 1 .. Len(b)
        PROVE  /\ c[j].dest \notin Defs(c, j - 1)
               /\ \A a \in 1 .. Len(c[j].args) : c[j].args[a] \in Defs(c, j - 1)
    <3>1. /\ b[j].dest \notin Defs(b, j - 1) /\ Defs(c, j - 1) = Defs(b, j - 1)
          /\ \A a \in 1 .. Len(b[j].args) : b[j].args[a] \in Defs(b, j - 1)
      BY <1>1, <1>5 DEF Formed
    <3>2. i < j => e \in Defs(b, j - 1)
      BY <1>1, <1>2 DEF Defs, e
    <3> QED BY <1>3, <3>1, <3>2
  <2> QED BY <1>4, <2>1 DEF Formed
<1>7. \A j \in 1 .. i : c[j] = b[j]
  BY <1>1, <1>3
<1> QED BY <1>3, <1>4, <1>6, <1>7 DEF c, d, e

LEMMA RewriteAlike ==
  ASSUME NEW b, Formed(b), NEW k \in 1 .. Len(b), NEW i \in 1 .. Len(b), k < i,
         b[i].op \in Shared, Expression(b[k]) = Expression(b[i])
  PROVE  Alike(b, RewriteUses(b, i, b[i].dest, b[k].dest))
<1> DEFINE c == RewriteUses(b, i, b[i].dest, b[k].dest)
<1>1. b[k].op \in Shared
  BY DEF Expression
<1>2. /\ Formed(c) /\ Len(c) = Len(b)
      /\ \A j \in 1 .. Len(b) :
           /\ c[j].op = b[j].op /\ c[j].dest = b[j].dest /\ c[j].imm = b[j].imm
           /\ Len(c[j].args) = Len(b[j].args)
           /\ \A a \in 1 .. Len(b[j].args) :
                \/ c[j].args[a] = b[j].args[a]
                \/ i < j /\ b[j].args[a] = b[i].dest /\ c[j].args[a] = b[k].dest
  BY <1>1, RewriteShape
<1> HIDE DEF c
<1>3. ASSUME NEW input, NEW mem, mem = [p \in DOMAIN mem |-> mem[p]]
      PROVE  \A j \in 0 .. Len(b) : Runs(c, input, mem)[j] = Runs(b, input, mem)[j]
  <2> DEFINE R(j) == Runs(b, input, mem)[j]
             S(j) == Runs(c, input, mem)[j]
             T == {j \in 0 .. Len(b) : S(j) = R(j)}
  <2>1. Len(b) \in Nat
    BY DEF Formed
  <2>2. /\ R(0) = Start(input, mem) /\ S(0) = Start(input, mem)
        /\ \A j \in 1 .. Len(b) : R(j) = IF R(j - 1).end = Going THEN After(R(j - 1), b[j]) ELSE R(j - 1)
        /\ \A j \in 1 .. Len(b) : S(j) = IF S(j - 1).end = Going THEN After(S(j - 1), c[j]) ELSE S(j - 1)
    BY <1>2, <1>3, <2>1, RunsSound, RunsFirst
  <2>3. 0 \in T
    BY <2>1, <2>2
  <2>4. ASSUME NEW j \in 0 .. Len(b) - 1, j \in T PROVE j + 1 \in T
    <3>1. j + 1 \in 1 .. Len(b) /\ (j + 1) - 1 = j /\ S(j) = R(j)
      BY <2>1, <2>4
    <3>2. CASE R(j).end # Going
      BY <2>2, <3>1, <3>2
    <3>3. CASE R(j).end = Going
      <4>1. i <= j => R(j).regs[b[i].dest] = R(j).regs[b[k].dest]
        <5> SUFFICES ASSUME i <= j PROVE R(j).regs[b[i].dest] = R(j).regs[b[k].dest]
          OBVIOUS
        <5>1. j \in i .. Len(b)
          BY <2>1
        <5>2. Runs(b, input, mem)[j].end = Going
          BY <3>3
        <5> HIDE DEF R, S
        <5>3. Runs(b, input, mem)[j].regs[b[i].dest] = Runs(b, input, mem)[j].regs[b[k].dest]
          BY <1>3, <5>1, <5>2, SameExpression
        <5> QED BY <5>3 DEF R
      <4>2. b[j + 1] \in Insts /\ c[j + 1] \in Insts
        BY <1>2, <3>1 DEF Formed
      <4> HIDE DEF R, S
      <4>3. ASSUME NEW a \in 1 .. Len(c[j + 1].args)
            PROVE  Operand(R(j), c[j + 1], a) = Operand(R(j), b[j + 1], a)
        <5> DEFINE x == c[j + 1]
                   y == b[j + 1]
        <5>1. \/ x.args[a] = y.args[a]
              \/ i < j + 1 /\ y.args[a] = b[i].dest /\ x.args[a] = b[k].dest
          BY <1>2, <3>1
        <5> HIDE DEF x, y
        <5>2. CASE x.args[a] = y.args[a]
          BY <5>2 DEF Operand, x, y
        <5>3. CASE i < j + 1 /\ y.args[a] = b[i].dest /\ x.args[a] = b[k].dest
          <6>1. i <= j
            BY <2>1, <5>3
          <6> QED BY <4>1, <5>3, <6>1 DEF Operand, x, y
        <5> QED BY <5>1, <5>2, <5>3
      <4>4. After(R(j), c[j + 1]) = After(R(j), b[j + 1])
        BY <1>2, <3>1, <4>2, <4>3, SameOperands
      <4>5. S(j + 1) = IF S(j).end = Going THEN After(S(j), c[j + 1]) ELSE S(j)
        BY <2>2, <3>1
      <4>6. R(j + 1) = IF R(j).end = Going THEN After(R(j), b[j + 1]) ELSE R(j)
        BY <2>2, <3>1
      <4>7. S(j + 1) = R(j + 1)
        BY <3>1, <3>3, <4>4, <4>5, <4>6
      <4> QED BY <2>1, <3>1, <4>7
    <3> QED BY <3>2, <3>3
  <2>5. \A j \in 0 .. Len(b) : j \in T
    <3> HIDE DEF T
    <3> QED BY <2>1, <2>3, <2>4, UpTo
  <2> QED BY <2>5
<1>4. Alike(b, c)
  BY <1>2, <1>3 DEF Alike
<1> QED BY <1>4 DEF c

ShareStart(b) == [block |-> b, seen |-> <<>>]

LEMMA SharingSteps ==
  ASSUME NEW b, Len(b) \in Nat
  PROVE  /\ Sharing(b)[0] = ShareStart(b)
         /\ \A i \in 1 .. Len(b) : Sharing(b)[i] = CseInst(Sharing(b)[i - 1], i)
<1> DEFINE Ok(f, n) == f = [i \in 0 .. n |-> IF i = 0 THEN ShareStart(b) ELSE CseInst(f[i - 1], i)]
           T == {n \in 0 .. Len(b) : \E f : Ok(f, n)}
<1>1. 0 \in T
  <2>1. Ok([i \in 0 .. 0 |-> ShareStart(b)], 0)
    OBVIOUS
  <2> HIDE DEF Ok
  <2> QED BY <2>1
<1>2. ASSUME NEW n \in 0 .. Len(b) - 1, n \in T PROVE n + 1 \in T
  <2>1. PICK f : Ok(f, n)
    BY <1>2
  <2> DEFINE g == [i \in 0 .. n + 1 |-> IF i = n + 1 THEN CseInst(f[n], n + 1) ELSE f[i]]
  <2>2. Ok(g, n + 1)
    BY <2>1
  <2> HIDE DEF Ok, g
  <2> QED BY <2>2
<1> HIDE DEF Ok
<1>3. Len(b) \in T
  <2> HIDE DEF T
  <2>1. \A i \in 0 .. Len(b) : i \in T
    BY <1>1, <1>2, UpTo
  <2> QED BY <2>1
<1>4. PICK f : Ok(f, Len(b))
  BY <1>3
<1>5. Ok(Sharing(b), Len(b))
  BY <1>4 DEF Sharing, Ok, ShareStart
<1> QED BY <1>5 DEF Ok

\* What the pass has seen is computed before, into the register it noted.
ShareOk(b, i, s) ==
  /\ s = [block |-> s.block, seen |-> s.seen] /\ Alike(b, s.block)
  /\ \A expr \in DOMAIN s.seen : \E k \in 1 .. i :
       /\ s.block[k].op \in Shared /\ Expression(s.block[k]) = expr
       /\ s.seen[expr] = s.block[k].dest

LEMMA AlikeTransitive ==
  ASSUME NEW a, NEW b, NEW c, Alike(a, b), Alike(b, c)
  PROVE  Alike(a, c)
BY DEF Alike

LEMMA ShareStep ==
  ASSUME NEW b, Formed(b), NEW i \in 1 .. Len(b), NEW s, ShareOk(b, i - 1, s)
  PROVE  ShareOk(b, i, CseInst(s, i))
<1> DEFINE x == s.block[i]
           expr == Expression(x)
<1>1. /\ s = [block |-> s.block, seen |-> s.seen] /\ Alike(b, s.block) /\ Formed(s.block)
      /\ Len(s.block) = Len(b) /\ Len(b) \in Nat
  BY DEF ShareOk, Alike, Formed
<1>2. CASE x.op \notin Shared
  <2>1. CseInst(s, i) = s
    BY <1>2 DEF CseInst
  <2> QED BY <2>1 DEF ShareOk
<1>3. CASE x.op \in Shared /\ expr \in DOMAIN s.seen
  <2>1. PICK k \in 1 .. i - 1 :
          /\ s.block[k].op \in Shared /\ Expression(s.block[k]) = expr
          /\ s.seen[expr] = s.block[k].dest
    BY <1>3 DEF ShareOk
  <2> DEFINE c == RewriteUses(s.block, i, x.dest, s.block[k].dest)
  <2>2. CseInst(s, i) = [block |-> c, seen |-> s.seen]
    BY <1>1, <1>3, <2>1 DEF CseInst
  <2>3. k \in 1 .. Len(s.block) /\ i \in 1 .. Len(s.block) /\ k < i
    BY <1>1, <2>1
  <2>4. Alike(s.block, c)
    BY <1>1, <1>3, <2>1, <2>3, RewriteAlike
  <2>5. \A j \in 1 .. i : c[j] = s.block[j]
    BY <1>1, <1>3, <2>1, <2>3, RewriteShape
  <2> HIDE DEF c
  <2>6. Alike(b, c)
    BY <1>1, <2>4, AlikeTransitive
  <2>7. ASSUME NEW y \in DOMAIN s.seen
        PROVE  \E n \in 1 .. i : c[n].op \in Shared /\ Expression(c[n]) = y /\ s.seen[y] = c[n].dest
    <3>1. PICK n \in 1 .. i - 1 : /\ s.block[n].op \in Shared /\ Expression(s.block[n]) = y
                                  /\ s.seen[y] = s.block[n].dest
      BY DEF ShareOk
    <3>2. n \in 1 .. i /\ c[n] = s.block[n]
      BY <1>1, <2>5
    <3> QED BY <3>1, <3>2
  <2> QED BY <2>2, <2>6, <2>7 DEF ShareOk
<1>4. CASE x.op \in Shared /\ expr \notin DOMAIN s.seen
  <2>1. CseInst(s, i) = [block |-> s.block, seen |-> With(s.seen, expr, x.dest)]
    BY <1>1, <1>4 DEF CseInst
  <2>2. ASSUME NEW y \in DOMAIN With(s.seen, expr, x.dest)
        PROVE  \E n \in 1 .. i : /\ s.block[n].op \in Shared /\ Expression(s.block[n]) = y
                                 /\ With(s.seen, expr, x.dest)[y] = s.block[n].dest
    <3>1. CASE y = expr
      BY <1>1, <1>4, <3>1 DEF With
    <3>2. CASE y # expr
      <4>1. y \in DOMAIN s.seen /\ With(s.seen, expr, x.dest)[y] = s.seen[y]
        BY <3>2 DEF With
      <4> QED BY <1>1, <4>1 DEF ShareOk
    <3> QED BY <3>1, <3>2
  <2> QED BY <1>1, <2>1, <2>2 DEF ShareOk
<1> QED BY <1>2, <1>3, <1>4

\* Sharing common subexpressions changes nothing of a run.
LEMMA CseKeeps ==
  ASSUME NEW b, Formed(b), Plain(b), Terminated(b)
  PROVE  /\ Keeps(b, CsePass(b))
         /\ \A input, mem : mem = [p \in DOMAIN mem |-> mem[p]] =>
              Run(CsePass(b), input, mem) = Run(b, input, mem)
<1> DEFINE F(i) == Sharing(b)[i]
           T == {i \in 0 .. Len(b) : ShareOk(b, i, F(i))}
<1>1. /\ Len(b) \in Nat /\ F(0) = ShareStart(b)
      /\ \A i \in 1 .. Len(b) : F(i) = CseInst(F(i - 1), i)
  <2>1. Len(b) \in Nat
    BY DEF Formed
  <2> QED BY <2>1, SharingSteps
<1> HIDE DEF F
<1>2. 0 \in T
  <2>1. Alike(b, b)
    BY DEF Alike
  <2>2. ShareOk(b, 0, ShareStart(b))
    BY <2>1 DEF ShareOk, ShareStart
  <2> QED BY <1>1, <2>2
<1>3. ASSUME NEW i \in 0 .. Len(b) - 1, i \in T PROVE i + 1 \in T
  <2>1. i + 1 \in 1 .. Len(b) /\ (i + 1) - 1 = i
    BY <1>1
  <2>2. F(i + 1) = CseInst(F(i), i + 1) /\ ShareOk(b, i, F(i))
    BY <1>1, <1>3, <2>1
  <2>3. ShareOk(b, i + 1, F(i + 1))
    BY <2>1, <2>2, ShareStep
  <2> QED BY <2>1, <2>3
<1>4. ShareOk(b, Len(b), F(Len(b)))
  <2> HIDE DEF T
  <2>1. \A i \in 0 .. Len(b) : i \in T
    BY <1>1, <1>2, <1>3, UpTo
  <2> QED BY <1>1, <2>1 DEF T
<1>5. Alike(b, CsePass(b))
  BY <1>4 DEF F, CsePass, ShareOk
<1> DEFINE c == CsePass(b)
<1> HIDE DEF c
<1>6. /\ Formed(c) /\ Len(c) = Len(b) /\ Len(b) > 0
      /\ \A j \in 1 .. Len(b) : c[j].op = b[j].op /\ c[j].imm = b[j].imm
  BY <1>5 DEF Alike, Terminated, c
<1>7. Plain(c)
  BY <1>6 DEF Plain
<1>8. Keeps(b, c)
  BY <1>1, <1>6, <1>7 DEF Keeps
<1>9. ASSUME NEW input, NEW mem, mem = [p \in DOMAIN mem |-> mem[p]]
      PROVE  Run(c, input, mem) = Run(b, input, mem)
  BY <1>1, <1>5, <1>9 DEF Alike, Run, c
<1> QED BY <1>8, <1>9 DEF c

-----------------------------------------------------------------------------
(* Prefixes of traces *)

IsTrace(t) == \E V : t \in Seq(V)

LEMMA TracesTogether ==
  ASSUME NEW s, NEW t, IsTrace(s), IsTrace(t)
  PROVE  \E V : s \in Seq(V) /\ t \in Seq(V)
<1>1. PICK V, W : s \in Seq(V) /\ t \in Seq(W)
  BY DEF IsTrace
<1>2. s \in Seq(V \cup W) /\ t \in Seq(V \cup W)
  BY <1>1, SeqMonotonic, Zenon
<1> QED BY <1>2

LEMMA PrefixIs ==
  ASSUME NEW s, NEW t, IsTrace(s), IsTrace(t)
  PROVE  IsPrefix(s, t) <=> Len(s) <= Len(t) /\ \A k \in 1 .. Len(s) : s[k] = t[k]
<1>1. PICK V : s \in Seq(V) /\ t \in Seq(V)
  BY TracesTogether
<1>2. CASE Len(s) <= Len(t)
  <2>1. Len(s) \in Nat /\ Len(t) \in Nat
    BY <1>1
  <2>2. /\ SubSeq(s, 1, Len(s)) = [k \in 1 .. Len(s) |-> s[k]]
        /\ SubSeq(t, 1, Len(s)) = [k \in 1 .. Len(s) |-> t[k]]
    BY <1>1, <1>2, <2>1
  <2> QED BY <1>2, <2>2, Zenon DEF IsPrefix
<1>3. CASE ~(Len(s) <= Len(t))
  BY <1>3 DEF IsPrefix
<1> QED BY <1>2, <1>3

LEMMA PrefixReflexive ==
  ASSUME NEW t, IsTrace(t)
  PROVE  IsPrefix(t, t)
<1>1. Len(t) <= Len(t)
  BY DEF IsTrace
<1> QED BY <1>1, PrefixIs

LEMMA PrefixTransitive ==
  ASSUME NEW s, NEW t, NEW u, IsTrace(s), IsTrace(t), IsTrace(u), IsPrefix(s, t), IsPrefix(t, u)
  PROVE  IsPrefix(s, u)
<1>1. /\ Len(s) <= Len(t) /\ \A k \in 1 .. Len(s) : s[k] = t[k]
      /\ Len(t) <= Len(u) /\ \A k \in 1 .. Len(t) : t[k] = u[k]
  BY PrefixIs
<1>2. Len(s) \in Nat /\ Len(t) \in Nat /\ Len(u) \in Nat
  BY DEF IsTrace
<1>3. Len(s) <= Len(u) /\ \A k \in 1 .. Len(s) : s[k] = u[k]
  BY <1>1, <1>2
<1> QED BY <1>3, PrefixIs

LEMMA PrefixOfAppend ==
  ASSUME NEW s, NEW t, NEW v, IsTrace(s), IsTrace(t), IsPrefix(s, t)
  PROVE  IsTrace(Append(t, v)) /\ IsPrefix(s, Append(t, v))
<1> DEFINE u == Append(t, v)
<1>1. PICK V : t \in Seq(V)
  BY DEF IsTrace
<1>2. t \in Seq(V \cup {v})
  BY <1>1, SeqMonotonic, Zenon
<1>3. /\ u \in Seq(V \cup {v}) /\ Len(u) = Len(t) + 1 /\ \A k \in 1 .. Len(t) : u[k] = t[k]
      /\ Len(t) \in Nat
  BY <1>2
<1> HIDE DEF u
<1>4. IsTrace(u)
  BY <1>3 DEF IsTrace
<1>5. Len(s) \in Nat /\ Len(s) <= Len(t) /\ \A k \in 1 .. Len(s) : s[k] = t[k]
  BY PrefixIs DEF IsTrace
<1>6. Len(s) <= Len(u) /\ \A k \in 1 .. Len(s) : s[k] = u[k]
  BY <1>3, <1>5
<1>7. IsPrefix(s, u)
  BY <1>4, <1>6, PrefixIs
<1> QED BY <1>4, <1>7 DEF u

-----------------------------------------------------------------------------
(* Dead code *)

\* A division of the first i instructions that the pass removes.
LostDivision(b, i, how) ==
  \E j \in (1 .. i) \cap Unused(b) : b[j].op \in {"div", "mod"} /\ how = <<"trap", b[j].dest>>

\* s is r without the registers nothing uses, and goes on where r divides by
\* zero for nothing.
DceSim(b, i, s, r) ==
  /\ s.input = r.input
  /\ r.end = Going =>
       /\ s.end = Going /\ s.mem = r.mem /\ s.trace = r.trace
       /\ \A d \in DOMAIN r.regs : (\A j \in (1 .. Len(b)) \cap Unused(b) : b[j].dest # d) =>
            d \in DOMAIN s.regs /\ s.regs[d] = r.regs[d]
  /\ r.end # Going => \/ s.end = r.end /\ s.trace = r.trace
                      \/ LostDivision(b, i, r.end) /\ IsPrefix(r.trace, s.trace)

LEMMA UnusedUseless ==
  ASSUME NEW b, Formed(b), Plain(b), Terminated(b)
  PROVE  Useless(b, Unused(b))
<1>1. /\ Len(b) \in Nat /\ Len(b) > 0 /\ DOMAIN b = 1 .. Len(b) /\ b[Len(b)].op \in Terminators
      /\ \A i \in 1 .. Len(b) : b[i] \in Insts
  BY DEF Formed, Terminated
<1>2. Len(b) \notin Unused(b)
  BY <1>1 DEF Unused, Removable, Terminators, Branches, Arithmetic, Compare, Bitops, Shifts
<1>3. ASSUME NEW j \in (1 .. Len(b)) \cap Unused(b), NEW i \in 1 .. Len(b),
             NEW a \in 1 .. Len(b[i].args)
      PROVE  b[i].args[a] # b[j].dest
  <2>1. b[i] \in Insts /\ b[i].op \notin UCompare \cup UShift
    BY <1>1 DEF Plain
  <2>2. b[i].op \notin Leaves
    BY <2>1 DEF Insts
  <2>3. b[i].op \in Arithmetic \cup Compare \cup Bitops \cup Shifts \cup Checked
                      \cup Calls \cup {"store", "ret", "br_cond"}
    BY <2>1, <2>2 DEF Insts, Operations, Binary, Unary
  <2>4. b[i].args[a] \in ToSet(b[i].args)
    BY <2>1 DEF Insts, ToSet
  <2>5. b[i].args[a] \in UsedBy(b[i])
    BY <2>3, <2>4 DEF UsedBy
  <2> QED BY <1>1, <2>5 DEF Unused
<1> QED BY <1>2, <1>3 DEF Useless

\* The trace of a run grows.
LEMMA TraceGrows ==
  ASSUME NEW s, IsRun(s), NEW inst \in Insts
  PROVE  /\ ExecInst(s, inst).input = s.input
         /\ \/ ExecInst(s, inst).trace = s.trace
            \/ \E v : ExecInst(s, inst).trace = Append(s.trace, v)
<1>1. CASE s.end # Going
  BY <1>1, ExecEnded
<1>2. CASE s.end = Going /\ Unread(s, inst)
  <2>1. ExecInst(s, inst) = [s EXCEPT !.end = <<"invalid", 0>>]
    BY <1>2 DEF ExecInst, Going
  <2> QED BY <2>1 DEF IsRun
<1>3. CASE s.end = Going /\ ~Unread(s, inst)
  <2>1. ExecInst(s, inst) = After(s, inst)
    BY <1>3, ExecIsAfter
  <2> QED BY <2>1 DEF After
<1> QED BY <1>1, <1>2, <1>3

\* An instruction the pass removes changes a register nothing uses, or traps.
LEMMA DceSkipped ==
  ASSUME NEW b, Formed(b), NEW i \in 1 .. Len(b), i \in Unused(b), NEW s, NEW r, IsRun(r),
         DceSim(b, i - 1, s, r), r.end = Going
  PROVE  DceSim(b, i, s, After(r, b[i]))
<1> DEFINE x == b[i]
           q == After(r, x)
<1>1. Len(b) \in Nat /\ x \in Insts /\ x.op \in Removable
  BY DEF Formed, Unused
<1>2. x.op \notin NoDest \cup Calls \cup {"store", "ret", "br", "br_cond"} \cup Checked
  BY <1>1 DEF Removable, Arithmetic, Compare, Bitops, Shifts, NoDest, Terminators, Branches, Calls, Checked
<1>3. /\ q.mem = r.mem /\ q.trace = r.trace /\ q.input = r.input
      /\ q.end = IF Trapped(r, x) THEN <<"trap", x.dest>> ELSE Going
      /\ q.regs = IF Trapped(r, x) THEN r.regs ELSE With(r.regs, x.dest, Value(r, x))
  BY <1>2 DEF After, Ending
<1> HIDE DEF q
<1>4. Trapped(r, x) => x.op \in {"div", "mod"}
  BY <1>2 DEF Trapped, Traps, Checked
<1>5. /\ s.input = r.input /\ s.end = Going /\ s.mem = r.mem /\ s.trace = r.trace
      /\ \A d \in DOMAIN r.regs : (\A j \in (1 .. Len(b)) \cap Unused(b) : b[j].dest # d) =>
            d \in DOMAIN s.regs /\ s.regs[d] = r.regs[d]
  BY DEF DceSim
<1>6. CASE Trapped(r, x)
  <2>1. LostDivision(b, i, q.end)
    BY <1>1, <1>3, <1>4, <1>6 DEF LostDivision
  <2>2. IsPrefix(q.trace, s.trace)
    BY <1>3, <1>5, PrefixReflexive DEF IsRun, IsTrace
  <2>3. q.end # Going
    BY <1>3, <1>6 DEF Going
  <2>4. DceSim(b, i, s, q)
    BY <1>3, <1>5, <2>1, <2>2, <2>3 DEF DceSim
  <2> QED BY <2>4 DEF q
<1>7. CASE ~Trapped(r, x)
  <2>1. ASSUME NEW d \in DOMAIN q.regs, \A j \in (1 .. Len(b)) \cap Unused(b) : b[j].dest # d
        PROVE  d \in DOMAIN s.regs /\ s.regs[d] = q.regs[d]
    <3>1. d # x.dest
      BY <2>1
    <3>2. d \in DOMAIN r.regs /\ q.regs[d] = r.regs[d]
      BY <1>3, <1>7, <3>1 DEF With
    <3> QED BY <1>5, <2>1, <3>2
  <2>2. DceSim(b, i, s, q)
    BY <1>3, <1>5, <1>7, <2>1 DEF DceSim
  <2> QED BY <2>2 DEF q
<1> QED BY <1>6, <1>7

\* Instructions with the same operands do the same in two runs.
LEMMA SameInTwoRuns ==
  ASSUME NEW s, NEW r, NEW x \in Insts, s.input = r.input, s.mem = r.mem, s.trace = r.trace,
         \A a \in 1 .. Len(x.args) : Operand(s, x, a) = Operand(r, x, a)
  PROVE  /\ Trapped(s, x) <=> Trapped(r, x)
         /\ After(s, x).mem = After(r, x).mem /\ After(s, x).trace = After(r, x).trace
         /\ After(s, x).end = After(r, x).end /\ After(s, x).input = After(r, x).input
         /\ x.op \notin NoDest => Value(s, x) = Value(r, x)
<1> DEFINE Same == /\ Trapped(s, x) <=> Trapped(r, x)
                   /\ Ending(s, x) = Ending(r, x)
                   /\ x.op \notin NoDest => Value(s, x) = Value(r, x)
                   /\ x.op \in Calls \cup {"store"} => Operand(s, x, 1) = Operand(r, x, 1)
<1>1. ASSUME x.op \in Binary PROVE Same
  <2>1. Len(x.args) = 2
    BY <1>1 DEF Insts
  <2>2. Operand(s, x, 1) = Operand(r, x, 1) /\ Operand(s, x, 2) = Operand(r, x, 2)
    BY <2>1
  <2>3. Trapped(s, x) <=> Trapped(r, x)
    BY <2>2 DEF Trapped
  <2>4. Ending(s, x) = Ending(r, x)
    BY <2>2, <2>3 DEF Ending
  <2>5. Value(s, x) = Value(r, x)
    BY <2>2 DEF Value
  <2> QED BY <2>2, <2>3, <2>4, <2>5
<1>2. ASSUME x.op \in Unary PROVE Same
  <2>0. Len(x.args) = 1
    BY <1>2 DEF Insts
  <2>1. Operand(s, x, 1) = Operand(r, x, 1)
    BY <2>0
  <2>2. x.op \in Calls \cup NoDest /\ x.op \notin Binary
    BY <1>2 DEF Unary, NoDest, Terminators, Branches, Calls, Binary, Arithmetic, Compare, Bitops,
                Shifts, UShift, Checked, UCompare
  <2>3. ~Trapped(s, x) /\ ~Trapped(r, x)
    BY <2>2 DEF Trapped
  <2>4. Ending(s, x) = Ending(r, x)
    BY <2>1, <2>3 DEF Ending
  <2>5. x.op \notin NoDest => Value(s, x) = Value(r, x)
    BY <2>2 DEF Value, Calls
  <2> QED BY <2>1, <2>3, <2>4, <2>5
<1>3. ASSUME x.op \in Leaves PROVE Same
  <2>1. x.op \notin Binary \cup Calls \cup {"store", "ret", "br_cond"}
    BY <1>3 DEF Leaves, Calls, Binary, Arithmetic, Compare, Bitops, Shifts, UShift, Checked, UCompare
  <2>2. ~Trapped(s, x) /\ ~Trapped(r, x)
    BY <2>1 DEF Trapped
  <2>3. Ending(s, x) = Ending(r, x)
    BY <2>1, <2>2 DEF Ending
  <2>4. x.op \notin NoDest => Value(s, x) = Value(r, x)
    BY <1>3 DEF Value, Leaves, NoDest, Terminators, Branches
  <2> QED BY <2>1, <2>2, <2>3, <2>4
<1>4. Same
  BY <1>1, <1>2, <1>3 DEF Insts, Operations
<1>5. /\ After(s, x).end = After(r, x).end /\ After(s, x).input = After(r, x).input
  BY <1>4 DEF After
<1>6. After(s, x).mem = After(r, x).mem
  BY <1>4 DEF After
<1>7. After(s, x).trace = After(r, x).trace
  BY <1>4 DEF After
<1> QED BY <1>4, <1>5, <1>6, <1>7

\* Any other instruction does the same in both runs.
LEMMA DceKept ==
  ASSUME NEW b, Formed(b), Useless(b, Unused(b)), NEW i \in 1 .. Len(b), NEW s, NEW r,
         IsRun(s), IsRun(r), DceSim(b, i - 1, s, r), r.end = Going, ~Unread(r, b[i])
  PROVE  DceSim(b, i, ExecInst(s, b[i]), After(r, b[i]))
<1> DEFINE x == b[i]
           t == After(s, x)
           q == After(r, x)
<1>1. Len(b) \in Nat /\ x \in Insts /\ DOMAIN x.args = 1 .. Len(x.args)
  BY DEF Formed, Insts
<1>2. /\ s.input = r.input /\ s.end = Going /\ s.mem = r.mem /\ s.trace = r.trace
      /\ \A d \in DOMAIN r.regs : (\A j \in (1 .. Len(b)) \cap Unused(b) : b[j].dest # d) =>
            d \in DOMAIN s.regs /\ s.regs[d] = r.regs[d]
  BY DEF DceSim
<1>3. ASSUME NEW a \in 1 .. Len(x.args)
      PROVE  x.args[a] \in DOMAIN s.regs /\ s.regs[x.args[a]] = r.regs[x.args[a]]
  <2>1. x.args[a] \in DOMAIN r.regs
    BY <1>1 DEF Unread
  <2>2. \A j \in (1 .. Len(b)) \cap Unused(b) : b[j].dest # x.args[a]
    BY DEF Useless
  <2> QED BY <1>2, <2>1, <2>2
<1>4. ExecInst(s, x) = t
  <2>1. ~Unread(s, x)
    BY <1>1, <1>3 DEF Unread
  <2> QED BY <1>1, <1>2, <2>1, ExecIsAfter
<1>5. /\ Trapped(s, x) <=> Trapped(r, x)
      /\ t.mem = q.mem /\ t.trace = q.trace /\ t.end = q.end
      /\ t.input = q.input /\ (x.op \notin NoDest => Value(s, x) = Value(r, x))
  <2>1. \A a \in 1 .. Len(x.args) : Operand(s, x, a) = Operand(r, x, a)
    BY <1>3 DEF Operand
  <2> QED BY <1>1, <1>2, <2>1, SameInTwoRuns
<1>6. ASSUME NEW d \in DOMAIN q.regs, \A j \in (1 .. Len(b)) \cap Unused(b) : b[j].dest # d
      PROVE  d \in DOMAIN t.regs /\ t.regs[d] = q.regs[d]
  <2>1. CASE x.op \in NoDest \/ Trapped(r, x)
    <3>1. t.regs = s.regs /\ q.regs = r.regs
      BY <1>5, <2>1 DEF After
    <3> QED BY <1>2, <1>6, <3>1
  <2>2. CASE x.op \notin NoDest /\ ~Trapped(r, x)
    <3>1. t.regs = With(s.regs, x.dest, Value(s, x)) /\ q.regs = With(r.regs, x.dest, Value(r, x))
      BY <1>5, <2>2, Zenon DEF After
    <3>2. Value(s, x) = Value(r, x)
      BY <1>5, <2>2
    <3> HIDE DEF t, q
    <3> QED BY <1>2, <1>6, <3>1, <3>2 DEF With
  <2> QED BY <2>1, <2>2
<1> HIDE DEF t, q
<1>7. DceSim(b, i, t, q)
  BY <1>5, <1>6 DEF DceSim
<1> QED BY <1>4, <1>7 DEF q

\* Without its dead code a block makes the same calls and ends the same way,
\* unless it divided by zero for nothing.
LEMMA DceKeeps ==
  ASSUME NEW b, Formed(b), Plain(b), Terminated(b)
  PROVE  /\ Keeps(b, DcePass(b))
         /\ \A input, mem : mem = [p \in DOMAIN mem |-> mem[p]] =>
              LET s == Run(DcePass(b), input, mem)
                  r == Run(b, input, mem)
              IN  \/ s = r
                  \/ b[Len(b)].op \notin Branches /\ s.end = r.end /\ s.trace = r.trace
                  \/ LostDivision(b, Len(b), r.end) /\ IsPrefix(r.trace, s.trace)
<1> DEFINE gone == Unused(b)
           c == Without(b, gone)[Len(b)]
<1>1. Useless(b, gone) /\ Len(b) \in Nat
  BY UnusedUseless DEF Formed
<1>2. CASE b[Len(b)].op \in Branches
  <2>1. DcePass(b) = b
    BY <1>2 DEF DcePass
  <2>2. Keeps(b, b)
    BY DEF Keeps, Terminated
  <2> QED BY <2>1, <2>2
<1>3. CASE b[Len(b)].op \notin Branches
  <2>1. DcePass(b) = c
    BY <1>3 DEF DcePass
  <2>2. Keeps(b, c)
    <3> HIDE DEF gone
    <3> QED BY <1>1, WithoutKeeps
  <2>3. ASSUME NEW input, NEW mem, mem = [p \in DOMAIN mem |-> mem[p]]
        PROVE  LET s == Run(c, input, mem)
                   r == Run(b, input, mem)
               IN  \/ s.end = r.end /\ s.trace = r.trace
                   \/ LostDivision(b, Len(b), r.end) /\ IsPrefix(r.trace, s.trace)
    <3> DEFINE R(i) == Runs(b, input, mem)[i]
               W(i) == Without(b, gone)[i]
               S(i) == Run(W(i), input, mem)
               G == {i \in 0 .. Len(b) : DceSim(b, i, S(i), R(i))}
    <3>1. /\ \A i \in 0 .. Len(b) : Sound(b, i, R(i), input, mem)
          /\ R(0) = Start(input, mem)
          /\ \A i \in 1 .. Len(b) : R(i) = IF R(i - 1).end = Going THEN After(R(i - 1), b[i]) ELSE R(i - 1)
      BY <1>1, <2>3, RunsSound, RunsFirst
    <3>2. /\ S(0) = Start(input, mem)
          /\ \A i \in 1 .. Len(b) : S(i) = IF i \in gone THEN S(i - 1) ELSE ExecInst(S(i - 1), b[i])
      <4>0. Useless(b, gone)
        BY <1>1
      <4> HIDE DEF gone
      <4>1. /\ Run(Without(b, gone)[0], input, mem) = Start(input, mem)
            /\ \A i \in 1 .. Len(b) :
                 Run(Without(b, gone)[i], input, mem) =
                   IF i \in gone THEN Run(Without(b, gone)[i - 1], input, mem)
                   ELSE ExecInst(Run(Without(b, gone)[i - 1], input, mem), b[i])
        BY <4>0, WithoutRuns
      <4> QED BY <4>1
    <3>3. \A i \in 0 .. Len(b) : IsRun(S(i))
      <4> SUFFICES ASSUME NEW i \in 0 .. Len(b) PROVE IsRun(S(i))
        OBVIOUS
      <4>1. Formed(W(i))
        <5> HIDE DEF gone
        <5>1. \A k \in 0 .. Len(b) : Rest(b, gone, k, Without(b, gone)[k])
          BY <1>1, WithoutRest
        <5> QED BY <5>1 DEF Rest
      <4> HIDE DEF W
      <4>2. Len(W(i)) \in 0 .. Len(W(i))
        BY <4>1 DEF Formed
      <4> QED BY <2>3, <4>1, <4>2, RunsSound DEF Run, Sound
    <3> HIDE DEF R, S
    <3>4. 0 \in G
      <4>1. DceSim(b, 0, Start(input, mem), Start(input, mem))
        BY DEF DceSim, Start
      <4> QED BY <1>1, <3>1, <3>2, <4>1
    <3>5. ASSUME NEW i \in 0 .. Len(b) - 1, i \in G PROVE i + 1 \in G
      <4>1. i + 1 \in 1 .. Len(b) /\ (i + 1) - 1 = i /\ i \in 0 .. Len(b)
        BY <1>1
      <4>2. /\ DceSim(b, i, S(i), R(i)) /\ IsRun(S(i)) /\ Sound(b, i, R(i), input, mem)
            /\ S(i + 1) = IF i + 1 \in gone THEN S(i) ELSE ExecInst(S(i), b[i + 1])
            /\ R(i + 1) = IF R(i).end = Going THEN After(R(i), b[i + 1]) ELSE R(i)
            /\ IsRun(R(i)) /\ b[i + 1] \in Insts /\ IsRun(S(i + 1))
        <5>1. DceSim(b, i, S(i), R(i)) /\ IsRun(S(i)) /\ Sound(b, i, R(i), input, mem)
          BY <3>1, <3>3, <3>5, <4>1
        <5>2. /\ S(i + 1) = IF i + 1 \in gone THEN S(i) ELSE ExecInst(S(i), b[i + 1])
              /\ R(i + 1) = IF R(i).end = Going THEN After(R(i), b[i + 1]) ELSE R(i)
          BY <3>1, <3>2, <4>1
        <5>3. IsRun(R(i)) /\ b[i + 1] \in Insts /\ IsRun(S(i + 1))
          BY <3>3, <4>1, <5>1 DEF Sound, Formed
        <5> QED BY <5>1, <5>2, <5>3
      <4> HIDE DEF c
      <4>3. CASE R(i).end = Going /\ i + 1 \in gone
        <5>1. DceSim(b, i + 1, S(i), After(R(i), b[i + 1]))
          BY <4>1, <4>2, <4>3, DceSkipped
        <5> QED BY <4>1, <4>2, <4>3, <5>1
      <4>4. CASE R(i).end = Going /\ i + 1 \notin gone
        <5>1. ~Unread(R(i), b[i + 1])
          BY <4>1, <4>2, <4>4, SoundStep
        <5>2. DceSim(b, i + 1, ExecInst(S(i), b[i + 1]), After(R(i), b[i + 1]))
          BY <1>1, <4>1, <4>2, <4>4, <5>1, DceKept
        <5> QED BY <4>1, <4>2, <4>4, <5>2
      <4>5. CASE R(i).end # Going
        <5>1. R(i + 1) = R(i)
          BY <4>2, <4>5
        <5>2. S(i + 1).input = S(i).input /\ (S(i + 1).trace = S(i).trace \/ \E v : S(i + 1).trace = Append(S(i).trace, v))
          <6>1. CASE i + 1 \in gone
            BY <4>2, <6>1
          <6>2. CASE i + 1 \notin gone
            <7>1. S(i + 1) = ExecInst(S(i), b[i + 1])
              BY <4>2, <6>2
            <7>2. IsRun(S(i)) /\ b[i + 1] \in Insts
              BY <4>2
            <7>3. /\ ExecInst(S(i), b[i + 1]).input = S(i).input
                  /\ \/ ExecInst(S(i), b[i + 1]).trace = S(i).trace
                     \/ \E v : ExecInst(S(i), b[i + 1]).trace = Append(S(i).trace, v)
              BY <7>2, TraceGrows
            <7> QED BY <7>1, <7>3
          <6> QED BY <6>1, <6>2
        <5>3. CASE S(i).end = R(i).end /\ S(i).trace = R(i).trace
          <6>1. S(i + 1) = S(i)
            BY <4>2, <4>5, <5>3, ExecEnded
          <6>2. DceSim(b, i + 1, S(i + 1), R(i + 1))
            BY <4>2, <4>5, <5>1, <5>3, <6>1 DEF DceSim
          <6> QED BY <4>1, <6>2
        <5>4. CASE LostDivision(b, i, R(i).end) /\ IsPrefix(R(i).trace, S(i).trace)
          <6>1. LostDivision(b, i + 1, R(i).end)
            BY <4>1, <5>4 DEF LostDivision
          <6>2. IsPrefix(R(i).trace, S(i + 1).trace)
            <7>1. IsTrace(R(i).trace) /\ IsTrace(S(i).trace)
              BY <4>2 DEF IsRun, IsTrace
            <7>2. \A v : IsPrefix(R(i).trace, Append(S(i).trace, v))
              BY <5>4, <7>1, PrefixOfAppend
            <7> QED BY <5>2, <5>4, <7>2
          <6>3. DceSim(b, i + 1, S(i + 1), R(i + 1))
            BY <4>2, <4>5, <5>1, <5>2, <6>1, <6>2 DEF DceSim
          <6> QED BY <4>1, <6>3
        <5> QED BY <4>2, <4>5, <5>3, <5>4 DEF DceSim
      <4> QED BY <4>3, <4>4, <4>5
    <3>6. Len(b) \in G
      <4> HIDE DEF G
      <4>1. \A i \in 0 .. Len(b) : i \in G
        BY <1>1, <3>4, <3>5, UpTo
      <4> QED BY <1>1, <4>1
    <3>7. R(Len(b)) = Run(b, input, mem) /\ S(Len(b)) = Run(c, input, mem)
      BY DEF R, S, Run
    <3> HIDE DEF c
    <3>8. DceSim(b, Len(b), Run(c, input, mem), Run(b, input, mem))
      BY <3>6, <3>7
    <3> QED BY <3>8 DEF DceSim
  <2> HIDE DEF c
  <2> QED BY <1>3, <2>1, <2>2, <2>3
<1> QED BY <1>2, <1>3

-----------------------------------------------------------------------------
(* What every pass keeps of the meaning of a block *)

Faithful(b, c) ==
  \A input, mem : mem = [p \in DOMAIN mem |-> mem[p]] /\ SlotsIn(b, mem) =>
    LET r == Run(b, input, mem)
        s == Run(c, input, mem)
    IN  /\ r.end[1] # "trap" => /\ s.end = r.end /\ s.trace = r.trace
                                /\ b[Len(b)].op \in Branches => s.regs = r.regs /\ s.mem = r.mem
        /\ r.end[1] = "trap" => IsPrefix(r.trace, s.trace)

LEMMA RunIsRun ==
  ASSUME NEW b, Formed(b), NEW input, NEW mem, mem = [p \in DOMAIN mem |-> mem[p]]
  PROVE  IsRun(Run(b, input, mem)) /\ IsTrace(Run(b, input, mem).trace)
<1>1. Len(b) \in 0 .. Len(b)
  BY DEF Formed
<1>2. IsRun(Run(b, input, mem))
  BY <1>1, RunsSound DEF Run, Sound
<1> QED BY <1>2 DEF IsRun, IsTrace

LEMMA FaithfulReflexive ==
  ASSUME NEW b, Formed(b)
  PROVE  Faithful(b, b)
BY RunIsRun, PrefixReflexive DEF Faithful

LEMMA KeepsTransitive ==
  ASSUME NEW a, NEW b, NEW c, Keeps(a, b), Keeps(b, c)
  PROVE  Keeps(a, c) /\ \A mem : SlotsIn(a, mem) => SlotsIn(b, mem)
<1>1. /\ Formed(c) /\ Plain(c) /\ Len(c) > 0 /\ c[Len(c)].op = a[Len(a)].op
  BY DEF Keeps
<1>2. \A mem : SlotsIn(a, mem) => SlotsIn(b, mem)
  BY DEF Keeps, SlotsIn
<1>3. \A j \in 1 .. Len(c) : c[j].op \in {"load", "store"} =>
        \E k \in 1 .. Len(a) : a[k].op \in {"load", "store"} /\ a[k].imm = c[j].imm
  BY DEF Keeps
<1> QED BY <1>1, <1>2, <1>3 DEF Keeps

LEMMA FaithfulTransitive ==
  ASSUME NEW a, NEW b, NEW c, Formed(a), Keeps(a, b), Keeps(b, c), Faithful(a, b), Faithful(b, c)
  PROVE  Faithful(a, c)
<1>1. Formed(b) /\ Formed(c) /\ b[Len(b)].op = a[Len(a)].op
  BY DEF Keeps
<1> SUFFICES ASSUME NEW input, NEW mem, mem = [p \in DOMAIN mem |-> mem[p]], SlotsIn(a, mem)
             PROVE  LET r == Run(a, input, mem)
                        s == Run(c, input, mem)
                    IN  /\ r.end[1] # "trap" =>
                             /\ s.end = r.end /\ s.trace = r.trace
                             /\ a[Len(a)].op \in Branches => s.regs = r.regs /\ s.mem = r.mem
                        /\ r.end[1] = "trap" => IsPrefix(r.trace, s.trace)
  BY DEF Faithful
<1>2. SlotsIn(b, mem)
  BY KeepsTransitive
<1> DEFINE r == Run(a, input, mem)
           q == Run(b, input, mem)
           s == Run(c, input, mem)
<1>3. IsTrace(r.trace) /\ IsTrace(q.trace) /\ IsTrace(s.trace)
  BY <1>1, RunIsRun
<1>4. /\ r.end[1] # "trap" => /\ q.end = r.end /\ q.trace = r.trace
                              /\ a[Len(a)].op \in Branches => q.regs = r.regs /\ q.mem = r.mem
      /\ r.end[1] = "trap" => IsPrefix(r.trace, q.trace)
  BY DEF Faithful
<1>5. /\ q.end[1] # "trap" => /\ s.end = q.end /\ s.trace = q.trace
                              /\ a[Len(a)].op \in Branches => s.regs = q.regs /\ s.mem = q.mem
      /\ q.end[1] = "trap" => IsPrefix(q.trace, s.trace)
  BY <1>1, <1>2 DEF Faithful
<1> HIDE DEF r, q, s
<1>6. r.end[1] = "trap" => IsPrefix(r.trace, s.trace)
  BY <1>3, <1>4, <1>5, PrefixTransitive
<1>7. r.end[1] # "trap" => /\ s.end = r.end /\ s.trace = r.trace
                           /\ a[Len(a)].op \in Branches => s.regs = r.regs /\ s.mem = r.mem
  BY <1>4, <1>5
<1> QED BY <1>6, <1>7 DEF r, s

\* Each pass of the list, on a block that ends.
LEMMA PassesFaithful ==
  ASSUME NEW b, Formed(b), Plain(b), Terminated(b)
  PROVE  /\ ~FoldPass(b).panics => Keeps(b, FoldPass(b).out) /\ Faithful(b, FoldPass(b).out)
         /\ Keeps(b, PropPass(b)) /\ Faithful(b, PropPass(b))
         /\ Keeps(b, CsePass(b)) /\ Faithful(b, CsePass(b))
         /\ Keeps(b, DeadStorePass(b)) /\ Faithful(b, DeadStorePass(b))
         /\ Keeps(b, DcePass(b)) /\ Faithful(b, DcePass(b))
<1>0. Faithful(b, b)
  BY FaithfulReflexive
<1>1. ASSUME NEW c, \A input, mem : mem = [p \in DOMAIN mem |-> mem[p]] /\ SlotsIn(b, mem) =>
                      Run(c, input, mem) = Run(b, input, mem)
      PROVE  Faithful(b, c)
  BY <1>0, <1>1 DEF Faithful
<1>2. ~FoldPass(b).panics => Keeps(b, FoldPass(b).out) /\ Faithful(b, FoldPass(b).out)
  BY <1>1, FoldKeeps
<1>3. Keeps(b, PropPass(b)) /\ Faithful(b, PropPass(b))
  BY <1>1, PropKeeps
<1>4. Keeps(b, CsePass(b)) /\ Faithful(b, CsePass(b))
  BY <1>1, CseKeeps
<1>5. Keeps(b, DeadStorePass(b)) /\ Faithful(b, DeadStorePass(b))
  <2> DEFINE c == DeadStorePass(b)
  <2>1. Keeps(b, c) /\ \A input, mem : mem = [p \in DOMAIN mem |-> mem[p]] /\ SlotsIn(b, mem) =>
                         LET s == Run(c, input, mem)
                             r == Run(b, input, mem)
                         IN  /\ s.regs = r.regs /\ s.trace = r.trace /\ s.end = r.end
                             /\ r.end[1] # "trap" => s.mem = r.mem
    BY DeadStoreKeeps
  <2> HIDE DEF c
  <2>2. Faithful(b, c)
    BY <1>0, <2>1 DEF Faithful
  <2> QED BY <2>1, <2>2 DEF c
<1>6. Keeps(b, DcePass(b)) /\ Faithful(b, DcePass(b))
  <2> DEFINE c == DcePass(b)
  <2>1. Keeps(b, c) /\ \A input, mem : mem = [p \in DOMAIN mem |-> mem[p]] =>
                         LET s == Run(c, input, mem)
                             r == Run(b, input, mem)
                         IN  \/ s = r
                             \/ b[Len(b)].op \notin Branches /\ s.end = r.end /\ s.trace = r.trace
                             \/ LostDivision(b, Len(b), r.end) /\ IsPrefix(r.trace, s.trace)
    BY DceKeeps
  <2> HIDE DEF c
  <2>2. \A how : LostDivision(b, Len(b), how) => how[1] = "trap"
    BY DEF LostDivision
  <2>3. Faithful(b, c)
    BY <1>0, <2>1, <2>2 DEF Faithful
  <2> QED BY <2>1, <2>3 DEF c
<1> QED BY <1>2, <1>3, <1>4, <1>5, <1>6

LEMMA ModOfNext ==
  ASSUME NEW m \in Nat \ {0}, NEW n \in -m .. m - 1
  PROVE  n % m = IF n >= 0 THEN n ELSE n + m
OBVIOUS

\* Flipping the sign bit by a wrapping addition orders integers as unsigned.
LEMMA FlipIsUnsigned ==
  ASSUME NEW a \in Ints
  PROVE  Wrap(a + MinInt) = Unsigned(a) - Half /\ Unsigned(a) \in Int
<1>1. Half \in Nat \ {0} /\ 2 * Half \in Nat \ {0} /\ a \in -Half .. Half - 1 /\ MinInt = -Half
  BY IntsAssumption DEF Ints, MinInt
<1>2. Unsigned(a) = IF a >= 0 THEN a ELSE a + 2 * Half
  <2>1. a \in -(2 * Half) .. 2 * Half - 1
    BY <1>1
  <2> QED BY <1>1, <2>1, ModOfNext DEF Unsigned
<1>3. Unsigned(a + MinInt) = a + Half
  <2> DEFINE n == a + MinInt
             m == 2 * Half
  <2>1. n \in -m .. m - 1 /\ n < 0 /\ m \in Nat \ {0} /\ n + m = a + Half
    BY <1>1
  <2> HIDE DEF n, m
  <2>2. n % m = n + m
    <3>1. n % m = IF n >= 0 THEN n ELSE n + m
      BY <2>1, ModOfNext
    <3>2. ~(n >= 0)
      BY <2>1
    <3> QED BY <3>1, <3>2
  <2> QED BY <2>1, <2>2 DEF Unsigned, n, m
<1>4. Signed(a + Half) = IF a >= 0 THEN a - Half ELSE a + Half
  BY <1>1 DEF Signed
<1> QED BY <1>1, <1>2, <1>3, <1>4 DEF Wrap

LEMMA FoldsAllRight ==
  ASSUME NEW op \in Folded, NEW a \in Ints, NEW b \in Ints, ~Traps(op, a, b)
  PROVE  FoldValue(op, a, b) = Exec(op, a, b)
<1>1. a \in Int /\ b \in Int /\ Half \in Nat \ {0}
  BY IntsAssumption DEF Ints, MinInt
<1>2. CASE op \in Folded \ UCompare
  <2>1. op \in {"div", "mod"} => b # 0
    BY DEF Traps
  <2> QED BY <1>1, <1>2, <2>1, FoldsRight
<1>3. CASE op \in UCompare
  <2>1. /\ Wrap(a + MinInt) = Unsigned(a) - Half /\ Unsigned(a) \in Int
        /\ Wrap(b + MinInt) = Unsigned(b) - Half /\ Unsigned(b) \in Int
    BY FlipIsUnsigned
  <2>2. /\ Wrap(a + MinInt) < Wrap(b + MinInt) <=> Unsigned(a) < Unsigned(b)
        /\ Wrap(a + MinInt) > Wrap(b + MinInt) <=> Unsigned(a) > Unsigned(b)
        /\ Wrap(a + MinInt) <= Wrap(b + MinInt) <=> Unsigned(a) <= Unsigned(b)
        /\ Wrap(a + MinInt) >= Wrap(b + MinInt) <=> Unsigned(a) >= Unsigned(b)
    BY <1>1, <2>1
  <2>3. op \in {"ult", "ugt", "ule", "uge"}
    BY <1>3 DEF UCompare
  <2> QED BY <2>2, <2>3 DEF FoldValue, Exec, Bool
<1> QED BY <1>2, <1>3

-----------------------------------------------------------------------------
(* The invariant *)

OptInv ==
  /\ Formed(lowered) /\ Plain(lowered)
  /\ phase = "lowering" => block = lowered /\ \E n \in Nat : Defs(lowered, Len(lowered)) = 1 .. n
  /\ phase # "lowering" => Terminated(lowered) /\ Keeps(lowered, block) /\ Faithful(lowered, block)

Fits(op, dest, args, imm) ==
  /\ op \in Operations /\ dest \in Nat /\ args \in Seq(Nat \ {0}) /\ imm \in Int \cup Slots
  /\ op \in Binary => Len(args) = 2
  /\ op \in Unary => Len(args) = 1
  /\ op \in Leaves => Len(args) = 0
  /\ dest = 0 <=> op \in NoDest
  /\ op = "const" => imm \in Int
  /\ op \in {"load", "store"} => imm \in Slots

LEMMA InstIsInst ==
  ASSUME NEW op, NEW dest, NEW args, NEW imm, Fits(op, dest, args, imm)
  PROVE  /\ Inst(op, dest, args, imm) \in Insts /\ Inst(op, dest, args, imm).op = op
         /\ Inst(op, dest, args, imm).dest = dest /\ Inst(op, dest, args, imm).args = args
BY DEF Inst, Insts, Fits

\* Lowering numbers registers 1, 2, 3.
LEMMA NextIsNew ==
  ASSUME OptInv, phase = "lowering"
  PROVE  /\ NextRegister \in Nat \ {0} /\ Registers = 1 .. NextRegister - 1
         /\ Registers = Defs(block, Len(block))
<1>1. Formed(block) /\ \E n \in Nat : Defs(block, Len(block)) = 1 .. n
  BY DEF OptInv
<1>2. Registers = Defs(block, Len(block))
  BY <1>1 DEF Registers, Defs, Formed
<1>3. PICK n \in Nat : Registers = 1 .. n
  BY <1>1, <1>2
<1>4. Cardinality(Registers) = n
  BY <1>3, FS_Interval
<1> QED BY <1>2, <1>3, <1>4 DEF NextRegister

LEMMA LowerKeeps ==
  ASSUME OptInv, phase = "lowering", NEW x \in Insts, x.op \notin UCompare \cup UShift,
         x.dest \in {0, NextRegister}, \A a \in 1 .. Len(x.args) : x.args[a] \in Registers
  PROVE  LET c == Append(block, x)
         IN  /\ Formed(c) /\ Plain(c) /\ Len(c) > 0 /\ c[Len(c)] = x
             /\ \E n \in Nat : Defs(c, Len(c)) = 1 .. n
<1> DEFINE c == Append(block, x)
<1>1. /\ Formed(block) /\ Plain(block) /\ Len(block) \in Nat
      /\ NextRegister \in Nat \ {0} /\ Registers = 1 .. NextRegister - 1
      /\ Registers = Defs(block, Len(block))
  BY NextIsNew DEF OptInv, Formed
<1>2. x.dest \notin Defs(block, Len(block))
  BY <1>1
<1>3. /\ Formed(c) /\ Len(c) = Len(block) + 1
      /\ c[Len(block) + 1] = x /\ \A i \in 1 .. Len(block) : c[i] = block[i]
      /\ Defs(c, Len(block) + 1) = Defs(block, Len(block)) \cup ({x.dest} \ {0})
  BY <1>1, <1>2, FormedAppend
<1> HIDE DEF c
<1>4. Plain(c)
  BY <1>1, <1>3 DEF Plain
<1>5. \E n \in Nat : Defs(c, Len(c)) = 1 .. n
  <2>0. Defs(c, Len(c)) = (1 .. NextRegister - 1) \cup ({x.dest} \ {0})
    BY <1>1, <1>3
  <2>1. CASE x.dest = 0
    <3>1. Defs(c, Len(c)) = 1 .. NextRegister - 1 /\ NextRegister - 1 \in Nat
      BY <1>1, <2>0, <2>1
    <3> QED BY <3>1
  <2>2. CASE x.dest = NextRegister
    <3>1. Defs(c, Len(c)) = 1 .. NextRegister
      BY <1>1, <2>0, <2>2
    <3> QED BY <1>1, <3>1
  <2> QED BY <2>1, <2>2
<1>6. Len(c) > 0 /\ c[Len(c)] = x
  BY <1>1, <1>3
<1> QED BY <1>3, <1>4, <1>5, <1>6 DEF c

\* An instruction that lowering appends keeps the invariant.
LEMMA LowerInv ==
  ASSUME OptInv, NEW x \in Insts, Lower(x), x.op \notin UCompare \cup UShift,
         x.dest \in {0, NextRegister}, \A a \in 1 .. Len(x.args) : x.args[a] \in Registers
  PROVE  OptInv'
<1>1. phase = "lowering" /\ phase' = phase /\ block' = Append(block, x) /\ lowered' = block'
  BY DEF Lower
<1>2. /\ Formed(Append(block, x)) /\ Plain(Append(block, x))
      /\ \E n \in Nat : Defs(Append(block, x), Len(Append(block, x))) = 1 .. n
  BY <1>1, LowerKeeps
<1> QED BY <1>1, <1>2 DEF OptInv

LEMMA TerminateInv ==
  ASSUME OptInv, Terminate
  PROVE  OptInv'
<1>1. /\ phase = "lowering" /\ phase' = "optimizing" /\ lowered' = block'
      /\ NextRegister \in Nat \ {0} /\ Registers = 1 .. NextRegister - 1
  BY NextIsNew DEF Terminate
<1>2. PICK x \in Insts : /\ block' = Append(block, x) /\ x.op \in Terminators
                         /\ x.dest = 0 /\ \A a \in 1 .. Len(x.args) : x.args[a] \in Registers
  <2>0. /\ {"ret", "br", "br_cond"} \subseteq Operations \cap Terminators \cap NoDest
        /\ {"ret", "br", "br_cond"} \cap Binary = {}
        /\ {"ret", "br_cond"} \subseteq Unary \ Leaves /\ "br" \in Leaves \ Unary
    BY DEF Operations, Unary, Leaves, Terminators, Branches, NoDest, Calls, Binary, Arithmetic,
           Compare, Bitops, Shifts, UShift, Checked, UCompare
  <2>1. CASE \E op \in {"ret", "br_cond"}, r \in Registers : block' = Append(block, Inst(op, 0, <<r>>, 0))
    <3>1. PICK op \in {"ret", "br_cond"}, r \in Registers : block' = Append(block, Inst(op, 0, <<r>>, 0))
      BY <2>1
    <3>2. <<r>> \in Seq(Nat \ {0}) /\ Len(<<r>>) = 1 /\ <<r>>[1] = r
      BY <1>1
    <3>3. /\ Inst(op, 0, <<r>>, 0) \in Insts /\ Inst(op, 0, <<r>>, 0).op = op
          /\ Inst(op, 0, <<r>>, 0).dest = 0 /\ Inst(op, 0, <<r>>, 0).args = <<r>>
      <4>1. Fits(op, 0, <<r>>, 0)
        BY <2>0, <3>1, <3>2 DEF Fits
      <4> QED BY <4>1, InstIsInst
    <3> QED BY <2>0, <3>1, <3>2, <3>3
  <2>2. CASE block' = Append(block, Inst("br", 0, <<>>, 0))
    <3>2. <<>> \in Seq(Nat \ {0}) /\ Len(<<>>) = 0
      OBVIOUS
    <3>3. /\ Inst("br", 0, <<>>, 0) \in Insts /\ Inst("br", 0, <<>>, 0).op = "br"
          /\ Inst("br", 0, <<>>, 0).dest = 0 /\ Inst("br", 0, <<>>, 0).args = <<>>
      <4>1. Fits("br", 0, <<>>, 0)
        BY <2>0, <3>2 DEF Fits
      <4> QED BY <4>1, InstIsInst
    <3> QED BY <2>0, <2>2, <3>2, <3>3
  <2> QED BY <2>1, <2>2 DEF Terminate
<1>3. x.op \notin UCompare \cup UShift
  BY <1>2 DEF Terminators, Branches, UCompare, UShift
<1> DEFINE c == Append(block, x)
<1>4. Formed(c) /\ Plain(c) /\ Len(c) > 0 /\ c[Len(c)] = x
  BY <1>1, <1>2, <1>3, LowerKeeps
<1> HIDE DEF c
<1>5. Terminated(c) /\ Keeps(c, c) /\ Faithful(c, c)
  BY <1>2, <1>4, FaithfulReflexive DEF Terminated, Keeps
<1>6. lowered' = c /\ block' = c
  BY <1>1, <1>2 DEF c
<1> QED BY <1>1, <1>4, <1>5, <1>6 DEF OptInv

\* A pass keeps the invariant: what it makes of the block keeps the meaning.
LEMMA PassInv ==
  ASSUME OptInv, phase = "optimizing", NEW c, Keeps(block, c), Faithful(block, c)
  PROVE  Keeps(lowered, c) /\ Faithful(lowered, c)
BY KeepsTransitive, FaithfulTransitive DEF OptInv

\* OptInv in every state: after any number of the passes of opt_fn the block is
\* well formed, keeps the registers of the lowered block, and runs as it did.
THEOREM OptInvHolds == NoUnsigned => (OptimizerSpec => []OptInv)
<1> SUFFICES ASSUME NoUnsigned PROVE OptimizerSpec => []OptInv
  OBVIOUS
<1>1. OptimizerInit => OptInv
  <2>1. Defs(<<>>, Len(<<>>)) = 1 .. 0 /\ Plain(<<>>)
    BY DEF Defs, Plain
  <2> QED BY <2>1, EmptyFormed DEF OptimizerInit, OptInv
<1>2. OptInv /\ [OptimizerNext]_optimizer => OptInv'
  <2> SUFFICES ASSUME OptInv, [OptimizerNext]_optimizer PROVE OptInv'
    OBVIOUS
  <2>0. phase = "lowering" => NextRegister \in Nat \ {0} /\ Registers \subseteq Nat \ {0}
    BY NextIsNew
  <2> DEFINE Able(op) == op \in Operations /\ op \notin UCompare \cup UShift
  <2>1. CASE LowerLeaf
    <3>1. /\ {"const", "param", "load"} \subseteq Operations \cap Leaves
          /\ {"const", "param", "load"} \cap (Binary \cup Unary \cup NoDest \cup UCompare \cup UShift) = {}
      BY DEF Operations, Unary, Leaves, Terminators, Branches, NoDest, Calls, Binary, Arithmetic,
             Compare, Bitops, Shifts, UShift, Checked, UCompare
    <3>2. <<>> \in Seq(Nat \ {0}) /\ Len(<<>>) = 0
      OBVIOUS
    <3>3. PICK op \in {"const", "param", "load"}, imm \in Int \cup Slots :
             /\ Lower(Inst(op, NextRegister, <<>>, imm))
             /\ op = "const" => imm \in Int
             /\ op = "load" => imm \in Slots
      <4>1. Literals \subseteq Int
        BY IntsAssumption DEF Ints, MinInt
      <4>2. CASE \E v \in Literals : Lower(Const(NextRegister, v))
        BY <4>1, <4>2, Zenon DEF Const
      <4>3. CASE Lower(Inst("param", NextRegister, <<>>, 0))
        <5>1. 0 \in Int
          OBVIOUS
        <5> QED BY <4>3, <5>1, Zenon
      <4>4. CASE \E p \in Slots : Lower(Inst("load", NextRegister, <<>>, p))
        BY <4>4, Zenon
      <4> QED BY <2>1, <4>2, <4>3, <4>4 DEF LowerLeaf
    <3>4. phase = "lowering"
      BY <3>3 DEF Lower
    <3>5. /\ Inst(op, NextRegister, <<>>, imm) \in Insts /\ Inst(op, NextRegister, <<>>, imm).op = op
          /\ Inst(op, NextRegister, <<>>, imm).dest = NextRegister
          /\ Inst(op, NextRegister, <<>>, imm).args = <<>>
      <4>1. Fits(op, NextRegister, <<>>, imm)
        BY <2>0, <3>1, <3>2, <3>3, <3>4 DEF Fits
      <4> QED BY <4>1, InstIsInst
    <3> QED BY <3>1, <3>2, <3>3, <3>5, LowerInv
  <2>2. CASE LowerStore
    <3>1. PICK r \in Registers, p \in Slots : Lower(Inst("store", 0, <<r>>, p))
      BY <2>2 DEF LowerStore
    <3>2. phase = "lowering"
      BY <3>1 DEF Lower
    <3>3. <<r>> \in Seq(Nat \ {0}) /\ Len(<<r>>) = 1 /\ <<r>>[1] = r
      BY <2>0, <3>2
    <3>4. "store" \in (Operations \cap Unary \cap NoDest) \ (Binary \cup Leaves \cup UCompare \cup UShift)
      BY DEF Operations, Unary, Leaves, NoDest, Binary, Arithmetic,
             Compare, Bitops, Shifts, UShift, Checked, UCompare
    <3>5. /\ Inst("store", 0, <<r>>, p) \in Insts /\ Inst("store", 0, <<r>>, p).op = "store"
          /\ Inst("store", 0, <<r>>, p).dest = 0 /\ Inst("store", 0, <<r>>, p).args = <<r>>
      <4>1. Fits("store", 0, <<r>>, p)
        BY <3>3, <3>4 DEF Fits
      <4> QED BY <4>1, InstIsInst
    <3> QED BY <3>1, <3>3, <3>4, <3>5, LowerInv
  <2>3. CASE LowerCall
    <3>1. PICK op \in Calls, r \in Registers : Lower(Inst(op, NextRegister, <<r>>, 0))
      BY <2>3 DEF LowerCall
    <3>2. phase = "lowering"
      BY <3>1 DEF Lower
    <3>3. <<r>> \in Seq(Nat \ {0}) /\ Len(<<r>>) = 1 /\ <<r>>[1] = r
      BY <2>0, <3>2
    <3>4. /\ op \in Operations \cap Unary
          /\ op \notin Binary \cup Leaves \cup UCompare \cup UShift \cup NoDest \cup {"load", "store"}
      BY DEF Calls, Operations, Unary, Leaves, NoDest, Terminators, Branches, Binary, Arithmetic,
             Compare, Bitops, Shifts, UShift, Checked, UCompare
    <3>5. /\ Inst(op, NextRegister, <<r>>, 0) \in Insts /\ Inst(op, NextRegister, <<r>>, 0).op = op
          /\ Inst(op, NextRegister, <<r>>, 0).dest = NextRegister
          /\ Inst(op, NextRegister, <<r>>, 0).args = <<r>>
      <4>1. Fits(op, NextRegister, <<r>>, 0)
        BY <2>0, <3>2, <3>3, <3>4 DEF Fits
      <4> QED BY <4>1, InstIsInst
    <3> QED BY <3>1, <3>3, <3>4, <3>5, LowerInv
  <2>4. CASE LowerBinary
    <3>1. PICK op \in Binary \cap Ops, q \in Registers, r \in Registers : Lower(Inst(op, NextRegister, <<q, r>>, 0))
      BY <2>4 DEF LowerBinary
    <3>2. phase = "lowering"
      BY <3>1 DEF Lower
    <3>3. <<q, r>> \in Seq(Nat \ {0}) /\ Len(<<q, r>>) = 2 /\ <<q, r>>[1] = q /\ <<q, r>>[2] = r
      BY <2>0, <3>2
    <3>4. /\ op \in Operations \cap Binary
          /\ op \notin Unary \cup Leaves \cup NoDest \cup {"load", "store"}
      BY DEF Calls, Operations, Unary, Leaves, NoDest, Terminators, Branches, Binary, Arithmetic,
             Compare, Bitops, Shifts, UShift, Checked, UCompare
    <3>5. op \notin UCompare \cup UShift
      BY DEF NoUnsigned
    <3>6. /\ Inst(op, NextRegister, <<q, r>>, 0) \in Insts /\ Inst(op, NextRegister, <<q, r>>, 0).op = op
          /\ Inst(op, NextRegister, <<q, r>>, 0).dest = NextRegister
          /\ Inst(op, NextRegister, <<q, r>>, 0).args = <<q, r>>
      <4>1. Fits(op, NextRegister, <<q, r>>, 0)
        BY <2>0, <3>2, <3>3, <3>4 DEF Fits
      <4> QED BY <4>1, InstIsInst
    <3>7. \A a \in 1 .. Len(<<q, r>>) : <<q, r>>[a] \in Registers
      BY <3>3
    <3> QED BY <3>1, <3>5, <3>6, <3>7, LowerInv
  <2>5. CASE Terminate
    BY <2>5, TerminateInv
  <2>6. ASSUME OptFold \/ OptProp \/ OptCse \/ OptDeadStore \/ OptDce PROVE OptInv'
    <3>1. phase = "optimizing" /\ phase' = phase /\ lowered' = lowered
      BY <2>6 DEF OptFold, OptProp, OptCse, OptDeadStore, OptDce, Pass
    <3>2. Formed(block) /\ Plain(block) /\ Terminated(block)
      BY <3>1 DEF OptInv, Keeps, Terminated
    <3>3. Keeps(block, block') /\ Faithful(block, block')
      BY <2>6, <3>2, PassesFaithful DEF OptFold, OptProp, OptCse, OptDeadStore, OptDce, Pass
    <3>4. Keeps(lowered, block') /\ Faithful(lowered, block')
      BY <3>1, <3>3, PassInv
    <3> QED BY <3>1, <3>4 DEF OptInv
  <2>7. CASE FoldPanics
    BY <2>7 DEF FoldPanics, OptInv
  <2>8. CASE UNCHANGED optimizer
    BY <2>8 DEF optimizer, OptInv
  <2> QED BY <2>1, <2>2, <2>3, <2>4, <2>5, <2>6, <2>7, <2>8 DEF OptimizerNext
<1> QED BY <1>1, <1>2, PTL DEF OptimizerSpec

\* UsesDefined: after any passes, what an instruction reads is defined before it.
THEOREM OptimizedUsesDefined == NoUnsigned => (OptimizerSpec => []UsesDefined)
<1>1. OptInv => UsesDefined
  <2> SUFFICES ASSUME OptInv PROVE UsesDefined
    OBVIOUS
  <2>1. Formed(block)
    BY DEF OptInv, Keeps
  <2> SUFFICES ASSUME NEW i \in DOMAIN block, NEW r \in ToSet(block[i].args)
               PROVE  \E j \in 1 .. i - 1 : block[j].dest = r
    BY DEF UsesDefined
  <2>2. i \in 1 .. Len(block) /\ block[i] \in Insts
    BY <2>1 DEF Formed
  <2>3. PICK a \in 1 .. Len(block[i].args) : r = block[i].args[a]
    BY <2>2 DEF ToSet, Insts
  <2>4. r \in Defs(block, i - 1)
    BY <2>1, <2>2, <2>3 DEF Formed
  <2> QED BY <2>4 DEF Defs
<1> QED BY <1>1, OptInvHolds, PTL

\* The memories the properties speak of hold the slots of the block.
LEMMA MemoriesFit ==
  ASSUME NEW b, Formed(b), NEW mem \in Memories(b)
  PROVE  mem = [p \in DOMAIN mem |-> mem[p]] /\ SlotsIn(b, mem)
<1>1. mem = [p \in DOMAIN mem |-> mem[p]] /\ DOMAIN mem = SlotsOf(b)
  BY DEF Memories
<1>2. \A i \in 1 .. Len(b) : b[i] \in Range(b)
  BY DEF Formed, Range
<1>3. \A i \in 1 .. Len(b) : b[i].op \in {"load", "store"} => b[i].imm \in SlotsOf(b)
  BY <1>2 DEF SlotsOf
<1> QED BY <1>1, <1>3 DEF SlotsIn

\* MeaningPreserved: after any passes the block calls and ends as it was lowered.
THEOREM OptimizedMeansSame == NoUnsigned => (OptimizerSpec => []MeaningPreserved)
<1>1. OptInv => MeaningPreserved
  <2> SUFFICES ASSUME OptInv, block # lowered, NEW input \in Inputs, NEW mem \in Memories(lowered)
               PROVE  LET was == Run(lowered, input, mem)
                          now == Run(block, input, mem)
                      IN  IF was.end[1] # "trap" THEN now.end = was.end /\ now.trace = was.trace
                          ELSE IsPrefix(was.trace, now.trace)
    BY DEF MeaningPreserved
  <2>1. Formed(lowered) /\ Faithful(lowered, block)
    BY DEF OptInv
  <2>2. mem = [p \in DOMAIN mem |-> mem[p]] /\ SlotsIn(lowered, mem)
    BY <2>1, MemoriesFit
  <2> QED BY <2>1, <2>2 DEF Faithful
<1> QED BY <1>1, OptInvHolds, PTL

\* SuccessorsSeeSame: a block that branches leaves the registers and slots it left.
THEOREM OptimizedLeavesSame == NoUnsigned => (OptimizerSpec => []SuccessorsSeeSame)
<1>1. OptInv => SuccessorsSeeSame
  <2> SUFFICES ASSUME OptInv, block # lowered, lowered[Len(lowered)].op \in Branches,
                      NEW input \in Inputs, NEW mem \in Memories(lowered)
               PROVE  LET was == Run(lowered, input, mem)
                          now == Run(block, input, mem)
                      IN  was.end[1] # "trap" => now.regs = was.regs /\ now.mem = was.mem
    BY DEF SuccessorsSeeSame, Last
  <2>1. Formed(lowered) /\ Faithful(lowered, block)
    BY DEF OptInv
  <2>2. mem = [p \in DOMAIN mem |-> mem[p]] /\ SlotsIn(lowered, mem)
    BY <2>1, MemoriesFit
  <2> QED BY <2>1, <2>2 DEF Faithful
<1> QED BY <1>1, OptInvHolds, PTL

\* FoldMatchesEmit: folding computes what the emitted operation does, for all
\* operands of the width.
THEOREM FoldsAsEmitted == OptimizerSpec => []FoldMatchesEmit
<1>1. FoldMatchesEmit
  BY FoldsAllRight DEF FoldMatchesEmit
<1> QED BY <1>1, PTL

\* OnlyUnusedTrapsVanish: a pass loses the trap of an unused division only.
THEOREM TrapsStay == NoUnsigned => (OptimizerSpec => OnlyUnusedTrapsVanish)
<1>1. OptInv /\ [OptimizerNext]_optimizer => [LostTrapsAreUnused]_optimizer
  <2> SUFFICES ASSUME OptInv, OptimizerNext PROVE LostTrapsAreUnused
    OBVIOUS
  <2> SUFFICES ASSUME NEW input \in Inputs, NEW mem \in Memories(block),
                      phase = "optimizing", Run(block, input, mem).end[1] = "trap",
                      Run(block', input, mem).end # Run(block, input, mem).end
               PROVE  LET was == Run(block, input, mem)
                      IN  /\ ~Uses(block, was.end[2])
                          /\ \E i \in DOMAIN block : block[i].dest = was.end[2] /\ block[i].op \in {"div", "mod"}
    BY DEF LostTrapsAreUnused
  <2>1. Formed(block) /\ Plain(block) /\ Terminated(block)
    BY DEF OptInv, Keeps, Terminated
  <2>2. mem = [p \in DOMAIN mem |-> mem[p]] /\ SlotsIn(block, mem)
    BY <2>1, MemoriesFit
  <2>3. block' # FoldPass(block).out \/ FoldPass(block).panics
    BY <2>1, <2>2, FoldKeeps
  <2>4. block' # PropPass(block)
    BY <2>1, <2>2, PropKeeps
  <2>5. block' # CsePass(block)
    BY <2>1, <2>2, CseKeeps
  <2>6. block' # DeadStorePass(block)
    BY <2>1, <2>2, DeadStoreKeeps
  <2>7. block' # block
    OBVIOUS
  <2>8. OptDce
    BY <2>3, <2>4, <2>5, <2>6, <2>7
       DEF OptimizerNext, LowerLeaf, LowerStore, LowerCall, LowerBinary, Lower, Terminate,
           OptFold, FoldPanics, OptProp, OptCse, OptDeadStore, Pass
  <2>9. LostDivision(block, Len(block), Run(block, input, mem).end)
    BY <2>1, <2>2, <2>8, DceKeeps DEF OptDce, Pass
  <2>10. PICK j \in (1 .. Len(block)) \cap Unused(block) :
            block[j].op \in {"div", "mod"} /\ Run(block, input, mem).end = <<"trap", block[j].dest>>
    BY <2>9 DEF LostDivision
  <2>11. Useless(block, Unused(block))
    BY <2>1, UnusedUseless
  <2>12. ~Uses(block, block[j].dest)
    <3>1. \A i \in DOMAIN block : i \in 1 .. Len(block) /\ DOMAIN block[i].args = 1 .. Len(block[i].args)
      BY <2>1 DEF Formed, Insts
    <3> QED BY <2>11, <3>1 DEF Uses, ToSet, Useless
  <2>13. j \in DOMAIN block
    BY <2>1 DEF Formed
  <2> QED BY <2>10, <2>12, <2>13
<1> QED BY <1>1, OptInvHolds, PTL DEF OptimizerSpec, OnlyUnusedTrapsVanish
=============================================================================
