------------------------------ MODULE Optimizer ------------------------------
(***************************************************************************)
(* The optimizer of compiler/s1/optim.nr on one basic block: opt_fn runs a *)
(* list of passes, each rewriting the block in place.  The module lowers   *)
(* any block of a bounded size, runs the passes on it one by one, and      *)
(* compares what the block does with what the lowered block did, by the    *)
(* meaning compiler/s1/emit.nr gives every operation in LLVM.              *)
(*                                                                         *)
(* An instruction is a record: its operation, the register it defines (0   *)
(* for none), the registers it reads, and an immediate (the literal of a   *)
(* const, the slot of a load or store).  Operations are those of i64.  A   *)
(* narrow one (ir_binop_t, ir_load_t, ir_store_t) carries its width, which *)
(* the emitter reads and no pass does: what it reads comes from a narrow   *)
(* load, a truncation or another narrow operation (lower_expr_narrow), and *)
(* as none of these is a known constant, no pass folds or forwards it.     *)
(***************************************************************************)
EXTENDS Integers, Sequences, FiniteSets, SequencesExt

CONSTANTS Half,       \* 2 ^ 63: an i64 is one of -Half .. Half - 1
          BitAnd(_, _), BitOr(_, _), BitXor(_, _),   \* of unsigned integers
          Ops,        \* the operations lowering may emit
          Literals,   \* the literals of the program
          Slots,      \* stack slots, numbers
          Inputs,     \* what a parameter or a call may yield
          Contents,   \* what a slot may hold before the block
          Mixes       \* bounds: what a block is made of, and how long it is

MinInt == -Half
Ints == MinInt .. Half - 1
ASSUME IntsAssumption ==
    /\ Half \in Nat \ {0} /\ (Literals \cup Inputs \cup Contents) \subseteq Ints
    /\ \A a, b \in 0 .. 2 * Half - 1 :
          {BitAnd(a, b), BitOr(a, b), BitXor(a, b)} \subseteq 0 .. 2 * Half - 1

Arithmetic == {"add", "sub", "mul", "div", "mod"}                   \* iops 2-6
Compare    == {"eq", "ne", "slt", "sgt", "sle", "sge"}              \* 7-12
Bitops     == {"and", "or", "xor"}                                  \* 13-15
Shifts     == {"shl", "ashr"}                                       \* 23, 24
UShift     == {"lshr"}                                              \* 25
Checked    == {"add_ov"}                                            \* 35-37
UCompare   == {"ult", "ugt", "ule", "uge"}                          \* 38-41
Calls      == {"call", "user_call"}                                 \* 19, 31
Branches   == {"br", "br_cond"}                                     \* 21, 22
Binary     == Arithmetic \cup Compare \cup Bitops \cup Shifts \cup UShift
                \cup Checked \cup UCompare

ASSUME OpsAssumption ==
    Ops \subseteq Binary \cup Calls \cup {"const", "param", "load", "store"}

\* No unsigned comparison or shift: pass 2 does not see their operands.
NoUnsigned == Ops \cap (UCompare \cup UShift) = {}

VARIABLES
    lowered,  \* the block as it was lowered
    block,    \* the block now
    phase,    \* "lowering", "optimizing" or "panicked"
    stage     \* the number of passes run

optimizer == <<lowered, block, phase, stage>>

Inst(op, dest, args, imm) == [op |-> op, dest |-> dest, args |-> args, imm |-> imm]
Const(dest, value) == Inst("const", dest, <<>>, value)

Unsigned(a) == a % (2 * Half)
Signed(u) == IF u >= Half THEN u - 2 * Half ELSE u
Wrap(n) == Signed(Unsigned(n))
Abs(n) == IF n < 0 THEN -n ELSE n
Quotient(a, b) == IF (a < 0) = (b < 0) THEN Abs(a) \div Abs(b) ELSE -(Abs(a) \div Abs(b))
Bool(b) == IF b THEN 1 ELSE 0

\* The map f, with the key k set to v.
With(f, k, v) == [x \in {k} \cup DOMAIN f |-> IF x = k THEN v ELSE f[x]]

-----------------------------------------------------------------------------
\* What a block does: emit_inst, and LLVM.

Exec(op, a, b) ==
    CASE op = "add" -> Wrap(a + b)
      [] op = "sub" -> Wrap(a - b)
      [] op = "mul" -> Wrap(a * b)
      [] op = "div" -> Quotient(a, b)
      [] op = "mod" -> a - b * Quotient(a, b)
      [] op = "eq"  -> Bool(a = b)
      [] op = "ne"  -> Bool(a # b)
      [] op = "slt" -> Bool(a < b)
      [] op = "sgt" -> Bool(a > b)
      [] op = "sle" -> Bool(a <= b)
      [] op = "sge" -> Bool(a >= b)
      [] op = "and" -> Signed(BitAnd(Unsigned(a), Unsigned(b)))
      [] op = "or"  -> Signed(BitOr(Unsigned(a), Unsigned(b)))
      [] op = "xor" -> Signed(BitXor(Unsigned(a), Unsigned(b)))
      [] op = "shl" -> Wrap(a * 2 ^ Unsigned(b))
      [] op = "ashr" -> a \div 2 ^ Unsigned(b)
      [] op = "lshr" -> Signed(Unsigned(a) \div 2 ^ Unsigned(b))
      [] op = "add_ov" -> a + b
      [] op = "ult" -> Bool(Unsigned(a) < Unsigned(b))
      [] op = "ugt" -> Bool(Unsigned(a) > Unsigned(b))
      [] op = "ule" -> Bool(Unsigned(a) <= Unsigned(b))
      [] op = "uge" -> Bool(Unsigned(a) >= Unsigned(b))

\* sdiv and srem by zero, or with an overflow, and checked additions
Traps(op, a, b) ==
    \/ op \in {"div", "mod"} /\ (b = 0 \/ (a = MinInt /\ b = -1))
    \/ op = "add_ov" /\ a + b \notin Ints

\* A run: the registers and slots, the arguments of the calls so far, and how
\* it ended.  Reading an undefined register makes the module invalid.
Unread(run, inst) == \E i \in DOMAIN inst.args : inst.args[i] \notin DOMAIN run.regs
ExecInst(run, inst) ==
    LET Arg(i) == run.regs[inst.args[i]]
        Def(value) == [run EXCEPT !.regs = With(@, inst.dest, value)]
        End(how, value) == [run EXCEPT !.end = <<how, value>>]
    IN  IF run.end # <<"runs", 0>> THEN run
        ELSE IF Unread(run, inst) THEN End("invalid", 0)
        ELSE CASE inst.op = "const" -> Def(inst.imm)
               [] inst.op = "param" -> Def(run.input)
               [] inst.op = "load"  -> Def(run.mem[inst.imm])
               [] inst.op = "store" -> [run EXCEPT !.mem[inst.imm] = Arg(1)]
               [] inst.op \in Calls -> [Def(run.input) EXCEPT !.trace = Append(@, Arg(1))]
               [] inst.op = "ret"   -> End("ret", Arg(1))
               [] inst.op = "br"    -> End("br", 0)
               [] inst.op = "br_cond" -> End("br_cond", Bool(Arg(1) # 0))
               [] inst.op \in Binary ->
                    IF Traps(inst.op, Arg(1), Arg(2)) THEN End("trap", inst.dest)
                    ELSE Def(Exec(inst.op, Arg(1), Arg(2)))

\* The run after each instruction of the block.
Runs(b, input, mem) ==
    LET run[i \in 0 .. Len(b)] ==
          IF i = 0
          THEN [regs |-> <<>>, mem |-> mem, trace |-> <<>>, end |-> <<"runs", 0>>, input |-> input]
          ELSE ExecInst(run[i - 1], b[i])
    IN  run
Run(b, input, mem) == Runs(b, input, mem)[Len(b)]

-----------------------------------------------------------------------------
\* Pass 1: constant folding (opt_fold_block)

Folded == Arithmetic \cup Compare \cup Bitops \cup UCompare

\* Mutant: bitwise operations are folded as logical ones (before v0.3.103).
FoldValueLogical(op, a, b) ==
    CASE op = "and" -> Bool(a # 0 /\ b # 0)
      [] op = "or" -> Bool(a # 0 \/ b # 0)
      [] OTHER -> Exec(op, a, b)

\* Unsigned comparisons are folded as signed ones of operands whose sign bits
\* were flipped by a wrapping addition, mod by way of the quotient.
FoldValue(op, a, b) ==
    LET ua == Wrap(a + MinInt)
        ub == Wrap(b + MinInt)
    IN  CASE op = "mod" -> a - Quotient(a, b) * b
          [] op = "ult" -> Bool(ua < ub)
          [] op = "ugt" -> Bool(ua > ub)
          [] op = "ule" -> Bool(ua <= ub)
          [] op = "uge" -> Bool(ua >= ub)
          [] OTHER -> Exec(op, a, b)

\* Mutant: a division by zero is folded, to 0 (before v0.3.145).
FoldInstDivides(s, inst) ==
    IF inst.op = "const"
    THEN [s EXCEPT !.known = With(@, inst.dest, inst.imm), !.out = Append(@, inst)]
    ELSE IF inst.op \in Folded /\ \A i \in 1 .. 2 : inst.args[i] \in DOMAIN s.known
    THEN LET a == s.known[inst.args[1]]
             b == s.known[inst.args[2]]
             v == IF inst.op \in {"div", "mod"} /\ b = 0 THEN 0 ELSE FoldValue(inst.op, a, b)
         IN  [s EXCEPT !.known = With(@, inst.dest, v),
                       !.out = Append(@, Const(inst.dest, v))]
    ELSE [s EXCEPT !.out = Append(@, inst)]

\* A divisor of zero is left alone; the compiler's own `/` panics on the
\* overflow of the least integer by -1.
FoldInst(s, inst) ==
    IF inst.op = "const"
    THEN [s EXCEPT !.known = With(@, inst.dest, inst.imm), !.out = Append(@, inst)]
    ELSE IF inst.op \in Folded /\ \A i \in 1 .. 2 : inst.args[i] \in DOMAIN s.known
    THEN LET a == s.known[inst.args[1]]
             b == s.known[inst.args[2]]
             v == FoldValue(inst.op, a, b)
         IN  IF inst.op \in {"div", "mod"} /\ b = 0
             THEN [s EXCEPT !.out = Append(@, inst)]
             ELSE [s EXCEPT !.known = With(@, inst.dest, v),
                            !.out = Append(@, Const(inst.dest, v)),
                            !.panics = @ \/ (inst.op \in {"div", "mod"} /\ a = MinInt /\ b = -1)]
    ELSE [s EXCEPT !.out = Append(@, inst)]

Folding(b) ==
    LET fold[i \in 0 .. Len(b)] ==
          IF i = 0 THEN [known |-> <<>>, out |-> <<>>, panics |-> FALSE]
          ELSE FoldInst(fold[i - 1], b[i])
    IN  fold
FoldPass(b) == Folding(b)[Len(b)]

-----------------------------------------------------------------------------
\* Pass 3: store-load propagation (opt_prop_block)

\* Mutant: a store of an unknown value leaves the slot's old constant.
PropInstStale(s, inst) ==
    CASE inst.op = "const" ->
            [s EXCEPT !.known = With(@, inst.dest, inst.imm), !.out = Append(@, inst)]
      [] inst.op = "store" /\ inst.args[1] \in DOMAIN s.known ->
            [s EXCEPT !.stored = With(@, inst.imm, s.known[inst.args[1]]), !.out = Append(@, inst)]
      [] inst.op = "load" /\ inst.imm \in DOMAIN s.stored ->
            [s EXCEPT !.known = With(@, inst.dest, s.stored[inst.imm]),
                      !.out = Append(@, Const(inst.dest, s.stored[inst.imm]))]
      [] OTHER -> [s EXCEPT !.out = Append(@, inst)]

\* `stored` holds the slots whose content is a known constant; a call
\* empties it.
PropInst(s, inst) ==
    CASE inst.op = "const" ->
            [s EXCEPT !.known = With(@, inst.dest, inst.imm), !.out = Append(@, inst)]
      [] inst.op = "store" /\ inst.args[1] \in DOMAIN s.known ->
            [s EXCEPT !.stored = With(@, inst.imm, s.known[inst.args[1]]), !.out = Append(@, inst)]
      [] inst.op = "store" /\ inst.args[1] \notin DOMAIN s.known ->
            [s EXCEPT !.stored = [p \in DOMAIN @ \ {inst.imm} |-> @[p]], !.out = Append(@, inst)]
      [] inst.op = "load" /\ inst.imm \in DOMAIN s.stored ->
            [s EXCEPT !.known = With(@, inst.dest, s.stored[inst.imm]),
                      !.out = Append(@, Const(inst.dest, s.stored[inst.imm]))]
      [] inst.op \in Calls -> [s EXCEPT !.stored = <<>>, !.out = Append(@, inst)]
      [] OTHER -> [s EXCEPT !.out = Append(@, inst)]

Propagating(b) ==
    LET prop[i \in 0 .. Len(b)] ==
          IF i = 0 THEN [known |-> <<>>, stored |-> <<>>, out |-> <<>>]
          ELSE PropInst(prop[i - 1], b[i])
    IN  prop
PropPass(b) == Propagating(b)[Len(b)].out

-----------------------------------------------------------------------------
\* The block without the instructions at some positions, up to each position.
Without(b, gone) ==
    LET kept[i \in 0 .. Len(b)] ==
          IF i = 0 THEN <<>> ELSE IF i \in gone THEN kept[i - 1] ELSE Append(kept[i - 1], b[i])
    IN  kept

-----------------------------------------------------------------------------
\* Pass 4: dead stores (opt_dead_store_block)

\* The stores that the block overwrites before it loads from their slot, calls
\* or ends: those that are last_store of their slot when the next comes.
Overwritten(b) ==
    {i \in DOMAIN b : \E j \in i + 1 .. Len(b) :
        /\ b[i].op = "store" /\ b[j].op = "store" /\ b[j].imm = b[i].imm
        /\ \A k \in i + 1 .. j - 1 :
              /\ b[k].op \notin Calls \cup Branches \cup {"ret"}
              /\ ~(b[k].op = "load" /\ b[k].imm = b[i].imm)}

DeadStorePass(b) == Without(b, Overwritten(b))[Len(b)]

-----------------------------------------------------------------------------
\* Pass 5: common subexpressions (opt_cse_block)

Shared    == {"const"} \cup Arithmetic \cup Compare \cup (Bitops \ {"xor"})
Rewritten == (Shared \ {"const"}) \cup {"call", "load", "store", "ret", "br_cond"}

Expression(inst) == <<inst.op, inst.args, inst.imm>>

\* Every later use of d, in the operations the pass knows, becomes a use of e.
RewriteUses(b, after, d, e) ==
    [j \in DOMAIN b |->
        IF j > after /\ b[j].op \in Rewritten
        THEN [b[j] EXCEPT !.args = [i \in DOMAIN @ |-> IF @[i] = d THEN e ELSE @[i]]]
        ELSE b[j]]

CseInst(s, i) ==
    LET inst == s.block[i]
        expr == Expression(inst)
    IN  IF inst.op \notin Shared THEN s
        ELSE IF expr \in DOMAIN s.seen
        THEN [s EXCEPT !.block = RewriteUses(@, i, inst.dest, s.seen[expr])]
        ELSE [s EXCEPT !.seen = With(@, expr, inst.dest)]

Sharing(b) ==
    LET cse[i \in 0 .. Len(b)] ==
          IF i = 0 THEN [block |-> b, seen |-> <<>>] ELSE CseInst(cse[i - 1], i)
    IN  cse
CsePass(b) == Sharing(b)[Len(b)].block

-----------------------------------------------------------------------------
\* Pass 2: dead code (opt_dce_block)

Removable == {"const", "param", "load"} \cup Arithmetic \cup Compare \cup Bitops \cup Shifts

\* Mutant: the operand of a store does not count as used.
UsedByNoStore(inst) ==
    IF inst.op \in Arithmetic \cup Compare \cup Bitops \cup Shifts \cup Checked
                     \cup Calls \cup {"ret", "br_cond"}
    THEN ToSet(inst.args) ELSE {}

\* The operands the pass collects, operation by operation: there is no case for
\* an unsigned comparison or shift.
UsedBy(inst) ==
    IF inst.op \in Arithmetic \cup Compare \cup Bitops \cup Shifts \cup Checked
                     \cup Calls \cup {"store", "ret", "br_cond"}
    THEN ToSet(inst.args) ELSE {}

Unused(b) ==
    LET used == UNION {UsedBy(b[i]) : i \in DOMAIN b}
    IN  {i \in DOMAIN b : b[i].op \in Removable /\ b[i].dest \notin used}

\* Mutant: the pass also runs on a block that ends in a branch.
DcePassAnyBlock(b) == Without(b, Unused(b))[Len(b)]

DcePass(b) ==
    IF b[Len(b)].op \in Branches THEN b ELSE Without(b, Unused(b))[Len(b)]

-----------------------------------------------------------------------------
\* The passes of opt_fn, in the order of its two rounds.
Passes == <<"fold", "prop", "fold", "cse", "dead_store", "dce",
            "fold", "prop", "fold", "dead_store", "dce">>

OptimizerInit == lowered = <<>> /\ block = <<>> /\ phase = "lowering" /\ stage = 0

Registers == {block[i].dest : i \in DOMAIN block} \ {0}
NextRegister == Cardinality(Registers) + 1

\* Lowering appends an instruction: every register is defined once, before
\* its uses.
Lower(inst) ==
    /\ phase = "lowering"
    /\ inst.op \in Ops
    /\ \E mix \in Mixes :
          /\ Len(block) < mix.insts
          /\ \A i \in Range(block) \cup {inst} : <<i.op, i.imm>> \in mix.made
    /\ block' = Append(block, inst)
    /\ lowered' = block'
    /\ UNCHANGED <<phase, stage>>

LowerLeaf ==
    \/ \E v \in Literals : Lower(Const(NextRegister, v))
    \/ Lower(Inst("param", NextRegister, <<>>, 0))
    \/ \E p \in Slots : Lower(Inst("load", NextRegister, <<>>, p))

LowerStore == \E r \in Registers, p \in Slots : Lower(Inst("store", 0, <<r>>, p))

LowerCall == \E op \in Calls, r \in Registers : Lower(Inst(op, NextRegister, <<r>>, 0))

LowerBinary ==
    \E op \in Binary \cap Ops, a, b \in Registers : Lower(Inst(op, NextRegister, <<a, b>>, 0))

Terminate ==
    /\ phase = "lowering"
    /\ \/ \E r \in Registers : block' = Append(block, Inst("ret", 0, <<r>>, 0))
       \/ block' = Append(block, Inst("br", 0, <<>>, 0))
       \/ \E r \in Registers : block' = Append(block, Inst("br_cond", 0, <<r>>, 0))
    /\ lowered' = block'
    /\ phase' = "optimizing"
    /\ UNCHANGED stage

\* The next pass of the list is `name`, and rewrites the block.
Pass(name, rewritten) ==
    /\ phase = "optimizing"
    /\ stage < Len(Passes) /\ Passes[stage + 1] = name
    /\ block' = rewritten
    /\ stage' = stage + 1
    /\ UNCHANGED <<lowered, phase>>

OptFold == Pass("fold", FoldPass(block).out) /\ ~FoldPass(block).panics
OptProp == Pass("prop", PropPass(block))
OptCse == Pass("cse", CsePass(block))
OptDeadStore == Pass("dead_store", DeadStorePass(block))
OptDce == Pass("dce", DcePass(block))

\* The compiler exits inside a fold.
FoldPanics ==
    /\ phase = "optimizing"
    /\ stage < Len(Passes) /\ Passes[stage + 1] = "fold" /\ FoldPass(block).panics
    /\ phase' = "panicked"
    /\ UNCHANGED <<lowered, block, stage>>

OptimizerNext ==
    \/ LowerLeaf \/ LowerStore \/ LowerCall \/ LowerBinary \/ Terminate
    \/ OptFold \/ FoldPanics \/ OptProp \/ OptCse \/ OptDeadStore \/ OptDce

OptimizerSpec == OptimizerInit /\ [][OptimizerNext]_optimizer

-----------------------------------------------------------------------------
\* What the slots that a block uses may hold before it.
SlotsOf(b) == {i.imm : i \in {i \in Range(b) : i.op \in {"load", "store"}}}
Memories(b) == [SlotsOf(b) -> Contents]
Uses(b, r) == \E i \in DOMAIN b : r \in ToSet(b[i].args)

\* The fold computes what the emitted instruction would, for all operands of
\* the width that do not trap: "folded == unfolded for any computable constant
\* pair" (optim.nr:87).  It speaks of the operators alone, so one state is
\* enough to check it in: before the first pass, on a block that only branches.
FoldMatchesEmit ==
    phase = "optimizing" /\ stage = 0 /\ Len(block) = 1 =>
        \A op \in Folded, a, b \in Ints :
            ~Traps(op, a, b) => FoldValue(op, a, b) = Exec(op, a, b)

\* Every register an instruction reads is defined before it in the block: a
\* pass that removes or redirects a definition leaves no use behind, and LLVM
\* accepts the block.  optim.nr:207 says of the dead code pass that it "removes
\* instructions whose dest register is never used by any later instruction".
UsesDefined ==
    \A i \in DOMAIN block :
        \A r \in ToSet(block[i].args) : \E j \in 1 .. i - 1 : block[j].dest = r

\* After any number of passes, for all inputs, the block makes the calls the
\* lowered block made, with the same arguments, and ends as it did.
MeaningPreserved ==
    block # lowered =>
        \A input \in Inputs, mem \in Memories(lowered) :
            LET was == Run(lowered, input, mem)
                now == Run(block, input, mem)
            IN  IF was.end[1] # "trap" THEN now.end = was.end /\ now.trace = was.trace
                ELSE IsPrefix(was.trace, now.trace)

\* What the blocks after a branch may still read is as it was: every register
\* the lowered block defined, and every slot.
SuccessorsSeeSame ==
    block # lowered /\ Last(lowered).op \in Branches =>
        \A input \in Inputs, mem \in Memories(lowered) :
            LET was == Run(lowered, input, mem)
                now == Run(block, input, mem)
            IN  was.end[1] # "trap" => now.regs = was.regs /\ now.mem = was.mem

\* A trap that this step takes away was that of a division nothing used.
LostTrapsAreUnused ==
    \A input \in Inputs, mem \in Memories(block) :
        LET was == Run(block, input, mem)
            now == Run(block', input, mem)
        IN  phase = "optimizing" /\ was.end[1] = "trap" /\ now.end # was.end =>
               /\ ~Uses(block, was.end[2])
               /\ \E i \in DOMAIN block :
                     block[i].dest = was.end[2] /\ block[i].op \in {"div", "mod"}

\* A trap is "a loud failure the adopter actually sees" (optim.nr:71): a pass
\* takes away only a division that nothing in its block uses, and never the
\* trap of a checked addition.
OnlyUnusedTrapsVanish == [][LostTrapsAreUnused]_optimizer
=============================================================================
