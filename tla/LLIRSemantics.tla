---------------------------- MODULE LLIRSemantics ----------------------------
(***************************************************************************)
(* The low-level intermediate representation with its operands, and what   *)
(* the code generator makes of it: the reference the optimizer's passes    *)
(* are measured against.  A function is a list of instructions and the     *)
(* types of its virtual registers.  Virtual registers are numbered from 1; *)
(* 0 is a NULL operand.                                                    *)
(*                                                                         *)
(* A `long' has WordBits bits and stands for 64; an `int' has HalfBits and *)
(* stands for 32.  Floating-point values, aggregates, atomics, alloca and  *)
(* inline assembly are left out.                                           *)
(***************************************************************************)
EXTENDS Integers, Sequences, FiniteSets, SequencesExt

CONSTANTS
  WordBits,  \* the width of a register and of a memory cell
  HalfBits,  \* the width of the narrow integer types
  Labels,    \* names of labels
  None,      \* a NULL label
  Fuel       \* stretches of 16 instructions a run may take before it counts as endless

ASSUME Widths == WordBits \in Nat /\ HalfBits \in 1 .. WordBits
ASSUME NoneIsNoLabel == None \notin Labels
ASSUME FuelIsNat == Fuel \in Nat

Ty(size, unsigned) == [size |-> size, unsigned |-> unsigned]
LongTy == Ty(WordBits, FALSE)
ULongTy == Ty(WordBits, TRUE)
IntTy == Ty(HalfBits, FALSE)
UIntTy == Ty(HalfBits, TRUE)
BoolTy == Ty(1, TRUE)
Types == {LongTy, ULongTy, IntTy, UIntTy}

Compares == {"eq", "ne", "lt", "le", "gt", "ge"}
BinaryOps == {"add", "sub", "mul", "div", "mod", "and", "or", "xor", "shl", "shr"} \cup Compares
UnaryOps == {"neg", "not", "lognot"}
Kinds == {"imm", "mov", "addr", "load", "store", "cast", "label", "jmp", "br", "call", "ret"}
         \cup BinaryOps \cup UnaryOps

(* A load reads the cell src1 points to, a store writes src2 there; a call  *)
(* passes src1.  isImm: imm replaces src2.  hasMem: the cell is base + imm, *)
(* or imm alone when base is 0.  The address of a variable is its imm.      *)
Blank == [kind |-> "label", dst |-> 0, src1 |-> 0, src2 |-> 0, imm |-> 0,
          label |-> None, labelTrue |-> None, labelFalse |-> None,
          isImm |-> FALSE, hasMem |-> FALSE, base |-> 0, disp |-> 0]

(* ir_is_cf_barrier: where block-local knowledge ends. *)
Barrier(insn) == insn.kind \in {"label", "br", "jmp", "call", "ret"}

(* ir_insn_has_side_effects *)
HasSideEffects(insn) == insn.kind \in {"store", "call", "ret", "br", "jmp", "label"}

RegsOf(fn) == 1 .. Len(fn.ty)
Sources(insn) == {insn.src1, insn.src2, insn.base} \ {0}
DefsOf(code, v) == {i \in DOMAIN code : code[i].dst = v}

(* ir_remove_insn, ir_insert_before *)
Without(code, i) == RemoveAt(code, i)
Before(code, i, insn) == InsertAt(code, i, insn)

-----------------------------------------------------------------------------
(* Arithmetic at a type's width. *)

Wrap(n, ty) ==
  LET m == n % 2 ^ ty.size IN
  IF ty.unsigned \/ m < 2 ^ (ty.size - 1) THEN m ELSE m - 2 ^ ty.size

Fits(n, ty) == Wrap(n, ty) = n

Bits(n, size) == {i \in 0 .. size - 1 : (n \div 2 ^ i) % 2 = 1}
FromBits(S, size) == CHOOSE m \in 0 .. 2 ^ size - 1 : Bits(m, size) = S

Abs(n) == IF n < 0 THEN -n ELSE n
Sign(n) == IF n < 0 THEN -1 ELSE 1
Quotient(a, b) == Sign(a) * Sign(b) * (Abs(a) \div Abs(b))
Truth(b) == IF b THEN 1 ELSE 0

(* a op b on operands already of the type's range, before wrapping. *)
Exact(kind, a, b, ty) ==
  CASE kind = "add" -> a + b
    [] kind = "sub" -> a - b
    [] kind = "mul" -> a * b
    [] kind = "div" -> Quotient(a, b)
    [] kind = "mod" -> a - b * Quotient(a, b)
    [] kind = "and" -> FromBits(Bits(a, ty.size) \cap Bits(b, ty.size), ty.size)
    [] kind = "or"  -> FromBits(Bits(a, ty.size) \cup Bits(b, ty.size), ty.size)
    [] kind = "xor" -> FromBits(SymDiff(Bits(a, ty.size), Bits(b, ty.size)), ty.size)
    [] kind = "shl" -> a * 2 ^ (b % ty.size)
    [] kind = "shr" -> a \div 2 ^ (b % ty.size)
    [] kind = "eq"  -> Truth(a = b)
    [] kind = "ne"  -> Truth(a # b)
    [] kind = "lt"  -> Truth(a < b)
    [] kind = "le"  -> Truth(a <= b)
    [] kind = "gt"  -> Truth(a > b)
    [] kind = "ge"  -> Truth(a >= b)

(* Where C leaves the result undefined. *)
Undefined(kind, a, b, ty) ==
  \/ kind \in {"div", "mod"} /\ b = 0
  \/ kind \in {"shl", "shr"} /\ b \notin 0 .. ty.size - 1
  \/ kind \in {"add", "sub", "mul", "div", "mod", "shl"} /\ ~ty.unsigned
     /\ b # 0 /\ ~Fits(Exact(IF kind = "mod" THEN "div" ELSE kind, a, b, ty), ty)

Unary(kind, a) ==
  CASE kind = "neg" -> -a
    [] kind = "not" -> -a - 1
    [] kind = "lognot" -> Truth(a = 0)

-----------------------------------------------------------------------------
(* Execution.  A machine state: the next instruction, the registers, the    *)
(* memory cells, what the calls made so far were given, and how the run     *)
(* ended ("" while it goes on, "undefined" where C promises nothing).       *)

Word == 0 .. 2 ^ WordBits - 1
Cell(n) == n % 2 ^ WordBits

Start(fn, memory) ==
  [pc |-> 1, regs |-> [v \in RegsOf(fn) |-> 0], mem |-> memory, out |-> <<>>, end |-> ""]

LabelAt(code, name) ==
  CHOOSE i \in DOMAIN code : code[i].kind = "label" /\ code[i].label = name

(* The second operand, which legalization may have made an immediate. *)
Second(fn, m, insn) == IF insn.isImm THEN insn.imm ELSE m.regs[insn.src2]

(* Comparisons are made at the wider operand's size with the signedness of  *)
(* the first (x86_emit_int_compare), everything else in the result's type.  *)
OperandType(fn, insn) ==
  IF insn.kind \in Compares
  THEN LET s1 == fn.ty[insn.src1].size
           s2 == IF insn.src2 = 0 THEN s1 ELSE fn.ty[insn.src2].size
       IN Ty(IF s1 > s2 THEN s1 ELSE s2, fn.ty[insn.src1].unsigned)
  ELSE fn.ty[insn.dst]

Address(m, insn) ==
  IF ~insn.hasMem THEN Cell(m.regs[insn.src1])
  ELSE Cell((IF insn.base = 0 THEN 0 ELSE m.regs[insn.base]) + insn.disp)

(* A narrow store leaves the upper half of the cell alone. *)
Stored(old, value, ty) == (old - (old % 2 ^ ty.size)) + (value % 2 ^ ty.size)

Goto(fn, m, name) == [m EXCEPT !.pc = IF name = None THEN m.pc + 1 ELSE LabelAt(fn.code, name)]

(* The value an instruction computes, for one that only computes a value,   *)
(* and whether C leaves it undefined.                                        *)
Computing == {"imm", "addr", "mov", "cast", "load"} \cup UnaryOps \cup BinaryOps

FirstOperand(fn, m, insn) == Wrap(m.regs[insn.src1], OperandType(fn, insn))
SecondOperand(fn, m, insn) == Wrap(Second(fn, m, insn), OperandType(fn, insn))

Traps(fn, m, insn) ==
  \/ insn.kind = "neg" /\ ~fn.ty[insn.dst].unsigned /\ ~Fits(-m.regs[insn.src1], fn.ty[insn.dst])
  \/ insn.kind \in BinaryOps
     /\ Undefined(insn.kind, FirstOperand(fn, m, insn), SecondOperand(fn, m, insn), OperandType(fn, insn))

Computed(fn, m, insn) ==
  CASE insn.kind \in {"imm", "addr"} -> insn.imm
    [] insn.kind = "mov" -> m.regs[insn.src1]
    [] insn.kind = "cast" -> IF fn.ty[insn.dst] = BoolTy THEN Truth(m.regs[insn.src1] # 0) ELSE m.regs[insn.src1]
    [] insn.kind = "load" -> m.mem[Address(m, insn)]
    [] insn.kind \in UnaryOps -> Unary(insn.kind, m.regs[insn.src1])
    [] insn.kind \in BinaryOps ->
         Exact(insn.kind, FirstOperand(fn, m, insn), SecondOperand(fn, m, insn), OperandType(fn, insn))

SetReg(fn, m, v, value) == [m EXCEPT !.pc = @ + 1, !.regs[v] = Wrap(value, fn.ty[v])]

(* The function called stands for any: it sees its argument and the variable *)
(* in cell 0, and changes that variable.                                     *)
Step(fn, m) ==
  LET insn == fn.code[m.pc] IN
  CASE insn.kind \in Computing ->
         IF Traps(fn, m, insn) THEN [m EXCEPT !.end = "undefined"] ELSE SetReg(fn, m, insn.dst, Computed(fn, m, insn))
    [] insn.kind = "store" ->
         [m EXCEPT !.pc = @ + 1,
                   !.mem[Address(m, insn)] = Stored(@, m.regs[insn.src2], fn.ty[insn.src2])]
    [] insn.kind = "call" ->
         [m EXCEPT !.pc = @ + 1, !.out = Append(@, <<m.regs[insn.src1], m.mem[0]>>), !.mem[0] = Cell(@ + 1)]
    [] insn.kind = "label" -> [m EXCEPT !.pc = @ + 1]
    [] insn.kind = "jmp" -> Goto(fn, m, insn.label)
    [] insn.kind = "br" -> Goto(fn, m, IF m.regs[insn.src1] # 0 THEN insn.labelTrue ELSE insn.labelFalse)
    [] insn.kind = "ret" ->
         [m EXCEPT !.end = "return", !.out = Append(@, <<IF insn.src1 = 0 THEN 0 ELSE m.regs[insn.src1]>>)]

(* A loop body applied n times. *)
Times(n, Body(_), state) ==
  LET After[k \in 0 .. n] == IF k = 0 THEN state ELSE LET s == After[k - 1] IN Body(s)
  IN After[n]

(* The next instruction of a run, where Execute says what one does; nothing  *)
(* more once the run has ended.                                              *)
Advanced(Execute(_, _), fn, m) ==
  IF m.end # "" THEN m ELSE IF m.pc \in DOMAIN fn.code THEN Execute(fn, m) ELSE [m EXCEPT !.end = "return"]

Stretch(Execute(_, _), fn, m) ==
  IF m.end # "" THEN m ELSE Times(16, LAMBDA s : Advanced(Execute, fn, s), m)

(* What a caller sees of a run: the calls, the value returned and the memory *)
(* it leaves.                                                                *)
OutcomeUnder(Execute(_, _), fn, memory) ==
  LET final == Times(Fuel, LAMBDA m : Stretch(Execute, fn, m), Start(fn, memory))
  IN [end |-> final.end, out |-> final.out, mem |-> final.mem]

Outcome(fn, memory) == OutcomeUnder(Step, fn, memory)

(* The same function as the register allocator sees it.                     *)
Allocator(V) == INSTANCE LLIR WITH VRegs <- V

ForAllocator(insn) ==
  [kind |-> IF insn.kind \in {"call", "label", "jmp", "br", "ret"} THEN insn.kind ELSE "op",
   dst |-> IF insn.dst = 0 THEN None ELSE insn.dst,
   srcs |-> Sources(insn),
   label |-> insn.label, labelTrue |-> insn.labelTrue, labelFalse |-> insn.labelFalse]

Flow(fn) == [i \in DOMAIN fn.code |-> ForAllocator(fn.code[i])]

(* The instructions before which v is still to be read. *)
LiveBefore(fn, v) == {p + 1 : p \in Allocator(RegsOf(fn))!LiveIn(Flow(fn), v)}

(* Nothing is asked where the original is undefined; a run that does not    *)
(* end may be made faster but not changed.                                  *)
SameOutcome(before, after) ==
  \/ before.end = "undefined"
  \/ before.end = "return" /\ after = before
  \/ before.end = "" /\ after.end = "" /\ (IsPrefix(before.out, after.out) \/ IsPrefix(after.out, before.out))
=============================================================================
