------------------------------- MODULE CodeGen -------------------------------
(***************************************************************************)
(* codegen/x86_64/x86_64.c: the text of one function, an instruction at a  *)
(* time, from legalized LLIR whose virtual registers have been given homes. *)
(* A value the analysis at the start finds foldable is never computed on   *)
(* its own: an address, a constant or a comparison becomes part of the     *)
(* instructions that use it.  cached_rax_vreg remembers whose value %rax   *)
(* holds, so that it need not be loaded again.                             *)
(*                                                                         *)
(* When the text is complete it is run, in step with the LLIR: Run executes *)
(* one instruction by LLIRSemantics and the lines printed for it by Executed.*)
(***************************************************************************)
EXTENDS LLIRPasses

-----------------------------------------------------------------------------
(***************************************************************************)
(* The part of an x86-64 processor that codegen/x86_64/x86_64.c writes text *)
(* for: general registers, the frame slots of spilled virtual registers,    *)
(* memory cells and the outcome of the last comparison.  A register has     *)
(* WordBits bits, its named parts HalfBits ("%eax") and ByteBits ("%al").   *)
(* Nothing here is the compiler's: it is the ground its text stands on.     *)
(***************************************************************************)
CONSTANTS
  ByteBits,    \* the width of a char
  ScratchRegs  \* the registers of the pool that a call may change

ASSUME ByteWidth == ByteBits \in 2 .. HalfBits

(* Operands.  A cell is addressed by a register and a displacement, or, for *)
(* a variable, by the displacement alone.                                   *)
NoOperand == [mode |-> "none", reg |-> "", n |-> 0]
Reg(r) == [NoOperand EXCEPT !.mode = "reg", !.reg = r]
Const(n) == [NoOperand EXCEPT !.mode = "const", !.n = n]
Slot(v) == [NoOperand EXCEPT !.mode = "slot", !.n = v]
Mem(r, disp) == [NoOperand EXCEPT !.mode = "mem", !.reg = r, !.n = disp]

(* A line of text.  "size" is what is written, "from" what is read. *)
Text(op, size, src, dst) ==
  [op |-> op, size |-> size, from |-> size, unsigned |-> TRUE, src |-> src, dst |-> dst, cc |-> "", label |-> None]
Move(from, unsigned, size, src, dst) ==
  [Text("move", size, src, dst) EXCEPT !.from = from, !.unsigned = unsigned]
movq(src, dst) == Text("move", WordBits, src, dst)

NoComparison == [equal |-> FALSE, less |-> FALSE, below |-> FALSE]
Junk == 2 ^ WordBits - 2  \* what is left in a register nobody may read
Registers == {"rax", "rcx", "rdx", "rdi", "rbx", "r12", "r11"}

PowerOn(vregs, memory) ==
  [pc |-> 1, regs |-> [r \in Registers |-> Junk], slots |-> [v \in vregs |-> Junk],
   mem |-> memory, flags |-> NoComparison, out |-> <<>>, fault |-> FALSE]

CellOf(c, x) == Cell((IF x.reg = "" THEN 0 ELSE c.regs[x.reg]) + x.n)
Contents(c, x) ==
  CASE x.mode = "reg"   -> c.regs[x.reg]
    [] x.mode = "const" -> Cell(x.n)
    [] x.mode = "slot"  -> c.slots[x.n]
    [] x.mode = "mem"   -> c.mem[CellOf(c, x)]
ReadAs(c, x, ty) == Wrap(Contents(c, x), ty)

(* Writing half a register clears the rest of it; writing a byte, or memory, *)
(* leaves the rest alone.                                                    *)
Write(c, x, size, value) ==
  LET merged == Stored(Contents(c, x), value, Ty(size, TRUE)) IN
  CASE x.mode = "reg" -> [c EXCEPT !.regs[x.reg] = IF size < HalfBits THEN merged ELSE value % 2 ^ size]
    [] x.mode = "slot" -> [c EXCEPT !.slots[x.n] = merged]
    [] x.mode = "mem" -> [c EXCEPT !.mem[CellOf(c, x)] = merged]

Compared(c, line) ==
  LET As(unsigned) == [x \in {line.src, line.dst} |-> ReadAs(c, x, Ty(line.size, unsigned))] IN
  [equal |-> As(TRUE)[line.dst] = As(TRUE)[line.src],
   less  |-> As(FALSE)[line.dst] < As(FALSE)[line.src],
   below |-> As(TRUE)[line.dst] < As(TRUE)[line.src]]

Holds(cc, f) ==
  CASE cc = "e"  -> f.equal               [] cc = "ne" -> ~f.equal
    [] cc = "l"  -> f.less                [] cc = "ge" -> ~f.less
    [] cc = "le" -> f.less \/ f.equal     [] cc = "g"  -> ~f.less /\ ~f.equal
    [] cc = "b"  -> f.below               [] cc = "ae" -> ~f.below
    [] cc = "be" -> f.below \/ f.equal    [] cc = "a"  -> ~f.below /\ ~f.equal

(* (rdx:rax) / rcx; the quotient must fit. *)
Divided(c, line) ==
  LET ty == Ty(line.size, line.unsigned)
      top == ReadAs(c, Reg("rdx"), ty)
      n == top * 2 ^ line.size + ReadAs(c, Reg("rax"), Ty(line.size, TRUE))
      d == ReadAs(c, line.src, ty)
  IN IF d = 0 THEN [c EXCEPT !.fault = TRUE]
     ELSE IF ~Fits(Quotient(n, d), ty) THEN [c EXCEPT !.fault = TRUE]
     ELSE Write(Write(c, Reg("rax"), line.size, Quotient(n, d)), Reg("rdx"), line.size, n - d * Quotient(n, d))

(* The shift count is taken modulo the width of what is shifted. *)
Shifted(c, line) ==
  LET by == Contents(c, line.src) % line.size
      x == ReadAs(c, line.dst, Ty(line.size, line.op # "sar"))
  IN IF line.op = "shl" THEN x * 2 ^ by ELSE x \div 2 ^ by

(* The function called sees its argument at its parameter's width and the   *)
(* variable in cell 0, which it changes, with every register a call may.    *)
Called(c, line) ==
  [c EXCEPT !.out = Append(@, <<ReadAs(c, Reg("rdi"), Ty(line.size, line.unsigned)), c.mem[0]>>),
            !.mem[0] = Cell(@ + 1),
            !.regs = [r \in Registers |-> IF r \in ScratchRegs \cup {"rax", "rcx", "rdx", "rdi"} THEN Junk ELSE @[r]]]

Jumped(c, text, name) ==
  [c EXCEPT !.pc = IF name = None THEN Len(text) + 1
                   ELSE CHOOSE i \in DOMAIN text : text[i].op = "label" /\ text[i].label = name]

(* One line.  A jump to no label is one to the epilogue. *)
Executed(c, text) ==
  LET line == text[c.pc]
      ty == Ty(line.size, TRUE)
      next == [c EXCEPT !.pc = @ + 1]
      Result(n) == Write(next, line.dst, line.size, n)
  IN CASE line.op = "move" -> Result(ReadAs(c, line.src, Ty(line.from, line.unsigned)))
       [] line.op = "lea" -> Result(CellOf(c, line.src))
       [] line.op \in {"add", "sub", "mul", "and", "or", "xor"} ->
            Result(Exact(line.op, ReadAs(c, line.dst, ty), ReadAs(c, line.src, ty), ty))
       [] line.op \in {"neg", "not"} -> Result(Unary(line.op, ReadAs(c, line.dst, ty)))
       [] line.op \in {"shl", "shr", "sar"} -> Result(Shifted(c, line))
       [] line.op = "extend" ->  \* cdq, cqo
            Write(next, Reg("rdx"), line.size, IF ReadAs(c, Reg("rax"), Ty(line.size, FALSE)) < 0 THEN -1 ELSE 0)
       [] line.op = "div" -> Divided(next, line)
       [] line.op = "cmp" -> [next EXCEPT !.flags = Compared(c, line)]
       [] line.op = "set" -> Result(Truth(Holds(line.cc, c.flags)))
       [] line.op = "label" -> next
       [] line.op = "jmp" -> Jumped(c, text, line.label)
       [] line.op = "jcc" -> IF Holds(line.cc, c.flags) THEN Jumped(c, text, line.label) ELSE next
       [] line.op = "call" -> Called(next, line)

-----------------------------------------------------------------------------
CONSTANTS
  Functions,  \* legalized functions
  Symbols(_), \* the names one may have
  Homes(_),   \* what the allocator may make of one: a home for each register
  Inputs,     \* the memories a function is called with
  Spilled     \* the home of a virtual register that has a frame slot

VARIABLES
  fn,      \* the LLIR function
  symbol,  \* its name
  home,    \* phys_reg: a register, or Spilled
  mat,     \* current_needs_mat
  text,    \* the lines printed
  starts,  \* the first line of every instruction
  cached,  \* cached_rax_vreg
  claims,  \* what cached_rax_vreg was after every instruction
  ref,     \* the LLIR's state, Idle before the run
  cpu,     \* the machine's
  live     \* where every virtual register is still to be read (history)

genVars == <<fn, symbol, home, mat, text, starts, cached, claims, ref, cpu, live>>

Vregs == RegsOf(fn)
Idle == <<>>
Size(v) == IF fn.ty[v].size < ByteBits THEN ByteBits ELSE fn.ty[v].size
Unsigned(v) == fn.ty[v].unsigned /\ fn.ty[v] # BoolTy  \* ty_bool is signed

(* Whatever is narrower than a register is computed in its lower half. *)
Width(size) == IF size <= HalfBits THEN HalfBits ELSE WordBits

-----------------------------------------------------------------------------
(* What need not be computed. *)

(* def_insn, of a value with one definition only. *)
Def(v) ==
  LET defs == DefsOf(fn.code, v) IN
  IF v # 0 /\ Cardinality(defs) = 1 THEN fn.code[CHOOSE i \in defs : TRUE] ELSE Null

Tests == Compares \cup {"lognot"}
IsImm(v) == Def(v).kind = "imm"
Imm32(v) == IsImm(v) /\ Immediate(Def(v).imm)
Users(v) == {i \in DOMAIN fn.code : v \in Sources(fn.code[i])}
IsArgument(v, i) == fn.code[i].kind = "call"

FoldsIntoAccess(v, i) ==
  fn.code[i].src1 = v /\ fn.code[i].src2 # v /\ fn.code[i].base # v /\ fn.code[i].kind \in {"load", "store"}

(* Mutant: a constant on the left of any operation. *)
FoldsOnEitherSide(v, i) ==
  LET insn == fn.code[i] IN
  insn.base # v /\ ~IsArgument(v, i) /\ Imm32(v) /\ insn.kind \in {"add", "sub", "mul", "and", "or", "xor"}

FoldsAsImmediate(v, i) ==
  LET insn == fn.code[i] IN
  /\ insn.base # v /\ ~IsArgument(v, i)
  /\ insn.src1 = v => Imm32(v) /\ insn.kind \in {"add", "mul", "and", "or", "xor"} /\ ~IsImm(insn.src2)
  /\ insn.src2 = v =>
       \/ insn.kind \in {"shl", "shr"}
       \/ Imm32(v) /\ insn.kind \in {"add", "sub", "mul", "and", "or", "xor", "store"} \cup Compares

FoldsIntoBranch(v, i) == fn.code[i].kind = "br" /\ fn.code[i].src1 = v

Folds(v) ==
  \/ Def(v).kind = "addr" /\ \A i \in Users(v) : FoldsIntoAccess(v, i)
  \/ IsImm(v) /\ \A i \in Users(v) : FoldsAsImmediate(v, i)
  \/ Def(v).kind \in Tests /\ \A i \in Users(v) : FoldsIntoBranch(v, i)

(* A branch makes the comparison it depends on itself, and does not use its *)
(* result; nor do instructions found unused, but for comparisons, whose      *)
(* operands stay in use.                                                     *)
Pure == ({"imm", "addr", "mov", "cast"} \cup BinaryOps \cup UnaryOps) \ {"mul", "div", "mod"}

Unused(v, skipped) ==
  /\ Def(v).kind \in Pure
  /\ \A i \in Users(v) : \/ FoldsIntoBranch(v, i) /\ Def(v).kind \in Tests
                         \/ fn.code[i].dst \in skipped /\ fn.code[i].kind \notin Tests

compute_materialization ==
  LET Unneeded[n \in 0 .. Len(fn.ty)] ==
        IF n = 0 THEN {} ELSE LET skipped == Unneeded[n - 1] IN skipped \cup {v \in Vregs : Unused(v, skipped)}
      dead == Unneeded[Len(fn.ty)]
  IN [v \in Vregs |-> ~(v \in dead \/ Folds(v))]

-----------------------------------------------------------------------------
(* Loading and storing virtual registers.  g: the lines so far and what is  *)
(* in %rax.                                                                 *)

rax == Reg("rax")
rcx == Reg("rcx")
rdx == Reg("rdx")

println(g, line) == [g EXCEPT !.text = Append(@, line)]
Caching(g, v) == [g EXCEPT !.cached = v]

InReg(v) == v # 0 /\ home[v] # Spilled
Home(v) == IF InReg(v) THEN Reg(home[v]) ELSE Slot(v)

(* Mutant: a cached value is taken to be wherever it is wanted. *)
LoadUncached(g, v, reg) ==
  IF v = 0 \/ g.cached = v \/ Home(v) = reg THEN g
  ELSE println(g, Move(Size(v), Unsigned(v), WordBits, Home(v), reg))

load_vreg(g, v, reg) ==
  LET cache == IF reg = rax THEN v ELSE 0
      wide == println(g, movq(Slot(v), reg))
      narrow == println(g, Move(Size(v), Unsigned(v), IF Unsigned(v) THEN HalfBits ELSE WordBits, Slot(v), reg))
  IN CASE v = 0 \/ (reg = rax /\ g.cached = v) -> g
       [] InReg(v) /\ Home(v) = reg -> g
       [] InReg(v) /\ Home(v) # reg ->
            Caching(println(g, movq(Home(v), reg)), IF reg = rax THEN v ELSE g.cached)
       [] ~InReg(v) /\ reg # rax /\ v # 0 /\ g.cached = v -> println(g, movq(rax, reg))
       [] ~InReg(v) /\ v # 0 /\ g.cached # v /\ Size(v) < WordBits -> Caching(narrow, cache)
       [] ~InReg(v) /\ v # 0 /\ g.cached # v /\ Size(v) = WordBits ->
            IF reg = rax THEN Caching(wide, v) ELSE wide

store_vreg(g, reg, v) ==
  LET cache == IF reg = rax THEN v ELSE 0 IN
  CASE v = 0 -> g
    [] v # 0 /\ ~mat[v] -> Caching(g, cache)
    [] v # 0 /\ mat[v] /\ InReg(v) -> Caching(IF Home(v) = reg THEN g ELSE println(g, movq(reg, Home(v))), cache)
    [] v # 0 /\ mat[v] /\ ~InReg(v) ->
         Caching(println(g, movq(reg, Slot(v))), IF reg = rax THEN v ELSE g.cached)

(* The register an instruction may read v from, %rax or %rdx otherwise.     *)
Fetched(g, v, reg) ==
  IF InReg(v) THEN [g |-> g, at |-> Home(v)] ELSE [g |-> load_vreg(g, v, reg), at |-> reg]

(* An instruction computes in its result's register if it has one, and else *)
(* in %rax.                                                                 *)
Target(v) == IF InReg(v) THEN Home(v) ELSE rax
Finished(g, dst) == IF InReg(dst) THEN g ELSE store_vreg(g, rax, dst)

x86_get_insn_addr(g, insn) ==
  LET v == IF insn.hasMem THEN insn.base ELSE insn.src1
      base == Fetched(g, v, rax)
  IN IF v = 0 THEN [g |-> g, at |-> Mem("", insn.disp)]
     ELSE [g |-> base.g, at |-> Mem(base.at.reg, IF insn.hasMem THEN insn.disp ELSE 0)]

-----------------------------------------------------------------------------
(* Arithmetic. *)

x86_emit_load_imm(g, insn) == Finished(println(g, movq(Const(insn.imm), Target(insn.dst))), insn.dst)

EmitLea(g, insn) ==
  Finished(println(g, Text("lea", WordBits, Mem("", insn.imm), Target(insn.dst))), insn.dst)

(* reg op= v, fetched through "by" when it has no register. *)
Combine(g, op, size, v, by, reg) ==
  LET b == Fetched(g, v, by) IN println(b.g, Text(op, size, b.at, reg))

CommutativeOps == {"add", "mul", "and", "or", "xor"}

(* The constant operand, and the other one. *)
ImmediateOf(insn) ==
  CASE insn.isImm -> [is |-> TRUE, imm |-> insn.imm, base |-> insn.src1]
    [] ~insn.isImm /\ Imm32(insn.src2) -> [is |-> TRUE, imm |-> Def(insn.src2).imm, base |-> insn.src1]
    [] ~insn.isImm /\ ~Imm32(insn.src2) /\ insn.kind \in CommutativeOps /\ Imm32(insn.src1) ->
         [is |-> TRUE, imm |-> Def(insn.src1).imm, base |-> insn.src2]
    [] OTHER -> [is |-> FALSE, imm |-> 0, base |-> 0]

x86_64_emit_binop_imm(g, insn) ==
  LET c == ImmediateOf(insn)
      size == Width(Size(insn.dst))
      reg == Target(insn.dst)
      At(v) == InReg(insn.dst) /\ InReg(v) /\ Home(v) = reg
      loaded == load_vreg(g, c.base, reg)
  IN Finished(
       CASE c.is -> IF insn.kind \in {"add", "sub"} /\ c.imm = 0 THEN loaded
                    ELSE println(loaded, Text(insn.kind, size, Const(c.imm), reg))
         [] ~c.is /\ At(insn.src1) -> Combine(g, insn.kind, size, insn.src2, rdx, reg)
         [] ~c.is /\ ~At(insn.src1) /\ insn.kind \in CommutativeOps /\ At(insn.src2) ->
              Combine(g, insn.kind, size, insn.src1, rax, reg)
         [] OTHER -> Combine(load_vreg(g, insn.src1, reg), insn.kind, size, insn.src2, rdx, reg),
       insn.dst)

x86_64_emit_divmod(g, insn) ==
  LET size == Width(fn.ty[insn.dst].size)
      signed == ~Unsigned(insn.dst)
      loaded == load_vreg(load_vreg(g, insn.src1, rax), insn.src2, rcx)
      extended == println(loaded, IF signed THEN Text("extend", size, rax, rdx) ELSE movq(Const(0), rdx))
      divided == println(extended, [Text("div", size, rcx, rax) EXCEPT !.unsigned = ~signed])
  IN store_vreg(divided, IF insn.kind = "mod" THEN rdx ELSE rax, insn.dst)

x86_64_emit_shift(g, insn) ==
  LET size == Width(Size(insn.dst))
      reg == Target(insn.dst)
      op == IF insn.kind = "shl" THEN "shl" ELSE IF Unsigned(insn.dst) THEN "shr" ELSE "sar"
      loaded == load_vreg(g, insn.src1, reg)
      by == Def(insn.src2).imm % WordBits
  IN Finished(
       IF ~IsImm(insn.src2) THEN println(load_vreg(loaded, insn.src2, rcx), Text(op, size, rcx, reg))
       ELSE IF by = 0 THEN loaded ELSE println(loaded, Text(op, size, Const(by), reg)),
       insn.dst)

(* Always on the whole register, whatever the type. *)
x86_64_emit_unary(g, insn) ==
  store_vreg(println(load_vreg(g, insn.src1, rax), Text(insn.kind, WordBits, NoOperand, rax)), rax, insn.dst)

-----------------------------------------------------------------------------
(* Comparisons, conversions and memory. *)

(* A comparison's condition code, and its opposite. *)
Opposite == [e |-> "ne", ne |-> "e", l |-> "ge", ge |-> "l", le |-> "g", g |-> "le",
             b |-> "ae", ae |-> "b", be |-> "a", a |-> "be"]
ConditionCode(kind, unsigned) ==
  CASE kind = "eq" -> "e"
    [] kind = "ne" -> "ne"
    [] kind = "lt" -> IF unsigned THEN "b" ELSE "l"
    [] kind = "le" -> IF unsigned THEN "be" ELSE "le"
    [] kind = "gt" -> IF unsigned THEN "a" ELSE "g"
    [] kind = "ge" -> IF unsigned THEN "ae" ELSE "ge"

(* Operands of different sizes are compared at the larger; a constant that  *)
(* has become part of the instruction counts as wide if nothing else says.  *)
CompareSize(insn) ==
  LET size == [v \in {insn.src1, insn.src2} |-> IF v = 0 THEN WordBits ELSE Size(v)]
  IN Width(IF size[insn.src1] > size[insn.src2] THEN size[insn.src1] ELSE size[insn.src2])

x86_emit_int_compare(g, insn) ==
  LET size == CompareSize(insn)
      first == Fetched(g, insn.src1, rax)
      second == IF InReg(insn.src2) /\ Home(insn.src2) # Home(insn.src1) THEN Fetched(first.g, insn.src2, rdx)
                ELSE [g |-> load_vreg(first.g, insn.src2, rdx), at |-> rdx]
  IN CASE ~insn.isImm /\ IsImm(insn.src1) /\ IsImm(insn.src2) ->
            println(println(g, movq(Const(Def(insn.src1).imm), rax)),
                    Text("cmp", size, Const(Def(insn.src2).imm), rax))
       [] insn.isImm -> println(first.g, Text("cmp", size, Const(insn.imm), first.at))
       [] ~insn.isImm /\ ~IsImm(insn.src1) /\ Imm32(insn.src2) ->
            println(first.g, Text("cmp", size, Const(Def(insn.src2).imm), first.at))
       [] OTHER -> println(second.g, Text("cmp", size, second.at, first.at))

SetResult(g, cc, dst) ==
  LET reg == Target(dst)
      set == println(g, [Text("set", ByteBits, NoOperand, reg) EXCEPT !.cc = cc])
  IN Finished(println(set, Move(ByteBits, TRUE, HalfBits, reg, reg)), dst)

x86_64_emit_int_cmp(g, insn) ==
  SetResult(x86_emit_int_compare(g, insn), ConditionCode(insn.kind, Unsigned(insn.src1)), insn.dst)

TestAt(g, v, size) ==
  LET f == Fetched(g, v, rax) IN println(f.g, Text("cmp", size, Const(0), f.at))

(* !v and (_Bool)v.  Without a register for the result, all of %rax is      *)
(* tested, whatever the type of v.                                          *)
IsZero(g, insn, cc) ==
  SetResult(IF InReg(insn.dst) THEN TestAt(g, insn.src1, Width(Size(insn.src1)))
            ELSE println(load_vreg(g, insn.src1, rax), Text("cmp", WordBits, Const(0), rax)),
            cc, insn.dst)

(* movzbl, movsbl, movl, movslq, movq: what is narrower than an int is only *)
(* extended to one.                                                         *)
Extended(size, unsigned, src, dst) ==
  Move(size, unsigned, IF size < HalfBits \/ (unsigned /\ size = HalfBits) THEN HalfBits ELSE WordBits, src, dst)

Stale(g, dst) == IF InReg(dst) THEN Caching(g, 0) ELSE store_vreg(g, rax, dst)

Copied(g, insn) ==
  CASE insn.src1 = insn.dst -> g
    [] insn.src1 # insn.dst /\ InReg(insn.src1) /\ InReg(insn.dst) ->
         IF Home(insn.src1) = Home(insn.dst) THEN g ELSE println(g, movq(Home(insn.src1), Home(insn.dst)))
    [] OTHER -> store_vreg(load_vreg(g, insn.src1, rax), rax, insn.dst)

x86_64_emit_cast(g, insn) ==
  LET f == Fetched(g, insn.src1, rax)
      reg == Target(insn.dst)
      size == Size(insn.dst)
  IN CASE size = Size(insn.src1) /\ Unsigned(insn.dst) = Unsigned(insn.src1) -> Copied(g, insn)
       [] fn.ty[insn.dst] = BoolTy -> IsZero(g, insn, "ne")
       [] OTHER ->
            Stale(IF size = WordBits /\ f.at = reg THEN f.g
                  ELSE println(f.g, Extended(size, Unsigned(insn.dst), f.at, reg)), insn.dst)

x86_64_emit_load(g, insn) ==
  LET a == x86_get_insn_addr(g, insn)
  IN Stale(println(a.g, Extended(Size(insn.dst), Unsigned(insn.dst), a.at, Target(insn.dst))), insn.dst)

x86_64_emit_store(g, insn) ==
  LET imm == insn.isImm \/ Imm32(insn.src2)
      value == IF imm THEN [g |-> g, at |-> Const(IF insn.isImm THEN insn.imm ELSE Def(insn.src2).imm)]
               ELSE Fetched(g, insn.src2, rdx)
      a == x86_get_insn_addr(value.g, insn)
  IN println(a.g, Text("move", Size(insn.src2), value.at, a.at))

-----------------------------------------------------------------------------
(* Control. *)

Jump(name) == [Text("jmp", WordBits, NoOperand, NoOperand) EXCEPT !.label = name]
Jcc(cc, name) == [Text("jcc", WordBits, NoOperand, NoOperand) EXCEPT !.label = name, !.cc = cc]

(* Neither arm is jumped to when it comes next. *)
emit_branch(g, i, cc) ==
  LET insn == fn.code[i]
      yes == insn.labelTrue
      no == insn.labelFalse
      Follows(name) == LabelFollows(fn.code, i, name)
      Unless(name, line) == IF Follows(name) THEN g ELSE println(g, line)
  IN CASE yes # None /\ no # None ->
            IF Follows(no) THEN println(g, Jcc(cc, yes))
            ELSE IF Follows(yes) THEN println(g, Jcc(Opposite[cc], no))
            ELSE println(println(g, Jcc(cc, yes)), Jump(no))
       [] yes # None /\ no = None -> Unless(yes, Jcc(cc, yes))
       [] yes = None /\ no # None -> Unless(no, Jcc(Opposite[cc], no))
       [] OTHER -> g

(* The comparison a branch depends on is made, or made again, at the branch. *)
EmitBrCond(g, i) ==
  LET v == fn.code[i].src1
      def == Def(v)
      fresh == Caching(g, 0)
  IN CASE def.kind \in Compares ->
            emit_branch(x86_emit_int_compare(fresh, def), i, ConditionCode(def.kind, Unsigned(def.src1)))
       [] def.kind = "lognot" -> emit_branch(TestAt(fresh, def.src1, Width(Size(def.src1))), i, "e")
       [] OTHER -> emit_branch(TestAt(fresh, v, Width(Size(v))), i, "ne")

EmitLabel(g, insn) ==
  println(Caching(g, 0), [Text("label", WordBits, NoOperand, NoOperand) EXCEPT !.label = insn.label])

EmitJmp(g, i) ==
  LET name == fn.code[i].label IN
  IF LabelFollows(fn.code, i, name) THEN Caching(g, 0) ELSE println(Caching(g, 0), Jump(name))

(* Only labels come after it. *)
IsLast(i) == \A j \in i + 1 .. Len(fn.code) : fn.code[j].kind = "label"

(* The last return falls into what emit_text prints after the instructions. *)
EmitRet(g, i) ==
  LET loaded == load_vreg(Caching(g, 0), fn.code[i].src1, rax) IN
  IF IsLast(i) THEN loaded ELSE println(loaded, Jump(None))

(* Mutant: what is in %rax before a call is still there after it. *)
CallKeepingCache(g, insn) ==
  println(load_vreg(g, insn.src1, Reg("rdi")), Text("call", Size(insn.src1), NoOperand, NoOperand))

(* The ABI's emit_call, for one integer argument. *)
EmitCall(g, insn) ==
  LET arg == insn.src1 IN
  Caching(println(load_vreg(Caching(g, 0), arg, Reg("rdi")),
                  [Text("call", Size(arg), NoOperand, NoOperand) EXCEPT !.unsigned = Unsigned(arg)]), 0)

-----------------------------------------------------------------------------
(* One action per kind of instruction. *)

Printing == mat # Idle /\ Len(starts) < Len(fn.code) /\ ref = Idle
Position == Len(starts) + 1
Current == fn.code[Position]
Lines == [text |-> text, cached |-> cached]

(* x86_64_gen_insn, for the instructions of these kinds. *)
Generate(kinds, Emit(_, _)) ==
  /\ Printing
  /\ Current.kind \in kinds
  /\ Current.dst # 0 => mat[Current.dst]
  /\ LET g == Emit(Lines, Current) IN text' = g.text /\ cached' = g.cached
  /\ starts' = Append(starts, Len(text) + 1)
  /\ claims' = Append(claims, cached')
  /\ UNCHANGED <<fn, symbol, home, mat, ref, cpu, live>>

Skip ==
  /\ Printing
  /\ Current.dst # 0 /\ ~mat[Current.dst]
  /\ starts' = Append(starts, Len(text) + 1)
  /\ claims' = Append(claims, cached)
  /\ UNCHANGED <<fn, symbol, home, mat, text, cached, ref, cpu, live>>

GenLabel == Generate({"label"}, LAMBDA g, insn : EmitLabel(g, insn))
GenJmp == Generate({"jmp"}, LAMBDA g, insn : EmitJmp(g, Position))
GenBrCond == Generate({"br"}, LAMBDA g, insn : EmitBrCond(g, Position))
GenImm == Generate({"imm"}, x86_emit_load_imm)
GenLea == Generate({"addr"}, EmitLea)
GenMov == Generate({"mov"}, Copied)
GenCast == Generate({"cast"}, x86_64_emit_cast)
GenLoad == Generate({"load"}, x86_64_emit_load)
GenStore == Generate({"store"}, x86_64_emit_store)
GenBinary == Generate({"add", "sub", "mul", "and", "or", "xor"}, x86_64_emit_binop_imm)
GenDivMod == Generate({"div", "mod"}, x86_64_emit_divmod)
GenShift == Generate({"shl", "shr"}, x86_64_emit_shift)
GenUnary == Generate({"neg", "not"}, x86_64_emit_unary)
GenLogNot == Generate({"lognot"}, LAMBDA g, insn : IsZero(g, insn, "e"))
GenCompare == Generate(Compares, x86_64_emit_int_cmp)
GenRet == Generate({"ret"}, LAMBDA g, insn : EmitRet(g, Position))
GenCall == Generate({"call"}, EmitCall)

GenInsn ==
  \/ Skip \/ GenLabel \/ GenJmp \/ GenBrCond \/ GenImm \/ GenLea \/ GenMov \/ GenCast \/ GenLoad \/ GenStore
  \/ GenBinary \/ GenDivMod \/ GenShift \/ GenUnary \/ GenLogNot \/ GenCompare \/ GenRet \/ GenCall

(* emit_text after the last instruction, before the epilogue: main returns 0 *)
(* when it ends without a return.                                            *)
EndOfText ==
  /\ mat # Idle /\ Len(starts) = Len(fn.code)
  /\ text' = IF symbol = "main" THEN Append(text, Text("xor", HalfBits, rax, rax)) ELSE text
  /\ starts' = Append(starts, Len(text) + 1)
  /\ UNCHANGED <<fn, symbol, home, mat, cached, claims, ref, cpu, live>>

(* The start of emit_text's work on a function. *)
Materialize ==
  /\ mat = Idle
  /\ mat' = compute_materialization
  /\ live' = [v \in Vregs |-> LiveBefore(fn, v)]
  /\ UNCHANGED <<fn, symbol, home, text, starts, cached, claims, ref, cpu>>

(* The function is called. *)
Call ==
  /\ mat # Idle /\ Len(starts) = Len(fn.code) + 1 /\ ref = Idle
  /\ \E memory \in Inputs :
       /\ ref' = Start(fn, memory)
       /\ cpu' = PowerOn(Vregs, memory)
  /\ UNCHANGED <<fn, symbol, home, mat, text, starts, cached, claims, live>>

Running == ref # Idle /\ ref.end = "" /\ ref.pc \in DOMAIN fn.code
LinesOf(i) == starts[i] .. starts[i + 1] - 1

(* These lines, as long as each leads to another of them.                   *)
RunThrough(c, lines) ==
  LET Through[n \in 0 .. Cardinality(lines)] ==
        IF n = 0 THEN c
        ELSE LET d == Through[n - 1] IN IF d.pc \in lines /\ ~d.fault THEN Executed(d, text) ELSE d
  IN Through[Cardinality(lines)]

(* One instruction of the function, and the lines printed for it; after the *)
(* last one executed, those that still come before the epilogue.            *)
Run ==
  /\ Running
  /\ ref' = Step(fn, ref)
  /\ cpu' = IF ref'.end = "undefined" THEN cpu
            ELSE RunThrough(cpu, IF ref'.end = "" /\ ref'.pc \in DOMAIN fn.code THEN LinesOf(ref.pc)
                                 ELSE starts[ref.pc] .. Len(text))
  /\ UNCHANGED <<fn, symbol, home, mat, text, starts, cached, claims, live>>

(* The function has returned. *)
Ended == ref # Idle /\ ~Running /\ UNCHANGED genVars

InitGen ==
  /\ fn \in Functions
  /\ symbol \in Symbols(fn)
  /\ home \in Homes(fn)
  /\ mat = Idle /\ text = <<>> /\ starts = <<>> /\ cached = 0 /\ claims = <<>>
  /\ ref = Idle /\ cpu = Idle /\ live = Idle

NextGen == Materialize \/ GenInsn \/ EndOfText \/ Call \/ Run \/ Ended

SpecGen == InitGen /\ [][NextGen]_genVars

-----------------------------------------------------------------------------
(* Properties. *)

(* Before every instruction, a value that is still to be read is in its home, *)
(* in as many bits as its type has: what was computed elsewhere, folded away  *)
(* or left in %rax, and what register was taken over, notwithstanding.  And   *)
(* when the next instruction is printed, %rax holds what cached_rax_vreg says *)
(* it does, if that value is still to be read.                                *)
HomesHold ==
  Running => \A v \in Vregs :
    mat[v] /\ ref.pc \in live[v] => ReadAs(cpu, Home(v), Ty(Size(v), Unsigned(v))) = ref.regs[v]
CacheTrue ==
  Running /\ ref.pc > 1 /\ fn.code[ref.pc].kind # "label" =>
    LET v == claims[ref.pc - 1] IN
    v # 0 /\ ref.pc \in live[v] => ReadAs(cpu, rax, Ty(Size(v), Unsigned(v))) = ref.regs[v]
ValuesWhereBelieved == HomesHold /\ CacheTrue

(* The caller of the function finds in %rax what it returned. *)
ResultArrives ==
  LET v == fn.code[ref.pc].src1 IN
  ref.out = Append(cpu.out, IF v = 0 THEN <<0>> ELSE <<ReadAs(cpu, rax, Ty(Size(v), Unsigned(v)))>>)

(* The text does what the function does: it takes the same branches, makes   *)
(* the same calls, leaves the same memory, returns the same value, and does   *)
(* not divide by zero or overflow where the function does not; main returns   *)
(* 0 when it ends without a return.  The value main's last return yields is   *)
(* left to MainReturnsItsValue.                                               *)
TextMeansFunction ==
  ref # Idle =>
    \/ ref.end = "undefined"
    \/ /\ ~cpu.fault
       /\ cpu.mem = ref.mem
       /\ cpu.pc = IF Running THEN starts[ref.pc] ELSE Len(text) + 1
       /\ ref.end = "" => ref.out = cpu.out
       /\ ref.end = "" /\ ~Running /\ symbol = "main" => ReadAs(cpu, rax, IntTy) = 0
       /\ ref.end = "return" => ResultArrives \/ (symbol = "main" /\ IsLast(ref.pc) /\ IsPrefix(cpu.out, ref.out))

(* A test whose main ends in "return (...) ? 0 : 1" means its exit status to  *)
(* be 1 when the condition fails.  But the "xor %eax, %eax" for a main that   *)
(* ends without a return also comes after the last return, which does not     *)
(* jump over it (emit_text, x86_64_gen_insn).                                 *)
MainReturnsItsValue ==
  symbol = "main" /\ ref # Idle => (ref.end = "return" => ResultArrives)
=============================================================================
