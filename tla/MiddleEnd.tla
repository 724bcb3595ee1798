------------------------------ MODULE MiddleEnd ------------------------------
(***************************************************************************)
(* From a function's tree to the LLIR the code generator's allocator is      *)
(* given: ast_to_hlir, hlir_optimize (ir/hlir_opt.c) and hlir_to_llir, as    *)
(* main.c runs them one after the other.                                     *)
(***************************************************************************)
EXTENDS HLIRPasses, Trees

-----------------------------------------------------------------------------
(***************************************************************************)
(* ast_to_hlir (ir/hlir.c): the instructions emitted for a function's tree.  *)
(* A generator state is the function emitted so far, with the number of the  *)
(* next set of labels; generating an expression gives the state after it and *)
(* the value that holds the result, 0 for none.                             *)
(***************************************************************************)
(* hlir_append_insn *)
Emit(g, insn) == [g EXCEPT !.code = Append(@, insn)]
Op(kind, dst, src1, src2) == [Blank EXCEPT !.kind = kind, !.dst = dst, !.src1 = src1, !.src2 = src2]
(* Mutant: the label of a jump is forgotten. *)
ToLabel_Unlabelled(kind, v, l) == Op(kind, 0, v, 0)
ToLabel(kind, v, l) == [Op(kind, 0, v, 0) EXCEPT !.label = l]
EmitLabel(g, l) == Emit(g, [Blank EXCEPT !.label = l])

(* A new value of a type, defined by an instruction; gives [g, v]. *)
Defined(g, ty, insn) ==
  LET h == NewVal(g, ty)
  IN [g |-> Emit(h, [insn EXCEPT !.dst = LastVal(h)]), v |-> LastVal(h)]

Constant(g, n, ty) == Defined(g, ty, [Op("imm", 0, 0, 0) EXCEPT !.imm = n])
AddrVar(g, cell) == Defined(g, ULongTy, [Op("addr", 0, 0, 0) EXCEPT !.imm = cell])

(* Labels of one construct, unique by its number. *)
NewLabels(g) == [g EXCEPT !.labels = @ + 1]
FreshLabel(g, name) == <<name, g.labels>>

(* gen_expr_hlir and gen_stmt_hlir call one another. *)
RECURSIVE Gen(_, _, _)
gen_expr(g, e) == Gen("expr", g, e)
gen_stmt(g, st) == Gen("stmt", g, st)
gen_body(g, body) == Gen("body", g, body)

(* gen_addr_hlir *)
GenAddr(g, e) ==
  CASE e.k \in {"var", "member"} -> AddrVar(g, e.cell)
    [] e.k = "deref" -> gen_expr(g, e.lhs)

(* && jumps to its label when an operand is zero, || when one is not. *)
GenLogical(g, e) ==
  LET and == e.k = "logand"
      jump == IF and THEN "jz" ELSE "jnz"
      g0 == NewVal(NewLabels(g), IntTy)
      dst == LastVal(g0)
      short == FreshLabel(g0, "short")
      end == FreshLabel(g0, "end")
      l == gen_expr(g0, e.lhs)
      r == gen_expr(Emit(l.g, ToLabel(jump, l.v, short)), e.rhs)
      Answer(n) == [Op("imm", dst, 0, 0) EXCEPT !.imm = n]
      long == Emit(Emit(Emit(r.g, ToLabel(jump, r.v, short)), Answer(Truth(and))), ToLabel("jmp", 0, end))
  IN [g |-> EmitLabel(Emit(EmitLabel(long, short), Answer(Truth(~and))), end), v |-> dst]

GenCond(g, e) ==
  LET c == gen_expr(NewLabels(g), e.cond)
      else == FreshLabel(NewLabels(g), "else")
      end == FreshLabel(NewLabels(g), "end")
      g1 == NewVal(Emit(c.g, ToLabel("jz", c.v, else)), e.ty)
      dst == LastVal(g1)
      a == gen_expr(g1, e.then)
      g2 == EmitLabel(Emit(Emit(a.g, Op("cast", dst, a.v, 0)), ToLabel("jmp", 0, end)), else)
      b == gen_expr(g2, e.els)
  IN [g |-> EmitLabel(Emit(b.g, Op("cast", dst, b.v, 0)), end), v |-> dst]

(* A bit-field is read by shifting it to the top of its unit and down again. *)
GenMember(g, e) ==
  LET p == AddrVar(g, e.cell)
      unit == Defined(p.g, e.ty, Op("load", 0, p.v, 0))
      n == Constant(NewVal(unit.g, e.ty), e.ty.size - e.width - e.offset, IntTy)
      up == LastVal(unit.g) + 1
      g1 == Emit(n.g, Op("shl", up, unit.v, n.v))
      m == Constant(NewVal(g1, e.ty), e.ty.size - e.width, IntTy)
      down == LastVal(g1) + 1
  IN IF e.width = e.ty.size THEN unit
     ELSE [g |-> Emit(m.g, Op("shr", down, up, m.v)), v |-> down]

(* A bit-field is written by merging it into its unit; the value is the      *)
(* right-hand side's.                                                        *)
GenAssignMember(g, e) ==
  LET mem == e.lhs
      mask == 2 ^ mem.width - 1
      r == gen_expr(g, e.rhs)
      p == AddrVar(r.g, mem.cell)
      old == Defined(p.g, mem.ty, Op("load", 0, p.v, 0))
      vmask == Constant(old.g, Wrap(mask, LongTy), mem.ty)
      masked == Defined(vmask.g, mem.ty, Op("and", 0, r.v, vmask.v))
      amount == Constant(masked.g, mem.offset, IntTy)
      shifted == IF mem.offset = 0 THEN masked
                 ELSE Defined(amount.g, mem.ty, Op("shl", 0, masked.v, amount.v))
      fmask == Constant(shifted.g, Wrap(-(mask * 2 ^ mem.offset) - 1, LongTy), mem.ty)
      cleared == Defined(fmask.g, mem.ty, Op("and", 0, old.v, fmask.v))
      both == Defined(cleared.g, mem.ty, Op("or", 0, cleared.v, shifted.v))
  IN [g |-> Emit(both.g, Op("store", 0, p.v, both.v)), v |-> r.v]

(* A conversion between types that share size and signedness is no           *)
(* instruction.                                                              *)
GenCast(g, e) ==
  LET src == gen_expr(g, e.lhs)
  IN IF e.lhs.ty = e.ty THEN src ELSE Defined(src.g, e.ty, Op("cast", 0, src.v, 0))

GenUnop(g, e) == LET src == gen_expr(g, e.lhs) IN Defined(src.g, e.ty, Op(e.k, 0, src.v, 0))

GenBinop(g, e) ==
  LET l == gen_expr(g, e.lhs)
      r == gen_expr(l.g, e.rhs)
  IN Defined(r.g, e.ty, Op(e.k, 0, l.v, r.v))

GenAssign(g, e) ==
  LET r == gen_expr(g, e.rhs)
      l == GenAddr(r.g, e.lhs)
  IN [g |-> Emit(l.g, Op("store", 0, l.v, r.v)), v |-> r.v]

(* The arguments first, then the call; the result of the function that stands *)
(* for any is not used.                                                       *)
GenFuncall(g, e) == LET a == gen_expr(g, e.args) IN [g |-> Emit(a.g, Op("call", 0, a.v, 0)), v |-> 0]

GenExpr(g, e) ==
  CASE e.k = "null" -> [g |-> g, v |-> 0]
    [] e.k = "num" -> Constant(g, e.val, e.ty)
    [] e.k \in {"var", "deref"} ->
         LET p == GenAddr(g, e) IN Defined(p.g, e.ty, Op("load", 0, p.v, 0))
    [] e.k = "member" -> GenMember(g, e)
    [] e.k = "addr" -> GenAddr(g, e.lhs)
    [] e.k = "assign" /\ e.lhs.k = "member" -> GenAssignMember(g, e)
    [] e.k = "assign" /\ e.lhs.k # "member" -> GenAssign(g, e)
    [] e.k = "cast" -> GenCast(g, e)
    [] e.k \in UnaryOps -> GenUnop(g, e)
    [] e.k \in BinaryOps -> GenBinop(g, e)
    [] e.k \in {"logand", "logor"} -> GenLogical(g, e)
    [] e.k = "cond" -> GenCond(g, e)
    [] e.k = "comma" -> LET l == gen_expr(g, e.lhs) IN gen_expr(l.g, e.rhs)
    [] e.k = "funcall" -> GenFuncall(g, e)
    [] e.k = "stmt_expr" -> gen_expr(gen_body(g, e.body), e.last)

GenStmts(g, body) == IF body = <<>> THEN g ELSE gen_body(gen_stmt(g, Head(body)), Tail(body))

GenIf(g, st) ==
  LET c == gen_expr(NewLabels(g), st.cond)
      else == FreshLabel(NewLabels(g), "else")
      end == FreshLabel(NewLabels(g), "end")
      then == gen_stmt(Emit(c.g, ToLabel("jz", c.v, IF st.els = Empty THEN end ELSE else)), st.then)
      els == gen_stmt(EmitLabel(Emit(then, ToLabel("jmp", 0, end)), else), st.els)
  IN EmitLabel(IF st.els = Empty THEN then ELSE els, end)

GenFor(g, st) ==
  LET begin == FreshLabel(NewLabels(g), "begin")
      c == gen_expr(EmitLabel(gen_stmt(NewLabels(g), st.init), begin), st.cond)
      tested == IF st.cond = NoExpr THEN c.g ELSE Emit(c.g, ToLabel("jz", c.v, st.brk))
      body == EmitLabel(gen_stmt(tested, st.then), st.cont)
      inc == gen_expr(body, st.inc)
  IN EmitLabel(Emit(inc.g, ToLabel("jmp", 0, begin)), st.brk)

GenDo(g, st) ==
  LET begin == FreshLabel(NewLabels(g), "begin")
      body == EmitLabel(gen_stmt(EmitLabel(NewLabels(g), begin), st.then), st.cont)
      c == gen_expr(body, st.cond)
  IN EmitLabel(Emit(c.g, ToLabel("jnz", c.v, begin)), st.brk)

(* The value is compared with the first value of each case. *)
GenSwitch(g, st) ==
  LET c == gen_expr(g, st.cond)
      Test(h, case) ==
        LET n == Constant(h, case.begin, st.cond.ty)
            eq == Defined(n.g, IntTy, Op("eq", 0, c.v, n.v))
        IN Emit(eq.g, ToLabel("jnz", eq.v, case.label))
      tests == FoldLeft(Test, c.g, st.cases)
      jump == Emit(tests, ToLabel("jmp", 0, IF st.default # None THEN st.default ELSE st.brk))
  IN EmitLabel(gen_stmt(jump, st.then), st.brk)

GenStmt(g, st) ==
  CASE st.s = "expr" -> gen_expr(g, st.lhs).g
    [] st.s = "block" -> gen_body(g, st.body)
    [] st.s = "label" -> gen_stmt(EmitLabel(g, st.label), st.lhs)
    [] st.s = "if" -> GenIf(g, st)
    [] st.s = "for" -> GenFor(g, st)
    [] st.s = "do" -> GenDo(g, st)
    [] st.s = "switch" -> GenSwitch(g, st)
    [] st.s = "goto" -> Emit(g, ToLabel("jmp", 0, st.label))
    [] st.s = "return" -> LET r == gen_expr(g, st.lhs) IN Emit(r.g, Op("ret", 0, r.v, 0))
    [] st.s = "asm" -> LET r == gen_expr(g, st.lhs) IN Emit(r.g, [Op("asm", 0, 0, 0) EXCEPT !.base = r.v])

Gen(what, g, t) ==
  CASE what = "expr" -> GenExpr(g, t)
    [] what = "stmt" -> GenStmt(g, t)
    [] what = "body" -> GenStmts(g, t)

Generated(body) ==
  LET g == gen_stmt([code |-> <<>>, ty |-> <<>>, labels |-> 0], body)
  IN [code |-> g.code, ty |-> g.ty]

-----------------------------------------------------------------------------
CONSTANTS
  Functions,    \* the trees the parser may hand over
  Handwritten,  \* HLIR functions built without a tree
  Inputs,       \* the memories a function may be called with
  Levels,       \* optimization levels
  MaxPasses     \* opt_max_passes, 200 unless set on the command line

ASSUME MaxPassesPositive == MaxPasses \in Nat \ {0}

VARIABLES
  tree,       \* the function's tree, Empty once it is lowered
  fn,         \* the function in HLIR, at the end in LLIR
  wanted,     \* what C says the function does on each input (history)
  level,      \* opt_level
  phase,      \* "tree", "optimize", "lower" or "done"
  iteration,  \* iter
  pass,       \* the next pass of the iteration
  changed     \* changed

vars == <<tree, fn, wanted, level, phase, iteration, pass, changed>>

(* ir_opt_set_level, the passes of hlir_optimize at a level, in its order. *)
Passes ==
  IF level >= 2
  THEN <<"const_fold", "algebraic", "copy_prop", "local_cse", "load_store", "control_flow", "dead_code", "dce">>
  ELSE <<"const_fold", "algebraic", "copy_prop", "control_flow", "dead_code", "dce">>

RunHLIR(name, f) ==
  CASE name = "const_fold" -> ConstFold(f)
    [] name = "algebraic" -> Algebraic(f)
    [] name = "copy_prop" -> HCopyProp(f)
    [] name = "local_cse" -> LocalCse(f)
    [] name = "load_store" -> LoadStore(f)
    [] name = "control_flow" -> ControlFlow(f)
    [] name = "dead_code" -> DeadCode(f)
    [] name = "dce" -> HDce(f)

Nothing == [code |-> <<>>, ty |-> <<>>]

Init ==
  /\ level \in Levels
  /\ \/ /\ phase = "tree"
        /\ tree \in Functions
        /\ fn = Nothing
        /\ wanted = [m \in Inputs |-> TreeOutcome(tree, m)]
     \/ /\ phase = "optimize"
        /\ tree = Empty
        /\ fn \in Handwritten
        /\ wanted = [m \in Inputs |-> HOutcome(fn, m)]
  /\ iteration = 0
  /\ pass = 1
  /\ changed = FALSE

(* ast_to_hlir *)
Generate ==
  /\ phase = "tree"
  /\ fn' = Generated(tree)
  /\ tree' = Empty
  /\ phase' = IF level = 0 THEN "lower" ELSE "optimize"
  /\ UNCHANGED <<wanted, level, iteration, pass, changed>>

RunPass ==
  /\ phase = "optimize"
  /\ pass \in DOMAIN Passes
  /\ LET r == RunHLIR(Passes[pass], fn) IN
       /\ fn' = r.fn
       /\ changed' = (changed \/ r.changed)
  /\ pass' = pass + 1
  /\ UNCHANGED <<tree, wanted, level, phase, iteration>>

NextIteration ==
  /\ phase = "optimize"
  /\ pass = Len(Passes) + 1
  /\ changed
  /\ iteration + 1 < MaxPasses
  /\ iteration' = iteration + 1
  /\ pass' = 1
  /\ changed' = FALSE
  /\ UNCHANGED <<tree, fn, wanted, level, phase>>

EndOfLoop ==
  /\ phase = "optimize"
  /\ pass = Len(Passes) + 1
  /\ ~changed \/ iteration + 1 = MaxPasses
  /\ phase' = "lower"
  /\ UNCHANGED <<tree, fn, wanted, level, iteration, pass, changed>>

(* hlir_to_llir *)
Lower ==
  /\ phase = "lower"
  /\ fn' = Lowered(fn)
  /\ phase' = "done"
  /\ UNCHANGED <<tree, wanted, level, iteration, pass, changed>>

Next == Generate \/ RunPass \/ NextIteration \/ EndOfLoop \/ Lower

Spec == Init /\ [][Next]_vars

-----------------------------------------------------------------------------
(* Every operand is a value of the function and has a type; a jump's label    *)
(* and a constant fit their fields.                                           *)
TypeOK ==
  /\ fn.ty \in Seq(Types)
  /\ \A i \in DOMAIN fn.code :
       LET insn == fn.code[i] IN
       /\ {insn.dst, insn.src1, insn.src2, insn.base} \subseteq {0} \cup RegsOf(fn)
       /\ insn.imm \in -(2 ^ WordBits) .. 2 ^ WordBits
       /\ insn.kind \in Kinds \cup {"jz", "jnz", "load_var", "store_var", "asm"}
       /\ insn.kind \in {"jmp", "jz", "jnz"} => insn.label # None
  /\ level \in Levels
  /\ phase \in {"tree", "optimize", "lower", "done"}
  /\ iteration \in 0 .. MaxPasses - 1
  /\ pass \in 1 .. Len(Passes) + 1
  /\ changed \in BOOLEAN

(* What lowering emits, and every pass makes of it, makes the calls, returns   *)
(* the value and leaves the memory that C gives the tree, on every input for   *)
(* which C says what the function does.                                        *)
MeaningPreserved ==
  phase # "tree" => \A m \in Inputs : SameOutcome(wanted[m], IF phase = "done" THEN Outcome(fn, m) ELSE HOutcome(fn, m))

(* The interval analysis of the register allocator takes its input for granted: *)
(* labels resolve, a value merged on two paths is defined on both before it is   *)
(* read, any other has one definition ahead of its uses.  Lowering and the       *)
(* passes hand it nothing else.                                                  *)
AllocatableCode ==
  phase = "done" => Allocator(RegsOf(fn))!WellFormed(Flow(fn))

(* At level 1 the loop ends because nothing changes any more, never because    *)
(* its iterations are used up.                                                 *)
ReachesFixedPoint == phase = "lower" /\ level = 1 => ~changed
=============================================================================
