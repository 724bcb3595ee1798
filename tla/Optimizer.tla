------------------------------ MODULE Optimizer ------------------------------
(***************************************************************************)
(* llir_optimize (ir/pass_manager.c): the pass manager's fixed-point loop   *)
(* over one function, then legalization.  At optimization level 0 the loop  *)
(* is skipped and legalization is not.                                     *)
(***************************************************************************)
EXTENDS LLIRPasses

-----------------------------------------------------------------------------
(***************************************************************************)
(* ir_opt_peephole (ir/opt_peephole.c) without its floating-point side: one *)
(* walk over the list that rewrites instructions in place by looking at    *)
(* the instructions that define their operands.                            *)
(*                                                                         *)
(* The walk's state is [at, code, ty, single]: the cursor, the list, the    *)
(* registers' types and the registers whose def_insn the pass knows, those  *)
(* with one definition when it started and those it makes itself.           *)
(***************************************************************************)
Def(s, v) ==
  IF v \in s.single /\ DefsOf(s.code, v) # {}
  THEN s.code[CHOOSE i \in DOMAIN s.code : s.code[i].dst = v] ELSE Blank

(* ir_vreg_is_imm and its value *)
IsImm(s, v) == Def(s, v).kind = "imm"
Value(s, v) == Def(s, v).imm

(* ir_insn_is_unsigned *)
IsUnsigned(s, insn) == \E v \in {insn.src1, insn.dst} \ {0} : s.ty[v].unsigned

SameSize(s, v, w) == s.ty[v].size = s.ty[w].size

(* A rewriting is a set: empty when the rule does not apply, else the new    *)
(* instruction and the constant to be its second operand, if it needs one.   *)
(* make_imm_vreg gives that constant a register of its own.                  *)
Plain(insn) == {[insn |-> insn, const |-> {}]}
WithConst(insn, n) == {[insn |-> insn, const |-> {n}]}
Move(insn, v) == Plain([insn EXCEPT !.kind = "mov", !.src1 = v, !.src2 = 0])
Constant(insn, n) == Plain([insn EXCEPT !.kind = "imm", !.imm = n, !.src1 = 0, !.src2 = 0])
AddressOf(insn, n) == Plain([insn EXCEPT !.kind = "addr", !.imm = n, !.src1 = 0, !.src2 = 0])

(* The first rule of a list that applies. *)
FirstOf(rules) ==
  LET hits == {k \in DOMAIN rules : rules[k] # {}}
  IN IF hits = {} THEN {} ELSE rules[CHOOSE k \in hits : \A j \in hits : k <= j]

-----------------------------------------------------------------------------
(* Constants. *)

(* ir_eval_unary_imm and ir_eval_binary_imm: 64 bits, whatever the types. *)
EvalUnary(kind, c) == Wrap(Unary(kind, c), LongTy)

EvalBinary(kind, c1, c2, unsigned) ==
  LET ty == Ty(WordBits, unsigned)
  IN Wrap(Exact(kind, Wrap(c1, ty), Wrap(c2, ty), ty), LongTy)

Evaluable(kind, c2) == kind \in BinaryOps /\ (kind \in {"div", "mod"} => c2 # 0)

(* ir_op_commute *)
Commuted == [kind \in BinaryOps |->
  CASE kind \in Commutative -> kind
    [] kind = "lt" -> "gt" [] kind = "le" -> "ge" [] kind = "gt" -> "lt" [] kind = "ge" -> "le"
    [] OTHER -> ""]

(* ir_invert_cmp *)
Negated == [kind \in Compares |->
  CASE kind = "eq" -> "ne" [] kind = "ne" -> "eq" [] kind = "lt" -> "ge"
    [] kind = "ge" -> "lt" [] kind = "gt" -> "le" [] kind = "le" -> "gt"]

Associative == {"add", "mul", "and", "or", "xor"}

RightIdentity(kind, c) ==
  \/ kind \in {"add", "sub", "or", "xor"} /\ c = 0
  \/ kind \in {"shl", "shr"} /\ c % WordBits = 0
  \/ kind \in {"mul", "div"} /\ c = 1
  \/ kind = "and" /\ c = -1

(* ir_is_absorbing_element: the value is 0 every time. *)
Absorbing(kind, c, unsigned) ==
  \/ kind \in {"mul", "and"} /\ c = 0
  \/ kind = "mod" /\ (c = 1 \/ (~unsigned /\ c = -1))

(* get_power_of_two *)
Log2(c) == {k \in 1 .. WordBits : c = 2 ^ k}

-----------------------------------------------------------------------------
(* Rules 4 and 5: casts and unary operators. *)

CastRule(s, insn) ==
  LET ty == s.ty[insn.dst]
      inner == Def(s, insn.src1)
      mid == s.ty[insn.src1].size
  IN IF insn.kind # "cast" THEN {}
     ELSE IF SameSize(s, insn.dst, insn.src1) THEN Move(insn, insn.src1)
     ELSE IF IsImm(s, insn.src1)
     THEN Constant(insn, IF ty.size = WordBits THEN inner.imm ELSE Wrap(inner.imm, ty))
     ELSE IF inner.kind = "cast" /\ mid >= s.ty[inner.src1].size /\ mid >= ty.size
     THEN Plain([insn EXCEPT !.src1 = inner.src1])
     ELSE {}

UnaryRule(s, insn) ==
  LET inner == Def(s, insn.src1)
  IN IF insn.kind \notin UnaryOps THEN {}
     ELSE IF insn.kind \in {"neg", "not"} /\ inner.kind = insn.kind THEN Move(insn, inner.src1)
     ELSE IF IsImm(s, insn.src1) THEN Constant(insn, EvalUnary(insn.kind, inner.imm))
     ELSE {}

-----------------------------------------------------------------------------
(* Rule 6: binary operators. *)

(* 6a: an immediate goes to the right. *)
Canonical(s, insn) ==
  IF insn.kind \in BinaryOps /\ IsImm(s, insn.src1) /\ ~IsImm(s, insn.src2) /\ Commuted[insn.kind] # ""
  THEN [insn EXCEPT !.kind = Commuted[@], !.src1 = insn.src2, !.src2 = insn.src1] ELSE insn

(* 6b *)
Folding(s, insn) ==
  IF IsImm(s, insn.src1) /\ IsImm(s, insn.src2) /\ Evaluable(insn.kind, Value(s, insn.src2))
  THEN Constant(insn, EvalBinary(insn.kind, Value(s, insn.src1), Value(s, insn.src2), IsUnsigned(s, insn)))
  ELSE {}

(* 6c, where src2 is the constant c and d defines src1.  A comparison that is *)
(* compared with 0 or 1 is itself or its inverse.                             *)
Comparison(insn, d, c) ==
  IF d.kind \in Compares /\ insn.kind \in {"eq", "ne"} /\ c \in {0, 1}
  THEN LET same == (insn.kind = "ne") = (c = 0)
       IN Plain([insn EXCEPT !.kind = IF same THEN d.kind ELSE Negated[d.kind],
                             !.src1 = d.src1, !.src2 = d.src2])
  ELSE {}

Identity(insn, c) == IF RightIdentity(insn.kind, c) THEN Move(insn, insn.src1) ELSE {}

Absorption(insn, c, unsigned) == IF Absorbing(insn.kind, c, unsigned) THEN Constant(insn, 0) ELSE {}

StrengthReduction(insn, c, unsigned) ==
  UNION {CASE insn.kind = "mul" -> WithConst([insn EXCEPT !.kind = "shl"], k)
           [] insn.kind = "div" /\ unsigned -> WithConst([insn EXCEPT !.kind = "shr"], k)
           [] insn.kind = "mod" /\ unsigned -> WithConst([insn EXCEPT !.kind = "and"], c - 1)
           [] OTHER -> {} : k \in Log2(c)}

(* (x op c1) op c, an address and constants, and sums of differences. *)
Reassociation(s, insn, d, c, unsigned) ==
  LET base == Def(s, d.src1)
      c1 == Value(s, d.src2)
      Inner(kind, n) == WithConst([insn EXCEPT !.kind = kind, !.src1 = d.src1], n)
      nested == d.kind \in BinaryOps /\ IsImm(s, d.src2)
  IN CASE nested /\ d.kind = insn.kind /\ insn.kind \in Associative ->
            IF insn.kind = "add" /\ base.kind = "addr" THEN AddressOf(insn, base.imm + c1 + c)
            ELSE Inner(insn.kind, EvalBinary(insn.kind, c1, c, unsigned))
       [] nested /\ d.kind = insn.kind /\ insn.kind \in {"shl", "shr"} ->
            IF c1 + c < WordBits THEN Inner(insn.kind, c1 + c) ELSE {}
       [] insn.kind = "add" /\ d.kind = "addr" -> AddressOf(insn, d.imm + c)
       [] nested /\ insn.kind = "add" /\ d.kind = "sub" -> Inner("add", c - c1)
       [] nested /\ insn.kind = "sub" /\ d.kind = "add" -> Inner("add", c1 - c)
       [] nested /\ insn.kind = "sub" /\ d.kind = "sub" -> Inner("sub", c1 + c)
       [] OTHER -> {}

(* ir_eval_same_operands: what v op v is for every v. *)
OfSelf(kind) ==
  CASE kind \in {"sub", "xor", "ne", "lt", "gt"} -> {0}
    [] kind \in {"eq", "le", "ge"} -> {1}
    [] OTHER -> {}

(* 6d *)
SameOperands(insn) ==
  IF insn.src1 # insn.src2 THEN {}
  ELSE IF insn.kind = "add" THEN WithConst([insn EXCEPT !.kind = "shl"], 1)
  ELSE UNION {Constant(insn, n) : n \in OfSelf(insn.kind)}

(* 6e *)
Cancellation(s, insn) ==
  LET d1 == Def(s, insn.src1)
      d2 == Def(s, insn.src2)
  IN IF insn.kind = "add" /\ d2.kind = "neg" THEN Plain([insn EXCEPT !.kind = "sub", !.src2 = d2.src1])
     ELSE IF insn.kind = "sub" /\ d2.kind = "neg" THEN Plain([insn EXCEPT !.kind = "add", !.src2 = d2.src1])
     ELSE IF <<insn.kind, d1.kind>> \notin {<<"sub", "add">>, <<"xor", "xor">>} THEN {}
     ELSE IF d1.src2 = insn.src2 THEN Move(insn, d1.src1)
     ELSE IF d1.src1 = insn.src2 THEN Move(insn, d1.src2)
     ELSE {}

BinaryRule(s, insn) ==
  LET c == Value(s, insn.src2)
      d == Def(s, insn.src1)
      unsigned == IsUnsigned(s, insn)
  IN IF insn.kind \notin BinaryOps THEN {}
     ELSE FirstOf(<<Folding(s, insn)>>
                  \o (IF IsImm(s, insn.src2)
                      THEN <<Comparison(insn, d, c), Identity(insn, c), Absorption(insn, c, unsigned),
                             StrengthReduction(insn, c, unsigned), Reassociation(s, insn, d, c, unsigned)>>
                      ELSE <<>>)
                  \o <<SameOperands(insn), Cancellation(s, insn)>>)

-----------------------------------------------------------------------------
(* Rules 0 to 3: branches, self-moves, loads and stores. *)

(* A branch on !x swaps its arms, a branch on (a < b) != 0 drops the test. *)
BranchRule(s, insn) ==
  LET d == Def(s, insn.src1)
  IN CASE insn.kind = "br" /\ d.kind = "lognot" /\ None \notin {insn.labelTrue, insn.labelFalse} ->
            [insn EXCEPT !.src1 = d.src1, !.labelTrue = insn.labelFalse, !.labelFalse = insn.labelTrue]
       [] insn.kind = "br" /\ d.kind = "ne" /\ IsImm(s, d.src2) /\ Value(s, d.src2) = 0
          /\ Def(s, d.src1).kind \in Compares -> [insn EXCEPT !.src1 = d.src1]
       [] OTHER -> insn

(* What stops the search for a later access to the stored cell. *)
UpTo(s, stops) ==
  {j \in s.at + 1 .. Len(s.code) : \A k \in s.at + 1 .. j - 1 : k \notin stops}

Barriers(s) == {j \in DOMAIN s.code : Barrier(s.code[j])}
Stores(s) == {j \in DOMAIN s.code : s.code[j].kind = "store"}
Loads(s) == {j \in DOMAIN s.code : s.code[j].kind = "load"}

(* Mutant: forwards the stored value over other stores. *)
ForwardedOverStores(s) ==
  LET insn == s.code[s.at]
      loads == {j \in UpTo(s, Barriers(s)) \cap Loads(s) :
                  /\ s.code[j].src1 = insn.src1
                  /\ SameSize(s, s.code[j].dst, insn.src2)}
  IN IF s.at \notin Stores(s) \/ loads = {} THEN s
     ELSE LET j == CHOOSE j \in loads : \A k \in loads : j <= k
          IN [s EXCEPT !.code = [@ EXCEPT ![j].kind = "mov", ![j].src1 = insn.src2]]

(* 2: the first load of the cell after a store, with no barrier or store     *)
(* between, becomes a move.                                                  *)
Forwarded(s) ==
  LET insn == s.code[s.at]
      loads == {j \in UpTo(s, Barriers(s) \cup Stores(s)) \cap Loads(s) :
                  /\ s.code[j].src1 = insn.src1
                  /\ SameSize(s, s.code[j].dst, insn.src2)}
  IN IF s.at \notin Stores(s) \/ loads = {} THEN s
     ELSE LET j == CHOOSE j \in loads : \A k \in loads : j <= k
          IN [s EXCEPT !.code = [@ EXCEPT ![j].kind = "mov", ![j].src1 = insn.src2]]

(* 3: overwritten with no load or barrier between. *)
Overwritten(s) ==
  /\ s.at \in Stores(s)
  /\ \E j \in UpTo(s, Barriers(s) \cup Loads(s)) \cap Stores(s) : s.code[j].src1 = s.code[s.at].src1

(* Removing the head leaves a cursor without a successor: the walk ends. *)
Ended(s) == [s EXCEPT !.at = Len(s.code) + 1]
Removed(s) == [s EXCEPT !.code = Without(@, s.at), !.at = @ - 1]

(* Rules 4 to 6 on the instruction at the cursor, and on to the next. *)
Simplified(s) ==
  LET insn == Canonical(s, s.code[s.at])
      hit == FirstOf(<<CastRule(s, insn), UnaryRule(s, insn), BinaryRule(s, insn)>>)
      r == CHOOSE x \in hit : TRUE
      fresh == Len(s.ty) + 1
  IN IF hit = {} THEN [s EXCEPT !.code = [@ EXCEPT ![s.at] = insn], !.at = @ + 1]
     ELSE IF r.const = {} THEN [s EXCEPT !.code = [@ EXCEPT ![s.at] = r.insn], !.at = @ + 1]
     ELSE [at |-> s.at + 2,
           ty |-> Append(s.ty, s.ty[insn.src2]),
           single |-> s.single \cup {fresh},
           code |-> Before([s.code EXCEPT ![s.at] = [r.insn EXCEPT !.src2 = fresh]], s.at,
                           [Blank EXCEPT !.kind = "imm", !.dst = fresh,
                                         !.imm = CHOOSE n \in r.const : TRUE])]

Visit(s) ==
  IF s.at > Len(s.code) THEN s
  ELSE LET insn == BranchRule(s, s.code[s.at])
           t == [s EXCEPT !.code = [@ EXCEPT ![s.at] = insn]]
           u == Forwarded(t)
       IN IF insn.kind = "mov" /\ insn.dst = insn.src1
          THEN IF s.at = 1 THEN Ended([t EXCEPT !.code = Without(@, 1)])
               ELSE [t EXCEPT !.code = Without(@, s.at)]
          ELSE IF Overwritten(u)
          THEN IF s.at = 1 THEN Ended([u EXCEPT !.code = Without(@, 1)])
               ELSE Simplified(Removed(u))
          ELSE Simplified(u)

Peephole(fn) ==
  LET start == [at |-> 1, code |-> fn.code, ty |-> fn.ty,
                single |-> {v \in RegsOf(fn) : Cardinality(DefsOf(fn.code, v)) = 1}]
      end == Times(Len(fn.code), Visit, start)
  IN [fn |-> [fn EXCEPT !.code = end.code, !.ty = end.ty],
      changed |-> end.code # fn.code]

-----------------------------------------------------------------------------
CONSTANTS
  Programs,  \* the functions lowering may hand over
  Inputs,    \* the memories they may be called with
  MaxIter    \* opt_max_passes, 200 unless set on the command line

ASSUME MaxIterPositive == MaxIter \in Nat \ {0}

VARIABLES
  fn,         \* the function as rewritten so far
  wanted,     \* the outcome of the lowered function on each input (history)
  phase,      \* "optimize", "legalize" or "done"
  iteration,  \* iter
  pass,       \* p, the next pass of the iteration
  changed     \* iter_changed

vars == <<fn, wanted, phase, iteration, pass, changed>>

(* ir_verify_function on a list whose links are a sequence's: every register *)
(* is one of the function's.                                                 *)
Verified(f) ==
  \A i \in DOMAIN f.code : Sources(f.code[i]) \cup ({f.code[i].dst} \ {0}) \subseteq RegsOf(f)

(* ir_create_opt_pipeline.  The verifier pass returns whether the function   *)
(* is valid, where the others return whether they changed it.                *)
Pipeline == <<"copy_prop", "peephole", "cfg_simplify", "dce", "verifier">>

Run(name, f) ==
  CASE name = "copy_prop" -> CopyProp(f)
    [] name = "peephole" -> Peephole(f)
    [] name = "cfg_simplify" -> CfgSimplify(f)
    [] name = "dce" -> Dce(f)
    [] name = "verifier" -> [fn |-> f, changed |-> Verified(f)]

Outcomes(f) == [m \in Inputs |-> Outcome(f, m)]

Init ==
  /\ fn \in Programs
  /\ wanted = Outcomes(fn)
  /\ phase \in {"optimize", "legalize"}
  /\ iteration = 0
  /\ pass = 1
  /\ changed = FALSE

RunPass ==
  /\ phase = "optimize"
  /\ pass \in DOMAIN Pipeline
  /\ LET r == Run(Pipeline[pass], fn) IN
       /\ fn' = r.fn
       /\ changed' = (changed \/ r.changed)
  /\ pass' = pass + 1
  /\ UNCHANGED <<wanted, phase, iteration>>

NextIteration ==
  /\ phase = "optimize"
  /\ pass = Len(Pipeline) + 1
  /\ changed
  /\ iteration + 1 < MaxIter
  /\ iteration' = iteration + 1
  /\ pass' = 1
  /\ changed' = FALSE
  /\ UNCHANGED <<fn, wanted, phase>>

(* "Fixed point reached", or out of iterations. *)
EndOfLoop ==
  /\ phase = "optimize"
  /\ pass = Len(Pipeline) + 1
  /\ ~changed \/ iteration + 1 = MaxIter
  /\ iteration' = iteration + 1
  /\ phase' = "legalize"
  /\ UNCHANGED <<fn, wanted, pass, changed>>

LegalizeIsel ==
  /\ phase = "legalize"
  /\ fn' = Legalize(fn).fn
  /\ phase' = "done"
  /\ UNCHANGED <<wanted, iteration, pass, changed>>

Next == RunPass \/ NextIteration \/ EndOfLoop \/ LegalizeIsel

Spec == Init /\ [][Next]_vars

-----------------------------------------------------------------------------
(* The functions the passes are written for: operands are registers of the  *)
(* function, and those an instruction cannot do without are there.          *)
Insns(regs) ==
  [kind : Kinds, dst : {0} \cup regs, src1 : {0} \cup regs, src2 : {0} \cup regs, imm : Int,
   label : Labels \cup {None}, labelTrue : Labels \cup {None}, labelFalse : Labels \cup {None},
   isImm : BOOLEAN, hasMem : BOOLEAN, base : {0} \cup regs, disp : Int]

Complete(insn) ==
  /\ ~HasSideEffects(insn) => insn.dst # 0
  /\ insn.kind \in {"mov", "cast", "br", "call"} \cup UnaryOps \cup BinaryOps => insn.src1 # 0
  /\ insn.kind \in BinaryOps => insn.isImm \/ insn.src2 # 0
  /\ insn.kind \in {"load", "store"} => insn.hasMem \/ insn.src1 # 0
  /\ insn.kind = "store" => insn.src2 # 0
  /\ insn.kind = "jmp" => insn.label # None

IsFunction(f) ==
  /\ f \in [ty : Seq(Types \cup {BoolTy}), code : Seq(Insns(RegsOf(f)))]
  /\ \A i \in DOMAIN f.code : Complete(f.code[i])

(* Where control goes other than to the next instruction. *)
Goals(insn) ==
  CASE insn.kind = "jmp" -> {insn.label}
    [] insn.kind = "br" -> {insn.labelTrue, insn.labelFalse} \ {None}
    [] OTHER -> {}

PlacesOf(code, name) == {i \in DOMAIN code : code[i].kind = "label" /\ code[i].label = name}

(* Every label is placed once, and every label control goes to is placed.   *)
LabelsPlaced(code) ==
  \A i \in DOMAIN code :
    /\ \A l \in Goals(code[i]) : PlacesOf(code, l) # {}
    /\ code[i].kind = "label" => PlacesOf(code, code[i].label) = {i}

TypeOK ==
  /\ IsFunction(fn)
  /\ LabelsPlaced(fn.code)
  /\ phase \in {"optimize", "legalize", "done"}
  /\ iteration \in 0 .. MaxIter
  /\ pass \in 1 .. Len(Pipeline) + 1
  /\ changed \in BOOLEAN

(* A register that is ever set to a constant is set to constants only, and   *)
(* to ones whose truth is that of what the register then holds: what the     *)
(* passes take for granted when they know a constant by its register.  It is *)
(* not so where && or ?: merges a constant with another value.               *)
ConstantsStand(f) ==
  \A i \in DOMAIN f.code : f.code[i].kind = "imm" =>
    /\ f.code[i].imm = 0 <=> Wrap(f.code[i].imm, f.ty[f.code[i].dst]) = 0
    /\ \A j \in DOMAIN f.code : f.code[j].dst = f.code[i].dst => f.code[j].kind = "imm"

(* After every pass, and after legalization, the function is still complete, *)
(* still keeps its constants apart, makes the same calls, returns the same   *)
(* value and leaves the same memory as the one that was lowered, on every    *)
(* input for which C defines what it does.                                   *)
BehaviourPreserved ==
  /\ IsFunction(fn)
  /\ LabelsPlaced(fn.code)
  /\ ConstantsStand(fn)
  /\ \A m \in Inputs : SameOutcome(wanted[m], Outcome(fn, m))

(* The bound on iterations does not stop the passes short: what they hand to *)
(* legalization, none of them would change again.                            *)
PassesConverge ==
  phase = "legalize" /\ iteration > 0 =>
    \A i \in DOMAIN Pipeline : Run(Pipeline[i], fn).fn = fn
=============================================================================
