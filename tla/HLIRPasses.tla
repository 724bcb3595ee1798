------------------------------ MODULE HLIRPasses ------------------------------
(***************************************************************************)
(* The high-level intermediate representation (ir/hlir.h), a list of        *)
(* instructions over typed values, what running it does, its lowering, and   *)
(* the passes of its optimizer (ir/hlir_opt_*.c).                            *)
(*                                                                           *)
(* Values are numbered from 1, 0 is NULL.  An instruction has the fields of  *)
(* an LLIR one; the kinds both have keep their LLIR name.  "jz" and "jnz"    *)
(* are HLIR_JMP_IF_ZERO and HLIR_JMP_IF_NZ, "load_var" and "store_var"       *)
(* access the variable in cell imm, "asm" is inline assembly that reads the  *)
(* value `base', which is none of the operands hlir_for_each_use visits.     *)
(*                                                                           *)
(* As in LLIRPasses, a pass takes a function and returns [fn, changed], what *)
(* the C function leaves and returns.  insn->ty is the type of dst wherever  *)
(* a pass reads it.                                                          *)
(***************************************************************************)
EXTENDS LLIRPasses

HBarrier(insn) == insn.kind \in {"label", "jmp", "jz", "jnz", "call", "ret", "asm"}

Pure(insn) == insn.kind \in {"imm", "addr", "cast"} \cup BinaryOps \cup UnaryOps

CommutativeKinds == {"add", "mul", "and", "or", "xor", "eq", "ne"}

(* hlir_swap_cmp and hlir_invert_cmp *)
SwapCmp(kind) ==
  CASE kind = "lt" -> "gt" [] kind = "gt" -> "lt" [] kind = "le" -> "ge" [] kind = "ge" -> "le"
    [] OTHER -> kind

InvertCmp(kind) ==
  CASE kind = "eq" -> "ne" [] kind = "ne" -> "eq" [] kind = "lt" -> "ge" [] kind = "ge" -> "lt"
    [] kind = "gt" -> "le" [] kind = "le" -> "gt"

(* hlir_for_each_use *)
Used(insn) == {insn.src1, insn.src2} \ {0}

(* hlir_set_iconst, hlir_set_cast, hlir_set_unary *)
AsImm(insn, n) == [insn EXCEPT !.kind = "imm", !.imm = n, !.src1 = 0, !.src2 = 0]
AsUnary(insn, kind, v) == [insn EXCEPT !.kind = kind, !.src1 = v, !.src2 = 0]
AsCast(insn, v) == AsUnary(insn, "cast", v)

(* hlir_new_val, hlir_insert_before *)
NewVal(fn, ty) == [fn EXCEPT !.ty = Append(@, ty)]
LastVal(fn) == Len(fn.ty)
Inserted(fn, i, insn) == [fn EXCEPT !.code = InsertAt(@, i, insn)]

-----------------------------------------------------------------------------
(* hlir_env: what is known of a value within its block, a constant or the    *)
(* instruction that computes it.  Values made after the environment are      *)
(* unknown to it.                                                            *)
NoDef == [Blank EXCEPT !.kind = "none"]
NoEnv(fn) == [const |-> [v \in RegsOf(fn) |-> {}], def |-> [v \in RegsOf(fn) |-> NoDef]]

Const(env, v) == IF v \in DOMAIN env.const THEN env.const[v] ELSE {}
Def(env, v) == IF v \in DOMAIN env.def THEN env.def[v] ELSE NoDef

WithConst(env, v, n) == IF v \in DOMAIN env.const THEN [env EXCEPT !.const[v] = {n}] ELSE env
WithDef(env, v, insn) == IF v \in DOMAIN env.def THEN [env EXCEPT !.def[v] = insn] ELSE env

-----------------------------------------------------------------------------
(* What an instruction does. *)
HStep(fn, m) ==
  LET insn == fn.code[m.pc]
      ty == fn.ty[insn.dst]
  IN CASE insn.kind = "jz" -> Goto(fn, m, IF m.regs[insn.src1] = 0 THEN insn.label ELSE None)
       [] insn.kind = "jnz" -> Goto(fn, m, IF m.regs[insn.src1] # 0 THEN insn.label ELSE None)
       [] insn.kind = "load_var" ->
            [m EXCEPT !.pc = @ + 1, !.regs[insn.dst] = Wrap(m.mem[insn.imm], ty)]
       [] insn.kind = "store_var" ->
            [m EXCEPT !.pc = @ + 1, !.mem[insn.imm] = Stored(@, m.regs[insn.src1], fn.ty[insn.src1])]
       [] insn.kind = "asm" -> [m EXCEPT !.pc = @ + 1, !.out = Append(@, <<m.regs[insn.base]>>)]
       [] OTHER -> Step(fn, m)

HOutcome(fn, memory) == OutcomeUnder(HStep, fn, memory)

-----------------------------------------------------------------------------
(* lower_hlir_function_to_llir: a value becomes a register, an access to a   *)
(* variable a load or store at its address, a conditional jump a branch.     *)
LowerAccess(low, insn, kind) ==
  LET g == NewVal(low, ULongTy)
      addr == [Blank EXCEPT !.kind = "addr", !.dst = LastVal(g), !.imm = insn.imm]
      access == [Blank EXCEPT !.kind = kind, !.dst = insn.dst, !.src1 = LastVal(g), !.src2 = insn.src1]
  IN [g EXCEPT !.code = @ \o <<addr, access>>]

LowerJump(insn) ==
  CASE insn.kind = "jz" -> [insn EXCEPT !.kind = "br", !.label = None, !.labelFalse = insn.label]
    [] insn.kind = "jnz" -> [insn EXCEPT !.kind = "br", !.label = None, !.labelTrue = insn.label]
    [] OTHER -> insn

Lowered(fn) ==
  LET Lower(low, insn) ==
        CASE insn.kind = "load_var" -> LowerAccess(low, insn, "load")
          [] insn.kind = "store_var" -> LowerAccess(low, insn, "store")
          [] OTHER -> [low EXCEPT !.code = Append(@, LowerJump(insn))]
  IN FoldLeft(Lower, [fn EXCEPT !.code = <<>>], fn.code)

-----------------------------------------------------------------------------
(* The passes. *)

Result(fn, s) == [fn |-> [fn EXCEPT !.code = s.code], changed |-> s.changed]

(* A pass's walk from the head: Visit is applied until it is past the end.   *)
Walk(n, Visit(_), s) == Times(n, LAMBDA t : IF t.at > Len(t.code) THEN t ELSE Visit(t), s)

-----------------------------------------------------------------------------
(* hlir_opt_const_fold: computes at the width of a long whatever the type.   *)

(* hlir_fold_binary *)
Folds(kind, c2) ==
  /\ kind \in BinaryOps
  /\ kind \in {"div", "mod"} => c2 # 0
  /\ kind \in {"shl", "shr"} => c2 \in 0 .. WordBits - 1
Folded(kind, c1, c2) == Wrap(Exact(kind, c1, c2, LongTy), LongTy)

(* hlir_fold_unary *)
FoldedUnary(kind, ty, c) == IF kind = "cast" THEN Wrap(Wrap(c, ty), LongTy) ELSE Wrap(Unary(kind, c), LongTy)

Swapped(insn, kind) == [insn EXCEPT !.kind = kind, !.src1 = insn.src2, !.src2 = insn.src1]

(* A constant goes to the right of a commutative operation or a comparison.  *)
Canonical(insn, env) ==
  IF Const(env, insn.src1) # {} /\ insn.src2 # 0 /\ Const(env, insn.src2) = {}
     /\ insn.kind \in CommutativeKinds \cup Compares
  THEN Swapped(insn, IF insn.kind \in CommutativeKinds THEN insn.kind ELSE SwapCmp(insn.kind))
  ELSE insn

ConstFold(fn) ==
  LET Value(insn, env) ==
        IF insn.dst = 0 \/ insn.src1 = 0 THEN {}
        ELSE IF insn.src2 # 0
        THEN {Folded(insn.kind, c1, c2) : c1 \in Const(env, insn.src1),
                                          c2 \in {c \in Const(env, insn.src2) : Folds(insn.kind, c)}}
        ELSE IF insn.kind \in UnaryOps \cup {"cast"}
        THEN {FoldedUnary(insn.kind, fn.ty[insn.dst], c) : c \in Const(env, insn.src1)}
        ELSE {}
      Visit(s) ==
        LET insn == s.code[s.at]
            value == Value(insn, s.env)
            n == CHOOSE c \in value : TRUE
            new == IF value # {} THEN AsImm(insn, n) ELSE Canonical(insn, s.env)
        IN IF HBarrier(insn) THEN [s EXCEPT !.at = @ + 1, !.env = NoEnv(fn)]
           ELSE IF insn.kind = "imm" THEN [s EXCEPT !.at = @ + 1, !.env = WithConst(@, insn.dst, insn.imm)]
           ELSE [at |-> s.at + 1,
                 code |-> [s.code EXCEPT ![s.at] = new],
                 env |-> IF value # {} THEN WithConst(s.env, insn.dst, n) ELSE s.env,
                 changed |-> s.changed \/ new # insn]
  IN Result(fn, Walk(Len(fn.code), Visit, [at |-> 1, code |-> fn.code, env |-> NoEnv(fn), changed |-> FALSE]))

-----------------------------------------------------------------------------
(* hlir_opt_copy_prop.  Aliases are chains a cast at a time; a use takes one  *)
(* link, a new alias starts at the end of the chain.                          *)
HCopyProp(fn) ==
  LET none == [v \in RegsOf(fn) |-> 0]
      Visit(s) ==
        LET insn == s.code[s.at]
            Alias(v) == IF v # 0 /\ s.alias[v] # 0 THEN s.alias[v] ELSE v
            new == [insn EXCEPT !.src1 = Alias(@), !.src2 = Alias(@)]
            kept == Invalidated(s.alias, new.dst)
            Root[k \in 0 .. Len(fn.ty)] ==
              IF k = 0 THEN new.src1
              ELSE LET v == Root[k - 1] IN IF kept[v] # 0 THEN kept[v] ELSE v
            root == Root[Len(fn.ty)]
            isCopy == new.kind = "cast" /\ fn.ty[new.dst] = fn.ty[new.src1] /\ root # new.dst
        IN IF HBarrier(insn) THEN [s EXCEPT !.at = @ + 1, !.alias = none]
           ELSE [at |-> s.at + 1,
                 code |-> [s.code EXCEPT ![s.at] = new],
                 alias |-> IF isCopy THEN [kept EXCEPT ![new.dst] = root] ELSE kept,
                 changed |-> s.changed \/ new # insn]
  IN Result(fn, Walk(Len(fn.code), Visit, [at |-> 1, code |-> fn.code, alias |-> none, changed |-> FALSE]))

-----------------------------------------------------------------------------
(* hlir_opt_local_cse: what was computed before in the block is copied.       *)

(* hlir_insn_match_cse *)
SameValue(a, b) ==
  /\ a.kind = b.kind
  /\ CASE a.kind \in {"imm", "addr"} -> a.imm = b.imm
       [] a.kind \in BinaryOps ->
            \/ a.src1 = b.src1 /\ a.src2 = b.src2
            \/ a.kind \in CommutativeKinds /\ a.src1 = b.src2 /\ a.src2 = b.src1
       [] OTHER -> a.src1 # 0 /\ a.src2 = 0 /\ b.src2 = 0 /\ a.src1 = b.src1

(* Mutant: the search for another computation passes labels. *)
SameBlock_Ever(code, i, j) == i < j
(* No barrier between two instructions, nor at the second. *)
SameBlock(code, i, j) == i < j /\ \A k \in i + 1 .. j : ~HBarrier(code[k])

LocalCse(fn) ==
  LET Visit(s) ==
        LET insn == s.code[s.at]
            again == {j \in DOMAIN s.code : s.code[j].dst # 0 /\ SameBlock(s.code, s.at, j) /\ SameValue(insn, s.code[j])}
        IN IF insn.dst = 0 \/ ~Pure(insn) \/ insn.kind = "cast" \/ again = {} THEN [s EXCEPT !.at = @ + 1]
           ELSE [at |-> s.at + 1, changed |-> TRUE,
                 code |-> [j \in DOMAIN s.code |-> IF j \in again THEN AsCast(s.code[j], insn.dst) ELSE s.code[j]]]
  IN Result(fn, Walk(Len(fn.code), Visit, [at |-> 1, code |-> fn.code, changed |-> FALSE]))

-----------------------------------------------------------------------------
(* hlir_opt_load_store, over HLIR_LOAD_VAR and HLIR_STORE_VAR.  avail maps a  *)
(* variable to the value it is known to hold, 0 for unknown; last to its      *)
(* latest store nobody has read.  Variables are local.                        *)
LoadStore(fn) ==
  LET cells == {fn.code[i].imm : i \in {j \in DOMAIN fn.code : fn.code[j].kind \in {"addr", "load_var", "store_var"}}}
      nothing == [c \in cells |-> 0]
      Forget(s, c) == [s EXCEPT !.at = @ + 1, !.avail[c] = 0, !.last[c] = 0]
      Store(s, insn) ==
        LET dead == s.last[insn.imm]
            at == IF dead = 0 THEN s.at ELSE s.at - 1
            Moved(c) == IF dead # 0 /\ s.last[c] > dead THEN s.last[c] - 1 ELSE s.last[c]
        IN [at |-> at + 1,
            code |-> IF dead = 0 THEN s.code ELSE Without(s.code, dead),
            avail |-> [s.avail EXCEPT ![insn.imm] = insn.src1],
            last |-> [c \in cells |-> IF c = insn.imm THEN at ELSE Moved(c)],
            changed |-> s.changed \/ dead # 0]
      Load(s, insn) ==
        IF s.avail[insn.imm] # 0
        THEN [s EXCEPT !.at = @ + 1, !.code[s.at] = AsCast(insn, s.avail[insn.imm]), !.last[insn.imm] = 0, !.changed = TRUE]
        ELSE [s EXCEPT !.at = @ + 1, !.avail[insn.imm] = insn.dst, !.last[insn.imm] = 0]
      Visit(s) ==
        LET insn == s.code[s.at] IN
        CASE HBarrier(insn) \/ insn.kind = "store" -> [s EXCEPT !.at = @ + 1, !.avail = nothing, !.last = nothing]
          [] insn.kind = "addr" -> Forget(s, insn.imm)
          [] insn.kind = "store_var" -> Store(s, insn)
          [] insn.kind = "load_var" -> Load(s, insn)
          [] OTHER -> [s EXCEPT !.at = @ + 1]
  IN Result(fn, Walk(Len(fn.code), Visit,
                     [at |-> 1, code |-> fn.code, avail |-> nothing, last |-> nothing, changed |-> FALSE]))

-----------------------------------------------------------------------------
(* hlir_opt_control_flow. *)

(* hlir_find_forwarded_label: where the jump after a label leads, None when   *)
(* there is none or it jumps back to the label.                               *)
Forwarded(code, l) ==
  LET hops == {i \in DOMAIN code : i > 1 /\ code[i].kind = "jmp" /\ code[i].label # l
                                   /\ code[i - 1].kind = "label" /\ code[i - 1].label = l}
  IN IF hops = {} THEN None ELSE code[CHOOSE i \in hops : TRUE].label

OtherSense(kind) == IF kind = "jz" THEN "jnz" ELSE "jz"

(* Mutant: a comparison against 0 on either side keeps the sense of the jump. *)
Tested_Same(insn, env) ==
  LET def == Def(env, insn.src1)
  IN IF insn.kind \notin {"jz", "jnz"} THEN insn
     ELSE IF def.kind = "lognot" THEN [insn EXCEPT !.src1 = def.src1]
     ELSE insn

(* A jump on !x, x == 0 or x != 0 tests x itself. *)
Tested(insn, env) ==
  LET def == Def(env, insn.src1)
      operand == CASE 0 \in Const(env, def.src2) -> def.src1 [] 0 \in Const(env, def.src1) -> def.src2 [] OTHER -> 0
  IN IF insn.kind \notin {"jz", "jnz"} THEN insn
     ELSE IF def.kind = "lognot" THEN [insn EXCEPT !.kind = OtherSense(@), !.src1 = def.src1]
     ELSE IF def.kind = "eq" /\ operand # 0 THEN [insn EXCEPT !.kind = OtherSense(@), !.src1 = operand]
     ELSE IF def.kind = "ne" /\ operand # 0 THEN [insn EXCEPT !.src1 = operand]
     ELSE insn

ControlFlow(fn) ==
  LET (* Removing the head ends the walk: the cursor is left on the removed instruction. *)
      Removed(s) ==
        [s EXCEPT !.code = Without(@, s.at), !.changed = TRUE, !.at = IF @ = 1 THEN Len(s.code) ELSE @]
      Visit(s) ==
        LET original == s.code[s.at]
            isJump == original.kind \in {"jmp", "jz", "jnz"}
            hop == IF isJump THEN Forwarded(s.code, original.label) ELSE None
            insn == IF hop = None THEN original ELSE [original EXCEPT !.label = hop]
            env == WithDef(s.env, insn.dst, insn)
            cond == IF insn.kind \in {"jz", "jnz"} THEN Const(env, insn.src1) ELSE {}
            taken == (cond = {0}) = (insn.kind = "jz")
            new == IF cond = {} THEN Tested(insn, env) ELSE [insn EXCEPT !.kind = "jmp", !.src1 = 0]
        IN IF original.kind = "jmp" /\ LabelFollows(s.code, s.at, original.label)
           THEN [Removed(s) EXCEPT !.env = NoEnv(fn)]
           ELSE IF cond # {} /\ ~taken THEN Removed(s)
           ELSE [at |-> s.at + 1,
                 code |-> [s.code EXCEPT ![s.at] = new],
                 changed |-> s.changed \/ new # original,
                 env |-> IF insn.kind \in {"label", "jmp", "call"} THEN NoEnv(fn)
                         ELSE IF insn.kind = "imm" THEN WithConst(env, insn.dst, insn.imm)
                         ELSE env]
  IN Result(fn, Walk(2 * Len(fn.code), Visit, [at |-> 1, code |-> fn.code, env |-> NoEnv(fn), changed |-> FALSE]))

-----------------------------------------------------------------------------
(* hlir_opt_dead_code, what follows a jump or a return up to the next label;  *)
(* hlir_opt_dce, one sweep over pure instructions nobody reads.               *)
(* Mutant: the sweep always reports a change. *)
Swept_Always(fn, dead) == [fn |-> WithCode(fn, Only(fn.code, DOMAIN fn.code \ dead)), changed |-> TRUE]
Swept(fn, dead) == [fn |-> WithCode(fn, Only(fn.code, DOMAIN fn.code \ dead)), changed |-> dead # {}]

DeadCode(fn) == Swept(fn, Unreachable(fn.code))

Unread(fn) ==
  LET read == UNION {Used(fn.code[i]) : i \in DOMAIN fn.code}
  IN {i \in DOMAIN fn.code : fn.code[i].dst \notin {0} \cup read /\ Pure(fn.code[i])}

HDce(fn) == Swept(fn, Unread(fn))

-----------------------------------------------------------------------------
(* hlir_opt_algebraic: one walk over a function; at each instruction the    *)
(* first rule that applies rewrites it.  A rule is <<>> where it does not     *)
(* apply, otherwise <<[insn, new]>>: the instruction rewritten, and the       *)
(* constants inserted before it as its second operand ({} for none; the       *)
(* rewritten instruction then has src2 = New).                                *)

When(condition, to) == IF condition THEN <<to>> ELSE <<>>
To(insn) == [insn |-> insn, new |-> {}]
(* The instruction as kind(v, n), n a constant of its own. *)
ToConst(insn, kind, v, n) == [insn |-> [insn EXCEPT !.kind = kind, !.src1 = v], new |-> {n}]

Is(env, v, n) == Const(env, v) = {n}
Value(env, v) == CHOOSE n \in Const(env, v) : TRUE

-----------------------------------------------------------------------------
(* The table of hlir_get_algebraic_props: an operand that leaves the other,   *)
(* an operand that decides the result, and what an operand does to itself.   *)
BothSides == {"add", "mul", "and", "or", "xor"}

RightIdentity(kind) ==
  CASE kind \in {"add", "sub", "or", "xor", "shl", "shr"} -> {0}
    [] kind \in {"mul", "div"} -> {1}
    [] kind = "and" -> {-1}
    [] OTHER -> {}
LeftIdentity(kind) == IF kind \in BothSides THEN RightIdentity(kind) ELSE {}

RightAnnihilator(kind) ==
  CASE kind = "mod" -> {1} [] kind \in {"mul", "and"} -> {0} [] kind = "or" -> {-1} [] OTHER -> {}
LeftAnnihilator(kind) == IF kind \in BothSides THEN RightAnnihilator(kind) ELSE {}
Annihilated(kind) == IF kind = "or" THEN -1 ELSE 0

OfSelf(kind) ==
  CASE kind \in {"sub", "xor", "ne", "lt", "gt"} -> {0}
    [] kind \in {"div", "eq", "le", "ge"} -> {1}
    [] OTHER -> {}

-----------------------------------------------------------------------------
(* The rules, in the order the code tries them. *)

SimplifyUnary(insn, env) ==
  LET def == Def(env, insn.src1)
  IN When(insn.kind \in {"neg", "not"} /\ def.kind = insn.kind, To(AsCast(insn, def.src1)))
     \o When(insn.kind = "lognot" /\ def.kind \in Compares,
             To([insn EXCEPT !.kind = InvertCmp(def.kind), !.src1 = def.src1, !.src2 = def.src2]))

Identity(insn, env) ==
  When(\E n \in RightIdentity(insn.kind) : Is(env, insn.src2, n), To(AsCast(insn, insn.src1)))
  \o When(\E n \in LeftIdentity(insn.kind) : Is(env, insn.src1, n), To(AsCast(insn, insn.src2)))

Annihilator(insn, env) ==
  When(\/ \E n \in RightAnnihilator(insn.kind) : Is(env, insn.src2, n)
       \/ \E n \in LeftAnnihilator(insn.kind) : Is(env, insn.src1, n),
       To(AsImm(insn, Annihilated(insn.kind))))

SelfOperands(insn) ==
  IF insn.src1 # insn.src2 THEN <<>>
  ELSE When(OfSelf(insn.kind) # {}, To(AsImm(insn, CHOOSE n \in OfSelf(insn.kind) : TRUE)))
       \o When(insn.kind \in {"and", "or"}, To(AsCast(insn, insn.src1)))
       \o When(insn.kind = "add", ToConst(insn, "shl", insn.src1, 1))

Negations(insn, env) ==
  LET def1 == Def(env, insn.src1)
      def2 == Def(env, insn.src2)
      Minus(v) == To(AsUnary(insn, IF insn.kind = "xor" THEN "not" ELSE "neg", v))
      As(kind, v, w) == To([insn EXCEPT !.kind = kind, !.src1 = v, !.src2 = w])
  IN When(insn.kind \in {"mul", "xor"} /\ Is(env, insn.src2, -1), Minus(insn.src1))
     \o When(insn.kind \in {"mul", "xor"} /\ Is(env, insn.src1, -1), Minus(insn.src2))
     \o When(insn.kind = "sub" /\ Is(env, insn.src1, 0), Minus(insn.src2))
     \o When(insn.kind = "add" /\ def2.kind = "neg", As("sub", insn.src1, def2.src1))
     \o When(insn.kind = "add" /\ def1.kind = "neg", As("sub", insn.src2, def1.src1))
     \o When(insn.kind = "sub" /\ def2.kind = "neg", As("add", insn.src1, def2.src1))

(* hlir_is_power_of_two *)
PowersOfTwo == {2 ^ k : k \in 0 .. WordBits - 2}
Log2(n) == CHOOSE k \in 0 .. WordBits - 2 : 2 ^ k = n

StrengthReduction(insn, env, ty) ==
  LET Power(v) == Const(env, v) \cap PowersOfTwo # {}
      Shift(kind, v, c) == ToConst(insn, kind, v, Log2(Value(env, c)))
  IN When(insn.kind = "mul" /\ Power(insn.src2), Shift("shl", insn.src1, insn.src2))
     \o When(insn.kind = "mul" /\ Power(insn.src1), Shift("shl", insn.src2, insn.src1))
     \o When(insn.kind = "div" /\ ty.unsigned /\ Power(insn.src2), Shift("shr", insn.src1, insn.src2))
     \o When(insn.kind = "mod" /\ ty.unsigned /\ Power(insn.src2),
             ToConst(insn, "and", insn.src1, Value(env, insn.src2) - 1))

(* (x op1 c1) op c as one operation on x. *)
Reassociation(insn, env) ==
  LET def == Def(env, insn.src1)
      c == Value(env, insn.src2)
      c1 == Value(env, def.src2)
      Into(kind, n) == ToConst(insn, kind, def.src1, Wrap(n, LongTy))
      Inner(outer, inner) == insn.kind = outer /\ def.kind = inner
  IN IF Const(env, insn.src2) = {} \/ Const(env, def.src2) = {} THEN <<>>
     ELSE When(insn.kind \in BothSides /\ def.kind = insn.kind, Into(insn.kind, Folded(insn.kind, c1, c)))
          \o When(insn.kind \in {"shl", "shr"} /\ def.kind = insn.kind /\ c1 + c < WordBits, Into(insn.kind, c1 + c))
          \o When(Inner("add", "sub"), Into("add", c - c1))
          \o When(Inner("sub", "add"), Into("add", c1 - c))
          \o When(Inner("sub", "sub"), Into("sub", c1 + c))

Cancellation(insn, env) ==
  LET def1 == Def(env, insn.src1)
      def2 == Def(env, insn.src2)
      Pair(outer, inner, def) == insn.kind = outer /\ def.kind = inner
  IN When(Pair("sub", "add", def1) /\ def1.src2 = insn.src2, To(AsCast(insn, def1.src1)))
     \o When(Pair("sub", "add", def1) /\ def1.src1 = insn.src2, To(AsCast(insn, def1.src2)))
     \o When(Pair("add", "sub", def1) /\ def1.src2 = insn.src2, To(AsCast(insn, def1.src1)))
     \o When(Pair("add", "sub", def2) /\ def2.src2 = insn.src1, To(AsCast(insn, def2.src1)))
     \o When(Pair("xor", "xor", def1) /\ def1.src2 = insn.src2, To(AsCast(insn, def1.src1)))
     \o When(Pair("xor", "xor", def1) /\ def1.src1 = insn.src2, To(AsCast(insn, def1.src2)))
     \o When(Pair("xor", "xor", def2) /\ def2.src2 = insn.src1, To(AsCast(insn, def2.src1)))
     \o When(Pair("xor", "xor", def2) /\ def2.src1 = insn.src1, To(AsCast(insn, def2.src2)))

Absorption(insn, env) ==
  LET inner == IF insn.kind = "and" THEN "or" ELSE "and"
      Holds(def, v) == def.kind = inner /\ v \in {def.src1, def.src2}
  IN IF insn.kind \notin {"and", "or"} THEN <<>>
     ELSE When(Holds(Def(env, insn.src1), insn.src2), To(AsCast(insn, insn.src2)))
          \o When(Holds(Def(env, insn.src2), insn.src1), To(AsCast(insn, insn.src1)))

Rewrites(insn, env, ty) ==
  CASE insn.dst # 0 /\ insn.src1 # 0 /\ insn.src2 = 0 -> SimplifyUnary(insn, env)
    [] insn.dst # 0 /\ insn.kind \in BinaryOps ->
         Identity(insn, env) \o Annihilator(insn, env) \o SelfOperands(insn) \o Negations(insn, env)
         \o StrengthReduction(insn, env, ty) \o Reassociation(insn, env) \o Cancellation(insn, env)
         \o Absorption(insn, env)
    [] OTHER -> <<>>

-----------------------------------------------------------------------------
(* The environment points to the instructions themselves: a definition is     *)
(* known as it is after its own rewriting.                                    *)
Algebraic(fn) ==
  LET Visit(s) ==
        LET insn == s.code[s.at]
            env == WithDef(s.env, insn.dst, insn)
            rewrites == Rewrites(insn, env, fn.ty[insn.dst])
            r == Head(rewrites)
            shared == LastVal(s) + 1
            new == IF r.new = {} THEN r.insn ELSE [r.insn EXCEPT !.src2 = shared]
            known == WithDef(s.env, insn.dst, new)
            n == CHOOSE c \in r.new : TRUE
        IN IF HBarrier(insn) THEN [s EXCEPT !.at = @ + 1, !.env = NoEnv(fn)]
           ELSE IF insn.kind = "imm" THEN [s EXCEPT !.at = @ + 1, !.env = WithConst(env, insn.dst, insn.imm)]
           ELSE IF rewrites = <<>> THEN [s EXCEPT !.at = @ + 1, !.env = env]
           ELSE IF r.new = {}
           THEN [s EXCEPT !.at = @ + 1, !.code[s.at] = new, !.changed = TRUE,
                          !.env = IF new.kind = "imm" THEN WithConst(known, insn.dst, new.imm) ELSE known]
           ELSE [at |-> s.at + 2, changed |-> TRUE, env |-> known,
                 ty |-> Append(s.ty, fn.ty[insn.src2]),
                 code |-> Before([s.code EXCEPT ![s.at] = new], s.at,
                                 [Blank EXCEPT !.kind = "imm", !.dst = shared, !.imm = n])]
      end == Walk(Len(fn.code), Visit,
                  [at |-> 1, code |-> fn.code, ty |-> fn.ty, env |-> NoEnv(fn), changed |-> FALSE])
  IN [fn |-> [fn EXCEPT !.code = end.code, !.ty = end.ty], changed |-> end.changed]
=============================================================================
