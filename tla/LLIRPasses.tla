------------------------------ MODULE LLIRPasses ------------------------------
(***************************************************************************)
(* The passes of the LLIR optimizer (ir/opt_copy_prop.c, opt_cfg.c,        *)
(* opt_dce.c, opt_legalize.c; the peephole optimizer is in Optimizer).     *)
(* A pass takes a function and returns [fn, changed]: the rewritten        *)
(* function and what the C function returns.                               *)
(***************************************************************************)
EXTENDS LLIRSemantics

(* The instructions at the positions in S, in order: of the first i, and all. *)
Kept(code, S) ==
  LET Chosen[i \in 0 .. Len(code)] ==
        IF i = 0 THEN <<>>
        ELSE LET before == Chosen[i - 1] IN IF i \in S THEN Append(before, code[i]) ELSE before
  IN Chosen

Only(code, S) == Kept(code, S)[Len(code)]

WithCode(fn, code) == [fn EXCEPT !.code = code]

-----------------------------------------------------------------------------
(* ir_opt_copy_prop: within a block, a use of a copy becomes a use of its    *)
(* origin.  alias maps a register to its origin, 0 for none.                *)

Substituted(insn, alias) ==
  LET Origin(v) == IF v # 0 /\ alias[v] # 0 THEN alias[v] ELSE v
  IN [insn EXCEPT !.src1 = Origin(@), !.src2 = Origin(@), !.base = Origin(@)]

(* What a definition of dst leaves of the aliases. *)
Invalidated(alias, dst) ==
  [v \in DOMAIN alias |-> IF dst # 0 /\ (v = dst \/ alias[v] = dst) THEN 0 ELSE alias[v]]

(* The aliases after insn: origins have no alias themselves, so the chain   *)
(* the code follows is one link long.                                       *)
Learned(fn, insn, alias) ==
  LET kept == Invalidated(alias, insn.dst)
      origin == IF kept[insn.src1] # 0 THEN kept[insn.src1] ELSE insn.src1
  IN IF /\ insn.kind = "mov"
        /\ fn.ty[insn.dst].size = fn.ty[insn.src1].size
        /\ origin # insn.dst
     THEN [kept EXCEPT ![insn.dst] = origin]
     ELSE kept

CopyProp(fn) ==
  LET none == [v \in RegsOf(fn) |-> 0]
      Visit(s) ==
        LET insn == s.code[s.at]
            new == Substituted(insn, s.alias)
        IN IF Barrier(insn) THEN [s EXCEPT !.at = @ + 1, !.alias = none]
           ELSE [at |-> s.at + 1,
                 code |-> [s.code EXCEPT ![s.at] = new],
                 alias |-> IF new.kind = "mov" THEN Learned(fn, new, s.alias) ELSE Invalidated(s.alias, new.dst)]
      code == Times(Len(fn.code), Visit, [at |-> 1, code |-> fn.code, alias |-> none]).code
  IN [fn |-> WithCode(fn, code), changed |-> code # fn.code]

-----------------------------------------------------------------------------
(* ir_opt_dce: removes what nobody reads, until nothing is left to remove.  *)

Read(code) == UNION {Sources(code[i]) : i \in DOMAIN code}

Dead(code) ==
  {i \in DOMAIN code : /\ code[i].dst # 0
                       /\ code[i].dst \notin Read(code)
                       /\ ~HasSideEffects(code[i])}

WithoutDead(code) == Only(code, DOMAIN code \ Dead(code))

(* Mutant: one sweep. *)
DceOnce(fn) ==
  LET code == WithoutDead(fn.code)
  IN [fn |-> WithCode(fn, code), changed |-> code # fn.code]

Dce(fn) ==
  LET code == Times(Len(fn.code), WithoutDead, fn.code)
  IN [fn |-> WithCode(fn, code), changed |-> code # fn.code]

-----------------------------------------------------------------------------
(* ir_opt_cfg_simplify. *)

JumpTo(insn, name) ==
  [insn EXCEPT !.kind = "jmp", !.label = name, !.labelTrue = None, !.labelFalse = None, !.src1 = 0]

(* Pass 0: a branch on a constant of its block becomes a jump or goes away. *)
(* const[v] is {c} when v was last set to the constant c.                    *)
NothingKnown(fn) == [v \in RegsOf(fn) |-> {}]

Noted(insn, const) ==
  IF Barrier(insn) THEN [v \in DOMAIN const |-> {}]
  ELSE IF insn.kind = "imm" THEN [const EXCEPT ![insn.dst] = {insn.imm}]
  ELSE const

(* One turn of the loop.  The cursor steps back over a removed branch;       *)
(* removing the head ends it.                                                *)
FoldNext(s) ==
  IF s.at > Len(s.code) THEN s
  ELSE LET insn == s.code[s.at] IN
    IF insn.kind = "br" /\ s.const[insn.src1] # {}
    THEN LET target == IF s.const[insn.src1] # {0} THEN insn.labelTrue ELSE insn.labelFalse
             unknown == [v \in DOMAIN s.const |-> {}] IN
         IF target # None
         THEN [at |-> s.at + 1, const |-> unknown, code |-> [s.code EXCEPT ![s.at] = JumpTo(insn, target)]]
         ELSE IF s.at = 1 THEN [at |-> Len(s.code), const |-> unknown, code |-> Without(s.code, 1)]
         ELSE [at |-> s.at, const |-> Noted(s.code[s.at - 1], s.const), code |-> Without(s.code, s.at)]
    ELSE [at |-> s.at + 1, const |-> Noted(insn, s.const), code |-> s.code]

FoldBranches(fn) ==
  Times(Len(fn.code), FoldNext, [at |-> 1, const |-> NothingKnown(fn), code |-> fn.code]).code

(* Pass 1: nothing runs between a jump or a return and the next label. *)
Unreachable(code) ==
  {i \in DOMAIN code : \E j \in 1 .. i - 1 :
     /\ code[j].kind \in {"jmp", "ret"}
     /\ \A k \in j + 1 .. i : code[k].kind # "label"}

LabelFollows(code, i, name) == i < Len(code) /\ code[i + 1].kind = "label" /\ code[i + 1].label = name

(* Pass 2: a jump to the next instruction. *)
IdleJumps(code) ==
  LET idle == {i \in DOMAIN code : code[i].kind = "jmp" /\ LabelFollows(code, i, code[i].label)}
  IN IF 1 \in idle THEN {1} ELSE idle

(* Pass 3: a branch whose arms are the same; pass 4: a false arm that is    *)
(* the next instruction.                                                    *)
MergedArms(code) ==
  [i \in DOMAIN code |->
     IF code[i].kind = "br" /\ code[i].labelTrue # None /\ code[i].labelTrue = code[i].labelFalse
     THEN JumpTo(code[i], code[i].labelTrue) ELSE code[i]]

WithoutFallthroughArms(code) ==
  [i \in DOMAIN code |->
     IF code[i].kind = "br" /\ code[i].labelFalse # None /\ LabelFollows(code, i, code[i].labelFalse)
     THEN [code[i] EXCEPT !.labelFalse = None] ELSE code[i]]

CfgSimplify(fn) ==
  LET folded == FoldBranches(fn)
      reached == Only(folded, DOMAIN folded \ Unreachable(folded))
      direct == Only(reached, DOMAIN reached \ IdleJumps(reached))
      code == WithoutFallthroughArms(MergedArms(direct))
  IN [fn |-> WithCode(fn, code), changed |-> code # fn.code]

-----------------------------------------------------------------------------
(* ir_opt_legalize_isel: folds constants into operands and addresses into   *)
(* loads and stores.                                                        *)

Immediate(n) == Fits(n, IntTy)
Foldable == BinaryOps \ {"div", "mod"}
Commutative == {"add", "mul", "and", "or", "xor", "eq", "ne"}
Null == [Blank EXCEPT !.kind = "label"]

(* def_insn, as the pass re-establishes it: the last definition in the list. *)
DefInsn(code, v) ==
  LET defs == DefsOf(code, v) IN
  IF v = 0 \/ defs = {} THEN Null ELSE code[CHOOSE i \in defs : \A j \in defs : j <= i]

FoldOperand(code, insn) ==
  LET d1 == DefInsn(code, insn.src1)
      d2 == DefInsn(code, insn.src2)
  IN CASE d2.kind = "imm" ->
            IF Immediate(d2.imm) /\ insn.kind \in Foldable
            THEN [insn EXCEPT !.isImm = TRUE, !.imm = d2.imm] ELSE insn
       [] d2.kind # "imm" /\ d1.kind = "imm" /\ insn.kind \in Commutative /\ Immediate(d1.imm) ->
            [insn EXCEPT !.src1 = insn.src2, !.src2 = 0, !.isImm = TRUE, !.imm = d1.imm]
       [] OTHER -> insn

(* The address of a load or a store: a variable, a variable and a constant, *)
(* or a register and a constant, in either order of the addition.           *)
FoldAddress(code, insn) ==
  LET sum == DefInsn(code, insn.src1)
      Base(v, c) == LET d == DefInsn(code, v) IN
        IF d.kind = "addr" THEN [insn EXCEPT !.hasMem = TRUE, !.disp = d.imm + c]
        ELSE [insn EXCEPT !.hasMem = TRUE, !.base = v, !.disp = c]
      Const(v) == LET d == DefInsn(code, v) IN d.kind = "imm" /\ Immediate(d.imm)
  IN CASE insn.kind \notin {"load", "store"} -> insn
       [] sum.kind = "addr" -> [insn EXCEPT !.hasMem = TRUE, !.disp = sum.imm]
       [] sum.kind = "add" /\ 0 \notin {sum.src1, sum.src2} ->
            IF Const(sum.src2) THEN Base(sum.src1, DefInsn(code, sum.src2).imm)
            ELSE IF Const(sum.src1) THEN Base(sum.src2, DefInsn(code, sum.src1).imm)
            ELSE insn
       [] OTHER -> insn

Legalize(fn) ==
  LET Visit(s) == LET insn == FoldOperand(s.code, s.code[s.at]) IN
        [at |-> s.at + 1, code |-> [s.code EXCEPT ![s.at] = FoldAddress(s.code, insn)]]
      code == Times(Len(fn.code), Visit, [at |-> 1, code |-> fn.code]).code
  IN [fn |-> WithCode(fn, code), changed |-> code # fn.code]
=============================================================================
