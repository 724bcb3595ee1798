-------------------------------- MODULE Trees ---------------------------------
(***************************************************************************)
(* The syntax trees the parser hands over (struct Node of chibicc.h), and    *)
(* what C says they do: the contract of everything behind the parser.        *)
(*                                                                         *)
(* An expression is a record with its kind k, its type ty and its parts.     *)
(* Conversions are explicit casts, as add_type leaves them; break, continue  *)
(* and goto are all jumps to a unique label, as the parser leaves them.      *)
(* Executing a statement while `goal' is a label passes over everything up   *)
(* to that label, which gives jumps into blocks, loops and switches their    *)
(* meaning.                                                                  *)
(***************************************************************************)
EXTENDS LLIRSemantics

CONSTANTS Iterations  \* loop iterations and backward jumps a run may make

(* struct Node: a node has a kind, a type and, by its kind, the fields one of *)
(* the constructors below adds.  Of enum NodeKind, VLAs, atomics and computed *)
(* goto have none.                                                            *)
TreeNode(k, ty) == [k |-> k, ty |-> ty]
NoExpr == TreeNode("null", IntTy)
Num(n, ty) == [k |-> "num", val |-> n, ty |-> ty]
Var(cell, ty) == [k |-> "var", cell |-> cell, ty |-> ty]
Deref(e, ty) == [k |-> "deref", lhs |-> e, ty |-> ty]
AddressOf(e) == [k |-> "addr", lhs |-> e, ty |-> ULongTy]
(* A bit-field of `width' bits at `offset' of the unit in a variable. *)
Member(cell, ty, offset, width) == [k |-> "member", cell |-> cell, ty |-> ty, offset |-> offset, width |-> width]
Assign(l, r) == [k |-> "assign", lhs |-> l, rhs |-> r, ty |-> l.ty]
Cast(e, ty) == [k |-> "cast", lhs |-> e, ty |-> ty]
Unop(op, e) == [k |-> op, lhs |-> e, ty |-> IF op = "lognot" THEN IntTy ELSE e.ty]
Binop(op, l, r) == [k |-> op, lhs |-> l, rhs |-> r, ty |-> IF op \in Compares THEN IntTy ELSE l.ty]
Logical(op, l, r) == [k |-> op, lhs |-> l, rhs |-> r, ty |-> IntTy]
Cond(c, a, b) == [k |-> "cond", cond |-> c, then |-> a, els |-> b, ty |-> a.ty]
Comma(l, r) == [k |-> "comma", lhs |-> l, rhs |-> r, ty |-> r.ty]
Funcall(e) == [k |-> "funcall", args |-> e, ty |-> IntTy]
(* All bytes of a variable to zero, before its initializer is assigned. *)
MemZero(cell, ty) == [k |-> "memzero", cell |-> cell, ty |-> ty]
(* The member of a struct at a byte offset of the lvalue e, and whether it is a   *)
(* bit-field, which no tree that is executed reads.                              *)
Dot(e, offset, ty, bitfield) == [k |-> "dot", lhs |-> e, offset |-> offset, ty |-> ty, bitfield |-> bitfield]
StmtExpr(body, e) == [k |-> "stmt_expr", body |-> body, last |-> e, ty |-> e.ty]

ExprStmt(e) == [s |-> "expr", lhs |-> e]
If(c, a, b) == [s |-> "if", cond |-> c, then |-> a, els |-> b]
For(init, c, inc, body, brk, cont) ==
  [s |-> "for", init |-> init, cond |-> c, inc |-> inc, then |-> body, brk |-> brk, cont |-> cont]
Do(body, c, brk, cont) == [s |-> "do", then |-> body, cond |-> c, brk |-> brk, cont |-> cont]
(* cases: case_next, the cases of this switch, each [begin, end, label]. *)
Switch(c, body, cases, default, brk) ==
  [s |-> "switch", cond |-> c, then |-> body, cases |-> cases, default |-> default, brk |-> brk]
Labelled(l, body) == [s |-> "label", label |-> l, lhs |-> body]
Block(body) == [s |-> "block", body |-> body]
GotoStmt(l) == [s |-> "goto", label |-> l]
Return(e) == [s |-> "return", lhs |-> e]
Asm(e) == [s |-> "asm", lhs |-> e]
Empty == Block(<<>>)

(* The labels a statement holds. *)
RECURSIVE LabelsIn(_)
LabelsIn(st) ==
  CASE st.s = "label" -> {st.label} \cup LabelsIn(st.lhs)
    [] st.s = "block" -> UNION {LabelsIn(st.body[i]) : i \in DOMAIN st.body}
    [] st.s = "if" -> LabelsIn(st.then) \cup LabelsIn(st.els)
    [] st.s \in {"for", "do", "switch"} -> LabelsIn(st.then)
    [] OTHER -> {}

-----------------------------------------------------------------------------
(* A state of the run: memory, calls made, how it ended, the label a jump is  *)
(* on its way to, and the iterations left.                                    *)
Running(s) == s.end = "" /\ s.goal = None /\ s.fuel > 0
Undef(s) == [s EXCEPT !.end = "undefined"]

(* The bits of a bit-field in its unit, and the unit with the bits replaced. *)
Field(n, e) == (n \div 2 ^ e.offset) % 2 ^ e.width
WithField(n, e, v) == n + ((v % 2 ^ e.width) - Field(n, e)) * 2 ^ e.offset

(* The parser's types say what they are: an array, a struct or a function     *)
(* stands for its address, and a conversion to _Bool asks whether the value   *)
(* is not zero.                                                               *)
KindOf(ty) == IF "k" \in DOMAIN ty THEN ty.k ELSE "integer"
StandsForAddress(ty) == KindOf(ty) \in {"array", "struct", "union", "func"}
Convert(n, ty) == IF KindOf(ty) = "bool" THEN Truth(n # 0) ELSE Wrap(n, ty)
Loaded(n, ty) == IF KindOf(ty) = "bool" THEN n % 2 ^ ty.size ELSE Wrap(n, ty)

(* Expressions, lvalues and statements contain one another: all of them are    *)
(* given their meaning by Meaning.                                             *)
RECURSIVE Meaning(_, _, _)
Eval(e, s) == Meaning("value", e, s)
Lvalue(e, s) == Meaning("lvalue", e, s)
Exec(st, s) == Meaning("statement", st, s)
ExecSeq(body, s) == Meaning("list", body, s)
LoopFrom(st, s) == Meaning("loop", st, s)

(* The cell an lvalue designates. *)
MeaningOfLvalue(e, s) ==
  CASE e.k \in {"var", "member"} -> [v |-> e.cell, s |-> s]
    [] e.k = "deref" -> LET p == Eval(e.lhs, s) IN [v |-> Cell(p.v), s |-> p.s]
    [] e.k = "dot" -> LET l == Lvalue(e.lhs, s) IN [v |-> Cell(l.v + e.offset), s |-> l.s]
    [] e.k = "comma" -> LET l == Eval(e.lhs, s) IN Lvalue(e.rhs, l.s)

(* Value and state after. *)
MeaningOfExpr(e, s) ==
  IF ~Running(s) THEN [v |-> 0, s |-> s]
  ELSE CASE e.k = "null" -> [v |-> 1, s |-> s]
    [] e.k = "num" -> [v |-> Wrap(e.val, e.ty), s |-> s]
    [] e.k \in {"var", "deref", "dot"} ->
         LET l == Lvalue(e, s) IN
         [v |-> IF StandsForAddress(e.ty) THEN l.v ELSE Loaded(l.s.mem[l.v], e.ty), s |-> l.s]
    [] e.k = "member" ->
         [v |-> Wrap(Field(s.mem[e.cell], e), Ty(e.width, e.ty.unsigned)), s |-> s]
    [] e.k = "addr" -> Lvalue(e.lhs, s)
    [] e.k = "memzero" ->
         [v |-> 0, s |-> [s EXCEPT !.mem = [c \in DOMAIN @ |-> IF c \in e.cell .. e.cell + e.ty.size - 1 THEN 0 ELSE @[c]]]]
    [] e.k = "assign" ->
         LET r == Eval(e.rhs, s)
             l == Lvalue(e.lhs, r.s)
             stored == IF e.lhs.k = "member" THEN WithField(l.s.mem[l.v], e.lhs, r.v)
                       ELSE Stored(l.s.mem[l.v], r.v, e.ty)
         IN [v |-> r.v, s |-> IF Running(l.s) THEN [l.s EXCEPT !.mem[l.v] = stored] ELSE l.s]
    [] e.k = "cast" -> LET r == Eval(e.lhs, s) IN [v |-> Convert(r.v, e.ty), s |-> r.s]
    [] e.k \in UnaryOps ->
         LET r == Eval(e.lhs, s)
             n == Unary(e.k, r.v)
         IN [v |-> Wrap(n, e.ty), s |-> IF e.k = "neg" /\ ~e.ty.unsigned /\ ~Fits(n, e.ty) THEN Undef(r.s) ELSE r.s]
    [] e.k \in BinaryOps ->
         LET l == Eval(e.lhs, s)
             r == Eval(e.rhs, l.s)
         IN IF ~Running(r.s) THEN [v |-> 0, s |-> r.s]
            ELSE IF Undefined(e.k, l.v, r.v, e.lhs.ty) THEN [v |-> 0, s |-> Undef(r.s)]
            ELSE [v |-> Wrap(Exact(e.k, l.v, r.v, e.lhs.ty), e.ty), s |-> r.s]
    [] e.k \in {"logand", "logor"} ->
         LET l == Eval(e.lhs, s)
             r == Eval(e.rhs, l.s)
         IN IF (l.v # 0) = (e.k = "logor") THEN [v |-> Truth(e.k = "logor"), s |-> l.s]
            ELSE [v |-> Truth(r.v # 0), s |-> r.s]
    [] e.k = "cond" -> LET c == Eval(e.cond, s) IN Eval(IF c.v # 0 THEN e.then ELSE e.els, c.s)
    [] e.k = "comma" -> LET l == Eval(e.lhs, s) IN Eval(e.rhs, l.s)
    [] e.k = "funcall" ->
         LET a == Eval(e.args, s)
         IN [v |-> 0, s |-> IF ~Running(a.s) THEN a.s
                            ELSE [a.s EXCEPT !.out = Append(@, <<a.v, a.s.mem[0]>>), !.mem[0] = Cell(@ + 1)]]
    [] e.k = "stmt_expr" -> Eval(e.last, ExecSeq(e.body, s))

(* A statement list, one after the other; what a jump passes over does        *)
(* nothing.                                                                   *)
MeaningOfList(body, s) == IF body = <<>> THEN s ELSE ExecSeq(Tail(body), Exec(Head(body), s))

Arrive(s, l) == IF s.goal = l THEN [s EXCEPT !.goal = None] ELSE s

(* The rest of a loop from the test of its condition, or, on the way to a     *)
(* label inside it, from the body.                                            *)
MeaningOfLoop(st, s) ==
  LET test == IF s.goal # None THEN [v |-> 1, s |-> s] ELSE Eval(st.cond, s)
      body == Arrive(Exec(st.then, test.s), st.cont)
      next == Eval(st.inc, body).s
  IN IF test.s.end # "" \/ test.s.fuel = 0 \/ test.v = 0 THEN test.s
     ELSE IF ~Running(body) THEN body
     ELSE LoopFrom(st, [next EXCEPT !.fuel = @ - 1])

MeaningOfStmt(st, s) ==
  IF s.end # "" \/ s.fuel = 0 \/ s.goal \notin {None} \cup LabelsIn(st) THEN s
  ELSE CASE st.s = "expr" -> Eval(st.lhs, s).s
    [] st.s = "block" -> ExecSeq(st.body, s)
    [] st.s = "label" -> Exec(st.lhs, Arrive(s, st.label))
    [] st.s = "if" ->
         LET c == Eval(st.cond, s) IN
         IF s.goal = None THEN Exec(IF c.v # 0 THEN st.then ELSE st.els, c.s)
         ELSE Exec(IF s.goal \in LabelsIn(st.then) THEN st.then ELSE st.els, s)
    [] st.s = "for" -> Arrive(LoopFrom(st, IF s.goal = None THEN Exec(st.init, s) ELSE s), st.brk)
    [] st.s = "do" ->
         LET first == Arrive(Exec(st.then, s), st.cont)
             again == Eval(st.cond, first)
         IN IF ~Running(again.s) \/ again.v = 0 THEN Arrive(again.s, st.brk)
            ELSE Exec(st, [again.s EXCEPT !.fuel = @ - 1])
    [] st.s = "switch" ->
         LET c == Eval(st.cond, s)
             hit == {i \in DOMAIN st.cases : c.v \in st.cases[i].begin .. st.cases[i].end}
             label == IF hit # {} THEN st.cases[CHOOSE i \in hit : TRUE].label
                      ELSE IF st.default # None THEN st.default ELSE st.brk
         IN IF s.goal # None THEN Arrive(Exec(st.then, s), st.brk)
            ELSE IF ~Running(c.s) THEN c.s
            ELSE Arrive(Exec(st.then, [c.s EXCEPT !.goal = label]), st.brk)
    [] st.s = "goto" -> [s EXCEPT !.goal = st.label]
    [] st.s = "return" ->
         LET r == Eval(st.lhs, s) IN
         IF ~Running(r.s) THEN r.s ELSE [r.s EXCEPT !.end = "return", !.out = Append(@, <<r.v>>)]
    [] st.s = "asm" ->
         LET r == Eval(st.lhs, s) IN
         IF ~Running(r.s) THEN r.s ELSE [r.s EXCEPT !.out = Append(@, <<r.v>>)]

Meaning(what, t, s) ==
  CASE what = "value" -> MeaningOfExpr(t, s)
    [] what = "lvalue" -> MeaningOfLvalue(t, s)
    [] what = "statement" -> MeaningOfStmt(t, s)
    [] what = "list" -> MeaningOfList(t, s)
    [] what = "loop" -> MeaningOfLoop(t, s)

(* A jump that leaves the body enters it again at its label. *)
RECURSIVE RunBody(_, _)
RunBody(body, s) ==
  LET r == Exec(body, s) IN
  IF r.goal = None \/ r.end # "" \/ r.fuel = 0 THEN r ELSE RunBody(body, [r EXCEPT !.fuel = @ - 1])

TreeOutcome(body, memory) ==
  LET r == RunBody(body, [mem |-> memory, out |-> <<>>, end |-> "", goal |-> None, fuel |-> Iterations])
  IN [end |-> IF r.end = "" /\ r.fuel > 0 THEN "return" ELSE r.end, out |-> r.out, mem |-> r.mem]
=============================================================================
