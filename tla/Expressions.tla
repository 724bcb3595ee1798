----------------------------- MODULE Expressions -----------------------------
(***************************************************************************)
(* How the parser reads expressions (parse.c) into typed trees.  The nodes    *)
(* of a tree are those of Trees; a variable carries the object it names.       *)
(*                                                                         *)
(* Operators return [v, p] with the node read.  Floating numbers, compound    *)
(* literals, statement expressions, string literals, atomic operators and     *)
(* the builtins of one ABI are left out.                                      *)
(***************************************************************************)
EXTENDS Declarations

NumNode(n, ty) == Num(n, ty)
VarNode(p, i) ==
  [k |-> "var", cell |-> p.objs[i].cell, ty |-> Resolve(p, p.objs[i].ty), obj |-> i, local |-> p.objs[i].local]
LastVar(p) == VarNode(p, Len(p.objs))
NoNode == NumNode(0, ty_int)
Error(p) == [v |-> NoNode, p |-> Fail(p)]
Got(node, p) == [v |-> node, p |-> p]

Indirect(p, e) == LET d == Dereference(e) IN [d EXCEPT !.ty = Resolve(p, @)]
ElementSize(p, e) == Resolve(p, Base(e.ty)).size

-----------------------------------------------------------------------------
(* Binary operators.  l and r are the operands as the parser read them. *)

Node(k, l, r) ==
  CASE k \in {"shl", "shr"} -> Shift(k, l, r)
    [] k \in {"logand", "logor"} -> LogicalOp(k, l, r)
    [] OTHER -> Arithmetic(k, l, r)

(* An integer added to a pointer counts elements.  Their size is an int that the     *)
(* conversions make a long long at once, as it is here: the int's of an instance may  *)
(* be too short for it.                                                             *)
Scaled(p, ptr, n) ==
  IF ElementSize(p, ptr) = 1 THEN new_cast(n, ty_llong)
  ELSE Arithmetic("mul", new_cast(n, ty_llong), NumNode(ElementSize(p, ptr), ty_llong))

(* The operands new_add and new_sub give their node: <<>> for an error, and    *)
(* the two the code has made of l and r.                                       *)
AddOperands(p, l, r) ==
  CASE is_numeric(l.ty) /\ is_numeric(r.ty) -> <<l, r>>
    [] HasBase(l.ty) /\ HasBase(r.ty) -> <<>>
    [] ~HasBase(l.ty) /\ HasBase(r.ty) -> <<r, Scaled(p, r, l)>>
    [] HasBase(l.ty) /\ ~HasBase(r.ty) -> <<l, Scaled(p, l, r)>>
    [] OTHER -> <<>>

new_add(p, l, r) ==
  LET both == AddOperands(p, l, r)
  IN IF both = <<>> THEN Error(p) ELSE Got(Arithmetic("add", both[1], both[2]), p)

(* The difference of two pointers counts elements; a pointer less an integer    *)
(* keeps its type, without conversions.                                         *)
new_sub(p, l, r) ==
  LET bytes(ty, a) == [k |-> "sub", lhs |-> l, rhs |-> a, ty |-> ty]
      elements == Arithmetic("div", bytes(ty_llong, r), NumNode(ElementSize(p, l), ty_llong))
  IN CASE is_numeric(l.ty) /\ is_numeric(r.ty) -> Got(Arithmetic("sub", l, r), p)
       [] HasBase(l.ty) /\ is_integer(r.ty) -> Got(bytes(l.ty, Scaled(p, l, r)), p)
       [] HasBase(l.ty) /\ HasBase(r.ty) -> Got(IF ElementSize(p, l) = 1 THEN bytes(ty_llong, r) ELSE elements, p)
       [] OTHER -> Error(p)

Operator(op) ==
  CASE op = "||" -> "logor" [] op = "&&" -> "logand" [] op = "|" -> "or" [] op = "^" -> "xor" [] op = "&" -> "and"
    [] op = "==" -> "eq" [] op = "!=" -> "ne" [] op \in {"<", ">"} -> "lt" [] op \in {"<=", ">="} -> "le"
    [] op = "<<" -> "shl" [] op = ">>" -> "shr" [] op = "*" -> "mul" [] op = "/" -> "div" [] op = "%" -> "mod"

new_binary(op, l, r, p) ==
  CASE op = "+" -> new_add(p, l, r)
    [] op = "-" -> new_sub(p, l, r)
    [] op \in {">", ">="} -> Got(Node(Operator(op), r, l), p)
    [] OTHER -> Got(Node(Operator(op), l, r), p)

-----------------------------------------------------------------------------
(* A op= B becomes tmp = &A, *tmp = *tmp op B; A.x op= B becomes               *)
(* tmp = &A, tmp->x = tmp->x op B.  r is scaled when l is a pointer.            *)
to_assign(k, l, r, p) ==
  LET member == l.k = "dot"
      object == IF member THEN l.lhs ELSE l
      q == new_lvar(p, "", pointer_to(object.ty))
      tmp == LastVar(q)
      there == Indirect(q, tmp)
      target == IF member THEN [l EXCEPT !.lhs = there] ELSE there
  IN IF Failed(p) THEN Error(p)
     ELSE Got(Comma(AssignTo(tmp, TakeAddress(object)), AssignTo(target, Node(k, target, r))), q)

AssignOps == [op \in {"+=", "-=", "*=", "/=", "%=", "&=", "|=", "^=", "<<=", ">>="} |->
  CASE op = "+=" -> "add" [] op = "-=" -> "sub" [] op = "*=" -> "mul" [] op = "/=" -> "div" [] op = "%=" -> "mod"
    [] op = "&=" -> "and" [] op = "|=" -> "or" [] op = "^=" -> "xor" [] op = "<<=" -> "shl" [] op = ">>=" -> "shr"]

AssignOp(k, l, r, p) ==
  LET pointer == HasBase(l.ty) /\ k \in {"add", "sub"}
  IN IF pointer /\ ~is_integer(r.ty) THEN Error(p) ELSE to_assign(k, l, IF pointer THEN Scaled(p, l, r) ELSE r, p)

(* A++ becomes (typeof A)((A += 1) - 1). *)
CastTo(e, ty) == Got(new_cast(e.v, ty), e.p)
Less(e, addend) == new_add(e.p, e.v, NumNode(-addend, ty_int))
new_inc_dec(node, p, addend) ==
  CastTo(Less(AssignOp("add", node, NumNode(addend, ty_int), p), addend), node.ty)

(* a.x, through the anonymous members on the way to x. *)
RECURSIVE Through(_, _, _)
Through(p, node, path) ==
  IF path = <<>> THEN node
  ELSE Through(p, Dot(node, Head(path).offset, Resolve(p, Head(path).ty), Head(path).isBitfield), Tail(path))
struct_ref(node, p) ==
  LET path == get_struct_member(p, node.ty, Peek(p))
  IN IF ~IsRecord(node.ty) \/ path = <<>> THEN Error(p) ELSE Got(Through(p, node, path), Advance(p))

-----------------------------------------------------------------------------
(* eval2, eval_rval: constant expressions, in 64 bits whatever their type.       *)
(* labels: an address may be the result, as in a global's initializer; label is   *)
(* the object it is relative to, 0 for none.  Where no address may be, the code   *)
(* stops at a variable with an error and at the address of one with a crash.      *)

Constant(n) == [v |-> Wrap(n, LongTy), label |-> 0, ok |-> TRUE]
NoConstant == [v |-> 0, label |-> 0, ok |-> FALSE]

CastConstantUnsigned(n, ty) == IF ~is_integer(ty) \/ ty.size = 8 THEN n ELSE Wrap(n, Unsigned(ty))
(* A conversion to four bytes yields an unsigned number whatever the type, as     *)
(* the two alternatives of the conditional expression in the code have that       *)
(* common type.                                                                   *)
CastConstant(n, ty) ==
  CASE ~is_integer(ty) \/ ty.size = 8 -> n
    [] ty.size = 4 -> Wrap(n, Unsigned(ty))
    [] OTHER -> Wrap(n, ty)

(* The operators on 64-bit numbers a and b; ty is the node's type, lhs that of     *)
(* its left operand.                                                               *)
Fold(k, a, b, ty, lhs) ==
  LET bits(n) == n % 2 ^ WordBits
      as(n, unsigned) == IF unsigned THEN bits(n) ELSE n
  IN CASE k \in {"div", "mod"} /\ b = 0 -> 0
       [] k \in {"div", "mod"} -> Exact(k, as(a, ty.unsigned), as(b, ty.unsigned), LongTy)
       [] k \in {"lt", "le"} -> Exact(k, as(a, lhs.unsigned), as(b, lhs.unsigned), LongTy)
       [] k = "shr" -> Exact(k, as(a, ty.unsigned /\ ty.size = 8), b, LongTy)
       [] OTHER -> Exact(k, a, b, LongTy)

RECURSIVE eval2(_, _), eval_rval(_)
eval(e) == eval2(e, FALSE)
eval2(e, labels) ==
  LET l == eval2(e.lhs, labels /\ e.k \in {"add", "sub", "cast"})
      r == eval(e.rhs)
      c == eval(e.cond)
  IN CASE e.k \in BinaryOps ->
            IF ~l.ok \/ ~r.ok THEN NoConstant
            ELSE [Constant(Fold(e.k, l.v, r.v, e.ty, e.lhs.ty)) EXCEPT !.label = l.label]
       [] e.k \in {"neg", "not", "lognot"} -> IF l.ok THEN Constant(Unary(e.k, l.v)) ELSE NoConstant
       [] e.k = "logand" -> IF ~l.ok THEN l ELSE IF l.v = 0 THEN Constant(0)
                            ELSE IF r.ok THEN Constant(Truth(r.v # 0)) ELSE NoConstant
       [] e.k = "logor" -> IF ~l.ok THEN l ELSE IF l.v # 0 THEN Constant(1)
                           ELSE IF r.ok THEN Constant(Truth(r.v # 0)) ELSE NoConstant
       [] e.k = "cond" -> IF ~c.ok THEN c ELSE eval2(IF c.v # 0 THEN e.then ELSE e.els, labels)
       [] e.k = "comma" -> eval2(e.rhs, labels)
       [] e.k = "cast" -> IF l.ok THEN [l EXCEPT !.v = Wrap(CastConstant(@, e.ty), LongTy)] ELSE l
       [] e.k = "addr" -> IF labels THEN eval_rval(e.lhs) ELSE NoConstant
       [] e.k = "dot" -> IF labels /\ e.ty.k = "array" THEN eval_rval(e) ELSE NoConstant
       [] e.k = "var" -> IF labels /\ e.ty.k \in {"array", "func"} THEN [Constant(0) EXCEPT !.label = e.obj]
                         ELSE NoConstant
       [] e.k = "num" -> Constant(e.val)
       [] OTHER -> NoConstant
eval_rval(e) ==
  LET l == eval_rval(e.lhs)
  IN CASE e.k = "var" -> IF e.local THEN NoConstant ELSE [Constant(0) EXCEPT !.label = e.obj]
       [] e.k = "deref" -> eval2(e.lhs, TRUE)
       [] e.k = "dot" -> IF l.ok THEN [l EXCEPT !.v = @ + e.offset] ELSE l
       [] OTHER -> NoConstant

(* What __builtin_constant_p says: an address is no constant. *)
RECURSIVE is_const_expr(_)
is_const_expr(e) ==
  CASE e.k \in BinaryOps \cup {"logand", "logor"} -> is_const_expr(e.lhs) /\ is_const_expr(e.rhs)
    [] e.k = "cond" -> is_const_expr(e.cond) /\ is_const_expr(IF eval(e.cond).v # 0 THEN e.then ELSE e.els)
    [] e.k = "comma" -> is_const_expr(e.rhs)
    [] e.k \in {"neg", "not", "lognot", "cast"} -> is_const_expr(e.lhs)
    [] OTHER -> e.k = "num"

-----------------------------------------------------------------------------
BinaryLevels == <<{"||"}, {"&&"}, {"|"}, {"^"}, {"&"}, {"==", "!="}, {"<", "<=", ">", ">="}, {"<<", ">>"},
                  {"+", "-"}, {"*", "/", "%"}>>
Precedence == [op \in UNION {BinaryLevels[i] : i \in DOMAIN BinaryLevels} |-> CHOOSE i \in DOMAIN BinaryLevels : op \in BinaryLevels[i]]

(* As in Declarations: what assign does is in ReadAssign, and so on. *)
RECURSIVE ReadExpr(_, _)
expr(p) == ReadExpr("expr", <<p>>)
assign(p) == ReadExpr("assign", <<p>>)
conditional(p) == ReadExpr("conditional", <<p>>)
Operands(least, l) == ReadExpr("Operands", <<least, l>>)
cast(p) == ReadExpr("cast", <<p>>)
unary(p) == ReadExpr("unary", <<p>>)
postfix(node, p) == ReadExpr("postfix", <<node, p>>)
funcall(fn, p, args, first) == ReadExpr("funcall", <<fn, p, args, first>>)
primary(p) == ReadExpr("primary", <<p>>)
generic_selection(p, ty, chosen) == ReadExpr("generic_selection", <<p, ty, chosen>>)
offsetof(p, ty, offset) == ReadExpr("offsetof", <<p, ty, offset>>)
const_expr(p) == ReadExpr("const_expr", <<p>>)
TypeName(p) == ReadExpr("typename", <<p>>)

(* logor, logand, ... mul: an operator takes the operand before it and all that   *)
(* binds tighter after it; l is what has been read, and operators of the levels     *)
(* from least on may follow.                                                       *)
Level(least, p) == Operands(least, cast(p))
ReadOperands(least, l) ==
  LET op == Peek(l.p)
      r == Level(Precedence[op] + 1, Advance(l.p))
  IN IF op \notin DOMAIN Precedence \/ Precedence[op] < least THEN l
     ELSE Operands(least, new_binary(op, l.v, r.v, r.p))

ReadComma(p) ==
  LET l == assign(p)
      r == expr(Advance(l.p))
  IN IF Peek(l.p) = "," THEN Got(Comma(l.v, r.v), r.p) ELSE l

ReadAssign(p) ==
  LET l == conditional(p)
      op == Peek(l.p)
      r == assign(Advance(l.p))
  IN IF op = "=" THEN IF l.v.ty.k = "array" THEN Error(r.p) ELSE Got(AssignTo(l.v, r.v), r.p)
     ELSE IF op \in DOMAIN AssignOps THEN AssignOp(AssignOps[op], l.v, r.v, r.p)
     ELSE l

(* a ?: b becomes tmp = a, tmp ? tmp : b. *)
ReadConditional(p) ==
  LET c == Level(1, p)
      q == new_lvar(c.p, "", c.v.ty)
      tmp == LastVar(q)
      default == conditional(Advance(Advance(q)))
      a == expr(Advance(c.p))
      b == conditional(Skip(a.p, ":"))
  IN IF Peek(c.p) # "?" THEN c
     ELSE IF PeekNext(c.p) = ":"
     THEN Got(Comma(AssignTo(tmp, c.v), Conditional(tmp, tmp, default.v)), default.p)
     ELSE Got(Conditional(c.v, a.v, b.v), b.p)

IsTypeInParens(p) == Peek(p) = "(" /\ IsTypename(Advance(p))
TypeInParens(p) == LET t == TypeName(Advance(p)) IN [v |-> Resolve(t.p, t.v), p |-> Skip(t.p, ")")]

ReadCast(p) ==
  LET t == TypeInParens(p)
      e == cast(t.p)
  IN IF IsTypeInParens(p) THEN Got(new_cast(e.v, t.v), e.p) ELSE unary(p)

IsBitfield(e) == e.k = "dot" /\ e.bitfield
ReadUnary(p) ==
  LET e == cast(Advance(p))
      u == unary(Advance(p))
      one == NumNode(1, ty_int)
  IN CASE Peek(p) = "+" -> e
       [] Peek(p) = "-" -> Got(Negate(e.v), e.p)
       [] Peek(p) = "!" -> Got(LogicalNot(e.v), e.p)
       [] Peek(p) = "~" -> Got(Complement(e.v), e.p)
       [] Peek(p) = "&" -> IF IsBitfield(e.v) THEN Error(e.p) ELSE Got(TakeAddress(e.v), e.p)
       [] Peek(p) = "*" -> IF e.v.ty.k = "func" THEN e
                           ELSE IF Dereferenceable(e.v) THEN Got(Indirect(e.p, e.v), e.p) ELSE Error(e.p)
       [] Peek(p) = "++" -> AssignOp("add", u.v, one, u.p)
       [] Peek(p) = "--" -> AssignOp("sub", u.v, one, u.p)
       [] OTHER -> LET e1 == primary(p) IN postfix(e1.v, e1.p)

(* The rest of a postfix expression that begins with node. *)
PostfixOf(e) == postfix(e.v, e.p)
PostfixAt(e) == IF Dereferenceable(e.v) THEN postfix(Indirect(e.p, e.v), e.p) ELSE Error(e.p)
ReadPostfix(node, p) ==
  LET next == Advance(p)
      call == funcall(node, next, <<>>, TRUE)
      index == expr(next)
      element == new_add(Skip(index.p, "]"), node, index.v)
      dot == struct_ref(node, next)
      arrow == struct_ref(Indirect(next, node), next)
      step == new_inc_dec(node, next, IF Peek(p) = "++" THEN 1 ELSE -1)
  IN CASE Peek(p) = "(" -> PostfixOf(call)
       [] Peek(p) = "[" -> PostfixAt(element)
       [] Peek(p) = "." -> PostfixOf(dot)
       [] Peek(p) = "->" -> IF Dereferenceable(node) THEN PostfixOf(arrow) ELSE Error(p)
       [] Peek(p) \in {"++", "--"} -> PostfixOf(step)
       [] OTHER -> Got(node, p)

(* The arguments, each cast to its parameter's type; args so far in one comma   *)
(* expression, none at first.                                                   *)
FunctionOf(ty) == IF ty.k = "func" THEN ty ELSE Base(ty)
IsCallable(ty) == ty.k = "func" \/ (ty.k = "ptr" /\ Base(ty).k = "func")
ReadArguments(fn, p, args, first) ==
  LET ty == FunctionOf(fn.ty)
      arg == assign(IF first THEN p ELSE Skip(p, ","))
      n == Len(args) + 1
      cast_ == IF n > Len(ty.params) \/ IsRecord(ty.params[n]) THEN arg.v ELSE new_cast(arg.v, ty.params[n])
      call == [k |-> "funcall", args |-> IF args = <<>> THEN NoExpr ELSE args[Len(args)], ty |-> ty.ret[1]]
  IN IF Failed(p) \/ ~IsCallable(fn.ty) THEN Error(p)
     ELSE IF Peek(p) = ")" THEN IF Len(args) < Len(ty.params) THEN Error(p) ELSE Got(call, Advance(p))
     ELSE IF n > Len(ty.params) /\ ~ty.variadic THEN Error(p)
     ELSE funcall(fn, arg.p, Append(args, IF first THEN cast_ ELSE Comma(args[n - 1], cast_)), FALSE)

(* The associations after the controlling expression, whose type is ty; chosen   *)
(* holds the node taken so far.  A later compatible type wins.                   *)
ReadAssociations(p, ty, chosen) ==
  LET t == TypeName(Advance(p))
      typed == assign(Skip(t.p, ":"))
      default == assign(Skip(Advance(Advance(p)), ":"))
  IN IF Peek(p) = ")" THEN IF chosen = <<>> THEN Error(p) ELSE Got(chosen[1], Advance(p))
     ELSE IF Peek(p) # "," THEN Error(p)
     ELSE IF PeekNext(p) = "default"
     THEN generic_selection(default.p, ty, IF chosen = <<>> THEN <<default.v>> ELSE chosen)
     ELSE generic_selection(typed.p, ty, IF is_compatible(ty, t.v) THEN <<typed.v>> ELSE chosen)
Decayed(ty) == CASE ty.k = "func" -> pointer_to(ty) [] ty.k = "array" -> pointer_to(Base(ty)) [] OTHER -> ty

(* __builtin_offsetof: the members after the type.  A member of an anonymous      *)
(* struct counts as that struct, which does not move on to the member.            *)
ReadDesignators(p, ty, offset) ==
  LET named == IF Peek(p) = "." THEN Advance(p) ELSE p
      path == get_struct_member(named, ty, Peek(named))
      index == const_expr(Advance(p))
  IN IF Peek(p) = "." \/ IsIdent(Peek(p))
     THEN IF ~IsRecord(ty) \/ path = <<>> THEN Error(p)
          ELSE offsetof(Advance(named), path[1].ty, offset + path[1].offset)
     ELSE IF Peek(p) = "["
     THEN IF ~HasBase(ty) THEN Error(p)
          ELSE offsetof(Skip(index.p, "]"), Base(ty), offset + index.v * Resolve(p, Base(ty)).size)
     ELSE Got(NumNode(offset, ty_ulong), Skip(p, ")"))

(* Naming a function makes it one the function being read refers to, or, in an    *)
(* initializer outside, one that has to exist.                                    *)
Mention(p, i) ==
  IF p.objs[i].ty.k # "func" THEN p
  ELSE IF p.fn # 0 THEN [p EXCEPT !.objs[p.fn].refs = @ \cup {p.objs[i].name}]
  ELSE [p EXCEPT !.objs[i].root = TRUE]

sizeof(p) ==
  LET t == TypeInParens(p)
      e == unary(p)
  IN IF IsTypeInParens(p) THEN Got(NumNode(t.v.size, ty_ulong), t.p) ELSE Got(NumNode(e.v.ty.size, ty_ulong), e.p)
alignof(p) ==
  LET t == TypeInParens(p)
      e == unary(p)
  IN IF IsTypeInParens(p) THEN Got(NumNode(t.v.align, ty_ulong), t.p) ELSE Got(NumNode(e.v.ty.align, ty_ulong), e.p)

(* The builtins that are not a matter of one ABI, after their parenthesis. *)
types_compatible_p(p) ==
  LET a == TypeName(p)
      b == TypeName(Skip(a.p, ","))
  IN Got(NumNode(Truth(is_compatible(a.v, b.v)), ty_int), Skip(b.p, ")"))
expect(p) == LET e == assign(p) IN Got(e.v, Skip(assign(Skip(e.p, ",")).p, ")"))
constant_p(p) == LET e == assign(p) IN Got(NumNode(Truth(is_const_expr(e.v)), ty_int), Skip(e.p, ")"))

Identifier(p) ==
  LET entry == find_var(p, Peek(p))
  IN CASE entry.k = "var" -> Got(VarNode(p, entry.val), Mention(Advance(p), entry.val))
       [] entry.k = "enum" -> Got(NumNode(entry.val, ty_int), Advance(p))
       [] OTHER -> Error(p)
NumberToken(p) == LET n == NumberTokens[Peek(p)] IN Got(NumNode(n.val, n.ty), Advance(p))

ReadPrimary(p) ==
  LET tok == Peek(p)
      next == Advance(p)
      args == Skip(next, "(")
      paren == expr(next)
      control == assign(args)
      of == TypeName(args)
  IN CASE tok = "(" -> Got(paren.v, Skip(paren.p, ")"))
       [] tok = "sizeof" -> sizeof(next)
       [] tok = "_Alignof" -> alignof(next)
       [] tok = "_Generic" -> generic_selection(control.p, Decayed(control.v.ty), <<>>)
       [] tok = "__builtin_offsetof" -> offsetof(Skip(of.p, ","), of.v, 0)
       [] tok = "__builtin_types_compatible_p" -> types_compatible_p(args)
       [] tok = "__builtin_expect" -> expect(args)
       [] tok = "__builtin_constant_p" -> constant_p(args)
       [] IsNumber(tok) -> NumberToken(p)
       [] IsIdent(tok) -> Identifier(p)
       [] OTHER -> Error(p)

ReadConstant(p) ==
  LET e == conditional(p)
      c == eval(e.v)
  IN [v |-> c.v, p |-> IF c.ok THEN e.p ELSE Fail(p)]

ReadExpr(what, t) ==
  CASE what = "expr" -> ReadComma(t[1])
    [] what = "assign" -> ReadAssign(t[1])
    [] what = "conditional" -> ReadConditional(t[1])
    [] what = "Operands" -> ReadOperands(t[1], t[2])
    [] what = "cast" -> ReadCast(t[1])
    [] what = "unary" -> ReadUnary(t[1])
    [] what = "postfix" -> ReadPostfix(t[1], t[2])
    [] what = "funcall" -> ReadArguments(t[1], t[2], t[3], t[4])
    [] what = "primary" -> ReadPrimary(t[1])
    [] what = "generic_selection" -> ReadAssociations(t[1], t[2], t[3])
    [] what = "offsetof" -> ReadDesignators(t[1], t[2], t[3])
    [] what = "const_expr" -> ReadConstant(t[1])
    [] OTHER -> ReadType(what, t)
=============================================================================
