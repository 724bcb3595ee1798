------------------------------ MODULE CMeaning -------------------------------
(***************************************************************************)
(* A small part of C, as the standard describes it: abstract expressions and  *)
(* statements, how they are written down and what they mean.  The reference    *)
(* for the parser: nothing here looks at tokens, labels or the parser's types. *)
(*                                                                         *)
(* An expression is an operator with its operands.  The integer types have one *)
(* bit for each byte of the real ones.  There are the variables of VarTypes,    *)
(* the array a, the struct s with a member m and an array member n, and sp      *)
(* that points to s.                                                           *)
(***************************************************************************)
EXTENDS CTypes

Term(op, args) == [op |-> op, args |-> args]
Leaf(x) == Term(x, <<>>)

(* Types: an integer type by its name, or a pointer into (or the whole of) one   *)
(* of the arrays.                                                               *)
IntType(name) == [name |-> name, to |-> ""]
PointerTo(array) == [name |-> "ptr", to |-> array]
WholeArray(array) == [name |-> "array", to |-> array]

Width == [t \in {"bool", "char", "uchar", "short", "ushort", "int", "uint", "long", "ulong"} |->
            CASE t \in {"bool", "char", "uchar"} -> 1 [] t \in {"short", "ushort"} -> 2
              [] t \in {"int", "uint"} -> 4 [] OTHER -> 8]
UnsignedTypes == {"bool", "uchar", "ushort", "uint", "ulong"}
Range_(t) == Ty(Width[t], t \in UnsignedTypes)
UnsignedOf == [t \in {"int", "long", "uint", "ulong"} |-> CASE t = "int" -> "uint" [] t = "long" -> "ulong" [] OTHER -> t]

ConvertTo(v, t) == IF t = "bool" THEN Truth(v # 0) ELSE Wrap(v, Range_(t))
(* C17 6.3.1.1 and 6.3.1.8. *)
Promoted(t) == IF Width[t] < Width["int"] THEN "int" ELSE t
Wider(a, b) ==
  IF Width[a] = Width[b] /\ {a, b} \cap UnsignedTypes # {} THEN UnsignedOf[a]
  ELSE IF Width[a] >= Width[b] THEN a ELSE b
CommonOf(t1, t2) == Wider(Promoted(t1), Promoted(t2))

VarTypes == [x |-> "int", y |-> "int", i |-> "int", c |-> "char", d |-> "uchar", h |-> "short", k |-> "ushort",
             u |-> "uint", l |-> "long", v |-> "ulong", b |-> "bool"]
TypeOfVar(x) ==
  CASE x = "a" -> WholeArray("a") [] x = "p" -> PointerTo("a") [] OTHER -> IntType(VarTypes[x])
ArrayLength == 3
NumberOf == [t \in {"0", "1", "2", "3", "4", "5", "7", "1u", "2u", "1L", "2L", "3L", "100L"} |->
  [val |-> CASE t = "0" -> 0 [] t \in {"1", "1u", "1L"} -> 1 [] t \in {"2", "2u", "2L"} -> 2 [] t \in {"3", "3L"} -> 3
             [] t = "4" -> 4 [] t = "5" -> 5 [] t = "7" -> 7 [] OTHER -> 100,
   ty |-> CASE t \in {"1u", "2u"} -> "uint" [] t \in {"1L", "2L", "3L", "100L"} -> "long" [] OTHER -> "int"]]
SizeOfType(t) == IF t.name = "array" THEN ArrayLength * 4 ELSE IF t.name = "ptr" THEN 8 ELSE Width[t.name]

-----------------------------------------------------------------------------
(* Writing an expression down with no more parentheses than it needs. *)

LevelOf == [op \in {"||", "&&", "|", "^", "&", "==", "!=", "<", "<=", ">", ">=", "<<", ">>", "+", "-", "*", "/", "%"} |->
  CASE op = "||" -> 4 [] op = "&&" -> 5 [] op = "|" -> 6 [] op = "^" -> 7 [] op = "&" -> 8 [] op \in {"==", "!="} -> 9
    [] op \in {"<", "<=", ">", ">="} -> 10 [] op \in {"<<", ">>"} -> 11 [] op \in {"+", "-"} -> 12 [] OTHER -> 13]
OperationOf == [op \in {"+=", "-=", "*=", "/=", "%=", "&=", "|=", "^=", "<<=", ">>=", "++u", "u++", "--u", "u--"} |->
  CASE op \in {"+=", "++u", "u++"} -> "+" [] op \in {"-=", "--u", "u--"} -> "-" [] op = "*=" -> "*" [] op = "/=" -> "/"
    [] op = "%=" -> "%" [] op = "&=" -> "&" [] op = "|=" -> "|" [] op = "^=" -> "^" [] op = "<<=" -> "<<" [] op = ">>=" -> ">>"]
PrefixToken == [op \in {"u+", "u-", "u!", "u~", "u&", "u*", "++u", "--u", "sizeof"} |->
  CASE op = "u+" -> "+" [] op = "u-" -> "-" [] op = "u!" -> "!" [] op = "u~" -> "~" [] op = "u&" -> "&" [] op = "u*" -> "*"
    [] op = "++u" -> "++" [] op = "--u" -> "--" [] OTHER -> "sizeof"]
CastTokens == [op \in {"(char)", "(uchar)", "(short)", "(uint)", "(long)", "(bool)"} |->
  CASE op = "(char)" -> <<"char">> [] op = "(uchar)" -> <<"unsigned", "char">> [] op = "(short)" -> <<"short", "int">>
    [] op = "(uint)" -> <<"unsigned">> [] op = "(long)" -> <<"long">> [] OTHER -> <<"_Bool">>]
CastType == [op \in DOMAIN CastTokens |->
  CASE op = "(char)" -> "char" [] op = "(uchar)" -> "uchar" [] op = "(short)" -> "short" [] op = "(uint)" -> "uint"
    [] op = "(long)" -> "long" [] OTHER -> "bool"]
Assigns == {"=", "+=", "-=", "*=", "/=", "%=", "&=", "|=", "^=", "<<=", ">>="}

Precedes(e) ==
  CASE e.op = "," -> 1 [] e.op \in Assigns -> 2 [] e.op \in {"?:", "? :"} -> 3 [] e.op \in DOMAIN LevelOf -> LevelOf[e.op]
    [] e.op \in DOMAIN CastTokens -> 14 [] e.op \in DOMAIN PrefixToken -> 15 [] e.args # <<>> -> 16 [] OTHER -> 17

RECURSIVE Show(_)
ShowAt(e, least) == IF Precedes(e) < least THEN <<"(">> \o Show(e) \o <<")">> ELSE Show(e)
Show(e) ==
  LET at(i, least) == ShowAt(e.args[i], least)
      level == Precedes(e)
  IN CASE e.args = <<>> -> <<e.op>>
       [] e.op = "," \/ e.op \in DOMAIN LevelOf -> at(1, level) \o <<e.op>> \o at(2, level + 1)
       [] e.op \in Assigns -> at(1, 15) \o <<e.op>> \o at(2, 2)
       [] e.op = "?:" -> at(1, 4) \o <<"?">> \o at(2, 1) \o <<":">> \o at(3, 3)
       [] e.op = "? :" -> at(1, 4) \o <<"?", ":">> \o at(2, 3)
       [] e.op \in {"++u", "--u", "sizeof"} -> <<PrefixToken[e.op]>> \o at(1, 15)
       [] e.op \in DOMAIN PrefixToken -> <<PrefixToken[e.op]>> \o at(1, 14)
       [] e.op \in DOMAIN CastTokens -> <<"(">> \o CastTokens[e.op] \o <<")">> \o at(1, 14)
       [] e.op \in {"u++", "u--"} -> at(1, 16) \o <<IF e.op = "u++" THEN "++" ELSE "--">>
       [] e.op = "[]" -> at(1, 16) \o <<"[">> \o at(2, 1) \o <<"]">>
       [] e.op = "call" -> <<"g", "(">> \o at(1, 2) \o <<")">>
       [] e.op = "." -> at(1, 16) \o <<".", e.args[2].op>>
       [] e.op = "->" -> at(1, 16) \o <<"->", e.args[2].op>>

-----------------------------------------------------------------------------
(* Meaning.  A state: the values of the places, a place being the name of an    *)
(* object and an index into it; which object a name denotes; whether the         *)
(* behaviour is still defined; what g was called with; and how the statement      *)
(* executed last ended: "" to go on, or the jump it made.                         *)

Val(v, ty, s) == [v |-> v, ty |-> ty, s |-> s]
AnInt(n, s) == Val(n, IntType("int"), s)
Ruined(s) == [s EXCEPT !.defined = FALSE]

ArithKind == [op \in DOMAIN LevelOf \ {"&&", "||"} |->
  CASE op = "+" -> "add" [] op = "-" -> "sub" [] op = "*" -> "mul" [] op = "/" -> "div" [] op = "%" -> "mod"
    [] op = "&" -> "and" [] op = "|" -> "or" [] op = "^" -> "xor" [] op = "<<" -> "shl" [] op = ">>" -> "shr"
    [] op = "==" -> "eq" [] op = "!=" -> "ne" [] op = "<" -> "lt" [] op = "<=" -> "le" [] op = ">" -> "gt" [] OTHER -> "ge"]
Apply(k, a, b, ty) ==
  IF Undefined(k, a, b, ty) THEN [v |-> 0, ok |-> FALSE] ELSE [v |-> Exact(k, a, b, ty), ok |-> TRUE]

(* l op r for operands already evaluated, with the state after both: s. *)
OnAddresses(op, l, r, s) ==
  CASE r.ty.name # "ptr" -> Val(IF op = "+" THEN l.v + r.v ELSE l.v - r.v, l.ty, s)
    [] l.ty.name # "ptr" -> Val(l.v + r.v, r.ty, s)
    [] op = "-" -> Val(l.v - r.v, IntType("long"), s)
    [] OTHER -> AnInt(Apply(ArithKind[op], l.v, r.v, Range_("long")).v, s)
OfType(op, res, t, s) ==
  IF op \in {"==", "!=", "<", "<=", ">", ">="} THEN AnInt(res.v, s) ELSE Val(Wrap(res.v, Range_(t)), IntType(t), s)
Result(op, res, t, s) == OfType(op, res, t, IF res.ok THEN s ELSE Ruined(s))
InType(op, a, b, t, s) == Result(op, Apply(ArithKind[op], ConvertTo(a, t), b, Range_(t)), t, s)
Arith(op, l, r, s) ==
  IF "ptr" \in {l.ty.name, r.ty.name} THEN OnAddresses(op, l, r, s)
  ELSE IF op \in {"<<", ">>"} THEN InType(op, l.v, r.v, Promoted(l.ty.name), s)
  ELSE LET t == CommonOf(l.ty.name, r.ty.name) IN InType(op, l.v, ConvertTo(r.v, t), t, s)

RECURSIVE Sem(_, _, _)
Mean(e, s) == Sem("value", e, s)
Place(e, s) == Sem("place", e, s)
Do_(st, s) == Sem("statement", st, s)
DoItems(items, s) == Sem("items", items, s)
DoBlock(items, s) == Sem("block", items, s)
While_(st, s) == Sem("loop", st, s)

(* The place an lvalue designates; ty is the type it has there. *)
Pointed(a) ==
  [key |-> <<a.ty.to, a.v>>, ty |-> IntType("int"), s |-> IF a.v \in 0 .. ArrayLength - 1 THEN a.s ELSE Ruined(a.s)]
PlaceOf(e, s) ==
  CASE e.args = <<>> -> [key |-> <<s.env[e.op], 0>>, ty |-> TypeOfVar(e.op), s |-> s]
    [] e.op = "[]" -> Pointed(Mean(Term("+", e.args), s))
    [] e.op = "u*" -> Pointed(Mean(e.args[1], s))
    [] e.args[2].op = "m" -> [key |-> <<"m", 0>>, ty |-> IntType("int"), s |-> s]
    [] OTHER -> [key |-> <<"n", 0>>, ty |-> WholeArray("n"), s |-> s]

Load(l) ==
  IF l.ty.name = "array" THEN Val(0, PointerTo(l.ty.to), l.s)
  ELSE IF l.s.defined THEN Val(l.s.mem[l.key], l.ty, l.s) ELSE Val(0, l.ty, l.s)
Store(l, v, s) ==
  LET w == IF l.ty.name = "ptr" THEN v ELSE ConvertTo(v, l.ty.name)
  IN Val(w, l.ty, IF s.defined THEN [s EXCEPT !.mem[l.key] = w] ELSE s)

(* An operator with its first operand, or the place of it, evaluated.              *)
TwoOperands(op, l, r) ==
  CASE op = "&&" -> IF l.v = 0 THEN AnInt(0, l.s) ELSE AnInt(Truth(r.v # 0), r.s)
    [] op = "||" -> IF l.v # 0 THEN AnInt(1, l.s) ELSE AnInt(Truth(r.v # 0), r.s)
    [] op = "," -> r
    [] OTHER -> Arith(op, l, r, r.s)
StoredAt(place, a) == Store(place, a.v, a.s)
Updated(op, place, r) == StoredAt(place, Arith(OperationOf[op], Load(place), r, r.s))
After_(place, new) == Val(Load(place).v, place.ty, new.s)
Converted_(a, t) == IF a.ty.name = "ptr" THEN a ELSE Val(ConvertTo(a.v, t), IntType(t), a.s)
Negated(a, t, s) == Val(Wrap(a.v, Range_(t)), IntType(t), IF a.ok THEN s ELSE Ruined(s))
OneOperand(op, l, t) ==
  CASE op = "u!" -> AnInt(Truth(l.v = 0), l.s)
    [] op = "u-" -> Negated(Apply("sub", 0, ConvertTo(l.v, t), Range_(t)), t, l.s)
    [] OTHER -> Val(ConvertTo(IF op = "u+" THEN l.v ELSE -1 - l.v, t), IntType(t), l.s)
(* The type of a conditional is that of both of its ends.                          *)
EndsOf(l, r) == IF l.ty.name = "ptr" THEN "" ELSE CommonOf(l.ty.name, r.ty.name)
Chosen(l, r, c) == Converted_(IF c.v # 0 THEN l ELSE r, EndsOf(l, r))

ValueOf(e, s) ==
  LET arg(i, s1) == Mean(e.args[i], s1)
      l == arg(1, s)
      place == Place(e.args[1], s)
  IN CASE e.op \in DOMAIN NumberOf -> Val(NumberOf[e.op].val, IntType(NumberOf[e.op].ty), s)
       [] e.args = <<>> \/ e.op \in {"[]", "u*", ".", "->"} -> Load(Place(e, s))
       [] e.op = "," \/ e.op \in DOMAIN LevelOf -> TwoOperands(e.op, l, arg(2, l.s))
       [] e.op = "=" -> LET rhs == arg(2, s)
                         to == Place(e.args[1], rhs.s)
                     IN Store(to, rhs.v, to.s)
       [] e.op \in Assigns -> Updated(e.op, place, arg(2, place.s))
       [] e.op \in {"++u", "--u"} -> Updated(e.op, place, AnInt(1, place.s))
       [] e.op \in {"u++", "u--"} -> After_(place, Updated(e.op, place, AnInt(1, place.s)))
       [] e.op = "?:" -> Chosen(arg(2, l.s), arg(3, l.s), l)
       [] e.op = "? :" -> Chosen(l, arg(2, l.s), l)
       [] e.op \in {"u!", "u+", "u-", "u~"} -> OneOperand(e.op, l, Promoted(l.ty.name))
       [] e.op = "u&" -> Val(place.key[2], PointerTo(place.key[1]), place.s)
       [] e.op \in DOMAIN CastTokens -> Val(ConvertTo(l.v, CastType[e.op]), IntType(CastType[e.op]), l.s)
       [] e.op = "sizeof" ->
            Val(IF e.args[1].args = <<>> /\ e.args[1].op \notin DOMAIN NumberOf THEN SizeOfType(TypeOfVar(e.args[1].op))
                ELSE SizeOfType(l.ty), IntType("ulong"), s)
       [] e.op = "call" -> AnInt(0, [l.s EXCEPT !.out = Append(@, l.v)])

-----------------------------------------------------------------------------
(* Statements.  A statement has its kind, its expressions, the statements in it, *)
(* and the name it declares or jumps to; the key of a declaration is the object    *)
(* it makes.                                                                       *)

St(kind, exprs, body, name) == [st |-> kind, exprs |-> exprs, body |-> body, name |-> name]
Simple(e) == St("expr", <<e>>, <<>>, "")
Jump(kind) == St(kind, <<>>, <<>>, "")
Braces(items) == St("block", <<>>, items, "")
Inner(x) == x \o "'"

(* An if without an else takes the else that follows it. *)
RECURSIVE EndsOpen(_), ShowStmt(_), ShowAll(_)
EndsOpen(st) ==
  \/ st.st = "if" /\ (Len(st.body) = 1 \/ EndsOpen(st.body[2]))
  \/ st.st \in {"while", "for", "label", "case", "default"} /\ EndsOpen(st.body[1])

ShowAll(items) == IF items = <<>> THEN <<>> ELSE ShowStmt(Head(items)) \o ShowAll(Tail(items))
ShowStmt(st) ==
  LET e(i) == Show(st.exprs[i])
      body(i) == ShowStmt(st.body[i])
      guarded == IF EndsOpen(st.body[1]) THEN <<"{">> \o body(1) \o <<"}">> ELSE body(1)
  IN CASE st.st = "expr" -> e(1) \o <<";">>
       [] st.st = "decl" -> <<"int", st.name, "=">> \o e(1) \o <<";">>
       [] st.st = "block" -> <<"{">> \o ShowAll(st.body) \o <<"}">>
       [] st.st = "if" -> <<"if", "(">> \o e(1) \o <<")">> \o
                          (IF Len(st.body) = 1 THEN body(1) ELSE guarded \o <<"else">> \o body(2))
       [] st.st = "while" -> <<"while", "(">> \o e(1) \o <<")">> \o body(1)
       [] st.st = "do" -> <<"do">> \o body(1) \o <<"while", "(">> \o e(1) \o <<")", ";">>
       [] st.st = "for" -> <<"for", "(">> \o (IF st.name = "" THEN e(1) ELSE <<"int", st.name, "=">> \o e(1))
                           \o <<";">> \o e(2) \o <<";">> \o e(3) \o <<")">> \o body(1)
       [] st.st = "switch" -> <<"switch", "(">> \o e(1) \o <<")">> \o body(1)
       [] st.st = "case" -> <<"case">> \o e(1) \o (IF Len(st.exprs) = 2 THEN <<"...">> \o e(2) ELSE <<>>) \o <<":">> \o body(1)
       [] st.st = "default" -> <<"default", ":">> \o body(1)
       [] st.st = "label" -> <<st.name, ":">> \o body(1)
       [] st.st = "goto" -> <<"goto", st.name, ";">>
       [] st.st = "return" -> <<"return">> \o e(1) \o <<";">>
       [] OTHER -> <<st.st, ";">>

GoesOn(s) == s.done = "" /\ s.defined /\ s.fuel > 0
Declare(x, v, s) == [s EXCEPT !.env[x] = Inner(x), !.mem[<<Inner(x), 0>>] = v]
(* What is declared in a block or a for ends with it. *)
LeaveTo(s, outer) == [s EXCEPT !.env = outer.env]
Caught(s, jump) == IF s.done = jump THEN [s EXCEPT !.done = ""] ELSE s

ItemsOf(items, s) == IF items = <<>> \/ ~GoesOn(s) THEN s ELSE DoItems(Tail(items), Do_(Head(items), s))

(* A jump to a label of this block goes on there. *)
BlockOf(items, s) ==
  LET r == DoItems(items, s)
      here == {i \in DOMAIN items : items[i].st = "label" /\ items[i].name = r.done}
  IN IF r.done = "" \/ here = {} THEN r
     ELSE DoBlock(SubSeq(items, CHOOSE i \in here : TRUE, Len(items)), [r EXCEPT !.done = "", !.fuel = @ - 1])

(* The condition, the body and the third expression of a for, from then on.       *)
LoopOf(st, s) ==
  LET c == Mean(st.exprs[IF st.st = "for" THEN 2 ELSE 1], s)
      body == Caught(Do_(st.body[1], c.s), "continue")
      next == IF st.st = "for" THEN Mean(st.exprs[3], body).s ELSE body
  IN IF c.v = 0 \/ ~GoesOn(c.s) THEN c.s
     ELSE IF ~GoesOn(body) THEN Caught(body, "break")
     ELSE While_(st, [next EXCEPT !.fuel = @ - 1])

EffectOf(st, s) ==
  LET e == Mean(st.exprs[1], s)
      doBody == Caught(Do_(st.body[1], s), "continue")
      again == Mean(st.exprs[1], doBody)
      cases == st.body[1].body
      ofCase(i) == cases[i].st = "case" /\ e.v \in Mean(cases[i].exprs[1], s).v .. Mean(cases[i].exprs[Len(cases[i].exprs)], s).v
      hit == {i \in DOMAIN cases : ofCase(i)}
      chosen == IF hit # {} THEN hit ELSE {i \in DOMAIN cases : cases[i].st = "default"}
      from == SubSeq(cases, CHOOSE i \in chosen : TRUE, Len(cases))
  IN CASE st.st = "expr" -> e.s
       [] st.st = "decl" -> Declare(st.name, e.v, e.s)
       [] st.st = "block" -> LeaveTo(DoBlock(st.body, s), s)
       [] st.st \in {"label", "case", "default"} -> Do_(st.body[1], s)
       [] st.st = "if" -> IF e.v # 0 THEN Do_(st.body[1], e.s) ELSE IF Len(st.body) = 2 THEN Do_(st.body[2], e.s) ELSE e.s
       [] st.st = "while" -> While_(st, s)
       [] st.st = "for" -> LeaveTo(While_(st, IF st.name = "" THEN e.s ELSE Declare(st.name, e.v, e.s)), s)
       [] st.st = "do" -> IF ~GoesOn(doBody) THEN Caught(doBody, "break")
                          ELSE IF again.v = 0 THEN again.s ELSE Do_(st, [again.s EXCEPT !.fuel = @ - 1])
       [] st.st = "switch" -> IF chosen = {} THEN e.s ELSE LeaveTo(Caught(DoItems(from, e.s), "break"), s)
       [] st.st = "return" -> [e.s EXCEPT !.done = "return", !.out = Append(@, ConvertTo(e.v, "long"))]
       [] st.st = "goto" -> [s EXCEPT !.done = st.name]
       [] OTHER -> [s EXCEPT !.done = st.st]

Sem(what, t, s) ==
  CASE what = "value" -> ValueOf(t, s) [] what = "place" -> PlaceOf(t, s) [] what = "statement" -> EffectOf(t, s)
    [] what = "items" -> ItemsOf(t, s) [] what = "block" -> BlockOf(t, s) [] what = "loop" -> LoopOf(t, s)

-----------------------------------------------------------------------------
(* What C says of declarations: the type a declarator gives, the lists of    *)
(* type specifiers there are, which scalar an initializer initializes, and   *)
(* which functions a program needs.                                          *)

(* Types: an abstract type is a base type, or a pointer, an array or a function    *)
(* made from one; it is written around what it declares, as C does.                *)
Plain_(name) == [t |-> name, of |-> <<>>]
Made(t, ty) == [t |-> t, of |-> <<ty>>]
BaseTypes == {"char", "long"}
RECURSIVE ShowType(_, _), TypeMeant(_)
ShowType(ty, inner) ==
  LET closed == IF inner # <<>> /\ inner[1] = "*" THEN <<"(">> \o inner \o <<")">> ELSE inner
  IN CASE ty.t = "ptr" -> ShowType(ty.of[1], <<"*">> \o inner)
       [] ty.t = "2" -> ShowType(ty.of[1], closed \o <<"[", "2", "]">>)
       [] ty.t = "3" -> ShowType(ty.of[1], closed \o <<"[", "3", "]">>)
       [] ty.t = "func" -> ShowType(ty.of[1], closed \o <<"(", "void", ")">>)
       [] ty.t = "func1" -> ShowType(ty.of[1], closed \o <<"(", "int", "*", ",", "char", "k", "[", "3", "]", ")">>)
       [] OTHER -> <<ty.t>> \o inner
TypeMeant(ty) ==
  CASE ty.t = "ptr" -> pointer_to(TypeMeant(ty.of[1]))
    [] ty.t = "2" -> array_of(TypeMeant(ty.of[1]), 2)
    [] ty.t = "3" -> array_of(TypeMeant(ty.of[1]), 3)
    [] ty.t = "func" -> func_type(TypeMeant(ty.of[1]))
    [] ty.t = "func1" -> [func_type(TypeMeant(ty.of[1])) EXCEPT !.params = <<pointer_to(ty_int), pointer_to(ty_char)>>, !.names = <<"", "k">>]
    [] ty.t = "char" -> ty_char
    [] ty.t = "long" -> ty_long
(* C17 6.7.2: the lists of type specifiers there are, in any order. *)
SpecifierWords == {"void", "char", "short", "int", "long", "float", "double", "_Bool", "signed", "unsigned"}
Listed ==
  {<<<<"void">>, ty_void>>, <<<<"char">>, ty_char>>, <<<<"signed", "char">>, ty_char>>, <<<<"unsigned", "char">>, ty_uchar>>,
   <<<<"short">>, ty_short>>, <<<<"signed", "short">>, ty_short>>, <<<<"short", "int">>, ty_short>>, <<<<"signed", "short", "int">>, ty_short>>,
   <<<<"unsigned", "short">>, ty_ushort>>, <<<<"unsigned", "short", "int">>, ty_ushort>>, <<<<"int">>, ty_int>>, <<<<"signed">>, ty_int>>,
   <<<<"signed", "int">>, ty_int>>, <<<<"unsigned">>, ty_uint>>, <<<<"unsigned", "int">>, ty_uint>>, <<<<"long">>, ty_long>>,
   <<<<"signed", "long">>, ty_long>>, <<<<"long", "int">>, ty_long>>, <<<<"signed", "long", "int">>, ty_long>>,
   <<<<"unsigned", "long">>, ty_ulong>>, <<<<"unsigned", "long", "int">>, ty_ulong>>, <<<<"long", "long">>, ty_llong>>,
   <<<<"signed", "long", "long">>, ty_llong>>, <<<<"long", "long", "int">>, ty_llong>>, <<<<"signed", "long", "long", "int">>, ty_llong>>,
   <<<<"unsigned", "long", "long">>, ty_ullong>>, <<<<"unsigned", "long", "long", "int">>, ty_ullong>>, <<<<"float">>, ty_float>>,
   <<<<"double">>, ty_double>>, <<<<"long", "double">>, ty_ldouble>>, <<<<"_Bool">>, ty_bool>>}
CountOf(w, words) == Cardinality({i \in DOMAIN words : words[i] = w})
SameWords(v, w) == Len(v) = Len(w) /\ \A i \in DOMAIN v : CountOf(v[i], v) = CountOf(v[i], w)
ListedAs(words) == {e[2] : e \in {l \in Listed : SameWords(l[1], words)}}
-----------------------------------------------------------------------------
(* Initializers (C17 6.7.9).  The shape of an object of int's: an int, or an array,  *)
(* a struct or a union of shapes.  A place in it is the list of the steps that lead  *)
(* there, each the number of an element or a member.                                *)
AnInt_ == [t |-> "int", of |-> <<>>, names |-> <<>>]
ArrayShape(n, shape) == [t |-> "array", of |-> [i \in 1 .. n |-> shape], names |-> <<>>]
Members(t, names, shapes) == [t |-> t, of |-> shapes, names |-> names]

RECURSIVE SizeOf(_), OffsetIn(_, _), SubShape(_, _)
SizeOf(shape) ==
  LET sizes[i \in 0 .. Len(shape.of)] == IF i = 0 THEN 0 ELSE sizes[i - 1] + SizeOf(shape.of[i])
  IN CASE shape.t = "int" -> 4
       [] shape.t = "union" -> CHOOSE n \in {SizeOf(shape.of[i]) : i \in DOMAIN shape.of} : \A i \in DOMAIN shape.of : n >= SizeOf(shape.of[i])
       [] OTHER -> sizes[Len(shape.of)]
OffsetIn(shape, place) ==
  LET before[i \in 0 .. Len(shape.of)] == IF i = 0 THEN 0 ELSE before[i - 1] + SizeOf(shape.of[i])
  IN IF place = <<>> THEN 0
     ELSE (IF shape.t = "union" THEN 0 ELSE before[Head(place) - 1]) + OffsetIn(shape.of[Head(place)], Tail(place))
SubShape(shape, place) == IF place = <<>> THEN shape ELSE SubShape(shape.of[Head(place)], Tail(place))

(* How an object of a shape is declared; a member without a name is one struct more. *)
DigitOf == [n \in 0 .. 5 |-> CASE n = 0 -> "0" [] n = 1 -> "1" [] n = 2 -> "2" [] n = 3 -> "3" [] n = 4 -> "4" [] OTHER -> "5"]
Named(name) == IF name = "" THEN <<>> ELSE <<name>>
RECURSIVE ShowShape(_, _)
ShowShape(shape, inner) ==
  LET members[i \in 0 .. Len(shape.of)] ==
        IF i = 0 THEN <<>> ELSE members[i - 1] \o ShowShape(shape.of[i], Named(shape.names[i])) \o <<";">>
  IN CASE shape.t = "int" -> <<"int">> \o inner
       [] shape.t = "array" -> ShowShape(shape.of[1], inner \o <<"[", DigitOf[Len(shape.of)], "]">>)
       [] shape.t = "open" -> ShowShape(shape.of[1], inner \o <<"[", "]">>)
       [] OTHER -> <<shape.t, "{">> \o members[Len(shape.of)] \o <<"}">> \o inner

(* The designators there are: the steps and how they are written. *)
StepTo(shape, i) == IF shape.t \in {"array", "open"} THEN <<"[", DigitOf[i - 1], "]">> ELSE IF shape.names[i] = "" THEN <<>> ELSE <<".", shape.names[i]>>
RECURSIVE Designators(_)
Designators(shape) ==
  UNION {{<<<<i>>, StepTo(shape, i)>>} \cup {<<<<i>> \o d[1], StepTo(shape, i) \o d[2]>> : d \in Designators(shape.of[i])} : i \in DOMAIN shape.of}

(* An item of a list: the steps its designators take and how they are written, and a *)
(* number or, if that is "", a list.                                                *)
Item(d, number, list) == [steps |-> d[1], shown |-> d[2], number |-> number, list |-> list]
NoSteps == <<<<>>, <<>>>>
IsList(item) == item.number = ""

RECURSIVE ShowItems(_)
ShowItems(items) ==
  LET one(item) == item.shown \o (IF item.shown = <<>> THEN <<>> ELSE <<"=">>)
                   \o (IF IsList(item) THEN ShowItems(item.list) ELSE <<item.number>>)
      all[i \in 0 .. Len(items)] == IF i = 0 THEN <<>> ELSE all[i - 1] \o (IF i = 1 THEN <<>> ELSE <<",">>) \o one(items[i])
  IN <<"{">> \o all[Len(items)] \o <<"}">>

(* A number without braces is for the first scalar of the subobject it comes to.   *)
RECURSIVE FirstScalar(_, _), NextPlace(_, _), InitList(_, _, _, _, _)
FirstScalar(shape, place) ==
  IF SubShape(shape, place).t = "int" THEN place ELSE FirstScalar(shape, Append(place, 1))
(* The subobject after this one, <<>> behind the last; a union has but one.         *)
NextPlace(shape, place) ==
  LET last == place[Len(place)]
      outer == SubSeq(place, 1, Len(place) - 1)
      within == SubShape(shape, outer)
  IN IF place = <<>> THEN <<>>
     ELSE IF last < Len(within.of) /\ within.t # "union" THEN Append(outer, last + 1)
     ELSE NextPlace(shape, outer)

(* Items in order, into the object of that shape at base of the whole; next: the    *)
(* place of an item without designators.  set: the offsets given a value so far, with   *)
(* that value; most: the elements of the outermost array reached; ok: FALSE for what   *)
(* C does not allow, and for a list that overrides part of what came before.          *)
InitList(shape, items, base, next, r) ==
  LET item == Head(items)
      at == IF item.steps # <<>> THEN item.steps ELSE next
      sub == SubShape(shape, at)
      place == IF IsList(item) THEN at ELSE FirstScalar(shape, at)
      offset == base + OffsetIn(shape, place)
      single == Len(item.list) = 1 /\ ~IsList(item.list[1]) /\ item.list[1].steps = <<>>
      number == IF IsList(item) THEN item.list[1].number ELSE item.number
      given == [r EXCEPT !.set = [o \in DOMAIN @ \cup {offset} |-> IF o = offset THEN NumberOf[number].val ELSE @[o]]]
      after == IF IsList(item) /\ sub.t # "int" THEN InitList(sub, item.list, offset, <<1>>, r) ELSE given
      clash == IsList(item) /\ (offset .. offset + SizeOf(sub) - 1) \cap DOMAIN r.set # {}
  IN IF items = <<>> THEN r
     ELSE IF at = <<>> \/ clash \/ (IsList(item) /\ sub.t = "int" /\ ~single) THEN [r EXCEPT !.ok = FALSE]
     ELSE InitList(shape, Tail(items), base, NextPlace(shape, place),
                   [after EXCEPT !.most = IF @ < at[1] THEN at[1] ELSE @])
Initialized(shape, items) == InitList(shape, items, 0, <<1>>, [set |-> <<>>, most |-> 0, ok |-> TRUE])

-----------------------------------------------------------------------------
(* Which functions a program needs: those with external linkage that are not inline, *)
(* and all that these, or the variables, refer to.                                  *)
RECURSIVE Reached(_, _)
Reached(names, refs) ==
  LET more == names \cup UNION {refs[n] : n \in names}
  IN IF more = names THEN names ELSE Reached(more, refs)
Needed(storage, refs, fromData) == Reached({n \in DOMAIN storage : storage[n] = ""} \cup fromData, refs)
=============================================================================
