----------------------------- MODULE MCMiddleEnd -----------------------------
(* Families of small functions over long x and y in cells 0 and 1, unsigned  *)
(* long u in cell 2 and int i in cell 3.                                     *)
EXTENDS MiddleEnd, TLC

CONSTANTS L1, L2, L3, L4, L5

x == Var(0, LongTy)
y == Var(1, LongTy)
u == Var(2, ULongTy)
i4 == Var(3, IntTy)

Memory == {[a \in Word |-> IF a \in 0 .. 3 THEN p[a + 1] ELSE 0] :
             p \in {<<0, 3, 0, 1>>, <<3, 1, 8, 6>>, <<14, 15, 15, 3>>}}

Wide(e, ty) == IF e.ty = ty THEN e ELSE Cast(e, ty)
Just(e) == Block(<<Return(e)>>)

(* (v op c) op' d and d op' (c op v), signed and unsigned. *)
Constants ==
  LET Right(v, o, p, c) == Just(Binop(p, Wide(Binop(o, v, Num(c[1], v.ty)), v.ty), Num(c[2], v.ty)))
      Left(v, o, p, c) == Just(Binop(p, Num(c[2], v.ty), Wide(Binop(o, Num(c[1], v.ty), v), v.ty)))
      some == {"add", "sub", "shl", "shr"}
  IN {Right(x, o, p, <<1, 2>>) : o \in BinaryOps, p \in BinaryOps}
     \cup {Right(u, o, p, <<1, 2>>) : o \in some, p \in BinaryOps}
     \cup {Right(x, o, p, <<2, -1>>) : o \in some, p \in BinaryOps}
     \cup {Left(x, o, p, <<2, 1>>) : o \in some, p \in BinaryOps}

(* (x op y) op' x, x op' (x op y), y op' (x op y) and (x op x) op' y; -x, ~x  *)
(* and !x around them.                                                       *)
Variables ==
  LET ops == {"add", "sub", "xor", "or", "le"}
      In(o) == Wide(Binop(o, x, y), LongTy)
  IN UNION {{Just(Binop(p, In(o), x)), Just(Binop(p, In(o), y)), Just(Binop(p, x, In(o))), Just(Binop(p, y, In(o))),
             Just(Binop(p, Wide(Binop(o, x, x), LongTy), y))} : o \in ops, p \in ops}
     \cup {Just(Unop(n, Binop(o, x, Wide(Unop(m, y), LongTy)))) : n \in UnaryOps, m \in UnaryOps, o \in ops}
     \cup {Just(Unop(n, Wide(Unop(m, Wide(Unop(k, x), LongTy)), LongTy))) :
             n \in UnaryOps, m \in UnaryOps, k \in UnaryOps}

(* Conversions in a row. *)
Conversions ==
  {Just(Binop(o, Cast(Cast(v, s), t), Num(1, t))) :
     v \in {x, i4, u}, s \in Types, t \in Types, o \in {"add", "lt"}}

(* Conditions, and conditions on constants. *)
Tests == {x, Unop("lognot", x), Binop("ne", Num(0, LongTy), x), Logical("logand", x, Unop("lognot", y)),
          Logical("logor", Binop("eq", x, Num(0, LongTy)), y), Num(0, IntTy), Num(1, IntTy)}
Call(e) == ExprStmt(Funcall(e))
Values ==
  {Just(Cond(c, y, x)) : c \in Tests}
  \cup {Just(Binop("add", Cond(c, Num(2, LongTy), x), Wide(Logical("logand", x, y), LongTy))) : c \in Tests}
  \cup {Just(Cond(Logical(o, c, d), Num(2, LongTy), Comma(Funcall(y), x))) : o \in {"logand", "logor"}, c \in Tests, d \in Tests}
  \cup {Just(StmtExpr(<<If(c, Call(y), Block(<<Return(x)>>)), ExprStmt(Assign(y, x))>>, y)) : c \in Tests}

(* Loops that shift u out, left and continued in the middle. *)
Halve == Assign(u, Binop("shr", u, Num(1, ULongTy)))
Odd == Binop("and", u, Num(1, ULongTy))
LoopTests == {u, Unop("lognot", u), Binop("ne", Num(0, ULongTy), u), Logical("logand", u, Unop("lognot", y)),
              Logical("logor", u, y), Num(0, IntTy), Num(1, IntTy), NoExpr}
Loops ==
  LET Steps == {Call(u), If(Odd, GotoStmt(L1), Empty), If(Odd, GotoStmt(L2), Call(x)),
                If(Odd, GotoStmt(L3), Empty), If(Unop("lognot", x), Return(y), Empty)}
      After(st) == Block(<<st, Labelled(L3, Call(y)), Return(u)>>)
  IN {After(For(Empty, u, Halve, Block(<<a, b>>), L1, L2)) : a \in Steps, b \in Steps}
     \cup {After(For(ExprStmt(Assign(y, x)), c, Halve, Block(<<a>>), L1, L2)) : c \in LoopTests, a \in Steps}
     \cup {After(Do(Block(<<a, b>>), Comma(Halve, c), L1, L2)) : a \in Steps, b \in {Call(u), GotoStmt(L1)}, c \in {u, Num(0, IntTy)}}
     \cup {After(For(Empty, u, Halve, Do(Block(<<a>>), Comma(Halve, Odd), L4, L2), L1, L5)) :
             a \in {Call(u), If(Odd, GotoStmt(L1), Empty), If(Odd, GotoStmt(L2), Empty)}}

(* Switches: falling through, leaving, without default, a case inside a loop *)
(* or a branch.                                                              *)
Case(n, l) == [begin |-> n, end |-> n, label |-> l]
Switches ==
  LET Body(a, b, d) == Block(<<Call(x), Labelled(L1, a), Labelled(L2, b), Labelled(L3, d)>>)
      Ends == {Call(y), GotoStmt(L4), Block(<<Call(y), GotoStmt(L4)>>)}
      cases == <<Case(3, L2), Case(1, L1)>>
  IN {Block(<<Switch(v, Body(a, b, d), cases, l, L4), Return(y)>>) :
        v \in {x, u}, a \in Ends, b \in Ends, d \in Ends, l \in {L3, None}}
     \cup {Block(<<Switch(v, Block(<<For(Empty, u, Halve, Block(<<Labelled(L1, Call(u))>>), L2, L3)>>),
                         <<Case(n, L1)>>, None, L4), Return(u)>>) : v \in {x, y}, n \in {1, -1}}
     \cup {Block(<<Switch(x, If(c, Labelled(L1, Call(y)), Block(<<Call(x), Labelled(L2, Call(u))>>)),
                          <<Case(1, L1), Case(3, L2)>>, None, L4), Return(y)>>) : c \in Tests}

(* Four statements with labels and jumps. *)
Jumps ==
  LET Steps == {Labelled(L1, Empty), Labelled(L2, Empty), GotoStmt(L1), GotoStmt(L2),
                If(Halve, GotoStmt(L1), Empty), If(Binop("eq", y, Num(1, LongTy)), GotoStmt(L2), Empty), Call(u)}
      LabelOf(st) == IF st.s = "goto" THEN {st.label}
                     ELSE IF st.s = "if" THEN {st.then.label} ELSE {}
      Resolved(b) == \A l \in {L1, L2} :
        Cardinality({n \in DOMAIN b : b[n] = Labelled(l, Empty)}) = (IF \E n \in DOMAIN b : l \in LabelOf(b[n]) THEN 1 ELSE 0)
  IN {Block(b \o <<Return(y)>>) : b \in {c \in [1 .. 4 -> Steps] : Resolved(c)}}

(* Stores through pointers to x and y, and to a narrow variable. *)
Pointers ==
  LET ToX == Deref(AddressOf(x), LongTy)
      ToY == Deref(Binop("add", AddressOf(x), Num(1, ULongTy)), LongTy)
      Steps == {ExprStmt(Assign(l, r)) : l \in {x, ToX, ToY}, r \in {y, ToX, Num(5, LongTy)}} \cup {Call(x)}
  IN {Block(<<a, b, c, Return(Binop("sub", x, ToX))>>) : a \in Steps, b \in Steps, c \in {Call(y), Return(ToY)}}
     \cup {Block(<<ExprStmt(Assign(i4, Cast(e, IntTy))), a, Return(i4)>>) : e \in {x, u, Num(1, LongTy)}, a \in Steps}

(* Two bit-fields of one unit. *)
Fields ==
  LET Fs == {Member(2, ULongTy, 0, 1), Member(2, ULongTy, 1, 2), Member(2, ULongTy, 3, 1), Member(3, UIntTy, 0, 1),
             Member(3, UIntTy, 1, 1), Member(2, ULongTy, 0, 4)}
  IN {Block(<<ExprStmt(Assign(f, r)), Return(g)>>) : f \in Fs, g \in Fs, r \in {Num(2, ULongTy), u}}
     \cup {Block(<<ExprStmt(Assign(f, Wide(g, f.ty))), Call(u), Return(i4)>>) : f \in Fs, g \in Fs}

Small == Constants \cup Variables \cup Conversions \cup Values \cup Loops \cup Switches \cup Jumps \cup Pointers \cup Fields

(* Four accesses of two variables by name, or by pointer once the stores by  *)
(* name are over, as the handcrafted tests of the optimizer build them.      *)
ByName ==
  LET LoadV(d, c) == [Op("load_var", d, 0, 0) EXCEPT !.imm = c]
      StoreV(v, c) == [Op("store_var", 0, v, 0) EXCEPT !.imm = c]
      Accesses(n) == {StoreV(1, 0), StoreV(1, 1), StoreV(2, 0)} \cup {LoadV(3 + n, c) : c \in {0, 1}}
                     \cup {Op("call", 0, 1, 0), Op("addr", 7 + n, 0, 0), Op("store", 0, 3, 2)}
      Passed(b) == SelectSeq([n \in 1 .. 3 |-> Op("call", 0, 3 + n, 0)], LAMBDA c : b[c.src1 - 3].kind = "load_var")
  IN {[ty |-> <<LongTy, LongTy, ULongTy, LongTy, LongTy, LongTy, LongTy, ULongTy, ULongTy, ULongTy>>,
       code |-> <<[Op("imm", 1, 0, 0) EXCEPT !.imm = 5], LoadV(2, 1), [Op("addr", 3, 0, 0) EXCEPT !.imm = 1]>>
                \o b \o Passed(b) \o <<LoadV(7, 0), Op("ret", 0, 7, 0)>>] :
        b \in {<<a, c, d>> : a \in Accesses(1), c \in Accesses(2), d \in Accesses(3)}}

(* switch (x) { case 1 ... 3: f(y); } *)
RangeSwitches ==
  {Block(<<Switch(x, Block(<<Labelled(L1, Call(y))>>), <<[begin |-> 1, end |-> 3, label |-> L1]>>, None, L4), Return(x)>>)}

NoFunctions == {}
=============================================================================
