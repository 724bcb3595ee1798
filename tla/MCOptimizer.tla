----------------------------- MODULE MCOptimizer -----------------------------
(* Families of small functions over two variables, x in cell 0 and y in      *)
(* cell 1, in the shape lower_hlir_function_to_llir gives them.  Branches    *)
(* with two labels are built by tests/optimizations/ir_opt_unit_test.c only. *)
EXTENDS Optimizer, TLC

CONSTANTS L1, L2

Insn(kind, dst, src1, src2) == [Blank EXCEPT !.kind = kind, !.dst = dst, !.src1 = src1, !.src2 = src2]
Imm(dst, n) == [Insn("imm", dst, 0, 0) EXCEPT !.imm = n]
Addr(dst, n) == [Insn("addr", dst, 0, 0) EXCEPT !.imm = n]
Load(dst, addr) == Insn("load", dst, addr, 0)
Store(addr, v) == Insn("store", 0, addr, v)
Label(l) == [Blank EXCEPT !.label = l]
Jmp(l) == [Insn("jmp", 0, 0, 0) EXCEPT !.label = l]
Br(v, l, m) == [Insn("br", 0, v, 0) EXCEPT !.labelTrue = l, !.labelFalse = m]
Call(v) == Insn("call", 0, v, 0)
Ret(v) == Insn("ret", 0, v, 0)

Memory == {[a \in Word |-> IF a = 0 THEN p[1] ELSE IF a = 1 THEN p[2] ELSE 0] :
             p \in {<<0, 0>>, <<1, 3>>, <<3, 1>>, <<8, 15>>, <<15, 2>>}}

(* A comparison is an int, widened before it is used further. *)
ResultTy(op, ty) == IF op \in Compares THEN IntTy ELSE ty
Widened(op, dst, src) == Insn(IF op \in Compares THEN "cast" ELSE "mov", dst, src, 0)

(* (x op c) op' d and (c op x) op' d, signed and unsigned. *)
WithConstants ==
  LET Fn(ty, op1, op2, c, swap) ==
        [ty |-> <<ULongTy, ty, ty, ResultTy(op1, ty), ty, ty, ResultTy(op2, ty)>>,
         code |-> <<Addr(1, 0), Load(2, 1), Imm(3, c[1]),
                    IF swap THEN Insn(op1, 4, 3, 2) ELSE Insn(op1, 4, 2, 3), Widened(op1, 5, 4),
                    Imm(6, c[2]), Insn(op2, 7, 5, 6), Ret(7)>>]
  IN {Fn(ty, op1, op2, c, FALSE) : ty \in {LongTy, ULongTy}, op1 \in BinaryOps, op2 \in BinaryOps,
        c \in {<<-1, 2>>, <<2, 1>>, <<1, 0>>}}
     \cup {Fn(ty, op1, op2, <<2, 3>>, TRUE) : ty \in {LongTy, ULongTy}, op1 \in BinaryOps, op2 \in BinaryOps}

(* (x op y) op' x, (x op y) op' y and x op x; -x, ~x and !x in and around    *)
(* them.                                                                     *)
WithVariables ==
  LET ops == {"add", "sub", "xor", "and", "eq", "le"}
      Fn(ty, body, last) ==
        [ty |-> <<ULongTy, ty, ULongTy, ty>> \o last,
         code |-> <<Addr(1, 0), Load(2, 1), Addr(3, 1), Load(4, 3)>> \o body \o <<Ret(7)>>]
      Binary(ty, op1, op2, v, w) ==
        Fn(ty, <<Insn(op1, 5, 2, v), Widened(op1, 6, 5), Insn(op2, 7, 6, w)>>,
           <<ResultTy(op1, ty), ty, ResultTy(op2, ty)>>)
      UnaryFn(ty, u1, op, u2) ==
        Fn(ty, <<Insn(u1, 5, 4, 0), Insn(op, 6, 2, 5), Insn(u2, 7, 6, 0)>>, <<ty, ty, ty>>)
      Nested(ty, u1, u2, u3) ==
        Fn(ty, <<Insn(u1, 5, 4, 0), Insn(u2, 6, 5, 0), Insn(u3, 7, 6, 0)>>, <<ty, ty, ty>>)
      tys == {LongTy, ULongTy}
  IN {Binary(ty, op1, op2, v, w) : ty \in tys, op1 \in ops, op2 \in ops, v \in {2, 4}, w \in {2, 4}}
     \cup {UnaryFn(ty, u1, op, u2) : ty \in tys, u1 \in UnaryOps, op \in ops \ Compares, u2 \in UnaryOps}
     \cup {Nested(LongTy, u1, u2, u3) : u1 \in UnaryOps, u2 \in UnaryOps, u3 \in UnaryOps}

(* Four instructions of control flow on x, !(x != 0) or a constant. *)
Control ==
  LET Shapes == {Call(2), Label(L1), Label(L2), Jmp(L1), Jmp(L2), Ret(2),
                 Br(2, L1, None), Br(2, None, L2), Br(2, L1, L2), Br(2, L1, L1)}
      Branches(insn) == insn.kind = "br"
      GoesTo(insn, l) == insn.kind # "label" /\ l \in {insn.label, insn.labelTrue, insn.labelFalse}
      Resolved(code) ==
        /\ \E i \in DOMAIN code : Branches(code[i])
        /\ \A l \in Labels : Cardinality({i \in DOMAIN code : code[i] = Label(l)})
             = (IF \E i \in DOMAIN code : GoesTo(code[i], l) THEN 1 ELSE 0)
      Bodies == {code \in [1 .. 4 -> Shapes] : Resolved(code)}
      On(c, code) == [i \in DOMAIN code |-> IF Branches(code[i]) THEN [code[i] EXCEPT !.src1 = c] ELSE code[i]]
      Fn(body, n) ==
        [ty |-> <<ULongTy, LongTy, LongTy, IntTy, IntTy>>,
         code |-> <<Addr(1, 0), Load(2, 1), Imm(3, n), Insn("ne", 4, 2, 3), Insn("lognot", 5, 4, 0)>>
                  \o body \o <<Ret(2)>>]
  IN {Fn(On(c, body), 0) : c \in {2, 3, 5}, body \in Bodies} \cup {Fn(On(3, body), 1) : body \in Bodies}

(* Three accesses through a pointer to x, another pointer to x, and y as     *)
(* *(&x + 1); what is loaded is passed to a function.                        *)
Accesses ==
  LET Access(i) == {Store(p, v) : p \in {1, 2, 5}, v \in {6, 7}} \cup {Load(7 + i, p) : p \in {1, 2, 5}} \cup {Call(6)}
      Loaded(body) == SelectSeq([i \in 1 .. 3 |-> Call(7 + i)], LAMBDA call : body[call.src1 - 7].kind = "load")
      Fn(body, ty) ==
        [ty |-> <<ULongTy, ULongTy, ULongTy, ULongTy, ULongTy, LongTy, LongTy, ty, ty, ty>>,
         code |-> <<Addr(1, 0), Addr(2, 0), Addr(3, 0), Imm(4, 1), Insn("add", 5, 3, 4), Imm(6, 5), Load(7, 1)>>
                  \o body \o Loaded(body) \o <<Ret(7)>>]
  IN {Fn(<<a, b, c>>, LongTy) : a \in Access(1), b \in Access(2), c \in Access(3)}
     \cup {Fn(<<a, b, Load(10, 1)>>, IntTy) : a \in Access(1), b \in Access(2)}

(* Two casts of a narrow or wide x, and an operation on the result; no cast  *)
(* between types of one size and different signedness.                       *)
Casts ==
  LET Fn(t1, t2, t3, op) ==
        [ty |-> <<ULongTy, t1, t2, t3, t3, ResultTy(op, t3)>>,
         code |-> <<Addr(1, 0), Load(2, 1), Insn("cast", 3, 2, 0), Insn("cast", 4, 3, 0), Imm(5, 1),
                    Insn(op, 6, 4, 5), Ret(6)>>]
  IN {Fn(t[1], t[2], t[3], op) :
        t \in {s \in Types \X Types \X Types : \A i, j \in 1 .. 3 : s[i].size = s[j].size => s[i] = s[j]},
        op \in {"add", "sub", "mul", "and", "eq", "lt"}}
(* The value of x && y returned, passed on, tested against 0, and added to x. *)
Conjunction(use) ==
  [ty |-> <<ULongTy, IntTy, ULongTy, IntTy, IntTy, IntTy, IntTy>>,
   code |-> <<Addr(1, 0), Load(2, 1), Addr(3, 1), Load(4, 3), Br(2, None, L1), Br(4, None, L1), Imm(5, 1), Jmp(L2),
              Label(L1), Imm(5, 0), Label(L2)>> \o use]
Conjunctions ==
  {Conjunction(use) : use \in {<<Ret(5)>>, <<Call(5), Ret(2)>>,
     <<Imm(6, 0), Insn("eq", 7, 5, 6), Ret(7)>>, <<Insn("lognot", 6, 5, 0), Insn("add", 7, 6, 2), Ret(7)>>}}
(* x ? y : 2 and x ? 2 : y. *)
Conditionals ==
  LET Fn(v, w) ==
        [ty |-> <<ULongTy, IntTy, ULongTy, IntTy, IntTy, IntTy>>,
         code |-> <<Addr(1, 0), Load(2, 1), Addr(3, 1), Load(4, 3), Imm(6, 2), Br(2, None, L1),
                    Insn("cast", 5, v, 0), Jmp(L2), Label(L1), Insn("cast", 5, w, 0), Label(L2), Call(5), Ret(2)>>]
  IN {Fn(4, 6), Fn(6, 4), Fn(4, 2)}

Lowered == WithConstants \cup WithVariables \cup Control \cup Accesses \cup Casts
           \cup Conjunctions \cup Conditionals
=============================================================================
