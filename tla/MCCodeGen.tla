------------------------------ MODULE MCCodeGen ------------------------------
(* Small legalized functions over x in cell 0 and y in cell 1, and homes for *)
(* their virtual registers; and the allocator, on intervals of its own.      *)
EXTENDS CodeGen, MCRegAlloc, TLC

CONSTANTS L1, L2

Op(kind, dst, src1, src2) == [Blank EXCEPT !.kind = kind, !.dst = dst, !.src1 = src1, !.src2 = src2]
Imm(dst, n) == [Op("imm", dst, 0, 0) EXCEPT !.imm = n]
AddrOf(dst, n) == [Op("addr", dst, 0, 0) EXCEPT !.imm = n]
Label(l) == [Blank EXCEPT !.label = l]
Jmp(l) == [Op("jmp", 0, 0, 0) EXCEPT !.label = l]
Br(v, l, m) == [Op("br", 0, v, 0) EXCEPT !.labelTrue = l, !.labelFalse = m]
CallWith(v) == Op("call", 0, v, 0)
Ret(v) == Op("ret", 0, v, 0)

Memories == {[a \in Word |-> IF a = 0 THEN p[1] ELSE IF a = 1 THEN p[2] ELSE a] :
               p \in {<<0, 0>>, <<2, 3>>, <<14, 3>>, <<7, 13>>}}

CharTy == Ty(ByteBits, FALSE)
UCharTy == Ty(ByteBits, TRUE)
ResultTy(op, ty) == IF op \in Tests THEN IntTy ELSE ty

(* x and y of these types are loaded into 2 and 4, what follows uses 5 on. *)
OfXY(tx, ty, rest, code) ==
  [ty |-> <<ULongTy, tx, ULongTy, ty>> \o rest,
   code |-> <<AddrOf(1, 0), Op("load", 2, 1, 0), AddrOf(3, 1), Op("load", 4, 3, 0)>> \o code]

Wide == {LongTy, ULongTy}
Arithmetic == {LongTy, ULongTy, IntTy, UIntTy}

(* x op y, and that used with x and y again; but not what x % y leaves in    *)
(* %rax when x is used again and x % y has no register.                      *)
Binaries ==
  LET Fn(op, ty, code, rest) == OfXY(ty, ty, <<ResultTy(op, ty)>> \o rest, <<Op(op, 5, 2, 4)>> \o code)
  IN {Fn(op, ty, <<Ret(5)>>, <<>>) : op \in BinaryOps, ty \in Arithmetic}
     \cup {Fn(op, ty, <<Op(op2, 6, 4, 5), Op("xor", 7, 6, 2), Ret(7)>>, <<ty, ty>>) :
             op \in {"sub", "div", "shl"}, op2 \in {"sub", "and"}, ty \in {LongTy, UIntTy}}

(* x op c and c op x. *)
Constants ==
  LET Fn(op, ty, n, args) ==
        OfXY(ty, ty, <<ty, ResultTy(op, ty)>>, <<Imm(5, n), Op(op, 6, args[1], args[2]), Ret(6)>>)
  IN {Fn(op, ty, n, args) : op \in BinaryOps, ty \in {LongTy, IntTy}, n \in {-1, 0, 1, 3}, args \in {<<2, 5>>, <<5, 2>>}}
     \cup {Fn(op, ty, 6, args) : op \in BinaryOps, ty \in Wide, args \in {<<2, 5>>, <<5, 2>>}}

(* Conversions between the types, and operations on one operand.  Left out:   *)
(* a signed char in a register is extended to an int only, and not at all     *)
(* when it becomes a long; it becomes a _Bool unchanged.                      *)
Conversions ==
  LET From == {CharTy, UCharTy, IntTy, UIntTy, LongTy, ULongTy}
      Fn(t1, t2) == OfXY(t1, t2, <<t2>>, <<Op("cast", 5, 2, 0), Op("store", 0, 3, 5), Ret(5)>>)
      ToBool(ty) == OfXY(ty, ty, <<BoolTy>>, <<Op("cast", 5, 2, 0), Ret(5)>>)
      OneOf(op, ty) == OfXY(ty, ty, <<ResultTy(op, ty)>>, <<Op(op, 5, 2, 0), Op("store", 0, 3, 4), Ret(5)>>)
  IN ({Fn(t1, t2) : t1 \in From, t2 \in From} \ {Fn(CharTy, t2) : t2 \in Wide})
     \cup {ToBool(ty) : ty \in From \ {CharTy}}
     \cup {OneOf(op, ty) : op \in {"lognot"}, ty \in From}
     \cup {OneOf(op, ty) : op \in {"neg", "not", "mov"}, ty \in Arithmetic}

(* Accesses through a pointer: to x or y, one cell on or back, after what     *)
(* stores through it may have changed.                                        *)
Accesses ==
  LET P(n, ty, code) ==
        [ty |-> <<ULongTy, ULongTy, ULongTy, ty, ty, ty, ULongTy>>,
         code |-> <<AddrOf(1, 0), Op("load", 2, 1, 0), Imm(7, n), Op("add", 3, 2, 7), Op("load", 4, 1, 0)>> \o code]
      Uses(ty) == {P(n, ty, <<Op("store", 0, 3, 4), Op("load", 5, 2, 0), Op("sub", 6, 5, 4), Ret(6)>>) : n \in {1, 6, -1}}
        \cup {P(n, ty, <<Op("store", 0, 2, 7), Op("load", 5, 3, 0), Op("store", 0, 1, 5), Ret(4)>>) : n \in {1, 6}}
  IN UNION {Uses(ty) : ty \in {CharTy, IntTy, ULongTy}}

(* The addresses themselves, and results nobody uses. *)
Addresses ==
  {OfXY(LongTy, IntTy, <<LongTy, LongTy, IntTy>>,
        <<Op("add", 5, 2, 2), Op("mov", 6, 5, 0), Op("lt", 7, 2, 4), Op("mul", 6, 2, 2), Ret(2)>>),
   OfXY(LongTy, LongTy, <<LongTy, LongTy>>, <<Op("shl", 5, 2, 4), Op("neg", 6, 5, 0), Ret(2)>>),
   OfXY(LongTy, LongTy, <<LongTy>>, <<Op("sub", 5, 3, 1), CallWith(3), Ret(5)>>),
   OfXY(LongTy, LongTy, <<ULongTy>>, <<Op("store", 0, 3, 1), Op("load", 5, 3, 0), Op("store", 0, 5, 2), Ret(4)>>)}

(* A condition on x and y, itself a value or not, that is branched on; calls  *)
(* before and after, and a loop.                                              *)
Control ==
  LET Conditional(ty, op, code) == OfXY(ty, ty, <<IntTy, ty, ty>>, <<Op(op, 5, 2, IF op = "lognot" THEN 0 ELSE 4)>> \o code)
      Two(l, m) == <<Br(5, l, m), CallWith(2), Label(L1), CallWith(4), Label(L2), Ret(4)>>
      Value == <<Br(5, None, L1), CallWith(5), Op("mov", 6, 2, 0), Jmp(L2), Label(L1), Op("mov", 6, 4, 0), Label(L2), Ret(6)>>
      Loop == OfXY(LongTy, LongTy, <<IntTy, LongTy, LongTy>>,
                   <<Op("mov", 6, 4, 0), Label(L1), Op("ne", 5, 6, 2), Br(5, None, L2), Imm(7, 1),
                     Op("sub", 6, 6, 7), Jmp(L1), Label(L2), CallWith(6), Ret(2)>>)
  IN {Conditional(ty, op, Two(l, m)) :
        ty \in {LongTy, CharTy}, op \in {"lt", "eq", "ge", "lognot"}, l \in {None, L1, L2}, m \in {None, L1, L2}}
     \cup {Conditional(ty, op, Value) : ty \in {LongTy, UIntTy}, op \in {"lt", "eq", "lognot"}}
     \cup {Loop}

(* A main that returns x early, and then ends without a return, or with one. *)
Mains ==
  LET Fn(op, code) == OfXY(IntTy, IntTy, <<IntTy>>, <<Op(op, 5, 2, 4), Br(5, None, L1), Ret(2), Label(L1), CallWith(4)>> \o code)
  IN {Fn(op, code) : op \in {"lt", "eq"}, code \in {<<>>, <<Ret(5)>>, <<Ret(4)>>}}

All == Binaries \cup Constants \cup Conversions \cup Accesses \cup Addresses \cup Control \cup Mains
-----------------------------------------------------------------------------
(* Where a value is around, from its definition to its last use, and whether *)
(* a call is made meanwhile.                                                 *)
Around(f, v) ==
  LET read == LiveBefore(f, v)
      at == DefsOf(f.code, v) \cup {i \in DOMAIN f.code : v \in Sources(f.code[i])} \cup read
  IN [span |-> {i \in DOMAIN f.code : (\E j \in at : j <= i) /\ (\E j \in at : i <= j)},
      crossing |-> \E i \in read : i > 1 /\ f.code[i - 1].kind = "call"]

Lives(f) == FoldLeft(LAMBDA lives, v : Append(lives, Around(f, v)), <<>>, [v \in RegsOf(f) |-> v])

(* What RegAlloc guarantees, for the registers taken in this order: values   *)
(* around together have different registers, none is in a scratch register   *)
(* across a call.                                                            *)
Allocation(lives, order, spilled) ==
  LET Free(taken, v) ==
        {r \in DOMAIN order :
           /\ lives[v].crossing => order[r] \notin ScratchRegs
           /\ \A w \in DOMAIN taken : taken[w] = order[r] => lives[v].span \cap lives[w].span = {}}
      Choose(taken, v) ==
        LET free == Free(taken, v) IN
        Append(taken, IF v \in spilled \/ free = {} THEN Spilled
                      ELSE order[CHOOSE r \in free : \A q \in free : r <= q])
  IN FoldLeft(Choose, <<>>, [v \in DOMAIN lives |-> v])

Orders == {<<"rbx", "r12", "r11">>, <<"r11", "r12", "rbx">>}
(* All choices of what has a frame slot, but for addresses never computed.   *)
HomesOf(f) ==
  LET lives == Lives(f)
      Folded(v) == \A i \in DOMAIN f.code :
        /\ f.code[i].dst = v => f.code[i].kind = "addr"
        /\ v \in Sources(f.code[i]) => f.code[i].kind \in {"load", "store"} /\ f.code[i].src1 = v
      open == {v \in RegsOf(f) : ~Folded(v)}
  IN {Allocation(lives, order, RegsOf(f) \ (open \ S)) : order \in Orders, S \in SUBSET open}

LegalizedAs(f) == Legalize(f).fn
Legalized == {LegalizedAs(f) : f \in All}
LegalizedMains == {LegalizedAs(f) : f \in Mains}
SymbolsOf(f) == IF f \in LegalizedMains THEN {"f", "main"} ELSE {"f"}

-----------------------------------------------------------------------------
(* The emitter, or the allocator without a function being emitted; each has *)
(* the other's input empty.                                                 *)
InitEither ==
  \/ /\ InitGen
     /\ def = <<>> /\ last = <<>> /\ shape = <<>> /\ calls = {} /\ cur = 1 /\ active = {} /\ used = {}
     /\ reg = <<>> /\ slot = [v \in Ranks |-> 0] /\ slots = <<>> /\ slotLast = <<>> /\ busy = {} /\ spillOffset = 0 /\ frame = <<>>
  \/ Init /\ fn = Null /\ symbol = "" /\ home = Idle /\ mat = Idle /\ text = <<>> /\ starts = <<>>
     /\ cached = 0 /\ claims = <<>> /\ ref = Idle /\ cpu = Idle /\ live = Idle
NextEither ==
  \/ fn # Null /\ NextGen /\ UNCHANGED vars
  \/ fn = Null /\ Next /\ UNCHANGED genVars
SpecEither == InitEither /\ [][NextEither]_<<vars, genVars>>
=============================================================================
