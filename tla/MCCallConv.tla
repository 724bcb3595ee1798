------------------------------ MODULE MCCallConv ------------------------------
(* Calls with few registers, so that both classes run out. *)
EXTENDS CallConv, Win64, TLC

CONSTANT MaxArgs

Leaf(class, at, n) == [class |-> class, off |-> at, size |-> n, align |-> n]
Scalar(class, n) == [agg |-> FALSE, size |-> n, align |-> n, leaves |-> <<Leaf(class, 0, n)>>]
Struct(n, align, leaves) == [agg |-> TRUE, size |-> n, align |-> align, leaves |-> leaves]

Word == Scalar("INTEGER", 4)
Double == Scalar("SSE", 8)
Chars == Struct(3, 1, <<Leaf("INTEGER", 0, 1), Leaf("INTEGER", 1, 1), Leaf("INTEGER", 2, 1)>>)
FloatInt == Struct(8, 4, <<Leaf("SSE", 0, 4), Leaf("INTEGER", 4, 4)>>)
DoubleLong == Struct(16, 8, <<Leaf("SSE", 0, 8), Leaf("INTEGER", 8, 8)>>)
LongFloat == Struct(16, 8, <<Leaf("INTEGER", 0, 8), Leaf("SSE", 8, 4)>>)
Longs == Struct(16, 8, <<Leaf("INTEGER", 0, 8), Leaf("INTEGER", 8, 8)>>)
Floats == Struct(12, 4, <<Leaf("SSE", 0, 4), Leaf("SSE", 4, 4), Leaf("SSE", 8, 4)>>)
Three == Struct(24, 8, <<Leaf("INTEGER", 0, 8), Leaf("INTEGER", 8, 8), Leaf("INTEGER", 16, 8)>>)
Packed == Struct(9, 1, <<Leaf("INTEGER", 0, 1), Leaf("INTEGER", 1, 8)>>)
Extended == Struct(16, 16, <<Leaf("X87", 0, 16)>>)
Aligned == Struct(32, 16, <<[Leaf("INTEGER", 0, 8) EXCEPT !.align = 16], Leaf("INTEGER", 8, 8), Leaf("INTEGER", 16, 8)>>)

SomeTypes == {Word, Double, Chars, FloatInt, DoubleLong, LongFloat, Longs, Floats, Three, Packed}
Char == [size |-> 1, align |-> 1]

CallIn(args, named, variadic, ret, locals, low) ==
  [args |-> args, named |-> named, variadic |-> variadic, ret |-> ret, locals |-> locals, rbp |-> low]
Call(args, named, variadic, ret) == CallIn(args, named, variadic, ret, <<Char>>, 0)
Upto(S, n) == UNION {[1 .. k -> S] : k \in 0 .. n}

(* Any arguments, all of them named. *)
Named == {Call(args, Len(args), FALSE, ret) : args \in Upto(SomeTypes, MaxArgs), ret \in {Word, Three}}

(* Unnamed scalars, and aggregates that are passed in memory, after named   *)
(* arguments that are in registers.                                         *)
Variadic ==
  {Call(named \o args, Len(named), TRUE, ret) :
     named \in {<<>>, <<Word>>, <<Double, Word>>, <<DoubleLong>>, <<Longs>>}, args \in Upto({Word, Double, Three}, MaxArgs), ret \in {Word}}
  \cup {Call(named \o args, Len(named), TRUE, Three) :
     named \in {<<>>, <<Word>>, <<Double>>, <<DoubleLong>>}, args \in Upto({Word, Double, Packed}, MaxArgs)}

(* An alignment of 16 where it makes no difference: first on the stack. *)
FirstOnStack ==
  {Call(<<Aligned>> \o args, Len(args) + 1, FALSE, Word) : args \in Upto({Word, Double, Longs}, 2)}
  \cup {Call(<<Word, Aligned>> \o args, 1, TRUE, Word) : args \in Upto({Word, Double}, 2)}

(* A long double in a structure of its own ends the compiler. *)
Refused == {Call(<<Extended>>, 1, FALSE, Word)}

(* Scalars for a callee with a va_list and an int, whose save area begins at *)
(* %rbp - 144, for every place a frame can have.                             *)
VaList == [size |-> 24, align |-> 8]
Framed ==
  {CallIn(<<Word>> \o args, 1, TRUE, Word, <<VaList, [size |-> 4, align |-> 4]>>, 16 * n) :
     args \in Upto({Word, Double}, 2), n \in 0 .. 15}

AgreedCalls == <<Named, Variadic, FirstOnStack, Refused, Framed>>
FramedCalls == <<Framed>>
NoMsCalls == {}

-----------------------------------------------------------------------------
(* Calls under the Microsoft convention. *)

Ms(class, n, align) == [class |-> class, size |-> n, align |-> align]
MsInt == Ms("int", 4, 4)
MsDouble == Ms("float", 8, 8)
MsPair == Ms("agg", 8, 4)
MsThree == Ms("agg", 12, 4)
MsTypes == {Ms("int", 1, 1), MsInt, Ms("int", 8, 8), Ms("float", 4, 4), MsDouble,
            Ms("agg", 3, 1), MsPair, MsThree, Ms("agg", 31, 1), Ms("agg", 4, 2)}
MsVoid == Ms("void", 0, 1)

(* The registers of the allocator from the first on hold the arguments; the *)
(* target is a name, or in the register before them, or in a slot.          *)
MsCall(args, named, ret, mask, first, spills) ==
  [args |-> args, named |-> named, variadic |-> named < Len(args), ret |-> ret,
   locals |-> <<[size |-> 1, align |-> 1], [size |-> 8, align |-> 8]>>,
   spills |-> spills, mask |-> mask, first |-> first,
   target |-> IF first = 1 THEN (IF spills = 0 THEN 0 ELSE 7) ELSE first - 1]

(* A large aggregate on the stack is the last argument: the layout forgets  *)
(* its slot.                                                                *)
SlotsCounted(args, ret) ==
  \A n \in DOMAIN args :
    win64_returns_by_reference(args[n]) => n = Len(args) \/ n + (IF win64_returns_by_reference(ret) THEN 1 ELSE 0) <= 4

MsCalls ==
  {MsCall(args, Len(args), ret, IF first = 1 THEN {} ELSE 1 .. 5, first, 0) :
     args \in Upto(MsTypes, 2), ret \in MsTypes \cup {MsVoid}, first \in {1, 3}}
  \cup {MsCall(args, Len(args), IF first = 1 THEN MsDouble ELSE MsThree, {1, 3}, first, 3) :
     args \in [1 .. 5 -> {MsInt, MsDouble, MsPair, MsThree}] \cup [1 .. 6 -> {MsInt, MsThree}], first \in {1, 6}}
  \cup {MsCall(named \o args, Len(named), ret, {2}, 1, 513) :
     named \in Upto({MsInt, MsThree}, 2), args \in Upto({MsInt, MsDouble, MsPair}, 3) \ {<<>>}, ret \in {MsInt, MsThree}}

MCWin64Calls == {c \in MsCalls : SlotsCounted(c.args, c.ret)}

(* One of the conventions, the other idle. *)
InitEither ==
  \/ /\ Init
     /\ msCall = <<>> /\ step = "idle" /\ nth = 0 /\ reg = <<>> /\ xmm = <<>> /\ mem = <<>> /\ sp = 0 /\ rbp = 0
     /\ frame = <<>> /\ buffer = <<>> /\ vaArgs = <<>> /\ dst = <<>>
  \/ Init /\ call = Call(<<>>, 0, FALSE, Word) /\ InitWin64
NextEither == (step = "idle" /\ Next /\ UNCHANGED win64Vars) \/ (NextWin64 /\ UNCHANGED vars)
SpecEither == InitEither /\ [][NextEither]_<<vars, win64Vars>>
=============================================================================
