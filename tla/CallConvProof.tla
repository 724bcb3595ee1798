---------------------------- MODULE CallConvProof ----------------------------
(* The caller's passes and the callee's frame, for any call and any number  *)
(* of registers.                                                            *)
EXTENDS CallConv, SequenceTheorems, FiniteSetTheorems, WellFoundedInduction, TLAPS

Sizes == [size : Nat, align : Nat \ {0}]

(* The locals laid out so far, those before n, are below the callee-saved   *)
(* registers and above bottom, each apart from the others.                  *)
LaidOut(n) ==
  \A l \in DOMAIN Locals :
    /\ l >= n => offset[l] >= 0
    /\ offset[l] < 0 =>
         /\ -bottom <= offset[l] /\ offset[l] + Locals[l].size <= -40
         /\ \A m \in DOMAIN Locals : m # l =>
              offset[m] >= offset[l] + Locals[l].size \/ offset[m] + Locals[m].size <= offset[l]

FrameTyped ==
  /\ IsCall(call)
  /\ i \in Nat /\ i >= 1 /\ top \in Nat /\ bottom \in Nat /\ top >= 16 /\ bottom >= 40
  /\ offset \in [DOMAIN Locals -> Int]

FrameInv ==
  /\ FrameTyped
  /\ phase \in {"count", "stage", "load", "place"} => \A l \in DOMAIN Locals : offset[l] >= 0
  /\ phase = "locals" => LaidOut(i)
  /\ phase \in {"save", "body", "internal error"} => LaidOut(Len(Locals) + 1)
  /\ phase \in {"count", "stage", "load", "place", "locals", "save", "body", "internal error"}

(* Rounding up never goes below, at any alignment. *)
LEMMA AlignToIsAbove ==
  ASSUME NEW n \in Nat, NEW a \in Nat \ {0}
  PROVE  AlignTo(n, a) \in Nat /\ AlignTo(n, a) >= n
<1> DEFINE q == (n + a - 1) \div a
<1>1. q \in Nat /\ (n + a - 1) % a \in 0 .. a - 1 /\ n + a - 1 = (a * q) + ((n + a - 1) % a)
  OBVIOUS
<1>2. a * q \in Nat /\ a * q >= n /\ q * a = a * q
  <2> HIDE DEF q
  <2> QED BY <1>1
<1> QED BY <1>2 DEF AlignTo

(* The parameters of any call are typed. *)
LEMMA ParamsTyped ==
  ASSUME IsCall(call)
  PROVE  Params \in Seq([arg : Nat, ty : Types])
<1> DEFINE P == [arg : Nat, ty : Types]
           named == [a \in 1 .. call.named |-> [arg |-> a, ty |-> Args[a]]]
           hidden == [arg |-> 0, ty |-> Pointer]
<1>1. hidden \in P
  <2>1. [class |-> "INTEGER", off |-> 0, size |-> 8, align |-> 8] \in Leaves
    BY DEF Leaves, Classes
  <2>2. Pointer \in Types
    BY <2>1 DEF Pointer, Types
  <2> QED BY <2>2
<1>2. \A a \in 1 .. call.named : [arg |-> a, ty |-> Args[a]] \in P
  BY DEF IsCall, Args
<1>3. named \in Seq(P)
  <2>1. call.named \in Nat
    BY DEF IsCall
  <2>2. named \in [1 .. call.named -> P]
    BY <1>2
  <2> HIDE DEF named, P
  <2> QED BY <2>1, <2>2, SeqDef, Zenon
<1> HIDE DEF named, hidden, P
<1>4. <<hidden>> \in Seq(P) /\ <<>> \in Seq(P)
  BY <1>1
<1>5. Params = (IF Hidden THEN <<hidden>> ELSE <<>>) \o named
  BY DEF Params, named, hidden
<1>6. Params \in Seq(P)
  BY <1>3, <1>4, <1>5
<1> QED BY <1>6 DEF P

(* The locals of any call have sizes and alignments; the parameters are the *)
(* last of them, but not the only ones.                                     *)
LEMMA LocalsTyped ==
  ASSUME IsCall(call)
  PROVE  Locals \in Seq(Sizes) /\ Len(Params) \in Nat /\ Len(Locals) > Len(Params)
<1> DEFINE params == [p \in DOMAIN Params |-> [size |-> Params[p].ty.size, align |-> Params[p].ty.align]]
           alloca == <<[size |-> 8, align |-> 8]>>
<1>1. params \in Seq(Sizes) /\ Len(params) = Len(Params) /\ Len(Params) \in Nat
  <2>1. \A p \in DOMAIN Params : [size |-> Params[p].ty.size, align |-> Params[p].ty.align] \in Sizes
    <3> DEFINE P == [arg : Nat, ty : Types]
    <3>1. Params \in Seq(P)
      BY ParamsTyped
    <3>2. \A p \in DOMAIN Params : Params[p] \in P
      <4> HIDE DEF P
      <4> QED BY <3>1
    <3> QED BY <3>2 DEF Types, Sizes
  <2>2. DOMAIN Params = 1 .. Len(Params) /\ Len(Params) \in Nat
    BY ParamsTyped
  <2>3. params \in [1 .. Len(Params) -> Sizes]
    BY <2>1, <2>2
  <2> QED BY <2>2, <2>3, SeqDef
<1>2. VaArea \in Sizes
  BY MaximaAreNat DEF VaArea, Sizes
<1>3. <<VaArea>> \in Seq(Sizes) /\ <<>> \in Seq(Sizes)
  BY <1>2
<1>4. alloca \in Seq(Sizes) /\ Len(alloca) = 1
  BY DEF Sizes
<1>5. call.locals \in Seq(Sizes)
  BY DEF IsCall, Sizes
<1> HIDE DEF params, alloca
<1>6. Locals = call.locals \o alloca \o (IF call.variadic THEN <<VaArea>> ELSE <<>>) \o params
  BY DEF Locals, params, alloca
<1> DEFINE others == call.locals \o alloca \o (IF call.variadic THEN <<VaArea>> ELSE <<>>)
<1>7. others \in Seq(Sizes) /\ Len(others) > 0
  <2>1. call.locals \o alloca \in Seq(Sizes) /\ Len(call.locals \o alloca) > 0
    BY <1>4, <1>5
  <2>2. \A s, t \in Seq(Sizes) : Len(s) > 0 => s \o t \in Seq(Sizes) /\ Len(s \o t) > 0
    OBVIOUS
  <2> QED BY <1>3, <2>1, <2>2
<1> HIDE DEF others
<1>8. Locals = others \o params
  BY <1>1, <1>3, <1>4, <1>5, <1>6 DEF others
<1> QED BY <1>1, <1>7, <1>8

-----------------------------------------------------------------------------
(* A call keeps its locals. *)
LEMMA SameLocals ==
  ASSUME call' = call
  PROVE  Locals' = Locals
<1>1. Params' = Params /\ Hidden' = Hidden
  BY DEF Params, Hidden, Args
<1>2. \A p : Params'[p] = Params[p]
  BY <1>1
<1> QED BY <1>1, <1>2 DEF Locals

LEMMA FrameInit == Init => FrameInv
<1> SUFFICES ASSUME Init PROVE FrameInv
  OBVIOUS
<1>1. IsCall(call)
  BY CallsAreTyped DEF Init
<1>2. offset \in [DOMAIN Locals -> Int] /\ \A l \in DOMAIN Locals : offset[l] = 0
  BY DEF Init
<1> QED BY <1>1, <1>2 DEF Init, FrameInv, FrameTyped

(* The caller's steps, and the callee's after its layout. *)
LEMMA FrameKept ==
  ASSUME FrameInv, UNCHANGED <<call, top, bottom, offset>>, i' \in Nat, i' >= 1,
         \/ phase \in {"count", "stage", "load", "place"} /\ phase' \in {"count", "stage", "load", "place"}
         \/ phase = "place" /\ phase' = "locals" /\ i' = 1
         \/ phase = "locals" /\ i = Len(Locals) + 1 /\ phase' = "save"
         \/ phase \in {"save", "body", "internal error"} /\ phase' \in {"save", "body", "internal error"}
  PROVE  FrameInv'
<1>1. FrameTyped'
  BY SameLocals DEF FrameInv, FrameTyped
<1>2. CASE phase \in {"count", "stage", "load", "place"} /\ phase' \in {"count", "stage", "load", "place"}
  BY <1>1, <1>2, SameLocals DEF FrameInv
<1>3. CASE phase = "place" /\ phase' = "locals" /\ i' = 1
  <2>1. LaidOut(i')
    BY <1>3 DEF FrameInv, FrameTyped, LaidOut
  <2>2. LaidOut(i)'
    BY <1>3, <2>1, SameLocals DEF LaidOut
  <2> QED BY <1>1, <1>3, <2>2 DEF FrameInv
<1>4. CASE phase = "locals" /\ i = Len(Locals) + 1 /\ phase' = "save"
  <2>1. LaidOut(Len(Locals) + 1)'
    BY <1>4, SameLocals DEF FrameInv, LaidOut
  <2> QED BY <1>1, <1>4, <2>1 DEF FrameInv
<1>5. CASE phase \in {"save", "body", "internal error"} /\ phase' \in {"save", "body", "internal error"}
  <2>1. LaidOut(Len(Locals) + 1)'
    BY <1>5, SameLocals DEF FrameInv, LaidOut
  <2> QED BY <1>1, <1>5, <2>1 DEF FrameInv
<1> QED BY <1>2, <1>3, <1>4, <1>5

(* Stack parameters get offsets above %rbp. *)
LEMMA PlaceParamKeepsFrame ==
  ASSUME FrameInv, PlaceParam
  PROVE  FrameInv'
<1> DEFINE ty == Params[i].ty
           at == AlignTo(top, AtLeast8(ty.align))
<1>1. i \in DOMAIN Params /\ ty \in Types
  <2> DEFINE P == [arg : Nat, ty : Types]
  <2>1. Params \in Seq(P)
    BY ParamsTyped DEF FrameInv, FrameTyped
  <2>2. i \in DOMAIN Params /\ Params[i] \in P
    <3>1. i \in Nat /\ i <= Len(Params)
      BY DEF PlaceParam, At, FrameInv, FrameTyped
    <3>2. i >= 1
      BY DEF FrameInv, FrameTyped
    <3> HIDE DEF P
    <3> QED BY <2>1, <3>1, <3>2
  <2> QED BY <2>2
<1>2. AtLeast8(ty.align) \in Nat \ {0}
  BY <1>1 DEF Types, AtLeast8
<1>3. at \in Nat /\ at >= top
  <2> HIDE DEF ty
  <2> QED BY <1>2, AlignToIsAbove DEF FrameInv, FrameTyped
<1>4. AlignTo(ty.size, 8) \in Nat
  <2>1. ty.size \in Nat
    BY <1>1 DEF Types
  <2> QED BY <2>1, AlignToIsAbove
<1>5. UNCHANGED <<call, phase, bottom>> /\ phase = "place" /\ i' = i + 1
  BY DEF PlaceParam, At
<1>6. \/ UNCHANGED <<top, offset>>
      \/ offset' = [offset EXCEPT ![LocalOfParam(i)] = at] /\ top' = at + AlignTo(ty.size, 8)
  BY DEF PlaceParam
<1> HIDE DEF ty, at
<1>7. /\ offset' \in [DOMAIN Locals -> Int] /\ top' \in Nat /\ top' >= 16
      /\ \A l \in DOMAIN Locals : offset'[l] >= 0
  BY <1>3, <1>4, <1>5, <1>6 DEF FrameInv, FrameTyped
<1> QED BY <1>5, <1>7, SameLocals DEF FrameInv, FrameTyped

(* A local goes below everything laid out before. *)
LEMMA PlaceLocalKeepsFrame ==
  ASSUME FrameInv, PlaceLocal
  PROVE  FrameInv'
<1> DEFINE at == AlignTo(bottom + Locals[i].size, Locals[i].align)
<1>1. UNCHANGED <<call, phase, top>> /\ phase = "locals" /\ i' = i + 1
  BY DEF PlaceLocal, At
<1>2. i \in DOMAIN Locals /\ \A l \in DOMAIN Locals : l \in Nat /\ Locals[l].size \in Nat /\ Locals[l].align \in Nat \ {0}
  <2>1. Locals \in Seq(Sizes)
    BY LocalsTyped DEF FrameInv, FrameTyped
  <2>2. i \in Nat /\ i <= Len(Locals) /\ i >= 1
    BY DEF PlaceLocal, At, FrameInv, FrameTyped
  <2>3. i \in DOMAIN Locals /\ \A l \in DOMAIN Locals : l \in Nat /\ Locals[l] \in Sizes
    BY <2>1, <2>2
  <2> QED BY <2>3 DEF Sizes
<1>3. at \in Nat /\ at >= bottom + Locals[i].size
  <2>1. bottom + Locals[i].size \in Nat /\ Locals[i].align \in Nat \ {0}
    <3>1. bottom \in Nat
      BY DEF FrameInv, FrameTyped
    <3>2. Locals[i].size \in Nat /\ Locals[i].align \in Nat \ {0}
      BY <1>2
    <3> QED BY <3>1, <3>2
  <2> QED BY <2>1, AlignToIsAbove
<1>4. LaidOut(i) /\ FrameTyped
  BY <1>1 DEF FrameInv
<1>5. CASE offset[i] # 0 /\ UNCHANGED <<bottom, offset>>
  <2>1. LaidOut(i + 1)
    BY <1>2, <1>4 DEF LaidOut, FrameTyped
  <2>2. LaidOut(i)'
    BY <1>1, <1>5, <2>1, SameLocals DEF LaidOut
  <2> QED BY <1>1, <1>4, <1>5, <2>2, SameLocals DEF FrameInv, FrameTyped
<1>6. CASE bottom' = at /\ offset' = [offset EXCEPT ![i] = -at]
  <2> HIDE DEF at
  <2>1. /\ offset' \in [DOMAIN Locals -> Int] /\ offset'[i] = -at
        /\ \A l \in DOMAIN Locals : l # i => offset'[l] = offset[l]
        /\ bottom' \in Nat /\ bottom' >= bottom /\ bottom >= 40
    BY <1>2, <1>3, <1>4, <1>6 DEF FrameTyped
  <2>2. offset'[i] + Locals[i].size <= -bottom
    BY <1>2, <1>3, <1>4, <2>1 DEF FrameTyped
  <2>3. ASSUME NEW l \in DOMAIN Locals, l >= i + 1
        PROVE  offset'[l] >= 0
    BY <1>2, <1>4, <2>1, <2>3 DEF LaidOut, FrameTyped
  <2>4. ASSUME NEW l \in DOMAIN Locals, offset'[l] < 0
        PROVE  -bottom' <= offset'[l] /\ offset'[l] + Locals[l].size <= -40
    BY <1>2, <1>4, <1>6, <2>1, <2>2, <2>4 DEF LaidOut, FrameTyped
  <2>5. ASSUME NEW l \in DOMAIN Locals, offset'[l] < 0, NEW m \in DOMAIN Locals, m # l
        PROVE  offset'[m] >= offset'[l] + Locals[l].size \/ offset'[m] + Locals[m].size <= offset'[l]
    <3>1. CASE l = i
      <4>1. offset[m] >= -bottom
        BY <1>2, <1>4, <2>5, <3>1 DEF LaidOut, FrameTyped
      <4> QED BY <1>2, <1>4, <2>1, <2>2, <2>5, <3>1, <4>1 DEF FrameTyped
    <3>2. CASE m = i /\ l # i
      <4>1. offset[l] >= -bottom
        BY <1>2, <1>4, <2>1, <2>5, <3>2 DEF LaidOut, FrameTyped
      <4> QED BY <1>2, <1>4, <2>1, <2>2, <2>5, <3>2, <4>1 DEF FrameTyped
    <3>3. CASE m # i /\ l # i
      BY <1>2, <1>4, <2>1, <2>5, <3>3 DEF LaidOut
    <3> QED BY <3>1, <3>2, <3>3
  <2>6. LaidOut(i)'
    BY <1>1, <2>3, <2>4, <2>5, SameLocals DEF LaidOut
  <2> QED BY <1>1, <1>4, <2>1, <2>6, SameLocals DEF FrameInv, FrameTyped
<1> QED BY <1>5, <1>6 DEF PlaceLocal

LEMMA FrameNext == FrameInv /\ [Next]_vars => FrameInv'
<1> SUFFICES ASSUME FrameInv, [Next]_vars PROVE FrameInv'
  OBVIOUS
<1>1. i \in Nat /\ i >= 1 /\ call.named \in Nat
  <2>1. i \in Nat
    BY DEF FrameInv, FrameTyped
  <2>2. i >= 1
    BY DEF FrameInv, FrameTyped
  <2>3. call.named \in Nat
    <3>1. IsCall(call)
      BY DEF FrameInv, FrameTyped
    <3> QED BY <3>1 DEF IsCall
  <2> QED BY <2>1, <2>2, <2>3
<1>2. CASE CountArg \/ StageArg \/ LoadArg
  <2>1. UNCHANGED <<call, phase, top, bottom, offset>> /\ i' = i + 1
    BY <1>2 DEF CountArg, StageArg, LoadArg, callee
  <2>2. phase \in {"count", "stage", "load"}
    BY <1>2 DEF CountArg, StageArg, LoadArg, At
  <2>3. phase' \in {"count", "stage", "load"} /\ i' \in Nat /\ i' >= 1
    BY <1>1, <2>1, <2>2
  <2> QED BY <2>1, <2>2, <2>3, FrameKept
<1>3. CASE Reserve \/ LoadHidden \/ EmitCall
  <2>1. UNCHANGED <<call, top, bottom, offset>> /\ i' = 1
    BY <1>3 DEF Reserve, LoadHidden, EmitCall, Loop, callee
  <2>2. phase \in {"count", "stage", "load"} /\ phase' \in {"stage", "load", "place"}
    BY <1>3 DEF Reserve, LoadHidden, EmitCall, Past, Loop
  <2>3. i' \in Nat /\ i' >= 1
    BY <2>1
  <2> QED BY <2>1, <2>2, <2>3, FrameKept
<1>4. CASE PlaceParam
  BY <1>4, PlaceParamKeepsFrame
<1>5. CASE PlaceLocals
  BY <1>5, FrameKept DEF PlaceLocals, Past, Loop, callee
<1>6. CASE PlaceLocal
  BY <1>6, PlaceLocalKeepsFrame
<1>7. CASE InitVaList
  BY <1>7, FrameKept DEF InitVaList, Past, Loop
<1>8. CASE SaveParam
  <2>1. UNCHANGED <<call, top, bottom, offset>> /\ phase = "save"
    BY <1>8 DEF SaveParam, At
  <2>2. phase' \in {"save", "internal error"} /\ (i' = i \/ i' = i + 1)
    BY <1>8, <2>1 DEF SaveParam
  <2>3. i' \in Nat /\ i' >= 1
    <3>1. CASE i' = i
      BY <1>1, <3>1
    <3>2. CASE i' = i + 1
      BY <1>1, <3>2
    <3> QED BY <2>2, <3>1, <3>2
  <2> QED BY <2>1, <2>2, <2>3, FrameKept
<1>9. CASE EnterBody
  BY <1>1, <1>9, FrameKept DEF EnterBody, Past, callee
<1>10. CASE VaArg
  BY <1>1, <1>10, FrameKept DEF VaArg, At
<1>11. CASE UNCHANGED vars
  <2>1. UNCHANGED <<call, phase, i, top, bottom, offset>>
    BY <1>11 DEF vars, callee
  <2> QED BY <2>1, SameLocals DEF FrameInv, FrameTyped, LaidOut
<1> QED BY <1>2, <1>3, <1>4, <1>5, <1>6, <1>7, <1>8, <1>9, <1>10, <1>11 DEF Next, Stopped

LEMMA LaidOutIsDisjoint == FrameInv => FrameDisjoint
BY DEF FrameInv, LaidOut, FrameDisjoint

(* For any call, with any number of registers and locals of any size and     *)
(* alignment: what sysv64_assign_lvar_offsets lays out below %rbp overlaps   *)
(* neither itself nor the callee-saved registers.                            *)
THEOREM FrameIsDisjoint == Spec => []FrameDisjoint
<1>1. Init => FrameInv
  BY FrameInit
<1>2. FrameInv /\ [Next]_vars => FrameInv'
  BY FrameNext
<1>3. FrameInv => FrameDisjoint
  BY LaidOutIsDisjoint
<1> QED BY <1>1, <1>2, <1>3, PTL DEF Spec

-----------------------------------------------------------------------------
(* The caller's three passes. *)

Cursors == [gp : Nat, fp : Nat, size : Nat]
Cursor == [gp |-> gp, fp |-> fp, size |-> size]

(* Where the cursors go from c over an argument of type ty. *)
Room(c, ty) ==
  ~X87(ty) /\ Classify(ty) # <<>> /\ c.gp + NumGp(ty) <= GP_MAX /\ c.fp + NumFp(ty) <= FP_MAX
After(c, ty) ==
  IF Room(c, ty) THEN [gp |-> c.gp + NumGp(ty), fp |-> c.fp + NumFp(ty), size |-> c.size]
  ELSE [gp |-> c.gp, fp |-> c.fp, size |-> c.size + AlignTo(ty.size, 8)]

(* The first pass leaves the trace of its cursors, which the other two      *)
(* follow.                                                                  *)
CallerTyped ==
  /\ counted \in Seq(Cursors) /\ counted # <<>>
  /\ gp \in Nat /\ fp \in Nat /\ size \in Nat /\ area \in Nat
  /\ i \in 1 .. Len(Args) + 1

Traced ==
  /\ counted[1] = [gp |-> HiddenGp, fp |-> 0, size |-> 0]
  /\ \A k \in 1 .. Len(counted) - 1 : counted[k + 1] = After(counted[k], Args[k])

CallerInv ==
  /\ IsCall(call)
  /\ phase \in {"count", "stage", "load"} => CallerTyped /\ Traced
  /\ phase = "count" =>
       /\ Len(counted) = i /\ counted[i] = Cursor
       /\ \A k \in DOMAIN counted : counted[k].size <= size
  /\ phase \in {"stage", "load"} =>
       /\ Len(counted) = Len(Args) + 1
       /\ \A k \in DOMAIN counted : counted[k].size <= area
  /\ phase = "stage" => counted[i] = Cursor
  /\ phase = "load" => counted[i].gp = gp /\ counted[i].fp = fp /\ counted[Len(Args) + 1].size = size

(* A type takes a number of registers. *)
LEMMA OfIsNat ==
  ASSUME NEW class, NEW ty
  PROVE  Of(class, Classify(ty)) \in Nat
<1>1. IsFiniteSet(DOMAIN Classify(ty))
  <2>1. \E n \in Nat : DOMAIN Classify(ty) = 1 .. n
    <3>1. CASE ~ty.agg
      BY <3>1 DEF Classify
    <3>2. CASE ty.agg /\ Classify(ty) = <<>>
      BY <3>2
    <3>3. CASE ty.agg /\ Classify(ty) # <<>>
      BY <3>3 DEF Classify
    <3> QED BY <3>1, <3>2, <3>3
  <2> QED BY <2>1, FS_Interval
<1>2. IsFiniteSet({e \in DOMAIN Classify(ty) : Classify(ty)[e] = class})
  BY <1>1, FS_Subset
<1> QED BY <1>2, FS_CardinalityType DEF Of

LEMMA AfterTyped ==
  ASSUME NEW c \in Cursors, NEW ty \in Types
  PROVE  After(c, ty) \in Cursors /\ After(c, ty).size >= c.size
<1>1. NumGp(ty) \in Nat /\ NumFp(ty) \in Nat
  BY OfIsNat DEF NumGp, NumFp
<1>2. AlignTo(ty.size, 8) \in Nat
  <2>1. ty.size \in Nat
    BY DEF Types
  <2> QED BY <2>1, AlignToIsAbove
<1> QED BY <1>1, <1>2 DEF After, Cursors

(* Each pass decides as After does. *)
LEMMA FitsIsRoom ==
  ASSUME NEW ty
  PROVE  Fits(ty) <=> Room(Cursor, ty)
BY DEF Fits, Room, Cursor

(* In a pass, the argument at hand is typed. *)
LEMMA ArgTyped ==
  ASSUME IsCall(call), i \in 1 .. Len(Args) + 1, i <= Len(Args)
  PROVE  Args[i] \in Types /\ Len(Args) \in Nat /\ Args \in Seq(Types)
BY DEF IsCall, Args

LEMMA CountedKept ==
  ASSUME UNCHANGED <<call, counted>>, Traced
  PROVE  Traced' /\ Args' = Args
BY DEF Traced, HiddenGp, Hidden, Args

LEMMA CountArgTraces ==
  ASSUME CallerInv, CountArg
  PROVE  CallerInv'
<1> DEFINE ty == Args[i]
           next == [gp |-> gp', fp |-> fp', size |-> size']
<1>1. /\ IsCall(call) /\ CallerTyped /\ Traced /\ Len(counted) = i /\ counted[i] = Cursor
      /\ \A k \in DOMAIN counted : counted[k].size <= size
  BY DEF CallerInv, CountArg, At
<1>2. /\ i <= Len(Args) /\ i' = i + 1 /\ counted' = Append(counted, next)
      /\ UNCHANGED <<call, phase, area>> /\ phase = "count"
  BY DEF CountArg, At
<1>3. ty \in Types /\ Len(Args) \in Nat
  BY <1>1, <1>2, ArgTyped DEF CallerTyped
<1>4. next = After(Cursor, ty)
  <2>1. CASE Fits(ty)
    BY <2>1, FitsIsRoom DEF CountArg, Advance, After, Cursor
  <2>2. CASE ~Fits(ty)
    BY <2>2, FitsIsRoom DEF CountArg, After, Cursor
  <2> QED BY <2>1, <2>2
<1>5. Cursor \in Cursors
  BY <1>1 DEF CallerTyped, Cursors, Cursor
<1>6. next \in Cursors /\ next.size >= size
  <2>1. Cursor.size = size
    BY DEF Cursor
  <2> HIDE DEF next, ty
  <2> QED BY <1>3, <1>4, <1>5, <2>1, AfterTyped
<1>7. gp' \in Nat /\ fp' \in Nat /\ size' \in Nat /\ size' >= size
  BY <1>6 DEF Cursors
<1>8. Args' = Args /\ HiddenGp' = HiddenGp /\ IsCall(call)'
  BY <1>1, <1>2 DEF Args, HiddenGp, Hidden
<1>9. Cursor' = next
  BY DEF Cursor
<1>10. i \in Nat /\ i >= 1 /\ counted \in Seq(Cursors)
  BY <1>1 DEF CallerTyped
<1> HIDE DEF next, ty
<1>11. /\ counted' \in Seq(Cursors) /\ Len(counted') = i + 1 /\ counted'[i + 1] = next
       /\ \A k \in 1 .. i : counted'[k] = counted[k]
       /\ DOMAIN counted' = 1 .. i + 1 /\ counted' # <<>>
  BY <1>1, <1>2, <1>6, <1>10
<1>12. CallerTyped'
  BY <1>1, <1>2, <1>3, <1>7, <1>8, <1>10, <1>11 DEF CallerTyped
<1>13. Traced'
  <2>1. counted'[1] = [gp |-> HiddenGp, fp |-> 0, size |-> 0]
    BY <1>1, <1>10, <1>11 DEF Traced
  <2>2. ASSUME NEW k \in 1 .. i
        PROVE  counted'[k + 1] = After(counted'[k], Args[k])
    <3>1. CASE k = i
      <4>1. counted'[k] = Cursor
        BY <1>1, <1>11, <3>1
      <4> QED BY <1>4, <1>11, <3>1, <4>1 DEF ty
    <3>2. CASE k # i
      <4>1. k \in 1 .. Len(counted) - 1 /\ counted'[k] = counted[k] /\ counted'[k + 1] = counted[k + 1]
        BY <1>1, <1>10, <1>11, <3>2
      <4> QED BY <1>1, <4>1 DEF Traced
    <3> QED BY <3>1, <3>2
  <2>3. Len(counted') - 1 = i
    BY <1>10, <1>11
  <2>4. \A k \in 1 .. Len(counted') - 1 : counted'[k + 1] = After(counted'[k], Args[k])
    BY <2>2, <2>3
  <2> QED BY <1>8, <2>1, <2>4 DEF Traced, After, Room, X87
<1>14. \A k \in DOMAIN counted' : counted'[k].size <= size'
  <2> SUFFICES ASSUME NEW k \in 1 .. i + 1 PROVE counted'[k].size <= size'
    BY <1>11
  <2>1. CASE k = i + 1
    BY <1>7, <1>11, <2>1 DEF next
  <2>2. CASE k # i + 1
    <3>1. k \in DOMAIN counted /\ counted'[k] = counted[k] /\ counted[k] \in Cursors
      BY <1>1, <1>10, <1>11, <2>2
    <3>2. counted[k].size \in Nat /\ counted[k].size <= size /\ size \in Nat
      BY <1>1, <3>1 DEF Cursors, CallerTyped
    <3> QED BY <1>7, <3>1, <3>2
  <2> QED BY <2>1, <2>2
<1> QED BY <1>2, <1>8, <1>9, <1>11, <1>12, <1>13, <1>14 DEF CallerInv

LEMMA ReserveKeepsTrace ==
  ASSUME CallerInv, Reserve
  PROVE  CallerInv'
<1>1. /\ IsCall(call) /\ CallerTyped /\ Traced /\ Len(counted) = i
      /\ \A k \in DOMAIN counted : counted[k].size <= size
  BY DEF CallerInv, Reserve, Past
<1>2. /\ i = Len(Args) + 1 /\ area' = AlignTo(size, 16) /\ size' = 0 /\ UNCHANGED <<call, counted>>
      /\ phase' = "stage" /\ i' = 1 /\ gp' = HiddenGp /\ fp' = 0
  BY DEF Reserve, Past, Loop
<1>3. area' \in Nat /\ area' >= size
  BY <1>1, <1>2, AlignToIsAbove DEF CallerTyped
<1>4. Traced' /\ Args' = Args
  BY <1>1, <1>2, CountedKept
<1>5. HiddenGp \in Nat /\ Len(Args) \in Nat
  BY <1>1 DEF HiddenGp, IsCall, Args
<1>6. CallerTyped'
  BY <1>1, <1>2, <1>3, <1>4, <1>5 DEF CallerTyped
<1>7. \A k \in DOMAIN counted' : counted'[k].size <= area'
  <2> SUFFICES ASSUME NEW k \in DOMAIN counted PROVE counted[k].size <= area'
    BY <1>2
  <2>1. counted[k] \in Cursors /\ size \in Nat
    BY <1>1 DEF CallerTyped
  <2>2. counted[k].size \in Nat /\ counted[k].size <= size
    BY <1>1, <2>1 DEF Cursors
  <2> QED BY <1>3, <2>1, <2>2
<1>8. counted'[i'] = Cursor'
  BY <1>1, <1>2 DEF Traced, Cursor
<1>9. Len(counted') = Len(Args') + 1 /\ IsCall(call)'
  BY <1>1, <1>2, <1>4
<1> QED BY <1>2, <1>4, <1>6, <1>7, <1>8, <1>9 DEF CallerInv

LEMMA StageArgFollows ==
  ASSUME CallerInv, StageArg
  PROVE  CallerInv'
<1> DEFINE ty == Args[i]
           next == [gp |-> gp', fp |-> fp', size |-> size']
<1>1. /\ IsCall(call) /\ CallerTyped /\ Traced /\ Len(counted) = Len(Args) + 1 /\ counted[i] = Cursor
      /\ \A k \in DOMAIN counted : counted[k].size <= area
  BY DEF CallerInv, StageArg, At
<1>2. i <= Len(Args) /\ i' = i + 1 /\ UNCHANGED <<call, phase, counted, area>> /\ phase = "stage"
  BY DEF StageArg, At
<1>3. ty \in Types /\ Len(Args) \in Nat
  BY <1>1, <1>2, ArgTyped DEF CallerTyped
<1>4. next = After(Cursor, ty)
  <2>1. CASE Fits(ty)
    BY <2>1, FitsIsRoom DEF StageArg, Advance, After, Cursor
  <2>2. CASE ~Fits(ty)
    BY <2>2, FitsIsRoom DEF StageArg, After, Cursor
  <2> QED BY <2>1, <2>2
<1>5. counted[i + 1] = next
  <2>1. i \in 1 .. Len(counted) - 1
    BY <1>1, <1>2, <1>3 DEF CallerTyped
  <2> QED BY <1>1, <1>4, <2>1 DEF Traced
<1>6. next \in Cursors
  <2>1. i + 1 \in DOMAIN counted
    BY <1>1, <1>2, <1>3 DEF CallerTyped
  <2> HIDE DEF next
  <2> QED BY <1>1, <1>5, <2>1 DEF CallerTyped
<1>7. gp' \in Nat /\ fp' \in Nat /\ size' \in Nat
  BY <1>6 DEF Cursors
<1>8. Traced' /\ Args' = Args
  BY <1>1, <1>2, CountedKept
<1>9. CallerTyped'
  BY <1>1, <1>2, <1>3, <1>7, <1>8 DEF CallerTyped
<1>10. counted'[i'] = Cursor'
  BY <1>2, <1>5 DEF Cursor
<1> QED BY <1>1, <1>2, <1>8, <1>9, <1>10 DEF CallerInv

LEMMA LoadHiddenFollows ==
  ASSUME CallerInv, LoadHidden
  PROVE  CallerInv'
<1>1. /\ IsCall(call) /\ CallerTyped /\ Traced /\ Len(counted) = Len(Args) + 1 /\ counted[i] = Cursor
      /\ \A k \in DOMAIN counted : counted[k].size <= area
  BY DEF CallerInv, LoadHidden, Past
<1>2. /\ i = Len(Args) + 1 /\ UNCHANGED <<call, counted, area, size>>
      /\ phase' = "load" /\ i' = 1 /\ gp' = HiddenGp /\ fp' = 0
  BY DEF LoadHidden, Past, Loop
<1>3. Traced' /\ Args' = Args
  BY <1>1, <1>2, CountedKept
<1>4. HiddenGp \in Nat /\ Len(Args) \in Nat
  BY <1>1 DEF HiddenGp, IsCall, Args
<1>5. CallerTyped'
  BY <1>1, <1>2, <1>3, <1>4 DEF CallerTyped
<1>6. counted'[1].gp = gp' /\ counted'[1].fp = fp'
  BY <1>1, <1>2 DEF Traced
<1>7. counted'[Len(Args') + 1].size = size'
  BY <1>1, <1>2, <1>3 DEF Cursor
<1>8. Len(counted') = Len(Args') + 1 /\ \A k \in DOMAIN counted' : counted'[k].size <= area'
  BY <1>1, <1>2, <1>3
<1> QED BY <1>1, <1>2, <1>3, <1>5, <1>6, <1>7, <1>8 DEF CallerInv

LEMMA LoadArgFollows ==
  ASSUME CallerInv, LoadArg
  PROVE  CallerInv'
<1> DEFINE ty == Args[i]
           c == counted[i]
<1>1. /\ IsCall(call) /\ CallerTyped /\ Traced /\ Len(counted) = Len(Args) + 1 /\ c.gp = gp /\ c.fp = fp
      /\ counted[Len(Args) + 1].size = size /\ \A k \in DOMAIN counted : counted[k].size <= area
  BY DEF CallerInv, LoadArg, At
<1>2. i <= Len(Args) /\ i' = i + 1 /\ UNCHANGED <<call, phase, counted, area, size>> /\ phase = "load"
  BY DEF LoadArg, At
<1>3. Len(Args) \in Nat
  BY <1>1, <1>2, ArgTyped DEF CallerTyped
<1>4. Fits(ty) <=> Room(c, ty)
  BY <1>1 DEF Fits, Room
<1>5. After(c, ty).gp = gp' /\ After(c, ty).fp = fp'
  <2>1. CASE Fits(ty)
    BY <1>1, <1>4, <2>1 DEF LoadArg, Advance, After
  <2>2. CASE ~Fits(ty)
    BY <1>1, <1>4, <2>2 DEF LoadArg, After
  <2> QED BY <2>1, <2>2
<1>6. counted[i + 1] = After(c, ty)
  <2>1. i \in 1 .. Len(counted) - 1
    BY <1>1, <1>2, <1>3 DEF CallerTyped
  <2> QED BY <1>1, <2>1 DEF Traced
<1>7. counted[i + 1] \in Cursors
  <2>1. i + 1 \in DOMAIN counted
    BY <1>1, <1>2, <1>3 DEF CallerTyped
  <2> QED BY <1>1, <2>1 DEF CallerTyped
<1>8. counted[i + 1].gp = gp' /\ counted[i + 1].fp = fp' /\ gp' \in Nat /\ fp' \in Nat
  BY <1>5, <1>6, <1>7 DEF Cursors
<1>9. Traced' /\ Args' = Args
  BY <1>1, <1>2, CountedKept
<1>10. CallerTyped'
  BY <1>1, <1>2, <1>3, <1>8, <1>9 DEF CallerTyped
<1> QED BY <1>1, <1>2, <1>8, <1>9, <1>10 DEF CallerInv

LEMMA CallerNext == CallerInv /\ [Next]_vars => CallerInv'
<1> SUFFICES ASSUME CallerInv, [Next]_vars PROVE CallerInv'
  OBVIOUS
<1>1. CASE CountArg \/ Reserve \/ StageArg \/ LoadHidden \/ LoadArg
  BY <1>1, CountArgTraces, ReserveKeepsTrace, StageArgFollows, LoadHiddenFollows, LoadArgFollows
<1>2. ASSUME UNCHANGED call, phase' \notin {"count", "stage", "load"}
      PROVE  CallerInv'
  BY <1>2 DEF CallerInv
<1>3. CASE EmitCall \/ PlaceLocals \/ InitVaList \/ EnterBody
  <2>1. UNCHANGED call /\ phase' \in {"place", "locals", "save", "body"}
    BY <1>3 DEF EmitCall, PlaceLocals, InitVaList, EnterBody, Loop
  <2> QED BY <1>2, <2>1
<1>4. CASE PlaceParam \/ PlaceLocal \/ VaArg
  <2>1. UNCHANGED <<call, phase>> /\ phase \in {"place", "locals", "body"}
    BY <1>4 DEF PlaceParam, PlaceLocal, VaArg, At
  <2> QED BY <1>2, <2>1
<1>5. CASE SaveParam
  <2>1. UNCHANGED call /\ phase' \in {"save", "internal error"}
    BY <1>5 DEF SaveParam, At
  <2> QED BY <1>2, <2>1
<1>6. CASE UNCHANGED vars
  <2>1. UNCHANGED <<call, phase, i, gp, fp, size, counted, area>>
    BY <1>6 DEF vars, caller
  <2>2. (Traced <=> Traced') /\ Args' = Args /\ Cursor' = Cursor
    BY <2>1 DEF Traced, HiddenGp, Hidden, Args, Cursor
  <2> QED BY <2>1, <2>2 DEF CallerInv, CallerTyped
<1> QED BY <1>1, <1>3, <1>4, <1>5, <1>6 DEF Next, Stopped

LEMMA CallerInit == Init => CallerInv
<1> SUFFICES ASSUME Init PROVE CallerInv
  OBVIOUS
<1>1. IsCall(call)
  BY CallsAreTyped DEF Init
<1>2. HiddenGp \in Nat /\ Len(Args) \in Nat
  BY <1>1 DEF HiddenGp, IsCall, Args
<1>3. /\ phase = "count" /\ i = 1 /\ gp = HiddenGp /\ fp = 0 /\ size = 0 /\ area = 0
      /\ counted = <<[gp |-> HiddenGp, fp |-> 0, size |-> 0]>>
  BY DEF Init
<1>4. CallerTyped
  <2>1. [gp |-> HiddenGp, fp |-> 0, size |-> 0] \in Cursors
    BY <1>2 DEF Cursors
  <2> QED BY <1>2, <1>3, <2>1 DEF CallerTyped
<1>5. Traced
  BY <1>3 DEF Traced
<1>6. counted[1] = Cursor /\ Len(counted) = 1 /\ \A k \in DOMAIN counted : counted[k].size <= size
  BY <1>3 DEF Cursor
<1> QED BY <1>1, <1>3, <1>4, <1>5, <1>6 DEF CallerInv

LEMMA TraceIsAgreement == CallerInv => PassesAgree
<1> SUFFICES ASSUME CallerInv PROVE PassesAgree
  OBVIOUS
<1>1. CASE phase = "stage"
  <2>1. counted[i] = Cursor /\ i \in DOMAIN counted /\ \A k \in DOMAIN counted : counted[k].size <= area
    <3>1. Len(Args) \in Nat
      BY DEF CallerInv, IsCall, Args
    <3> QED BY <1>1, <3>1 DEF CallerInv, CallerTyped
  <2>2. size <= area
    BY <2>1 DEF Cursor
  <2> QED BY <1>1, <2>1, <2>2 DEF PassesAgree, Cursor
<1>2. CASE phase = "load"
  <2>1. Len(Args) + 1 \in DOMAIN counted
    <3>1. Len(Args) \in Nat
      BY DEF CallerInv, IsCall, Args
    <3> QED BY <1>2, <3>1 DEF CallerInv, CallerTyped
  <2>2. counted[Len(Args) + 1].size = size /\ size <= area
    BY <1>2, <2>1 DEF CallerInv
  <2> QED BY <1>2, <2>2 DEF CallerInv, PassesAgree
<1>3. CASE phase \notin {"stage", "load"}
  BY <1>3 DEF PassesAgree
<1> QED BY <1>1, <1>2, <1>3

(* For any call, with any number of registers: the pass that stores and the  *)
(* pass that loads decide about every argument as the pass that counted did, *)
(* and the area reserved holds all that is stored.                           *)
THEOREM CallerPassesAgree == Spec => []PassesAgree
<1>1. Init => CallerInv
  BY CallerInit
<1>2. CallerInv /\ [Next]_vars => CallerInv'
  BY CallerNext
<1>3. CallerInv => PassesAgree
  BY TraceIsAgreement
<1> QED BY <1>1, <1>2, <1>3, PTL DEF Spec

(* Both together: neither the caller's passes nor the callee's layout        *)
(* contradicts an earlier decision (the property of the run).               *)
THEOREM LayoutsAlwaysAgree == Spec => []LayoutsAgree
<1>1. PassesAgree /\ FrameDisjoint => LayoutsAgree
  BY DEF LayoutsAgree
<1> QED BY <1>1, CallerPassesAgree, FrameIsDisjoint, PTL

-----------------------------------------------------------------------------
(* The arguments of a call arrive: what the caller's passes store and load   *)
(* is what the callee's layout, its prologue and va_arg look for, for any    *)
(* call and any number of registers.                                         *)
(*                                                                           *)
(* The argument is one trace: counted, the cursors the caller's first pass   *)
(* went through.  The later passes, the callee's layout and its prologue are *)
(* shown to be, at every argument, where the trace says.  So an argument has *)
(* one place, and it is written there and looked for there.                  *)

(* Every set of naturals has a least element. *)
LEMMA LeastElement ==
  ASSUME NEW S \in SUBSET Nat, S # {}
  PROVE  \E n \in S : \A p \in S : n <= p
<1> DEFINE R == OpToRel(<, Nat)
<1>1. \A x, y \in Nat : <<y, x>> \in R <=> y < x
  BY DEF OpToRel
<1>2. IsWellFoundedOn(R, Nat)
  BY NatLessThanWellFounded
<1> HIDE DEF R
<1>3. PICK n \in S : \A p \in S : ~(<<p, n>> \in R)
  BY <1>2, WFMin
<1>4. ASSUME NEW p \in S
      PROVE  n <= p
  <2>1. ~(p < n)
    BY <1>1, <1>3
  <2> QED BY <2>1
<1> QED BY <1>4

-----------------------------------------------------------------------------
(* The classes of an argument. *)

AnyClass == Classes \cup {"NONE", "MEMORY"}

(* The class of eightbyte e after n leaves, from that after n - 1. *)
MergeLeaf(ty, e, n, before) ==
  IF ty.leaves[n].off \div 8 < e /\ e <= (ty.leaves[n].off + ty.leaves[n].size + 7) \div 8
  THEN Merge(before, ty.leaves[n].class) ELSE before

Merging(ty, e, n, f) ==
  f = [m \in 0 .. n |-> IF m = 0 THEN "NONE" ELSE MergeLeaf(ty, e, m, f[m - 1])]

(* Merging classes yields a class. *)
LEMMA MergeTyped ==
  ASSUME NEW a \in AnyClass, NEW b \in AnyClass
  PROVE  Merge(a, b) \in AnyClass
BY DEF Merge, AnyClass, Classes

(* The recursion over the leaves has a solution. *)
LEMMA MergingExists ==
  ASSUME NEW ty, NEW e, NEW n \in Nat
  PROVE  \E f : Merging(ty, e, n, f)
<1> DEFINE Without == {k \in Nat : ~\E f : Merging(ty, e, k, f)}
<1> SUFFICES ASSUME Without # {} PROVE FALSE
  OBVIOUS
<1>1. PICK k \in Without : \A p \in Without : k <= p
  BY LeastElement
<1>2. k # 0
  <2>1. Merging(ty, e, 0, [m \in 0 .. 0 |-> "NONE"])
    BY DEF Merging
  <2> QED BY <1>1, <2>1
<1>3. PICK f : Merging(ty, e, k - 1, f)
  <2>1. k - 1 \in Nat /\ ~(k <= k - 1)
    BY <1>1, <1>2
  <2> QED BY <1>1, <2>1
<1> DEFINE g == [m \in 0 .. k |-> IF m = k THEN MergeLeaf(ty, e, k, f[k - 1]) ELSE f[m]]
<1>4. ASSUME NEW m \in 0 .. k
      PROVE  g[m] = IF m = 0 THEN "NONE" ELSE MergeLeaf(ty, e, m, g[m - 1])
  <2>1. CASE m = 0
    BY <1>2, <1>3, <2>1 DEF Merging
  <2>2. CASE m = k
    BY <1>1, <1>2, <2>2
  <2>3. CASE m # 0 /\ m # k
    <3>1. m \in 0 .. k - 1 /\ m - 1 \in 0 .. k /\ m - 1 # k
      BY <1>1, <2>3
    <3>2. f[m] = MergeLeaf(ty, e, m, f[m - 1])
      BY <1>3, <2>3, <3>1 DEF Merging
    <3> QED BY <2>3, <3>1, <3>2
  <2> QED BY <2>1, <2>2, <2>3
<1>5. g = [m \in 0 .. k |-> IF m = 0 THEN "NONE" ELSE MergeLeaf(ty, e, m, g[m - 1])]
  BY <1>4
<1> HIDE DEF g
<1>6. Merging(ty, e, k, g)
  BY <1>5 DEF Merging
<1> QED BY <1>1, <1>6

(* Every solution yields classes. *)
LEMMA MergingTyped ==
  ASSUME NEW ty \in Types, NEW e, NEW n \in 0 .. Len(ty.leaves), NEW f, Merging(ty, e, Len(ty.leaves), f)
  PROVE  f[n] \in AnyClass
<1> DEFINE N == Len(ty.leaves)
           Bad == {k \in 0 .. N : f[k] \notin AnyClass}
<1> SUFFICES ASSUME Bad # {} PROVE FALSE
  OBVIOUS
<1>1. N \in Nat /\ \A k \in 1 .. N : ty.leaves[k].class \in Classes
  <2>1. ty.leaves \in Seq(Leaves)
    BY DEF Types
  <2>2. N \in Nat /\ \A k \in 1 .. N : ty.leaves[k] \in Leaves
    BY <2>1
  <2> QED BY <2>2 DEF Leaves
<1>2. PICK k \in Bad : \A p \in Bad : k <= p
  <2>1. Bad \in SUBSET Nat
    BY <1>1
  <2> HIDE DEF Bad
  <2> QED BY <2>1, LeastElement
<1>3. k # 0
  BY <1>1, <1>2 DEF Merging, AnyClass
<1>4. f[k - 1] \in AnyClass /\ f[k] = MergeLeaf(ty, e, k, f[k - 1])
  <2>1. k - 1 \in 0 .. N /\ ~(k <= k - 1)
    BY <1>1, <1>2, <1>3
  <2>2. f[k - 1] \in AnyClass
    BY <1>2, <2>1
  <2> QED BY <1>1, <1>2, <1>3, <2>2 DEF Merging
<1>5. ty.leaves[k].class \in AnyClass
  BY <1>1, <1>2, <1>3 DEF AnyClass
<1>6. f[k] \in AnyClass
  BY <1>4, <1>5, MergeTyped DEF MergeLeaf
<1> QED BY <1>2, <1>6

(* An eightbyte has a class. *)
LEMMA EightbyteTyped ==
  ASSUME NEW ty \in Types, NEW e
  PROVE  EightbyteClass(ty, e) \in AnyClass
<1>1. Len(ty.leaves) \in Nat
  BY DEF Types
<1>2. PICK f : f = (CHOOSE g : Merging(ty, e, Len(ty.leaves), g))
  OBVIOUS
<1>3. Merging(ty, e, Len(ty.leaves), f)
  BY <1>1, <1>2, MergingExists
<1>4. f[Len(ty.leaves)] \in AnyClass
  <2>1. Len(ty.leaves) \in 0 .. Len(ty.leaves)
    BY <1>1
  <2> QED BY <1>3, <2>1, MergingTyped
<1>5. EightbyteClass(ty, e) = f[Len(ty.leaves)]
  BY <1>2 DEF EightbyteClass, Merging, MergeLeaf
<1> QED BY <1>4, <1>5

(* An argument has at most two eightbytes; when it has none it goes in       *)
(* memory.                                                                   *)
LEMMA ClassesTyped ==
  ASSUME NEW ty \in Types
  PROVE  Classify(ty) \in Seq(Classes) /\ Len(Classify(ty)) <= 2
<1>1. CASE ~ty.agg
  <2>1. ty.leaves \in Seq(Leaves) /\ Len(ty.leaves) = 1
    BY <1>1 DEF Types
  <2>2. ty.leaves[1] \in Leaves
    BY <2>1
  <2>3. ty.leaves[1].class \in Classes
    BY <2>2 DEF Leaves
  <2>4. Classify(ty) = <<ty.leaves[1].class>>
    BY <1>1 DEF Classify
  <2> QED BY <2>3, <2>4
<1>2. CASE ty.agg /\ (ty.size > 16 \/ Unaligned(ty) \/ "MEMORY" \in {EightbyteClass(ty, 1), EightbyteClass(ty, 2)})
  <2>1. Classify(ty) = <<>>
    BY <1>2 DEF Classify
  <2> QED BY <2>1
<1>3. CASE ty.agg /\ ~(ty.size > 16 \/ Unaligned(ty) \/ "MEMORY" \in {EightbyteClass(ty, 1), EightbyteClass(ty, 2)})
  <2> DEFINE n == IF ty.size <= 8 THEN 1 ELSE 2
             OrInteger(c) == IF c = "NONE" THEN "INTEGER" ELSE c
  <2>1. Classify(ty) = [e \in 1 .. n |-> OrInteger(EightbyteClass(ty, e))]
    BY <1>3 DEF Classify
  <2>2. \A e \in {1, 2} : OrInteger(EightbyteClass(ty, e)) \in Classes
    <3>1. EightbyteClass(ty, 1) \in AnyClass /\ EightbyteClass(ty, 2) \in AnyClass
      BY EightbyteTyped
    <3> QED BY <1>3, <3>1 DEF AnyClass, Classes
  <2>3. n \in {1, 2}
    OBVIOUS
  <2> HIDE DEF n, OrInteger
  <2>4. \A e \in 1 .. n : OrInteger(EightbyteClass(ty, e)) \in Classes
    BY <2>2, <2>3
  <2>5. Classify(ty) \in [1 .. n -> Classes]
    BY <2>1, <2>4
  <2> QED BY <2>3, <2>5
<1> QED BY <1>1, <1>2, <1>3

(* How many eightbytes of a class there are. *)
LEMMA OfOne ==
  ASSUME NEW x
  PROVE  /\ \A class : Of(class, <<>>) = 0
         /\ Of(x, <<x>>) = 1 /\ \A class : class # x => Of(class, <<x>>) = 0
<1>1. \A class : {e \in DOMAIN <<>> : <<>>[e] = class} = {}
  OBVIOUS
<1>2. {e \in DOMAIN <<x>> : <<x>>[e] = x} = {1}
  OBVIOUS
<1>3. \A class : class # x => {e \in DOMAIN <<x>> : <<x>>[e] = class} = {}
  OBVIOUS
<1> QED BY <1>1, <1>2, <1>3, FS_EmptySet, FS_Singleton DEF Of

LEMMA OfTwo ==
  ASSUME NEW x, NEW y
  PROVE  /\ x = y => Of(x, <<x, y>>) = 2
         /\ x # y => Of(x, <<x, y>>) = 1 /\ Of(y, <<x, y>>) = 1
<1>1. x = y => {e \in DOMAIN <<x, y>> : <<x, y>>[e] = x} = {1} \cup {2}
  OBVIOUS
<1>2. x # y => /\ {e \in DOMAIN <<x, y>> : <<x, y>>[e] = x} = {1}
               /\ {e \in DOMAIN <<x, y>> : <<x, y>>[e] = y} = {2}
  OBVIOUS
<1>3. Cardinality({1}) = 1 /\ Cardinality({2}) = 1 /\ Cardinality({1} \cup {2}) = 2
  <2>1. IsFiniteSet({1}) /\ Cardinality({1}) = 1 /\ Cardinality({2}) = 1
    BY FS_Singleton
  <2>2. 2 \notin {1}
    OBVIOUS
  <2>3. Cardinality({1} \cup {2}) = Cardinality({1}) + 1
    BY <2>1, <2>2, FS_AddElement
  <2> QED BY <2>1, <2>3
<1> QED BY <1>1, <1>2, <1>3 DEF Of

(* The eightbytes of an argument take different registers, as many as are   *)
(* counted.                                                                 *)
LEMMA RegistersOfEightbytes ==
  ASSUME NEW ty \in Types
  PROVE  LET c == Classify(ty) IN
         /\ \A e \in DOMAIN c : Nth(ty, e) \in Nat /\ Nth(ty, e) < Of(c[e], c)
         /\ \A e, d \in DOMAIN c : c[e] = c[d] /\ Nth(ty, e) = Nth(ty, d) => e = d
<1> DEFINE c == Classify(ty)
<1>1. c \in Seq(Classes) /\ Len(c) \in {0, 1, 2}
  <2>1. c \in Seq(Classes) /\ Len(c) <= 2
    BY ClassesTyped
  <2> HIDE DEF c
  <2>2. Len(c) \in Nat
    BY <2>1
  <2>3. \A n \in Nat : n <= 2 => n \in {0, 1, 2}
    OBVIOUS
  <2> QED BY <2>1, <2>2, <2>3, Zenon
<1>2. Nth(ty, 1) = Of(c[1], SubSeq(c, 1, 0)) /\ Nth(ty, 2) = Of(c[2], SubSeq(c, 1, 1))
  <2>1. 1 - 1 = 0 /\ 2 - 1 = 1
    OBVIOUS
  <2> QED BY <2>1 DEF Nth
<1> HIDE DEF c
<1>3. CASE Len(c) = 0
  BY <1>1, <1>3 DEF c
<1>4. CASE Len(c) = 1
  <2>1. c = <<c[1]>> /\ DOMAIN c = {1} /\ SubSeq(c, 1, 0) = <<>>
    BY <1>1, <1>4
  <2>2. Nth(ty, 1) = 0 /\ Of(c[1], c) = 1
    BY <1>2, <2>1, OfOne
  <2> QED BY <2>1, <2>2 DEF c
<1>5. CASE Len(c) = 2
  <2>1. /\ c = <<c[1], c[2]>> /\ DOMAIN c = {1, 2}
        /\ SubSeq(c, 1, 0) = <<>> /\ SubSeq(c, 1, 1) = <<c[1]>>
    <3>1. DOMAIN c = {1, 2}
      BY <1>1, <1>5
    <3>2. c = <<c[1], c[2]>>
      BY <1>1, <1>5
    <3>3. SubSeq(c, 1, 0) = <<>>
      BY <1>1, <1>5
    <3>4. SubSeq(c, 1, 1) = <<c[1]>>
      <4>1. SubSeq(c, 1, 1) \in Seq(Classes) /\ Len(SubSeq(c, 1, 1)) = 1 /\ SubSeq(c, 1, 1)[1] = c[1]
        BY <1>1, <1>5
      <4>2. \A s \in Seq(Classes) : Len(s) = 1 => s = <<s[1]>>
        OBVIOUS
      <4> QED BY <4>1, <4>2, Zenon
    <3> QED BY <3>1, <3>2, <3>3, <3>4
  <2>2. Nth(ty, 1) = 0
    BY <1>2, <2>1, OfOne
  <2>3. Nth(ty, 2) = Of(c[2], <<c[1]>>)
    BY <1>2, <2>1
  <2>4. CASE c[1] = c[2]
    <3>1. Nth(ty, 2) = 1 /\ Of(c[1], c) = 2 /\ Of(c[2], c) = 2
      BY <2>1, <2>3, <2>4, OfOne, OfTwo
    <3> QED BY <2>1, <2>2, <3>1 DEF c
  <2>5. CASE c[1] # c[2]
    <3>1. Nth(ty, 2) = 0 /\ Of(c[1], c) = 1 /\ Of(c[2], c) = 1
      BY <2>1, <2>3, <2>5, OfOne, OfTwo
    <3> QED BY <2>1, <2>2, <2>5, <3>1 DEF c
  <2> QED BY <2>4, <2>5
<1> QED BY <1>1, <1>3, <1>4, <1>5

-----------------------------------------------------------------------------
(* The trace of the first pass. *)

(* When it is complete. *)
TraceInv ==
  phase # "count" =>
    IsCall(call) /\ counted \in Seq(Cursors) /\ Traced /\ Len(counted) = Len(Args) + 1

(* After the first pass the call and the trace stay what they are. *)
LEMMA TraceStays ==
  ASSUME [Next]_vars, phase # "count"
  PROVE  UNCHANGED <<call, counted>> /\ phase' # "count"
<1>1. CASE StageArg \/ LoadArg
  BY <1>1 DEF StageArg, LoadArg, At
<1>2. CASE LoadHidden \/ EmitCall
  BY <1>2 DEF LoadHidden, EmitCall, Loop
<1>3. CASE PlaceParam \/ PlaceLocal \/ VaArg
  BY <1>3 DEF PlaceParam, PlaceLocal, VaArg, At, caller
<1>4. CASE PlaceLocals \/ InitVaList \/ EnterBody
  BY <1>4 DEF PlaceLocals, InitVaList, EnterBody, Loop, caller
<1>5. CASE SaveParam
  BY <1>5 DEF SaveParam, At, caller
<1>6. CASE UNCHANGED vars
  BY <1>6 DEF vars, caller
<1>7. ~CountArg /\ ~Reserve
  BY DEF CountArg, Reserve, At, Past
<1> QED BY <1>1, <1>2, <1>3, <1>4, <1>5, <1>6, <1>7 DEF Next, Stopped

LEMMA TraceNext == CallerInv /\ CallerInv' /\ TraceInv /\ [Next]_vars => TraceInv'
<1> SUFFICES ASSUME CallerInv, CallerInv', TraceInv, [Next]_vars, phase' # "count" PROVE TraceInv'
  BY DEF TraceInv
<1>1. CASE phase = "count"
  <2>1. Reserve
    <3>1. ~(UNCHANGED vars)
      BY <1>1 DEF vars
    <3>2. ~CountArg
      BY <1>1 DEF CountArg
    <3>3. ~StageArg /\ ~LoadHidden /\ ~LoadArg /\ ~EmitCall
      BY <1>1 DEF StageArg, LoadHidden, LoadArg, EmitCall, At, Past
    <3>4. ~PlaceParam /\ ~PlaceLocals /\ ~PlaceLocal /\ ~InitVaList /\ ~SaveParam /\ ~EnterBody /\ ~VaArg
      BY <1>1 DEF PlaceParam, PlaceLocals, PlaceLocal, InitVaList, SaveParam, EnterBody, VaArg, At, Past
    <3> QED BY <3>1, <3>2, <3>3, <3>4 DEF Next, Stopped
  <2>2. phase' = "stage"
    BY <2>1 DEF Reserve, Loop
  <2> QED BY <2>2 DEF CallerInv, CallerTyped, TraceInv
<1>2. CASE phase # "count"
  <2>1. UNCHANGED <<call, counted>>
    BY <1>2, TraceStays
  <2> QED BY <1>2, <2>1, CountedKept DEF TraceInv
<1> QED BY <1>1, <1>2

LEMMA TraceCorrect == Spec => [](CallerInv /\ TraceInv)
<1>1. Init => CallerInv /\ TraceInv
  BY CallerInit DEF Init, TraceInv
<1>2. CallerInv /\ TraceInv /\ [Next]_vars => (CallerInv /\ TraceInv)'
  BY CallerNext, TraceNext
<1> QED BY <1>1, <1>2, PTL DEF Spec

(* What the trace says of an argument. *)
LEMMA TraceAt ==
  ASSUME TraceInv, phase # "count", NEW a \in 1 .. Len(Args)
  PROVE  /\ a \in Nat /\ Args[a] \in Types /\ counted[a] \in Cursors /\ counted[a + 1] \in Cursors
         /\ counted[a + 1] = After(counted[a], Args[a])
<1>1. Args \in Seq(Types) /\ Len(Args) \in Nat
  BY DEF TraceInv, IsCall, Args
<1>2. a \in Nat /\ a \in 1 .. Len(counted) - 1 /\ a \in 1 .. Len(counted) /\ a + 1 \in 1 .. Len(counted)
  BY <1>1 DEF TraceInv
<1>3. counted[a] \in Cursors /\ counted[a + 1] \in Cursors
  BY <1>2 DEF TraceInv
<1> QED BY <1>1, <1>2, <1>3 DEF TraceInv, Traced

-----------------------------------------------------------------------------
(* The caller. *)

InRegisters(a) == Room(counted[a], Args[a])

(* The eightbytes of argument a are in the registers of their classes from  *)
(* the cursors of the trace on.                                             *)
Holds(a) ==
  LET c == Classify(Args[a]) IN
  \A e \in DOMAIN c :
    /\ c[e] = "INTEGER" => gpRegs[counted[a].gp + Nth(Args[a], e)] = <<a, e>>
    /\ c[e] = "SSE" => fpRegs[counted[a].fp + Nth(Args[a], e)] = <<a, e>>

(* What is done with the arguments before n. *)
StagedBefore(n) ==
  \A a \in 1 .. n - 1 : ~InRegisters(a) => [arg |-> a, off |-> counted[a].size] \in out
LoadedBefore(n) == \A a \in 1 .. n - 1 : InRegisters(a) => Holds(a)
BehindCursors(n) == \A a \in 1 .. n - 1 : counted[a + 1].gp <= gp /\ counted[a + 1].fp <= fp
HiddenLoaded == Hidden => gpRegs[0] = <<0, 1>>

CallerArrives ==
  /\ DOMAIN gpRegs = 0 .. GP_MAX - 1 /\ DOMAIN fpRegs = 0 .. FP_MAX - 1
  /\ phase = "stage" => StagedBefore(i)
  /\ phase \notin {"count", "stage"} => StagedBefore(Len(Args) + 1)
  /\ phase = "load" => LoadedBefore(i) /\ BehindCursors(i) /\ HiddenLoaded /\ gp >= HiddenGp
  /\ phase \notin {"count", "stage", "load"} => LoadedBefore(Len(Args) + 1) /\ HiddenLoaded

(* new is regs with the eightbytes of one class of an argument from the     *)
(* cursor on.                                                               *)
Takes(regs, new, class, cursor, a) ==
  /\ DOMAIN new = DOMAIN regs
  /\ \A r \in DOMAIN regs : r \in Nat /\ r < cursor => new[r] = regs[r]
  /\ \A e \in DOMAIN Classify(Args[a]) :
       Classify(Args[a])[e] = class /\ cursor + Nth(Args[a], e) \in DOMAIN regs
         => new[cursor + Nth(Args[a], e)] = <<a, e>>

(* Loading an argument writes its registers and none before the cursor. *)
LEMMA LoadedRegisters ==
  ASSUME NEW regs, NEW class, NEW cursor \in Nat, NEW a, Args[a] \in Types
  PROVE  Takes(regs, Loaded(regs, class, cursor, a), class, cursor, a)
<1> DEFINE c == Classify(Args[a])
           new == Loaded(regs, class, cursor, a)
           Taking(r) == {e \in DOMAIN c : c[e] = class /\ r = cursor + Nth(Args[a], e)}
<1>1. new = [r \in DOMAIN regs |-> IF Taking(r) = {} THEN regs[r] ELSE <<a, CHOOSE e \in Taking(r) : TRUE>>]
  BY DEF Loaded
<1>2. /\ \A e \in DOMAIN c : Nth(Args[a], e) \in Nat
      /\ \A e, d \in DOMAIN c : c[e] = c[d] /\ Nth(Args[a], e) = Nth(Args[a], d) => e = d
  BY RegistersOfEightbytes
<1> HIDE DEF new, c
<1>3. ASSUME NEW r \in DOMAIN regs, r \in Nat, r < cursor
      PROVE  new[r] = regs[r]
  <2>1. Taking(r) = {}
    BY <1>2, <1>3
  <2> QED BY <1>1, <2>1
<1>4. ASSUME NEW e \in DOMAIN c, c[e] = class, cursor + Nth(Args[a], e) \in DOMAIN regs
      PROVE  new[cursor + Nth(Args[a], e)] = <<a, e>>
  <2>1. ASSUME NEW d \in DOMAIN c, c[d] = class, cursor + Nth(Args[a], e) = cursor + Nth(Args[a], d)
        PROVE  d = e
    <3>1. Nth(Args[a], e) = Nth(Args[a], d)
      BY <1>2, <2>1
    <3> QED BY <1>2, <1>4, <2>1, <3>1
  <2>2. Taking(cursor + Nth(Args[a], e)) = {e}
    BY <1>4, <2>1
  <2> HIDE DEF Taking
  <2> QED BY <1>1, <1>4, <2>2
<1> QED BY <1>1, <1>3, <1>4 DEF c, new, Takes

(* A register taken after the first is among those there is room for. *)
LEMMA WithinRoom ==
  ASSUME NEW first \in Nat, NEW n \in Nat, NEW taken \in Nat, NEW max \in Nat, n < taken, first + taken <= max
  PROVE  first + n \in 0 .. max - 1 /\ first + n < first + taken
OBVIOUS

(* The registers of an argument are those from its cursors to the next. *)
LEMMA RegistersAt ==
  ASSUME TraceInv, phase # "count", NEW a \in 1 .. Len(Args), InRegisters(a)
  PROVE  LET c == Classify(Args[a]) IN
         \A e \in DOMAIN c :
           /\ Nth(Args[a], e) \in Nat
           /\ c[e] = "INTEGER" => /\ counted[a].gp + Nth(Args[a], e) \in 0 .. GP_MAX - 1
                                  /\ counted[a].gp + Nth(Args[a], e) < counted[a + 1].gp
           /\ c[e] = "SSE" => /\ counted[a].fp + Nth(Args[a], e) \in 0 .. FP_MAX - 1
                              /\ counted[a].fp + Nth(Args[a], e) < counted[a + 1].fp
<1> DEFINE c == Classify(Args[a])
<1> SUFFICES ASSUME NEW e \in DOMAIN c
             PROVE  /\ Nth(Args[a], e) \in Nat
                    /\ c[e] = "INTEGER" => /\ counted[a].gp + Nth(Args[a], e) \in 0 .. GP_MAX - 1
                                           /\ counted[a].gp + Nth(Args[a], e) < counted[a + 1].gp
                    /\ c[e] = "SSE" => /\ counted[a].fp + Nth(Args[a], e) \in 0 .. FP_MAX - 1
                                       /\ counted[a].fp + Nth(Args[a], e) < counted[a + 1].fp
  OBVIOUS
<1>1. /\ Args[a] \in Types /\ counted[a] \in Cursors
      /\ counted[a + 1] = After(counted[a], Args[a])
  BY TraceAt
<1>2. /\ counted[a + 1].gp = counted[a].gp + NumGp(Args[a]) /\ counted[a].gp + NumGp(Args[a]) <= GP_MAX
      /\ counted[a + 1].fp = counted[a].fp + NumFp(Args[a]) /\ counted[a].fp + NumFp(Args[a]) <= FP_MAX
  BY <1>1 DEF InRegisters, Room, After
<1>3. Nth(Args[a], e) \in Nat /\ Nth(Args[a], e) < Of(c[e], c)
  BY <1>1, RegistersOfEightbytes
<1>4. NumGp(Args[a]) = Of("INTEGER", c) /\ NumFp(Args[a]) = Of("SSE", c) /\ Of("INTEGER", c) \in Nat /\ Of("SSE", c) \in Nat
  BY OfIsNat DEF NumGp, NumFp
<1>5. counted[a].gp \in Nat /\ counted[a].fp \in Nat /\ GP_MAX \in Nat /\ FP_MAX \in Nat
  BY <1>1, MaximaAreNat DEF Cursors
<1> HIDE DEF c
<1>6. CASE c[e] = "INTEGER"
  <2>1. Nth(Args[a], e) < NumGp(Args[a]) /\ NumGp(Args[a]) \in Nat
    BY <1>3, <1>4, <1>6, Zenon
  <2>2. /\ counted[a].gp + Nth(Args[a], e) \in 0 .. GP_MAX - 1
        /\ counted[a].gp + Nth(Args[a], e) < counted[a].gp + NumGp(Args[a])
    BY <1>2, <1>3, <1>5, <2>1, WithinRoom, Zenon
  <2> QED BY <1>2, <1>3, <1>6, <2>2, Zenon
<1>7. CASE c[e] = "SSE"
  <2>1. Nth(Args[a], e) < NumFp(Args[a]) /\ NumFp(Args[a]) \in Nat
    BY <1>3, <1>4, <1>7, Zenon
  <2>2. /\ counted[a].fp + Nth(Args[a], e) \in 0 .. FP_MAX - 1
        /\ counted[a].fp + Nth(Args[a], e) < counted[a].fp + NumFp(Args[a])
    BY <1>2, <1>3, <1>5, <2>1, WithinRoom, Zenon
  <2> QED BY <1>2, <1>3, <1>7, <2>2, Zenon
<1>8. c[e] \in {"INTEGER", "SSE"} \/ ~(c[e] = "INTEGER" \/ c[e] = "SSE")
  OBVIOUS
<1> QED BY <1>3, <1>6, <1>7, <1>8, Zenon

(* What is said of the caller's work stays true while it is not touched. *)
LEMMA WorkKept ==
  ASSUME UNCHANGED <<call, counted>>
  PROVE  /\ Args' = Args /\ Hidden' = Hidden
         /\ \A a : InRegisters(a)' <=> InRegisters(a)
         /\ UNCHANGED out => \A n : StagedBefore(n) => StagedBefore(n)'
         /\ UNCHANGED <<gpRegs, fpRegs>> => \A a : Holds(a) => Holds(a)'
<1>1. Args' = Args /\ Hidden' = Hidden
  BY DEF Args, Hidden
<1>2. \A a : InRegisters(a)' <=> InRegisters(a)
  BY <1>1 DEF InRegisters
<1>3. UNCHANGED out => \A n : StagedBefore(n) => StagedBefore(n)'
  BY <1>2 DEF StagedBefore
<1>4. UNCHANGED <<gpRegs, fpRegs>> => \A a : Holds(a) => Holds(a)'
  BY <1>1 DEF Holds
<1> QED BY <1>1, <1>2, <1>3, <1>4

(* The second pass stores an argument that is not in registers. *)
LEMMA StageArgArrives ==
  ASSUME CallerInv, TraceInv, CallerArrives, StageArg
  PROVE  CallerArrives'
<1>1. /\ phase = "stage" /\ i <= Len(Args) /\ i' = i + 1 /\ phase' = "stage"
      /\ UNCHANGED <<call, counted, gpRegs, fpRegs>>
  BY DEF StageArg, At
<1>2. i \in 1 .. Len(Args) + 1 /\ counted[i] = Cursor /\ Len(Args) \in Nat
  <2>1. CallerTyped /\ counted[i] = Cursor /\ IsCall(call)
    BY <1>1 DEF CallerInv
  <2> QED BY <2>1 DEF CallerTyped, IsCall, Args
<1>3. InRegisters(i) <=> Fits(Args[i])
  BY <1>2, FitsIsRoom DEF InRegisters
<1>4. ASSUME NEW a \in 1 .. i, ~InRegisters(a)
      PROVE  [arg |-> a, off |-> counted[a].size] \in out'
  <2>1. CASE a = i
    BY <1>2, <1>3, <1>4, <2>1 DEF StageArg, Cursor
  <2>2. CASE a # i
    <3>1. a \in 1 .. i - 1
      BY <1>2, <2>2
    <3>2. [arg |-> a, off |-> counted[a].size] \in out
      BY <1>1, <1>4, <3>1 DEF CallerArrives, StagedBefore
    <3>3. out \subseteq out'
      BY DEF StageArg
    <3> QED BY <3>2, <3>3
  <2> QED BY <2>1, <2>2
<1>5. i' - 1 = i
  BY <1>1, <1>2
<1>6. StagedBefore(i)'
  <2>1. \A a \in 1 .. i' - 1 : ~InRegisters(a) => [arg |-> a, off |-> counted[a].size] \in out'
    BY <1>4, <1>5
  <2> QED BY <1>1, <2>1, WorkKept DEF StagedBefore
<1> QED BY <1>1, <1>6 DEF CallerArrives

(* The third pass loads one that is. *)
LEMMA LoadArgArrives ==
  ASSUME CallerInv, TraceInv, CallerArrives, LoadArg
  PROVE  CallerArrives'
<1>1. /\ phase = "load" /\ i <= Len(Args) /\ i' = i + 1 /\ phase' = "load"
      /\ UNCHANGED <<call, counted, out>>
  BY DEF LoadArg, At
<1>2. /\ i \in 1 .. Len(Args) /\ Len(Args) \in Nat /\ gp \in Nat /\ fp \in Nat
      /\ counted[i].gp = gp /\ counted[i].fp = fp
  <2>1. CallerTyped /\ IsCall(call) /\ counted[i].gp = gp /\ counted[i].fp = fp
    BY <1>1 DEF CallerInv
  <2>2. i \in 1 .. Len(Args) + 1 /\ Len(Args) \in Nat /\ gp \in Nat /\ fp \in Nat
    BY <2>1 DEF CallerTyped, IsCall, Args
  <2> QED BY <1>1, <2>1, <2>2
<1>3. /\ DOMAIN gpRegs = 0 .. GP_MAX - 1 /\ DOMAIN fpRegs = 0 .. FP_MAX - 1
      /\ LoadedBefore(i) /\ BehindCursors(i) /\ HiddenLoaded /\ gp >= HiddenGp
      /\ StagedBefore(Len(Args) + 1)
  BY <1>1 DEF CallerArrives
<1>4. /\ Args[i] \in Types /\ counted[i] \in Cursors /\ counted[i + 1] \in Cursors
      /\ counted[i + 1] = After(counted[i], Args[i])
  BY <1>1, <1>2, TraceAt
<1>5. InRegisters(i) <=> Fits(Args[i])
  BY <1>2 DEF InRegisters, Room, Fits
<1>6. gp' = counted[i + 1].gp /\ fp' = counted[i + 1].fp /\ gp' >= gp /\ fp' >= fp /\ gp' \in Nat /\ fp' \in Nat
  <2>1. NumGp(Args[i]) \in Nat /\ NumFp(Args[i]) \in Nat
    BY OfIsNat DEF NumGp, NumFp
  <2>2. CASE Fits(Args[i])
    <3>1. gp' = gp + NumGp(Args[i]) /\ fp' = fp + NumFp(Args[i])
      BY <2>2 DEF LoadArg, Advance
    <3>2. counted[i + 1].gp = counted[i].gp + NumGp(Args[i]) /\ counted[i + 1].fp = counted[i].fp + NumFp(Args[i])
      BY <1>4, <1>5, <2>2 DEF After, InRegisters
    <3> QED BY <1>2, <2>1, <3>1, <3>2
  <2>3. CASE ~Fits(Args[i])
    <3>1. gp' = gp /\ fp' = fp
      BY <2>3 DEF LoadArg
    <3>2. counted[i + 1].gp = counted[i].gp /\ counted[i + 1].fp = counted[i].fp
      BY <1>4, <1>5, <2>3 DEF After, InRegisters
    <3> QED BY <1>2, <3>1, <3>2
  <2> QED BY <2>2, <2>3
<1>0. Fits(Args[i]) =>
             Takes(gpRegs, gpRegs', "INTEGER", gp, i) /\ Takes(fpRegs, fpRegs', "SSE", fp, i)
  <2>1. /\ Takes(gpRegs, Loaded(gpRegs, "INTEGER", gp, i), "INTEGER", gp, i)
        /\ Takes(fpRegs, Loaded(fpRegs, "SSE", fp, i), "SSE", fp, i)
    BY <1>2, <1>4, LoadedRegisters, Zenon
  <2> QED BY <2>1 DEF LoadArg
<1>7. /\ DOMAIN gpRegs' = DOMAIN gpRegs /\ DOMAIN fpRegs' = DOMAIN fpRegs
      /\ \A r \in DOMAIN gpRegs : r < gp => gpRegs'[r] = gpRegs[r]
      /\ \A r \in DOMAIN fpRegs : r < fp => fpRegs'[r] = fpRegs[r]
  <2>1. CASE Fits(Args[i])
    <3>1. Takes(gpRegs, gpRegs', "INTEGER", gp, i) /\ Takes(fpRegs, fpRegs', "SSE", fp, i)
      BY <1>0, <2>1
    <3>2. \A r : r \in DOMAIN gpRegs \/ r \in DOMAIN fpRegs => r \in Nat
      BY <1>3
    <3> QED BY <3>1, <3>2 DEF Takes
  <2>2. CASE ~Fits(Args[i])
    BY <2>2 DEF LoadArg
  <2> QED BY <2>1, <2>2
<1>8. ASSUME NEW a, a = i, InRegisters(a)
      PROVE  Holds(a)'
  <2> DEFINE c == Classify(Args[a])
  <2>1. Takes(gpRegs, gpRegs', "INTEGER", gp, a) /\ Takes(fpRegs, fpRegs', "SSE", fp, a)
    BY <1>5, <1>8, <1>0
  <2>2. \A e \in DOMAIN c :
          /\ c[e] = "INTEGER" => gp + Nth(Args[a], e) \in DOMAIN gpRegs
          /\ c[e] = "SSE" => fp + Nth(Args[a], e) \in DOMAIN fpRegs
    BY <1>1, <1>2, <1>3, <1>8, RegistersAt
  <2>3. \A e \in DOMAIN c :
          /\ c[e] = "INTEGER" => gpRegs'[gp + Nth(Args[a], e)] = <<a, e>>
          /\ c[e] = "SSE" => fpRegs'[fp + Nth(Args[a], e)] = <<a, e>>
    BY <2>1, <2>2 DEF Takes
  <2> HIDE DEF c
  <2>4. Args' = Args /\ counted'[a].gp = gp /\ counted'[a].fp = fp
    BY <1>1, <1>2, <1>8, WorkKept
  <2> QED BY <2>3, <2>4 DEF Holds, c
<1>9. ASSUME NEW a \in 1 .. i - 1, InRegisters(a)
      PROVE  Holds(a)'
  <2> DEFINE c == Classify(Args[a])
  <2>1. a \in 1 .. Len(Args)
    BY <1>2
  <2>2. counted[a + 1].gp <= gp /\ counted[a + 1].fp <= fp /\ counted[a] \in Cursors /\ counted[a + 1] \in Cursors
    BY <1>1, <1>3, <2>1, TraceAt DEF BehindCursors
  <2>3. counted[a + 1].gp \in Nat /\ counted[a + 1].fp \in Nat /\ counted[a].gp \in Nat /\ counted[a].fp \in Nat
    BY <2>2 DEF Cursors
  <2>4. Holds(a)
    BY <1>3, <1>9 DEF LoadedBefore
  <2>5. ASSUME NEW e \in DOMAIN c
        PROVE  /\ c[e] = "INTEGER" => gpRegs'[counted[a].gp + Nth(Args[a], e)] = <<a, e>>
               /\ c[e] = "SSE" => fpRegs'[counted[a].fp + Nth(Args[a], e)] = <<a, e>>
    <3>1. /\ Nth(Args[a], e) \in Nat
          /\ c[e] = "INTEGER" => /\ counted[a].gp + Nth(Args[a], e) \in DOMAIN gpRegs
                                 /\ counted[a].gp + Nth(Args[a], e) < counted[a + 1].gp
          /\ c[e] = "SSE" => /\ counted[a].fp + Nth(Args[a], e) \in DOMAIN fpRegs
                             /\ counted[a].fp + Nth(Args[a], e) < counted[a + 1].fp
      BY <1>1, <1>3, <1>9, <2>1, RegistersAt
    <3> HIDE DEF c
    <3>2. CASE c[e] = "INTEGER"
      <4>1. counted[a].gp + Nth(Args[a], e) < gp
        BY <1>2, <2>2, <2>3, <3>1, <3>2
      <4>2. gpRegs'[counted[a].gp + Nth(Args[a], e)] = gpRegs[counted[a].gp + Nth(Args[a], e)]
        BY <1>7, <3>1, <3>2, <4>1
      <4> QED BY <2>4, <3>2, <4>2 DEF Holds, c
    <3>3. CASE c[e] = "SSE"
      <4>1. counted[a].fp + Nth(Args[a], e) < fp
        BY <1>2, <2>2, <2>3, <3>1, <3>3
      <4>2. fpRegs'[counted[a].fp + Nth(Args[a], e)] = fpRegs[counted[a].fp + Nth(Args[a], e)]
        BY <1>7, <3>1, <3>3, <4>1
      <4> QED BY <2>4, <3>3, <4>2 DEF Holds, c
    <3> QED BY <3>2, <3>3
  <2>6. Args' = Args
    BY <1>1, WorkKept
  <2> HIDE DEF c
  <2> QED BY <1>1, <2>5, <2>6 DEF Holds, c
<1>10. LoadedBefore(i)'
  <2>1. \A a \in 1 .. i' - 1 : a \in 1 .. i - 1 \/ a = i
    BY <1>1, <1>2
  <2>2. \A a \in 1 .. i' - 1 : InRegisters(a) => Holds(a)'
    BY <1>8, <1>9, <2>1
  <2> QED BY <1>1, <2>2, WorkKept DEF LoadedBefore
<1>11. BehindCursors(i)'
  <2> SUFFICES ASSUME NEW a \in 1 .. i' - 1 PROVE counted[a + 1].gp <= gp' /\ counted[a + 1].fp <= fp'
    BY <1>1 DEF BehindCursors
  <2>1. CASE a = i
    BY <1>6, <2>1
  <2>2. CASE a # i
    <3>1. a \in 1 .. i - 1 /\ a \in 1 .. Len(Args)
      BY <1>1, <1>2, <2>2
    <3>2. counted[a + 1].gp <= gp /\ counted[a + 1].fp <= fp /\ counted[a + 1] \in Cursors
      BY <1>1, <1>3, <3>1, TraceAt DEF BehindCursors
    <3>3. counted[a + 1].gp \in Nat /\ counted[a + 1].fp \in Nat
      BY <3>2 DEF Cursors
    <3>4. \A x, y, z \in Nat : x <= y /\ z >= y => x <= z
      OBVIOUS
    <3>5. counted[a + 1].gp <= gp'
      BY <1>2, <1>6, <3>2, <3>3, <3>4, Zenon
    <3>6. counted[a + 1].fp <= fp'
      BY <1>2, <1>6, <3>2, <3>3, <3>4, Zenon
    <3> QED BY <3>5, <3>6
  <2> QED BY <2>1, <2>2
<1>12. HiddenLoaded' /\ gp' >= HiddenGp'
  <2>1. Hidden' = Hidden /\ HiddenGp' = HiddenGp
    BY <1>1, WorkKept DEF HiddenGp
  <2>2. HiddenGp \in Nat /\ (Hidden => HiddenGp = 1)
    BY DEF HiddenGp
  <2>3. gp' >= HiddenGp
    BY <1>2, <1>3, <1>6, <2>2
  <2>4. Hidden => 0 \in DOMAIN gpRegs /\ 0 < gp
    BY <1>2, <1>3, <2>2, MaximaAreNat
  <2> QED BY <1>3, <1>7, <2>1, <2>3, <2>4 DEF HiddenLoaded
<1>13. StagedBefore(Len(Args) + 1)' /\ Args' = Args
  BY <1>1, <1>3, WorkKept DEF StagedBefore
<1> QED BY <1>1, <1>3, <1>7, <1>10, <1>11, <1>12, <1>13 DEF CallerArrives

LEMMA CallerArrivesAtStart == Init => CallerArrives
BY DEF Init, CallerArrives

LEMMA CallerArrivesNext ==
  CallerInv /\ TraceInv /\ CallerArrives /\ [Next]_vars => CallerArrives'
<1> SUFFICES ASSUME CallerInv, TraceInv, CallerArrives, [Next]_vars PROVE CallerArrives'
  OBVIOUS
<1>1. CASE CountArg
  <2>1. phase = "count" /\ phase' = "count" /\ UNCHANGED <<gpRegs, fpRegs>>
    BY <1>1 DEF CountArg, At
  <2> QED BY <2>1 DEF CallerArrives
<1>2. CASE Reserve
  <2>1. phase' = "stage" /\ i' = 1 /\ UNCHANGED <<gpRegs, fpRegs>>
    BY <1>2 DEF Reserve, Loop
  <2>2. StagedBefore(1)'
    BY DEF StagedBefore
  <2>3. StagedBefore(i)'
    BY <2>1, <2>2 DEF StagedBefore
  <2> QED BY <2>1, <2>3 DEF CallerArrives
<1>3. CASE StageArg
  BY <1>3, StageArgArrives
<1>4. CASE LoadHidden
  <2>1. /\ phase = "stage" /\ i = Len(Args) + 1 /\ phase' = "load" /\ i' = 1 /\ gp' = HiddenGp
        /\ UNCHANGED <<call, counted, out, fpRegs>>
        /\ gpRegs' = IF Hidden THEN [gpRegs EXCEPT ![0] = <<0, 1>>] ELSE gpRegs
    BY <1>4 DEF LoadHidden, Past, Loop
  <2>2. StagedBefore(Len(Args) + 1)
    BY <2>1 DEF CallerArrives
  <2>3. StagedBefore(Len(Args) + 1)'
    BY <2>1, <2>2, WorkKept DEF StagedBefore
  <2>4. LoadedBefore(i)' /\ BehindCursors(i)'
    BY <2>1 DEF LoadedBefore, BehindCursors
  <2>5. HiddenGp' = HiddenGp /\ Hidden' = Hidden /\ HiddenGp \in Nat
    BY <2>1, WorkKept DEF HiddenGp
  <2>6. DOMAIN gpRegs' = DOMAIN gpRegs /\ HiddenLoaded'
    <3>1. 0 \in DOMAIN gpRegs
      BY MaximaAreNat DEF CallerArrives
    <3> QED BY <2>1, <2>5, <3>1 DEF HiddenLoaded
  <2> QED BY <2>1, <2>3, <2>4, <2>5, <2>6 DEF CallerArrives
<1>5. CASE LoadArg
  BY <1>5, LoadArgArrives
<1>6. ASSUME phase \notin {"count", "stage"}, phase' \notin {"count", "stage", "load"},
             UNCHANGED <<gpRegs, fpRegs, out>>,
             phase = "load" => i = Len(Args) + 1
      PROVE  CallerArrives'
  <2>1. UNCHANGED <<call, counted>>
    BY <1>6, TraceStays
  <2>2. StagedBefore(Len(Args) + 1) /\ LoadedBefore(Len(Args) + 1) /\ HiddenLoaded
    BY <1>6 DEF CallerArrives
  <2>3. StagedBefore(Len(Args) + 1)' /\ LoadedBefore(Len(Args) + 1)' /\ HiddenLoaded'
    BY <1>6, <2>1, <2>2, WorkKept DEF HiddenLoaded, StagedBefore, LoadedBefore
  <2> QED BY <1>6, <2>3 DEF CallerArrives
<1>7. CASE EmitCall
  <2>1. phase = "load" /\ i = Len(Args) + 1 /\ phase' = "place" /\ UNCHANGED <<gpRegs, fpRegs, out>>
    BY <1>7 DEF EmitCall, Past, Loop
  <2> QED BY <1>6, <2>1
<1>8. CASE PlaceParam \/ PlaceLocals \/ PlaceLocal \/ InitVaList \/ EnterBody \/ VaArg
  <2>1. phase \in {"place", "locals", "save", "body"} /\ phase' \in {"place", "locals", "save", "body"}
    BY <1>8 DEF PlaceParam, PlaceLocals, PlaceLocal, InitVaList, EnterBody, VaArg, At, Past, Loop
  <2>2. UNCHANGED <<gpRegs, fpRegs, out>>
    BY <1>8 DEF PlaceParam, PlaceLocals, PlaceLocal, InitVaList, EnterBody, VaArg, caller
  <2> QED BY <1>6, <2>1, <2>2
<1>9. CASE SaveParam
  <2>1. phase = "save" /\ phase' \in {"save", "internal error"} /\ UNCHANGED <<gpRegs, fpRegs, out>>
    BY <1>9 DEF SaveParam, At, caller
  <2> QED BY <1>6, <2>1
<1>10. CASE UNCHANGED vars
  <2>1. UNCHANGED <<call, counted, phase, i, gp, fp, gpRegs, fpRegs, out>>
    BY <1>10 DEF vars, caller
  <2>2. Args' = Args /\ HiddenGp' = HiddenGp /\ Hidden' = Hidden
    BY <2>1, WorkKept DEF HiddenGp
  <2>3. (StagedBefore(i) => StagedBefore(i)') /\ (LoadedBefore(i) => LoadedBefore(i)')
    BY <2>1, WorkKept DEF StagedBefore, LoadedBefore
  <2>4. StagedBefore(Len(Args) + 1) => StagedBefore(Len(Args) + 1)'
    BY <2>1, <2>2, WorkKept DEF StagedBefore
  <2>5. LoadedBefore(Len(Args) + 1) => LoadedBefore(Len(Args) + 1)'
    BY <2>1, <2>2, WorkKept DEF LoadedBefore
  <2>6. (BehindCursors(i) => BehindCursors(i)') /\ (HiddenLoaded => HiddenLoaded')
    BY <2>1, <2>2 DEF BehindCursors, HiddenLoaded
  <2> QED BY <2>1, <2>2, <2>3, <2>4, <2>5, <2>6 DEF CallerArrives
<1> QED BY <1>1, <1>2, <1>3, <1>4, <1>5, <1>7, <1>8, <1>9, <1>10 DEF Next, Stopped

-----------------------------------------------------------------------------
(* The callee's parameters. *)

(* Where the trace is at a parameter: the hidden pointer is first. *)
CalleeAt(p) == IF Hidden /\ p = 1 THEN [gp |-> 0, fp |-> 0, size |-> 0] ELSE counted[p - HiddenGp]
ParamInRegisters(p) == Room(CalleeAt(p), Params[p].ty)

(* A pointer takes a register. *)
LEMMA PointerInRegister ==
  /\ Classify(Pointer) = <<"INTEGER">> /\ NumGp(Pointer) = 1 /\ NumFp(Pointer) = 0
  /\ Nth(Pointer, 1) = 0
  /\ Room([gp |-> 0, fp |-> 0, size |-> 0], Pointer)
  /\ After([gp |-> 0, fp |-> 0, size |-> 0], Pointer) = [gp |-> 1, fp |-> 0, size |-> 0]
<1>1. Classify(Pointer) = <<"INTEGER">>
  BY DEF Classify, Pointer
<1>2. NumGp(Pointer) = 1 /\ NumFp(Pointer) = 0
  BY <1>1, OfOne DEF NumGp, NumFp
<1>3. Nth(Pointer, 1) = 0
  <2>1. SubSeq(<<"INTEGER">>, 1, 1 - 1) = <<>>
    OBVIOUS
  <2> QED BY <1>1, <2>1, OfOne DEF Nth
<1>4. ~X87(Pointer)
  BY <1>1 DEF X87
<1>5. Room([gp |-> 0, fp |-> 0, size |-> 0], Pointer)
  BY <1>1, <1>2, <1>4, MaximaAreNat DEF Room
<1>6. After([gp |-> 0, fp |-> 0, size |-> 0], Pointer) = [gp |-> 1, fp |-> 0, size |-> 0]
  BY <1>2, <1>5 DEF After
<1> QED BY <1>1, <1>2, <1>3, <1>5, <1>6

(* The parameters are the hidden pointer and the named arguments. *)
LEMMA ParamsAre ==
  ASSUME IsCall(call)
  PROVE  /\ Len(Params) = call.named + HiddenGp /\ DOMAIN Params = 1 .. Len(Params)
         /\ HiddenGp \in {0, 1} /\ (Hidden <=> HiddenGp = 1)
         /\ Hidden => Params[1] = [arg |-> 0, ty |-> Pointer]
         /\ \A a \in 1 .. call.named : Params[a + HiddenGp] = [arg |-> a, ty |-> Args[a]]
<1> DEFINE h == [arg |-> 0, ty |-> Pointer]
           named == [a \in 1 .. call.named |-> [arg |-> a, ty |-> Args[a]]]
<1>1. call.named \in Nat
  BY DEF IsCall
<1>2. HiddenGp \in {0, 1} /\ (Hidden <=> HiddenGp = 1)
  BY DEF HiddenGp
<1>3. named \in Seq({named[a] : a \in 1 .. call.named}) /\ Len(named) = call.named
  <2> DEFINE S == {named[a] : a \in 1 .. call.named}
  <2>1. named \in [1 .. call.named -> S]
    OBVIOUS
  <2> HIDE DEF named, S
  <2> QED BY <1>1, <2>1
<1>4. Params = (IF Hidden THEN <<h>> ELSE <<>>) \o named
  BY DEF Params
<1>5. \A a \in 1 .. call.named : named[a] = [arg |-> a, ty |-> Args[a]]
  OBVIOUS
<1> HIDE DEF named, h
<1>6. CASE Hidden
  <2>1. Params = <<h>> \o named
    BY <1>4, <1>6
  <2> DEFINE S == {named[a] : a \in 1 .. call.named} \cup {h}
  <2>2. named \in Seq(S) /\ <<h>> \in Seq(S) /\ Len(<<h>>) = 1 /\ <<h>>[1] = h
    BY <1>1, <1>3
  <2> HIDE DEF S
  <2>3. Params \in Seq(S) /\ Len(Params) = 1 + call.named /\ Params[1] = h
    BY <1>1, <1>3, <2>1, <2>2
  <2>4. \A a \in 1 .. call.named : Params[a + 1] = named[a]
    BY <1>1, <1>3, <2>1, <2>2
  <2> QED BY <1>1, <1>2, <1>5, <1>6, <2>3, <2>4 DEF h
<1>7. CASE ~Hidden
  <2>1. Params = named
    BY <1>3, <1>4, <1>7
  <2>2. DOMAIN named = 1 .. call.named
    BY <1>1, <1>3
  <2>3. HiddenGp = 0 /\ \A a \in 1 .. call.named : a + HiddenGp = a
    BY <1>1, <1>2, <1>7
  <2> QED BY <1>1, <1>2, <1>3, <1>5, <1>7, <2>1, <2>2, <2>3
<1> QED BY <1>6, <1>7

(* What the trace says of a parameter: the same as of its argument. *)
LEMMA TraceAtParam ==
  ASSUME TraceInv, phase # "count", NEW p \in DOMAIN Params
  PROVE  /\ p \in Nat /\ p \in 1 .. Len(Params) /\ Len(Params) \in Nat
         /\ Params[p].ty \in Types /\ CalleeAt(p) \in Cursors /\ CalleeAt(p + 1) \in Cursors
         /\ CalleeAt(p + 1) = After(CalleeAt(p), Params[p].ty)
         /\ \/ Hidden /\ p = 1 /\ Params[p].ty = Pointer /\ Params[p].arg = 0 /\ ParamInRegisters(p)
            \/ \E a \in 1 .. call.named :
                 /\ p = a + HiddenGp /\ Params[p].arg = a /\ Params[p].ty = Args[a]
                 /\ CalleeAt(p) = counted[a] /\ CalleeAt(p + 1) = counted[a + 1]
<1>1. IsCall(call) /\ call.named \in Nat /\ call.named <= Len(Args) /\ Len(Args) \in Nat
  BY DEF TraceInv, IsCall, Args
<1>2. /\ Len(Params) = call.named + HiddenGp /\ DOMAIN Params = 1 .. Len(Params)
      /\ HiddenGp \in {0, 1} /\ (Hidden <=> HiddenGp = 1)
      /\ Hidden => Params[1] = [arg |-> 0, ty |-> Pointer]
      /\ \A a \in 1 .. call.named : Params[a + HiddenGp] = [arg |-> a, ty |-> Args[a]]
  BY <1>1, ParamsAre
<1>3. p \in Nat /\ p >= 1 /\ p <= Len(Params) /\ Len(Params) \in Nat
  BY <1>1, <1>2
<1>4. counted[1] = [gp |-> HiddenGp, fp |-> 0, size |-> 0]
  BY DEF TraceInv, Traced
<1>5. CASE Hidden /\ p = 1
  <2>1. CalleeAt(p) = [gp |-> 0, fp |-> 0, size |-> 0] /\ Params[p].ty = Pointer /\ Params[p].arg = 0
    BY <1>2, <1>5 DEF CalleeAt
  <2>2. CalleeAt(p + 1) = [gp |-> 1, fp |-> 0, size |-> 0]
    BY <1>2, <1>4, <1>5 DEF CalleeAt
  <2>3. CalleeAt(p) \in Cursors /\ CalleeAt(p + 1) \in Cursors
    BY <2>1, <2>2 DEF Cursors
  <2>4. Pointer \in Types
    <3>1. [class |-> "INTEGER", off |-> 0, size |-> 8, align |-> 8] \in Leaves
      BY DEF Leaves, Classes
    <3> QED BY <3>1 DEF Pointer, Types
  <2> QED BY <1>3, <1>5, <2>1, <2>2, <2>3, <2>4, PointerInRegister DEF ParamInRegisters
<1>6. CASE ~(Hidden /\ p = 1)
  <2>1. p - HiddenGp \in 1 .. call.named
    BY <1>1, <1>2, <1>3, <1>6
  <2>2. PICK a \in 1 .. call.named : p = a + HiddenGp
    BY <1>1, <1>2, <1>3, <2>1
  <2>3. a \in 1 .. Len(Args) /\ p - HiddenGp = a /\ (p + 1) - HiddenGp = a + 1 /\ p + 1 # 1 /\ a \in Nat
    BY <1>1, <1>2, <1>3, <2>2
  <2>4. CalleeAt(p) = counted[a] /\ CalleeAt(p + 1) = counted[a + 1]
    BY <1>6, <2>3 DEF CalleeAt
  <2>5. Params[p].arg = a /\ Params[p].ty = Args[a]
    <3>1. Params[a + HiddenGp] = [arg |-> a, ty |-> Args[a]]
      BY <1>2, <2>2, Zenon
    <3>2. Params[p] = [arg |-> a, ty |-> Args[a]]
      BY <2>2, <3>1, Zenon
    <3> QED BY <3>2
  <2>6. /\ Args[a] \in Types /\ counted[a] \in Cursors /\ counted[a + 1] \in Cursors
        /\ counted[a + 1] = After(counted[a], Args[a])
    BY <2>3, TraceAt
  <2>7. p \in 1 .. Len(Params)
    BY <1>3
  <2>8. /\ Params[p].ty \in Types /\ CalleeAt(p) \in Cursors /\ CalleeAt(p + 1) \in Cursors
        /\ CalleeAt(p + 1) = After(CalleeAt(p), Params[p].ty)
    BY <2>4, <2>5, <2>6
  <2> QED BY <1>3, <2>2, <2>4, <2>5, <2>7, <2>8
<1> QED BY <1>5, <1>6

(* What the caller leaves for parameter p. *)
Passed(p) ==
  LET c == Classify(Params[p].ty) IN
  IF ParamInRegisters(p)
  THEN \A e \in DOMAIN c :
         /\ Nth(Params[p].ty, e) \in Nat
         /\ c[e] = "INTEGER" => /\ CalleeAt(p).gp + Nth(Params[p].ty, e) < GP_MAX
                                /\ gpRegs[CalleeAt(p).gp + Nth(Params[p].ty, e)] = <<Params[p].arg, e>>
         /\ c[e] = "SSE" => /\ CalleeAt(p).fp + Nth(Params[p].ty, e) < FP_MAX
                            /\ fpRegs[CalleeAt(p).fp + Nth(Params[p].ty, e)] = <<Params[p].arg, e>>
  ELSE [arg |-> Params[p].arg, off |-> CalleeAt(p).size] \in out

(* When the call is made, every parameter is passed. *)
LEMMA AllPassed ==
  ASSUME TraceInv, CallerArrives, phase \notin {"count", "stage", "load"}, NEW p \in DOMAIN Params
  PROVE  Passed(p)
<1>1. StagedBefore(Len(Args) + 1) /\ LoadedBefore(Len(Args) + 1) /\ HiddenLoaded
  BY DEF CallerArrives
<1>2. phase # "count"
  OBVIOUS
<1>3. CASE Hidden /\ p = 1 /\ Params[p].ty = Pointer /\ Params[p].arg = 0 /\ ParamInRegisters(p)
  <2>1. CalleeAt(p) = [gp |-> 0, fp |-> 0, size |-> 0]
    BY <1>3 DEF CalleeAt
  <2>2. gpRegs[0] = <<0, 1>> /\ 0 < GP_MAX
    BY <1>1, <1>3, MaximaAreNat DEF HiddenLoaded
  <2>3. \A e \in DOMAIN Classify(Pointer) : e = 1 /\ Classify(Pointer)[e] = "INTEGER" /\ Nth(Pointer, e) = 0
    BY PointerInRegister
  <2> QED BY <1>3, <2>1, <2>2, <2>3 DEF Passed
<1>4. ASSUME NEW a \in 1 .. call.named, Params[p].arg = a, Params[p].ty = Args[a], CalleeAt(p) = counted[a]
      PROVE  Passed(p)
  <2>1. a \in 1 .. Len(Args) /\ a \in 1 .. (Len(Args) + 1) - 1
    <3>1. call.named \in Nat /\ call.named <= Len(Args) /\ Len(Args) \in Nat
      BY <1>2 DEF TraceInv, IsCall, Args
    <3> QED BY <3>1
  <2>2. ParamInRegisters(p) <=> InRegisters(a)
    BY <1>4 DEF ParamInRegisters, InRegisters
  <2>3. CASE InRegisters(a)
    <3>1. Holds(a)
      BY <1>1, <2>1, <2>3 DEF LoadedBefore
    <3> DEFINE c == Classify(Args[a])
    <3>2. \A e \in DOMAIN c :
           /\ Nth(Args[a], e) \in Nat
           /\ c[e] = "INTEGER" => counted[a].gp + Nth(Args[a], e) \in 0 .. GP_MAX - 1
           /\ c[e] = "SSE" => counted[a].fp + Nth(Args[a], e) \in 0 .. FP_MAX - 1
      BY <1>2, <2>1, <2>3, RegistersAt
    <3>3. \A r : (r \in 0 .. GP_MAX - 1 => r < GP_MAX) /\ (r \in 0 .. FP_MAX - 1 => r < FP_MAX)
      BY MaximaAreNat
    <3>4. \A e \in DOMAIN c :
           /\ Nth(Args[a], e) \in Nat
           /\ c[e] = "INTEGER" => /\ counted[a].gp + Nth(Args[a], e) < GP_MAX
                                  /\ gpRegs[counted[a].gp + Nth(Args[a], e)] = <<a, e>>
           /\ c[e] = "SSE" => /\ counted[a].fp + Nth(Args[a], e) < FP_MAX
                              /\ fpRegs[counted[a].fp + Nth(Args[a], e)] = <<a, e>>
      BY <3>1, <3>2, <3>3 DEF Holds
    <3> QED BY <1>4, <2>2, <2>3, <3>4 DEF Passed
  <2>4. CASE ~InRegisters(a)
    <3>1. [arg |-> a, off |-> counted[a].size] \in out
      BY <1>1, <2>1, <2>4 DEF StagedBefore
    <3> QED BY <1>4, <2>2, <2>4, <3>1 DEF Passed
  <2> QED BY <2>3, <2>4
<1> QED BY <1>2, <1>3, <1>4, TraceAtParam

-----------------------------------------------------------------------------
(* The callee. *)

(* Every named argument has a size, and one on the stack that asks for more *)
(* than the alignment of the stack's slots happens to have it: the caller    *)
(* aligns nothing.                                                          *)
Deliverable ==
  \A p \in DOMAIN Params :
    /\ Params[p].ty.size > 0
    /\ ~ParamInRegisters(p) /\ Params[p].ty.align > 8 =>
         (16 + CalleeAt(p).size) % Params[p].ty.align = 0

(* A parameter on the stack is looked for where the trace says. *)
StackHome(p) == 16 + CalleeAt(p).size

AtTrace == gp = CalleeAt(i).gp /\ fp = CalleeAt(i).fp

SavedBefore(n) ==
  \A p \in DOMAIN Params : p < n /\ ParamInRegisters(p) =>
    \A e \in DOMAIN Classify(Params[p].ty) : home[p][e] = <<Params[p].arg, e>>

(* The layout: of the parameters before i; of all, when the locals are done  *)
(* up to i; when they are all done.                                         *)
Placing ==
  /\ AtTrace /\ top = StackHome(i) /\ top % 8 = 0
  /\ \A p \in DOMAIN Params :
       offset[LocalOfParam(p)] = IF p < i /\ ~ParamInRegisters(p) THEN StackHome(p) ELSE 0
LayingOut(n) ==
  \A p \in DOMAIN Params :
    IF ParamInRegisters(p)
    THEN offset[LocalOfParam(p)] <= 0 /\ (LocalOfParam(p) < n => offset[LocalOfParam(p)] < 0)
    ELSE offset[LocalOfParam(p)] = StackHome(p)

CalleeArrives ==
  /\ DOMAIN home = DOMAIN Params
  /\ phase \in {"count", "stage", "load"} => top = 16 /\ \A l \in DOMAIN Locals : offset[l] = 0
  /\ phase \notin {"count", "stage", "load"} /\ Deliverable =>
       /\ phase = "place" => i \in 1 .. Len(Params) + 1 /\ Placing
       /\ phase = "locals" => LayingOut(i)
       /\ phase \in {"save", "body"} => LayingOut(Len(Locals) + 1)
       /\ phase = "save" => i \in 1 .. Len(Params) + 1 /\ AtTrace /\ SavedBefore(i)
       /\ phase = "body" => SavedBefore(Len(Params) + 1)

(* The parameters are the last locals. *)
LEMMA LocalOfParamIs ==
  ASSUME IsCall(call)
  PROVE  /\ Len(Locals) \in Nat /\ DOMAIN Locals = 1 .. Len(Locals) /\ Len(Params) \in Nat /\ Len(Params) < Len(Locals)
         /\ \A p \in DOMAIN Params : p \in Nat /\ LocalOfParam(p) \in DOMAIN Locals /\ LocalOfParam(p) = (Len(Locals) - Len(Params)) + p
<1>1. DOMAIN Params = 1 .. Len(Params) /\ Len(Params) \in Nat
  BY ParamsTyped
<1>2. Locals \in Seq(Sizes) /\ Len(Locals) > Len(Params)
  BY LocalsTyped
<1>3. Len(Locals) \in Nat /\ DOMAIN Locals = 1 .. Len(Locals)
  BY <1>2
<1> QED BY <1>1, <1>2, <1>3 DEF LocalOfParam

(* Rounding up keeps what is a multiple. *)
LEMMA AlignToKeeps ==
  ASSUME NEW n \in Nat, NEW a \in Nat \ {0}, n % a = 0
  PROVE  AlignTo(n, a) = n
<1> DEFINE q == n \div a
           d == (n + a - 1) \div a
           r == (n + a - 1) % a
<1>1. q \in Nat /\ n = a * q
  OBVIOUS
<1>2. d \in Nat /\ r \in 0 .. a - 1 /\ n + a - 1 = (a * d) + r
  OBVIOUS
<1> HIDE DEF q, d, r
<1>3. a * (q - d) = r - (a - 1)
  BY <1>1, <1>2
<1>4. CASE q - d >= 1
  <2>1. a * (q - d) >= a
    BY <1>1, <1>2, <1>4
  <2> QED BY <1>2, <1>3, <2>1
<1>5. CASE q - d <= -1
  <2>1. a * (q - d) <= -a
    BY <1>1, <1>2, <1>5
  <2> QED BY <1>2, <1>3, <2>1
<1>6. CASE q = d
  BY <1>1, <1>6 DEF AlignTo, d
<1> QED BY <1>1, <1>2, <1>4, <1>5, <1>6

(* Rounding up yields a multiple of eight. *)
LEMMA SumOfEights ==
  ASSUME NEW t \in Nat, t % 8 = 0, NEW n \in Nat
  PROVE  (t + AlignTo(n, 8)) % 8 = 0 /\ AlignTo(n, 8) \in Nat
<1>1. AlignTo(n, 8) \in Nat
  BY AlignToIsAbove
<1> DEFINE q == (n + 8 - 1) \div 8
<1>2. q \in Nat /\ AlignTo(n, 8) = q * 8
  BY DEF AlignTo
<1> HIDE DEF q
<1>3. (t + (q * 8)) % 8 = 0
  BY <1>2
<1> QED BY <1>1, <1>2, <1>3

(* What is said of the parameters stays true while the trace does. *)
LEMMA CalleeKept ==
  ASSUME UNCHANGED <<call, counted>>
  PROVE  /\ Params' = Params /\ Locals' = Locals /\ HiddenGp' = HiddenGp
         /\ \A p : /\ CalleeAt(p)' = CalleeAt(p) /\ (ParamInRegisters(p)' <=> ParamInRegisters(p))
                   /\ StackHome(p)' = StackHome(p) /\ LocalOfParam(p)' = LocalOfParam(p)
         /\ Deliverable' <=> Deliverable
<1>1. Params' = Params /\ HiddenGp' = HiddenGp /\ Hidden' = Hidden
  BY DEF Params, HiddenGp, Hidden, Args
<1>2. Locals' = Locals
  BY SameLocals
<1>3. \A p : CalleeAt(p)' = CalleeAt(p)
  BY <1>1 DEF CalleeAt
<1>4. \A p : ParamInRegisters(p)' <=> ParamInRegisters(p)
  BY <1>1, <1>3 DEF ParamInRegisters
<1>5. \A p : StackHome(p)' = StackHome(p)
  BY <1>3 DEF StackHome
<1>6. \A p : LocalOfParam(p)' = LocalOfParam(p)
  BY <1>1, <1>2 DEF LocalOfParam
<1>7. Deliverable' <=> Deliverable
  BY <1>1, <1>3, <1>4 DEF Deliverable
<1> QED BY <1>1, <1>2, <1>3, <1>4, <1>5, <1>6, <1>7

(* The layout of a parameter on the stack is where the caller stored it. *)
LEMMA PlaceParamArrives ==
  ASSUME TraceInv, FrameInv, PlaceParam, Deliverable, i \in 1 .. Len(Params) + 1, Placing
  PROVE  i' \in 1 .. Len(Params) + 1 /\ Placing'
<1> DEFINE ty == Params[i].ty
           at == AlignTo(top, AtLeast8(ty.align))
<1>1. phase = "place" /\ i <= Len(Params) /\ i' = i + 1 /\ UNCHANGED <<call, counted>>
  BY DEF PlaceParam, At, caller
<1>2. /\ Len(Params) \in Nat /\ i \in Nat /\ DOMAIN Params = 1 .. Len(Params) /\ IsCall(call)
  BY <1>1, ParamsTyped DEF FrameInv, FrameTyped
<1>3. i \in DOMAIN Params
  BY <1>1, <1>2
<1>4. /\ ty \in Types /\ CalleeAt(i) \in Cursors /\ CalleeAt(i + 1) \in Cursors
      /\ CalleeAt(i + 1) = After(CalleeAt(i), ty)
  BY <1>1, <1>3, TraceAtParam
<1>5. gp = CalleeAt(i).gp /\ fp = CalleeAt(i).fp /\ top = 16 + CalleeAt(i).size /\ top % 8 = 0
  BY DEF Placing, AtTrace, StackHome
<1>6. FitsParam(ty) <=> ParamInRegisters(i)
  BY <1>5 DEF FitsParam, ParamInRegisters, Room
<1>7. CalleeAt(i).size \in Nat /\ ty.size \in Nat /\ ty.align \in Nat \ {0} /\ top \in Nat
  <2>1. CalleeAt(i).size \in Nat
    BY <1>4 DEF Cursors
  <2>2. ty.size \in Nat /\ ty.align \in Nat \ {0}
    BY <1>4 DEF Types
  <2> QED BY <1>5, <2>1, <2>2
<1>8. ~FitsParam(ty) => at = top
  <2> SUFFICES ASSUME ~FitsParam(ty) PROVE at = top
    OBVIOUS
  <2>1. ty.align > 8 => top % ty.align = 0
    BY <1>3, <1>5, <1>6 DEF Deliverable
  <2>2. AtLeast8(ty.align) \in Nat \ {0} /\ top % AtLeast8(ty.align) = 0
    <3> HIDE DEF ty
    <3>1. CASE ty.align > 8
      BY <1>7, <2>1, <3>1 DEF AtLeast8
    <3>2. CASE ty.align <= 8
      <4>1. AtLeast8(ty.align) = 8
        BY <1>7, <3>2 DEF AtLeast8
      <4> QED BY <1>5, <4>1
    <3> QED BY <1>7, <3>1, <3>2
  <2> QED BY <1>7, <2>2, AlignToKeeps
<1>9. \/ FitsParam(ty) /\ Advance(ty) /\ UNCHANGED <<top, offset>>
      \/ /\ ~FitsParam(ty)
         /\ offset' = [offset EXCEPT ![LocalOfParam(i)] = at]
         /\ top' = at + AlignTo(ty.size, 8)
         /\ UNCHANGED <<gp, fp>>
  BY DEF PlaceParam
<1> HIDE DEF ty, at
<1>10. /\ gp' = CalleeAt(i + 1).gp /\ fp' = CalleeAt(i + 1).fp
       /\ top' = 16 + CalleeAt(i + 1).size /\ top' % 8 = 0
  <2>1. CASE FitsParam(ty)
    <3>1. /\ CalleeAt(i + 1).gp = CalleeAt(i).gp + NumGp(ty) /\ CalleeAt(i + 1).fp = CalleeAt(i).fp + NumFp(ty)
          /\ CalleeAt(i + 1).size = CalleeAt(i).size
      BY <1>4, <1>6, <2>1 DEF After, ParamInRegisters, ty
    <3>2. gp' = gp + NumGp(ty) /\ fp' = fp + NumFp(ty) /\ top' = top
      BY <1>9, <2>1 DEF Advance
    <3> QED BY <1>5, <3>1, <3>2
  <2>2. CASE ~FitsParam(ty)
    <3>1. /\ CalleeAt(i + 1).gp = CalleeAt(i).gp /\ CalleeAt(i + 1).fp = CalleeAt(i).fp
          /\ CalleeAt(i + 1).size = CalleeAt(i).size + AlignTo(ty.size, 8)
      BY <1>4, <1>6, <2>2 DEF After, ParamInRegisters, ty
    <3>2. gp' = gp /\ fp' = fp /\ top' = top + AlignTo(ty.size, 8)
      BY <1>8, <1>9, <2>2
    <3>3. (top + AlignTo(ty.size, 8)) % 8 = 0 /\ AlignTo(ty.size, 8) \in Nat
      BY <1>5, <1>7, SumOfEights
    <3>4. top' = 16 + CalleeAt(i + 1).size
      <4>1. \A x, y \in Nat : (16 + x) + y = 16 + (x + y)
        OBVIOUS
      <4>2. (16 + CalleeAt(i).size) + AlignTo(ty.size, 8) = 16 + (CalleeAt(i).size + AlignTo(ty.size, 8))
        BY <1>7, <3>3, <4>1, Zenon
      <4> QED BY <1>5, <3>1, <3>2, <4>2, Zenon
    <3> QED BY <1>5, <3>1, <3>2, <3>3, <3>4
  <2> QED BY <2>1, <2>2
<1>11. ASSUME NEW p \in DOMAIN Params
       PROVE  offset'[LocalOfParam(p)] = IF p < i + 1 /\ ~ParamInRegisters(p) THEN StackHome(p) ELSE 0
  <2>1. offset[LocalOfParam(p)] = IF p < i /\ ~ParamInRegisters(p) THEN StackHome(p) ELSE 0
    BY DEF Placing
  <2>2. p \in Nat /\ LocalOfParam(p) \in DOMAIN Locals /\ LocalOfParam(i) \in DOMAIN Locals
    BY <1>2, <1>3, LocalOfParamIs
  <2>3. p # i => LocalOfParam(p) # LocalOfParam(i)
    BY <1>2, <1>3, LocalOfParamIs
  <2>4. CASE FitsParam(ty)
    <3>1. offset' = offset
      BY <1>9, <2>4
    <3>2. p < i + 1 /\ ~ParamInRegisters(p) <=> p < i /\ ~ParamInRegisters(p)
      BY <1>2, <1>6, <2>2, <2>4
    <3> QED BY <2>1, <3>1, <3>2
  <2>5. CASE ~FitsParam(ty)
    <3>1. offset' = [offset EXCEPT ![LocalOfParam(i)] = top]
      BY <1>8, <1>9, <2>5
    <3>2. CASE p = i
      <4>1. offset'[LocalOfParam(p)] = top
        BY <2>2, <3>1, <3>2 DEF FrameInv, FrameTyped
      <4> QED BY <1>2, <1>5, <1>6, <2>5, <3>2, <4>1 DEF StackHome
    <3>3. CASE p # i
      <4>1. offset'[LocalOfParam(p)] = offset[LocalOfParam(p)]
        BY <2>2, <2>3, <3>1, <3>3 DEF FrameInv, FrameTyped
      <4>2. p < i + 1 <=> p < i
        BY <1>2, <2>2, <3>3
      <4> QED BY <2>1, <4>1, <4>2
    <3> QED BY <3>2, <3>3
  <2> QED BY <2>4, <2>5
<1>12. PICK j : j = i + 1
  OBVIOUS
<1>13. /\ i' = j /\ CalleeAt(j)' = CalleeAt(j) /\ Params' = Params
       /\ \A p : /\ (ParamInRegisters(p)' <=> ParamInRegisters(p)) /\ StackHome(p)' = StackHome(p)
                 /\ LocalOfParam(p)' = LocalOfParam(p)
  BY <1>1, <1>12, CalleeKept
<1>14. CalleeAt(i)' = CalleeAt(j) /\ StackHome(i)' = 16 + CalleeAt(j).size
  BY <1>1, <1>13, CalleeKept DEF CalleeAt, StackHome
<1>15. AtTrace' /\ (top = StackHome(i) /\ top % 8 = 0)'
  BY <1>10, <1>12, <1>14 DEF AtTrace
<1>16. \A p \in DOMAIN Params' :
         offset'[LocalOfParam(p)'] = IF p < i' /\ ~ParamInRegisters(p)' THEN StackHome(p)' ELSE 0
  BY <1>11, <1>12, <1>13
<1> QED BY <1>1, <1>2, <1>15, <1>16 DEF Placing

(* A local below %rbp, be it a parameter's or another. *)
LEMMA PlaceLocalArrives ==
  ASSUME TraceInv, FrameInv, PlaceLocal, LayingOut(i)
  PROVE  LayingOut(i)'
<1> DEFINE at == AlignTo(bottom + Locals[i].size, Locals[i].align)
<1>1. /\ phase = "locals" /\ i <= Len(Locals) /\ i' = i + 1 /\ UNCHANGED <<call, counted>>
      /\ IF offset[i] # 0 THEN offset' = offset ELSE offset' = [offset EXCEPT ![i] = -at]
  BY DEF PlaceLocal, At, caller
<1>2. /\ IsCall(call) /\ i \in Nat /\ i >= 1 /\ bottom \in Nat /\ bottom >= 40
      /\ offset \in [DOMAIN Locals -> Int]
  BY DEF FrameInv, FrameTyped
<1>3. at > 0 /\ at \in Nat /\ i \in DOMAIN Locals
  <2>1. Locals \in Seq(Sizes)
    BY <1>2, LocalsTyped
  <2>2. i \in DOMAIN Locals /\ Locals[i] \in Sizes
    BY <1>1, <1>2, <2>1
  <2>3. Locals[i].size \in Nat /\ Locals[i].align \in Nat \ {0}
    BY <2>2 DEF Sizes
  <2>4. bottom + Locals[i].size \in Nat /\ bottom + Locals[i].size >= 40
    BY <1>2, <2>3
  <2>5. at \in Nat /\ at >= bottom + Locals[i].size
    BY <2>3, <2>4, AlignToIsAbove
  <2> HIDE DEF at
  <2> QED BY <2>2, <2>4, <2>5
<1> HIDE DEF at
<1>4. ASSUME NEW p \in DOMAIN Params
      PROVE  IF ParamInRegisters(p)
             THEN offset'[LocalOfParam(p)] <= 0 /\ (LocalOfParam(p) < i + 1 => offset'[LocalOfParam(p)] < 0)
             ELSE offset'[LocalOfParam(p)] = StackHome(p)
  <2>1. LocalOfParam(p) \in DOMAIN Locals /\ LocalOfParam(p) \in Nat /\ p \in Nat
    BY <1>2, LocalOfParamIs
  <2>2. IF ParamInRegisters(p)
        THEN offset[LocalOfParam(p)] <= 0 /\ (LocalOfParam(p) < i => offset[LocalOfParam(p)] < 0)
        ELSE offset[LocalOfParam(p)] = StackHome(p)
    BY DEF LayingOut
  <2>3. offset[LocalOfParam(p)] \in Int
    BY <1>2, <2>1
  <2>4. StackHome(p) \in Nat /\ StackHome(p) >= 16
    <3>1. CalleeAt(p) \in Cursors
      BY <1>1, TraceAtParam
    <3>2. CalleeAt(p).size \in Nat
      BY <3>1 DEF Cursors
    <3> QED BY <3>2 DEF StackHome
  <2>5. CASE offset[i] # 0
    <3>1. offset' = offset
      BY <1>1, <2>5
    <3>2. CASE ParamInRegisters(p)
      <4>1. offset[LocalOfParam(p)] <= 0 /\ (LocalOfParam(p) < i => offset[LocalOfParam(p)] < 0)
        BY <2>2, <3>2
      <4>2. LocalOfParam(p) = i => offset[LocalOfParam(p)] < 0
        BY <2>3, <2>5, <4>1
      <4>3. LocalOfParam(p) < i + 1 => LocalOfParam(p) = i \/ LocalOfParam(p) < i
        BY <1>2, <2>1
      <4> QED BY <3>1, <3>2, <4>1, <4>2, <4>3
    <3>3. CASE ~ParamInRegisters(p)
      BY <2>2, <3>1, <3>3
    <3> QED BY <3>2, <3>3
  <2>6. CASE offset[i] = 0
    <3>1. /\ offset' = [offset EXCEPT ![i] = -at] /\ offset'[i] = -at
          /\ LocalOfParam(p) # i => offset'[LocalOfParam(p)] = offset[LocalOfParam(p)]
      BY <1>1, <1>2, <1>3, <2>1, <2>6
    <3>2. CASE ParamInRegisters(p)
      <4>1. offset[LocalOfParam(p)] <= 0 /\ (LocalOfParam(p) < i => offset[LocalOfParam(p)] < 0)
        BY <2>2, <3>2
      <4>2. LocalOfParam(p) < i + 1 => LocalOfParam(p) = i \/ LocalOfParam(p) < i
        BY <1>2, <2>1
      <4>3. -at < 0 /\ -at <= 0
        BY <1>3
      <4>4. LocalOfParam(p) = i => offset'[LocalOfParam(p)] = -at
        BY <3>1
      <4> QED BY <3>1, <3>2, <4>1, <4>2, <4>3, <4>4
    <3>3. CASE ~ParamInRegisters(p)
      <4>1. LocalOfParam(p) # i
        BY <2>2, <2>4, <2>6, <3>3
      <4> QED BY <2>2, <3>1, <3>3, <4>1
    <3> QED BY <3>2, <3>3
  <2> QED BY <2>5, <2>6
<1>5. \A p \in DOMAIN Params' :
        IF ParamInRegisters(p)'
        THEN offset'[LocalOfParam(p)'] <= 0 /\ (LocalOfParam(p)' < i' => offset'[LocalOfParam(p)'] < 0)
        ELSE offset'[LocalOfParam(p)'] = StackHome(p)'
  BY <1>1, <1>4, CalleeKept
<1> QED BY <1>5 DEF LayingOut

(* The prologue saves a parameter from the registers the caller loaded. *)
LEMMA SaveParamArrives ==
  ASSUME TraceInv, FrameInv, CallerArrives, SaveParam, phase' = "save", Deliverable,
         DOMAIN home = DOMAIN Params,
         i \in 1 .. Len(Params) + 1, AtTrace, SavedBefore(i), LayingOut(Len(Locals) + 1)
  PROVE  i' \in 1 .. Len(Params) + 1 /\ AtTrace' /\ SavedBefore(i)' /\ DOMAIN home' = DOMAIN home
<1> DEFINE ty == Params[i].ty
           c == Classify(ty)
<1>1. phase = "save" /\ i <= Len(Params) /\ UNCHANGED <<call, counted>>
  BY DEF SaveParam, At, caller
<1>2. /\ Len(Params) \in Nat /\ i \in Nat /\ DOMAIN Params = 1 .. Len(Params) /\ IsCall(call)
  BY <1>1, ParamsTyped DEF FrameInv, FrameTyped
<1>3. i \in DOMAIN Params
  BY <1>1, <1>2
<1>4. /\ ty \in Types /\ CalleeAt(i) \in Cursors /\ CalleeAt(i + 1) \in Cursors
      /\ CalleeAt(i + 1) = After(CalleeAt(i), ty)
  BY <1>1, <1>3, TraceAtParam
<1>5. i \in InRegister <=> ParamInRegisters(i)
  <2>1. LocalOfParam(i) \in Nat /\ LocalOfParam(i) < Len(Locals) + 1
    BY <1>2, <1>3, LocalOfParamIs
  <2>2. StackHome(i) \in Nat
    BY <1>4 DEF Cursors, StackHome
  <2>3. ~(StackHome(i) < 0)
    BY <2>2
  <2>4. IF ParamInRegisters(i)
        THEN offset[LocalOfParam(i)] <= 0 /\ (LocalOfParam(i) < Len(Locals) + 1 => offset[LocalOfParam(i)] < 0)
        ELSE offset[LocalOfParam(i)] = StackHome(i)
    BY <1>3 DEF LayingOut
  <2> QED BY <1>3, <2>1, <2>3, <2>4 DEF InRegister
<1>6. ty.size > 0 /\ ~(ty.size = 0)
  <2>1. ty.size \in Nat /\ ty.size > 0
    BY <1>3, <1>4 DEF Deliverable, Types
  <2> QED BY <2>1
<1>7. Passed(i)
  BY <1>1, <1>3, AllPassed
<1>8. \A e \in DOMAIN c : e \in Nat /\ e >= 1 /\ e <= Len(c) /\ e \in 1 .. 2 /\ c[e] \in Classes
  <2>1. c \in Seq(Classes) /\ Len(c) <= 2
    BY <1>4, ClassesTyped
  <2> HIDE DEF c
  <2> QED BY <2>1
<1>9. \A e \in DOMAIN c : Nth(ty, e) \in Nat /\ Nth(ty, e) < Of(c[e], c)
  BY <1>4, RegistersOfEightbytes
<1>10. CASE ~ParamInRegisters(i)
  <2>1. i' = i + 1 /\ UNCHANGED <<gp, fp, home>>
    BY <1>1, <1>5, <1>10 DEF SaveParam
  <2>2. CalleeAt(i + 1).gp = CalleeAt(i).gp /\ CalleeAt(i + 1).fp = CalleeAt(i).fp
    BY <1>4, <1>10 DEF After, ParamInRegisters
  <2>3. AtTrace'
    <3>1. PICK j : j = i + 1
      OBVIOUS
    <3>2. CalleeAt(i)' = CalleeAt(j)
      BY <1>1, <2>1, <3>1, CalleeKept DEF CalleeAt
    <3> QED BY <2>1, <2>2, <3>1, <3>2 DEF AtTrace
  <2>4. \A p \in DOMAIN Params : p < i + 1 /\ ParamInRegisters(p) => p < i
    BY <1>2, <1>10
  <2>5. SavedBefore(i)'
    BY <1>1, <2>1, <2>4, CalleeKept DEF SavedBefore
  <2> QED BY <1>1, <1>2, <2>1, <2>3, <2>5, CalleeKept
<1>11. CASE ParamInRegisters(i)
  <2> DEFINE Register(e) ==
               LET r == (IF c[e] = "INTEGER" THEN gp ELSE fp) + Nth(ty, e) IN
               CASE c[e] = "INTEGER" /\ r < GP_MAX -> gpRegs[r]
                 [] c[e] = "SSE" /\ r < FP_MAX -> fpRegs[r]
                 [] OTHER -> Nothing
  <2>1. /\ i' = i + 1 /\ Advance(ty) /\ Of("X87", c) = 0
        /\ home' = [home EXCEPT ![i] = [e \in 1 .. 2 |-> IF e <= Len(c) THEN Register(e) ELSE Nothing]]
    BY <1>1, <1>5, <1>6, <1>11 DEF SaveParam
  <2>2. ASSUME NEW e \in DOMAIN c
        PROVE  Register(e) = <<Params[i].arg, e>>
    <3>1. c[e] \in {"INTEGER", "SSE"}
      <4>1. c[e] # "X87"
        BY <1>9, <2>1, <2>2
      <4> QED BY <1>8, <2>2, <4>1 DEF Classes
    <3>2. gp = CalleeAt(i).gp /\ fp = CalleeAt(i).fp
      BY DEF AtTrace
    <3>3. CASE c[e] = "INTEGER"
      <4>1. gp + Nth(ty, e) < GP_MAX /\ gpRegs[gp + Nth(ty, e)] = <<Params[i].arg, e>>
        BY <1>7, <1>11, <2>2, <3>2, <3>3 DEF Passed
      <4> QED BY <3>3, <4>1
    <3>4. CASE c[e] = "SSE"
      <4>1. fp + Nth(ty, e) < FP_MAX /\ fpRegs[fp + Nth(ty, e)] = <<Params[i].arg, e>>
        BY <1>7, <1>11, <2>2, <3>2, <3>4 DEF Passed
      <4> QED BY <3>4, <4>1
    <3> QED BY <3>1, <3>3, <3>4
  <2> HIDE DEF Register
  <2>3. /\ DOMAIN home' = DOMAIN home /\ \A p \in DOMAIN Params : p # i => home'[p] = home[p]
        /\ \A e \in DOMAIN c : home'[i][e] = <<Params[i].arg, e>>
    BY <1>3, <1>8, <2>1, <2>2
  <2>4. CalleeAt(i + 1).gp = CalleeAt(i).gp + NumGp(ty) /\ CalleeAt(i + 1).fp = CalleeAt(i).fp + NumFp(ty)
    BY <1>4, <1>11 DEF After, ParamInRegisters
  <2>5. AtTrace'
    <3>1. PICK j : j = i + 1
      OBVIOUS
    <3>2. CalleeAt(i)' = CalleeAt(j)
      BY <1>1, <2>1, <3>1, CalleeKept DEF CalleeAt
    <3>3. gp' = CalleeAt(j).gp /\ fp' = CalleeAt(j).fp
      BY <2>1, <2>4, <3>1 DEF Advance, AtTrace
    <3> QED BY <3>2, <3>3 DEF AtTrace
  <2>6. \A p \in DOMAIN Params : p < i + 1 /\ ParamInRegisters(p) =>
          \A e \in DOMAIN Classify(Params[p].ty) : home'[p][e] = <<Params[p].arg, e>>
    <3> SUFFICES ASSUME NEW p \in DOMAIN Params, p < i + 1, ParamInRegisters(p), NEW e \in DOMAIN Classify(Params[p].ty)
                 PROVE  home'[p][e] = <<Params[p].arg, e>>
      OBVIOUS
    <3>1. CASE p = i
      BY <2>3, <3>1
    <3>2. CASE p # i
      <4>1. p < i
        BY <1>2, <3>2
      <4>2. home[p][e] = <<Params[p].arg, e>>
        BY <4>1 DEF SavedBefore
      <4> QED BY <2>3, <3>2, <4>2
    <3> QED BY <3>1, <3>2
  <2>7. SavedBefore(i)'
    BY <1>1, <2>1, <2>6, CalleeKept DEF SavedBefore
  <2> QED BY <1>1, <1>2, <2>1, <2>3, <2>5, <2>7, CalleeKept
<1> QED BY <1>10, <1>11

LEMMA CalleeArrivesAtStart == Init => CalleeArrives
BY DEF Init, CalleeArrives

(* The callee's layout begins where the trace does. *)
LEMMA EmitCallArrives ==
  ASSUME TraceInv, FrameInv, CalleeArrives, EmitCall
  PROVE  CalleeArrives'
<1>1. /\ phase = "load" /\ phase' = "place" /\ i' = 1 /\ gp' = 0 /\ fp' = 0
      /\ UNCHANGED <<call, counted, top, offset, home>>
  BY DEF EmitCall, Past, Loop, callee
<1>2. top = 16 /\ DOMAIN home = DOMAIN Params /\ \A l \in DOMAIN Locals : offset[l] = 0
  BY <1>1 DEF CalleeArrives
<1>3. IsCall(call) /\ Len(Params) \in Nat /\ DOMAIN Params = 1 .. Len(Params)
  <2>1. IsCall(call)
    BY DEF FrameInv, FrameTyped
  <2> QED BY <2>1, ParamsTyped
<1>4. CalleeAt(1) = [gp |-> 0, fp |-> 0, size |-> 0]
  <2>1. CASE Hidden
    BY <2>1 DEF CalleeAt
  <2>2. CASE ~Hidden
    <3>1. HiddenGp = 0 /\ 1 - 0 = 1
      BY <2>2 DEF HiddenGp
    <3>2. counted[1] = [gp |-> HiddenGp, fp |-> 0, size |-> 0]
      BY <1>1 DEF TraceInv, Traced
    <3> QED BY <2>2, <3>1, <3>2 DEF CalleeAt
  <2> QED BY <2>1, <2>2
<1>5. CalleeAt(i)' = CalleeAt(1)
  BY <1>1, CalleeKept DEF CalleeAt
<1>6. AtTrace' /\ (top = StackHome(i) /\ top % 8 = 0)'
  BY <1>1, <1>2, <1>4, <1>5 DEF AtTrace, StackHome
<1>7. \A p \in DOMAIN Params : p \in Nat /\ ~(p < 1) /\ offset[LocalOfParam(p)] = 0
  BY <1>2, <1>3, LocalOfParamIs
<1>8. \A p \in DOMAIN Params' :
        offset'[LocalOfParam(p)'] = IF p < i' /\ ~ParamInRegisters(p)' THEN StackHome(p)' ELSE 0
  BY <1>1, <1>7, CalleeKept
<1>9. Placing' /\ i' \in 1 .. Len(Params') + 1
  <2>1. Params' = Params
    BY <1>1, CalleeKept
  <2> QED BY <1>1, <1>3, <1>6, <1>8, <2>1 DEF Placing
<1> QED BY <1>1, <1>2, <1>9, CalleeKept DEF CalleeArrives

(* The locals are laid out after the parameters, the register parameters    *)
(* among them.                                                              *)
LEMMA PlaceLocalsArrives ==
  ASSUME TraceInv, FrameInv, CalleeArrives, PlaceLocals
  PROVE  CalleeArrives'
<1>1. /\ phase = "place" /\ phase' = "locals" /\ i = Len(Params) + 1 /\ i' = 1
      /\ UNCHANGED <<call, counted, offset, home>>
  BY DEF PlaceLocals, Past, Loop, caller, callee
<1>2. IsCall(call) /\ Len(Params) \in Nat /\ DOMAIN Params = 1 .. Len(Params)
  <2>1. IsCall(call)
    BY DEF FrameInv, FrameTyped
  <2> QED BY <2>1, ParamsTyped
<1>3. ASSUME Deliverable
      PROVE  LayingOut(i)'
  <2>1. ASSUME NEW p \in DOMAIN Params
        PROVE  offset[LocalOfParam(p)] = IF ParamInRegisters(p) THEN 0 ELSE StackHome(p)
    <3>1. p < i
      BY <1>1, <1>2
    <3> QED BY <1>1, <1>3, <3>1 DEF CalleeArrives, Placing
  <2>2. \A p \in DOMAIN Params : LocalOfParam(p) \in Nat /\ ~(LocalOfParam(p) < 1)
    <3>1. \A p \in DOMAIN Params : LocalOfParam(p) \in DOMAIN Locals
      BY <1>2, LocalOfParamIs
    <3>2. DOMAIN Locals = 1 .. Len(Locals) /\ Len(Locals) \in Nat
      BY <1>2, LocalOfParamIs
    <3>3. \A l \in 1 .. Len(Locals) : l \in Nat /\ ~(l < 1)
      BY <3>2
    <3> QED BY <3>1, <3>2, <3>3
  <2>3. \A p \in DOMAIN Params' :
          IF ParamInRegisters(p)'
          THEN offset'[LocalOfParam(p)'] <= 0 /\ (LocalOfParam(p)' < i' => offset'[LocalOfParam(p)'] < 0)
          ELSE offset'[LocalOfParam(p)'] = StackHome(p)'
    BY <1>1, <2>1, <2>2, CalleeKept
  <2> QED BY <2>3 DEF LayingOut
<1> QED BY <1>1, <1>3, CalleeKept DEF CalleeArrives

(* The prologue's cursors begin where the trace does. *)
LEMMA InitVaListArrives ==
  ASSUME TraceInv, FrameInv, CalleeArrives, InitVaList
  PROVE  CalleeArrives'
<1>1. /\ phase = "locals" /\ phase' = "save" /\ i = Len(Locals) + 1 /\ i' = 1 /\ gp' = 0 /\ fp' = 0
      /\ UNCHANGED <<call, counted, offset, home>>
  BY DEF InitVaList, Past, Loop, caller
<1>2. IsCall(call) /\ Len(Params) \in Nat /\ DOMAIN Params = 1 .. Len(Params)
  <2>1. IsCall(call)
    BY DEF FrameInv, FrameTyped
  <2> QED BY <2>1, ParamsTyped
<1>3. CalleeAt(1).gp = 0 /\ CalleeAt(1).fp = 0
  <2>1. CASE Hidden
    BY <2>1 DEF CalleeAt
  <2>2. CASE ~Hidden
    <3>1. HiddenGp = 0 /\ 1 - 0 = 1
      BY <2>2 DEF HiddenGp
    <3>2. counted[1] = [gp |-> HiddenGp, fp |-> 0, size |-> 0]
      BY <1>1 DEF TraceInv, Traced
    <3> QED BY <2>2, <3>1, <3>2 DEF CalleeAt
  <2> QED BY <2>1, <2>2
<1>4. CalleeAt(i)' = CalleeAt(1)
  BY <1>1, CalleeKept DEF CalleeAt
<1>5. AtTrace'
  BY <1>1, <1>3, <1>4 DEF AtTrace
<1>6. SavedBefore(i)'
  <2>1. \A p \in DOMAIN Params : ~(p < 1)
    BY <1>2
  <2> QED BY <1>1, <2>1, CalleeKept DEF SavedBefore
<1>7. i' \in 1 .. Len(Params') + 1
  <2>1. Params' = Params
    BY <1>1, CalleeKept
  <2> QED BY <1>1, <1>2, <2>1
<1>8. Deliverable => LayingOut(Len(Locals) + 1)'
  <2>1. Deliverable => LayingOut(Len(Locals) + 1)
    BY <1>1 DEF CalleeArrives
  <2> QED BY <1>1, <2>1, CalleeKept DEF LayingOut
<1> QED BY <1>1, <1>5, <1>6, <1>7, <1>8, CalleeKept DEF CalleeArrives

LEMMA CalleeArrivesNext ==
  TraceInv /\ FrameInv /\ CallerArrives /\ CalleeArrives /\ [Next]_vars => CalleeArrives'
<1> SUFFICES ASSUME TraceInv, FrameInv, CallerArrives, CalleeArrives, [Next]_vars PROVE CalleeArrives'
  OBVIOUS
<1>1. CASE CountArg \/ Reserve \/ StageArg \/ LoadHidden \/ LoadArg
  <2>1. phase \in {"count", "stage", "load"} /\ phase' \in {"count", "stage", "load"}
    BY <1>1 DEF CountArg, Reserve, StageArg, LoadHidden, LoadArg, At, Past, Loop
  <2>2. UNCHANGED <<call, top, offset, home>>
    BY <1>1 DEF CountArg, Reserve, StageArg, LoadHidden, LoadArg, callee
  <2>3. Params' = Params /\ Locals' = Locals
    BY <2>2, SameLocals DEF Params, Hidden, Args
  <2> QED BY <2>1, <2>2, <2>3 DEF CalleeArrives
<1>2. CASE EmitCall
  BY <1>2, EmitCallArrives
<1>3. CASE PlaceParam
  <2>1. phase = "place" /\ phase' = "place" /\ UNCHANGED <<call, counted, home>>
    BY <1>3 DEF PlaceParam, At, caller
  <2>2. Deliverable => i' \in 1 .. Len(Params) + 1 /\ Placing'
    BY <1>3, <2>1, PlaceParamArrives DEF CalleeArrives
  <2> QED BY <2>1, <2>2, CalleeKept DEF CalleeArrives
<1>4. CASE PlaceLocals
  BY <1>4, PlaceLocalsArrives
<1>5. CASE PlaceLocal
  <2>1. phase = "locals" /\ phase' = "locals" /\ UNCHANGED <<call, counted, home>>
    BY <1>5 DEF PlaceLocal, At, caller
  <2>2. Deliverable => LayingOut(i)'
    BY <1>5, <2>1, PlaceLocalArrives DEF CalleeArrives
  <2> QED BY <2>1, <2>2, CalleeKept DEF CalleeArrives
<1>6. CASE InitVaList
  BY <1>6, InitVaListArrives
<1>7. CASE SaveParam
  <2>1. phase = "save" /\ UNCHANGED <<call, counted, offset>> /\ phase' \in {"save", "internal error"}
    BY <1>7 DEF SaveParam, At, caller
  <2>2. DOMAIN home' = DOMAIN home
    BY <1>7 DEF SaveParam
  <2>3. Deliverable => LayingOut(Len(Locals) + 1)'
    BY <2>1, CalleeKept DEF CalleeArrives, LayingOut
  <2>4. Deliverable /\ phase' = "save" => i' \in 1 .. Len(Params) + 1 /\ AtTrace' /\ SavedBefore(i)'
    BY <1>7, <2>1, SaveParamArrives DEF CalleeArrives
  <2> QED BY <2>1, <2>2, <2>3, <2>4, CalleeKept DEF CalleeArrives
<1>8. CASE EnterBody
  <2>1. /\ phase = "save" /\ i = Len(Params) + 1 /\ phase' = "body" /\ UNCHANGED <<call, counted, offset, home>>
    BY <1>8 DEF EnterBody, Past, caller, callee
  <2>2. Deliverable => LayingOut(Len(Locals) + 1)' /\ SavedBefore(Len(Params) + 1)'
    BY <2>1, CalleeKept DEF CalleeArrives, LayingOut, SavedBefore
  <2> QED BY <2>1, <2>2, CalleeKept DEF CalleeArrives
<1>9. CASE VaArg
  <2>1. phase = "body" /\ phase' = "body" /\ UNCHANGED <<call, counted, offset, home>>
    BY <1>9 DEF VaArg, At, caller
  <2>2. Deliverable => LayingOut(Len(Locals) + 1)' /\ SavedBefore(Len(Params) + 1)'
    BY <2>1, CalleeKept DEF CalleeArrives, LayingOut, SavedBefore
  <2> QED BY <2>1, <2>2, CalleeKept DEF CalleeArrives
<1>10. CASE UNCHANGED vars
  <2>1. UNCHANGED <<call, counted, phase, i, gp, fp, top, offset, home>>
    BY <1>10 DEF vars, caller, callee
  <2>2. (Placing => Placing') /\ (LayingOut(i) => LayingOut(i)') /\ (AtTrace => AtTrace')
        /\ (SavedBefore(i) => SavedBefore(i)')
    BY <2>1, CalleeKept DEF Placing, LayingOut, AtTrace, SavedBefore, CalleeAt, StackHome
  <2>3. (LayingOut(Len(Locals) + 1) => LayingOut(Len(Locals) + 1)')
        /\ (SavedBefore(Len(Params) + 1) => SavedBefore(Len(Params) + 1)')
    BY <2>1, CalleeKept DEF LayingOut, SavedBefore
  <2> QED BY <2>1, <2>2, <2>3, CalleeKept DEF CalleeArrives
<1> QED BY <1>1, <1>2, <1>3, <1>4, <1>5, <1>6, <1>7, <1>8, <1>9, <1>10 DEF Next, Stopped

(* What is looked for is there. *)
LEMMA ArrivedIsReceived ==
  TraceInv /\ FrameInv /\ CallerArrives /\ CalleeArrives => (Deliverable => ArgumentsArrive)
<1> SUFFICES ASSUME TraceInv, FrameInv, CallerArrives, CalleeArrives, Deliverable, phase = "body",
                    NEW p \in DOMAIN Params
             PROVE  Received(p)
  BY DEF ArgumentsArrive
<1>1. Passed(p)
  BY AllPassed
<1>2. LayingOut(Len(Locals) + 1) /\ SavedBefore(Len(Params) + 1)
  BY DEF CalleeArrives
<1>3. p \in Nat /\ p \in 1 .. Len(Params) /\ Len(Params) \in Nat /\ CalleeAt(p) \in Cursors
  BY TraceAtParam
<1>4. IsCall(call) /\ offset \in [DOMAIN Locals -> Int]
  BY DEF FrameInv, FrameTyped
<1>5. LocalOfParam(p) \in DOMAIN Locals /\ LocalOfParam(p) \in Nat /\ LocalOfParam(p) < Len(Locals) + 1
  BY <1>4, LocalOfParamIs
<1>6. CASE ParamInRegisters(p)
  <2>1. offset[LocalOfParam(p)] < 0 /\ offset[LocalOfParam(p)] \in Int
    BY <1>2, <1>4, <1>5, <1>6 DEF LayingOut
  <2>2. ~(offset[LocalOfParam(p)] > 0)
    BY <2>1
  <2>3. p < Len(Params) + 1
    BY <1>3
  <2>4. \A e \in DOMAIN Classify(Params[p].ty) : home[p][e] = <<Params[p].arg, e>>
    BY <1>2, <1>6, <2>3 DEF SavedBefore
  <2> QED BY <2>2, <2>4 DEF Received
<1>7. CASE ~ParamInRegisters(p)
  <2>1. offset[LocalOfParam(p)] = 16 + CalleeAt(p).size
    BY <1>2, <1>7 DEF LayingOut, StackHome
  <2>2. CalleeAt(p).size \in Nat
    BY <1>3 DEF Cursors
  <2>3. offset[LocalOfParam(p)] > 0 /\ offset[LocalOfParam(p)] - 16 = CalleeAt(p).size
    BY <2>1, <2>2
  <2>4. [arg |-> Params[p].arg, off |-> CalleeAt(p).size] \in out
    BY <1>1, <1>7 DEF Passed
  <2> QED BY <2>3, <2>4 DEF Received
<1> QED BY <1>6, <1>7

(* For any call the two sides can agree about, with any types, any number    *)
(* of arguments and of registers: the callee finds every named argument and  *)
(* the hidden pointer, each eightbyte of them, where the caller put it       *)
(* (sysv64_emit_call, sysv64_assign_lvar_offsets, sysv64_emit_prologue).     *)
THEOREM NamedArgumentsArrive == Spec => [](Deliverable => ArgumentsArrive)
<1>1. Spec => [](CallerInv /\ TraceInv)
  BY TraceCorrect
<1>2. Init => FrameInv /\ CallerArrives /\ CalleeArrives
  BY FrameInit, CallerArrivesAtStart, CalleeArrivesAtStart
<1>3. CallerInv /\ TraceInv /\ FrameInv /\ CallerArrives /\ CalleeArrives /\ [Next]_vars
        => FrameInv' /\ CallerArrives' /\ CalleeArrives'
  BY FrameNext, CallerArrivesNext, CalleeArrivesNext
<1>4. TraceInv /\ FrameInv /\ CallerArrives /\ CalleeArrives => (Deliverable => ArgumentsArrive)
  BY ArrivedIsReceived
<1> QED BY <1>1, <1>2, <1>3, <1>4, PTL DEF Spec
-----------------------------------------------------------------------------
(***************************************************************************)
(* va_arg yields the unnamed arguments: the cursors of the va_list follow    *)
(* the trace of the caller's first pass, as the callee's layout did.         *)
(***************************************************************************)

(* The cursors only grow, and never beyond the registers there are. *)
LEMMA TraceGrows ==
  ASSUME TraceInv, phase # "count", NEW a \in 1 .. Len(Args) + 1, NEW b \in 1 .. Len(Args) + 1, a <= b
  PROVE  /\ counted[a].gp <= counted[b].gp /\ counted[a].fp <= counted[b].fp
         /\ counted[a].size <= counted[b].size
<1> DEFINE Grown(k) == /\ counted[a].gp <= counted[k].gp /\ counted[a].fp <= counted[k].fp
                       /\ counted[a].size <= counted[k].size
           Bad == {k \in a .. Len(Args) + 1 : ~Grown(k)}
<1>1. Len(Args) \in Nat /\ a \in Nat /\ b \in Nat
  BY DEF TraceInv, IsCall, Args
<1>2. counted \in Seq(Cursors) /\ Len(counted) = Len(Args) + 1
  BY DEF TraceInv
<1>3. SUFFICES ASSUME Bad # {} PROVE FALSE
  <2>1. b \in a .. Len(Args) + 1
    BY <1>1
  <2> QED BY <2>1
<1>4. PICK k \in Bad : \A p \in Bad : k <= p
  <2>1. Bad \in SUBSET Nat
    BY <1>1
  <2> HIDE DEF Bad
  <2> QED BY <1>3, <2>1, LeastElement
<1>5. k # a
  <2>1. counted[a] \in Cursors
    BY <1>2
  <2>2. counted[a].gp \in Nat /\ counted[a].fp \in Nat /\ counted[a].size \in Nat
    BY <2>1 DEF Cursors
  <2>3. Grown(a)
    BY <2>2
  <2> HIDE DEF Grown
  <2> QED BY <1>4, <2>3
<1>6. k - 1 \in a .. Len(Args) + 1 /\ k - 1 \in 1 .. Len(Args) /\ ~(k <= k - 1) /\ (k - 1) + 1 = k
  BY <1>1, <1>4, <1>5
<1>7. Grown(k - 1)
  BY <1>4, <1>6
<1>8. PICK j : j = k - 1
  OBVIOUS
<1>9. /\ counted[j] \in Cursors /\ counted[j + 1] \in Cursors /\ Args[j] \in Types
      /\ counted[j + 1] = After(counted[j], Args[j]) /\ j + 1 = k
  BY <1>6, <1>8, TraceAt
<1>10. NumGp(Args[j]) \in Nat /\ NumFp(Args[j]) \in Nat
  BY OfIsNat DEF NumGp, NumFp
<1>11. /\ counted[k].gp = counted[j].gp \/ counted[k].gp = counted[j].gp + NumGp(Args[j])
       /\ counted[k].fp = counted[j].fp \/ counted[k].fp = counted[j].fp + NumFp(Args[j])
       /\ counted[k].size >= counted[j].size
  BY <1>9, AfterTyped DEF After
<1>12. /\ counted[j].gp \in Nat /\ counted[j].fp \in Nat /\ counted[j].size \in Nat
       /\ counted[k].size \in Nat
  BY <1>9 DEF Cursors
<1>13. /\ counted[a].gp \in Nat /\ counted[a].fp \in Nat /\ counted[a].size \in Nat
  <2>1. counted[a] \in Cursors
    BY <1>2
  <2> QED BY <2>1 DEF Cursors
<1>14. Grown(j)
  BY <1>7, <1>8
<1>15. Grown(k)
  <2>1. \A x, y, n \in Nat : x <= y => x <= y + n
    OBVIOUS
  <2>2. \A x, y, z \in Nat : x <= y /\ z >= y => x <= z
    OBVIOUS
  <2>3. counted[a].gp <= counted[k].gp
    BY <1>10, <1>11, <1>12, <1>13, <1>14, <2>1
  <2>4. counted[a].fp <= counted[k].fp
    BY <1>10, <1>11, <1>12, <1>13, <1>14, <2>1
  <2>5. counted[a].size <= counted[k].size
    <3>1. counted[a].size <= counted[j].size
      BY <1>14
    <3> QED BY <1>11, <1>12, <1>13, <2>2, <3>1, Zenon
  <2> QED BY <2>3, <2>4, <2>5
<1> HIDE DEF Grown
<1> QED BY <1>4, <1>15

(* The cursors never go beyond the registers there are. *)
LEMMA TraceBounded ==
  ASSUME TraceInv, phase # "count", NEW a \in 1 .. Len(Args) + 1
  PROVE  counted[a].gp <= GP_MAX /\ counted[a].fp <= FP_MAX
<1> DEFINE Within(k) == counted[k].gp <= GP_MAX /\ counted[k].fp <= FP_MAX
           Bad == {k \in 1 .. Len(Args) + 1 : ~Within(k)}
<1>1. Len(Args) \in Nat /\ a \in Nat
  BY DEF TraceInv, IsCall, Args
<1>2. SUFFICES ASSUME Bad # {} PROVE FALSE
  OBVIOUS
<1>3. PICK k \in Bad : \A p \in Bad : k <= p
  <2>1. Bad \in SUBSET Nat
    BY <1>1
  <2> HIDE DEF Bad
  <2> QED BY <1>2, <2>1, LeastElement
<1>4. k # 1
  <2>1. counted[1] = [gp |-> HiddenGp, fp |-> 0, size |-> 0]
    BY DEF TraceInv, Traced
  <2>2. HiddenGp \in {0, 1}
    BY DEF HiddenGp
  <2>3. Within(1)
    BY <2>1, <2>2, MaximaAreNat
  <2> HIDE DEF Within
  <2> QED BY <1>3, <2>3
<1>5. k - 1 \in 1 .. Len(Args) /\ k - 1 \in 1 .. Len(Args) + 1 /\ ~(k <= k - 1) /\ (k - 1) + 1 = k
  BY <1>1, <1>3, <1>4
<1>6. PICK j : j = k - 1
  OBVIOUS
<1>7. Within(j)
  BY <1>3, <1>5, <1>6
<1>8. counted[k] = After(counted[j], Args[j])
  BY <1>5, <1>6, TraceAt
<1>9. Within(k)
  <2>1. CASE Room(counted[j], Args[j])
    BY <1>8, <2>1 DEF After, Room
  <2>2. CASE ~Room(counted[j], Args[j])
    BY <1>7, <1>8, <2>2 DEF After
  <2> QED BY <2>1, <2>2
<1> HIDE DEF Within
<1> QED BY <1>3, <1>9

(* An argument on the stack that has a size is below every later one. *)
LEMMA StackGrows ==
  ASSUME TraceInv, phase # "count", NEW a \in 1 .. Len(Args), ~InRegisters(a), Args[a].size > 0,
         NEW b \in 1 .. Len(Args), a < b
  PROVE  counted[a].size < counted[b].size
<1>1. Len(Args) \in Nat /\ a \in Nat /\ b \in Nat
  BY DEF TraceInv, IsCall, Args
<1>2. /\ counted[a] \in Cursors /\ counted[a + 1] \in Cursors /\ Args[a] \in Types
      /\ counted[a + 1] = After(counted[a], Args[a])
  BY TraceAt
<1>3. counted[a + 1].size = counted[a].size + AlignTo(Args[a].size, 8)
  BY <1>2 DEF After, InRegisters
<1>4. Args[a].size \in Nat
  BY <1>2 DEF Types
<1>5. AlignTo(Args[a].size, 8) \in Nat /\ AlignTo(Args[a].size, 8) >= Args[a].size
  <2>1. 8 \in Nat \ {0}
    OBVIOUS
  <2> QED BY <1>4, <2>1, AlignToIsAbove, Zenon
<1>6. a + 1 \in 1 .. Len(Args) + 1 /\ b \in 1 .. Len(Args) + 1 /\ a + 1 <= b
  BY <1>1
<1>7. PICK k : k = a + 1
  OBVIOUS
<1>8. counted[k].size <= counted[b].size
  BY <1>6, <1>7, TraceGrows
<1>9. counted[b] \in Cursors
  BY TraceAt
<1>10. counted[a].size \in Nat /\ counted[b].size \in Nat
  BY <1>2, <1>9 DEF Cursors
<1> QED BY <1>3, <1>4, <1>5, <1>7, <1>8, <1>10

-----------------------------------------------------------------------------
(* What the caller leaves. *)

(* The outgoing area holds nothing else. *)
AreaInv ==
  /\ phase = "count" => out = {}
  /\ phase # "count" => \A s \in out :
       s.arg \in 1 .. Len(Args) /\ ~InRegisters(s.arg) /\ s.off = counted[s.arg].size

LEMMA AreaAtStart == Init => AreaInv
BY DEF Init, AreaInv

LEMMA AreaNext == CallerInv /\ TraceInv /\ AreaInv /\ [Next]_vars => AreaInv'
<1> SUFFICES ASSUME CallerInv, TraceInv, AreaInv, [Next]_vars PROVE AreaInv'
  OBVIOUS
<1>1. CASE CountArg
  BY <1>1 DEF CountArg, At, AreaInv
<1>2. CASE Reserve
  BY <1>2 DEF Reserve, Past, Loop, AreaInv
<1>3. CASE StageArg
  <2>1. /\ phase = "stage" /\ phase' = "stage" /\ i <= Len(Args)
        /\ UNCHANGED <<call, counted>>
    BY <1>3 DEF StageArg, At
  <2>2. i \in 1 .. Len(Args) /\ counted[i] = Cursor
    <3>1. CallerTyped /\ counted[i] = Cursor /\ IsCall(call)
      BY <2>1 DEF CallerInv
    <3> QED BY <2>1, <3>1 DEF CallerTyped, IsCall, Args
  <2>3. InRegisters(i) <=> Fits(Args[i])
    BY <2>2, FitsIsRoom DEF InRegisters
  <2>4. \A s \in out : s.arg \in 1 .. Len(Args) /\ ~InRegisters(s.arg) /\ s.off = counted[s.arg].size
    BY <2>1 DEF AreaInv
  <2>5. out' = out \/ (~InRegisters(i) /\ out' = out \cup {[arg |-> i, off |-> counted[i].size]})
    BY <1>3, <2>2, <2>3 DEF StageArg, Cursor
  <2>6. \A s \in out' : s.arg \in 1 .. Len(Args) /\ ~InRegisters(s.arg) /\ s.off = counted[s.arg].size
    BY <2>2, <2>4, <2>5
  <2> QED BY <2>1, <2>6, WorkKept DEF AreaInv
<1>4. ASSUME phase # "count", phase' # "count", UNCHANGED out
      PROVE  AreaInv'
  <2>1. UNCHANGED <<call, counted>>
    BY <1>4, TraceStays
  <2>2. Args' = Args
    BY <2>1, WorkKept
  <2>3. \A s \in out' : s.arg \in 1 .. Len(Args) /\ ~InRegisters(s.arg) /\ s.off = counted[s.arg].size
    BY <1>4 DEF AreaInv
  <2> QED BY <1>4, <2>1, <2>2, <2>3, WorkKept DEF AreaInv
<1>5. CASE LoadHidden
  <2>1. phase = "stage" /\ phase' = "load" /\ UNCHANGED out
    BY <1>5 DEF LoadHidden, Past, Loop
  <2> QED BY <1>4, <2>1
<1>6. CASE LoadArg
  <2>1. phase = "load" /\ phase' = "load" /\ UNCHANGED out
    BY <1>6 DEF LoadArg, At
  <2> QED BY <1>4, <2>1
<1>7. CASE EmitCall
  <2>1. phase = "load" /\ i = Len(Args) + 1 /\ phase' = "place" /\ UNCHANGED out
    BY <1>7 DEF EmitCall, Past, Loop
  <2> QED BY <1>4, <2>1
<1>8. CASE PlaceParam \/ PlaceLocals \/ PlaceLocal \/ InitVaList \/ EnterBody \/ VaArg
  <2>1. phase \in {"place", "locals", "save", "body"} /\ phase' \in {"place", "locals", "save", "body"}
    BY <1>8 DEF PlaceParam, PlaceLocals, PlaceLocal, InitVaList, EnterBody, VaArg, At, Past, Loop
  <2>2. UNCHANGED out
    BY <1>8 DEF PlaceParam, PlaceLocals, PlaceLocal, InitVaList, EnterBody, VaArg, caller
  <2> QED BY <1>4, <2>1, <2>2
<1>9. CASE SaveParam
  <2>1. phase = "save" /\ phase' \in {"save", "internal error"} /\ UNCHANGED out
    BY <1>9 DEF SaveParam, At, caller
  <2> QED BY <1>4, <2>1
<1>10. CASE UNCHANGED vars
  <2>1. UNCHANGED <<call, counted, phase, out>>
    BY <1>10 DEF vars, caller
  <2> QED BY <2>1, WorkKept DEF AreaInv
<1> QED BY <1>1, <1>2, <1>3, <1>5, <1>6, <1>7, <1>8, <1>9, <1>10 DEF Next, Stopped

(* At the offset of an argument on the stack is that argument, when every   *)
(* one there has a size.                                                    *)
LEMMA OnStackIs ==
  ASSUME TraceInv, AreaInv, CallerArrives, phase \notin {"count", "stage", "load"},
         \A b \in 1 .. Len(Args) : Args[b].size > 0,
         NEW a \in 1 .. Len(Args), ~InRegisters(a)
  PROVE  OnStack(counted[a].size) = a
<1>1. Len(Args) \in Nat /\ phase # "count"
  BY DEF TraceInv, IsCall, Args
<1>2. [arg |-> a, off |-> counted[a].size] \in out
  <2>1. StagedBefore(Len(Args) + 1)
    BY DEF CallerArrives
  <2>2. a \in 1 .. (Len(Args) + 1) - 1
    BY <1>1
  <2> QED BY <2>1, <2>2 DEF StagedBefore
<1>3. ASSUME NEW s \in out, s.off = counted[a].size
      PROVE  s.arg = a
  <2>1. PICK b \in 1 .. Len(Args) : b = s.arg /\ ~InRegisters(b) /\ counted[b].size = counted[a].size
    BY <1>1, <1>3 DEF AreaInv
  <2>2. counted[a] \in Cursors /\ a \in Nat /\ b \in Nat
    BY <1>1, TraceAt
  <2>3. counted[a].size \in Nat /\ ~(counted[a].size < counted[a].size)
    BY <2>2 DEF Cursors
  <2>4. ~(a < b) /\ ~(b < a)
    BY <1>1, <2>1, <2>3, StackGrows
  <2> QED BY <2>1, <2>2, <2>4
<1>4. \E s \in out : s.off = counted[a].size
  BY <1>2
<1> QED BY <1>3, <1>4 DEF OnStack

-----------------------------------------------------------------------------
(* The va_list. *)

(* Once the locals are laid out, those of register parameters are below     *)
(* %rbp.                                                                    *)
LEMMA InRegisterIs ==
  ASSUME TraceInv, FrameInv, phase # "count", LayingOut(Len(Locals) + 1), NEW p \in DOMAIN Params
  PROVE  p \in InRegister <=> ParamInRegisters(p)
<1>1. IsCall(call)
  BY DEF FrameInv, FrameTyped
<1>2. LocalOfParam(p) \in Nat /\ LocalOfParam(p) < Len(Locals) + 1
  BY <1>1, LocalOfParamIs
<1>3. CalleeAt(p) \in Cursors
  BY TraceAtParam
<1>4. ~(StackHome(p) < 0)
  BY <1>3 DEF Cursors, StackHome
<1>5. IF ParamInRegisters(p)
      THEN offset[LocalOfParam(p)] <= 0 /\ (LocalOfParam(p) < Len(Locals) + 1 => offset[LocalOfParam(p)] < 0)
      ELSE offset[LocalOfParam(p)] = StackHome(p)
  BY DEF LayingOut
<1> QED BY <1>2, <1>4, <1>5 DEF InRegister

(* The trace begins at the first parameter with no register used. *)
LEMMA FirstParam ==
  ASSUME TraceInv, phase # "count"
  PROVE  CalleeAt(1) = [gp |-> 0, fp |-> 0, size |-> 0]
<1>1. CASE Hidden
  BY <1>1 DEF CalleeAt
<1>2. CASE ~Hidden
  <2>1. HiddenGp = 0 /\ 1 - 0 = 1
    BY <1>2 DEF HiddenGp
  <2>2. counted[1] = [gp |-> HiddenGp, fp |-> 0, size |-> 0]
    BY DEF TraceInv, Traced
  <2> QED BY <1>2, <2>1, <2>2 DEF CalleeAt
<1> QED BY <1>1, <1>2

(* Counting the registers of the parameters once more yields the trace's.   *)
Reached(class, p) == IF class = "INTEGER" THEN CalleeAt(p).gp ELSE CalleeAt(p).fp

LEMMA TakenIsReached ==
  ASSUME TraceInv, FrameInv, phase # "count", LayingOut(Len(Locals) + 1), NEW class \in {"INTEGER", "SSE"}
  PROVE  Taken(class) = Reached(class, Len(Params) + 1)
<1> DEFINE N == Len(Params)
           Takes1(p) == IF p \in InRegister THEN Of(class, Classify(Params[p].ty)) ELSE 0
           Solves(f) == f = [p \in 0 .. N |-> IF p = 0 THEN 0 ELSE f[p - 1] + Takes1(p)]
           g == [p \in 0 .. N |-> Reached(class, p + 1)]
<1>1. N \in Nat /\ DOMAIN Params = 1 .. N
  <2>1. IsCall(call)
    BY DEF FrameInv, FrameTyped
  <2> QED BY <2>1, ParamsTyped
<1>2. ASSUME NEW p \in 1 .. N
      PROVE  Reached(class, p + 1) = Reached(class, p) + Takes1(p)
  <2>1. p \in DOMAIN Params
    BY <1>1
  <2>2. /\ CalleeAt(p) \in Cursors /\ CalleeAt(p + 1) = After(CalleeAt(p), Params[p].ty)
    BY <2>1, TraceAtParam
  <2>3. p \in InRegister <=> ParamInRegisters(p)
    BY <2>1, InRegisterIs
  <2>4. CalleeAt(p).gp \in Nat /\ CalleeAt(p).fp \in Nat
    BY <2>2 DEF Cursors
  <2>5. CASE ParamInRegisters(p)
    BY <2>2, <2>3, <2>5 DEF Reached, After, ParamInRegisters, NumGp, NumFp
  <2>6. CASE ~ParamInRegisters(p)
    BY <2>2, <2>3, <2>4, <2>6 DEF Reached, After, ParamInRegisters
  <2> QED BY <2>5, <2>6
<1>3. Reached(class, 1) = 0
  BY FirstParam DEF Reached
<1> HIDE DEF N, Takes1
<1>4. Solves(g)
  <2>1. \A p \in 0 .. N : p # 0 => p \in 1 .. N /\ p - 1 \in 0 .. N /\ (p - 1) + 1 = p
    BY <1>1
  <2>2. \A p \in 0 .. N : g[p] = IF p = 0 THEN 0 ELSE g[p - 1] + Takes1(p)
    BY <1>2, <1>3, <2>1
  <2> QED BY <2>2
<1>5. ASSUME NEW f, Solves(f)
      PROVE  f[N] = g[N]
  <2> DEFINE Bad == {p \in 0 .. N : f[p] # g[p]}
  <2>1. SUFFICES ASSUME Bad # {} PROVE FALSE
    BY <1>1
  <2>2. PICK k \in Bad : \A p \in Bad : k <= p
    <3>1. Bad \in SUBSET Nat
      BY <1>1
    <3> HIDE DEF Bad
    <3> QED BY <2>1, <3>1, LeastElement
  <2>3. f[0] = 0 /\ g[0] = 0
    <3>1. 0 \in 0 .. N
      BY <1>1
    <3>2. f[0] = 0
      BY <1>5, <3>1
    <3>3. g[0] = Reached(class, 1)
      BY <3>1
    <3> QED BY <1>3, <3>2, <3>3
  <2>4. k # 0 /\ k \in 0 .. N
    BY <2>2, <2>3
  <2>5. k - 1 \in 0 .. N /\ ~(k <= k - 1)
    BY <1>1, <2>4
  <2>6. f[k - 1] = g[k - 1]
    BY <2>2, <2>5
  <2>7. f[k] = f[k - 1] + Takes1(k)
    BY <1>5, <2>4
  <2>8. g[k] = g[k - 1] + Takes1(k)
    <3> HIDE DEF g
    <3> QED BY <1>4, <2>4
  <2> QED BY <2>2, <2>6, <2>7, <2>8
<1>6. PICK f : f = (CHOOSE h : Solves(h))
  OBVIOUS
<1>7. Solves(f)
  <2> HIDE DEF Solves, g
  <2> QED BY <1>4, <1>6
<1>8. Taken(class) = f[N]
  BY <1>6 DEF Taken, N, Takes1
<1>9. g[N] = Reached(class, N + 1)
  BY <1>1
<1> QED BY <1>5, <1>7, <1>8, <1>9 DEF N

(* What va_arg is promised: the named arguments leave the outgoing area to  *)
(* the unnamed ones, which are scalars or aggregates that go in memory, and *)
(* where one wants an alignment of 16 it happens to have it.                *)
Fetchable ==
  /\ call.variadic /\ Deliverable
  /\ \A a \in 1 .. call.named : InRegisters(a)
  /\ \A a \in call.named + 1 .. Len(Args) :
       /\ Args[a].size > 0 /\ (Args[a].agg => Classify(Args[a]) = <<>>)
       /\ ~InRegisters(a) /\ Args[a].align > 8 => counted[a].size % 16 = 0

VaAt(a) == [gp |-> counted[a].gp, fp |-> counted[a].fp, overflow |-> counted[a].size]

VaInv ==
  /\ phase # "body" => fetched = <<>>
  /\ phase = "save" /\ Fetchable => va = VaAt(call.named + 1)
  /\ phase = "body" /\ Fetchable =>
       /\ i \in call.named + 1 .. Len(Args) + 1 /\ va = VaAt(i)
       /\ VectorsSaved => fetched = [k \in 1 .. i - 1 - call.named |-> call.named + k]

LEMMA FetchableKept ==
  ASSUME UNCHANGED <<call, counted>>
  PROVE  (Fetchable' <=> Fetchable) /\ Args' = Args /\ \A a : VaAt(a)' = VaAt(a)
<1>1. Args' = Args /\ \A a : InRegisters(a)' <=> InRegisters(a)
  BY WorkKept
<1>2. Deliverable' <=> Deliverable
  BY CalleeKept
<1> QED BY <1>1, <1>2 DEF Fetchable, VaAt

LEMMA VectorsSavedKept ==
  ASSUME UNCHANGED <<call, al>>
  PROVE  VectorsSaved' <=> VectorsSaved
<1>1. Args' = Args
  BY DEF Args
<1> QED BY <1>1 DEF VectorsSaved, TakesFloats

(* When the named arguments are all in registers the stack is as yet empty. *)
LEMMA NothingOnStack ==
  ASSUME TraceInv, phase # "count", Fetchable
  PROVE  call.named \in Nat /\ call.named <= Len(Args) /\ Len(Args) \in Nat /\ counted[call.named + 1].size = 0
<1> DEFINE Bad == {k \in 1 .. call.named + 1 : counted[k].size # 0}
<1>1. call.named \in Nat /\ call.named <= Len(Args) /\ Len(Args) \in Nat
  BY DEF TraceInv, IsCall, Args
<1>2. SUFFICES ASSUME Bad # {} PROVE FALSE
  BY <1>1
<1>3. PICK k \in Bad : \A p \in Bad : k <= p
  <2>1. Bad \in SUBSET Nat
    BY <1>1
  <2> HIDE DEF Bad
  <2> QED BY <1>2, <2>1, LeastElement
<1>4. counted[1].size = 0
  BY DEF TraceInv, Traced
<1>5. k # 1 /\ k \in 1 .. call.named + 1
  BY <1>3, <1>4
<1>6. /\ k - 1 \in 1 .. call.named /\ k - 1 \in 1 .. call.named + 1 /\ k - 1 \in 1 .. Len(Args)
      /\ ~(k <= k - 1) /\ (k - 1) + 1 = k
  BY <1>1, <1>5
<1>7. PICK j : j = k - 1
  OBVIOUS
<1>8. counted[j].size = 0
  BY <1>3, <1>6, <1>7
<1>9. counted[k] = After(counted[j], Args[j]) /\ Room(counted[j], Args[j])
  <2>1. counted[j + 1] = After(counted[j], Args[j])
    BY <1>6, <1>7, TraceAt
  <2>2. InRegisters(j)
    BY <1>6, <1>7 DEF Fetchable
  <2> QED BY <1>6, <1>7, <2>1, <2>2 DEF InRegisters
<1>10. counted[k].size = 0
  BY <1>8, <1>9 DEF After
<1> QED BY <1>3, <1>10

(* The va_list starts where the trace leaves the named arguments. *)
LEMMA InitVaListFollows ==
  ASSUME TraceInv, FrameInv, CalleeArrives, InitVaList, Fetchable
  PROVE  va' = VaAt(call.named + 1)
<1>1. phase = "locals" /\ i = Len(Locals) + 1
  BY DEF InitVaList, Past
<1>2. LayingOut(Len(Locals) + 1)
  BY <1>1 DEF CalleeArrives, Fetchable
<1>3. Taken("INTEGER") = CalleeAt(Len(Params) + 1).gp /\ Taken("SSE") = CalleeAt(Len(Params) + 1).fp
  BY <1>1, <1>2, TakenIsReached DEF Reached
<1>4. CalleeAt(Len(Params) + 1) = counted[call.named + 1]
  <2>1. IsCall(call) /\ call.named \in Nat
    BY <1>1 DEF TraceInv, IsCall
  <2>2. Len(Params) = call.named + HiddenGp /\ HiddenGp \in {0, 1} /\ (Hidden <=> HiddenGp = 1)
    BY <2>1, ParamsAre
  <2>3. ~(Hidden /\ Len(Params) + 1 = 1) /\ (Len(Params) + 1) - HiddenGp = call.named + 1
    BY <2>1, <2>2
  <2> QED BY <2>3 DEF CalleeAt
<1>5. counted[call.named + 1].size = 0
  BY <1>1, NothingOnStack
<1>6. va' = [gp |-> Taken("INTEGER"), fp |-> Taken("SSE"), overflow |-> 0]
  BY DEF InitVaList, Fetchable
<1> QED BY <1>3, <1>4, <1>5, <1>6 DEF VaAt

(* A scalar has one eightbyte, which takes the register at the cursor. *)
LEMMA ScalarTakes ==
  ASSUME NEW ty \in Types, ~ty.agg
  PROVE  /\ Classify(ty) = <<Classify(ty)[1]>> /\ Classify(ty)[1] \in Classes /\ Nth(ty, 1) = 0
         /\ NumGp(ty) = IF Classify(ty) = <<"INTEGER">> THEN 1 ELSE 0
         /\ NumFp(ty) = IF Classify(ty) = <<"SSE">> THEN 1 ELSE 0
         /\ X87(ty) <=> Classify(ty) = <<"X87">>
<1>1. PICK x : x = ty.leaves[1].class
  OBVIOUS
<1>2. Classify(ty) = <<x>>
  BY <1>1 DEF Classify
<1>3. x \in Classes
  <2>1. ty.leaves \in Seq(Leaves) /\ Len(ty.leaves) = 1
    BY DEF Types
  <2>2. ty.leaves[1] \in Leaves
    BY <2>1
  <2> QED BY <1>1, <2>2 DEF Leaves
<1>4. Nth(ty, 1) = 0
  <2>1. SubSeq(<<x>>, 1, 1 - 1) = <<>>
    OBVIOUS
  <2> QED BY <1>2, <2>1, OfOne DEF Nth
<1>5. \A c : <<x>> = <<c>> <=> x = c
  OBVIOUS
<1>6. NumGp(ty) = IF Classify(ty) = <<"INTEGER">> THEN 1 ELSE 0
  BY <1>2, <1>5, OfOne DEF NumGp
<1>7. NumFp(ty) = IF Classify(ty) = <<"SSE">> THEN 1 ELSE 0
  BY <1>2, <1>5, OfOne DEF NumFp
<1>8. Classify(ty)[1] = x
  BY <1>2
<1> QED BY <1>2, <1>3, <1>4, <1>6, <1>7, <1>8 DEF X87

(* Every argument of such a call has a size. *)
LEMMA ArgumentsHaveSizes ==
  ASSUME TraceInv, phase # "count", Fetchable
  PROVE  \A b \in 1 .. Len(Args) : Args[b].size > 0
<1> SUFFICES ASSUME NEW b \in 1 .. Len(Args) PROVE Args[b].size > 0
  OBVIOUS
<1>1. IsCall(call) /\ call.named \in Nat /\ call.named <= Len(Args) /\ Len(Args) \in Nat /\ b \in Nat
  BY DEF TraceInv, IsCall, Args
<1>2. CASE b <= call.named
  <2>1. b \in 1 .. call.named
    BY <1>1, <1>2
  <2>2. Params[b + HiddenGp] = [arg |-> b, ty |-> Args[b]] /\ b + HiddenGp \in DOMAIN Params
    <3>1. /\ Len(Params) = call.named + HiddenGp /\ DOMAIN Params = 1 .. Len(Params) /\ HiddenGp \in {0, 1}
          /\ \A a \in 1 .. call.named : Params[a + HiddenGp] = [arg |-> a, ty |-> Args[a]]
      BY <1>1, ParamsAre
    <3>2. b + HiddenGp \in 1 .. Len(Params)
      BY <1>1, <2>1, <3>1
    <3> QED BY <2>1, <3>1, <3>2
  <2>3. Params[b + HiddenGp].ty.size > 0
    BY <2>2 DEF Fetchable, Deliverable
  <2> QED BY <2>2, <2>3
<1>3. CASE ~(b <= call.named)
  <2>1. b \in call.named + 1 .. Len(Args)
    BY <1>1, <1>3
  <2> QED BY <2>1 DEF Fetchable
<1> QED BY <1>2, <1>3

(* va_arg takes the next argument from where the caller put it, and leaves   *)
(* its cursors at the one after.                                            *)
LEMMA VaArgFetches ==
  ASSUME TraceInv, AreaInv, CallerArrives, phase = "body", VaArg, Fetchable,
         i \in call.named + 1 .. Len(Args) + 1, va = VaAt(i)
  PROVE  /\ i \in call.named + 1 .. Len(Args) /\ va' = VaAt(i + 1)
         /\ VectorsSaved => fetched' = Append(fetched, i)
<1> DEFINE ty == Args[i]
           inGp == ~ty.agg /\ Classify(ty) = <<"INTEGER">> /\ va.gp < GP_MAX
           inFp == ~ty.agg /\ Classify(ty) = <<"SSE">> /\ va.fp < FP_MAX
           at == IF ty.align > 8 THEN AlignTo(va.overflow, 16) ELSE va.overflow
<1>1. /\ i <= Len(Args) /\ call.named \in Nat /\ Len(Args) \in Nat
  BY DEF VaArg, At, TraceInv, IsCall, Args
<1>2. i \in call.named + 1 .. Len(Args) /\ i \in 1 .. Len(Args) /\ i \in Nat /\ i \in 1 .. Len(Args) + 1
      /\ i + 1 \in 1 .. Len(Args) + 1
  BY <1>1
<1>3. /\ ty \in Types /\ counted[i] \in Cursors /\ counted[i + 1] \in Cursors
      /\ counted[i + 1] = After(counted[i], ty)
  BY <1>2, TraceAt
<1>4. counted[i].gp \in Nat /\ counted[i].fp \in Nat /\ counted[i].size \in Nat
      /\ counted[i].gp <= GP_MAX /\ counted[i].fp <= FP_MAX
  <2>1. counted[i].gp \in Nat /\ counted[i].fp \in Nat /\ counted[i].size \in Nat
    BY <1>3 DEF Cursors
  <2> QED BY <1>2, <2>1, TraceBounded
<1>5. va.gp = counted[i].gp /\ va.fp = counted[i].fp /\ va.overflow = counted[i].size
      /\ va = [gp |-> counted[i].gp, fp |-> counted[i].fp, overflow |-> counted[i].size]
  BY DEF VaAt
<1>6. LoadedBefore(Len(Args) + 1)
  BY DEF CallerArrives
<1>7. InRegisters(i) => Holds(i)
  <2>1. i \in 1 .. (Len(Args) + 1) - 1
    BY <1>1, <1>2
  <2> QED BY <1>6, <2>1 DEF LoadedBefore
<1>8. GP_MAX \in Nat /\ FP_MAX \in Nat
  BY MaximaAreNat
<1>9. \/ /\ inGp
         /\ fetched' = Append(fetched, gpRegs[va.gp][1])
         /\ va' = [va EXCEPT !.gp = @ + 1]
      \/ /\ inFp
         /\ fetched' = Append(fetched, IF al = 0 THEN Nothing[1] ELSE fpRegs[va.fp][1])
         /\ va' = [va EXCEPT !.fp = @ + 1]
      \/ /\ ~inGp /\ ~inFp
         /\ fetched' = Append(fetched, OnStack(at))
         /\ va' = [va EXCEPT !.overflow = at + AlignTo(ty.size, 8)]
  BY DEF VaArg
<1>10. InRegisters(i) <=> Room(counted[i], ty)
  BY DEF InRegisters
<1> HIDE DEF ty
<1>11. ASSUME inGp, fetched' = Append(fetched, gpRegs[va.gp][1]), va' = [va EXCEPT !.gp = @ + 1]
       PROVE  va' = VaAt(i + 1) /\ fetched' = Append(fetched, i)
  <2>1. /\ NumGp(ty) = 1 /\ NumFp(ty) = 0 /\ ~X87(ty) /\ Nth(ty, 1) = 0 /\ Classify(ty)[1] = "INTEGER"
        /\ Classify(ty) # <<>> /\ 1 \in DOMAIN Classify(ty)
    BY <1>3, <1>11, ScalarTakes
  <2>2. Room(counted[i], ty)
    BY <1>4, <1>5, <1>8, <1>11, <2>1 DEF Room
  <2>3. gpRegs[counted[i].gp + Nth(ty, 1)] = <<i, 1>>
    BY <1>7, <1>10, <2>1, <2>2 DEF Holds, ty
  <2>4. gpRegs[va.gp] = <<i, 1>>
    BY <1>4, <1>5, <2>1, <2>3
  <2>5. counted[i + 1] = [gp |-> counted[i].gp + 1, fp |-> counted[i].fp, size |-> counted[i].size]
    BY <1>3, <1>4, <2>1, <2>2 DEF After
  <2>6. va' = [gp |-> counted[i].gp + 1, fp |-> counted[i].fp, overflow |-> counted[i].size]
    BY <1>5, <1>11
  <2> QED BY <1>11, <2>4, <2>5, <2>6 DEF VaAt
<1>12. ASSUME inFp, fetched' = Append(fetched, IF al = 0 THEN Nothing[1] ELSE fpRegs[va.fp][1]),
              va' = [va EXCEPT !.fp = @ + 1]
       PROVE  va' = VaAt(i + 1) /\ (VectorsSaved => fetched' = Append(fetched, i))
  <2>1. /\ NumGp(ty) = 0 /\ NumFp(ty) = 1 /\ ~X87(ty) /\ Nth(ty, 1) = 0 /\ Classify(ty)[1] = "SSE"
        /\ Classify(ty) # <<>> /\ 1 \in DOMAIN Classify(ty)
    BY <1>3, <1>12, ScalarTakes
  <2>2. Room(counted[i], ty)
    BY <1>4, <1>5, <1>8, <1>12, <2>1 DEF Room
  <2>3. fpRegs[counted[i].fp + Nth(ty, 1)] = <<i, 1>>
    BY <1>7, <1>10, <2>1, <2>2 DEF Holds, ty
  <2>4. fpRegs[va.fp] = <<i, 1>>
    BY <1>4, <1>5, <2>1, <2>3
  <2>5. counted[i + 1] = [gp |-> counted[i].gp, fp |-> counted[i].fp + 1, size |-> counted[i].size]
    BY <1>3, <1>4, <2>1, <2>2 DEF After
  <2>6. va' = [gp |-> counted[i].gp, fp |-> counted[i].fp + 1, overflow |-> counted[i].size]
    BY <1>5, <1>12
  <2>7. VectorsSaved => al # 0
    BY <1>2, <1>12 DEF VectorsSaved, TakesFloats, ty
  <2> QED BY <1>12, <2>4, <2>5, <2>6, <2>7 DEF VaAt
<1>13. ASSUME ~inGp, ~inFp, fetched' = Append(fetched, OnStack(at)),
              va' = [va EXCEPT !.overflow = at + AlignTo(ty.size, 8)]
       PROVE  va' = VaAt(i + 1) /\ fetched' = Append(fetched, i)
  <2>1. ~Room(counted[i], ty)
    <3>1. CASE ty.agg
      <4>1. Classify(ty) = <<>>
        BY <1>2, <3>1 DEF Fetchable, ty
      <4> QED BY <4>1 DEF Room
    <3>2. CASE ~ty.agg
      <4>1. /\ Classify(ty) = <<Classify(ty)[1]>> /\ Classify(ty)[1] \in Classes
            /\ NumGp(ty) = IF Classify(ty) = <<"INTEGER">> THEN 1 ELSE 0
            /\ NumFp(ty) = IF Classify(ty) = <<"SSE">> THEN 1 ELSE 0
            /\ X87(ty) <=> Classify(ty) = <<"X87">>
        BY <1>3, <3>2, ScalarTakes
      <4>2. CASE Classify(ty)[1] = "INTEGER"
        <5>1. NumGp(ty) = 1 /\ ~(va.gp < GP_MAX)
          BY <1>13, <3>2, <4>1, <4>2
        <5>2. ~(counted[i].gp + 1 <= GP_MAX)
          BY <1>4, <1>5, <1>8, <5>1
        <5> QED BY <5>1, <5>2 DEF Room
      <4>3. CASE Classify(ty)[1] = "SSE"
        <5>1. NumFp(ty) = 1 /\ ~(va.fp < FP_MAX)
          BY <1>13, <3>2, <4>1, <4>3
        <5>2. ~(counted[i].fp + 1 <= FP_MAX)
          BY <1>4, <1>5, <1>8, <5>1
        <5> QED BY <5>1, <5>2 DEF Room
      <4>4. CASE Classify(ty)[1] = "X87"
        BY <4>1, <4>4 DEF Room
      <4> QED BY <4>1, <4>2, <4>3, <4>4 DEF Classes
    <3> QED BY <3>1, <3>2
  <2>2. at = counted[i].size
    <3>1. CASE ty.align > 8
      <4>1. counted[i].size % 16 = 0
        BY <1>2, <1>10, <2>1, <3>1 DEF Fetchable, ty
      <4>2. 16 \in Nat \ {0}
        OBVIOUS
      <4>3. AlignTo(counted[i].size, 16) = counted[i].size
        BY <1>4, <4>1, <4>2, AlignToKeeps
      <4> QED BY <1>5, <3>1, <4>3
    <3>2. CASE ~(ty.align > 8)
      BY <1>5, <3>2
    <3> QED BY <3>1, <3>2
  <2>3. OnStack(counted[i].size) = i
    <3>1. phase # "count" /\ phase \notin {"count", "stage", "load"}
      OBVIOUS
    <3>2. \A b \in 1 .. Len(Args) : Args[b].size > 0
      BY <3>1, ArgumentsHaveSizes
    <3> QED BY <1>2, <1>10, <2>1, <3>1, <3>2, OnStackIs
  <2>4. counted[i + 1] = [gp |-> counted[i].gp, fp |-> counted[i].fp, size |-> counted[i].size + AlignTo(ty.size, 8)]
    BY <1>3, <2>1 DEF After
  <2>5. va' = [gp |-> counted[i].gp, fp |-> counted[i].fp, overflow |-> counted[i].size + AlignTo(ty.size, 8)]
    BY <1>5, <1>13, <2>2
  <2> QED BY <1>13, <2>2, <2>3, <2>4, <2>5 DEF VaAt
<1> HIDE DEF inGp, inFp, at
<1> QED BY <1>2, <1>9, <1>11, <1>12, <1>13

LEMMA VaNext ==
  TraceInv /\ FrameInv /\ AreaInv /\ CallerArrives /\ CalleeArrives /\ VaInv /\ [Next]_vars => VaInv'
<1> SUFFICES ASSUME TraceInv, FrameInv, AreaInv, CallerArrives, CalleeArrives, VaInv, [Next]_vars PROVE VaInv'
  OBVIOUS
<1>1. CASE CountArg \/ Reserve \/ StageArg \/ LoadHidden \/ LoadArg \/ EmitCall \/ PlaceParam \/ PlaceLocals \/ PlaceLocal
  <2>1. phase \notin {"save", "body"} /\ phase' \notin {"save", "body"}
    BY <1>1 DEF CountArg, Reserve, StageArg, LoadHidden, LoadArg, EmitCall, PlaceParam, PlaceLocals, PlaceLocal,
                At, Past, Loop
  <2>2. fetched' = fetched
    BY <1>1 DEF CountArg, Reserve, StageArg, LoadHidden, LoadArg, EmitCall, PlaceParam, PlaceLocals, PlaceLocal, callee
  <2> QED BY <2>1, <2>2 DEF VaInv
<1>2. CASE InitVaList
  <2>1. phase = "locals" /\ phase' = "save" /\ UNCHANGED <<call, counted, fetched>>
    BY <1>2 DEF InitVaList, Past, Loop
  <2>2. Fetchable => va' = VaAt(call.named + 1)
    BY <1>2, InitVaListFollows
  <2>3. VaAt(call.named + 1)' = VaAt(call.named + 1)
    BY <2>1 DEF VaAt
  <2> QED BY <2>1, <2>2, <2>3, FetchableKept DEF VaInv
<1>3. CASE SaveParam
  <2>1. phase = "save" /\ phase' \in {"save", "internal error"} /\ UNCHANGED <<call, counted, va, fetched>>
    BY <1>3 DEF SaveParam, At, caller
  <2>2. VaAt(call.named + 1)' = VaAt(call.named + 1)
    BY <2>1 DEF VaAt
  <2> QED BY <2>1, <2>2, FetchableKept DEF VaInv
<1>4. CASE EnterBody
  <2>1. /\ phase = "save" /\ phase' = "body" /\ i' = call.named + 1
        /\ UNCHANGED <<call, counted, va, fetched>>
    BY <1>4 DEF EnterBody, Past, caller, callee
  <2>2. ASSUME Fetchable
        PROVE  i' \in call.named + 1 .. Len(Args) + 1 /\ va' = VaAt(i)'
               /\ fetched' = [k \in 1 .. i' - 1 - call.named |-> call.named + k]
    <3>1. call.named \in Nat /\ call.named <= Len(Args) /\ Len(Args) \in Nat
      BY <2>1, <2>2, NothingOnStack
    <3>2. i' \in call.named + 1 .. Len(Args) + 1
      BY <2>1, <3>1
    <3>3. va' = VaAt(i)'
      BY <2>1, <2>2 DEF VaInv, VaAt
    <3>4. 1 .. i' - 1 - call.named = {}
      BY <2>1, <3>1
    <3>5. [k \in 1 .. i' - 1 - call.named |-> call.named + k] = <<>>
      BY <3>4
    <3> QED BY <2>1, <3>2, <3>3, <3>5 DEF VaInv
  <2> QED BY <2>1, <2>2, FetchableKept DEF VaInv
<1>5. CASE VaArg
  <2>1. phase = "body" /\ phase' = "body" /\ i' = i + 1 /\ UNCHANGED <<call, counted, al>>
    BY <1>5 DEF VaArg, At, caller
  <2>2. ASSUME Fetchable
        PROVE  /\ i' \in call.named + 1 .. Len(Args) + 1 /\ va' = VaAt(i)'
               /\ VectorsSaved => fetched' = [k \in 1 .. i' - 1 - call.named |-> call.named + k]
    <3>1. /\ i \in call.named + 1 .. Len(Args) + 1 /\ va = VaAt(i)
          /\ VectorsSaved => fetched = [k \in 1 .. i - 1 - call.named |-> call.named + k]
      BY <2>1, <2>2 DEF VaInv
    <3>2. /\ i \in call.named + 1 .. Len(Args) /\ va' = VaAt(i + 1)
          /\ VectorsSaved => fetched' = Append(fetched, i)
      BY <1>5, <2>1, <2>2, <3>1, VaArgFetches
    <3>3. call.named \in Nat /\ Len(Args) \in Nat
      BY <2>1, <2>2, NothingOnStack
    <3>4. i' \in call.named + 1 .. Len(Args) + 1
      BY <2>1, <3>2, <3>3
    <3>5. va' = VaAt(i)'
      BY <2>1, <3>2 DEF VaAt
    <3>6. PICK n \in Nat : i = n + 1 + call.named
      <4>1. i - 1 - call.named \in Nat /\ i = (i - 1 - call.named) + 1 + call.named
        BY <3>2, <3>3
      <4> QED BY <4>1
    <3>7. VectorsSaved => fetched = [k \in 1 .. n |-> call.named + k]
      <4>1. i - 1 - call.named = n
        BY <3>3, <3>6
      <4> QED BY <3>1, <4>1
    <3>8. ASSUME VectorsSaved
          PROVE  Append(fetched, call.named + (n + 1)) = [k \in 1 .. n + 1 |-> call.named + k]
      <4>1. fetched \in Seq(Nat) /\ Len(fetched) = n
        <5>1. [k \in 1 .. n |-> call.named + k] \in [1 .. n -> Nat]
          BY <3>3
        <5> QED BY <3>7, <3>8, <5>1
      <4>2. Append(fetched, call.named + (n + 1)) \in Seq(Nat) /\ Len(Append(fetched, call.named + (n + 1))) = n + 1
        BY <3>3, <4>1
      <4>3. \A k \in 1 .. n + 1 : Append(fetched, call.named + (n + 1))[k] = call.named + k
        BY <3>3, <3>7, <3>8, <4>1
      <4> QED BY <4>2, <4>3
    <3>9. call.named + (n + 1) = i /\ i' - 1 - call.named = n + 1
      BY <2>1, <3>3, <3>6
    <3> QED BY <3>2, <3>4, <3>5, <3>8, <3>9
  <2> QED BY <2>1, <2>2, FetchableKept, VectorsSavedKept DEF VaInv
<1>6. CASE UNCHANGED vars
  <2>1. UNCHANGED <<call, counted, phase, i, al, va, fetched>>
    BY <1>6 DEF vars, caller, callee
  <2>2. VaAt(call.named + 1)' = VaAt(call.named + 1) /\ VaAt(i)' = VaAt(i)
    BY <2>1 DEF VaAt
  <2> QED BY <2>1, <2>2, FetchableKept, VectorsSavedKept DEF VaInv
<1> QED BY <1>1, <1>2, <1>3, <1>4, <1>5, <1>6 DEF Next, Stopped

LEMMA VaAtStart == Init => VaInv
BY DEF Init, VaInv

(* For any variadic call whose named arguments are in registers, with any     *)
(* number of unnamed scalars and aggregates that go in memory, and any number *)
(* of registers: va_arg yields each of them in turn, the hidden pointer       *)
(* notwithstanding, provided that the callee has saved the vector registers   *)
(* when one of them is a float.  It has when the low byte of the save area's  *)
(* address, which is what it tests, is not zero (sysv64_emit_prologue,        *)
(* sysv64_builtin_va_arg); for other frames the run variadic_floats refutes   *)
(* the conclusion.                                                            *)
THEOREM UnnamedArgumentsArrive == Spec => [](Fetchable => VariadicArrive)
<1>1. Spec => [](CallerInv /\ TraceInv)
  BY TraceCorrect
<1>2. Init => FrameInv /\ CallerArrives /\ CalleeArrives /\ AreaInv /\ VaInv
  BY FrameInit, CallerArrivesAtStart, CalleeArrivesAtStart, AreaAtStart, VaAtStart
<1>3. CallerInv /\ TraceInv /\ FrameInv /\ CallerArrives /\ CalleeArrives /\ AreaInv /\ VaInv /\ [Next]_vars
        => FrameInv' /\ CallerArrives' /\ CalleeArrives' /\ AreaInv' /\ VaInv'
  BY FrameNext, CallerArrivesNext, CalleeArrivesNext, AreaNext, VaNext
<1>4. TraceInv /\ VaInv => (Fetchable => VariadicArrive)
  <2> SUFFICES ASSUME TraceInv, VaInv, Fetchable, VectorsSaved, Past("body", Len(Args))
               PROVE  fetched = [k \in 1 .. Len(Args) - call.named |-> call.named + k]
    BY DEF VariadicArrive, UnnamedFetched
  <2>1. phase = "body" /\ i = Len(Args) + 1
    BY DEF Past
  <2>2. call.named \in Nat /\ Len(Args) \in Nat
    BY <2>1, NothingOnStack
  <2>3. i - 1 - call.named = Len(Args) - call.named
    BY <2>1, <2>2
  <2> QED BY <2>1, <2>3 DEF VaInv
<1> QED BY <1>1, <1>2, <1>3, <1>4, PTL DEF Spec
=============================================================================
