------------------------------ MODULE CallConv ------------------------------
(***************************************************************************)
(* A call under the System V calling convention (abi/sysV64/sysv64.c).     *)
(* The caller decides three times over where each argument goes: to size   *)
(* the outgoing area, to fill it, and to load the registers                *)
(* (sysv64_emit_call).  The callee decides twice: to lay out its frame     *)
(* (sysv64_assign_lvar_offsets) and to save its register parameters        *)
(* (sysv64_emit_prologue); va_arg decides once more.                        *)
(* An iteration of each of these loops is one action, and the order is     *)
(* that of execution.                                                      *)
(*                                                                         *)
(* An argument is moved in eightbytes: <<a, e>> is the e-th eightbyte of   *)
(* argument a, and argument 0 is the pointer to the return buffer.         *)
(* Offsets into the outgoing area are those from the callee's %rbp + 16.   *)
(***************************************************************************)
EXTENDS Integers, Sequences, FiniteSets

CONSTANTS
  GP_MAX,  \* registers for arguments of class INTEGER
  FP_MAX,  \* and SSE
  Calls    \* families of calls, a sequence of sets of [args, named, variadic, ret, locals, rbp]

VARIABLES
  call,     \* the call: types of arguments, how many are named, return type, and of
            \* the callee the locals and the low byte of its %rbp
  phase,    \* the loop that runs
  i,        \* the argument or parameter it is at
  gp, fp,   \* its register cursors
  size,     \* stack_size, counted by the first pass; later stack_offset
  counted,  \* gp_count, fp_count and stack_size before each argument in the first pass (history)
  area,     \* total_alloc
  out,      \* the outgoing area: set of [arg, off]
  gpRegs, fpRegs, al,  \* argument registers
  top, bottom,         \* the callee's layout so far
  offset,   \* offset of each parameter and local of the callee; 0 is none yet
  home,     \* what the prologue saved of each register parameter, by eightbyte
  va,       \* the va_list: gp_offset / 8, fp_offset / 16, overflow_arg_area
  fetched   \* what va_arg found for each unnamed argument

caller == <<size, counted, area, out, gpRegs, fpRegs, al>>
callee == <<top, bottom, offset, home, va, fetched>>
vars == <<call, phase, i, gp, fp, caller, callee>>

-----------------------------------------------------------------------------
(* Types: [agg, size, align, leaves], where leaves lists the scalars of an  *)
(* aggregate, nested ones included, as [class, off, size, align].           *)

AlignTo(n, a) == ((n + a - 1) \div a) * a
AtLeast8(n) == IF n < 8 THEN 8 ELSE n

Classes == {"INTEGER", "SSE", "X87"}
Leaves == [class : Classes, off : Nat, size : Nat, align : Nat \ {0}]
Types ==  \* a scalar is its own leaf
  {ty \in [agg : BOOLEAN, size : Nat, align : Nat \ {0}, leaves : Seq(Leaves)] : ~ty.agg => Len(ty.leaves) = 1}

IsCall(c) ==
  /\ c.args \in Seq(Types) /\ c.named \in 0 .. Len(c.args)
  /\ c.variadic \in BOOLEAN /\ c.ret \in Types
  /\ c.locals \in Seq([size : Nat, align : Nat \ {0}])
  /\ c.rbp \in 0 .. 255 /\ c.rbp % 16 = 0

ASSUME MaximaAreNat == GP_MAX \in Nat \ {0} /\ FP_MAX \in Nat
ASSUME CallsAreTyped == \A family \in DOMAIN Calls : \A c \in Calls[family] : IsCall(c)

Pointer ==
  [agg |-> FALSE, size |-> 8, align |-> 8, leaves |-> <<[class |-> "INTEGER", off |-> 0, size |-> 8, align |-> 8]>>]

Merge(a, b) ==
  CASE a = b \/ b = "NONE" -> a
    [] a = "NONE" -> b
    [] a # b /\ {a, b} \cap {"MEMORY", "NONE"} = {} /\ "INTEGER" \in {a, b} -> "INTEGER"
    [] OTHER -> "MEMORY"

(* classify_sysv_scalar, over all leaves: the class of eightbyte e. *)
EightbyteClass(ty, e) ==
  LET In(l) == l.off \div 8 < e /\ e <= (l.off + l.size + 7) \div 8
      Merged[n \in 0 .. Len(ty.leaves)] ==
        IF n = 0 THEN "NONE"
        ELSE LET before == Merged[n - 1] IN
             IF In(ty.leaves[n]) THEN Merge(before, ty.leaves[n].class) ELSE before
  IN Merged[Len(ty.leaves)]

Unaligned(ty) == \E n \in DOMAIN ty.leaves : ty.leaves[n].off % ty.leaves[n].align # 0

(* classify_sysv64: the classes of the eightbytes, none when in memory. *)
Classify(ty) ==
  LET class(e) == EightbyteClass(ty, e)
      OrInteger(c) == IF c = "NONE" THEN "INTEGER" ELSE c
  IN IF ~ty.agg THEN <<ty.leaves[1].class>>
     ELSE IF ty.size > 16 \/ Unaligned(ty) \/ "MEMORY" \in {class(1), class(2)} THEN <<>>
     ELSE [e \in 1 .. (IF ty.size <= 8 THEN 1 ELSE 2) |-> OrInteger(class(e))]

Of(class, classes) == Cardinality({e \in DOMAIN classes : classes[e] = class})
NumGp(ty) == Of("INTEGER", Classify(ty))
NumFp(ty) == Of("SSE", Classify(ty))

(* The register eightbyte e takes, counted from the cursor. *)
Nth(ty, e) == LET c == Classify(ty) IN Of(c[e], SubSeq(c, 1, e - 1))

ReturnsByReference(ty) == ty.agg /\ Classify(ty) = <<>>

X87(ty) == ~ty.agg /\ Classify(ty) = <<"X87">>

-----------------------------------------------------------------------------
Nothing == <<-1, 0>>
Args == call.args
Hidden == ReturnsByReference(call.ret)

(* The callee's parameters: the hidden pointer comes first. *)
Params ==
  (IF Hidden THEN <<[arg |-> 0, ty |-> Pointer]>> ELSE <<>>)
    \o [a \in 1 .. call.named |-> [arg |-> a, ty |-> Args[a]]]

(* __alloca_size__ and __va_area__ precede the parameters in fn->locals. *)
VaArea == [size |-> 32 + 8 * GP_MAX + 16 * FP_MAX, align |-> 1]
Locals ==
  call.locals \o <<[size |-> 8, align |-> 8]>> \o (IF call.variadic THEN <<VaArea>> ELSE <<>>)
    \o [p \in DOMAIN Params |-> [size |-> Params[p].ty.size, align |-> Params[p].ty.align]]
LocalOfParam(p) == Len(Locals) - Len(Params) + p
LocalOfVaArea == Len(call.locals) + 2

(* A loop starts over, with the cursors given. *)
Loop(name, g) == phase' = name /\ i' = 1 /\ gp' = g /\ fp' = 0
Advance(ty) == gp' = gp + NumGp(ty) /\ fp' = fp + NumFp(ty)
HiddenGp == IF Hidden THEN 1 ELSE 0

Init ==
  /\ \E family \in DOMAIN Calls : call \in Calls[family]
  /\ phase = "count" /\ i = 1 /\ gp = HiddenGp /\ fp = 0
  /\ size = 0 /\ counted = <<[gp |-> HiddenGp, fp |-> 0, size |-> 0]>> /\ area = 0 /\ out = {}
  /\ gpRegs = [r \in 0 .. GP_MAX - 1 |-> Nothing]
  /\ fpRegs = [r \in 0 .. FP_MAX - 1 |-> Nothing]
  /\ al = 0
  /\ top = 16 /\ bottom = 40
  /\ offset = [l \in DOMAIN Locals |-> 0]
  /\ home = [p \in DOMAIN Params |-> <<Nothing, Nothing>>]
  /\ va = [gp |-> 0, fp |-> 0, overflow |-> 0]
  /\ fetched = <<>>

-----------------------------------------------------------------------------
(* The caller. *)

(* An aggregate goes wholly in registers or wholly on the stack. *)
Fits(ty) ==
  /\ ~X87(ty)
  /\ Classify(ty) # <<>>
  /\ gp + NumGp(ty) <= GP_MAX
  /\ fp + NumFp(ty) <= FP_MAX

At(name, n) == phase = name /\ i <= n
Past(name, n) == phase = name /\ i = n + 1

(* First pass: how much of the stack the arguments need. *)
CountArg ==
  /\ At("count", Len(Args))
  /\ i' = i + 1
  /\ \/ Fits(Args[i]) /\ Advance(Args[i]) /\ size' = size
     \/ ~Fits(Args[i]) /\ size' = size + AlignTo(Args[i].size, 8) /\ UNCHANGED <<gp, fp>>
  /\ counted' = Append(counted, [gp |-> gp', fp |-> fp', size |-> size'])
  /\ UNCHANGED <<call, phase, area, out, gpRegs, fpRegs, al, callee>>

(* Mutant: the hidden pointer is forgotten by the pass that stores. *)
ReserveForgettingHidden ==
  /\ Past("count", Len(Args))
  /\ area' = AlignTo(size, 16)
  /\ size' = 0
  /\ Loop("stage", 0)
  /\ UNCHANGED <<call, counted, out, gpRegs, fpRegs, al, callee>>

Reserve ==
  /\ Past("count", Len(Args))
  /\ area' = AlignTo(size, 16)
  /\ size' = 0
  /\ Loop("stage", HiddenGp)
  /\ UNCHANGED <<call, counted, out, gpRegs, fpRegs, al, callee>>

(* Second pass: the arguments that go on the stack. *)
StageArg ==
  /\ At("stage", Len(Args))
  /\ i' = i + 1
  /\ \/ Fits(Args[i]) /\ Advance(Args[i]) /\ UNCHANGED <<size, out>>
     \/ /\ ~Fits(Args[i])
        /\ out' = out \cup {[arg |-> i, off |-> size]}
        /\ size' = size + AlignTo(Args[i].size, 8)
        /\ UNCHANGED <<gp, fp>>
  /\ UNCHANGED <<call, phase, counted, area, gpRegs, fpRegs, al, callee>>

LoadHidden ==
  /\ Past("stage", Len(Args))
  /\ gpRegs' = IF Hidden THEN [gpRegs EXCEPT ![0] = <<0, 1>>] ELSE gpRegs
  /\ Loop("load", HiddenGp)
  /\ UNCHANGED <<call, size, counted, area, out, fpRegs, al, callee>>

(* The registers of a class after argument a is loaded from cursor on. *)
Loaded(regs, class, cursor, a) ==
  LET ty == Args[a]
      c == Classify(ty)
      Taking(r) == {e \in DOMAIN c : c[e] = class /\ r = cursor + Nth(ty, e)}
  IN [r \in DOMAIN regs |-> IF Taking(r) = {} THEN regs[r] ELSE <<a, CHOOSE e \in Taking(r) : TRUE>>]

(* Third pass: the arguments that go in registers. *)
LoadArg ==
  /\ At("load", Len(Args))
  /\ i' = i + 1
  /\ \/ /\ Fits(Args[i])
        /\ Advance(Args[i])
        /\ gpRegs' = Loaded(gpRegs, "INTEGER", gp, i)
        /\ fpRegs' = Loaded(fpRegs, "SSE", fp, i)
     \/ ~Fits(Args[i]) /\ UNCHANGED <<gp, fp, gpRegs, fpRegs>>
  /\ UNCHANGED <<call, phase, size, counted, area, out, al, callee>>

EmitCall ==
  /\ Past("load", Len(Args))
  /\ al' = fp
  /\ Loop("place", 0)
  /\ UNCHANGED <<call, size, counted, area, out, gpRegs, fpRegs, callee>>

-----------------------------------------------------------------------------
(* The callee. *)

(* Mutant: an aggregate of two classes is split when one class runs out. *)
FitsParamByFirstClass(ty) ==
  /\ ~X87(ty)
  /\ Classify(ty) # <<>>
  /\ IF Classify(ty)[1] = "INTEGER" THEN gp + NumGp(ty) <= GP_MAX ELSE fp + NumFp(ty) <= FP_MAX

(* The same decision, made by the callee. *)
FitsParam(ty) ==
  /\ ~X87(ty)
  /\ Classify(ty) # <<>>
  /\ gp + NumGp(ty) <= GP_MAX
  /\ fp + NumFp(ty) <= FP_MAX

(* The offsets of the parameters that come on the stack. *)
PlaceParam ==
  /\ At("place", Len(Params))
  /\ i' = i + 1
  /\ LET ty == Params[i].ty
         at == AlignTo(top, AtLeast8(ty.align))
     IN \/ FitsParam(ty) /\ Advance(ty) /\ UNCHANGED <<top, offset>>
        \/ /\ ~FitsParam(ty)
           /\ offset' = [offset EXCEPT ![LocalOfParam(i)] = at]
           /\ top' = at + AlignTo(ty.size, 8)
           /\ UNCHANGED <<gp, fp>>
  /\ UNCHANGED <<call, phase, caller, bottom, home, va, fetched>>

PlaceLocals ==
  /\ Past("place", Len(Params))
  /\ Loop("locals", 0)
  /\ UNCHANGED <<call, caller, callee>>

(* Everything else is below %rbp and the callee-saved registers. *)
PlaceLocal ==
  /\ At("locals", Len(Locals))
  /\ i' = i + 1
  /\ LET at == AlignTo(bottom + Locals[i].size, Locals[i].align) IN
     IF offset[i] # 0 THEN UNCHANGED <<bottom, offset>>
     ELSE bottom' = at /\ offset' = [offset EXCEPT ![i] = -at]
  /\ UNCHANGED <<call, phase, gp, fp, caller, top, home, va, fetched>>

(* The va_list of a variadic function: the registers the named parameters   *)
(* take are counted once more.                                              *)
InRegister == {p \in DOMAIN Params : offset[LocalOfParam(p)] < 0}
Taken(class) ==
  LET total[p \in 0 .. Len(Params)] ==
        IF p = 0 THEN 0
        ELSE LET before == total[p - 1] IN
             before + (IF p \in InRegister THEN Of(class, Classify(Params[p].ty)) ELSE 0)
  IN total[Len(Params)]

(* The low byte of reg_save_area, which follows the three words of the va_list. *)
SaveAreaByte == (call.rbp + offset[LocalOfVaArea] + 24) % 256

(* Mutant: the hidden pointer is not counted. *)
InitVaListWithoutHidden ==
  /\ Past("locals", Len(Locals))
  /\ va' = IF call.variadic THEN [gp |-> Taken("INTEGER") - HiddenGp, fp |-> Taken("SSE"), overflow |-> 0] ELSE va
  /\ al' = IF call.variadic THEN SaveAreaByte ELSE al
  /\ Loop("save", 0)
  /\ UNCHANGED <<call, size, counted, area, out, gpRegs, fpRegs, top, bottom, offset, home, fetched>>

(* The address of the save area is computed in %rax, so that the test of %al *)
(* that comes after it, and before the vector registers are saved, is not of *)
(* the number the caller passed.                                             *)
InitVaList ==
  /\ Past("locals", Len(Locals))
  /\ va' = IF call.variadic THEN [gp |-> Taken("INTEGER"), fp |-> Taken("SSE"), overflow |-> 0] ELSE va
  /\ al' = IF call.variadic THEN SaveAreaByte ELSE al
  /\ Loop("save", 0)
  /\ UNCHANGED <<call, size, counted, area, out, gpRegs, fpRegs, top, bottom, offset, home, fetched>>

(* The register parameters are saved; an empty one is passed over.  Classes *)
(* that are neither INTEGER nor SSE end the compiler (unreachable).         *)
SaveParam ==
  /\ At("save", Len(Params))
  /\ LET ty == Params[i].ty
         c == Classify(ty)
         Register(e) ==
           LET r == (IF c[e] = "INTEGER" THEN gp ELSE fp) + Nth(ty, e) IN
           CASE c[e] = "INTEGER" /\ r < GP_MAX -> gpRegs[r]
             [] c[e] = "SSE" /\ r < FP_MAX -> fpRegs[r]
             [] OTHER -> Nothing
     IN \/ /\ i \notin InRegister \/ (ty.agg /\ ty.size = 0)
           /\ i' = i + 1
           /\ UNCHANGED <<phase, gp, fp, home>>
        \/ /\ i \in InRegister /\ ty.size > 0
           /\ ty.agg /\ Of("X87", c) > 0
           /\ phase' = "internal error"
           /\ UNCHANGED <<i, gp, fp, home>>
        \/ /\ i \in InRegister /\ ty.size > 0
           /\ Of("X87", c) = 0
           /\ home' = [home EXCEPT ![i] = [e \in 1 .. 2 |-> IF e <= Len(c) THEN Register(e) ELSE Nothing]]
           /\ Advance(ty)
           /\ i' = i + 1
           /\ phase' = phase
  /\ UNCHANGED <<call, caller, top, bottom, offset, va, fetched>>

EnterBody ==
  /\ Past("save", Len(Params))
  /\ phase' = "body"
  /\ i' = call.named + 1
  /\ UNCHANGED <<call, gp, fp, caller, callee>>

(* The argument found in the outgoing area at an offset. *)
OnStack(off) ==
  IF \E s \in out : s.off = off THEN (CHOOSE s \in out : s.off = off).arg ELSE Nothing[1]

(* va_arg for the unnamed arguments in turn.  The SSE registers were saved   *)
(* only if %al was not zero (it is as InitVaList left it); long doubles and  *)
(* aggregates are taken from the stack.                                      *)
VaArg ==
  /\ At("body", Len(Args))
  /\ i' = i + 1
  /\ LET ty == Args[i]
         inGp == ~ty.agg /\ Classify(ty) = <<"INTEGER">> /\ va.gp < GP_MAX
         inFp == ~ty.agg /\ Classify(ty) = <<"SSE">> /\ va.fp < FP_MAX
         at == IF ty.align > 8 THEN AlignTo(va.overflow, 16) ELSE va.overflow
     IN \/ /\ inGp
           /\ fetched' = Append(fetched, gpRegs[va.gp][1])
           /\ va' = [va EXCEPT !.gp = @ + 1]
        \/ /\ inFp
           /\ fetched' = Append(fetched, IF al = 0 THEN Nothing[1] ELSE fpRegs[va.fp][1])
           /\ va' = [va EXCEPT !.fp = @ + 1]
        \/ /\ ~inGp /\ ~inFp
           /\ fetched' = Append(fetched, OnStack(at))
           /\ va' = [va EXCEPT !.overflow = at + AlignTo(ty.size, 8)]
  /\ UNCHANGED <<call, phase, gp, fp, caller, top, bottom, offset, home>>

Stopped == (Past("body", Len(Args)) \/ phase = "internal error") /\ UNCHANGED vars

Next ==
  \/ CountArg \/ Reserve \/ StageArg \/ LoadHidden \/ LoadArg \/ EmitCall
  \/ PlaceParam \/ PlaceLocals \/ PlaceLocal \/ InitVaList \/ SaveParam \/ EnterBody
  \/ VaArg \/ Stopped

Spec == Init /\ [][Next]_vars

-----------------------------------------------------------------------------
(* Properties. *)

Contents == {Nothing} \cup ((0 .. Len(Args)) \X {1, 2})

TypeOK ==
  /\ phase \in {"count", "stage", "load", "place", "locals", "save", "body", "internal error"}
  /\ i \in 1 .. Len(Args) + Len(Locals) + 2
  /\ gp \in 0 .. GP_MAX /\ fp \in 0 .. FP_MAX /\ al \in Nat
  /\ counted \in Seq([gp : 0 .. GP_MAX, fp : 0 .. FP_MAX, size : Nat])
  /\ size \in Nat /\ area \in Nat /\ area % 16 = 0
  /\ \A s \in out : s.arg \in DOMAIN Args /\ s.off \in Nat /\ s.off % 8 = 0
  /\ gpRegs \in [0 .. GP_MAX - 1 -> Contents]
  /\ fpRegs \in [0 .. FP_MAX - 1 -> Contents]
  /\ top \in Nat /\ bottom \in Nat
  /\ offset \in [DOMAIN Locals -> Int]
  /\ home \in [DOMAIN Params -> [1 .. 2 -> Contents]]
  /\ va \in [gp : 0 .. GP_MAX, fp : 0 .. FP_MAX, overflow : Nat]

(* "consume the GP/FP register sequences exactly as the second pass will"    *)
(* (sysv64.c:1451): at every argument the second and third passes of the     *)
(* caller are where the first pass was, and they fill no more than it        *)
(* reserved.                                                                 *)
PassesAgree ==
  /\ phase = "stage" => counted[i] = [gp |-> gp, fp |-> fp, size |-> size]
  /\ phase = "load" => counted[i].gp = gp /\ counted[i].fp = fp /\ counted[Len(Args) + 1].size = size
  /\ phase \in {"stage", "load"} => size <= area

(* The callee finds every named argument, and the pointer to the return     *)
(* buffer, where the caller put it: on the stack at its offset, or each     *)
(* eightbyte in the register of its class.                                  *)
Received(p) ==
  LET at == offset[LocalOfParam(p)]
      a == Params[p].arg
  IN IF at > 0 THEN [arg |-> a, off |-> at - 16] \in out
     ELSE \A e \in DOMAIN Classify(Params[p].ty) : home[p][e] = <<a, e>>

ArgumentsArrive == phase = "body" => \A p \in DOMAIN Params : Received(p)

(* An unnamed argument is one that va_arg looks for in a vector register. *)
TakesFloats == \E a \in call.named + 1 .. Len(Args) : ~Args[a].agg /\ Classify(Args[a]) = <<"SSE">>

(* What the body of the callee has read through va_arg in the end. *)
UnnamedFetched ==
  Past("body", Len(Args)) => fetched = [k \in 1 .. Len(Args) - call.named |-> call.named + k]

(* va_arg yields the unnamed arguments in order, whatever the named ones    *)
(* and the hidden pointer have used up, where the prologue has saved the    *)
(* vector registers if one of them may be there.                            *)
VectorsSaved == TakesFloats => al # 0
VariadicArrive == VectorsSaved => UnnamedFetched

(* "We can avoid touching the FP save area entirely when it is zero", for   *)
(* then "%al contains the number of XMM registers used by a variadic call"  *)
(* (sysv64.c:1219-1220): va_arg yields floating-point arguments however the *)
(* callee's frame lies.  It does not where the save area begins at an       *)
(* address whose low byte is zero.                                          *)
VariadicFloatsArrive == UnnamedFetched

(* Locals and saved parameters overlap neither each other nor the callee-   *)
(* saved registers at -40(%rbp), and lie in the frame.                      *)
FrameDisjoint ==
  phase \in {"save", "body"} =>
    \A l \in DOMAIN Locals : offset[l] < 0 =>
      /\ -bottom <= offset[l] /\ offset[l] + Locals[l].size <= -40
      /\ \A m \in DOMAIN Locals : m # l =>
           offset[m] >= offset[l] + Locals[l].size \/ offset[m] + Locals[m].size <= offset[l]

(* Both decide as they decided before: the caller's passes about what is in  *)
(* registers, the callee's layout about what is in use below %rbp.           *)
LayoutsAgree == PassesAgree /\ FrameDisjoint
=============================================================================
