------------------------------- MODULE Win64 --------------------------------
(***************************************************************************)
(* A call under the Microsoft x64 convention (abi/win64/win64.c), byte by  *)
(* byte, from the moment the caller's arguments are in virtual registers   *)
(* to the moment the result is: the code win64_emit_call, _emit_prologue,   *)
(* _emit_return and _emit_epilogue emit is executed, an action for each     *)
(* group of instructions, over the layout of win64_assign_lvar_offsets.     *)
(*                                                                         *)
(* A byte is known by where it comes from: <<"arg", a, k>> is byte k of     *)
(* argument a, <<"addr", x, k>> byte k of an address: of object x when x is *)
(* not negative, of memory when it is.  Addresses count from the caller's   *)
(* stack pointer, which is 0 before the call.                              *)
(***************************************************************************)
EXTENDS Integers, Sequences, FiniteSets

CONSTANT Win64Calls
  \* set of [args, named, variadic, ret, locals, spills, mask, first, target]

VARIABLES
  msCall,    \* the call
  step,      \* the part of the code that runs
  nth,       \* the argument or parameter it is at
  reg, xmm,  \* contents of the registers, eight bytes each
  mem,       \* the bytes of the stack that were written
  sp, rbp,
  frame,     \* the callee's layout: offsets of parameters and locals, bases and size
  buffer,    \* the caller's object for an aggregate returned in memory
  vaArgs,    \* what va_arg found
  dst        \* the virtual register of the result

win64Vars == <<msCall, step, nth, reg, xmm, mem, sp, rbp, frame, buffer, vaArgs, dst>>

-----------------------------------------------------------------------------
(* Bytes and words. *)

Junk == <<"junk", 0, 0>>
Object(what, x) == [k \in 0 .. 7 |-> <<what, x, k>>]
Address(x) == Object("addr", x)
JunkWord == [k \in 0 .. 7 |-> Junk]

ReadByte(at) == IF at \in DOMAIN mem THEN mem[at] ELSE Junk
ReadWord(at) == [k \in 0 .. 7 |-> ReadByte(at + k)]
Written(m, at, n, bytes(_)) ==
  [x \in DOMAIN m \cup (at .. at + n - 1) |-> IF x \in at .. at + n - 1 THEN bytes(x - at) ELSE m[x]]

(* The object a word points to; none if it is not an address.  The objects  *)
(* are the arguments, the buffer (0), the result and the function called,   *)
(* at odd addresses, where no slot is.                                      *)
RESULT == -1
TARGET == -3
Pointed(word, k) ==
  IF word # Address(word[0][2]) THEN Junk
  ELSE CASE word[0][2] = RESULT -> <<"result", 0, k>>
         [] word[0][2] = 0      -> Junk
         [] OTHER               -> <<"arg", word[0][2], k>>

(* The low n bytes, the others as movzx, movsx or a 32-bit move leave them. *)
Low(word, n) == [k \in 0 .. 7 |-> IF k < n THEN word[k] ELSE Junk]

AlignUp(n, a) == ((n + a - 1) \div a) * a

-----------------------------------------------------------------------------
(* Types are [class, size, align], of class int, float, agg or void. *)

Types64 ==
  {ty \in [class : {"int", "float", "agg", "void"}, size : Nat, align : Nat \ {0}] :
     ty.class \in {"int", "float"} => ty.size \in 1 .. 8}

REG_MAX == 4
SHADOW == 32
argreg64 == <<"rcx", "rdx", "r8", "r9">>
pool == <<"rbx", "r12", "r13", "r14", "r15", "r11">>  \* of the register allocator
Registers == {argreg64[n] : n \in 1 .. 4} \cup {pool[n] : n \in 1 .. 6} \cup {"rax", "r10"}
Preserved == {pool[n] : n \in 1 .. 5}

win64_returns_by_reference(ty) == ty.class = "agg" /\ ty.size \notin {1, 2, 4, 8}

Variadic64 == msCall.variadic
Hidden64 == win64_returns_by_reference(msCall.ret)
PointerType == [class |-> "int", size |-> 8, align |-> 8]

(* fn->params: the hidden one first. *)
Params64 ==
  (IF Hidden64 THEN <<[arg |-> 0, ty |-> PointerType]>> ELSE <<>>)
    \o [a \in 1 .. msCall.named |-> [arg |-> a, ty |-> msCall.args[a]]]

(* fn->locals but for the parameters: __alloca_size__ and __va_area__ are   *)
(* the first ones made.                                                     *)
Locals64 ==
  msCall.locals \o <<[size |-> 8, align |-> 8]>> \o (IF Variadic64 THEN <<[size |-> 8, align |-> 1]>> ELSE <<>>)
AllocaBottom == Len(msCall.locals) + 1
VaArea64 == AllocaBottom + 1

(* Mutant: nothing is reserved for the callee-saved registers. *)
FirstBottomZero == 0

(* Seven callee-saved registers are stored from -8(%rbp) on. *)
FirstBottom == 56

Below(bottom, v) == AlignUp(bottom, v.align) + v.size

(* What win64_assign_lvar_offsets puts below %rbp, one below the other: the  *)
(* copies of large aggregates, which nothing stands for where a parameter   *)
(* stays in its slot, and the locals.                                       *)
NoCopy == [size |-> 0, align |-> 1]
Laid ==
  [p \in DOMAIN Params64 |->
     IF win64_returns_by_reference(Params64[p].ty) THEN Params64[p].ty ELSE NoCopy] \o Locals64
Bottom ==
  LET bottom[n \in 0 .. Len(Laid)] ==
        IF n = 0 THEN FirstBottom ELSE LET prev == bottom[n - 1] IN Below(prev, Laid[n])
  IN bottom

(* The other parameters are in the slot of their position.  (On the stack   *)
(* top counts the slots, but not that of a large aggregate.)                *)
Top(p) == 48 + 8 * Cardinality({q \in REG_MAX + 1 .. p - 1 : ~win64_returns_by_reference(Params64[q].ty)})
ParamOffset(p) ==
  IF win64_returns_by_reference(Params64[p].ty) THEN -Bottom[p]
  ELSE IF p <= REG_MAX THEN 16 + (p - 1) * 8 ELSE Top(p)

(* The spill slots follow (win64_get_spill_base, win64_finalize_stack). *)
Layout64 ==
  LET base == AlignUp(Bottom[Len(Laid)], 16) IN
  [param |-> [p \in DOMAIN Params64 |-> ParamOffset(p)],
   local |-> [l \in DOMAIN Locals64 |-> -Bottom[Len(Params64) + l]],
   spillBase |-> base, size |-> AlignUp(base + 8 * msCall.spills, 16)]

ParamAt(p) == rbp + frame.param[p]
LocalAt(l) == rbp + frame.local[l]

-----------------------------------------------------------------------------
(* The caller. *)

(* Mutant: the hidden pointer takes no position. *)
NoExtra == 0

Extra == IF Hidden64 THEN 1 ELSE 0
TotalArgs == Len(msCall.args) + Extra
TotalAlloc == AlignUp(SHADOW + (IF TotalArgs > REG_MAX THEN TotalArgs - REG_MAX ELSE 0) * 8, 16)

(* The virtual registers of the arguments take the physical ones from       *)
(* msCall.first on; those left over are in stack slots (home 7).            *)
HomeOf(a) == IF a + msCall.first - 1 <= 6 THEN a + msCall.first - 1 ELSE 7

(* The calls of a program: at least the named arguments are there, none is  *)
(* void, and no other virtual register is where the target is.              *)
IsMsCall(c) ==
  /\ c.args \in Seq({ty \in Types64 : ty.class # "void"})
  /\ c.named \in 0 .. Len(c.args) /\ (~c.variadic => c.named = Len(c.args))
  /\ c.ret \in Types64
  /\ c.locals \in Seq([size : Nat, align : Nat \ {0}]) /\ c.spills \in Nat
  /\ c.mask \in SUBSET (1 .. 5) /\ c.first \in Nat \ {0}
  /\ c.target \in 0 .. 7 /\ \A a \in DOMAIN c.args : c.target \in 1 .. 6 => a + c.first - 1 # c.target

ASSUME Win64CallsAreTyped == \A c \in Win64Calls : IsMsCall(c)

(* What a virtual register holds: a value of size bytes or the address of   *)
(* an aggregate.                                                            *)
ValueOf(a) == IF msCall.args[a].class = "agg" THEN Address(a) ELSE Low(Object("arg", a), msCall.args[a].size)

(* What a physical register holds before the call. *)
Held(n) ==
  IF \E a \in DOMAIN msCall.args : HomeOf(a) = n THEN ValueOf(CHOOSE a \in DOMAIN msCall.args : HomeOf(a) = n)
  ELSE IF msCall.target = n THEN Address(TARGET)
  ELSE Object("reg", n)

InitWin64 ==
  /\ msCall \in Win64Calls
  /\ step = "call" /\ nth = 1 /\ sp = 0 /\ rbp = 0 /\ frame = <<>> /\ vaArgs = <<>>
  /\ reg = [r \in Registers |->
              IF \E n \in 1 .. 6 : r = pool[n] THEN Held(CHOOSE n \in 1 .. 6 : r = pool[n]) ELSE JunkWord]
  /\ xmm = [n \in 0 .. 3 |-> JunkWord]
  /\ mem = <<>>
  /\ buffer = [k \in 0 .. msCall.ret.size - 1 |-> Junk]
  /\ dst = JunkWord

(* win64_load_vreg: from the physical register, or from the slot with the   *)
(* extension its type asks for.                                             *)
LoadVreg(a) == IF HomeOf(a) <= 6 THEN reg[pool[HomeOf(a)]] ELSE ValueOf(a)

ReserveArea ==
  /\ step = "call"
  /\ sp' = sp - TotalAlloc
  /\ reg' = IF Hidden64 THEN [reg EXCEPT !["rcx"] = Address(0)] ELSE reg
  /\ step' = "args" /\ nth' = 1
  /\ UNCHANGED <<msCall, xmm, mem, rbp, frame, buffer, vaArgs, dst>>

(* win64_load_call_arg: a small aggregate is read through %rax. *)
LoadedArg(a) ==
  LET ty == msCall.args[a]
      word == LoadVreg(a)
  IN IF ty.class = "agg" /\ ty.size \in {1, 2, 4, 8} THEN Low([k \in 0 .. 7 |-> Pointed(word, k)], ty.size) ELSE word
ThroughRax(a) == msCall.args[a].class = "agg" /\ ~win64_returns_by_reference(msCall.args[a])

PassArg ==
  /\ step = "args" /\ nth <= Len(msCall.args)
  /\ nth' = nth + 1
  /\ LET word == LoadedArg(nth)
         pos == nth - 1 + Extra
     IN \/ /\ pos < REG_MAX
           /\ reg' = [r \in Registers |->
                       IF r = argreg64[pos + 1] \/ (r = "rax" /\ ThroughRax(nth)) THEN word ELSE reg[r]]
           /\ xmm' = IF msCall.args[nth].class = "float" THEN [xmm EXCEPT ![pos] = word] ELSE xmm
           /\ mem' = mem
        \/ /\ pos >= REG_MAX
           /\ reg' = [reg EXCEPT !["rax"] = word]
           /\ mem' = Written(mem, sp + SHADOW + (pos - REG_MAX) * 8, 8, LAMBDA k : word[k])
           /\ xmm' = xmm
  /\ UNCHANGED <<msCall, step, sp, rbp, frame, buffer, vaArgs, dst>>

(* The target, if it is computed, goes through %r10. *)
CallTarget ==
  /\ step = "args" /\ nth = Len(msCall.args) + 1
  /\ reg' = IF msCall.target = 0 THEN reg
            ELSE [reg EXCEPT !["r10"] = IF msCall.target = 7 THEN Address(TARGET) ELSE reg[pool[msCall.target]]]
  /\ sp' = sp - 8
  /\ mem' = Written(mem, sp - 8, 8, LAMBDA k : <<"return", 0, k>>)
  /\ step' = "prologue"
  /\ UNCHANGED <<msCall, nth, xmm, rbp, frame, buffer, vaArgs, dst>>

-----------------------------------------------------------------------------
(* The callee. *)

(* push %rbp, the frame (through ___chkstk_ms when it is a page or more),   *)
(* the callee-saved registers the function uses, the stack pointer for      *)
(* alloca and, when variadic, all argument registers.                       *)
Prologue ==
  /\ step = "prologue"
  /\ rbp' = sp - 8
  /\ frame' = Layout64
  /\ sp' = rbp' - frame'.size
  /\ LET pushed == Written(mem, rbp', 8, LAMBDA k : <<"rbp", 0, k>>)
         slots == UNION {rbp' - 8 * n .. rbp' - 8 * n + 7 : n \in msCall.mask}
         saved == [x \in DOMAIN pushed \cup slots |->
                    IF x \in slots THEN reg[pool[(rbp' - 1 - x) \div 8 + 1]][(x - rbp') % 8] ELSE pushed[x]]
         bottom == Written(saved, rbp' + frame'.local[AllocaBottom], 8, LAMBDA k : Address(sp')[k])
         homed == Written(bottom, rbp' + 16, 8 * REG_MAX, LAMBDA k : reg[argreg64[k \div 8 + 1]][k % 8])
     IN mem' = IF Variadic64 THEN homed ELSE bottom
  /\ reg' = IF frame'.size >= 4096 THEN [reg EXCEPT !["rax"] = JunkWord] ELSE reg
  /\ step' = "params" /\ nth' = 1
  /\ UNCHANGED <<msCall, xmm, buffer, vaArgs, dst>>

(* win64_copy_bytes_to_rbp and the loop of copy_struct_mem: words, then at  *)
(* most one move of four, two and one byte, as <<from, size>>.              *)
Moves(size) ==
  LET words == size \div 8
      rest == size % 8
  IN {<<8 * w, 8>> : w \in 0 .. words - 1}
       \cup (IF rest >= 4 THEN {<<8 * words, 4>>} ELSE {})
       \cup (IF rest % 4 >= 2 THEN {<<8 * words + 4 * (rest \div 4), 2>>} ELSE {})
       \cup (IF rest % 2 = 1 THEN {<<size - 1, 1>>} ELSE {})
Moved(size) == UNION {m[1] .. m[1] + m[2] - 1 : m \in Moves(size)}

(* A parameter leaves its register; a large aggregate is copied through     *)
(* %r10 and %rax from where its pointer is.                                 *)
TakeParam ==
  /\ step = "params" /\ nth <= Len(Params64)
  /\ nth' = nth + 1
  /\ LET ty == Params64[nth].ty
         pointer == IF nth <= REG_MAX THEN reg[argreg64[nth]] ELSE ReadWord(rbp + 48 + (nth - 1 - REG_MAX) * 8)
         word == IF ty.class = "float" THEN xmm[nth - 1] ELSE reg[argreg64[nth]]
     IN \/ /\ win64_returns_by_reference(ty)
           /\ reg' = [reg EXCEPT !["r10"] = pointer, !["rax"] = JunkWord]
           /\ mem' = [x \in DOMAIN mem \cup {ParamAt(nth) + k : k \in Moved(ty.size)} |->
                        IF x - ParamAt(nth) \in Moved(ty.size) THEN Pointed(pointer, x - ParamAt(nth)) ELSE mem[x]]
        \/ /\ ~win64_returns_by_reference(ty) /\ nth <= REG_MAX
           /\ mem' = Written(mem, ParamAt(nth), ty.size, LAMBDA k : word[k])
           /\ reg' = reg
        \/ /\ ~win64_returns_by_reference(ty) /\ nth > REG_MAX
           /\ UNCHANGED <<reg, mem>>
  /\ UNCHANGED <<msCall, step, xmm, sp, rbp, frame, buffer, vaArgs, dst>>

(* The va_list of a variadic function: the slot behind the named ones. *)
StartVaList ==
  /\ step = "params" /\ nth = Len(Params64) + 1
  /\ mem' = IF Variadic64
            THEN Written(mem, LocalAt(VaArea64), 8, LAMBDA k : Address(rbp + 16 + Len(Params64) * 8)[k])
            ELSE mem
  /\ reg' = IF Variadic64 THEN [reg EXCEPT !["rax"] = Address(rbp + 16 + Len(Params64) * 8)] ELSE reg
  /\ step' = "body" /\ nth' = msCall.named + 1
  /\ UNCHANGED <<msCall, xmm, sp, rbp, frame, buffer, vaArgs, dst>>

(* abi_va_arg_ptr with slots of eight bytes. *)
VaArg64 ==
  /\ step = "body" /\ nth <= Len(msCall.args)
  /\ nth' = nth + 1
  /\ LET at == ReadByte(LocalAt(VaArea64))[2] IN
     /\ vaArgs' = Append(vaArgs, [k \in 0 .. msCall.args[nth].size - 1 |-> ReadByte(at + k)])
     /\ mem' = Written(mem, LocalAt(VaArea64), 8, LAMBDA k : Address(at + 8)[k])
  /\ UNCHANGED <<msCall, step, reg, xmm, sp, rbp, frame, buffer, dst>>

(* The body uses every register it may and assigns to every variable and    *)
(* spill slot; the hidden pointer is no variable of the program.            *)
Body64 ==
  /\ step = "body" /\ nth = Len(msCall.args) + 1
  /\ reg' = [r \in Registers |-> IF r \in Preserved \ {pool[n] : n \in msCall.mask} THEN reg[r] ELSE JunkWord]
  /\ xmm' = [n \in 0 .. 3 |-> JunkWord]
  /\ LET assigned ==
           UNION ({ParamAt(p) .. ParamAt(p) + Params64[p].ty.size - 1 : p \in 1 + Extra .. Len(Params64)}
             \cup {LocalAt(l) .. LocalAt(l) + Locals64[l].size - 1 : l \in DOMAIN Locals64}
             \cup {rbp - frame.size .. rbp - frame.spillBase - 1})
     IN mem' = [x \in DOMAIN mem \cup assigned |-> IF x \in assigned THEN Junk ELSE mem[x]]
  /\ step' = "return"
  /\ UNCHANGED <<msCall, nth, sp, rbp, frame, buffer, vaArgs, dst>>

(* LLIR_RET: a scalar in %rax or %xmm0, or the address of an aggregate in   *)
(* %rax, of which win64_copy_struct_reg makes a value and _copy_struct_mem  *)
(* a copy for the caller.                                                   *)
EmitReturn ==
  /\ step = "return"
  /\ LET ty == msCall.ret
         value == Low(Object("result", 0), ty.size)
         pointer == ReadWord(ParamAt(1))
     IN \/ /\ win64_returns_by_reference(ty)
           /\ buffer' = [k \in DOMAIN buffer |->
                          IF pointer = Address(0) /\ k \in Moved(ty.size) THEN Pointed(Address(RESULT), k) ELSE buffer[k]]
           /\ reg' = [reg EXCEPT !["r10"] = pointer, !["rax"] = pointer, !["rdx"] = JunkWord]
           /\ xmm' = xmm
        \/ /\ ty.class = "float"
           /\ xmm' = [xmm EXCEPT ![0] = value]
           /\ UNCHANGED <<reg, buffer>>
        \/ /\ ty.class = "int" \/ (ty.class = "agg" /\ ~win64_returns_by_reference(ty))
           /\ reg' = [reg EXCEPT !["rax"] = value]
           /\ UNCHANGED <<xmm, buffer>>
        \/ /\ ty.class = "void"
           /\ UNCHANGED <<reg, xmm, buffer>>
  /\ step' = "epilogue"
  /\ UNCHANGED <<msCall, nth, mem, sp, rbp, frame, vaArgs, dst>>

(* The registers are restored, the frame and the return address popped; no *)
(* return without the latter.                                               *)
Epilogue ==
  /\ step = "epilogue"
  /\ reg' = [r \in Registers |->
              IF \E n \in msCall.mask : r = pool[n] THEN ReadWord(rbp - 8 * (CHOOSE n \in msCall.mask : r = pool[n])) ELSE reg[r]]
  /\ step' = IF ReadWord(rbp) = Object("rbp", 0) /\ ReadWord(rbp + 8) = Object("return", 0) THEN "result" ELSE "lost"
  /\ sp' = rbp + 16
  /\ rbp' = 0
  /\ UNCHANGED <<msCall, nth, xmm, mem, frame, buffer, vaArgs, dst>>

TakeResult ==
  /\ step = "result"
  /\ sp' = sp + TotalAlloc
  /\ dst' = CASE Hidden64 \/ msCall.ret.class = "void" -> dst
              [] ~Hidden64 /\ msCall.ret.class = "float" -> xmm[0]
              [] OTHER -> reg["rax"]
  /\ step' = "done"
  /\ UNCHANGED <<msCall, nth, reg, xmm, mem, rbp, frame, buffer, vaArgs>>

Returned == step \in {"done", "lost"} /\ UNCHANGED win64Vars

NextWin64 ==
  \/ ReserveArea \/ PassArg \/ CallTarget
  \/ Prologue \/ TakeParam \/ StartVaList \/ VaArg64 \/ Body64 \/ EmitReturn \/ Epilogue
  \/ TakeResult \/ Returned

Win64Spec == InitWin64 /\ [][NextWin64]_win64Vars

-----------------------------------------------------------------------------
(* Properties. *)

Value(a) == [k \in 0 .. msCall.args[a].size - 1 |-> <<"arg", a, k>>]

(* "Every argument consumes exactly one positional slot" (win64.c:372): the  *)
(* callee is the one meant, its parameters hold the caller's arguments byte  *)
(* by byte, wherever the arguments and the target were before and whichever  *)
(* are passed by reference, and va_arg finds the others in order.            *)
Win64Delivers ==
  /\ step = "prologue" /\ msCall.target # 0 => reg["r10"] = Address(TARGET)
  /\ step = "body" =>
       /\ \A p \in DOMAIN Params64 :
            [k \in 0 .. Params64[p].ty.size - 1 |-> ReadByte(ParamAt(p) + k)]
              = (IF Params64[p].arg = 0 THEN Address(0) ELSE Value(Params64[p].arg))
       /\ \A n \in DOMAIN vaArgs : vaArgs[n] = Value(msCall.named + n)

(* The caller goes on as if the call had been an instruction: its stack      *)
(* pointer is back, the registers the convention preserves hold what they    *)
(* held although the body used its frame and its registers to the full, and  *)
(* the result is in the register, or the buffer, that was to receive it.     *)
(* While the callee runs the stack is aligned to 16 bytes.                   *)
Win64Returns ==
  /\ step # "lost"
  /\ step = "body" => sp % 16 = 0
  /\ step = "done" =>
       /\ sp = 0
       /\ \A n \in 1 .. 5 : reg[pool[n]] = Held(n)
       /\ IF Hidden64
          THEN \A k \in DOMAIN buffer : buffer[k] = <<"result", 0, k>>
          ELSE msCall.ret.class # "void" => \A k \in 0 .. msCall.ret.size - 1 : dst[k] = <<"result", 0, k>>
=============================================================================
