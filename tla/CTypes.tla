------------------------------- MODULE CTypes --------------------------------
(***************************************************************************)
(* The types of type.c, and the typed syntax trees the parser builds with    *)
(* them: add_type gives every node its type and makes the conversions C       *)
(* leaves implicit into casts.  At the end, the layout of structs and unions.  *)
(*                                                                         *)
(* A type is a record.  A struct or a union is known by its id, and the       *)
(* parser keeps its size and members under that id: a pointer to an           *)
(* incomplete struct sees the members its completion brings.  Sizes are in    *)
(* bytes as in the program; a value of a type of n bytes has n bits in        *)
(* Trees, so that values stay small.  Floating types have sizes and           *)
(* conversions here but no values.                                            *)
(***************************************************************************)
EXTENDS Trees

CType(k, size, unsigned) ==
  [k |-> k, size |-> size, align |-> size, unsigned |-> unsigned, base |-> <<>>, len |-> 0,
   ret |-> <<>>, params |-> <<>>, names |-> <<>>, variadic |-> FALSE, abi |-> "", id |-> 0]

ty_void == CType("void", 1, FALSE)
ty_bool == CType("bool", 1, FALSE)
ty_char == CType("char", 1, FALSE)
ty_short == CType("short", 2, FALSE)
ty_int == CType("int", 4, FALSE)
ty_long == CType("long", 8, FALSE)
ty_llong == CType("llong", 8, FALSE)
ty_float == CType("float", 4, FALSE)
ty_double == CType("double", 8, FALSE)
ty_ldouble == CType("ldouble", 16, FALSE)
Unsigned(ty) == [ty EXCEPT !.unsigned = TRUE]
ty_uchar == Unsigned(ty_char)
ty_ushort == Unsigned(ty_short)
ty_uint == Unsigned(ty_int)
ty_ulong == Unsigned(ty_long)
ty_ullong == Unsigned(ty_llong)

is_integer(ty) == ty.k \in {"bool", "char", "short", "int", "long", "llong", "enum"}
is_flonum(ty) == ty.k \in {"float", "double", "ldouble"}
is_numeric(ty) == is_integer(ty) \/ is_flonum(ty)

pointer_to(base) == [CType("ptr", 8, TRUE) EXCEPT !.base = <<base>>]
array_of(base, len) ==
  [CType("array", base.size * len, FALSE) EXCEPT !.base = <<base>>, !.len = len, !.align = base.align]
func_type(ret) == [CType("func", 1, FALSE) EXCEPT !.ret = <<ret>>]
enum_type(id) == [CType("enum", 4, FALSE) EXCEPT !.id = id]
struct_type(k, id) == [CType(k, 0, FALSE) EXCEPT !.align = 1, !.id = id]

HasBase(ty) == ty.base # <<>>
Base(ty) == ty.base[1]

(* Structs, unions and enums are compatible with themselves alone. *)
RECURSIVE is_compatible(_, _)
is_compatible(t1, t2) ==
  t1.k = t2.k /\
    CASE t1.k \in {"char", "short", "int", "long", "llong"} -> t1.unsigned = t2.unsigned
      [] t1.k \in {"void", "bool", "float", "double", "ldouble"} -> TRUE
      [] t1.k \in {"struct", "union", "enum"} -> t1.id = t2.id
      [] t1.k = "ptr" -> is_compatible(Base(t1), Base(t2))
      [] t1.k = "func" ->
           /\ is_compatible(t1.ret[1], t2.ret[1])
           /\ t1.variadic = t2.variadic
           /\ Len(t1.params) = Len(t2.params)
           /\ \A i \in DOMAIN t1.params : is_compatible(t1.params[i], t2.params[i])
      [] t1.k = "array" ->
           /\ is_compatible(Base(t1), Base(t2))
           /\ t1.len < 0 \/ t2.len < 0 \/ t1.len = t2.len

get_common_type(t1, t2) ==
  LET wide(t) == IF t.size < 4 THEN ty_int ELSE t
      a == wide(t1)
      b == wide(t2)
      flonum == {"ldouble", "double", "float"} \cap {t1.k, t2.k}
  IN IF HasBase(t1) THEN pointer_to(Base(t1))
     ELSE IF t1.k = "func" THEN pointer_to(t1)
     ELSE IF t2.k = "func" THEN pointer_to(t2)
     ELSE IF "ldouble" \in flonum THEN ty_ldouble
     ELSE IF "double" \in flonum THEN ty_double
     ELSE IF "float" \in flonum THEN ty_float
     ELSE IF a.size # b.size THEN IF a.size < b.size THEN b ELSE a
     ELSE IF b.unsigned THEN b ELSE a

-----------------------------------------------------------------------------
(* add_type: a node of each kind with the type, and the casts, it gets. *)

new_cast(e, ty) == Cast(e, ty)

(* usual_arith_conv on the operands; a comparison is an int, as in Trees but  *)
(* with the parser's own type.                                                *)
Arithmetic(op, l, r) ==
  LET ty == get_common_type(l.ty, r.ty)
  IN [k |-> op, lhs |-> new_cast(l, ty), rhs |-> new_cast(r, ty),
      ty |-> IF op \in Compares THEN ty_int ELSE ty]

(* The type of a shift or a complement is that of its left operand. *)
Shift(op, l, r) == [k |-> op, lhs |-> l, rhs |-> r, ty |-> l.ty]
Complement(e) == [k |-> "not", lhs |-> e, ty |-> e.ty]
Negate(e) == LET ty == get_common_type(ty_int, e.ty) IN [k |-> "neg", lhs |-> new_cast(e, ty), ty |-> ty]
LogicalNot(e) == [k |-> "lognot", lhs |-> e, ty |-> ty_int]
LogicalOp(op, l, r) == [k |-> op, lhs |-> l, rhs |-> r, ty |-> ty_int]

(* The right operand is cast unless a struct or a union is assigned. *)
AssignTo(l, r) ==
  [k |-> "assign", lhs |-> l, ty |-> l.ty,
   rhs |-> IF l.ty.k \in {"struct", "union"} THEN r ELSE new_cast(r, l.ty)]

Conditional(c, a, b) ==
  LET ty == get_common_type(a.ty, b.ty)
      void == a.ty.k = "void" \/ b.ty.k = "void"
  IN [k |-> "cond", cond |-> c, then |-> IF void THEN a ELSE new_cast(a, ty),
      els |-> IF void THEN b ELSE new_cast(b, ty), ty |-> IF void THEN ty_void ELSE ty]

TakeAddress(e) ==
  [k |-> "addr", lhs |-> e, ty |-> pointer_to(IF e.ty.k = "array" THEN Base(e.ty) ELSE e.ty)]

(* An error of the program unless the operand points to an object. *)
Dereferenceable(e) == HasBase(e.ty) /\ Base(e.ty).k # "void"
Dereference(e) == Deref(e, Base(e.ty))

-----------------------------------------------------------------------------
(* How struct_decl and union_decl of parse.c place the members of a struct    *)
(* or a union, and what the System V ABI says of the same list of members.   *)
(* A member is a record: the size of its type, its alignment (the type's or  *)
(* that of an _Alignas), whether it has a name, and for a bit-field its      *)
(* width.  Bytes have eight bits, as in the program.                         *)

AlignTo(n, align) == ((n + align - 1) \div align) * align
align_down(n, align) == AlignTo(n - align + 1, align)

(* A member laid out: the byte offset of the unit it is accessed through and, *)
(* for a bit-field, the first bit in that unit.                               *)
Placed(offset, bitOffset) == [offset |-> offset, bitOffset |-> bitOffset]
Nowhere == Placed(0, 0)

(* A bit-field that begins there would straddle two units of its type. *)
StraddlesPast(bit, m) == bit \div (m.size * 8) # (bit + m.width) \div (m.size * 8)
Straddles(bit, m) == bit \div (m.size * 8) # (bit + m.width - 1) \div (m.size * 8)

(* One turn of the loop of struct_decl: the bits used so far, the alignment   *)
(* reached and the places given out.                                          *)
PlaceMember(l, m, packed) ==
  LET unit == m.size * 8
      field == IF Straddles(l.bits, m) THEN AlignTo(l.bits, unit) ELSE l.bits
      plain == IF packed THEN l.bits ELSE AlignTo(l.bits, m.align * 8)
      aligned == IF packed \/ l.align >= m.align THEN l.align ELSE m.align
  IN IF m.isBitfield /\ m.width = 0
     THEN [bits |-> AlignTo(l.bits, unit), align |-> aligned, at |-> Append(l.at, Nowhere)]
     ELSE IF m.isBitfield
     THEN [bits |-> field + m.width, align |-> aligned,
           at |-> Append(l.at, Placed(align_down(field \div 8, m.size), field % unit))]
     ELSE [bits |-> plain + m.size * 8, align |-> aligned, at |-> Append(l.at, Placed(plain \div 8, 0))]

(* align: what the attributes of the struct ask for, 1 if nothing. *)
StructLayout(members, packed, align) ==
  LET laid[i \in 0 .. Len(members)] ==
        IF i = 0 THEN [bits |-> 0, align |-> align, at |-> <<>>]
        ELSE PlaceMember(laid[i - 1], members[i], packed)
      all == laid[Len(members)]
  IN [size |-> AlignTo(all.bits, all.align * 8) \div 8, align |-> all.align, at |-> all.at]

(* The least upper bound of a set of naturals that holds 0 or more of them. *)
Largest(S, least) == IF \A n \in S : n <= least THEN least ELSE CHOOSE n \in S : \A m \in S : m <= n

UnionLayout(members, align) ==
  LET aligned == Largest({members[i].align : i \in DOMAIN members}, align)
      size == Largest({members[i].size : i \in DOMAIN members}, 0)
  IN [size |-> AlignTo(size, aligned), align |-> aligned, at |-> [i \in DOMAIN members |-> Nowhere]]

-----------------------------------------------------------------------------
(* The ABI, without a computation: what a layout has to satisfy.              *)

FirstBit(at) == at.offset * 8 + at.bitOffset
WidthOf(m) == IF m.isBitfield THEN m.width ELSE m.size * 8
Separator(m) == m.isBitfield /\ m.width = 0

(* Where a member may begin: a plain one where its alignment allows, a        *)
(* bit-field where it lies within one unit of its type.                       *)
MayBegin(m, bit, packed) ==
  IF m.isBitfield THEN bit \div (m.size * 8) = (bit + m.width - 1) \div (m.size * 8)
  ELSE bit % (8 * IF packed THEN 1 ELSE m.align) = 0

(* The end of what comes before member i: the last member laid out, and the   *)
(* unit a separator closes.                                                   *)
EndBefore(members, at, i) ==
  LET end[j \in 0 .. i - 1] ==
        IF j = 0 THEN 0
        ELSE IF Separator(members[j]) THEN AlignTo(end[j - 1], members[j].size * 8)
        ELSE FirstBit(at[j]) + WidthOf(members[j])
  IN end[i - 1]

(* Every member begins at the first bit it may begin at. *)
IsStructLayout(members, l, packed, align) ==
  LET end == EndBefore(members, l.at, Len(members) + 1)
      asked == {align} \cup {members[i].align : i \in {j \in DOMAIN members : ~packed}}
  IN /\ \A i \in DOMAIN members : Separator(members[i]) \/
          LET first == FirstBit(l.at[i])
              from == EndBefore(members, l.at, i)
          IN /\ first >= from
             /\ MayBegin(members[i], first, packed)
             /\ \A b \in from .. first - 1 : ~MayBegin(members[i], b, packed)
     /\ l.align = Largest(asked, 1)
     /\ l.size * 8 \in end .. end + l.align * 8 - 1
     /\ l.size % l.align = 0

(* What the code generator needs to access the members of l by: they share no  *)
(* bit, the unit of each one lies within the struct, and a bit-field within    *)
(* its unit.                                                                   *)
IsAccessible(members, l, isUnion) ==
  \A i \in DOMAIN members : Separator(members[i]) \/
    LET bitsOf(j) == FirstBit(l.at[j]) .. FirstBit(l.at[j]) + WidthOf(members[j]) - 1 IN
    /\ l.at[i].offset >= 0
    /\ l.at[i].offset + members[i].size <= l.size
    /\ l.at[i].bitOffset + WidthOf(members[i]) <= members[i].size * 8
    /\ \A j \in DOMAIN members :
         (i # j /\ ~isUnion /\ ~Separator(members[j])) => bitsOf(i) \cap bitsOf(j) = {}
=============================================================================
