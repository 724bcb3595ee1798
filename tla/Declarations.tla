---------------------------- MODULE Declarations -----------------------------
(***************************************************************************)
(* How the parser reads types (parse.c): declaration specifiers, enums,      *)
(* structs and unions, declarators and type names.                           *)
(***************************************************************************)
EXTENDS CTypes

-----------------------------------------------------------------------------
(***************************************************************************)
(* What the parser of parse.c keeps while it reads: the place in the          *)
(* program, the scopes and the struct types; and how it reads attributes.    *)
(*                                                                         *)
(* A token is a string.  A parser's state p is the program read, the place   *)
(* in it, the scopes (innermost first) and the structs and unions made so     *)
(* far; an operator returns what it read and the state after.  error_tok     *)
(* ends the program: here it leaves a state at the end of an empty program,   *)
(* in which nothing matches.  A constant expression inside a type is one      *)
(* token, a number or an enumerator: Constants says what longer ones mean.    *)
(* Variable length arrays, typeof of an expression and the spellings of one   *)
(* keyword in other dialects are left out.                                   *)
(***************************************************************************)
CONSTANTS
  Idents,        \* the identifiers of the programs read
  NumberTokens   \* their numbers: a function from tokens to [val, ty]

(* What an identifier is: a variable, a typedef or an enumerator. *)
NoEntry == [k |-> "none", ty |-> ty_void, val |-> 0]
VarEntry(obj, ty) == [k |-> "var", ty |-> ty, val |-> obj]
TypedefEntry(ty) == [k |-> "typedef", ty |-> ty, val |-> 0]
EnumEntry(ty, val) == [k |-> "enum", ty |-> ty, val |-> val]

EmptyScope == [vars |-> <<>>, tags |-> <<>>]

(* objs: the objects made so far, each with the address it gets; free: the     *)
(* first address not taken; ids: labels made.  fn is the function being read,   *)
(* 0 outside; brk, cont and switch are the innermost loop's or switch's; gotos   *)
(* and labels are the function's.                                               *)
ParserAt(src) ==
  [src |-> src, pos |-> 1, scopes |-> <<EmptyScope>>, structs |-> <<>>, enums |-> 0, objs |-> <<>>, free |-> 8,
   ids |-> 0, fn |-> 0, brk |-> None, cont |-> None, switch |-> <<>>, gotos |-> {}, labels |-> <<>>]

Fail(p) == [p EXCEPT !.src = <<>>, !.pos = 1]
Failed(p) == p.src = <<>>
TokenAt(p, i) == IF i \in DOMAIN p.src THEN p.src[i] ELSE "<end>"
Peek(p) == TokenAt(p, p.pos)
PeekNext(p) == TokenAt(p, p.pos + 1)
Advance(p) == IF Failed(p) THEN p ELSE [p EXCEPT !.pos = @ + 1]
(* skip, and going back or on to a place. *)
Skip(p, s) == IF Peek(p) = s THEN Advance(p) ELSE Fail(p)
MoveTo(p, pos) == IF Failed(p) THEN p ELSE [p EXCEPT !.pos = pos]
IsIdent(s) == s \in Idents
IsNumber(s) == s \in DOMAIN NumberTokens

-----------------------------------------------------------------------------
(* Scopes. *)

enter_scope(p) == [p EXCEPT !.scopes = <<EmptyScope>> \o @]
leave_scope(p) == [p EXCEPT !.scopes = Tail(@)]

Bind(f, name, entry) == [x \in {name} \cup DOMAIN f |-> IF x = name THEN entry ELSE f[x]]
push_scope(p, name, entry) == [p EXCEPT !.scopes[1].vars = Bind(@, name, entry)]
push_tag_scope(p, tag, ty) == [p EXCEPT !.scopes[1].tags = Bind(@, tag, ty)]

(* The innermost scope that has the name, 0 if none. *)
ScopeOf(p, name, space(_)) ==
  LET has == {i \in DOMAIN p.scopes : name \in DOMAIN space(p.scopes[i])}
  IN IF has = {} THEN 0 ELSE CHOOSE i \in has : \A j \in has : i <= j
VarsOf(scope) == scope.vars
TagsOf(scope) == scope.tags

find_var(p, name) ==
  LET i == ScopeOf(p, name, VarsOf) IN IF i = 0 THEN NoEntry ELSE p.scopes[i].vars[name]
HasTag(p, tag) == ScopeOf(p, tag, TagsOf) # 0
find_tag(p, tag) == p.scopes[ScopeOf(p, tag, TagsOf)].tags[tag]
IsTypedef(p, s) == IsIdent(s) /\ find_var(p, s).k = "typedef"

(* A struct as it is now: its size and alignment are in the parser's table.   *)
IsRecord(ty) == ty.k \in {"struct", "union"}
Resolve(p, ty) ==
  IF IsRecord(ty) THEN [ty EXCEPT !.size = p.structs[ty.id].size, !.align = p.structs[ty.id].align] ELSE ty
MembersOf(p, ty) == p.structs[ty.id].members

(* new_var: an object, bound to its name in the innermost scope; "" is no name  *)
(* of the program.                                                             *)
NewObject == [name |-> "", ty |-> ty_int, cell |-> 0, local |-> FALSE, definition |-> FALSE, static |-> FALSE,
              inline |-> FALSE, tentative |-> FALSE, tls |-> FALSE, root |-> FALSE, live |-> FALSE, refs |-> {},
              data |-> <<>>, rel |-> <<>>, body |-> <<>>, params |-> <<>>]
new_var(p, name, ty, obj) ==
  LET r == Resolve(p, ty)
      cell == AlignTo(p.free, r.align)
      made == [p EXCEPT !.objs = Append(@, [obj EXCEPT !.name = name, !.ty = ty, !.cell = cell]),
                        !.free = cell + Largest({0, r.size}, 0)]
  IN IF Failed(p) THEN p ELSE push_scope(made, name, VarEntry(Len(made.objs), ty))
new_lvar(p, name, ty) == new_var(p, name, ty, [NewObject EXCEPT !.local = TRUE])
new_gvar(p, name, ty) == new_var(p, name, ty, [NewObject EXCEPT !.static = TRUE, !.definition = TRUE])

(* The type of an object of unknown length, once its initializer tells it. *)
WithType(p, i, ty) ==
  IF Failed(p) THEN p
  ELSE [p EXCEPT !.objs[i].ty = ty, !.free = Largest({@, p.objs[i].cell + Resolve(p, ty).size}, 0)]

NewStruct == [size |-> 0, align |-> 1, members |-> <<>>, packed |-> FALSE, flexible |-> FALSE]

-----------------------------------------------------------------------------
(* Attributes.  VarAttr is what specifiers and attributes ask for; where the  *)
(* code passes NULL, storage classes are an error and attributes are read     *)
(* and dropped.                                                               *)

NoAttr == [typedef |-> FALSE, static |-> FALSE, extern |-> FALSE, inline |-> FALSE, tls |-> FALSE,
           const |-> FALSE, packed |-> FALSE, align |-> 0, abi |-> ""]

ConstantToken(p) ==
  LET s == Peek(p)
      e == find_var(p, s)
  IN IF IsNumber(s) THEN [v |-> NumberTokens[s].val, p |-> Advance(p)]
     ELSE IF IsIdent(s) /\ e.k = "enum" THEN [v |-> e.val, p |-> Advance(p)]
     ELSE [v |-> 0, p |-> Fail(p)]

RECURSIVE skip_parentheses(_, _)
skip_parentheses(p, level) ==
  IF level = 0 \/ p.pos > Len(p.src) THEN p
  ELSE skip_parentheses(Advance(p), CASE Peek(p) = "(" -> level + 1 [] Peek(p) = ")" -> level - 1 [] OTHER -> level)

(* Also what is skipped when the attribute is not known. *)
parse_single_attribute(p, attr) ==
  LET s == Peek(p)
      value == ConstantToken(Advance(Advance(p)))
      args == Advance(p)
  IN CASE s = "packed" -> [v |-> [attr EXCEPT !.packed = TRUE], p |-> Advance(p)]
       [] s = "aligned" /\ PeekNext(p) = "(" -> [v |-> [attr EXCEPT !.align = value.v], p |-> Skip(value.p, ")")]
       [] s = "ms_abi" -> [v |-> [attr EXCEPT !.abi = "win64"], p |-> Advance(p)]
       [] s = "sysv_abi" -> [v |-> [attr EXCEPT !.abi = "sysv64"], p |-> Advance(p)]
       [] s = "always_inline" -> [v |-> [attr EXCEPT !.inline = TRUE], p |-> Advance(p)]
       [] OTHER -> [v |-> attr, p |-> IF Peek(args) = "(" THEN skip_parentheses(Advance(args), 1) ELSE args]

RECURSIVE AttributeList(_, _), SkipAll(_, _)
SkipAll(p, s) == IF Peek(p) = s THEN SkipAll(Advance(p), s) ELSE p
AttributeList(p, attr) ==
  LET one == parse_single_attribute(p, attr) IN
  IF Failed(p) \/ Peek(p) = ")" THEN [v |-> attr, p |-> SkipAll(p, ")")]
  ELSE IF p.pos > Len(p.src) THEN [v |-> attr, p |-> Fail(p)]
  ELSE IF Peek(p) = "," THEN AttributeList(Advance(p), attr)
  ELSE AttributeList(one.p, one.v)

RECURSIVE consume_attributes(_, _)
consume_attributes(p, attr) ==
  LET list == AttributeList(SkipAll(Advance(p), "("), attr) IN
  IF Peek(p) = "__attribute__" THEN consume_attributes(list.p, list.v)
  ELSE [v |-> attr, p |-> p]

(* A struct type is one object, so an attribute after a declarator is set for  *)
(* every use of the struct.                                                    *)
apply_attr_to_type(p, ty, attr) ==
  [v |-> IF attr.abi = "" THEN ty
         ELSE IF ty.k = "func" THEN [ty EXCEPT !.abi = attr.abi]
         ELSE IF ty.k = "ptr" /\ Base(ty).k = "func" THEN [ty EXCEPT !.base[1].abi = attr.abi]
         ELSE ty,
   p |-> IF attr.packed /\ IsRecord(ty) /\ ~Failed(p) THEN [p EXCEPT !.structs[ty.id].packed = TRUE] ELSE p]

-----------------------------------------------------------------------------
(* declspec counts the typenames in the bits of one integer. *)
VOID == 1
BOOL == 4
CHAR == 16
SHORT == 64
INT == 256
LONG == 1024
FLOAT == 4096
DOUBLE == 16384
OTHER_TYPE == 65536
SIGNED == 131072
UNSIGNED == 262144

TypeNames ==
  [s \in {"void", "_Bool", "char", "short", "int", "long", "__int64", "float", "double"} |->
     CASE s = "void" -> VOID [] s = "_Bool" -> BOOL [] s = "char" -> CHAR [] s = "short" -> SHORT
       [] s = "int" -> INT [] s = "long" -> LONG [] s = "__int64" -> LONG + LONG
       [] s = "float" -> FLOAT [] s = "double" -> DOUBLE]
StorageClasses == {"typedef", "static", "extern", "inline", "_Thread_local"}
Ignored == {"volatile", "auto", "register", "restrict", "_Noreturn"}
Signs == {"signed", "unsigned"}
IsTypename(p) ==
  Peek(p) \in DOMAIN TypeNames \cup StorageClasses \cup Ignored \cup Signs
              \cup {"const", "_Atomic", "_Alignas", "struct", "union", "enum", "typeof", "__attribute__"}
  \/ IsTypedef(p, Peek(p))

CountSign(counter, s) ==
  LET bit == IF s = "signed" THEN SIGNED ELSE UNSIGNED
  IN IF (counter \div bit) % 2 = 1 THEN counter ELSE counter + bit

(* <<>> is an invalid type. *)
TypeOfCount(counter) ==
  CASE counter = VOID -> <<ty_void>>
    [] counter = BOOL -> <<ty_bool>>
    [] counter \in {CHAR, SIGNED + CHAR} -> <<ty_char>>
    [] counter = UNSIGNED + CHAR -> <<ty_uchar>>
    [] counter \in {SHORT, SHORT + INT, SIGNED + SHORT, SIGNED + SHORT + INT} -> <<ty_short>>
    [] counter \in {UNSIGNED + SHORT, UNSIGNED + SHORT + INT} -> <<ty_ushort>>
    [] counter \in {INT, SIGNED, SIGNED + INT} -> <<ty_int>>
    [] counter \in {UNSIGNED, UNSIGNED + INT} -> <<ty_uint>>
    [] counter \in {LONG, LONG + INT, SIGNED + LONG, SIGNED + LONG + INT} -> <<ty_long>>
    [] counter \in {LONG + LONG, LONG + LONG + INT, SIGNED + LONG + LONG, SIGNED + LONG + LONG + INT} -> <<ty_llong>>
    [] counter \in {UNSIGNED + LONG, UNSIGNED + LONG + INT} -> <<ty_ulong>>
    [] counter \in {UNSIGNED + LONG + LONG, UNSIGNED + LONG + LONG + INT} -> <<ty_ullong>>
    [] counter = FLOAT -> <<ty_float>>
    [] counter = DOUBLE -> <<ty_double>>
    [] counter = LONG + DOUBLE -> <<ty_ldouble>>
    [] OTHER -> <<>>

SetStorage(attr, s) ==
  CASE s = "typedef" -> [attr EXCEPT !.typedef = TRUE]
    [] s = "static" -> [attr EXCEPT !.static = TRUE]
    [] s = "extern" -> [attr EXCEPT !.extern = TRUE]
    [] s = "inline" -> [attr EXCEPT !.inline = TRUE]
    [] s = "_Thread_local" -> [attr EXCEPT !.tls = TRUE]
BadStorage(attr) ==
  attr.typedef /\ Cardinality({f \in {"static", "extern", "inline", "tls"} : attr[f]}) > 1

(* Operators that return [v, p] unless said otherwise.  s of Specifiers is    *)
(* what declspec has so far: [p, ty, counter, attr]; allowed: attr is not     *)
(* NULL.  declarator returns [ty, name, p], name "" when it is omitted.       *)
(* They call each other through ReadType, the only recursive one: what typename   *)
(* does is in ReadTypename, and so on.                                            *)
RECURSIVE ReadType(_, _)
Specifiers(s, allowed) == ReadType("Specifiers", <<s, allowed>>)
typename(p) == ReadType("typename", <<p>>)
struct_decl(p, k) == ReadType("struct_decl", <<p, k>>)
struct_members(p, members, last) == ReadType("struct_members", <<p, members, last>>)
MemberList(p, base, attr, members, first) == ReadType("MemberList", <<p, base, attr, members, first>>)
ParamList(p, ty, first) == ReadType("ParamList", <<p, ty, first>>)
type_suffix(p, ty) == ReadType("type_suffix", <<p, ty>>)
declarator(p0, base) == ReadType("declarator", <<p0, base>>)
abstract_declarator(p0, base) == ReadType("abstract_declarator", <<p0, base>>)
Attributes(p, attr) == ReadType("Attributes", <<p, attr>>)
struct_or_union(p, k) == ReadType("struct_or_union", <<p, k>>)
stars(p, ty) == ReadType("stars", <<p, ty>>)

(* The enumerators up to the closing brace; a trailing comma is allowed. *)
RECURSIVE enum_list(_, _, _, _)
enum_list(p, ty, val, first) ==
  LET at == IF first THEN p ELSE Skip(p, ",")
      name == Peek(at)
      old == p.scopes[1].vars
      value == IF PeekNext(at) = "=" THEN ConstantToken(Advance(Advance(at))) ELSE [v |-> val, p |-> Advance(at)]
  IN IF Peek(p) = "}" THEN Advance(p)
     ELSE IF Peek(p) = "," /\ PeekNext(p) = "}" THEN Advance(Advance(p))
     ELSE IF ~IsIdent(name) \/ (name \in DOMAIN old /\ old[name].k \in {"var", "enum"}) THEN Fail(p)
     ELSE enum_list(push_scope(value.p, name, EnumEntry(ty, value.v)), ty, value.v + 1, FALSE)

enum_specifier(p0) ==
  LET p == Attributes(p0, NoAttr).p
      tag == IF IsIdent(Peek(p)) THEN Peek(p) ELSE ""
      body == Attributes(IF tag = "" THEN p ELSE Advance(p), NoAttr).p
      made == [body EXCEPT !.enums = @ + 1]
      ty == enum_type(made.enums)
      list == Attributes(enum_list(Skip(made, "{"), ty, 0, TRUE), NoAttr).p
      old == find_tag(body, tag)
  IN IF tag # "" /\ Peek(body) # "{"
     THEN IF HasTag(body, tag) /\ old.k = "enum" THEN [v |-> old, p |-> body] ELSE [v |-> ty, p |-> Fail(body)]
     ELSE IF tag = "" \/ Failed(list) THEN [v |-> ty, p |-> list]
     ELSE IF tag \in DOMAIN list.scopes[1].tags THEN [v |-> ty, p |-> Fail(list)]
     ELSE [v |-> ty, p |-> push_tag_scope(list, tag, ty)]

NoSpecifiers(p) == [p |-> p, ty |-> ty_int, counter |-> 0, attr |-> NoAttr]
declspec(p, allowed) == Specifiers(NoSpecifiers(p), allowed)
Declspec(p) == LET s == declspec(p, FALSE) IN [v |-> s.ty, p |-> s.p]

(* _Alignas: the alignment of a type, or a number. *)
AlignasValue(p) ==
  LET t == typename(p)
      v == IF IsTypename(p) THEN [v |-> Resolve(t.p, t.v).align, p |-> t.p] ELSE ConstantToken(p)
  IN [v |-> v.v, p |-> Skip(v.p, ")")]

WithUserType(s, user) == [s EXCEPT !.p = user.p, !.ty = user.v, !.counter = OTHER_TYPE]
ReadSpecifiers(s, allowed) ==
  LET p == s.p
      tok == Peek(p)
      next == Advance(p)
      attrs == Attributes(p, s.attr)
      stored == SetStorage(s.attr, tok)
      alignas == AlignasValue(Skip(next, "("))
      atomic == typename(Advance(next))
      typeof == typename(Skip(next, "("))
      user == IF tok \in {"struct", "union"} THEN struct_decl(next, tok)
              ELSE IF tok = "enum" THEN enum_specifier(next)
              ELSE IF tok = "typeof" THEN [v |-> typeof.v, p |-> Skip(typeof.p, ")")]
              ELSE [v |-> find_var(p, tok).ty, p |-> next]
      counter == IF tok \in Signs THEN CountSign(s.counter, tok) ELSE s.counter + TypeNames[tok]
      counted == TypeOfCount(counter)
  IN IF ~IsTypename(p) THEN s
     ELSE IF tok = "__attribute__"
     THEN Specifiers([s EXCEPT !.p = attrs.p, !.attr = IF allowed THEN attrs.v ELSE @], allowed)
     ELSE IF tok \in StorageClasses
     THEN IF ~allowed \/ BadStorage(stored) THEN [s EXCEPT !.p = Fail(p)]
          ELSE Specifiers([s EXCEPT !.p = next, !.attr = stored], allowed)
     ELSE IF tok \in Ignored \cup {"const"} THEN Specifiers([s EXCEPT !.p = next], allowed)
     ELSE IF tok = "_Atomic"
     THEN IF Peek(next) = "(" THEN Specifiers([s EXCEPT !.p = Skip(atomic.p, ")"), !.ty = atomic.v], allowed)
          ELSE Specifiers([s EXCEPT !.p = next], allowed)
     ELSE IF tok = "_Alignas"
     THEN IF ~allowed THEN [s EXCEPT !.p = Fail(p)]
          ELSE Specifiers([s EXCEPT !.p = alignas.p, !.attr.align = alignas.v], allowed)
     ELSE IF tok \in {"struct", "union", "enum", "typeof"} \/ IsTypedef(p, tok)
     THEN IF s.counter # 0 THEN s
          ELSE Specifiers(WithUserType(s, user), allowed)
     ELSE IF counted = <<>> THEN [s EXCEPT !.p = Fail(p)]
     ELSE Specifiers([s EXCEPT !.p = next, !.ty = counted[1], !.counter = counter], allowed)

-----------------------------------------------------------------------------
(* Structs and unions.  A member: its name ("" if it has none), its type, what *)
(* Layout places it by and where it is placed.                                 *)

Member_(p, name, ty, align, width) ==
  LET r == Resolve(p, ty)
  IN [name |-> name, ty |-> ty, size |-> r.size, align |-> IF align # 0 THEN align ELSE r.align,
      isBitfield |-> width # <<>>, width |-> IF width = <<>> THEN 0 ELSE width[1], offset |-> 0, bitOffset |-> 0]

(* The declarators of one declaration of members, up to its semicolon. *)
ReadMemberList(p, base, attr, members, first) ==
  LET d == declarator(IF first THEN p ELSE Skip(p, ","), base)
      width == ConstantToken(Advance(d.p))
      field == Peek(d.p) = ":"
      m == Member_(d.p, d.name, d.ty, attr.align, IF field THEN <<width.v>> ELSE <<>>)
  IN IF Peek(p) = ";" \/ Failed(p) THEN [v |-> members, p |-> Advance(p)]
     ELSE IF d.name # "" /\ \E i \in DOMAIN members : members[i].name = d.name THEN [v |-> members, p |-> Fail(p)]
     ELSE MemberList(IF field THEN width.p ELSE d.p, base, attr, Append(members, m), FALSE)

(* struct_members: the members up to the brace that closes the struct. *)
ReadMembers(p, members, last) ==
  LET s == declspec(p, TRUE)
      anonymous == IsRecord(s.ty) /\ Peek(s.p) = ";"
      list == MemberList(s.p, s.ty, s.attr, members, TRUE)
  IN IF Peek(p) = last \/ Failed(p) THEN [v |-> members, p |-> Advance(p)]
     ELSE IF anonymous
     THEN struct_members(Advance(s.p), Append(members, Member_(s.p, "", s.ty, s.attr.align, <<>>)), last)
     ELSE struct_members(list.p, list.v, last)

(* An array of unknown length at the end is a flexible member, of size zero. *)
Flexible(members) ==
  members # <<>> /\ LET m == members[Len(members)] IN m.ty.k = "array" /\ m.ty.len < 0
WithFlexible(members) ==
  IF ~Flexible(members) THEN members
  ELSE LET m == members[Len(members)] IN [members EXCEPT ![Len(members)].ty = array_of(Base(m.ty), 0),
                                                       ![Len(members)].size = 0]

(* struct_union_decl: the type named or defined, without its layout.  A         *)
(* definition completes the incomplete type its tag already names in this scope. *)
struct_union_decl(p0, k) ==
  LET before == Attributes(p0, NoAttr)
      tag == IF IsIdent(Peek(before.p)) THEN Peek(before.p) ELSE ""
      mid == Attributes(IF tag = "" THEN before.p ELSE Advance(before.p), before.v)
      p == mid.p
      new == Len(p.structs) + 1
      incomplete == [p EXCEPT !.structs = Append(@, [NewStruct EXCEPT !.size = -1, !.packed = mid.v.packed])]
      body == struct_members(Skip(p, "{"), <<>>, "}")
      after == Attributes(body.p, mid.v)
      q == after.p
      definition ==
        [NewStruct EXCEPT !.members = WithFlexible(body.v), !.flexible = Flexible(body.v), !.packed = after.v.packed,
                          !.align = IF after.v.align # 0 THEN after.v.align ELSE 1]
      known == tag # "" /\ tag \in DOMAIN q.scopes[1].tags
      old == q.scopes[1].tags[tag]
      made == [q EXCEPT !.structs = Append(@, definition)]
      ty == struct_type(k, Len(made.structs))
  IN IF tag # "" /\ Peek(p) # "{"
     THEN IF HasTag(p, tag) THEN [v |-> find_tag(p, tag), p |-> p]
          ELSE [v |-> struct_type(k, new), p |-> push_tag_scope(incomplete, tag, struct_type(k, new))]
     ELSE IF Failed(q) THEN [v |-> ty_int, p |-> q]
     ELSE IF ~known THEN [v |-> ty, p |-> IF tag = "" THEN made ELSE push_tag_scope(made, tag, ty)]
     ELSE IF Resolve(q, old).size >= 0 THEN [v |-> old, p |-> Fail(q)]
     ELSE [v |-> old, p |-> [q EXCEPT !.structs[old.id] = definition]]

(* struct_decl and union_decl: the layout is made at every mention of the type. *)
ReadStruct(p, k) ==
  LET d == struct_or_union(p, k)
      st == d.p.structs[d.v.id]
      l == IF k = "struct" THEN StructLayout(st.members, st.packed, st.align)
           ELSE UnionLayout(st.members, st.align)
      size == IF k = "struct" \/ st.size <= l.size THEN l.size ELSE st.size
      placed == [i \in DOMAIN st.members |->
                   IF k = "union" \/ Separator(st.members[i]) THEN st.members[i]
                   ELSE [st.members[i] EXCEPT !.offset = l.at[i].offset, !.bitOffset = l.at[i].bitOffset]]
  IN IF Failed(d.p) \/ ~IsRecord(d.v) THEN [v |-> ty_int, p |-> Fail(d.p)]
     ELSE IF st.size < 0 THEN d
     ELSE [v |-> d.v, p |-> [d.p EXCEPT !.structs[d.v.id] = [@ EXCEPT !.size = size, !.align = l.align, !.members = placed]]]

(* The member of that name: its path through the anonymous structs and unions   *)
(* on the way, <<>> if there is none.                                           *)
RECURSIVE get_struct_member(_, _, _)
get_struct_member(p, ty, name) ==
  LET ms == MembersOf(p, ty)
      inside(i) == IF ms[i].name = "" /\ IsRecord(ms[i].ty) THEN get_struct_member(p, ms[i].ty, name) ELSE <<>>
      has == {i \in DOMAIN ms : ms[i].name = name \/ inside(i) # <<>>}
      first == CHOOSE i \in has : \A j \in has : i <= j
  IN IF has = {} THEN <<>> ELSE <<ms[first]>> \o inside(first)

-----------------------------------------------------------------------------
(* Declarators. *)

(* A parameter that is an array or a function is a pointer. *)
ParamTypeArraysOnly(p, ty) == IF ty.k = "array" THEN pointer_to(Base(ty)) ELSE ty
ParamType(p, ty) ==
  CASE ty.k = "array" -> pointer_to(Base(ty)) [] ty.k = "func" -> pointer_to(ty) [] OTHER -> ty

(* The parameters up to the closing parenthesis, into the function type ty. *)
ReadParams(p, ty, first) ==
  LET at == IF first THEN p ELSE Skip(p, ",")
      s == declspec(at, FALSE)
      d == declarator(s.p, s.ty)
  IN IF Failed(p) THEN [v |-> ty, p |-> p]
     ELSE IF Peek(p) = ")" THEN [v |-> IF first THEN [ty EXCEPT !.variadic = TRUE] ELSE ty, p |-> Advance(p)]
     ELSE IF Peek(at) = "..." THEN [v |-> [ty EXCEPT !.variadic = TRUE], p |-> Skip(Advance(at), ")")]
     ELSE ParamList(d.p, [ty EXCEPT !.params = Append(@, ParamType(d.p, d.ty)), !.names = Append(@, d.name)], FALSE)

func_params(p, ty) ==
  IF Peek(p) = "void" /\ PeekNext(p) = ")" THEN [v |-> func_type(ty), p |-> Advance(Advance(p))]
  ELSE ParamList(p, func_type(ty), TRUE)

array_dimensions(p0, ty) ==
  LET p == SkipAll(SkipAll(p0, "static"), "restrict")
      length == ConstantToken(p)
      open == type_suffix(Advance(p), ty)
      inner == type_suffix(Skip(length.p, "]"), ty)
  IN IF Peek(p) = "]" THEN [v |-> array_of(Resolve(open.p, open.v), -1), p |-> open.p]
     ELSE [v |-> array_of(Resolve(inner.p, inner.v), length.v), p |-> inner.p]

ReadTypeSuffix(p, ty) ==
  CASE Peek(p) = "(" -> func_params(Advance(p), ty)
    [] Peek(p) = "[" -> array_dimensions(Advance(p), ty)
    [] OTHER -> [v |-> ty, p |-> p]

RECURSIVE SkipQualifiers(_)
SkipQualifiers(p) ==
  IF Peek(p) \in {"const", "volatile", "restrict"} THEN SkipQualifiers(Advance(p))
  ELSE IF Peek(p) = "__attribute__" THEN SkipQualifiers(Attributes(p, NoAttr).p)
  ELSE p
pointers(p, ty) ==
  IF Peek(p) = "*" THEN stars(SkipQualifiers(Advance(p)), pointer_to(ty)) ELSE [v |-> ty, p |-> p]

(* A declarator in parentheses is read twice: to find what follows it, and     *)
(* then with the type that makes.                                              *)
DummyType == CType("dummy", 0, FALSE)
DeclaratorAt(lead, attrs) ==
  LET p == attrs.p
      dummy == declarator(Advance(p), DummyType)
      outer == type_suffix(Skip(dummy.p, ")"), lead.v)
      inner == declarator(MoveTo(outer.p, p.pos + 1), apply_attr_to_type(outer.p, outer.v, attrs.v).v)
      name == IF IsIdent(Peek(p)) THEN Peek(p) ELSE ""
      after == Attributes(IF name = "" THEN p ELSE Advance(p), attrs.v)
      plain == type_suffix(after.p, lead.v)
      made == apply_attr_to_type(plain.p, plain.v, after.v)
  IN IF Peek(p) = "(" THEN [inner EXCEPT !.p = MoveTo(@, outer.p.pos)]
     ELSE [ty |-> made.v, name |-> name, p |-> made.p]
ReadDeclarator(p0, base) ==
  LET before == Attributes(p0, NoAttr)
      lead == stars(before.p, base)
  IN DeclaratorAt(lead, Attributes(lead.p, before.v))

AbstractDeclaratorAt(lead, attrs) ==
  LET p == attrs.p
      dummy == abstract_declarator(Advance(p), DummyType)
      outer == type_suffix(Skip(dummy.p, ")"), lead.v)
      inner == abstract_declarator(MoveTo(outer.p, p.pos + 1), apply_attr_to_type(outer.p, outer.v, attrs.v).v)
      plain == type_suffix(p, lead.v)
      made == apply_attr_to_type(plain.p, plain.v, attrs.v)
  IN IF Peek(p) = "(" THEN [inner EXCEPT !.p = MoveTo(@, outer.p.pos)] ELSE made
ReadAbstractDeclarator(p0, base) ==
  LET before == Attributes(p0, NoAttr)
      lead == stars(before.p, base)
  IN AbstractDeclaratorAt(lead, Attributes(lead.p, before.v))

ReadTypename(p) == LET s == Declspec(p) IN abstract_declarator(s.p, s.v)

ReadType(what, t) ==
  CASE what = "Specifiers" -> ReadSpecifiers(t[1], t[2])
    [] what = "typename" -> ReadTypename(t[1])
    [] what = "struct_decl" -> ReadStruct(t[1], t[2])
    [] what = "struct_members" -> ReadMembers(t[1], t[2], t[3])
    [] what = "MemberList" -> ReadMemberList(t[1], t[2], t[3], t[4], t[5])
    [] what = "ParamList" -> ReadParams(t[1], t[2], t[3])
    [] what = "type_suffix" -> ReadTypeSuffix(t[1], t[2])
    [] what = "declarator" -> ReadDeclarator(t[1], t[2])
    [] what = "abstract_declarator" -> ReadAbstractDeclarator(t[1], t[2])
    [] what = "Attributes" -> consume_attributes(t[1], t[2])
    [] what = "struct_or_union" -> struct_union_decl(t[1], t[2])
    [] what = "stars" -> pointers(t[1], t[2])
=============================================================================
