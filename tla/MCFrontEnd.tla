----------------------------- MODULE MCFrontEnd ------------------------------
(***************************************************************************)
(* Small programs read by the parser, and what each of them should come to.   *)
(* A program is written down from something abstract, a type, an expression,   *)
(* a list of members or of functions, and compared with the meaning of that.   *)
(* The table that holds the compiler's names is checked beside it.             *)
(***************************************************************************)
EXTENDS FrontEnd, CMeaning, HashMap

VARIABLE job  \* the family of the program and what it was written down from

CTypeOf == [t \in DOMAIN Width |->
  CASE t = "bool" -> ty_bool [] t = "char" -> ty_char [] t = "uchar" -> ty_uchar [] t = "short" -> ty_short
    [] t = "ushort" -> ty_ushort [] t = "int" -> ty_int [] t = "uint" -> ty_uint [] t = "long" -> ty_long [] OTHER -> ty_ulong]
Widths_ == [t \in {"6", "8", "9", "16", "31", "33"} |->
  CASE t = "6" -> 6 [] t = "8" -> 8 [] t = "9" -> 9 [] t = "16" -> 16 [] t = "31" -> 31 [] OTHER -> 33]
Numbers == [t \in DOMAIN NumberOf \cup DOMAIN Widths_ |->
  IF t \in DOMAIN NumberOf THEN [val |-> NumberOf[t].val, ty |-> CTypeOf[NumberOf[t].ty]] ELSE [val |-> Widths_[t], ty |-> ty_int]]

-----------------------------------------------------------------------------
(* The variables of CMeaning, read before the programs that use them. *)
Prologue ==
  <<"int", "x", ",", "y", ",", "i", ";", "char", "c", ";", "unsigned", "char", "d", ";", "short", "h", ";",
    "unsigned", "short", "k", ";", "unsigned", "u", ";", "long", "l", ";", "unsigned", "long", "v", ";", "_Bool", "b", ";",
    "int", "a", "[", "3", "]", ";", "struct", "S", "{", "int", "m", ";", "int", "n", "[", "3", "]", ";", "}", "s", ",", "*", "sp", ";",
    "int", "*", "p", ";", "int", "g", "(", "int", ")", ";">>
After(src) == p' = [p EXCEPT !.src = src, !.pos = 1]

ObjectOf(name) == p.scopes[Len(p.scopes)].vars[name].val
CellOf(key) ==
  LET at(name) == p.objs[ObjectOf(name)].cell
  IN CASE key[1] = "m" -> at("s") [] key[1] = "n" -> at("s") + 4 + 4 * key[2] [] OTHER -> at(key[1]) + 4 * key[2]

InitialValue == [x |-> 2, y |-> 3, i |-> 1, c |-> -1, d |-> 1, h |-> -2, k |-> 3, u |-> 9, l |-> -100, v |-> 200, b |-> 1,
                 p |-> 1, m |-> -3]
Scalars == {<<x, 0>> : x \in DOMAIN InitialValue}
Elements == {"a", "n"} \X (0 .. ArrayLength - 1)
State0 ==
  [mem |-> [key \in Scalars \cup Elements \cup {<<Inner(x), 0>> : x \in {"x", "y", "i"}} |->
              IF key \in Scalars THEN InitialValue[key[1]] ELSE IF key \in Elements THEN key[2] - 2 ELSE 0],
   env |-> [x \in DOMAIN VarTypes \cup {"p", "a"} |-> x], defined |-> TRUE, out |-> <<>>, done |-> "", fuel |-> 12]

(* A place's contents as the program holds them. *)
Held(key, value) == IF key[1] = "p" THEN CellOf(<<"a", value>>) ELSE value
BitsOf(key) == IF key[1] = "p" THEN 8 ELSE IF key[1] \in DOMAIN VarTypes THEN Width[VarTypes[key[1]]] ELSE 4
Memory ==
  LET start == State0.mem
      at == [cell \in {CellOf(key) : key \in Scalars \cup Elements} |->
               LET key == CHOOSE k_ \in Scalars \cup Elements : CellOf(k_) = cell IN Held(key, start[key]) % 2 ^ BitsOf(key)]
  IN [cell \in 0 .. p.free |-> IF cell \in DOMAIN at THEN at[cell] ELSE IF cell = CellOf(<<"sp", 0>>) THEN CellOf(<<"m", 0>>) ELSE 0]

(* The function f does what its abstract body means. *)
DoesAs(run, ref) ==
  (ref.defined /\ ref.fuel > 0) =>
    /\ run.end = "return"
    /\ [j \in DOMAIN run.out |-> run.out[j][1]] = ref.out
    /\ \A key \in Scalars \cup Elements : run.mem[CellOf(key)] % 2 ^ BitsOf(key) = Held(key, ref.mem[key]) % 2 ^ BitsOf(key)
Agrees(statement) == DoesAs(TreeOutcome(p.objs[ObjectOf("f")].body[1], Memory), Do_(statement, State0))

-----------------------------------------------------------------------------
(* Expressions. *)
B(op, l, r) == Term(op, <<l, r>>)
U(op, e) == Term(op, <<e>>)
V(x) == Leaf(x)
Plain == {V(x) : x \in DOMAIN VarTypes}
Narrow == {V(x) : x \in {"c", "d", "h", "k", "b"}}
Shifts == {"<<", ">>", "<<=", ">>="}
(* A shift keeps a narrow type, which the trees cannot tell from one that loses bits. *)
Expressible(op, l) == op \in Shifts => l \notin Narrow

TwoOperators ==
  {B(o1, B(o2, t[1], t[2]), t[3]) : o1, o2 \in DOMAIN LevelOf, t \in {<<V("x"), V("y"), V("i")>>, <<V("u"), V("c"), V("2L")>>}}
  \cup {B(o1, V("x"), B(o2, V("y"), V("u"))) : o1, o2 \in DOMAIN LevelOf}
AllPairs == UNION {{B(op, l, r) : l \in {e \in Plain : Expressible(op, e)}, r \in Plain} : op \in DOMAIN LevelOf}
Converted ==
  {U(t, e) : t \in DOMAIN CastTokens, e \in Plain}
  \cup {U(t, B(op, V("x"), V("l"))) : t \in DOMAIN CastTokens, op \in {"+", "*", "<", "&"}}
  \cup {B(op, U(t, V("l")), V("u")) : t \in DOMAIN CastTokens \ {"(char)", "(uchar)", "(short)", "(bool)"}, op \in DOMAIN LevelOf}
  \cup {U(op, e) : op \in {"u-", "u!", "sizeof"}, e \in Plain} \cup {U(op, e) : op \in {"u~", "u+"}, e \in Plain \ Narrow}
  \cup {B(op, U(n, V("y")), U(n, V("x"))) : n \in {"u-", "u!", "u~"}, op \in DOMAIN LevelOf}
  \cup {U(n, B(op, V("u"), V("x"))) : n \in {"u-", "u!", "u~", "sizeof"}, op \in DOMAIN LevelOf}
  \cup {Term("?:", <<e, l, r>>) : e \in {V("x"), V("0")}, l, r \in Plain}

(* Lvalues, with and without side effects of their own. *)
Element(e, i_) == B("[]", e, i_)
SM == B(".", V("s"), V("m"))
SN == B(".", V("s"), V("n"))
ArrowN == B("->", V("sp"), V("n"))
Quiet == (Plain \ {V("b")}) \cup {Element(V("a"), V("1")), Element(V("i"), V("a")), SM, B("->", V("sp"), V("m")), Element(SN, V("2")),
                               Element(ArrowN, V("i")), U("u*", V("p")), U("u*", B("+", V("a"), V("x"))), Element(V("p"), V("1"))}
Moving == {Element(V("a"), U("u++", V("i"))), U("u*", U("u++", V("p"))), U("u*", U("--u", V("p"))), Element(SN, U("--u", V("x"))),
           Element(U("++u", V("p")), V("0")), Element(V("a"), B("=", V("x"), V("1")))}
Assigned ==
  UNION {{B(op, l, r) : l \in {e \in Quiet \cup Moving : Expressible(op, e)}, r \in {V("y"), V("l"), V("u")}} : op \in Assigns}
  \cup {B("=", V("b"), r) : r \in Plain} \cup {B("+=", V("b"), V("2")), B("-=", V("b"), V("y"))}
  \cup {U(op, l) : op \in {"++u", "--u", "u++", "u--"}, l \in Quiet \cup Moving}
  \cup {B("=", V("l"), B(op, l, B(o2, V("u"), V("y")))) : op \in {"=", "+=", "*="}, l \in Plain \ {V("u"), V("l")}, o2 \in {"=", "-="}}
  \cup {B(",", B(op, Element(V("a"), V("0")), U("u++", V("x"))), V("x")) : op \in Assigns \ {"<<=", ">>="}}

(* Evaluated or not, and in which order. *)
Effects == {U("u++", V("i")), B("=", V("y"), V("0")), B("-=", V("x"), V("2")), V("0")}
Ordered ==
  {B(o1, B(o2, e, f), g_) : o1, o2 \in {"&&", "||", ","}, e, f, g_ \in Effects}
  \cup {B(o1, e, B(o2, f, g_)) : o1, o2 \in {"&&", "||", ","}, e, f, g_ \in Effects}
  \cup {Term("?:", <<e, f, g_>>) : e, f, g_ \in Effects}
  \cup {Term("? :", <<e, f>>) : e, f \in Effects \cup Plain}
  \cup {Term("?:", <<V("x"), Term("?:", <<V("0"), e, f>>), g_>>) : e, f, g_ \in {U("u++", V("i")), V("x")}}
  \cup {Term("?:", <<B(op, V("0"), e), f, Term("?:", <<f, e, g_>>)>>) : op \in {"&&", "||", ","}, e, f, g_ \in {U("u++", V("i")), V("y")}}

Pointers == {V("p"), V("a"), SN, B("+", V("p"), V("1")), B("+", V("x"), V("a")), B("-", V("p"), V("i")), U("u&", Element(V("a"), V("2"))),
             U("u++", V("p")), B("-=", V("p"), V("1")), Term("?:", <<V("0"), V("a"), V("p")>>)}
OnPointers ==
  {U("u*", e) : e \in Pointers} \cup {Element(e, V("0")) : e \in Pointers}
  \cup {B(op, e, f) : op \in {"==", "!=", "<", "<=", ">", ">=", "-"}, e \in Pointers \ {SN}, f \in {V("a"), B("+", V("a"), V("2"))}}
  \cup {U("sizeof", e) : e \in {V("a"), V("p"), SM, U("u*", V("p")), B("+", V("a"), V("0")), Element(V("a"), V("0"))}}
  \cup {U("u*", B("=", V("p"), B("+", V("a"), V("x")))), U("u++", U("u*", V("p"))), U("u-", U("u*", V("p")))}

ReturnOf(e) == Braces(<<St("return", <<e>>, <<>>, "")>>)
InF(statement) == <<"long", "f", "(", "void", ")">> \o ShowStmt(statement)

-----------------------------------------------------------------------------
(* Statements: jumps out of and around loops and switches, nested ones. *)
G(e) == Simple(U("call", e))
Inc(x) == U("u++", V(x))
OnlyIf(e, st) == St("if", <<e>>, <<st>>, "")
IfElse(e, st1, st2) == St("if", <<e>>, <<st1, st2>>, "")
Bits_ == {G(V("x")), Jump("break"), Jump("continue"), OnlyIf(B("==", V("x"), V("3")), Jump("break")), St("return", <<V("y")>>, <<>>, ""),
          St("goto", <<>>, <<>>, "k"), Braces(<<St("decl", <<V("5")>>, <<>>, "x"), G(V("x")), Simple(Inc("x"))>>)}
Case(n, st) == St("case", <<V(n)>>, <<st>>, "")
CaseRange(n, m_, st) == St("case", <<V(n), V(m_)>>, <<st>>, "")
Default(st) == St("default", <<>>, <<st>>, "")
SwitchOn(e, items) == St("switch", <<e>>, <<Braces(items)>>, "")
Inside(q1) ==
  {St("while", <<B("<", Inc("x"), V("4"))>>, <<q1>>, ""),
   St("do", <<B("<", Inc("x"), V("4"))>>, <<Braces(<<q1, G(V("7"))>>)>>, ""),
   St("for", <<V("0"), B("<", V("i"), V("2")), Inc("i")>>, <<q1>>, "i"),
   SwitchOn(V("x"), <<Case("2", q1), G(V("1")), Default(G(V("2"))), CaseRange("3", "4", Jump("break")), G(V("3"))>>),
   SwitchOn(V("y"), <<Default(Case("2", q1)), G(V("1")), Case("4", G(V("2"))), CaseRange("0", "3", G(V("4"))), q1>>),
   OnlyIf(V("x"), q1), IfElse(B("<", V("x"), V("3")), OnlyIf(V("0"), G(V("1"))), q1)}
Around(q1, q2) ==
  {St("for", <<B("=", V("i"), V("0")), B("<", V("i"), V("2")), Inc("i")>>, <<Braces(<<q1, q2, G(V("i"))>>)>>, ""),
   St("do", <<B("<", Inc("y"), V("5"))>>, <<Braces(<<G(V("y")), q1, q2>>)>>, ""),
   St("while", <<B("<", Inc("y"), V("5"))>>, <<SwitchOn(V("y"), <<Case("5", q1), q2, Default(G(V("y")))>>)>>, "")}
(* A jump goes out to the label k after the loops, or out of the function. *)
Nested ==
  {Braces(<<st, St("label", <<>>, <<G(V("x"))>>, "k"), St("return", <<V("x")>>, <<>>, "")>>) :
     st \in UNION {Around(q1, q2) : q1 \in UNION {Inside(q) : q \in Bits_}, q2 \in {G(V("x")), Jump("break"), Jump("continue")}}}
(* Back to a label, and the two conditionals of one else. *)
Backward ==
  {Braces(<<St("label", <<>>, <<Simple(Inc("x"))>>, "k"), st, St("return", <<V("x")>>, <<>>, "")>>) :
     st \in {OnlyIf(B("<", V("x"), V("5")), St("goto", <<>>, <<>>, "k")),
             St("while", <<V("1")>>, <<IfElse(B("<", V("x"), V("5")), St("goto", <<>>, <<>>, "k"), Jump("break"))>>, "")}
            \cup {IfElse(c_, IfElse(e, G(V("1")), OnlyIf(V("x"), G(V("2")))), G(V("3"))) : c_, e \in {V("0"), V("x")}}}

-----------------------------------------------------------------------------
(* Types and specifiers. *)
(* C has no arrays of functions and no functions that return either. *)
Of(S) ==
  {Made("ptr", ty) : ty \in S} \cup {Made(n, ty) : n \in {"2", "3"}, ty \in {e \in S : e.t \notin {"func", "func1"}}}
  \cup {Made(n, ty) : n \in {"func", "func1"}, ty \in {e \in S : e.t \notin {"func", "func1", "2", "3"}}}
Depth0 == {Plain_(t) : t \in BaseTypes}
Depth1 == Of(Depth0)
Depth2 == Of(Depth1)
Depth3 == Of(Depth2)
TypesRead == Depth0 \cup Depth1 \cup Depth2 \cup Depth3
Objects == {ty \in TypesRead : ty.t \notin {"func", "func1"}}

(* Where the type is written: what is declared is always f. *)
Written_(place, ty) ==
  CASE place = "variable" -> ShowType(ty, <<"f">>) \o <<";">>
    [] place = "typedef" -> <<"typedef">> \o ShowType(ty, <<"k">>) \o <<";", "k", "f", ";">>
    [] place = "typeof" -> <<"typeof", "(">> \o ShowType(ty, <<>>) \o <<")", "f", ";">>
    [] place = "parameter" -> <<"void", "f", "(">> \o ShowType(ty, <<"k">>) \o <<")", ";">>
    [] place = "member" -> <<"struct", "{", "int", "m", ";">> \o ShowType(ty, <<"n">>) \o <<";", "}", "f", ";">>
MeantAt(place, ty) ==
  LET c == TypeMeant(ty)
  IN IF place # "parameter" THEN c
     ELSE CASE c.k = "func" -> pointer_to(c) [] c.k = "array" -> pointer_to(Base(c)) [] OTHER -> c
ReadAt(place) ==
  LET ty == p.objs[ObjectOf("f")].ty
  IN CASE place = "parameter" -> ty.params[1] [] place = "member" -> MembersOf(p, ty)[2].ty [] OTHER -> ty
WithoutAbi(ty) == [ty EXCEPT !.abi = ""]

WordLists ==
  UNION {[1 .. n -> SpecifierWords] : n \in 1 .. 3}
  \cup [1 .. 4 -> {"long", "int", "unsigned", "signed"}]
(* A sign given twice is accepted. *)
Signless(words) == CountOf("signed", words) < 2 /\ CountOf("unsigned", words) < 2

(* Two types compared, by the builtin and by a selection between pointers to them. *)
Compared == Objects \ Depth3
Comparison(t1, t2) ==
  <<"long", "f", "=", "__builtin_types_compatible_p", "(">> \o ShowType(t1, <<>>) \o <<",">> \o ShowType(t2, <<>>)
  \o <<")", "+", "_Generic", "(", "(">> \o ShowType(Made("ptr", t1), <<>>) \o <<")", "0", ",">>
  \o ShowType(Made("ptr", t2), <<>>) \o <<":", "2", ",", "default", ":", "4", ")", ";">>

WriteDeclaration ==
  \/ \E ty \in TypesRead, place \in {"variable", "typedef", "parameter"} :
       job' = [family |-> "type", of |-> ty, place |-> place] /\ After(Written_(place, ty))
  \/ \E ty \in Objects, place \in {"member", "typeof"} :
       job' = [family |-> "type", of |-> ty, place |-> place] /\ After(Written_(place, ty))
  \/ \E words \in {w \in WordLists : Signless(w)} :
       job' = [family |-> "words", of |-> words] /\ After(<<"typedef">> \o words \o <<"f", ";">>)
  \/ \E t1, t2 \in Compared : job' = [family |-> "same", of |-> <<t1, t2>>] /\ After(Comparison(t1, t2))

(* A declarator gives its name the type C says, wherever it is written, a list of    *)
(* type words is a type exactly if C lists it, whatever the order, and two types are    *)
(* compatible only with themselves.                                                    *)
TypesMean ==
  /\ job.family = "type" => ~Failed(p) /\ (phase = "done" => WithoutAbi(ReadAt(job.place)) = MeantAt(job.place, job.of))
  /\ job.family = "words" =>
       /\ Failed(p) => ListedAs(job.of) = {}
       /\ phase = "done" => ListedAs(job.of) = {find_var(p, "f").ty}
  /\ job.family = "same" =>
       ~Failed(p) /\ (phase = "done" => p.objs[ObjectOf("f")].data[1][1].v = IF job.of[1] = job.of[2] THEN 3 ELSE 4)

-----------------------------------------------------------------------------
(* Layouts: up to three members, each one of these. *)
MemberKind(before, after, size, align, width) ==
  [before |-> before, after |-> after, named |-> TRUE,
   m |-> [size |-> size, align |-> align, isBitfield |-> width # -1, width |-> IF width = -1 THEN 0 ELSE width]]
Unnamed(kind) == [kind EXCEPT !.named = FALSE]
PlainKinds ==
  {MemberKind(<<"char">>, <<>>, 1, 1, -1), MemberKind(<<"short">>, <<>>, 2, 2, -1), MemberKind(<<"int">>, <<>>, 4, 4, -1),
   MemberKind(<<"char", "*">>, <<>>, 8, 8, -1), MemberKind(<<"char">>, <<"[", "3", "]">>, 3, 1, -1),
   MemberKind(<<"struct", "{", "char", "c", ";", "short", "d", ";", "}">>, <<>>, 4, 2, -1),
   MemberKind(<<"_Alignas", "(", "8", ")", "char">>, <<>>, 1, 8, -1), MemberKind(<<"_Alignas", "(", "int", ")", "char">>, <<>>, 1, 4, -1)}
FieldKinds ==
  {MemberKind(<<"int">>, <<":", "1">>, 4, 4, 1), MemberKind(<<"unsigned">>, <<":", "31">>, 4, 4, 31), MemberKind(<<"char">>, <<":", "5">>, 1, 1, 5),
   MemberKind(<<"short">>, <<":", "9">>, 2, 2, 9), MemberKind(<<"long">>, <<":", "33">>, 8, 8, 33), MemberKind(<<"char">>, <<":", "3">>, 1, 1, 3)}
GapKinds == {Unnamed(MemberKind(<<"int">>, <<":", "0">>, 4, 4, 0)), Unnamed(MemberKind(<<"char">>, <<":", "0">>, 1, 1, 0)),
             Unnamed(MemberKind(<<"int">>, <<":", "3">>, 4, 4, 3))}
KindLists == UNION {[1 .. n -> PlainKinds \cup FieldKinds \cup GapKinds] : n \in 1 .. 3}
(* Unlike in the ABI an unnamed bit-field counts for the alignment of the struct, and   *)
(* in a packed struct a member after a bit-field may overlap it.                         *)
Conforming(list, packed) ==
  /\ \A i_ \in DOMAIN list : list[i_].named \/ \E j \in DOMAIN list : list[j].named /\ list[j].m.align >= list[i_].m.align
  /\ packed => \A i_ \in DOMAIN list : ~list[i_].m.isBitfield
MembersRead(list) ==
  LET all[i_ \in 0 .. Len(list)] ==
        IF i_ = 0 THEN <<>>
        ELSE all[i_ - 1] \o list[i_].before \o (IF list[i_].named THEN <<(<<"x", "y", "i">>)[i_]>> ELSE <<>>) \o list[i_].after \o <<";">>
  IN all[Len(list)]
Attribute(words) == <<"__attribute__", "(", "(">> \o words \o <<")", ")">>
AttributesOf(name) ==
  CASE name = "packed" -> Attribute(<<"packed">>) [] name = "aligned" -> Attribute(<<"aligned", "(", "16", ")">>) [] OTHER -> <<>>
Layouts ==
  {t \in KindLists \X {"", "packed", "aligned"} \X {"struct", "union"} :
     LET list == t[1] IN
     /\ Conforming(list, t[2] = "packed")
     /\ t[3] = "struct" \/ (t[2] = "" /\ \A i_ \in DOMAIN list : list[i_].named)
     /\ Len(list) = 3 => t[2] = ""}
LayoutInit ==
  \E t \in Layouts : LET list == t[1]
                        attribute == t[2]
                        k_ == t[3] IN
    /\ job = [family |-> "layout", of |-> list, attribute |-> attribute, k |-> k_]
    /\ Begin(<<k_>> \o (IF attribute = "packed" THEN AttributesOf(attribute) ELSE <<>>) \o <<"{">> \o MembersRead(list) \o <<"}">>
             \o (IF attribute = "aligned" THEN AttributesOf(attribute) ELSE <<>>) \o <<"f", ";">>)

(* Members lie where the ABI puts them, without overlap, each in a unit of its type     *)
(* inside the struct.                                                                    *)
LayoutIsPsABI ==
  job.family = "layout" => ~Failed(p) /\ (phase = "done" =>
    LET ty == p.objs[ObjectOf("f")].ty
        st == p.structs[ty.id]
        ms == [i_ \in DOMAIN job.of |-> job.of[i_].m]
        l_ == [size |-> st.size, align |-> st.align,
              at |-> [i_ \in DOMAIN ms |-> Placed(st.members[i_].offset, st.members[i_].bitOffset)]]
        most == Largest({ms[i_].size : i_ \in DOMAIN ms}, 1)
    IN IsAccessible(ms, l_, job.k = "union") /\
       IF job.k = "struct" THEN IsStructLayout(ms, l_, job.attribute = "packed", IF job.attribute = "aligned" THEN 16 ELSE 1)
       ELSE /\ st.align = Largest({ms[i_].align : i_ \in DOMAIN ms}, 1)
            /\ st.size % st.align = 0 /\ st.size \in most .. most + st.align - 1)

-----------------------------------------------------------------------------
(* Constant expressions, in an initializer and in an assertion.                          *)
Wide == {<<V("100L"), V("3L"), V("2L")>>, <<V("1L"), V("7"), V("2L")>>}
(* The code's 64 bits for every type tell nothing apart for long operands, and for int     *)
(* operands whose results are int's that are not negative.                                  *)
Constants_ ==
  {B(o1, B(o2, t[1], t[2]), t[3]) : o1, o2 \in DOMAIN LevelOf, t \in Wide}
  \cup {B(o1, t[1], B(o2, t[2], t[3])) : o1, o2 \in DOMAIN LevelOf, t \in Wide}
  \cup {B(o1, U(n, V("3L")), V("2L")) : o1 \in DOMAIN LevelOf, n \in {"u-", "u!", "u~", "(char)", "(uchar)", "(short)"}}
  \cup {B(",", V("x"), V("2")), U("sizeof", V("a")), B("+", U("sizeof", SM), V("2L")), B("/", U("sizeof", V("a")), U("sizeof", Element(V("a"), V("0"))))}
  \cup {Term("?:", <<e, V("3L"), Term("?:", <<f, V("1L"), V("7")>>)>>) : e, f \in {V("0"), V("2L"), B("-", V("2"), V("2L")), B("<", V("3L"), V("5"))}}
Addresses ==
  {V("a"), B("+", V("a"), V("1")), B("+", V("2"), V("a")), B("-", U("u&", Element(V("a"), V("2"))), V("1")), U("u&", Element(SN, V("1"))),
   B("+", SN, V("1")), U("u&", U("u*", V("a"))), Term("?:", <<V("0"), V("a"), SN>>), U("u&", Element(V("a"), B("-", V("2"), V("1"))))}
(* Enumerators, each with a value of its own or without, written to an array. *)
EnumProgram(values) ==
  LET one(name, value) == <<name>> \o (IF value = "" THEN <<>> ELSE <<"=", value>>) \o <<",">>
  IN <<"enum", "{">> \o one("x", values[1]) \o one("y", values[2]) \o one("i", values[3])
     \o <<"}", ";", "long", "f", "[", "3", "]", "=", "{", "x", ",", "y", ",", "i", "}", ";">>
EnumValue(values) ==
  LET v[j \in 0 .. 3] == IF j = 0 THEN -1 ELSE IF values[j] = "" THEN v[j - 1] + 1 ELSE NumberOf[values[j]].val
  IN v
WriteConstant ==
  \/ \E e \in Constants_, place \in {"data", "assert"} :
       /\ job' = [family |-> "constant", of |-> e, place |-> place]
       /\ After(IF place = "data" THEN <<"long", "f", "=">> \o ShowAt(e, 2) \o <<";">>
                       ELSE <<"_Static_assert", "(">> \o ShowAt(e, 3) \o <<",", "text", ")", ";", "__extension__", "long", "f", ";">>)
  \/ /\ job' = [family |-> "address", of |-> U("u&", Element(SN, V("1")))]
     /\ After(<<"int", "*", "f", "=", "&", "s", ".", "m", "+", "__builtin_offsetof", "(", "struct", "S", ",", "n", "[", "1", "]", ")",
                       "/", "sizeof", "(", "int", ")", ";">>)
  \/ \E e \in Addresses : job' = [family |-> "address", of |-> e] /\ After(<<"int", "*", "f", "=">> \o Show(e) \o <<";">>)

EnumInit == \E values \in [1 .. 3 -> {"", "0", "3"}] : job = [family |-> "enum", of |-> values] /\ Begin(EnumProgram(values))

(* A constant expression has the value it would have when executed: in an initializer's    *)
(* data, an address relative to an object included, and in an assertion.                   *)
ConstantMeans(meant) ==
  LET written == p.objs[ObjectOf("f")].data[1][1]
  IN /\ (job.family = "constant" /\ meant.s.defined) =>
          /\ job.place = "assert" => (Failed(p) => meant.v = 0) /\ (phase = "done" => meant.v # 0)
          /\ job.place = "data" => ~Failed(p) /\ (phase = "done" => written.label = 0 /\ written.v = ConvertTo(meant.v, "long"))
     /\ job.family = "address" =>
          ~Failed(p) /\ (phase = "done" => p.objs[written.label].cell + written.v = CellOf(<<meant.ty.to, meant.v>>))
ConstantsMean ==
  /\ job.family \in {"constant", "address"} => ConstantMeans(Mean(job.of, State0))
  /\ job.family = "enum" =>
       ~Failed(p) /\ (phase = "done" =>
         LET data == p.objs[ObjectOf("f")].data[1] IN \A j \in 1 .. 3 : data[j].v = EnumValue(job.of)[j])

-----------------------------------------------------------------------------
(* Initializers, of a global variable and of a local one. *)
Pair == Members("struct", <<"c", "d">>, <<AnInt_, AnInt_>>)
Shapes ==
  {ArrayShape(3, AnInt_), [ArrayShape(3, AnInt_) EXCEPT !.t = "open"], ArrayShape(2, Pair), ArrayShape(2, ArrayShape(2, AnInt_)),
   Members("struct", <<"h", "k", "u">>, <<AnInt_, ArrayShape(2, AnInt_), AnInt_>>), Members("struct", <<"h", "k">>, <<Pair, AnInt_>>),
   Members("struct", <<"h", "", "k">>, <<AnInt_, Pair, AnInt_>>),
   Members("struct", <<"h", "k">>, <<Members("union", <<"c", "d">>, <<AnInt_, AnInt_>>), AnInt_>>),
   Members("union", <<"h", "k">>, <<Pair, AnInt_>>)}
ItemsAt(shape, n, m_) ==
  LET d == {e \in Designators(shape) : e[2] # <<>>} \cup {NoSteps} IN
  {Item(e, n, <<>>) : e \in d} \cup {Item(e, "", <<Item(NoSteps, n, <<>>)>>) : e \in d}
  \cup {Item(NoSteps, "", <<Item(NoSteps, n, <<>>), Item(NoSteps, m_, <<>>)>>)}
ItemLists(shape) ==
  {<<>>} \cup {<<e>> : e \in ItemsAt(shape, "1", "2")} \cup {<<e, f>> : e \in ItemsAt(shape, "1", "2"), f \in ItemsAt(shape, "3", "4")}
  \cup {<<e, f, Item(NoSteps, "5", <<>>)>> : e \in ItemsAt(shape, "1", "2"), f \in {g_ \in ItemsAt(shape, "3", "4") : ~IsList(g_)}}
  \cup {<<Item(NoSteps, "1", <<>>), Item(NoSteps, "2", <<>>), Item(NoSteps, "3", <<>>), Item(NoSteps, "4", <<>>)>>}
(* A union that begins with an aggregate needs braces of its own. *)
Bracable(shape, items) == shape.t = "union" => \A i_ \in DOMAIN items : i_ = 1 /\ (IsList(items[i_]) \/ items[i_].steps # <<>>)
InitInit ==
  \E shape \in Shapes : \E items \in ItemLists(shape) :
    /\ Initialized(shape, items).ok /\ Bracable(shape, items) /\ (items = <<>> => shape.t \notin {"open", "union"})
    /\ job = [family |-> "init", shape |-> shape, of |-> items]
    /\ Begin(ShowShape(shape, <<"f">>) \o <<"=">> \o ShowItems(items) \o <<";", "void", "g", "(", "void", ")", "{">>
             \o ShowShape(shape, <<"x">>) \o <<"=">> \o ShowItems(items) \o <<";", "}">>)

(* Every scalar of the object, local or global, has the value the last item for it gives,  *)
(* and is zero if there is none; an array of unknown length has the elements it needs.       *)
InitializersMean ==
  job.family = "init" => ~Failed(p) /\ (phase = "done" =>
    LET ref == Initialized(job.shape, job.of)
        meant(o) == IF o \in DOMAIN ref.set THEN ref.set[o] ELSE 0
        global == p.objs[ObjectOf("f")]
        local == p.objs[CHOOSE j \in DOMAIN p.objs : p.objs[j].name = "x"]
        size == IF job.shape.t = "open" THEN 4 * ref.most ELSE SizeOf(job.shape)
        scalars == {o \in 0 .. size - 1 : o % 4 = 0}
        data == global.data[1]
        last(o) == LET ws == {j \in DOMAIN data : data[j].offset = o} IN IF ws = {} THEN 0 ELSE data[CHOOSE j \in ws : \A k_ \in ws : k_ <= j].v
        run == TreeOutcome(p.objs[ObjectOf("g")].body[1], [cell \in 0 .. p.free |-> 6])
    IN /\ global.ty.size = local.ty.size \/ IsRecord(global.ty)
       /\ Resolve(p, global.ty).size = size
       /\ \A o \in scalars : last(o) = meant(o) /\ Wrap(run.mem[local.cell + o], ty_int) = meant(o))

-----------------------------------------------------------------------------
(* Linkage: functions that refer to each other, and a variable that refers to one.       *)
Functions_ == {"f", "g", "h"}
StorageWords == [s_ \in {"", "static", "static inline", "inline"} |->
  CASE s_ = "" -> <<>> [] s_ = "static" -> <<"static">> [] s_ = "inline" -> <<"inline">> [] OTHER -> <<"static", "inline">>]
Prototype(name, words) == words \o <<"void", name, "(", "void", ")", ";">>
BodyOf(name, words, refs, block) ==
  words \o <<"void", name, "(", "void", ")", "{">>
  \o (IF refs = {} THEN <<>> ELSE LET r == CHOOSE r_ \in refs : TRUE IN (IF block THEN Prototype(r, <<>>) ELSE <<>>) \o <<r, "(", ")", ";">>)
  \o <<"}">>
(* again: the definitions repeat the storage class; block: a function declares in its     *)
(* body what it calls; data: what the variable v refers to, "" for no variable.            *)
LinkageInit ==
  \E storage \in [Functions_ -> DOMAIN StorageWords], refs \in [Functions_ -> {{}, {"f"}, {"g"}, {"h"}}],
     again, block \in BOOLEAN, data \in {"", "f"} :
    LET words(n) == IF again THEN StorageWords[storage[n]] ELSE <<>>
        order == <<"f", "g", "h">>
    IN /\ storage["g"] # "inline" /\ storage["h"] \in {"static", "static inline"} /\ refs["h"] # {"h"} /\ refs["g"] # {"g"}
       /\ block => again
       /\ job = [family |-> "linkage", storage |-> storage, refs |-> refs, data |-> data]
       /\ Begin(Prototype("f", StorageWords[storage["f"]]) \o Prototype("g", StorageWords[storage["g"]]) \o Prototype("h", StorageWords[storage["h"]])
                \o BodyOf("h", words("h"), refs["h"], block) \o (IF data = "" THEN <<>> ELSE <<"void", "(", "*", "v", ")", "(", "void", ")", "=", data, ";">>)
                \o BodyOf("f", words("f"), refs["f"], block) \o BodyOf("g", words("g"), refs["g"], block))
(* And a variable declared several times. *)
VariableDecls == [d \in {"plain", "extern", "value", "static", "static value"} |->
  CASE d = "plain" -> <<"int", "x", ";">> [] d = "extern" -> <<"extern", "int", "x", ";">> [] d = "value" -> <<"int", "x", "=", "1", ";">>
    [] d = "static" -> <<"static", "int", "x", ";">> [] OTHER -> <<"static", "int", "x", "=", "1", ";">>]
Statics == {"static", "static value"}
ValidDecls(list) ==
  /\ Cardinality({i_ \in DOMAIN list : list[i_] \in {"value", "static value"}}) <= 1
  /\ IF list[1] \in Statics THEN \A i_ \in DOMAIN list : list[i_] \in Statics \cup {"extern"} ELSE \A i_ \in DOMAIN list : list[i_] \notin Statics
VariableInit ==
  \E list \in UNION {[1 .. n -> DOMAIN VariableDecls] : n \in 1 .. 4} :
    /\ ValidDecls(list)
    /\ job = [family |-> "variable", of |-> list]
    /\ Begin(FoldLeft(LAMBDA s_, d : s_ \o VariableDecls[d], <<>>, list))

(* What is emitted is what the program needs, once: no function is missing that another one *)
(* emitted refers to, and no inline or static one is emitted in vain.                       *)
EmittedOnce ==
  (job.family \in {"linkage", "variable"}) => ~Failed(p) /\ (phase = "done" =>
    LET names == {p.objs[j].name : j \in Emitted}
        x == p.objs[CHOOSE j \in Emitted : p.objs[j].name = "x"]
    IN /\ \A i_, j \in Emitted : p.objs[i_].name = p.objs[j].name => i_ = j
       /\ job.family = "linkage" =>
            names \ {"v"} = Needed(job.storage, job.refs, IF job.data = "" THEN {} ELSE {job.data})
       /\ job.family = "variable" =>
            IF \A j \in DOMAIN job.of : job.of[j] = "extern" THEN names = {}
            ELSE /\ names = {"x"}
                 /\ x.static = (job.of[1] \in Statics)
                 /\ (x.data # <<>>) = \E j \in DOMAIN job.of : job.of[j] \in {"value", "static value"})

-----------------------------------------------------------------------------
WriteBody ==
  \/ \E e \in TwoOperators \cup AllPairs \cup Converted \cup Assigned \cup Ordered \cup OnPointers :
       job' = [family |-> "body", of |-> ReturnOf(e)] /\ After(InF(job'.of))
  \/ \E st \in Nested \cup Backward : job' = [family |-> "body", of |-> st] /\ After(InF(job'.of))

PrologueInit == job = [family |-> "prologue"] /\ Begin(Prologue)
InitFront == PrologueInit \/ EnumInit \/ LayoutInit \/ InitInit \/ LinkageInit \/ VariableInit
(* After the prologue, the rest of the program. *)
WriteRest ==
  /\ job.family = "prologue" /\ phase = "reading" /\ p.pos > Len(p.src)
  /\ WriteBody \/ WriteDeclaration \/ WriteConstant
  /\ UNCHANGED phase
(* Either programs are read, or names are put in the hash table and deleted. *)
NoProgram == job = [family |-> "names"] /\ p = ParserAt(<<>>) /\ phase = "done"
InitEither == Init /\ (InitFront \/ NoProgram)
NextEither ==
  \/ NextFront /\ UNCHANGED <<job, vars>>
  \/ WriteRest /\ UNCHANGED vars
  \/ job.family = "names" /\ Next /\ UNCHANGED <<job, frontVars>>
SpecEither == InitEither /\ [][NextEither]_<<frontVars, job, vars>>

(* What a function's body, read and executed, does is what C says: the value it   *)
(* returns, the calls it makes and what it leaves in the variables.               *)
BodiesMean == job.family = "body" => ~Failed(p) /\ (phase = "done" => Agrees(job.of))
=============================================================================
