------------------------------ MODULE FrontEnd -------------------------------
(***************************************************************************)
(* parse() of parse.c: a program is read one external declaration after the   *)
(* other; then the functions the program needs are marked, and redundant       *)
(* tentative definitions are dropped.  What is left is what the code           *)
(* generators emit (emitted).                                                  *)
(***************************************************************************)
EXTENDS Expressions

-----------------------------------------------------------------------------
(***************************************************************************)
(* Initializers: how a list of braces, designators and expressions becomes a  *)
(* tree with one place for each scalar, and how that tree becomes assignments *)
(* to a local variable or the data of a global one.                           *)
(*                                                                         *)
(* Operators return [v, p] with the initializer as it is after.  String       *)
(* literals and floating numbers are left out.                                *)
(***************************************************************************)
(* expr: <<e>> or <<>>; mem: the member a union's initializer is for, 0 for     *)
(* none; flexible: an array whose length the initializer tells.                *)
RECURSIVE new_initializer(_, _, _)
new_initializer(p, ty, flexible) ==
  LET open == ty.k = "array" /\ flexible /\ ty.len < 0
      ms == MembersOf(p, ty)
      last(i) == flexible /\ p.structs[ty.id].flexible /\ i = Len(ms)
      bare(t) == [ty |-> t, flexible |-> FALSE, expr |-> <<>>, mem |-> 0, children |-> <<>>]
      children ==
        IF ty.k = "array" /\ ~open THEN [i \in 1 .. ty.len |-> new_initializer(p, Base(ty), FALSE)]
        ELSE IF IsRecord(ty)
        THEN [i \in DOMAIN ms |-> IF last(i) THEN [bare(ms[i].ty) EXCEPT !.flexible = TRUE]
                                  ELSE new_initializer(p, ms[i].ty, FALSE)]
        ELSE <<>>
  IN [bare(ty) EXCEPT !.flexible = open, !.children = children]

IsEnd(p) == Peek(p) = "}" \/ (Peek(p) = "," /\ PeekNext(p) = "}")
PassEnd(p) == IF Peek(p) = "}" THEN Advance(p) ELSE Advance(Advance(p))
SkipComma(p, first) == IF first THEN p ELSE Skip(p, ",")
Child(init, i, child) == [init EXCEPT !.children[i] = child]

(* As in Declarations: what designation does is in ReadDesignation, and so on.  *)
(* An item and a designator are read here too.                                 *)
RECURSIVE ReadInit(_, _)
initializer2(p, init) == ReadInit("initializer2", <<p, init>>)
designation(p, init) == ReadInit("designation", <<p, init>>)
EachOf(p, init, begin, end) == ReadInit("EachOf", <<p, init, begin, end>>)
array1(p, init, i, first) == ReadInit("array1", <<p, init, i, first>>)
array2(p, init, i, first) == ReadInit("array2", <<p, init, i, first>>)
struct1(p, init, i, first) == ReadInit("struct1", <<p, init, i, first>>)
struct2(p, init, i, first) == ReadInit("struct2", <<p, init, i, first>>)
union_initializer(p, init) == ReadInit("union_initializer", <<p, init>>)
count(p, dummy, i, most, first) == ReadInit("count", <<p, dummy, i, most, first>>)
skip_excess_element(p) == ReadInit("skip_excess_element", <<p>>)
ItemExpr(p) == ReadInit("assign", <<p>>)
ItemConst(p) == ReadInit("const_expr", <<p>>)
variable_initializer(p, i) == ReadInit("variable_initializer", <<p, i>>)

(* [begin ... end]: both from 1 here; (0, 0) with an error.  The code has no      *)
(* check for a negative index, and reads before the children at one: the programs *)
(* have none.                                                                    *)
array_designator(p, ty) ==
  LET b == ItemConst(Advance(p))
      e == ItemConst(Advance(b.p))
      end == IF Peek(b.p) = "..." THEN e ELSE b
  IN IF Failed(end.p) \/ b.v >= ty.len \/ end.v >= ty.len \/ end.v < b.v
     THEN [begin |-> 0, end |-> 0, p |-> Fail(p)]
     ELSE [begin |-> b.v + 1, end |-> end.v + 1, p |-> Skip(end.p, "]")]

(* The member after the dot, 0 if there is none; the place stays at the dot for  *)
(* a member of an anonymous struct.                                             *)
struct_designator(p, ty) ==
  LET name == PeekNext(p)
      path == get_struct_member(p, ty, name)
      ms == MembersOf(p, ty)
      i == CHOOSE j \in DOMAIN ms : ms[j] = path[1]
  IN IF ~IsIdent(name) \/ path = <<>> THEN [v |-> 0, p |-> Fail(p)]
     ELSE [v |-> i, p |-> IF path[1].name = "" THEN p ELSE Advance(Advance(p))]

ReadExcess(p) ==
  IF Peek(p) = "{" THEN Skip(skip_excess_element(Advance(p)), "}") ELSE ItemExpr(p).p

(* The same initializer for the elements from begin to end. *)
ReadEach(p, init, begin, end) ==
  LET one == designation(p, init.children[begin])
  IN IF begin = end THEN [v |-> Child(init, begin, one.v), p |-> one.p]
     ELSE EachOf(p, Child(init, begin, one.v), begin + 1, end)

ReadDesignation(p, init) ==
  LET d == array_designator(p, init.ty)
      all == EachOf(d.p, init, d.begin, d.end)
      m == struct_designator(p, init.ty)
      inner == designation(m.p, init.children[m.v])
      done == Child(init, m.v, inner.v)
  IN CASE Failed(p) -> [v |-> init, p |-> p]
       [] Peek(p) = "[" -> IF init.ty.k # "array" \/ Failed(d.p) THEN [v |-> init, p |-> Fail(p)]
                           ELSE array2(all.p, all.v, d.begin + 1, TRUE)
       [] Peek(p) = "." /\ IsRecord(init.ty) ->
            IF Failed(m.p) THEN [v |-> init, p |-> m.p]
            ELSE IF init.ty.k = "struct" THEN struct2(inner.p, [done EXCEPT !.expr = <<>>], m.v + 1, TRUE)
            ELSE [v |-> [done EXCEPT !.mem = m.v], p |-> inner.p]
       [] Peek(p) = "." -> [v |-> init, p |-> Fail(p)]
       [] OTHER -> initializer2(IF Peek(p) = "=" THEN Advance(p) ELSE p, init)

(* count_array_init_elements: i is the next element, most the length so far;    *)
(* everything is initialized into one dummy element.                            *)
ReadCount(p, dummy, i, most, first) ==
  LET at == SkipComma(p, first)
      b == ItemConst(Advance(at))
      e == IF Peek(b.p) = "..." THEN ItemConst(Advance(b.p)) ELSE b
      designated == Peek(at) = "["
      one == IF designated THEN designation(Skip(e.p, "]"), dummy) ELSE initializer2(at, dummy)
      next == (IF designated THEN e.v ELSE i) + 1
  IN IF IsEnd(p) \/ Failed(p) THEN most
     ELSE count(one.p, one.v, next, Largest({most, next}, 0), FALSE)

WithLength(p, init) ==
  IF ~init.flexible THEN init
  ELSE new_initializer(p, array_of(Resolve(p, Base(init.ty)),
                                   count(p, new_initializer(p, Base(init.ty), TRUE), 0, 0, TRUE)), FALSE)

(* array_initializer1, after the opening brace: element i is next. *)
ReadArray1(p, init, i, first) ==
  LET at == SkipComma(p, first)
      d == array_designator(at, init.ty)
      all == EachOf(d.p, init, d.begin, d.end)
      one == initializer2(at, init.children[i])
  IN IF Failed(p) THEN [v |-> init, p |-> p]
     ELSE IF IsEnd(p) THEN [v |-> init, p |-> PassEnd(p)]
     ELSE IF Peek(at) = "[" THEN IF Failed(d.p) THEN [v |-> init, p |-> d.p] ELSE array1(all.p, all.v, d.end + 1, FALSE)
     ELSE IF i <= init.ty.len THEN array1(one.p, Child(init, i, one.v), i + 1, FALSE)
     ELSE array1(skip_excess_element(at), init, i + 1, FALSE)

(* array_initializer2: an array without braces of its own. *)
ReadArray2(p, init, i, first) ==
  LET at == IF ~first \/ Peek(p) = "," THEN Skip(p, ",") ELSE p
      one == initializer2(at, init.children[i])
  IN IF i > init.ty.len \/ IsEnd(p) \/ Failed(p) \/ Peek(at) \in {"[", "."} THEN [v |-> init, p |-> p]
     ELSE array2(one.p, Child(init, i, one.v), i + 1, FALSE)

(* struct_initializer1 and struct_initializer2: member i is next. *)
ReadStruct1(p, init, i, first) ==
  LET at == SkipComma(p, first)
      m == struct_designator(at, init.ty)
      inner == designation(m.p, init.children[m.v])
      one == initializer2(at, init.children[i])
  IN IF Failed(p) THEN [v |-> init, p |-> p]
     ELSE IF IsEnd(p) THEN [v |-> init, p |-> PassEnd(p)]
     ELSE IF Peek(at) = "." THEN IF Failed(m.p) THEN [v |-> init, p |-> m.p]
                                 ELSE struct1(inner.p, Child(init, m.v, inner.v), m.v + 1, FALSE)
     ELSE IF i <= Len(init.children) THEN struct1(one.p, Child(init, i, one.v), i + 1, FALSE)
     ELSE struct1(skip_excess_element(at), init, i, FALSE)

ReadStruct2(p, init, i, first) ==
  LET at == IF ~first \/ Peek(p) = "," THEN Skip(p, ",") ELSE p
      one == initializer2(at, init.children[i])
  IN IF i > Len(init.children) \/ IsEnd(p) \/ Failed(p) \/ Peek(at) \in {"[", "."} THEN [v |-> init, p |-> p]
     ELSE struct2(one.p, Child(init, i, one.v), i + 1, FALSE)

ReadUnion(p, init) ==
  LET m == struct_designator(Advance(p), init.ty)
      inner == designation(m.p, init.children[m.v])
      one == initializer2(Advance(p), init.children[1])
      end == IF Peek(one.p) = "," THEN Advance(one.p) ELSE one.p
  IN IF PeekNext(p) = "."
     THEN IF Failed(m.p) THEN [v |-> init, p |-> m.p]
          ELSE [v |-> [Child(init, m.v, inner.v) EXCEPT !.mem = m.v], p |-> Skip(inner.p, "}")]
     ELSE [v |-> [Child(init, 1, one.v) EXCEPT !.mem = 1], p |-> Skip(end, "}")]

(* An aggregate without braces may be another of its kind, so its first          *)
(* expression is read once to see, and again as that of its first member.        *)
ReadInitializer(p, init) ==
  LET sized == WithLength(IF Peek(p) = "{" THEN Advance(p) ELSE p, init)
      e == ItemExpr(p)
      inner == initializer2(Advance(p), init)
      whole == [init EXCEPT !.expr = <<e.v>>]
      firstOf == [Child(init, 1, [init.children[1] EXCEPT !.expr = <<e.v>>]) EXCEPT !.mem = 1]
  IN CASE Failed(p) -> [v |-> init, p |-> p]
       [] init.ty.k = "array" -> IF Peek(p) = "{" THEN array1(Advance(p), sized, 1, TRUE) ELSE array2(p, sized, 1, TRUE)
       [] init.ty.k = "struct" ->
            IF Peek(p) = "{" THEN struct1(Advance(p), init, 1, TRUE)
            ELSE IF e.v.ty.k = "struct" THEN [v |-> whole, p |-> e.p]
            ELSE struct2(MoveTo(e.p, p.pos), init, 1, TRUE)
       [] init.ty.k = "union" ->
            IF Peek(p) = "{" THEN union_initializer(p, init)
            ELSE [v |-> IF e.v.ty.k = "union" THEN whole ELSE firstOf, p |-> e.p]
       [] Peek(p) = "{" -> [v |-> inner.v, p |-> Skip(inner.p, "}")]
       [] OTHER -> [v |-> whole, p |-> e.p]

(* The initializer and the type of the variable, whose length it may tell; a      *)
(* struct whose flexible member it gives a length gets a type of its own.         *)
TypedBy(i, ty) ==
  LET st == i.p.structs[ty.id]
      last == Len(st.members)
      tail == i.v.children[last].ty
      wider == [st EXCEPT !.members[last].ty = tail, !.size = @ + tail.size]
  IN IF Failed(i.p) \/ ~IsRecord(ty) THEN [v |-> i.v, ty |-> i.v.ty, p |-> i.p]
     ELSE IF ~st.flexible THEN [v |-> i.v, ty |-> ty, p |-> i.p]
     ELSE [v |-> i.v, ty |-> [ty EXCEPT !.id = Len(i.p.structs) + 1], p |-> [i.p EXCEPT !.structs = Append(@, wider)]]
initializer(p, ty) == TypedBy(initializer2(p, new_initializer(p, ty, TRUE)), ty)

(* The initializer of the variable i, which gets the type that tells: what the two   *)
(* functions after it begin with.                                                 *)
Retyped(r, i) == [init |-> r.v, p |-> WithType(r.p, i, r.ty)]
ReadVariableInit(p, i) == Retyped(initializer(p, Resolve(p, p.objs[i].ty)), i)

ReadInit(what, t) ==
  CASE what = "initializer2" -> ReadInitializer(t[1], t[2])
    [] what = "designation" -> ReadDesignation(t[1], t[2])
    [] what = "EachOf" -> ReadEach(t[1], t[2], t[3], t[4])
    [] what = "array1" -> ReadArray1(t[1], t[2], t[3], t[4])
    [] what = "array2" -> ReadArray2(t[1], t[2], t[3], t[4])
    [] what = "struct1" -> ReadStruct1(t[1], t[2], t[3], t[4])
    [] what = "struct2" -> ReadStruct2(t[1], t[2], t[3], t[4])
    [] what = "union_initializer" -> ReadUnion(t[1], t[2])
    [] what = "count" -> ReadCount(t[1], t[2], t[3], t[4], t[5])
    [] what = "skip_excess_element" -> ReadExcess(t[1])
    [] what = "variable_initializer" -> ReadVariableInit(t[1], t[2])
    [] OTHER -> ReadExpr(what, t)

-----------------------------------------------------------------------------
(* What becomes of the tree. *)

(* create_lvar_init: the assignments to the scalars of the object e. *)
RECURSIVE create_lvar_init(_, _, _)
create_lvar_init(p, init, e) ==
  LET part(i) ==
        IF init.ty.k = "array" THEN Indirect(p, new_add(p, e, NumNode(i - 1, ty_int)).v)
        ELSE LET m == MembersOf(p, e.ty)[i] IN Dot(e, m.offset, Resolve(p, m.ty), m.isBitfield)
      all[i \in 0 .. Len(init.children)] ==
        IF i = 0 THEN NoExpr ELSE Comma(all[i - 1], create_lvar_init(p, init.children[i], part(i)))
      member == IF init.mem = 0 THEN 1 ELSE init.mem
  IN IF init.expr = <<>> /\ init.ty.k \in {"array", "struct"} THEN all[Len(init.children)]
     ELSE IF init.expr = <<>> /\ init.ty.k = "union" THEN create_lvar_init(p, init.children[member], part(member))
     ELSE IF init.expr = <<>> THEN NoExpr
     ELSE AssignTo(e, init.expr[1])

AssignmentsUnzeroed(r, var) == IF Failed(r.p) THEN Error(r.p) ELSE Got(create_lvar_init(r.p, r.init, var), r.p)
(* Zero everywhere, then what is given. *)
Assignments(r, var) ==
  IF Failed(r.p) THEN Error(r.p) ELSE Got(Comma(MemZero(var.cell, var.ty), create_lvar_init(r.p, r.init, var)), r.p)
lvar_initializer(r, i) == Assignments(r, VarNode(r.p, i))

(* write_gvar_data: the scalars written, in order, each a record: its offset, its *)
(* size, a bit-field's first bit and width (0 for others) and its value, relative  *)
(* to an object or not.                                                            *)
Written(offset, size, bit, width, c) ==
  [offset |-> offset, size |-> size, bit |-> bit, width |-> width, v |-> c.v, label |-> c.label]
RECURSIVE write_gvar_data(_, _, _)
write_gvar_data(p, init, offset) ==
  LET ms == MembersOf(p, init.ty)
      field(m, child) ==
        LET c == eval(child.expr[1]) IN
        IF child.expr = <<>> THEN [ok |-> TRUE, data |-> <<>>]
        ELSE [ok |-> c.ok, data |-> <<Written(offset + m.offset, m.size, m.bitOffset, m.width, [c EXCEPT !.v = @ % 2 ^ m.width])>>]
      part(i) ==
        IF init.ty.k = "array" THEN write_gvar_data(p, init.children[i], offset + (i - 1) * Resolve(p, Base(init.ty)).size)
        ELSE IF ms[i].isBitfield THEN field(ms[i], init.children[i])
        ELSE write_gvar_data(p, init.children[i], offset + ms[i].offset)
      all[i \in 0 .. Len(init.children)] ==
        IF i = 0 THEN [ok |-> TRUE, data |-> <<>>]
        ELSE LET one == part(i) IN [ok |-> all[i - 1].ok /\ one.ok, data |-> all[i - 1].data \o one.data]
      c == eval2(init.expr[1], TRUE)
  IN CASE init.ty.k \in {"array", "struct"} -> all[Len(init.children)]
       [] init.ty.k = "union" -> IF init.mem = 0 THEN all[0] ELSE write_gvar_data(p, init.children[init.mem], offset)
       [] init.expr = <<>> -> [ok |-> TRUE, data |-> <<>>]
       [] OTHER -> [ok |-> c.ok, data |-> <<Written(offset, init.ty.size, 0, 0,
                                                    [c EXCEPT !.v = IF c.label = 0 THEN Wrap(@, init.ty) ELSE @])>>]

DataOf(p, i, w) == IF ~w.ok THEN Fail(p) ELSE [p EXCEPT !.objs[i].data = <<w.data>>]
gvar_initializer(r, i) == IF Failed(r.p) THEN r.p ELSE DataOf(r.p, i, write_gvar_data(r.p, r.init, 0))

-----------------------------------------------------------------------------
(***************************************************************************)
(* How the parser reads statements, local declarations, functions and global  *)
(* variables (parse.c).  They are read by one group of operators, as a block   *)
(* may declare functions and external variables.                              *)
(*                                                                         *)
(* stmt and what it calls return [v, p]; what only changes the parser's state *)
(* returns that state.  A label, written or made, is a number; one that is     *)
(* written gets it where it is first met.  Inline assembly, computed gotos     *)
(* and asm names are left out.                                                *)
(***************************************************************************)
(* As in Declarations: what declaration does is in ReadDeclaration, and so on. *)
RECURSIVE ReadStmt(_, _)
stmt(p) == ReadStmt("stmt", <<p>>)
block_items(p, body) == ReadStmt("block_items", <<p, body>>)
declaration(p, base, attr, body) == ReadStmt("declaration", <<p, base, attr, body>>)
function(p, base, attr) == ReadStmt("function", <<p, base, attr>>)
global_variable(p, base, attr, first) == ReadStmt("global_variable", <<p, base, attr, first>>)
parse_typedef(p, base, first) == ReadStmt("parse_typedef", <<p, base, first>>)
external_declaration(p) == ReadStmt("external_declaration", <<p>>)
is_function(p, base) == ReadStmt("is_function", <<p, base>>)
Declared(p, base, attr) == ReadStmt("Declared", <<p, base, attr>>)
Expr(p) == ReadStmt("expr", <<p>>)
ConstExpr(p) == ReadStmt("const_expr", <<p>>)
Specs(p, allowed) == ReadStmt("Specifiers", <<NoSpecifiers(p), allowed>>)
Declarator(p, base) == ReadStmt("declarator", <<p, base>>)
Initial(p, i) == ReadStmt("variable_initializer", <<p, i>>)
LocalInit(p, i) == lvar_initializer(Initial(p, i), i)
GlobalInit(p, i) == gvar_initializer(Initial(p, i), i)

(* new_unique_name: the label made is the last id. *)
NewId(p) == [p EXCEPT !.ids = @ + 1]

expr_stmt(p) ==
  LET e == Expr(p)
  IN IF Peek(p) = ";" THEN Got(Empty, Advance(p)) ELSE Got(ExprStmt(e.v), Skip(e.p, ";"))

(* The string the assertion carries is a token of its own. *)
static_assertion(p) ==
  LET e == ConstExpr(Skip(Advance(p), "("))
      end == Skip(Skip(Advance(Skip(e.p, ",")), ")"), ";")
  IN IF e.v = 0 THEN Fail(p) ELSE end

compound_stmt(p) == block_items(enter_scope(p), <<>>)

(* The condition in parentheses of if, switch and while. *)
Condition(p) == LET c == Expr(Skip(Advance(p), "(")) IN Got(c.v, Skip(c.p, ")"))

IfStmt(p) ==
  LET c == Condition(p)
      then == stmt(c.p)
      els == stmt(Advance(then.p))
  IN IF Peek(then.p) = "else" THEN Got(If(c.v, then.v, els.v), els.p) ELSE Got(If(c.v, then.v, Empty), then.p)

(* break, case and default belong to the innermost switch, whose record the     *)
(* parser's state holds while it reads the body.                               *)
SwitchStmt(p) ==
  LET c == Condition(p)
      q == NewId(c.p)
      body == stmt([q EXCEPT !.brk = q.ids, !.switch = <<[cases |-> <<>>, default |-> None]>>])
      own == body.p.switch[1]
  IN IF Failed(body.p) THEN Error(p)
     ELSE Got(Switch(c.v, body.v, own.cases, own.default, q.ids),
              [body.p EXCEPT !.brk = p.brk, !.switch = p.switch])

(* int begin, end: the constants of a case lose what an int does not hold.      *)
CaseStmt(p) ==
  LET first == ConstExpr(Advance(p))
      last == IF Peek(first.p) = "..." THEN ConstExpr(Advance(first.p)) ELSE first
      begin == Wrap(first.v, ty_int)
      end == Wrap(last.v, ty_int)
      q == NewId(Skip(last.p, ":"))
      body == stmt(q)
  IN IF p.switch = <<>> \/ end < begin \/ Failed(body.p) THEN Error(p)
     ELSE Got(Labelled(q.ids, body.v),
              [body.p EXCEPT !.switch[1].cases = <<[begin |-> begin, end |-> end, label |-> q.ids]>> \o @])

DefaultStmt(p) ==
  LET q == NewId(Skip(Advance(p), ":"))
      body == stmt(q)
  IN IF p.switch = <<>> \/ Failed(body.p) THEN Error(p)
     ELSE Got(Labelled(q.ids, body.v), [body.p EXCEPT !.switch[1].default = q.ids])

(* The labels of a loop, break's first, are those of the statements read until   *)
(* LeaveLoop.                                                                    *)
EnterLoop(p) == LET q == NewId(NewId(p)) IN [q EXCEPT !.brk = q.ids - 1, !.cont = q.ids]
LeaveLoopForBreak(p, outer) == [p EXCEPT !.brk = outer.brk]
LeaveLoop(p, outer) == [p EXCEPT !.brk = outer.brk, !.cont = outer.cont]

ForStmt(p) ==
  LET q == EnterLoop(enter_scope(Skip(Advance(p), "(")))
      s == Specs(q, FALSE)
      init == IF IsTypename(q) THEN declaration(s.p, s.ty, NoAttr, <<>>) ELSE expr_stmt(q)
      cond == IF Peek(init.p) = ";" THEN Got(NoExpr, init.p) ELSE Expr(init.p)
      third == Skip(cond.p, ";")
      inc == IF Peek(third) = ")" THEN Got(NoExpr, third) ELSE Expr(third)
      body == stmt(Skip(inc.p, ")"))
  IN Got(For(init.v, cond.v, inc.v, body.v, q.brk, q.cont), LeaveLoop(leave_scope(body.p), p))

WhileStmt(p) ==
  LET c == Condition(p)
      q == EnterLoop(c.p)
      body == stmt(q)
  IN Got(For(Empty, c.v, NoExpr, body.v, q.brk, q.cont), LeaveLoop(body.p, p))

DoStmt(p) ==
  LET q == EnterLoop(Advance(p))
      body == stmt(q)
      c == Condition(IF Peek(body.p) = "while" THEN LeaveLoop(body.p, p) ELSE Fail(p))
  IN Got(Do(body.v, c.v, q.brk, q.cont), Skip(c.p, ";"))

(* The number of a label of the program. *)
Mentioned(p, name) ==
  IF name \in DOMAIN p.labels THEN p ELSE [NewId(p) EXCEPT !.labels = Bind(@, name, [id |-> p.ids + 1, defined |-> FALSE])]
LabelId(p, name) == Mentioned(p, name).labels[name].id

ReadStatement(p) ==
  LET tok == Peek(p)
      next == Advance(p)
      e == Expr(next)
      ret == p.objs[p.fn].ty.ret[1]
      body == stmt(Advance(Advance(Mentioned(p, tok))))
  IN CASE tok = "return" ->
            IF PeekNext(p) = ";" THEN Got(Return(NoExpr), Advance(next))
            ELSE Got(Return(IF IsRecord(ret) THEN e.v ELSE new_cast(e.v, ret)), Skip(e.p, ";"))
       [] tok = "if" -> IfStmt(p)
       [] tok = "switch" -> SwitchStmt(p)
       [] tok = "case" -> CaseStmt(p)
       [] tok = "default" -> DefaultStmt(p)
       [] tok = "for" -> ForStmt(p)
       [] tok = "while" -> WhileStmt(p)
       [] tok = "do" -> DoStmt(p)
       [] tok = "goto" -> IF ~IsIdent(PeekNext(p)) THEN Error(p)
                          ELSE Got(GotoStmt(LabelId(p, PeekNext(p))), Skip(Advance(Advance(Mentioned(p, PeekNext(p)))), ";"))
       [] tok = "break" -> IF p.brk = None THEN Error(p) ELSE Got(GotoStmt(p.brk), Skip(next, ";"))
       [] tok = "continue" -> IF p.cont = None THEN Error(p) ELSE Got(GotoStmt(p.cont), Skip(next, ";"))
       [] IsIdent(tok) /\ PeekNext(p) = ":" ->
            IF Failed(body.p) THEN Error(p)
            ELSE Got(Labelled(LabelId(p, tok), body.v), [body.p EXCEPT !.labels[tok].defined = TRUE])
       [] tok = "{" -> compound_stmt(next)
       [] OTHER -> expr_stmt(p)

-----------------------------------------------------------------------------
(* Declarations in a block. *)

(* A declarator with the attributes after it. *)
WithAttributes(d, attrs) ==
  LET typed == apply_attr_to_type(attrs.p, d.ty, attrs.v)
  IN [name |-> d.name, ty |-> typed.v, p |-> typed.p, attr |-> attrs.v]
Attributed(d, attr) == WithAttributes(d, consume_attributes(d.p, attr))

(* The declarator is read once more to see what it declares. *)
ReadAhead(p, base) ==
  LET d == Declarator(p, base)
      after == consume_attributes(d.p, NoAttr)
  IN IF Peek(p) = ";" THEN [v |-> FALSE, p |-> p] ELSE [v |-> d.ty.k = "func", p |-> MoveTo(after.p, p.pos)]

(* body: the statements that initialize the variables declared so far.          *)
LocalOf(p, i) == IF Failed(p.p) \/ Resolve(p.p, p.p.objs[i].ty).size < 0 THEN Error(p.p) ELSE p
NextLocal(var, base, attr, body) == IF Failed(var.p) THEN var ELSE declaration(var.p, base, attr, Append(body, var.v))
Declare_(d, base, body) ==
  LET q == d.p
      redefined == d.name \in DOMAIN q.scopes[1].vars /\ q.scopes[1].vars[d.name].k = "var"
      initialized == Peek(q) = "="
      anonymous == new_gvar(q, "", d.ty)
      static == push_scope(anonymous, d.name, VarEntry(Len(anonymous.objs), d.ty))
      local == new_lvar(q, d.name, d.ty)
      i == Len(q.objs) + 1
      init == LocalInit(Advance(local), i)
  IN IF Failed(q) \/ d.name = "" \/ d.ty.k = "void" \/ redefined THEN Error(q)
     ELSE IF d.attr.static
     THEN NextLocal(Got(Empty, IF initialized THEN GlobalInit(Advance(static), i) ELSE static), base, d.attr, body)
     ELSE NextLocal(LocalOf(IF initialized THEN Got(ExprStmt(init.v), init.p) ELSE Got(Empty, local), i), base, d.attr, body)
ReadDeclaration(p, base, attr, body) ==
  IF Peek(p) = ";" THEN Got(Block(body), Advance(p))
  ELSE Declare_(Declared(IF body = <<>> THEN p ELSE Skip(p, ","), base, attr), base, body)

ReadItems(p, body) ==
  LET s == Specs(p, TRUE)
      f == is_function(s.p, s.ty)
      local == declaration(f.p, s.ty, s.attr, <<>>)
      one == stmt(p)
  IN IF Failed(p) THEN Error(p)
     ELSE IF Peek(p) = "}" THEN Got(Block(body), leave_scope(Advance(p)))
     ELSE IF Peek(p) = "_Static_assert" THEN block_items(static_assertion(p), body)
     ELSE IF ~IsTypename(p) \/ PeekNext(p) = ":" THEN block_items(one.p, Append(body, one.v))
     ELSE IF s.attr.typedef THEN block_items(parse_typedef(s.p, s.ty, TRUE), body)
     ELSE IF f.v THEN block_items(function(f.p, s.ty, s.attr), body)
     ELSE IF s.attr.extern THEN block_items(global_variable(f.p, s.ty, s.attr, TRUE), body)
     ELSE block_items(local.p, Append(body, local.v))

-----------------------------------------------------------------------------
(* Declarations of typedefs, functions and global variables; first: no          *)
(* declarator of this declaration has been read.                                *)

ReadTypedef(p, base, first) ==
  LET d == Declarator(IF first THEN p ELSE Skip(p, ","), base)
  IN IF Peek(p) = ";" THEN Advance(p)
     ELSE IF Failed(d.p) \/ d.name = "" THEN Fail(p)
     ELSE parse_typedef(push_scope(d.p, d.name, TypedefEntry(d.ty)), base, FALSE)

(* The function of that name that the outermost scope knows, 0 if there is none. *)
find_func(p, name) ==
  LET vars == p.scopes[Len(p.scopes)].vars
  IN IF name \notin DOMAIN vars \/ vars[name].k # "var" THEN 0
     ELSE IF p.objs[vars[name].val].ty.k = "func" THEN vars[name].val ELSE 0

(* From the last to the first. *)
create_param_lvars(p, types, names) ==
  LET made[i \in 1 .. Len(names) + 1] ==
        LET q == made[i + 1] IN
        IF i > Len(names) THEN p
        ELSE IF names[i] = "" \/ names[i] \in DOMAIN q.scopes[1].vars THEN Fail(q)
        ELSE new_lvar(q, names[i], types[i])
  IN made[1]

resolve_goto_labels(p) ==
  IF \E l \in DOMAIN p.labels : ~p.labels[l].defined THEN Fail(p) ELSE [p EXCEPT !.labels = <<>>]

(* The function object i gets its body, which comes next, with parameters of the  *)
(* types and names of ty.  A struct that does not fit in registers is returned    *)
(* through a pointer, the first parameter.                                        *)
FunctionBody(p, i, ty) ==
  LET params == create_param_lvars(enter_scope([p EXCEPT !.fn = i]), ty.params, ty.names)
      ret == Resolve(p, ty.ret[1])
      hidden == IF IsRecord(ret) /\ ret.size > 16 THEN new_lvar(params, "", pointer_to(ret)) ELSE params
      va_area == IF ty.variadic THEN new_lvar(hidden, "__va_area__", array_of(ty_char, 136)) ELSE hidden
      body == compound_stmt(Skip(new_lvar(va_area, "__alloca_size__", pointer_to(ty_char)), "{"))
      made == Len(hidden.objs) - Len(p.objs)
      all == [body.p EXCEPT !.objs[i].body = <<body.v>>,
                            !.objs[i].params = [j \in 1 .. made |-> Len(hidden.objs) + 1 - j]]
  IN IF Failed(body.p) THEN body.p ELSE resolve_goto_labels(leave_scope(all))

AbiOf(d) == IF d.attr.abi # "" THEN d.attr.abi ELSE IF d.ty.abi # "" THEN d.ty.abi ELSE "sysv64"
WithRoot(p, i) == [p EXCEPT !.objs[i].root = LET f == p.objs[i] IN f.definition /\ ~f.inline /\ ~f.static]
DeclareFunction(d, ty, old) ==
  LET q == d.p
      hasBody == Peek(q) = "{"
      fn == q.objs[old]
      static == d.attr.static \/ d.attr.inline
      error == (fn.definition /\ hasBody) \/ (d.attr.static /\ ~fn.static /\ ~d.attr.inline)
      new == new_gvar(q, d.name, ty)
      i == IF old # 0 THEN old ELSE Len(q.objs) + 1
      first == [new EXCEPT !.objs[i] = [@ EXCEPT !.definition = hasBody, !.static = static, !.inline = d.attr.inline]]
      again == [q EXCEPT !.objs[i] = [@ EXCEPT !.definition = @ \/ hasBody, !.static = @ \/ static, !.inline = @ \/ d.attr.inline]]
      made == WithRoot(IF old # 0 THEN again ELSE first, i)
  IN IF Failed(q) \/ d.name = "" THEN Fail(q)
     ELSE IF old # 0 /\ error THEN Fail(q)
     ELSE IF Peek(q) = ";" THEN Advance(made)
     ELSE FunctionBody(made, i, ty)
FunctionOf_(d) == DeclareFunction(d, [d.ty EXCEPT !.abi = AbiOf(d)], find_func(d.p, d.name))
ReadFunction(p, base, attr) == FunctionOf_(Declared(p, base, attr))

(* A variable the name already denotes, at whatever scope, is declared again;     *)
(* a function's name may not be.                                                  *)
Redeclarable(var, ty, attr) ==
  /\ var.ty.k # "func"
  /\ is_compatible(var.ty, ty)
  /\ attr.static => var.static
  /\ var.static => attr.static \/ attr.extern

Redeclare(p, i, ty, attr) ==
  LET var == p.objs[i]
      completes == var.ty.k = "array" /\ var.ty.len < 0 /\ ty.k = "array" /\ ty.len >= 0
      was_def == var.definition /\ ~var.tentative
      initialized == Peek(p) = "="
      typed == IF completes THEN WithType(p, i, ty) ELSE p
      tentative == var.tentative \/ (var.data = <<>> /\ ~attr.extern /\ ~attr.tls /\ ~was_def)
      made == [typed EXCEPT !.objs[i] =
                 [@ EXCEPT !.definition = @ \/ ~attr.extern \/ initialized,
                           !.static = @ /\ (attr.extern \/ attr.static),
                           !.tentative = ~initialized /\ tentative]]
  IN IF ~Redeclarable(var, ty, attr) \/ (initialized /\ was_def /\ ~var.static) THEN Fail(p)
     ELSE IF initialized THEN GlobalInit(Advance(made), i) ELSE made

DeclareVariable(d, base, known) ==
  LET q == d.p
      initialized == Peek(q) = "="
      new == new_gvar(q, d.name, d.ty)
      i == Len(q.objs) + 1
      made == [new EXCEPT !.objs[i] = [@ EXCEPT !.definition = ~d.attr.extern, !.static = d.attr.static, !.tls = d.attr.tls,
                                                !.tentative = ~initialized /\ ~d.attr.extern /\ ~d.attr.tls]]
  IN IF Failed(q) \/ d.name = "" THEN Fail(q)
     ELSE IF known.k = "var" THEN global_variable(Redeclare(q, known.val, d.ty, d.attr), base, d.attr, FALSE)
     ELSE global_variable(IF initialized THEN GlobalInit(Advance(made), i) ELSE made, base, d.attr, FALSE)
VariableOf(d, base) == DeclareVariable(d, base, find_var(d.p, d.name))
ReadVariable(p, base, attr, first) ==
  IF Peek(p) = ";" THEN Advance(p) ELSE VariableOf(Declared(IF first THEN p ELSE Skip(p, ","), base, attr), base)

(* One turn of the loop of parse. *)
ReadExternal(p) ==
  LET s == Specs(p, TRUE)
      f == is_function(s.p, s.ty)
  IN CASE Peek(p) = "__extension__" -> Advance(p)
       [] Peek(p) = "_Static_assert" -> static_assertion(p)
       [] OTHER ->
            IF s.attr.typedef THEN parse_typedef(s.p, s.ty, TRUE)
            ELSE IF f.v THEN function(f.p, s.ty, s.attr)
            ELSE global_variable(f.p, s.ty, s.attr, TRUE)

ReadStmt(what, t) ==
  CASE what = "stmt" -> ReadStatement(t[1])
    [] what = "block_items" -> ReadItems(t[1], t[2])
    [] what = "declaration" -> ReadDeclaration(t[1], t[2], t[3], t[4])
    [] what = "function" -> ReadFunction(t[1], t[2], t[3])
    [] what = "global_variable" -> ReadVariable(t[1], t[2], t[3], t[4])
    [] what = "parse_typedef" -> ReadTypedef(t[1], t[2], t[3])
    [] what = "external_declaration" -> ReadExternal(t[1])
    [] what = "is_function" -> ReadAhead(t[1], t[2])
    [] what = "Declared" -> Attributed(Declarator(t[1], t[2]), t[3])
    [] OTHER -> ReadInit(what, t)

-----------------------------------------------------------------------------
VARIABLES
  p,       \* the parser's state
  phase    \* "reading", "marking", "scanning" or "done"
frontVars == <<p, phase>>

Begin(src) == p = ParserAt(src) /\ phase = "reading"

-----------------------------------------------------------------------------
(* The declarations of the program. *)

ExternalDeclaration ==
  /\ phase = "reading"
  /\ p.pos <= Len(p.src)
  /\ p' = external_declaration(p)
  /\ UNCHANGED phase

(* A program with an error has lost its tokens (Fail); the compiler stops.     *)
EndOfProgram ==
  /\ phase = "reading"
  /\ p.pos > Len(p.src) /\ ~Failed(p)
  /\ phase' = "marking"
  /\ UNCHANGED p

-----------------------------------------------------------------------------
(* After the last declaration.  globals are the objects that are not local, and *)
(* what a function or an initializer refers to is a name.                       *)

Globals == {i \in DOMAIN p.objs : ~p.objs[i].local}
IsFunction(q, i) == q.objs[i].ty.k = "func"

RECURSIVE mark_live(_, _), MarkAll(_, _)
MarkOnly(q, i) == IF i = 0 THEN q ELSE [q EXCEPT !.objs[i].live = TRUE]
mark_live(q, i) ==
  IF i = 0 \/ q.objs[i].live THEN q
  ELSE MarkAll([q EXCEPT !.objs[i].live = TRUE], q.objs[i].refs)
MarkAll(q, names) ==
  IF names = {} THEN q
  ELSE LET name == CHOOSE x \in names : TRUE
       IN MarkAll(mark_live(q, find_func(q, name)), names \ {name})

(* The names an initializer's data is relative to; a static local has none.     *)
Relocations(i) ==
  LET data == p.objs[i].data
  IN IF data = <<>> THEN {} ELSE {p.objs[data[1][j].label].name : j \in {k \in DOMAIN data[1] : data[1][k].label # 0}} \ {""}

(* The roots, and what the variables' data refers to. *)
MarkLive ==
  LET roots == {i \in Globals : IsFunction(p, i) /\ p.objs[i].root}
      related == UNION {Relocations(i) : i \in {j \in Globals : ~IsFunction(p, j)}}
      marked[R \in SUBSET roots] ==
        IF R = {} THEN p ELSE LET i == CHOOSE x \in R : TRUE IN mark_live(marked[R \ {i}], i)
  IN /\ phase = "marking"
     /\ p' = MarkAll(marked[roots], related)
     /\ phase' = "scanning"

(* scan_globals: a tentative definition gives way to another definition of its   *)
(* name, tentative or not.                                                       *)
Redundant(i) ==
  p.objs[i].tentative /\ \E j \in Globals \ {i} : p.objs[j].definition /\ p.objs[j].name = p.objs[i].name
ScanGlobals ==
  /\ phase = "scanning"
  /\ p' = [p EXCEPT !.objs = [i \in DOMAIN @ |-> IF i \in Globals /\ Redundant(i) THEN [@[i] EXCEPT !.definition = FALSE] ELSE @[i]]]
  /\ phase' = "done"

(* What the code generators emit. *)
Emitted == {i \in Globals : p.objs[i].definition /\ (IsFunction(p, i) => p.objs[i].live)}

NextFront == ExternalDeclaration \/ EndOfProgram \/ MarkLive \/ ScanGlobals
=============================================================================
