---------------------------- MODULE MCPreprocessor ----------------------------
(* Texts to be cut into tokens (MCTokenizer), files over the macros X (a     *)
(* guard, a condition) and E (empty), and units of directives that name      *)
(* resources.                                                               *)
EXTENDS Preprocessor, Embed, MCTokenizer

CONSTANT Length  \* lines of an arbitrary file

In(file, dir, arg) == Line(file, dir, arg, Absent, Absent, Absent)
Define(file, name, body) == Line(file, "define", name, body, Absent, Absent)
M(dir, arg) == In("main", dir, arg)
H(dir, arg) == In("h", dir, arg)

Alone(Mains) == [main : Mains, h : {<<>>}]

(* Every file of Length lines of conditionals, text and #define. *)
Conditionals ==
  Alone([1 .. Length -> {M("if", "1"), M("if", "X"), M("ifndef", "X"), M("elif", "1"), M("elifdef", "X"),
                                      M("else", ""), M("endif", ""), Define("main", "X", "1"), M("text", "a")}])

(* A conditional with three groups, nested in a group of another.           *)
Nested ==
  {<<o, M("text", "a"), i, g, e, M("text", "b"), M("else", ""), M("text", "c"), M("endif", ""), f, M("text", "d"), M("endif", "")>> :
     o \in {M("if", "0"), M("ifdef", "X"), M("ifndef", "X")}, i \in {M("if", "0"), M("if", "1")},
     g \in {Define("main", "X", "1"), M("undef", "X"), M("error", "")}, e \in {M("elif", "X"), M("elifndef", "X"), M("elifdef", "X")},
     f \in {M("else", ""), M("elif", "1"), M("elifdef", "X")}}

(* Headers with #pragma once, with a guard, with both, including themselves, *)
(* or guarded in a way the preprocessor does not recognize.                 *)
G == H("ifndef", "X")
D == Define("h", "X", "1")
T == H("text", "t")
I == H("include", "h")
O == H("once", "")
F == H("endif", "")
Headers ==
  {<<>>, <<T>>, <<O, T>>, <<O, T, I>>, <<G, D, T, F>>, <<G, D, I, T, F>>, <<O, G, T, D, F>>, <<G, T, D, F>>,
   <<G, D, H("if", "0"), T, H("else", ""), I, F, F>>, <<G, D, T, F, T>>, <<H("if", "0"), O, F, T>>}
Includes ==
  [h : Headers,
   main : [1 .. 4 -> {M("include", "h"), M("undef", "X"), Define("main", "X", "0"), M("push_macro", "X"), M("pop_macro", "X"),
                       M("ifdef", "X"), M("endif", "")}]]

(* #line outside conditionals, and macros at the end of lines that are not  *)
(* empty.                                                                   *)
Others ==
  {<<d, M("line", ""), Line("main", "text", "a", Absent, Absent, "E"), M("if", "E"), M("text", "b"), M("endif", "")>> :
     d \in {Define("main", "E", "0"), Define("main", "E", "1"), M("undef", "E")}}
  \cup {<<Define("main", "E", Empty), M("ifdef", "X"), M("if", "E"), M("elif", "E"), M("endif", ""), M("endif", ""), c>> :
     c \in {M("if", "E"), M("else", "")}}

(* The hypothesis of the proofs holds of the nested conditionals and of all  *)
(* the headers.                                                             *)
ASSUME TheseArePlain ==
  \A p \in Alone(Nested) \cup [h : Headers, main : [1 .. 1 -> {M("include", "h"), M("push_macro", "X")}]] : Plain(p)

ProgramSets == <<Conditionals, Alone(Nested), Includes, Alone(Others), Alone({<<>>})>>

-----------------------------------------------------------------------------
(* The resources: one that is in three places, one in the last directory, an *)
(* empty one in the working directory, one with an absolute name.           *)
MCIncludePaths == <<"d1", "d2">>
MCDisk ==
  <<"here", <<"a">>>> :> <<65, 66>> @@ <<"d1", <<"a">>>> :> <<1, 2, 3>> @@ <<"d2", <<"a">>>> :> <<4>>
    @@ <<"d2", <<"b">>>> :> <<7, 8>> @@ <<"", <<"c">>>> :> <<>> @@ <<"", <<"/", "a">>>> :> <<9>>
MCMacroTable == "N" :> <<"2">> @@ "QUOTED" :> <<"'a'">> @@ "ANGLED" :> <<"<", "b", ">", "limit", "(", "1", ")">>
MCQuoted == "'a'" :> <<"a">> @@ "'b'" :> <<"b">> @@ "'c'" :> <<"c">> @@ "'/a'" :> <<"/", "a">> @@ "'z'" :> <<"z">>
MCNumbers == [w \in {"0", "1", "2", "10", "20", "42"} |-> CHOOSE n \in 0 .. 42 : ToString(n) = w]
MCIdentifiers == {"u", "a", "b", "size"} \cup UNION {{k, "__" \o k \o "__"} : k \in Parameters}

(* A directive is written from what it means: a name and how it is spelled, *)
(* parameters, and form: "fine", "ill" or "bad limit".                      *)
Named(name, quoted, toks) == [name |-> name, quoted |-> quoted, toks |-> toks, limit |-> <<>>]
NamedResources ==
  {Named(MCQuoted[s], TRUE, <<s>>) : s \in DOMAIN MCQuoted}
    \cup {Named(<<n>>, FALSE, <<"<", n, ">">>) : n \in {"a", "b", "c", "z"}}
    \cup {Named(<<"a">>, TRUE, <<"QUOTED">>), [Named(<<"b">>, FALSE, <<"ANGLED">>) EXCEPT !.limit = <<1>>]}
Param(word, value, arg) == [word |-> word, value |-> <<value>>, arg |-> arg]
Limits == {<<>>, <<Param("limit", 0, <<"0">>)>>, <<Param("limit", 2, <<"N">>)>>, <<Param("__limit__", 3, <<"1", "+", "2">>)>>,
           <<Param("limit", 0, <<"-", "1">>)>>, <<Param("limit", 0, <<"u">>)>>}
PrefixParams == {<<>>, <<Param("prefix", <<"10">>, <<"10">>)>>, <<Param("__prefix__", <<>>, <<>>)>>}
SuffixParams == {<<>>, <<Param("suffix", <<"(", "2", ",", "u", ")">>, <<"(", "N", ",", "u", ")">>)>>}
IfEmpties == {<<>>, <<Param("__if_empty__", <<"42", ",", "2">>, <<"42", ",", "N">>)>>}
ParameterLists ==
  {l \o p \o s \o e : l \in Limits, p \in PrefixParams, s \in SuffixParams, e \in IfEmpties}
    \cup {e \o s \o p \o l : l \in Limits, p \in PrefixParams, s \in SuffixParams, e \in IfEmpties}

Directed(kind, x, params, text, form) ==
  [kind |-> kind, name |-> x.name, quoted |-> x.quoted, form |-> form,
   toks |-> x.toks \o text \o (IF kind = "has_embed" THEN <<")">> ELSE <<>>),
   params |-> [k \in Parameters |-> LET given == SelectSeq(params, LAMBDA p : Spells(p.word, k))
                                    IN IF given # <<>> THEN given[1].value ELSE IF k = "limit" THEN x.limit ELSE <<>>]]
Spelled(params) == FlattenSeq([i \in DOMAIN params |-> <<params[i].word, "(">> \o params[i].arg \o <<")">>])
Fine(kind, x, params) == Directed(kind, x, params, Spelled(params), "fine")

EmbedKinds == {"embed", "has_embed"}
WellFormed == {Fine(k, x, ps) : k \in EmbedKinds, x \in {r \in NamedResources : r.limit = <<>>}, ps \in ParameterLists}
               \cup {Fine(k, x, <<>>) : k \in EmbedKinds, x \in NamedResources}
IllFormed ==
  LET x == Named(<<"a">>, TRUE, <<"'a'">>)
      ill == {<<"limit">>, <<"limit", "0">>, <<"limit", "(", "0", ")", "__limit__", "(", "0", ")">>, <<"size", "(", "1", ")">>,
              <<"a", ":", ":", "b", "(", "1", ")">>, <<"prefix", "(", ")", "prefix", "(", ")">>, <<"suffix", "(", "1", ")", "20">>}
      bad == {<<"limit", "(", ")">>, <<"limit", "(", "1", "2", ")">>, <<"limit", "(", "1", "+", ")">>}
      noname == {Named(<<>>, FALSE, <<>>), Named(<<>>, FALSE, <<"<", "a">>), Named(<<>>, FALSE, <<"2">>)}
  IN {Directed(k, x, <<>>, t, "ill") : k \in EmbedKinds, t \in ill} \cup {Directed(k, x, <<>>, t, "bad limit") : k \in EmbedKinds, t \in bad}
       \cup {Directed(k, n, <<>>, <<>>, "ill") : k \in EmbedKinds \cup {"include", "include_next"}, n \in noname}
Included(kind) == {Fine(kind, x, <<>>) : x \in {r \in NamedResources : r.limit = <<>>}}
MCUnits ==
  {<<d>> : d \in WellFormed \cup IllFormed}
    \cup {<<d, e, f>> : d \in Included("include") \cup Included("has_embed"), e \in Included("include") \cup Included("embed"),
                       f \in Included("include_next") \cup Included("embed")}

(* Where the resource is, in the order the places are looked at; 0: nowhere. *)
Places(x) == (IF x.quoted THEN <<"here">> ELSE <<>>) \o IncludePaths \o <<"">>
PlaceOf(x) == SelectInSeq(Places(x), LAMBDA d : <<d, x.name>> \in DOMAIN Disk)
BytesOf(x) ==
  LET data == Disk[<<Places(x)[PlaceOf(x)], x.name>>]
  IN SelectSeq([i \in DOMAIN data |-> IF x.params.limit = <<>> \/ i <= x.params.limit[1] THEN <<ToString(data[i])>> ELSE <<>>],
               LAMBDA item : item # <<>>)
Items(x) == SelectSeq((IF x.params.prefix = <<>> THEN <<>> ELSE x.params.prefix) \o BytesOf(x)
                        \o (IF x.params.suffix = <<>> THEN <<>> ELSE x.params.suffix), LAMBDA item : item # <<>>)
Listed(items) == FlattenSeq([i \in 1 .. 2 * Len(items) - 1 |-> IF i % 2 = 1 THEN items[(i + 1) \div 2] ELSE <<",">>])

(* The directories that the directive's search walks through; an earlier     *)
(* walk for the same name would have been remembered.                       *)
WalksTo(x) == IF PlaceOf(x) = 0 THEN "" ELSE Places(x)[PlaceOf(x)]
FirstWalk(i) ==
  /\ WalksTo(results[i].directive) \in Range(IncludePaths)
  /\ \A j \in 1 .. i - 1 : results[j].directive.name # results[i].directive.name

(* Whatever was looked for before it, a directive finds its resource next to *)
(* the file, in the first include path that has it, or, for #embed, where it *)
(* is; #embed lists the bytes the limit allows between its prefix and suffix, *)
(* or what stands for none, __has_embed tells which of the two or neither it *)
(* would be, and #include_next behind the first #include of a name finds the *)
(* file in a later directory.  handle_embed, preprocess_const_expr, the      *)
(* cache of search_include_paths and include_next_idx.                       *)
EmbedsResource ==
  \A i \in DOMAIN results :
    LET x == results[i].directive
        out == results[i].out
        exists == PlaceOf(x) # 0
        later == {d \in DOMAIN IncludePaths : IncludePaths[d] # WalksTo(x) /\ <<IncludePaths[d], x.name>> \in DOMAIN Disk
                                               /\ SelectInSeq(IncludePaths, LAMBDA p : p = WalksTo(results[i - 1].directive)) < d}
    IN CASE x.form = "bad limit" -> out = <<"error">>
         [] x.form = "ill" -> out = IF x.kind = "has_embed" THEN <<"value", 0>> ELSE <<"error">>
         [] x.form = "fine" /\ x.kind = "embed" ->
              out = IF ~exists THEN <<"error">>
                    ELSE <<"tokens", IF BytesOf(x) # <<>> THEN Listed(Items(x))
                                     ELSE IF x.params.if_empty = <<>> THEN <<>> ELSE x.params.if_empty[1]>>
         [] x.form = "fine" /\ x.kind = "has_embed" ->
              out = <<"value", IF ~exists THEN 0 ELSE IF BytesOf(x) = <<>> THEN 2 ELSE 1>>
         [] x.form = "fine" /\ x.kind = "include" -> out = <<"file", <<WalksTo(x), x.name>>>>
         [] x.form = "fine" /\ x.kind = "include_next" ->
              (/\ i > 1 /\ results[i - 1].directive.name = x.name /\ FirstWalk(i - 1)) =>
                 out = <<"file", <<IF later = {} THEN "" ELSE IncludePaths[Lowest(later)], x.name>>>>

NoUnit == unit = <<>> /\ results = <<>> /\ cache = <<>> /\ nextIdx = 1
NoProgram ==
  /\ files = [main |-> <<>>, h |-> <<>>] /\ lines = <<>> /\ bol = TRUE /\ cond = <<>> /\ skip = 0
  /\ macros = NoMacros /\ stacks = NoStacks /\ once = {} /\ guards = [p \in {"main", "h"} |-> Undef]
  /\ kept = <<>> /\ status = "run"

(* One of the three machines, the others without anything to do. *)
InitOne ==
  \/ InitSource /\ NoProgram /\ NoUnit
  \/ Init /\ NoUnit /\ NoSource
  \/ InitEmbed /\ NoProgram /\ NoSource
NextOne ==
  \/ source.family = "none" /\ Next /\ UNCHANGED <<embedVars, tokenVars, source>>
  \/ NextEmbed /\ UNCHANGED <<vars, tokenVars, source>>
  \/ source.family # "none" /\ (NextToken \/ Tokenized) /\ UNCHANGED <<vars, embedVars, source>>
SpecOne == InitOne /\ [][NextOne]_<<vars, embedVars, tokenVars, source>>
=============================================================================
