-------------------------------- MODULE Embed --------------------------------
(***************************************************************************)
(* #embed and __has_embed (preprocess.c): the resource a directive names,  *)
(* its parameters, and the tokens that take the directive's place, with    *)
(* the search of the include paths they share with #include, which caches  *)
(* what it finds and leaves a place for #include_next.                     *)
(*                                                                         *)
(* Tokens are strings and a file name is the sequence of tokens between    *)
(* its delimiters.  A path is a directory and a file name.  Of macro       *)
(* expansion, which Macros is about, object-like macros are enough here.   *)
(***************************************************************************)
EXTENDS Integers, Sequences, FiniteSets, SequencesExt

CONSTANTS
  ObjectMacros,  \* macro -> what it expands to, which holds no macro
  Identifiers,   \* the identifiers that are no macros
  Numbers,       \* pp-number -> its value
  Quoted,        \* string literal -> the file name in it
  Disk,          \* path -> the bytes of the file, for those that exist
  IncludePaths,  \* the directories searched
  Units          \* sequences of directives [kind, toks], the tokens after the directive's name

VARIABLES
  unit,       \* the directives still to be read
  results,    \* what became of the others (history)
  cache,      \* cache of search_include_paths: file name -> path
  nextIdx     \* include_next_idx

embedVars == <<unit, results, cache, nextIdx>>

is_ident(t) == t \in Identifiers \cup DOMAIN ObjectMacros
Expand(s) == FlattenSeq([i \in DOMAIN s |-> IF s[i] \in DOMAIN ObjectMacros THEN ObjectMacros[s[i]] ELSE <<s[i]>>])
ExpandIfIdent(s) == IF s # <<>> /\ is_ident(s[1]) THEN Expand(s) ELSE s

(* Where the parenthesis closes that is open before s; 0 if it does not. *)
CloseOf(s) ==
  LET open(i) == 1 + Cardinality({j \in 1 .. i : s[j] = "("}) - Cardinality({j \in 1 .. i : s[j] = ")"})
  IN SelectInSeq([i \in DOMAIN s |-> open(i)], LAMBDA n : n = 0)

-----------------------------------------------------------------------------
(* read_embed_filename.  An identifier that is left after expansion is      *)
(* expanded again and again, or the list is read past its end: a crash.     *)
NoFile(why) == [why |-> why, name |-> <<>>, quoted |-> FALSE, rest |-> <<>>]
read_embed_filename(s, has) ==
  LET missing == NoFile(IF has THEN "none" ELSE "error")
      close == SelectInSeq(s, LAMBDA t : t = ">")
  IN CASE s = <<>> -> missing
       [] s # <<>> /\ s[1] \in DOMAIN Quoted ->
            [why |-> "", name |-> Quoted[s[1]], quoted |-> TRUE, rest |-> Tail(s)]
       [] s # <<>> /\ s[1] = "<" ->
            IF close = 0 \/ (has /\ \E i \in 1 .. close : s[i] = ")") THEN missing
            ELSE [why |-> "", name |-> SubSeq(s, 2, close - 1), quoted |-> FALSE,
                  rest |-> SubSeq(s, close + 1, Len(s))]
       [] s # <<>> /\ is_ident(s[1]) -> NoFile("crash")
       [] OTHER -> missing

(* read_include_filename: the same three patterns.  What is left on the line *)
(* is skipped with a warning.                                               *)
read_include_filename(s) == read_embed_filename(ExpandIfIdent(s), FALSE)

(* eval_const_expr_token_list: <<value>>, or <<>> where const_expr reports  *)
(* an error.  An identifier counts as 0.                                    *)
Operand(t) == t \in DOMAIN Numbers \cup Identifiers
ValueOf(t) == IF t \in DOMAIN Numbers THEN Numbers[t] ELSE 0
eval_const_expr_token_list(e) ==
  CASE Len(e) = 1 /\ Operand(e[1]) -> <<ValueOf(e[1])>>
    [] Len(e) = 2 /\ e[1] = "-" /\ Operand(e[2]) -> <<-ValueOf(e[2])>>
    [] Len(e) = 3 /\ e[2] = "+" /\ Operand(e[1]) /\ Operand(e[3]) -> <<ValueOf(e[1]) + ValueOf(e[3])>>
    [] OTHER -> <<>>

(* EmbedParams: a parameter is <<>> until it is given, then <<its value>>. *)
Parameters == {"limit", "prefix", "suffix", "if_empty"}
NoParams == [k \in Parameters |-> <<>>]
Spells(t, k) == t \in {k, "__" \o k \o "__"}

(* parse_embed_params.  An expression that is wrong is an error also in     *)
(* __has_embed.  The branch for vendor parameters asks for one token "::",   *)
(* and read_punct makes none: a::b is a, :, : and b.                        *)
Refused(has) == [why |-> IF has THEN "none" ELSE "error", params |-> NoParams]
RECURSIVE parse_embed_params(_, _, _)
parse_embed_params(s, has, params) ==
  IF s = <<>> \/ (has /\ s[1] = ")") THEN [why |-> "", params |-> params]
  ELSE IF ~\E k \in Parameters : Spells(s[1], k) THEN Refused(has)
  ELSE LET k == CHOOSE n \in Parameters : Spells(s[1], n)
           close == IF Len(s) > 1 /\ s[2] = "(" THEN CloseOf(SubSeq(s, 3, Len(s))) ELSE 0
           arg == SubSeq(s, 3, close + 1)
           value == eval_const_expr_token_list(Expand(arg))
           Goes(given) == parse_embed_params(SubSeq(s, close + 3, Len(s)), has, [params EXCEPT ![k] = <<given>>])
       IN CASE params[k] # <<>> \/ close = 0 -> Refused(has)
            [] params[k] = <<>> /\ close # 0 /\ k # "limit" -> Goes(arg)
            [] params[k] = <<>> /\ close # 0 /\ k = "limit" ->
                 IF value = <<>> THEN [why |-> "error", params |-> params]
                 ELSE Goes(IF value[1] < 0 THEN 0 ELSE value[1])

-----------------------------------------------------------------------------
(* search_include_paths, search_embed_file.  A path that is not found is <<>>. *)
Absolute(name) == name # <<>> /\ name[1] = "/"
IsFile(path) == path \in DOMAIN Disk
Holding(name, from) == {i \in from .. Len(IncludePaths) : IsFile(<<IncludePaths[i], name>>)}
Lowest(S) == CHOOSE i \in S : \A j \in S : i <= j

IncludePath(name) ==
  CASE Absolute(name) -> <<"", name>>
    [] ~Absolute(name) /\ name \in DOMAIN cache -> cache[name]
    [] ~Absolute(name) /\ name \notin DOMAIN cache ->
         IF Holding(name, 1) = {} THEN <<>> ELSE <<IncludePaths[Lowest(Holding(name, 1))], name>>

(* What the search leaves behind: a file found by walking the directories   *)
(* is cached, and #include_next goes on behind it.                          *)
Searched(name) ==
  IF Absolute(name) \/ name \in DOMAIN cache \/ Holding(name, 1) = {} THEN UNCHANGED <<cache, nextIdx>>
  ELSE LET i == Lowest(Holding(name, 1))
       IN /\ cache' = [n \in DOMAIN cache \cup {name} |-> IF n = name THEN <<IncludePaths[i], name>> ELSE cache[n]]
          /\ nextIdx' = i + 1

(* A name in quotes is looked for next to the file that is read first. *)
Beside(name, quoted) == ~Absolute(name) /\ quoted /\ IsFile(<<"here", name>>)

(* Mutant: the include paths come before the directory of the file. *)
SearchPathsFirst(name, quoted) ==
  CASE IncludePath(name) # <<>> -> IncludePath(name)
    [] IncludePath(name) = <<>> /\ Beside(name, quoted) -> <<"here", name>>
    [] OTHER -> IF IsFile(<<"", name>>) THEN <<"", name>> ELSE <<>>

search_embed_file(name, quoted) ==
  CASE Beside(name, quoted) -> <<"here", name>>
    [] ~Beside(name, quoted) /\ IncludePath(name) # <<>> -> IncludePath(name)
    [] OTHER -> IF IsFile(<<"", name>>) THEN <<"", name>> ELSE <<>>

(* The number of bytes of the file that are taken. *)
CountOf(path, params) ==
  LET len == Len(Disk[path]) IN
  IF params.limit # <<>> /\ params.limit[1] < len THEN params.limit[1] ELSE len

-----------------------------------------------------------------------------
(* Each directive is read to its end; an error or a crash ends the process. *)
Read(out) ==
  /\ results' = Append(results, [directive |-> Head(unit), out |-> out])
  /\ unit' = IF out \in {<<"error">>, <<"crash">>} THEN <<>> ELSE Tail(unit)

(* new_num_token_val, new_comma_token *)
ByteTokens(data) == FlattenSeq([i \in DOMAIN data |-> (IF i > 1 THEN <<",">> ELSE <<>>) \o <<ToString(data[i])>>])

(* The tokens that take the place of the directive. *)
Given(param) == IF param = <<>> THEN <<>> ELSE param[1]
Embedded(data, params) ==
  IF data = <<>> THEN Given(params.if_empty)
  ELSE LET before == Given(params.prefix)
           after == Given(params.suffix)
       IN (IF before = <<>> THEN <<>> ELSE before \o <<",">>) \o ByteTokens(data)
            \o (IF after = <<>> THEN <<>> ELSE <<",">> \o after)

(* handle_embed *)
EmbedDirective ==
  /\ unit # <<>> /\ Head(unit).kind = "embed"
  /\ LET file == read_embed_filename(ExpandIfIdent(Head(unit).toks), FALSE)
         parsed == parse_embed_params(Expand(file.rest), FALSE, NoParams)
         path == search_embed_file(file.name, file.quoted)
     IN IF file.why # "" THEN Read(<<file.why>>) /\ UNCHANGED <<cache, nextIdx>>
        ELSE IF parsed.why # "" THEN Read(<<parsed.why>>) /\ UNCHANGED <<cache, nextIdx>>
        ELSE /\ IF Beside(file.name, file.quoted) THEN UNCHANGED <<cache, nextIdx>> ELSE Searched(file.name)
             /\ IF ~IsFile(path) THEN Read(<<"error">>)
                ELSE Read(<<"tokens", Embedded(SubSeq(Disk[path], 1, CountOf(path, parsed.params)), parsed.params)>>)

(* preprocess_const_expr at __has_embed(: 1 for a resource that can be      *)
(* embedded, 2 for one of which nothing would be, 0 for any other.          *)
HasEmbed ==
  /\ unit # <<>> /\ Head(unit).kind = "has_embed"
  /\ LET toks == Head(unit).toks
         arg == IF CloseOf(toks) = 0 THEN toks ELSE SubSeq(toks, 1, CloseOf(toks) - 1)
         file == read_embed_filename(ExpandIfIdent(arg), TRUE)
         parsed == parse_embed_params(Expand(file.rest), TRUE, NoParams)
         path == search_embed_file(file.name, file.quoted)
         failed == IF file.why # "" THEN file.why ELSE parsed.why
     IN IF failed # "" THEN Read(IF failed = "none" THEN <<"value", 0>> ELSE <<failed>>) /\ UNCHANGED <<cache, nextIdx>>
        ELSE /\ IF Beside(file.name, file.quoted) THEN UNCHANGED <<cache, nextIdx>> ELSE Searched(file.name)
             /\ Read(<<"value", IF ~IsFile(path) THEN 0 ELSE IF CountOf(path, parsed.params) = 0 THEN 2 ELSE 1>>)

(* handle_include, as far as it looks for the file; one that is nowhere is  *)
(* opened under the name it has.                                            *)
IncludeDirective ==
  /\ unit # <<>> /\ Head(unit).kind = "include"
  /\ LET file == read_include_filename(Head(unit).toks)
         path == IF Beside(file.name, file.quoted) THEN <<"here", file.name>> ELSE IncludePath(file.name)
     IN IF file.why # "" THEN Read(<<file.why>>) /\ UNCHANGED <<cache, nextIdx>>
        ELSE /\ IF Beside(file.name, file.quoted) THEN UNCHANGED <<cache, nextIdx>> ELSE Searched(file.name)
             /\ Read(<<"file", IF path = <<>> THEN <<"", file.name>> ELSE path>>)

(* handle_include_next, search_include_next: the directories from where the *)
(* last walk of a search ended.  It goes on from what it finds, not behind. *)
IncludeNextDirective ==
  /\ unit # <<>> /\ Head(unit).kind = "include_next"
  /\ UNCHANGED cache
  /\ LET file == read_include_filename(Head(unit).toks)
         from == Holding(file.name, nextIdx)
     IN IF file.why # "" THEN Read(<<file.why>>) /\ UNCHANGED nextIdx
        ELSE /\ nextIdx' = IF from = {} THEN Len(IncludePaths) + 1 ELSE Lowest(from)
             /\ Read(<<"file", <<IF from = {} THEN "" ELSE IncludePaths[Lowest(from)], file.name>>>>)

InitEmbed == unit \in Units /\ results = <<>> /\ cache = <<>> /\ nextIdx = 1
NextEmbed == EmbedDirective \/ HasEmbed \/ IncludeDirective \/ IncludeNextDirective
=============================================================================
