-------------------------------- MODULE Macros --------------------------------
(***************************************************************************)
(* Macro expansion as preprocess.c does it: expand_macro with its hide     *)
(* sets (Prosser's algorithm), read_macro_args, subst with # and ##, and   *)
(* the part of preprocess2 that scans a token list.  subst calls           *)
(* preprocess2 for an argument, so that the calls in progress are a stack: *)
(* a "list" frame is a call of preprocess2, a "body" frame above it the    *)
(* call of subst for the invocation at its head.                           *)
(*                                                                         *)
(* Token lists are linked and preprocess2 relinks the very tokens it is    *)
(* given, also those of an argument that a later # or ## uses raw: a token *)
(* of an argument carries its place there in the field at.                 *)
(*                                                                         *)
(* The first part says what macro replacement means (C17 6.10.3), which is *)
(* what the expander is compared with, and shares no idea with the code.   *)
(* There are no hide sets: the text is a stream in which the end of every  *)
(* replacement still being rescanned is marked, a name is disabled while   *)
(* the mark of its replacement lies ahead, and a disabled name that is     *)
(* read is painted for good.  An empty operand of ## is a placemarker.     *)
(* The standard leaves open whether a replacement whose invocation takes   *)
(* tokens from behind the end of another one is nested in it, so that the  *)
(* meaning of a text is the set of the outcomes it allows.                 *)
(***************************************************************************)
EXTENDS Integers, Sequences, FiniteSets, SequencesExt

(* A spelling is a sequence of atoms, longer than one when it was pasted; a *)
(* string literal begins with the atom Quote.                               *)
Quote == "string"
Punctuation == {"(", ")", ",", "#", "##", "+"}
IsWord(text) == \A i \in DOMAIN text : text[i] \notin Punctuation \cup {Quote}
Spelling(texts) == FlattenSeq(texts)

VaArgs == <<"__VA_ARGS__">>
VaOpt == <<"__VA_OPT__">>

(* A macro: [objlike, params, variadic, body], where params and body are *)
(* sequences of spellings.                                                *)
Names(macro) == Range(macro.params) \cup (IF macro.variadic THEN {VaArgs} ELSE {})

Plain(text) == [text |-> text, painted |-> FALSE, mark |-> FALSE]
Mark(name) == [text |-> name, painted |-> FALSE, mark |-> TRUE]
Glue == [text |-> <<"##">>, painted |-> TRUE, mark |-> TRUE]
Placemarker == Plain(<<>>)

Marks(s) == {s[i].text : i \in {j \in DOMAIN s : s[j].mark}}
Is(s, i, atom) == i \in DOMAIN s /\ ~s[i].mark /\ s[i].text = <<atom>>
FirstIn(S) == CHOOSE i \in S : \A j \in S : i <= j

(* The positions of an invocation whose "(" is at open: its ")" or 0, and *)
(* the commas that separate its arguments.                                *)
Depth(s, open, i) == Cardinality({j \in open .. i : Is(s, j, "(")}) - Cardinality({j \in open .. i : Is(s, j, ")")})
Close(s, open) ==
  LET ends == {i \in open .. Len(s) : Is(s, i, ")") /\ Depth(s, open, i) = 0}
  IN IF ends = {} THEN 0 ELSE FirstIn(ends)
Commas(s, open, close) == {i \in open .. close : Is(s, i, ",") /\ Depth(s, open, i) = 1}

(* What is read is painted if its name is disabled where it stands. *)
Painted(s, from, to, outer) ==
  SelectSeq([k \in 1 .. to - from + 1 |->
              LET tok == s[from + k - 1]
              IN [tok EXCEPT !.painted = @ \/ tok.text \in outer \cup Marks(SubSeq(s, from + k, Len(s)))]],
            LAMBDA tok : ~tok.mark)

(* The arguments of an invocation, or {} if their number is wrong. *)
ArgumentsOf(macro, s, open, close, outer) ==
  LET n == Len(macro.params)
      most == n + (IF macro.variadic THEN 1 ELSE 0)
      commas == SetToSortSeq(Commas(s, open, close), <)
      bounds == <<open>> \o (IF Len(commas) < most THEN commas ELSE SubSeq(commas, 1, most - 1)) \o <<close>>
      count == IF close = open + 1 /\ n = 0 THEN 0 ELSE IF macro.variadic THEN Len(bounds) - 1 ELSE Len(commas) + 1
      given(k) == Painted(s, bounds[k] + 1, bounds[k + 1] - 1, outer)
  IN IF count \notin n .. most THEN {}
     ELSE {[x \in Names(macro) |-> IF x = VaArgs THEN IF count = n THEN <<>> ELSE given(n + 1)
                                   ELSE given(FirstIn({k \in 1 .. n : macro.params[k] = x}))]}

(* 6.10.3.2: each # of a function-like macro stands before a parameter. *)
HashMisplaced(macro) ==
  \E i \in DOMAIN macro.body : macro.body[i] = <<"#">> /\ (i = Len(macro.body) \/ macro.body[i + 1] \notin Names(macro))

(* An operand of # or ## is used raw; of the comma in ", ##" it is not one. *)
RawAt(body, i) ==
  LET is(k, atom) == k \in DOMAIN body /\ body[k] = <<atom>>
  IN is(i - 1, "#") \/ is(i + 1, "##") \/ (is(i - 1, "##") /\ ~(is(i - 2, ",") /\ body[i] = VaArgs))
Expanded(macro) == {x \in Names(macro) : \E i \in DOMAIN macro.body : macro.body[i] = x /\ ~RawAt(macro.body, i)}

(* The body with its parameters replaced (6.10.3.1 to 6.10.3.3), before ## is *)
(* carried out: raw and full give the arguments before and after replacement. *)
RECURSIVE Items(_, _, _, _)
Items(body, i, raw, full) ==
  LET is(k, atom) == k \in DOMAIN body /\ body[k] = <<atom>>
      param(k) == k \in DOMAIN body /\ body[k] \in DOMAIN raw
      rest(k) == Items(body, k, raw, full)
      present == VaArgs \in DOMAIN raw /\ raw[VaArgs] # <<>>
  IN CASE i > Len(body) -> <<>>
       [] is(i, "#") -> <<Plain(<<Quote>> \o Spelling([k \in DOMAIN raw[body[i + 1]] |-> raw[body[i + 1]][k].text]))>> \o rest(i + 2)
       [] is(i, "##") -> <<Glue>> \o rest(i + 1)
       [] is(i, ",") /\ is(i + 1, "##") /\ is(i + 2, VaArgs[1]) /\ param(i + 2) ->
            IF present THEN <<Plain(body[i])>> \o rest(i + 2) ELSE rest(i + 3)
       [] is(i, VaOpt[1]) /\ is(i + 1, "(") ->
            LET s == [k \in DOMAIN body |-> Plain(body[k])]
                close == Close(s, i + 1)
            IN (IF present THEN Items(SubSeq(body, i + 2, close - 1), 1, raw, full) ELSE <<>>) \o rest(close + 1)
       [] param(i) ->
            (IF ~RawAt(body, i) THEN full[body[i]] ELSE IF raw[body[i]] = <<>> THEN <<Placemarker>> ELSE raw[body[i]]) \o rest(i + 1)
       [] OTHER -> <<Plain(body[i])>> \o rest(i + 1)

Paste(left, right) ==
  CASE left.text = <<>> -> right
    [] right.text = <<>> -> left
    [] OTHER -> Plain(left.text \o right.text)
CanPaste(left, right) == <<>> \in {left.text, right.text} \/ (IsWord(left.text) /\ IsWord(right.text))

(* Carries out ## from left to right: {} when a result is not a token. *)
RECURSIVE Glued(_, _)
Glued(items, made) ==
  IF items = <<>> THEN {SelectSeq(made, LAMBDA tok : tok.text # <<>>)}
  ELSE IF Head(items) # Glue THEN Glued(Tail(items), Append(made, Head(items)))
  ELSE IF made = <<>> \/ Len(items) = 1 THEN {}
  ELSE IF ~CanPaste(Last(made), items[2]) THEN {}
  ELSE Glued(SubSeq(items, 3, Len(items)), Append(Front(made), Paste(Last(made), items[2])))

Failure == "error"
Good(out) == [ok |-> TRUE, out |-> out]
Bad == [ok |-> FALSE, out |-> <<>>]

(* The outcomes of scanning the stream s after out was produced, in a context *)
(* where the names in outer are being replaced.                               *)
RECURSIVE Scan(_, _, _, _)
Scan(macros, s, outer, out) ==
  IF s = <<>> THEN {Good(out)}
  ELSE LET tok == Head(s)
           disabled == outer \cup Marks(s)
           pass(t) == Scan(macros, Tail(s), outer, Append(out, t))
           macro == macros[tok.text]
           ahead == {i \in 2 .. Len(s) : ~s[i].mark}
           open == FirstIn(ahead)
           close == Close(s, open)
           crossed == SelectSeq(SubSeq(s, 1, close), LAMBDA t : t.mark)
           rest == SubSeq(s, close + 1, Len(s))
           outside == outer \cup Marks(rest)
           prescans(raw) ==   \* every choice among the outcomes of the arguments
             LET scan == [x \in Expanded(macro) |-> Scan(macros, raw[x], outside, <<>>)]
             IN {full \in [DOMAIN scan -> UNION Range(scan)] : \A x \in DOMAIN scan : full[x] \in scan[x]}
           replaced(raw, full, more) ==
             IF HashMisplaced(macro) \/ \E x \in DOMAIN full : ~full[x].ok THEN {Bad}
             ELSE LET bodies == Glued(Items(macro.body, 1, raw, [x \in DOMAIN full |-> full[x].out]), <<>>)
                  IN IF bodies = {} THEN {Bad}
                     ELSE UNION {Scan(macros, body \o <<Mark(tok.text)>> \o more \o rest, outer, out) : body \in bodies}
       IN CASE tok.mark -> Scan(macros, Tail(s), outer, out)
            [] ~tok.mark /\ (tok.painted \/ tok.text \notin DOMAIN macros) -> pass(tok)
            [] ~tok.mark /\ ~tok.painted /\ tok.text \in DOMAIN macros /\ tok.text \in disabled -> pass([tok EXCEPT !.painted = TRUE])
            [] OTHER ->
                 IF macro.objlike
                 THEN Scan(macros, [k \in DOMAIN macro.body |-> Plain(macro.body[k])] \o <<Mark(tok.text)>> \o Tail(s), outer, out)
                 ELSE IF ahead = {} THEN pass(tok)
                 ELSE IF ~Is(s, open, "(") THEN pass(tok)
                 ELSE IF close = 0 THEN {Bad}
                 ELSE LET arguments == ArgumentsOf(macro, s, open, close, outer)
                      IN IF arguments = {} THEN {Bad}
                         ELSE UNION {UNION {replaced(raw, full, more) : full \in prescans(raw), more \in {<<>>, crossed}} : raw \in arguments}

(* What the text may become: sequences of spellings, or Failure. *)
Replacements(macros, texts) ==
  LET results == Scan(macros, [i \in DOMAIN texts |-> Plain(texts[i])], {}, <<>>)
  IN {IF r.ok THEN <<"text", [i \in DOMAIN r.out |-> r.out[i].text]>> ELSE <<Failure, <<>>>> : r \in results}
-----------------------------------------------------------------------------

CONSTANTS
  Programs,   \* function from names to sets of programs [macros, texts]
  MaxTokens   \* memory: the most tokens a list can have

ASSUME MaxTokensAssumption == MaxTokens \in Nat

VARIABLES
  macros,  \* the macro table
  texts,   \* the text to expand
  frames,  \* the calls in progress, outermost first
  status   \* "run", "done", "error" (error_tok or a crash), "exhausted"

vars == <<macros, texts, frames, status>>

Token(text) == [text |-> text, hide |-> {}, at |-> 0]
Tokens(spellings) == [i \in DOMAIN spellings |-> Token(spellings[i])]
Equal(s, i, atom) == i \in DOMAIN s /\ s[i].text = <<atom>>
Copies(s) == [i \in DOMAIN s |-> [s[i] EXCEPT !.at = 0]]

NoArgs == [x \in {} |-> <<>>]
ListFrame(in) == [kind |-> "list", in |-> in, out |-> <<>>, args |-> NoArgs, hide |-> {}, param |-> <<>>]
BodyFrame(macro, args, hide) ==
  [kind |-> "body", in |-> Tokens(macro.body), out |-> <<>>, args |-> args, hide |-> hide, param |-> <<>>]

top == frames[Len(frames)]
in == top.in
Below == SubSeq(frames, 1, Len(frames) - 1)
Become(frame) == frames' = Append(Below, frame) /\ UNCHANGED <<macros, texts, status>>
Fail == status' = "error" /\ UNCHANGED <<macros, texts, frames>>
Scanning == status = "run" /\ top.kind = "list" /\ in # <<>>
Substituting == status = "run" /\ top.kind = "body" /\ in # <<>>

(* Hide sets that forget those of the tokens. *)
CallHidesetFresh(tok, rparen) == {tok.text}

(* The hide set of what replaces a macro: for an invocation, the names that *)
(* hide both the macro token and the closing parenthesis, and its own.      *)
ObjectHideset(tok) == tok.hide \cup {tok.text}
CallHideset(tok, rparen) == (tok.hide \cap rparen.hide) \cup {tok.text}

AddHideset(s, hide) == [i \in DOMAIN s |-> [s[i] EXCEPT !.hide = @ \cup hide]]
-----------------------------------------------------------------------------
(* read_macro_arg_one: the position of the token that ends the argument *)
(* which starts at start, or 0 at a premature end of the input.         *)
ArgEnd(s, start, readRest) ==
  LET level(i) == Cardinality({j \in start .. i - 1 : Equal(s, j, "(")})
                    - Cardinality({j \in start .. i - 1 : Equal(s, j, ")")})
      ends == {i \in start .. Len(s) : /\ level(i) = 0
                                       /\ Equal(s, i, ")") \/ (~readRest /\ Equal(s, i, ","))}
  IN IF ends = {} THEN 0 ELSE FirstIn(ends)

(* The tokens that end the arguments of the invocation at the head of s. *)
ParamEnds(s, params) ==
  LET End[k \in 0 .. Len(params)] ==
        IF k = 0 THEN 2
        ELSE LET before == End[k - 1]
             IN IF before = 0 \/ (k > 1 /\ ~Equal(s, before, ",")) THEN 0 ELSE ArgEnd(s, before + 1, FALSE)
  IN End

(* The ")" of the invocation, or 0 when read_macro_args reports an error. *)
RParen(s, macro) ==
  LET n == Len(macro.params)
      end == ParamEnds(s, macro.params)[n]
      next == IF n = 0 THEN 3 ELSE end
      from == IF n = 0 THEN 3 ELSE end + 1
  IN CASE end = 0 -> 0
       [] end # 0 /\ Equal(s, next, ")") -> next
       [] end # 0 /\ ~Equal(s, next, ")") /\ macro.variadic -> ArgEnd(s, from, TRUE)
       [] OTHER -> 0

ReadMacroArgs(s, macro) ==
  LET ends == ParamEnds(s, macro.params)
      n == Len(macro.params)
      last == IF n = 0 THEN 2 ELSE ends[n]
  IN [x \in Names(macro) |->
       IF x = VaArgs /\ macro.variadic
       THEN Copies(SubSeq(s, last + 1, RParen(s, macro) - 1))
       ELSE LET k == FirstIn({i \in 1 .. n : macro.params[i] = x})
            IN Copies(SubSeq(s, ends[k - 1] + 1, ends[k] - 1))]
-----------------------------------------------------------------------------
(* expand_macro *)
CanExpand ==
  /\ in[1].text \notin in[1].hide
  /\ in[1].text \in DOMAIN macros
  /\ macros[in[1].text].objlike \/ Equal(in, 2, "(")

macro == macros[in[1].text]

(* preprocess2 passes a token through. *)
PassThrough ==
  /\ Scanning /\ ~CanExpand
  /\ Become([top EXCEPT !.in = Tail(@), !.out = Append(@, in[1])])

ExpandObject ==
  /\ Scanning /\ CanExpand /\ macro.objlike
  /\ LET body == AddHideset(Tokens(macro.body), ObjectHideset(in[1]))
     IN IF Len(body) + Len(in) <= MaxTokens
        THEN Become([top EXCEPT !.in = body \o Tail(in)])
        ELSE status' = "exhausted" /\ UNCHANGED <<macros, texts, frames>>

(* A macro token followed by "(": the arguments are read and subst begins. *)
(* The hide set of the result is chosen here, and used when subst returns. *)
BeginFunction ==
  /\ Scanning /\ CanExpand /\ ~macro.objlike
  /\ LET rparen == RParen(in, macro)
     IN IF rparen = 0 THEN Fail
        ELSE /\ frames' = Append(Append(Below, [top EXCEPT !.in = SubSeq(in, rparen + 1, Len(in))]),
                                 BodyFrame(macro, ReadMacroArgs(in, macro), CallHideset(in[1], in[rparen])))
             /\ UNCHANGED <<macros, texts, status>>

(* subst returns: the body, with its hide set, takes the place of the call. *)
EndFunction ==
  /\ status = "run" /\ top.kind = "body" /\ in = <<>>
  /\ LET caller == Below[Len(Below)]
         body == AddHideset(top.out, top.hide)
     IN IF Len(body) + Len(caller.in) <= MaxTokens
        THEN /\ frames' = Append(Front(Below), [caller EXCEPT !.in = body \o @])
             /\ UNCHANGED <<macros, texts, status>>
        ELSE status' = "exhausted" /\ UNCHANGED <<macros, texts, frames>>
-----------------------------------------------------------------------------
(* The branches of the loop of subst, each with the conditions of those that *)
(* come before it.                                                           *)
IsArg(i) == i \in DOMAIN in /\ in[i].text \in DOMAIN top.args
Arg(i) == top.args[in[i].text]

AtHash == Equal(in, 1, "#")
AtGnuComma == Equal(in, 1, ",") /\ Equal(in, 2, "##") /\ IsArg(3) /\ in[3].text = VaArgs
AtPaste == Equal(in, 1, "##")
AtPasteOperand == IsArg(1) /\ Equal(in, 2, "##")
AtVaOpt == in[1].text = VaOpt /\ Equal(in, 2, "(")

Produce(consumed, made) ==
  Become([top EXCEPT !.in = SubSeq(in, consumed + 1, Len(in)), !.out = @ \o made])

Stringize ==
  /\ Substituting /\ AtHash
  /\ IF ~IsArg(2) THEN Fail
     ELSE Produce(2, <<Token(<<Quote>> \o Spelling([k \in DOMAIN Arg(2) |-> Arg(2)[k].text]))>>)

GnuComma ==
  /\ Substituting /\ AtGnuComma
  /\ IF Arg(3) = <<>> THEN Produce(3, <<>>) ELSE Produce(2, <<in[1]>>)

(* paste: the last token made so far becomes one with the next operand. *)
PasteOnto(made, tok) == Append(Front(made), Token(Last(made).text \o tok.text))

PasteTokens ==
  /\ Substituting /\ AtPaste
  /\ LET operand == IF IsArg(2) THEN Arg(2) ELSE <<in[2]>>
     IN IF top.out = <<>> \/ Len(in) = 1 THEN Fail
        ELSE IF operand = <<>> THEN Produce(2, <<>>)
        ELSE IF ~IsWord(Last(top.out).text) \/ ~IsWord(operand[1].text) THEN Fail
        ELSE Become([top EXCEPT !.in = SubSeq(in, 3, Len(in)),
                                !.out = PasteOnto(top.out, operand[1]) \o Copies(Tail(operand))])

(* A parameter before ##: not expanded, and if it is empty the operand after *)
(* ## is copied in its place.  If there is none, the token behind the list   *)
(* is read, and the process ends.                                            *)
PasteOperand ==
  /\ Substituting /\ AtPasteOperand
  /\ IF Arg(1) # <<>> THEN Produce(1, Copies(Arg(1)))
     ELSE IF Len(in) = 2 THEN Fail
     ELSE Produce(3, IF IsArg(3) THEN Copies(Arg(3)) ELSE <<in[3]>>)

HasVarargs == VaArgs \in DOMAIN top.args /\ top.args[VaArgs] # <<>>

VaOptional ==
  /\ Substituting /\ AtVaOpt
  /\ LET end == ArgEnd(in, 3, TRUE)
     IN IF end = 0 THEN Fail
        ELSE Produce(end, IF HasVarargs THEN SubSeq(in, 3, end - 1) ELSE <<>>)

(* A parameter: preprocess2 is called for its argument. *)
BeginArgument ==
  /\ Substituting /\ IsArg(1) /\ ~AtPasteOperand /\ ~AtVaOpt
  /\ frames' = Append(Append(Below, [top EXCEPT !.param = in[1].text]),
                      ListFrame([i \in DOMAIN Arg(1) |-> [Arg(1)[i] EXCEPT !.at = i]]))
  /\ UNCHANGED <<macros, texts, status>>

(* What is left of an argument after preprocess2: its tokens up to the first *)
(* that was passed through, linked to what followed that one in the result.  *)
Relinked(arg, out) ==
  LET own == {j \in DOMAIN out : out[j].at # 0}
      j == FirstIn(own)
  IN IF own = {} THEN arg ELSE SubSeq(arg, 1, out[j].at) \o Copies(SubSeq(out, j + 1, Len(out)))

EndArgument ==
  /\ status = "run" /\ top.kind = "list" /\ in = <<>> /\ Len(frames) > 1
  /\ LET caller == Below[Len(Below)]
     IN frames' = Append(Front(Below), [caller EXCEPT !.in = Tail(@), !.out = @ \o Copies(top.out), !.param = <<>>,
                                                      !.args[caller.param] = Relinked(@, top.out)])
  /\ UNCHANGED <<macros, texts, status>>

CopyToken ==
  /\ Substituting /\ ~AtHash /\ ~AtGnuComma /\ ~AtPaste /\ ~AtVaOpt /\ ~IsArg(1)
  /\ Produce(1, <<in[1]>>)

Finish ==
  /\ status = "run" /\ Len(frames) = 1 /\ in = <<>>
  /\ status' = "done"
  /\ UNCHANGED <<macros, texts, frames>>
-----------------------------------------------------------------------------
Init ==
  /\ \E family \in DOMAIN Programs : \E p \in Programs[family] : macros = p.macros /\ texts = p.texts
  /\ frames = <<ListFrame(Tokens(texts))>>
  /\ status = "run"

Next ==
  \/ PassThrough \/ ExpandObject \/ BeginFunction \/ EndFunction
  \/ Stringize \/ GnuComma \/ PasteTokens \/ PasteOperand \/ VaOptional
  \/ BeginArgument \/ EndArgument \/ CopyToken \/ Finish

(* The preprocessor runs by itself: nothing it waits for. *)
Spec == Init /\ [][Next]_vars /\ WF_vars(Next)
-----------------------------------------------------------------------------
(* Hide sets stop every expansion, however the macros refer to each other and *)
(* whatever is passed to them (expand_macro): the text is expanded, or an     *)
(* error reported, in finitely many steps and within the memory.              *)
ExpansionEnds == <>(status \in {"done", "error"})

(* What expand_macro, read_macro_args, subst and preprocess2 make of a text *)
(* is what macro replacement makes of it, where the standard is definite,   *)
(* and one of the results it allows where it is not.                        *)
Result == IF status = "error" THEN <<Failure, <<>>>>
          ELSE <<"text", [i \in DOMAIN frames[1].out |-> frames[1].out[i].text]>>
MatchesRescanning == status \in {"done", "error"} => Result \in Replacements(macros, texts)
=============================================================================
