----------------------------- MODULE MCTokenizer -----------------------------
(***************************************************************************)
(* Tokenizer on texts of four families, each with what the C standard makes   *)
(* of it: the lines and lexemes of short texts by the translation phases of    *)
(* C11 5.1.1.2 and the longest-match rule of 6.4, integer and floating          *)
(* constants by the tables of 6.4.4, and adjacent string literals by 6.4.5.      *)
(***************************************************************************)
EXTENDS Tokenizer

CONSTANTS
  MaxPieces,  \* pieces of a text of the layout and literal families
  MaxPuncts   \* characters of a text of the punctuator family

VARIABLE source  \* what the file was written from

-----------------------------------------------------------------------------
(* The texts. *)

Texts(pieces, n) == {FlattenSeq(t) : t \in BoundedSeq({Bytes(x) : x \in pieces}, n)}
LayoutPieces == {"//", "/*", "*/", "/", "\\\n", "\n", "\r\n", " ", "a", "\""}
LiteralPieces == {"u", "8", "L", "U", "\"", "\\", "a", "'a'", "'\\''"}
PunctPieces == {"+", "-", "=", "<", ">", "&", "|", "#", ".", "!", "*", "/", "%", "^", "1", "e"}
(* A quote without its closing one, bytes that begin nothing, and letters beyond ASCII. *)
Strays == {Bytes("'"), Bytes("u'a"), Bytes("'\n"), <<1>>, <<128>>, <<195, 169>>, <<97, 195, 169, 49, 43, 195, 169>>, Bytes("x \t@\fy")}
Layouts ==
  {[family |-> "layout", text |-> t] :
     t \in Strays \cup Texts(LayoutPieces, MaxPieces) \cup Texts(LiteralPieces, MaxPieces) \cup Texts(PunctPieces, MaxPuncts)}

(* Integer constants at the limits of the types. *)
Values == {0, 1, 7, 8, 9, (2 ^ (IntBits - 1)) - 1, 2 ^ (IntBits - 1), (2 ^ IntBits) - 1, 2 ^ IntBits,
           (2 ^ (WordBits - 1)) - 1, 2 ^ (WordBits - 1), (2 ^ WordBits) - 1}
Integers == [family : {"integer"}, base : {2, 8, 10, 16}, value : Values, suffix : DOMAIN IntegerSuffixes]
(* A decimal constant too large for the signed types has no type, and is left out. *)
HasType(x) == x.base # 10 \/ x.value < 2 ^ (WordBits - 1) \/ IntegerSuffixes[x.suffix].u

RECURSIVE InDigits(_, _)
InDigits(n, base) ==
  LET digit == Bytes("0123456789abcdef")[(n % base) + 1]
  IN IF n < base THEN <<digit>> ELSE Append(InDigits(n \div base, base), digit)
BasePrefix(base) == CASE base = 2 -> "0b" [] base = 8 -> "0" [] base = 10 -> "" [] OTHER -> "0x"

(* Floating constants: a point or an exponent, and a digit before or after the point. *)
Mantissas == {"1.", ".5", "08.25", "1e1", "09E+1", "1.e-10", ".5e1", "0x1p1", "0xa.8P-1", "0x.8p+2", "0xfp0"}
Floats == [family : {"float"}, number : Mantissas, suffix : {"", "f", "F", "l", "L"}]

(* String literals: a prefix and the characters between the quotes, each as it is   *)
(* written, with the element an escape stands for or its code point.                *)
Char(written, escape, c) == [written |-> written, escape |-> escape, c |-> c]
Chars == {Char(Bytes("a"), FALSE, 97), Char(Bytes("1"), FALSE, 49), Char(<<195, 169>>, FALSE, \hE9),
          Char(Bytes("\\u20ac"), FALSE, \h20AC), Char(Bytes("\\U0001f600"), FALSE, \h1F600),
          Char(Bytes("\\n"), TRUE, 10), Char(Bytes("\\x4"), TRUE, 4), Char(Bytes("\\1"), TRUE, 1), Char(Bytes("\\\""), TRUE, 34)}
Literals(n) == [prefix : DOMAIN StringElement, chars : BoundedSeq(Chars, n)]
PrefixesOf(literals) == {literals[k].prefix : k \in DOMAIN literals} \ {"none"}
(* "\x41" and "\11" would be other escapes; u8 strings beside wide ones are not C.    *)
Merges(l) == Len(l.chars) = 2 /\ Last(l.chars).c \in {97, 49} /\ l.chars[1].c \in {1, 4}
Strings ==
  {x \in [family : {"strings"},
          literals : [1 .. 1 -> Literals(2)] \cup [1 .. 2 -> Literals(1)]
                     \cup [1 .. 3 -> [prefix : DOMAIN StringElement, chars : {<<Char(Bytes("a"), FALSE, 97)>>}]]] :
     /\ "u8" \in PrefixesOf(x.literals) => PrefixesOf(x.literals) = {"u8"}
     /\ \A k \in DOMAIN x.literals : ~Merges(x.literals[k])}

LiteralText(l) == Bytes(Spelling(l.prefix) \o "\"") \o FlattenSeq([k \in DOMAIN l.chars |-> l.chars[k].written]) \o <<Quote>>
TextOfSource(x) ==
  CASE x.family = "layout" -> x.text
    [] x.family = "integer" -> Bytes(BasePrefix(x.base)) \o InDigits(x.value, x.base) \o Bytes(x.suffix)
    [] x.family = "float" -> Bytes(x.number) \o Bytes(x.suffix)
    [] x.family = "strings" -> FlattenSeq([k \in DOMAIN x.literals |-> LiteralText(x.literals[k]) \o Bytes(" ")])

Sources == Layouts \cup {x \in Integers : HasType(x)} \cup Floats \cup Strings

-----------------------------------------------------------------------------
(* The lines and lexemes of a text by the standard: the places of the characters    *)
(* left when line ends are newlines and spliced lines joined, cut into the longest   *)
(* lexemes.                                                                         *)

OneNewline(s) ==
  LET ended == SelectSeq([i \in DOMAIN s |-> IF s[i] # 13 THEN s[i] ELSE IF ByteAt(s, i + 1) = NL THEN -1 ELSE NL], LAMBDA c : c # -1)
  IN IF ended # <<>> /\ Last(ended) = NL THEN ended ELSE Append(ended, NL)
IsSplice(s, i) == ByteAt(s, i) = Backslash /\ ByteAt(s, i + 1) = NL
KeptPlaces(s) == SelectSeq([i \in DOMAIN s |-> i], LAMBDA i : ~IsSplice(s, i) /\ ~(i > 1 /\ IsSplice(s, i - 1)))

Begins(t, q) == StartsWith(t, 1, Bytes(q))
Alnum == Digits \cup Letters
(* The closing quote is the first not after an odd number of backslashes. *)
Backslashes(t, i) ==
  CHOOSE n \in 0 .. i - 1 :
    /\ \A k \in i - n .. i - 1 : t[k] = Backslash
    /\ n = i - 1 \/ t[i - n - 1] # Backslash
IsQuoted(t, prefixes, quote) ==
  \E prefix \in prefixes :
    LET n == Len(prefix) + 1
    IN /\ Len(t) > n /\ StartsWith(t, 1, Append(Bytes(prefix), quote))
       /\ {i \in n + 1 .. Len(t) : t[i] = quote /\ Backslashes(t, i) % 2 = 0} = {Len(t)}
       /\ NL \notin ToSet(t)
IsComment(t) ==
  \/ Begins(t, "//") /\ NL \notin ToSet(t)
  \/ Len(t) >= 4 /\ Begins(t, "/*") /\ {i \in 3 .. Len(t) : StartsWith(t, i, Bytes("*/"))} = {Len(t) - 1}
IsNumber(t) ==
  /\ t[1] \in Digits \/ (t[1] = Code["."] /\ Len(t) > 1 /\ t[2] \in Digits)
  /\ \A i \in 2 .. Len(t) : t[i] \in Alnum \cup {Code["."]} \/ (t[i] \in Among("+-") /\ t[i - 1] \in Among("eEpP"))
Accented == {195, 169}
IsIdentifier(t) == t[1] \in Letters \cup Accented /\ ToSet(t) \subseteq Alnum \cup Accented
LexemeKind(t) ==
  IF t[1] \in Spaces THEN (IF Len(t) = 1 THEN "space" ELSE "no")
  ELSE IF IsComment(t) THEN "comment"
  ELSE IF IsQuoted(t, {"", "u8", "u", "L", "U"}, Quote) THEN "STR"
  ELSE IF IsQuoted(t, {"", "u", "L", "U"}, Apostrophe) THEN "NUM"
  ELSE IF IsNumber(t) THEN "PP_NUM"
  ELSE IF IsIdentifier(t) THEN "IDENT"
  ELSE IF t[1] \in Puncts \ {Quote, Apostrophe} /\ (Len(t) = 1 \/ t \in {Bytes(Punctuators[k]) : k \in DOMAIN Punctuators}) THEN "PUNCT"
  ELSE "no"

(* The lexemes of t, each with its kind, its characters' places in t and its length. *)
RECURSIVE Lexemes(_, _)
Lexemes(t, i) ==
  LET kinds == [n \in 1 .. Len(t) + 1 - i |-> LexemeKind(SubSeq(t, i, i + n - 1))]
      longest == CHOOSE n \in DOMAIN kinds : kinds[n] # "no" /\ \A m \in DOMAIN kinds : kinds[m] # "no" => m <= n
      rest == Lexemes(t, i + longest)
  IN IF i > Len(t) THEN <<>>
     ELSE IF (\A n \in DOMAIN kinds : kinds[n] = "no") \/ (StartsWith(t, i, Bytes("/*")) /\ kinds[longest] # "comment")
     THEN <<[kind |-> "bad", at |-> i, len |-> 0]>>
     ELSE <<[kind |-> kinds[longest], at |-> i, len |-> longest]>> \o rest
IsToken(x) == x.kind \notin {"space", "comment"}

Reference == LET s == OneNewline(input) IN [s |-> s, places |-> KeptPlaces(s)]
LogicalText(r) == [k \in DOMAIN r.places |-> r.s[r.places[k]]]

(* The line a character is on: where its logical line begins. *)
LineOf(r, at) ==
  LET ends == {r.places[k] : k \in {k \in 1 .. at - 1 : r.s[r.places[k]] = NL}} \cup {0}
      last == CHOOSE e \in ends : \A f \in ends : f <= e
  IN 1 + Cardinality({i \in 1 .. last : r.s[i] = NL})

-----------------------------------------------------------------------------
MCFiles == {TextOfSource(x) : x \in Sources}

(* Tokenizer's InitTokens, with what the file was written from. *)
InitSource ==
  /\ source \in Sources
  /\ input = TextOfSource(source)
  /\ contents = <<>> /\ place = 1 /\ at_bol = TRUE /\ has_space = FALSE
  /\ tokens = <<>> /\ phase = "read"
NoSource ==
  /\ source = [family |-> "none"] /\ input = <<>> /\ contents = <<>> /\ place = 1
  /\ at_bol = TRUE /\ has_space = FALSE /\ tokens = <<>> /\ phase = "done"
Tokenized == phase \in {"done", "error"} /\ UNCHANGED tokenVars

IsScanned == phase = "convert" \/ (phase = "error" /\ \A k \in DOMAIN tokens : tokens[k].kind # "EOF")

(* A text is cut into the tokens the standard's phases 2 to 4 give: spliced lines joined   *)
(* wherever they are, comments replaced, then the longest lexemes; and it is refused        *)
(* exactly when the standard finds no lexeme.  tokenize()'s branches and their order.      *)
TokensMatch ==
  (IsScanned /\ source.family = "layout") =>
    LET r == Reference
        t == LogicalText(r)
        lexemes == SelectSeq(Lexemes(t, 1), IsToken)
    IN IF phase = "error" THEN lexemes # <<>> /\ Last(lexemes).kind = "bad"
       ELSE /\ Len(tokens) = Len(lexemes) + 1
            /\ \A k \in DOMAIN lexemes :
                 /\ tokens[k].kind = lexemes[k].kind
                 /\ TextOf(tokens[k]) = SubSeq(t, lexemes[k].at, lexemes[k].at + lexemes[k].len - 1)

(* However lines are spliced and comments span them, a token has the physical line on which  *)
(* its logical line begins, and is marked as the first of its line (a directive is known by    *)
(* that) exactly when only spaces and comments came since the newline: the newlines               *)
(* remove_backslash_newline takes away come back, and a newline in a comment is none.             *)
LinesSurvive ==
  (phase = "convert" /\ source.family = "layout") =>
    LET r == Reference
        all == Lexemes(LogicalText(r), 1)
        lexemes == SelectSeq(all, IsToken)
        FirstOfLine(x) ==
          \A y \in ToSet(all) : (IsToken(y) /\ y.at < x.at) =>
            \E z \in ToSet(all) : z.kind = "space" /\ LogicalText(r)[z.at] = NL /\ y.at < z.at /\ z.at < x.at
    IN \A k \in DOMAIN lexemes :
         tokens[k].line = LineOf(r, lexemes[k].at) /\ (tokens[k].at_bol <=> FirstOfLine(lexemes[k]))

(* Tokens and their places: the text is cut as the standard cuts it, and each token knows its   *)
(* line, whatever splices and comments came before.                                            *)
TokensAndLines == TokensMatch /\ LinesSurvive

(* The first type of the standard's list that holds the value. *)
CanHold(type, v) ==
  v < 2 ^ (CASE type = "int" -> IntBits - 1 [] type = "uint" -> IntBits [] type = "long" -> WordBits - 1 [] OTHER -> WordBits)
TypeList(x) ==
  LET sfx == IntegerSuffixes[x.suffix]
  IN SelectSeq(<<"int", "uint", "long", "ulong">>,
       LAMBDA type : /\ (sfx.l \/ sfx.ll) => type \in {"long", "ulong"}
                     /\ sfx.u => type \in {"uint", "ulong"}
                     /\ (~sfx.u /\ x.base = 10) => type \in {"int", "long"})
Representation(type) == CASE type = "llong" -> "long" [] type = "ullong" -> "ulong" [] OTHER -> type
FirstFit(x) == LET list == TypeList(x) IN list[SelectInSeq(list, LAMBDA type : CanHold(type, x.value))]

(* An integer constant has the value its digits write and the size and sign of the first  *)
(* type of the standard's list, by its base and suffix, that holds it; a floating one is      *)
(* read to its last digit and has its suffix's type.  convert_pp_int's bases, suffixes and     *)
(* comparisons with the limits of the types, and convert_pp_number.                          *)
ConstantsTyped ==
  (phase = "done" \/ phase = "error") =>
    /\ source.family = "integer" =>
         /\ phase = "done" /\ Len(tokens) = 2
         /\ tokens[1].kind = "NUM" /\ tokens[1].value = source.value
         /\ Representation(tokens[1].type) = FirstFit(source)
    /\ source.family = "float" =>
         /\ phase = "done" /\ Len(tokens) = 2
         /\ tokens[1].kind = "NUM" /\ tokens[1].value = Len(source.number)
         /\ tokens[1].type = (CASE source.suffix \in {"f", "F"} -> "float" [] source.suffix \in {"l", "L"} -> "ldouble" [] OTHER -> "double")

Encoding(size, x) ==
  IF x.escape THEN <<x.c>> ELSE IF size = 1 THEN encode_utf8(x.c)
  ELSE IF size = 2 /\ x.c > 65535 THEN <<\hD800 + ((x.c - 65536) \div 1024), \hDC00 + ((x.c - 65536) % 1024)>> ELSE <<x.c>>

(* Adjacent string literals become one, of the one wide kind among them, whose elements are   *)
(* the characters of all in that kind's encoding, each escape ended by its own literal; two     *)
(* wide kinds are refused.  join_adjacent_string_literals and the readers of strings.          *)
StringsJoin ==
  ((phase = "done" \/ phase = "error") /\ source.family = "strings") =>
    LET prefixes == PrefixesOf(source.literals)
        type == IF prefixes = {} THEN "char" ELSE StringElement[CHOOSE x \in prefixes : TRUE]
        chars == FlattenSeq([k \in DOMAIN source.literals |-> source.literals[k].chars])
    IN IF Cardinality(prefixes) > 1 THEN phase = "error"
       ELSE /\ phase = "done" /\ Len(tokens) = 2
            /\ tokens[1].kind = "STR" /\ tokens[1].type = type
            /\ tokens[1].elements = FlattenSeq([k \in DOMAIN chars |-> Encoding(ElementSize[type], chars[k])]) \o <<0>>

(* Constants and strings keep their meaning from the text to the parser: what            *)
(* convert_pp_number and join_adjacent_string_literals promise.                           *)
LiteralsMean == ConstantsTyped /\ StringsJoin
=============================================================================
