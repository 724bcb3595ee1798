------------------------------ MODULE Tokenizer ------------------------------
(***************************************************************************)
(* tokenize.c, with the character encodings of unicode.c and what preprocess *)
(* does to the tokens at its end: a file is read and normalized, then cut     *)
(* into tokens, one iteration of tokenize's loop at a time; the tokens get     *)
(* their lines; numbers are converted, keywords marked, and adjacent string    *)
(* literals joined.  Directives and macros, which come between, are the        *)
(* business of Preprocessor and Macros.                                       *)
(*                                                                         *)
(* A file is a sequence of bytes, and a pointer into it is an index.  An int   *)
(* has IntBits bits and a long WordBits, so that small constants reach their   *)
(* limits; the value of a floating constant is the text it was written as.     *)
(***************************************************************************)
EXTENDS Integers, Sequences, FiniteSets, SequencesExt, TLC

CONSTANTS
  Files,     \* the files compiled: sequences of bytes
  IntBits,   \* 32
  WordBits   \* 64

ASSUME Widths == IntBits \in 4 .. 31 /\ WordBits \in IntBits .. 31

VARIABLES
  input,      \* the file as it is on disk
  contents,   \* what read_file and the passes after it make of it
  place,      \* the place reached
  at_bol,     \* whether only white space has been seen on the line
  has_space,  \* whether white space came just before
  tokens,     \* the tokens made
  phase       \* "read", "scan", "lines", "convert", "join", "done" or "error"

tokenVars == <<input, contents, place, at_bol, has_space, tokens, phase>>

-----------------------------------------------------------------------------
(* Characters. *)
NL == 10
Quote == 34
Apostrophe == 39
Backslash == 92
Control == ("\t" :> 9) @@ ("\n" :> NL) @@ ("\f" :> 12) @@ ("\r" :> 13)
(* ASCII, but for the grave accent. *)
UpToUnderscore == " !\"#$%&'()" \o "*+,-./0123456789:;<=>?@ABCDEFGHIJKLMNOPQRSTUVWXYZ[\\]^_"
FromSmallA == "abcdefghijklmnopqrstuvwxyz{|}~"
Numbered(chars, first) == {[char |-> SubSeq(chars, i, i), code |-> first + i - 1] : i \in 1 .. Len(chars)}
Ascii == Numbered(UpToUnderscore, 32) \cup Numbered(FromSmallA, 97) \cup
         {[char |-> c, code |-> Control[c]] : c \in DOMAIN Control}
Code == [c \in {x.char : x \in Ascii} |-> (CHOOSE x \in Ascii : x.char = c).code]
(* The bytes of a string of ASCII characters. *)
Bytes(s) == [i \in 1 .. Len(s) |-> Code[SubSeq(s, i, i)]]
Among(s) == {Bytes(s)[i] : i \in 1 .. Len(s)}

Digits == Among("0123456789")
HexDigits == Digits \cup Among("abcdefABCDEF")
Letters == Among("abcdefghijklmnopqrstuvwxyzABCDEFGHIJKLMNOPQRSTUVWXYZ")
Spaces == {9, 10, 11, 12, 13, 32}
Puncts == (33 .. 126) \ (Digits \cup Letters)

(* The byte at a place; past the end, the terminating zero. *)
ByteAt(s, i) == IF i \in DOMAIN s THEN s[i] ELSE 0
StartsWith(s, i, q) == \A k \in DOMAIN q : ByteAt(s, i + k - 1) = q[k]

(* from_hex *)
FromHex(c) == IF c \in Digits THEN c - 48 ELSE IF c >= 97 THEN c - 87 ELSE c - 55

-----------------------------------------------------------------------------
(* unicode.c *)

Continuation(c, weight) == 128 + ((c \div weight) % 64)
encode_utf8(c) ==
  IF c <= 127 THEN <<c>>
  ELSE IF c <= 2047 THEN <<192 + (c \div 64), Continuation(c, 1)>>
  ELSE IF c <= 65535 THEN <<224 + (c \div 4096), Continuation(c, 64), Continuation(c, 1)>>
  ELSE <<240 + (c \div 262144), Continuation(c, 4096), Continuation(c, 64), Continuation(c, 1)>>

(* What is read and the place after it; c = -1 is an error. *)
Decoded(c, next) == [c |-> c, next |-> next]
Invalid == Decoded(-1, 1)

SequenceLength(lead) == IF lead >= 240 THEN 4 ELSE IF lead >= 224 THEN 3 ELSE 2
LeadBits(lead) == IF lead >= 240 THEN lead % 8 ELSE IF lead >= 224 THEN lead % 16 ELSE lead % 32
decode_utf8(s, i) ==
  LET lead == ByteAt(s, i)
      len == SequenceLength(lead)
  IN IF lead < 128 THEN Decoded(lead, i + 1)
     ELSE IF lead < 192 \/ \E k \in 1 .. len - 1 : ByteAt(s, i + k) \div 64 # 2 THEN Invalid
     ELSE Decoded(FoldLeft(LAMBDA c, k : c * 64 + (ByteAt(s, i + k) % 64), LeadBits(lead), [k \in 1 .. len - 1 |-> k]), i + len)

InRange(ranges, c) == \E r \in ranges : r[1] <= c /\ c <= r[2]
FirstRanges ==
  {<<95, 95>>, <<97, 122>>, <<65, 90>>, <<36, 36>>, <<\hA8, \hA8>>, <<\hAA, \hAA>>, <<\hAD, \hAD>>, <<\hAF, \hAF>>,
   <<\hB2, \hB5>>, <<\hB7, \hBA>>, <<\hBC, \hBE>>, <<\hC0, \hD6>>, <<\hD8, \hF6>>, <<\hF8, \h2FF>>, <<\h370, \h167F>>,
   <<\h1681, \h180D>>, <<\h180F, \h1DBF>>, <<\h1E00, \h1FFF>>, <<\h200B, \h200D>>, <<\h202A, \h202E>>,
   <<\h203F, \h2040>>, <<\h2054, \h2054>>, <<\h2060, \h20CF>>, <<\h2100, \h218F>>, <<\h2460, \h24FF>>,
   <<\h2776, \h2793>>, <<\h2C00, \h2DFF>>, <<\h2E80, \h2FFF>>, <<\h3004, \h3007>>, <<\h3021, \h302F>>,
   <<\h3031, \hD7FF>>, <<\hF900, \hFD3D>>, <<\hFD40, \hFDCF>>, <<\hFDF0, \hFE1F>>, <<\hFE30, \hFE44>>,
   <<\hFE47, \hFFFD>>} \cup {<<65536 * n, 65536 * n + 65533>> : n \in 1 .. 14}
is_ident1(c) == InRange(FirstRanges, c)
is_ident2(c) ==
  is_ident1(c) \/ InRange({<<48, 57>>, <<\h300, \h36F>>, <<\h1DC0, \h1DFF>>, <<\h20D0, \h20FF>>, <<\hFE20, \hFE2F>>}, c)

-----------------------------------------------------------------------------
(* From the file to its contents: tokenize_file and the passes it runs. *)

(* read_file: the last line ends with a newline. *)
Terminated(s) == IF s = <<>> \/ s[Len(s)] # NL THEN Append(s, NL) ELSE s
WithoutBom(s) == IF StartsWith(s, 1, <<239, 187, 191>>) THEN SubSeq(s, 4, Len(s)) ELSE s
From(s, i) == SubSeq(s, i, Len(s))
Newlines(n) == [k \in 1 .. n |-> NL]

RECURSIVE canonicalize_newline(_)
canonicalize_newline(s) ==
  CASE s = <<>> -> <<>>
    [] StartsWith(s, 1, Bytes("\r\n")) -> <<NL>> \o canonicalize_newline(From(s, 3))
    [] StartsWith(s, 1, Bytes("\r")) -> <<NL>> \o canonicalize_newline(From(s, 2))
    [] OTHER -> <<s[1]>> \o canonicalize_newline(From(s, 2))

(* The newlines removed, n so far, follow the next one that stays. *)
RECURSIVE Spliced(_, _)
Spliced(s, n) ==
  CASE s = <<>> -> Newlines(n)
    [] StartsWith(s, 1, Bytes("\\\n")) -> Spliced(From(s, 3), n + 1)
    [] StartsWith(s, 1, <<NL>>) -> <<NL>> \o Newlines(n) \o Spliced(From(s, 2), 0)
    [] OTHER -> <<s[1]>> \o Spliced(From(s, 2), n)
(* Mutant: the newlines removed are not put back. *)
RECURSIVE WithoutSplices(_)
WithoutSplices(s) ==
  CASE s = <<>> -> <<>>
    [] StartsWith(s, 1, Bytes("\\\n")) -> WithoutSplices(From(s, 3))
    [] OTHER -> <<s[1]>> \o WithoutSplices(From(s, 2))
remove_backslash_newline_Forgetting(s) == WithoutSplices(s)
remove_backslash_newline(s) == Spliced(s, 0)

(* 0 unless all len digits are there. *)
read_universal_char(s, i, len) ==
  IF \E k \in 0 .. len - 1 : ByteAt(s, i + k) \notin HexDigits THEN 0
  ELSE FoldLeft(LAMBDA c, d : c * 16 + FromHex(d), 0, SubSeq(s, i, i + len - 1))

RECURSIVE convert_universal_chars(_)
convert_universal_chars(s) ==
  LET len == IF StartsWith(s, 1, Bytes("\\u")) THEN 4 ELSE IF StartsWith(s, 1, Bytes("\\U")) THEN 8 ELSE 0
      c == read_universal_char(s, 3, len)
      kept == IF len = 0 /\ ByteAt(s, 1) = Backslash /\ Len(s) > 1 THEN 2 ELSE 1
  IN IF s = <<>> THEN <<>>
     ELSE IF len # 0 /\ c # 0 THEN encode_utf8(c) \o convert_universal_chars(From(s, 3 + len))
     ELSE SubSeq(s, 1, kept) \o convert_universal_chars(From(s, kept + 1))

Contents(s) ==
  convert_universal_chars(remove_backslash_newline(canonicalize_newline(WithoutBom(Terminated(s)))))

-----------------------------------------------------------------------------
(* Escape sequences, strings and characters. *)

Simple == ("a" :> 7) @@ ("b" :> 8) @@ ("t" :> 9) @@ ("n" :> 10) @@ ("v" :> 11) @@ ("f" :> 12) @@ ("r" :> 13) @@ ("e" :> 27)
Escapes == [c \in {Code[x] : x \in DOMAIN Simple} |-> Simple[CHOOSE x \in DOMAIN Simple : Code[x] = c]]

(* The first place from i on whose byte is not in the set. *)
RECURSIVE SpanEnd(_, _, _)
SpanEnd(s, i, set) == IF ByteAt(s, i) \in set THEN SpanEnd(s, i + 1, set) ELSE i

InBase(base, digits) == FoldLeft(LAMBDA n, d : n * base + FromHex(d), 0, digits)
Octal == Among("01234567")
Least(m, n) == IF m < n THEN m ELSE n
read_escaped_char(s, i) ==
  LET octal == Least(SpanEnd(s, i, Octal), i + 3)
      hex == SpanEnd(s, i + 1, HexDigits)
      c == ByteAt(s, i)
  IN CASE c \in Octal -> Decoded(InBase(8, SubSeq(s, i, octal - 1)), octal)
       [] c = Code["x"] -> IF hex = i + 1 THEN Invalid ELSE Decoded(InBase(16, SubSeq(s, i + 1, hex - 1)), hex)
       [] OTHER -> Decoded(IF c \in DOMAIN Escapes THEN Escapes[c] ELSE c, i + 1)

(* The closing quote; 0 if the line ends first. *)
RECURSIVE string_literal_end(_, _)
string_literal_end(s, i) ==
  CASE ByteAt(s, i) = Quote -> i
    [] ByteAt(s, i) \in {NL, 0} -> 0
    [] ByteAt(s, i) = Backslash -> string_literal_end(s, i + 2)
    [] OTHER -> string_literal_end(s, i + 1)

(* The units a character becomes in an element of some bytes. *)
Surrogates(c) == <<\hD800 + ((c - 65536) \div 1024), \hDC00 + ((c - 65536) % 1024)>>
CodeUnits(size, c) == IF size = 2 /\ c >= 65536 THEN Surrogates(c) ELSE <<c>>
Fits(size, c) == CASE size = 1 -> c % 256 [] size = 2 -> c % 65536 [] OTHER -> c

(* read_string_literal, read_utf16_string_literal and read_utf32_string_literal  *)
(* between two quotes: bytes are copied, wider elements hold decoded characters.  *)
Failed == <<-1>>
RECURSIVE Elements(_, _, _, _)
Elements(s, i, end, size) ==
  LET escaped == read_escaped_char(s, i + 1)
      plain == IF size = 1 THEN Decoded(ByteAt(s, i), i + 1) ELSE decode_utf8(s, i)
      isEscape == ByteAt(s, i) = Backslash
      x == IF isEscape THEN escaped ELSE plain
      rest == Elements(s, x.next, end, size)
  IN IF i >= end THEN <<>>
     ELSE IF x.c = -1 \/ rest = Failed THEN Failed
     ELSE (IF isEscape THEN <<Fits(size, x.c)>> ELSE CodeUnits(size, x.c)) \o rest

-----------------------------------------------------------------------------
(* Tokens.  line is given by add_line_numbers; value, type and elements by the   *)
(* readers of literals and by the conversion of numbers.                         *)

Token(kind, loc, len) ==
  [kind |-> kind, loc |-> loc, len |-> len, at_bol |-> FALSE, has_space |-> FALSE,
   line |-> 0, value |-> 0, type |-> "", elements |-> <<>>]
new_token(kind, start, end) == [Token(kind, start, end - start) EXCEPT !.at_bol = at_bol, !.has_space = has_space]
TextOf(t) == SubSeq(contents, t.loc, t.loc + t.len - 1)
At(q) == StartsWith(contents, place, Bytes(q))
Here == ByteAt(contents, place)

(* A literal's prefix decides the type of its elements; "none" is no prefix. *)
ElementSize == [int |-> 4, uint |-> 4, ushort |-> 2, char |-> 1]
StringElement == [none |-> "char", u8 |-> "char", u |-> "ushort", L |-> "int", U |-> "uint"]
CharElement == [none |-> "int", u |-> "ushort", L |-> "int", U |-> "uint"]
Spelling(prefix) == IF prefix = "none" THEN "" ELSE prefix
Prefixed(elements, quote) == {prefix \in DOMAIN elements : At(Spelling(prefix) \o quote)}
PrefixHere(elements, quote) == CHOOSE prefix \in Prefixed(elements, quote) : TRUE

NumberStarts(i) == ByteAt(contents, i) \in Digits \/ (ByteAt(contents, i) = Code["."] /\ ByteAt(contents, i + 1) \in Digits)
RECURSIVE NumberEnd(_)
NumberEnd(i) ==
  CASE ByteAt(contents, i) \in Among("eEpP") /\ ByteAt(contents, i + 1) \in Among("+-") -> NumberEnd(i + 2)
    [] ByteAt(contents, i) \in Digits \cup Letters \cup {Code["."]} -> NumberEnd(i + 1)
    [] OTHER -> i

(* Where the identifier at i ends; i itself if there is none. *)
RECURSIVE IdentifierEnd(_)
IdentifierEnd(i) == LET x == decode_utf8(contents, i) IN IF x.c # -1 /\ is_ident2(x.c) THEN IdentifierEnd(x.next) ELSE i
IdentifierStarts == Here >= 128 \/ is_ident1(Here)
read_ident(i) == LET x == decode_utf8(contents, i) IN IF x.c # -1 /\ is_ident1(x.c) THEN IdentifierEnd(x.next) ELSE i

Punctuators ==
  <<"<<=", ">>=", "...", "==", "!=", "<=", ">=", "->", "+=", "-=", "*=", "/=", "++", "--", "%=", "&=", "|=", "^=",
    "&&", "||", "<<", ">>", "##">>
read_punct ==
  LET matching == {k \in DOMAIN Punctuators : At(Punctuators[k])}
  IN IF matching # {} THEN Len(Punctuators[CHOOSE k \in matching : \A m \in matching : k <= m])
     ELSE IF Here \in Puncts THEN 1 ELSE 0

Keywords ==
  {"return", "if", "else", "for", "while", "int", "sizeof", "char", "struct", "union", "short", "long", "void",
   "typedef", "_Bool", "enum", "static", "goto", "break", "continue", "switch", "case", "default", "extern",
   "_Alignof", "_Alignas", "do", "signed", "unsigned", "const", "volatile", "auto", "register", "restrict",
   "__restrict", "__restrict__", "_Noreturn", "float", "double", "typeof", "asm", "_Thread_local", "__thread",
   "_Atomic", "__attribute__"}
KeywordBytes == {Bytes(k) : k \in Keywords}
is_keyword(text) == text \in KeywordBytes

-----------------------------------------------------------------------------
(* tokenize: the branches of its loop, in the order they are tried. *)

Branch ==
  IF Here = 0 THEN "end"
  ELSE IF At("//") THEN "line comment"
  ELSE IF At("/*") THEN "block comment"
  ELSE IF Here = NL THEN "newline"
  ELSE IF Here \in Spaces THEN "space"
  ELSE IF NumberStarts(place) THEN "number"
  ELSE IF Prefixed(StringElement, "\"") # {} THEN "string"
  ELSE IF Prefixed(CharElement, "'") # {} THEN "character"
  ELSE IF IdentifierStarts /\ decode_utf8(contents, place).c = -1 THEN "invalid"
  ELSE IF read_ident(place) # place THEN "identifier"
  ELSE IF read_punct # 0 THEN "punctuator"
  ELSE "invalid"

Take(branch) == phase = "scan" /\ Branch = branch
Fail == phase' = "error" /\ UNCHANGED <<contents, place, at_bol, has_space, tokens>>
SkipTo(i, bol, space) == place' = i /\ at_bol' = bol /\ has_space' = space /\ UNCHANGED <<contents, tokens, phase>>
Emit(token) ==
  /\ tokens' = Append(tokens, token)
  /\ place' = token.loc + token.len
  /\ at_bol' = FALSE /\ has_space' = FALSE
  /\ UNCHANGED <<contents, phase>>

SkipLineComment ==
  /\ Take("line comment")
  /\ SkipTo(SelectInSubSeq(contents, place, Len(contents), LAMBDA c : c = NL), at_bol, TRUE)

Closings == {i \in place + 2 .. Len(contents) : StartsWith(contents, i, Bytes("*/"))}
SkipBlockComment ==
  /\ Take("block comment")
  /\ \/ Closings = {} /\ Fail
     \/ Closings # {} /\ SkipTo((CHOOSE i \in Closings : \A j \in Closings : i <= j) + 2, at_bol, TRUE)

SkipNewline == Take("newline") /\ SkipTo(place + 1, TRUE, FALSE)
SkipSpace == Take("space") /\ SkipTo(place + 1, at_bol, TRUE)

TokenizeNumber == Take("number") /\ Emit(new_token("PP_NUM", place, NumberEnd(place + 1)))
TokenizeIdentifier == Take("identifier") /\ Emit(new_token("IDENT", place, read_ident(place)))
TokenizePunctuator == Take("punctuator") /\ Emit(new_token("PUNCT", place, place + read_punct))
Reject == Take("invalid") /\ Fail

(* A string from start, whose opening quote is at quote, in elements of a type. *)
StringToken(start, quote, type) ==
  LET end == string_literal_end(contents, quote + 1)
      elements == Elements(contents, quote + 1, end, ElementSize[type])
  IN [new_token("STR", start, end + 1) EXCEPT !.type = type, !.elements = Append(elements, 0)]
StringIsBad(quote, type) ==
  LET end == string_literal_end(contents, quote + 1)
  IN end = 0 \/ (Elements(contents, quote + 1, end, ElementSize[type]) = Failed)
TokenizeString ==
  LET prefix == PrefixHere(StringElement, "\"")
      quote == place + Len(Spelling(prefix))
  IN /\ Take("string")
     /\ \/ StringIsBad(quote, StringElement[prefix]) /\ Fail
        \/ ~StringIsBad(quote, StringElement[prefix]) /\ Emit(StringToken(place, quote, StringElement[prefix]))

(* A narrow constant is a signed char; a UTF-16 one keeps its low half. *)
Signed(v, n) == IF v % 2 ^ n >= 2 ^ (n - 1) THEN (v % 2 ^ n) - 2 ^ n ELSE v % 2 ^ n
CharValue(prefix, c) == CASE prefix = "none" -> Signed(c, 8) [] prefix = "u" -> c % 65536 [] OTHER -> c
TokenizeCharacter ==
  LET prefix == PrefixHere(CharElement, "'")
      first == place + Len(Spelling(prefix)) + 1
      x == IF ByteAt(contents, first) = Backslash THEN read_escaped_char(contents, first + 1) ELSE decode_utf8(contents, first)
      closings == {i \in x.next .. Len(contents) : contents[i] = Apostrophe}
      end == CHOOSE i \in closings : \A j \in closings : i <= j
  IN /\ Take("character")
     /\ \/ (ByteAt(contents, first) = 0 \/ x.c = -1 \/ closings = {}) /\ Fail
        \/ /\ ByteAt(contents, first) # 0 /\ x.c # -1 /\ closings # {}
           /\ Emit([new_token("NUM", place, end + 1) EXCEPT !.value = CharValue(prefix, x.c), !.type = CharElement[prefix]])

(* add_line_numbers, over the whole contents *)
NewlinesBefore(i) == Cardinality({k \in 1 .. i - 1 : contents[k] = NL})
add_line_numbers(toks) == [k \in DOMAIN toks |-> [toks[k] EXCEPT !.line = 1 + NewlinesBefore(toks[k].loc)]]
EndOfTokens ==
  /\ Take("end")
  /\ tokens' = add_line_numbers(Append(tokens, new_token("EOF", place, place)))
  /\ phase' = "convert"
  /\ at_bol' = FALSE /\ has_space' = FALSE
  /\ UNCHANGED <<contents, place>>

(* tokenize_file *)
tokenize_file ==
  /\ phase = "read"
  /\ contents' = Contents(input)
  /\ phase' = "scan"
  /\ UNCHANGED <<place, at_bol, has_space, tokens>>

-----------------------------------------------------------------------------
(* convert_pp_tokens *)

Lower(c) == IF c \in Among("ABCDEFGHIJKLMNOPQRSTUVWXYZ") THEN c + 32 ELSE c
LowerCase(s) == [i \in DOMAIN s |-> Lower(s[i])]

(* The base a number is read in and where its digits begin. *)
BaseOf(text) ==
  IF StartsWith(LowerCase(text), 1, Bytes("0x")) /\ ByteAt(text, 3) \in HexDigits THEN 16
  ELSE IF StartsWith(LowerCase(text), 1, Bytes("0b")) /\ ByteAt(text, 3) \in Among("01") THEN 2
  ELSE IF ByteAt(text, 1) = Code["0"] THEN 8 ELSE 10
FirstDigit(base) == IF base \in {2, 16} THEN 3 ELSE 1
DigitsOf(base) == CASE base = 2 -> Among("01") [] base = 8 -> Octal [] base = 10 -> Digits [] OTHER -> HexDigits

(* strtoull: the value saturates. *)
strtoull(digits, base) ==
  FoldLeft(LAMBDA n, d : Least(n * base + FromHex(d), (2 ^ WordBits) - 1), 0, digits)

(* The suffixes, as l, ll and u. *)
OfLetters(l, ll, u) == [l |-> l, ll |-> ll, u |-> u]
IntegerSuffixes ==
  [s \in {"LLU", "LLu", "llU", "llu", "ULL", "Ull", "uLL", "ull"} |-> OfLetters(FALSE, TRUE, TRUE)]
  @@ [s \in {"lu", "lU", "Lu", "LU", "ul", "uL", "Ul", "UL"} |-> OfLetters(TRUE, FALSE, TRUE)]
  @@ [s \in {"LL", "ll"} |-> OfLetters(FALSE, TRUE, FALSE)]
  @@ [s \in {"L", "l"} |-> OfLetters(TRUE, FALSE, FALSE)]
  @@ [s \in {"U", "u"} |-> OfLetters(FALSE, FALSE, TRUE)]
  @@ ("" :> OfLetters(FALSE, FALSE, FALSE))
SuffixOf(text) == IntegerSuffixes[CHOOSE s \in DOMAIN IntegerSuffixes : Bytes(s) = text]
IsIntegerSuffix(text) == \E s \in DOMAIN IntegerSuffixes : Bytes(s) = text

(* The type, from the base, the value and the suffix: val >> n is not zero when the   *)
(* value has more than n bits.                                                        *)
(* Mutant: a decimal constant too may become unsigned int. *)
IntegerType_LikeHex(base, val, sfx) ==
  LET big(bits) == val >= 2 ^ bits
  IN IF sfx.ll /\ sfx.u THEN "ullong"
     ELSE IF sfx.ll THEN (IF base # 10 /\ big(WordBits - 1) THEN "ullong" ELSE "llong")
     ELSE IF sfx.l /\ sfx.u THEN "ulong"
     ELSE IF sfx.l THEN (IF base = 10 \/ ~big(IntBits) THEN "long" ELSE IF big(WordBits - 1) THEN "ullong" ELSE "llong")
     ELSE IF sfx.u THEN (IF big(IntBits) THEN "ullong" ELSE "uint")
     ELSE IF big(WordBits - 1) THEN "ullong" ELSE IF big(IntBits) THEN "llong"
     ELSE IF big(IntBits - 1) THEN "uint" ELSE "int"
IntegerType(base, val, sfx) ==
  LET big(bits) == val >= 2 ^ bits
  IN IF sfx.ll /\ sfx.u THEN "ullong"
     ELSE IF sfx.ll THEN (IF base # 10 /\ big(WordBits - 1) THEN "ullong" ELSE "llong")
     ELSE IF sfx.l /\ sfx.u THEN "ulong"
     ELSE IF sfx.l THEN (IF base = 10 \/ ~big(IntBits) THEN "long" ELSE IF big(WordBits - 1) THEN "ullong" ELSE "llong")
     ELSE IF sfx.u THEN (IF big(IntBits) THEN "ullong" ELSE "uint")
     ELSE IF base = 10 THEN (IF big(IntBits - 1) THEN "llong" ELSE "int")
     ELSE IF big(WordBits - 1) THEN "ullong" ELSE IF big(IntBits) THEN "llong"
     ELSE IF big(IntBits - 1) THEN "uint" ELSE "int"

DigitsEnd(text) == SpanEnd(text, FirstDigit(BaseOf(text)), DigitsOf(BaseOf(text)))
IsInteger(text) == IsIntegerSuffix(From(text, DigitsEnd(text)))
convert_pp_int(t, text) ==
  LET base == BaseOf(text)
      val == strtoull(SubSeq(text, FirstDigit(base), DigitsEnd(text) - 1), base)
  IN [t EXCEPT !.kind = "NUM", !.value = val, !.type = IntegerType(base, val, SuffixOf(From(text, DigitsEnd(text))))]

(* Where strtod stops: digits, perhaps with a point, and an exponent that has digits. *)
strtod(text) ==
  LET hex == StartsWith(LowerCase(text), 1, Bytes("0x"))
             /\ (ByteAt(text, 3) \in HexDigits \/ (ByteAt(text, 3) = Code["."] /\ ByteAt(text, 4) \in HexDigits))
      digits == IF hex THEN HexDigits ELSE Digits
      whole == SpanEnd(text, IF hex THEN 3 ELSE 1, digits)
      mantissa == IF ByteAt(text, whole) = Code["."] THEN SpanEnd(text, whole + 1, digits) ELSE whole
      sign == IF ByteAt(text, mantissa + 1) \in Among("+-") THEN 1 ELSE 0
      isExponent == Lower(ByteAt(text, mantissa)) = Code[IF hex THEN "p" ELSE "e"] /\ ByteAt(text, mantissa + 1 + sign) \in Digits
  IN IF isExponent THEN SpanEnd(text, mantissa + 1 + sign, Digits) ELSE mantissa

(* The value of a floating constant is left to its text: value holds its length. *)
FloatType(c) == CASE c = Code["f"] -> "float" [] c = Code["l"] -> "ldouble" [] OTHER -> "double"
FloatEnd(text) == strtod(text) + (IF Lower(ByteAt(text, strtod(text))) \in Among("fl") THEN 1 ELSE 0)
IsFloat(text) == FloatEnd(text) = Len(text) + 1
convert_pp_number(t, text) ==
  IF IsInteger(text) THEN convert_pp_int(t, text)
  ELSE [t EXCEPT !.kind = "NUM", !.value = strtod(text) - 1, !.type = FloatType(Lower(ByteAt(text, strtod(text))))]

Converted(t) ==
  IF is_keyword(TextOf(t)) THEN [t EXCEPT !.kind = "KEYWORD"]
  ELSE IF t.kind = "PP_NUM" THEN convert_pp_number(t, TextOf(t))
  ELSE t
BadNumber(t) == t.kind = "PP_NUM" /\ ~IsInteger(TextOf(t)) /\ ~IsFloat(TextOf(t))
convert_pp_tokens ==
  /\ phase = "convert"
  /\ \/ (\E k \in DOMAIN tokens : BadNumber(tokens[k])) /\ Fail
     \/ /\ \A k \in DOMAIN tokens : ~BadNumber(tokens[k])
        /\ tokens' = [k \in DOMAIN tokens |-> Converted(tokens[k])]
        /\ phase' = "join"
        /\ UNCHANGED <<contents, place, at_bol, has_space>>

-----------------------------------------------------------------------------
(* join_adjacent_string_literals: in each run of strings every narrow one is read     *)
(* again in the elements of the first wide one, then the run becomes one string.       *)

(* getStringKind: a literal whose text begins with u, u8 included, is UTF-16. *)
StringKind(t) == CASE ByteAt(contents, t.loc) = Quote -> "none"
                   [] ByteAt(contents, t.loc) = Code["u"] -> "u"
                   [] ByteAt(contents, t.loc) = Code["U"] -> "U"
                   [] OTHER -> "L"

(* tokenize_string_literal: the literal is read again from its first byte, taken for   *)
(* its quote.                                                                          *)
Reread(t, type) ==
  [StringToken(t.loc, t.loc, type) EXCEPT !.at_bol = FALSE, !.has_space = FALSE, !.line = 0]

Kinds(run) == {StringKind(t) : t \in ToSet(run)} \ {"none"}
ElementOf(run) ==
  LET wide == SelectInSeq(run, LAMBDA t : StringKind(t) # "none")
  IN IF wide = 0 THEN "char" ELSE run[wide].type
(* Mutant: the first string of a run is never read again. *)
Widened_After(run) ==
  LET type == ElementOf(run)
  IN [k \in DOMAIN run |-> IF ElementSize[type] > 1 /\ ElementSize[run[k].type] = 1 /\ k > 1 THEN Reread(run[k], type) ELSE run[k]]
Widened(run) ==
  LET type == ElementOf(run)
  IN [k \in DOMAIN run |-> IF ElementSize[type] > 1 /\ ElementSize[run[k].type] = 1 THEN Reread(run[k], type) ELSE run[k]]
Joined(run) ==
  [run[1] EXCEPT !.elements =
     Append(FoldLeft(LAMBDA els, t : els \o SubSeq(t.elements, 1, Len(t.elements) - 1), <<>>, run), 0)]

RECURSIVE JoinRuns(_)
JoinRuns(toks) ==
  LET first == SelectInSeq(toks, LAMBDA t : t.kind = "STR")
      after == SelectInSubSeq(toks, first, Len(toks), LAMBDA t : t.kind # "STR")
      run == SubSeq(toks, first, after - 1)
  IN IF first = 0 THEN toks
     ELSE SubSeq(toks, 1, first - 1) \o <<IF Len(run) = 1 THEN run[1] ELSE Joined(Widened(run))>>
          \o JoinRuns(From(toks, after))
Mixed(toks) ==
  \E i \in DOMAIN toks : \E j \in i .. Len(toks) :
    /\ \A k \in i .. j : toks[k].kind = "STR"
    /\ Cardinality(Kinds(SubSeq(toks, i, j))) > 1
join_adjacent_string_literals ==
  /\ phase = "join"
  /\ \/ Mixed(tokens) /\ Fail
     \/ /\ ~Mixed(tokens)
        /\ tokens' = JoinRuns(tokens)
        /\ phase' = "done"
        /\ UNCHANGED <<contents, place, at_bol, has_space>>

-----------------------------------------------------------------------------
InitTokens ==
  /\ input \in Files
  /\ contents = <<>> /\ place = 1 /\ at_bol = TRUE /\ has_space = FALSE
  /\ tokens = <<>> /\ phase = "read"

NextToken ==
  /\ \/ tokenize_file \/ SkipLineComment \/ SkipBlockComment \/ SkipNewline \/ SkipSpace
     \/ TokenizeNumber \/ TokenizeString \/ TokenizeCharacter \/ TokenizeIdentifier \/ TokenizePunctuator \/ Reject
     \/ EndOfTokens \/ convert_pp_tokens \/ join_adjacent_string_literals
  /\ UNCHANGED input

SpecTokens == InitTokens /\ [][NextToken]_tokenVars
=============================================================================
