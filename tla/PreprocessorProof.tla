-------------------------- MODULE PreprocessorProof --------------------------
(* Machine-checked proofs about Preprocessor: for programs of plain lines,  *)
(* of any number of files of any length with conditionals nested to any     *)
(* depth, the main loop and its skip loops implement conditional inclusion. *)
EXTENDS Preprocessor, SequenceTheorems, TLAPS

-----------------------------------------------------------------------------
(* The refinement mapping as a function of cond and skip. *)

Entries == [ctx : Ctx, included : BOOLEAN]
LevelSet == [state : {"on", "waiting", "over", "dead"}, inElse : BOOLEAN]

Depth(c, k) == Len(c) + (IF k = 0 THEN 0 ELSE k - 1)
StateOf(c, k, i) ==
  IF i < Len(c) \/ k = 0 THEN "on"
  ELSE IF i > Len(c) THEN "dead"
  ELSE IF c[i].included THEN "over" ELSE "waiting"
LevelOf(c, k, i) == [state |-> StateOf(c, k, i), inElse |-> i <= Len(c) /\ c[i].ctx = "else"]
LevelsOf(c, k) == [i \in 1 .. Depth(c, k) |-> LevelOf(c, k, i)]

(* Levels is that function of the current cond and skip. *)
LEMMA LevelsMap == Levels = LevelsOf(cond, skip)
BY DEF Levels, LevelsOf, LevelOf, StateOf, State, Depth

(* The levels are a sequence as long as the conditionals are deep. *)
LEMMA LevelsFacts ==
  ASSUME NEW c \in Seq(Entries), NEW k \in Nat
  PROVE  /\ LevelsOf(c, k) \in Seq(LevelSet)
         /\ Len(LevelsOf(c, k)) = Depth(c, k)
         /\ Depth(c, k) \in Nat
         /\ \A i \in 1 .. Depth(c, k) : LevelsOf(c, k)[i] = LevelOf(c, k, i)
<1>1. Depth(c, k) \in Nat
  BY DEF Depth
<1>2. ASSUME NEW i \in 1 .. Depth(c, k) PROVE LevelOf(c, k, i) \in LevelSet
  <2>1. i \in Int
    BY <1>1
  <2>2. StateOf(c, k, i) \in {"on", "waiting", "over", "dead"}
    BY DEF StateOf
  <2>3. (i <= Len(c) /\ c[i].ctx = "else") \in BOOLEAN
    OBVIOUS
  <2>4. QED
    BY <2>2, <2>3 DEF LevelOf, LevelSet
<1>3. LevelsOf(c, k) \in [1 .. Depth(c, k) -> LevelSet]
  BY <1>2 DEF LevelsOf
<1>4. QED
  BY <1>1, <1>3 DEF LevelsOf

(* Everything is selected exactly when no group is being skipped. *)
LEMMA SelectedMeansNotSkipping ==
  ASSUME NEW c \in Seq(Entries), NEW k \in Nat, k > 0 => c # <<>>
  PROVE  (\A i \in DOMAIN LevelsOf(c, k) : LevelsOf(c, k)[i].state = "on") <=> k = 0
<1>1. DOMAIN LevelsOf(c, k) = 1 .. Depth(c, k)
  BY DEF LevelsOf
<1>2. ASSUME NEW i \in 1 .. Depth(c, k) PROVE LevelsOf(c, k)[i].state = StateOf(c, k, i)
  BY DEF LevelsOf, LevelOf
<1>3. CASE k = 0
  BY <1>1, <1>2, <1>3 DEF StateOf
<1>4. CASE k > 0
  <2>1. Len(c) \in 1 .. Depth(c, k)
    BY <1>4 DEF Depth
  <2>2. StateOf(c, k, Len(c)) # "on"
    BY <1>4 DEF StateOf
  <2>3. QED
    BY <1>1, <1>2, <1>4, <2>1, <2>2
<1>5. QED
  BY <1>3, <1>4

(* The level of an entry of cond that is the innermost. *)
LevelOfEntry(e, k) ==
  [state |-> IF k = 0 THEN "on" ELSE IF e.included THEN "over" ELSE "waiting", inElse |-> e.ctx = "else"]

(* A conditional is added to cond. *)
LEMMA AppendLevel ==
  ASSUME NEW c \in Seq(Entries), NEW e \in Entries, NEW k \in {0, 1}
  PROVE  LevelsOf(Append(c, e), k) = Append(LevelsOf(c, 0), LevelOfEntry(e, k))
<1> DEFINE d == Append(c, e)
           x == LevelOfEntry(e, k)
<1>1. x \in LevelSet
  <2>1. (e.ctx = "else") \in BOOLEAN
    OBVIOUS
  <2>2. QED
    BY <2>1 DEF LevelOfEntry, LevelSet
<1>2. /\ d \in Seq(Entries) /\ Len(d) = Len(c) + 1
      /\ d[Len(c) + 1] = e
      /\ \A i \in 1 .. Len(c) : d[i] = c[i]
  OBVIOUS
<1>3. /\ Depth(c, 0) = Len(c)
      /\ Depth(d, k) = Len(c) + 1
      /\ k \in Nat
  BY <1>2 DEF Depth
<1> HIDE DEF d
<1>4. ASSUME NEW i \in 1 .. Len(c) PROVE LevelOf(d, k, i) = LevelOf(c, 0, i)
  BY <1>2 DEF LevelOf, StateOf
<1>5. LevelOf(d, k, Len(c) + 1) = x
  <2>1. StateOf(d, k, Len(c) + 1) = IF k = 0 THEN "on" ELSE IF e.included THEN "over" ELSE "waiting"
    BY <1>2 DEF StateOf
  <2>2. (Len(c) + 1 <= Len(d) /\ d[Len(c) + 1].ctx = "else") = (e.ctx = "else")
    BY <1>2
  <2>3. QED
    BY <2>1, <2>2 DEF LevelOf, LevelOfEntry
<1> HIDE DEF x
<1>6. /\ LevelsOf(c, 0) \in Seq(LevelSet)
      /\ Len(LevelsOf(c, 0)) = Len(c)
      /\ \A i \in 1 .. Len(c) : LevelsOf(c, 0)[i] = LevelOf(c, 0, i)
  BY <1>3, LevelsFacts
<1>7. /\ Append(LevelsOf(c, 0), x) \in Seq(LevelSet)
      /\ Len(Append(LevelsOf(c, 0), x)) = Len(c) + 1
      /\ \A i \in 1 .. Len(c) : Append(LevelsOf(c, 0), x)[i] = LevelOf(c, 0, i)
      /\ Append(LevelsOf(c, 0), x)[Len(c) + 1] = x
  BY <1>1, <1>6
<1>8. /\ LevelsOf(d, k) \in Seq(LevelSet)
      /\ Len(LevelsOf(d, k)) = Len(c) + 1
      /\ \A i \in 1 .. Len(c) + 1 : LevelsOf(d, k)[i] = LevelOf(d, k, i)
  BY <1>2, <1>3, LevelsFacts
<1>9. \A i \in 1 .. Len(c) + 1 : LevelsOf(d, k)[i] = Append(LevelsOf(c, 0), x)[i]
  BY <1>4, <1>5, <1>7, <1>8
<1>10. LevelsOf(d, k) = Append(LevelsOf(c, 0), x)
  BY <1>7, <1>8, <1>9, SeqEqual
<1>11. QED
  BY <1>10 DEF d, x

(* A conditional is opened in a group that is being skipped, or one opened  *)
(* there is closed.                                                         *)
LEMMA NestedLevel ==
  ASSUME NEW c \in Seq(Entries), c # <<>>, NEW k \in Nat \ {0}
  PROVE  LevelsOf(c, k + 1) = Append(LevelsOf(c, k), [state |-> "dead", inElse |-> FALSE])
<1> DEFINE x == [state |-> "dead", inElse |-> FALSE]
<1>1. x \in LevelSet
  BY DEF LevelSet
<1>2. /\ Depth(c, k + 1) = Depth(c, k) + 1
      /\ Len(c) < Depth(c, k + 1)
      /\ k + 1 \in Nat
      /\ Depth(c, k) \in Nat
  BY DEF Depth
<1>3. ASSUME NEW i \in 1 .. Depth(c, k) PROVE LevelOf(c, k + 1, i) = LevelOf(c, k, i)
  BY DEF LevelOf, StateOf
<1>4. LevelOf(c, k + 1, Depth(c, k) + 1) = x
  <2>1. StateOf(c, k + 1, Depth(c, k) + 1) = "dead"
    BY <1>2 DEF StateOf
  <2>2. (Depth(c, k) + 1 <= Len(c) /\ c[Depth(c, k) + 1].ctx = "else") = FALSE
    BY <1>2
  <2>3. QED
    BY <2>1, <2>2 DEF LevelOf
<1> HIDE DEF x
<1>5. /\ Append(LevelsOf(c, k), x) \in Seq(LevelSet)
      /\ Len(Append(LevelsOf(c, k), x)) = Depth(c, k) + 1
      /\ \A i \in 1 .. Depth(c, k) : Append(LevelsOf(c, k), x)[i] = LevelOf(c, k, i)
      /\ Append(LevelsOf(c, k), x)[Depth(c, k) + 1] = x
  <2>1. /\ LevelsOf(c, k) \in Seq(LevelSet)
        /\ Len(LevelsOf(c, k)) = Depth(c, k)
        /\ \A i \in 1 .. Depth(c, k) : LevelsOf(c, k)[i] = LevelOf(c, k, i)
    BY LevelsFacts
  <2>2. QED
    BY <1>1, <1>2, <2>1
<1>6. /\ LevelsOf(c, k + 1) \in Seq(LevelSet)
      /\ Len(LevelsOf(c, k + 1)) = Depth(c, k) + 1
      /\ \A i \in 1 .. Depth(c, k) + 1 : LevelsOf(c, k + 1)[i] = LevelOf(c, k + 1, i)
  BY <1>2, LevelsFacts
<1>7. \A i \in 1 .. Depth(c, k) + 1 : LevelsOf(c, k + 1)[i] = Append(LevelsOf(c, k), x)[i]
  BY <1>2, <1>3, <1>4, <1>5, <1>6
<1>8. LevelsOf(c, k + 1) = Append(LevelsOf(c, k), x)
  BY <1>5, <1>6, <1>7, SeqEqual
<1>9. QED
  BY <1>8 DEF x

Without(s) == SubSeq(s, 1, Len(s) - 1)

(* Without leaves out the last element and nothing else. *)
LEMMA WithoutFacts ==
  ASSUME NEW S, NEW s \in Seq(S), s # <<>>
  PROVE  /\ Without(s) \in Seq(S)
         /\ Len(Without(s)) = Len(s) - 1
         /\ \A i \in 1 .. Len(s) - 1 : Without(s)[i] = s[i]
<1> DEFINE n == Len(s) - 1
<1>1. /\ n \in Nat
      /\ \A i \in 1 .. n : s[i] \in S
  OBVIOUS
<1> HIDE DEF n
<1>2. /\ SubSeq(s, 1, n) \in Seq(S)
      /\ Len(SubSeq(s, 1, n)) = n
      /\ \A i \in 1 .. n : SubSeq(s, 1, n)[i] = s[i]
  BY <1>1
<1>3. QED
  BY <1>2 DEF Without, n

(* What Append adds, Without takes away. *)
LEMMA WithoutAppended ==
  ASSUME NEW S, NEW s \in Seq(S), NEW x \in S
  PROVE  Without(Append(s, x)) = s
<1>1. /\ Append(s, x) \in Seq(S)
      /\ Len(Append(s, x)) = Len(s) + 1
      /\ Len(s) \in Nat
      /\ \A i \in 1 .. Len(s) : Append(s, x)[i] = s[i] /\ Append(s, x)[i] \in S
  OBVIOUS
<1>2. /\ SubSeq(Append(s, x), 1, Len(s)) \in Seq(S)
      /\ Len(SubSeq(Append(s, x), 1, Len(s))) = Len(s)
      /\ \A i \in 1 .. Len(s) : SubSeq(Append(s, x), 1, Len(s))[i] = s[i]
  BY <1>1
<1>3. SubSeq(Append(s, x), 1, Len(s)) = s
  BY <1>2, SeqEqual
<1>4. QED
  BY <1>1, <1>3 DEF Without

(* The innermost conditional, when it is the one of cond and when it is     *)
(* nested in a skipped group.                                               *)
LEMMA InnermostLevel ==
  ASSUME NEW c \in Seq(Entries), c # <<>>, NEW k \in Nat
  PROVE  /\ LevelsOf(c, k) # <<>>
         /\ k <= 1 => LevelsOf(c, k)[Len(LevelsOf(c, k))] = LevelOf(c, k, Len(c))
         /\ k > 1 => LevelsOf(c, k)[Len(LevelsOf(c, k))] = [state |-> "dead", inElse |-> FALSE]
<1>1. /\ Len(LevelsOf(c, k)) = Depth(c, k)
      /\ \A i \in 1 .. Depth(c, k) : LevelsOf(c, k)[i] = LevelOf(c, k, i)
  BY LevelsFacts
<1>2. /\ Depth(c, k) \in Nat \ {0}
      /\ k <= 1 => Depth(c, k) = Len(c)
      /\ k > 1 => Depth(c, k) > Len(c)
      /\ Len(c) \in Nat
  BY DEF Depth
<1>3. LevelsOf(c, k)[Len(LevelsOf(c, k))] = LevelOf(c, k, Depth(c, k))
  BY <1>1, <1>2
<1>4. ASSUME k > 1 PROVE LevelOf(c, k, Depth(c, k)) = [state |-> "dead", inElse |-> FALSE]
  <2>1. StateOf(c, k, Depth(c, k)) = "dead"
    BY <1>2, <1>4 DEF StateOf
  <2>2. (Depth(c, k) <= Len(c) /\ c[Depth(c, k)].ctx = "else") = FALSE
    BY <1>2, <1>4
  <2>3. QED
    BY <2>1, <2>2 DEF LevelOf
<1>5. LevelsOf(c, k) # <<>>
  <2>1. Len(LevelsOf(c, k)) # 0
    BY <1>1, <1>2
  <2>2. QED
    BY <2>1
<1>6. QED
  BY <1>2, <1>3, <1>4, <1>5

(* The innermost conditional of cond is closed, or moves on to another group. *)
LEMMA PopLevel ==
  ASSUME NEW c \in Seq(Entries), c # <<>>, NEW k \in {0, 1}
  PROVE  /\ Without(c) \in Seq(Entries)
         /\ Len(Without(c)) = Len(c) - 1
         /\ \A i \in 1 .. Len(c) - 1 : Without(c)[i] = c[i]
         /\ LevelsOf(Without(c), 0) = Without(LevelsOf(c, k))
<1>1. /\ Len(c) \in Nat \ {0}
      /\ \A i \in 1 .. Len(c) : c[i] \in Entries
  OBVIOUS
<1>2. /\ Without(c) \in Seq(Entries)
      /\ Len(Without(c)) = Len(c) - 1
      /\ \A i \in 1 .. Len(c) - 1 : Without(c)[i] = c[i]
  BY WithoutFacts
<1>3. Depth(Without(c), 0) = Len(c) - 1 /\ Depth(c, k) = Len(c)
  BY <1>1, <1>2 DEF Depth
<1>4. ASSUME NEW i \in 1 .. Len(c) - 1 PROVE LevelOf(Without(c), 0, i) = LevelOf(c, k, i)
  BY <1>1, <1>2 DEF LevelOf, StateOf
<1>5. k \in Nat
  OBVIOUS
<1>6. /\ LevelsOf(c, k) \in Seq(LevelSet)
      /\ Len(LevelsOf(c, k)) = Len(c)
      /\ \A i \in 1 .. Len(c) : LevelsOf(c, k)[i] = LevelOf(c, k, i)
  BY <1>3, <1>5, LevelsFacts
<1>7. /\ LevelsOf(Without(c), 0) \in Seq(LevelSet)
      /\ Len(LevelsOf(Without(c), 0)) = Len(c) - 1
      /\ \A i \in 1 .. Len(c) - 1 : LevelsOf(Without(c), 0)[i] = LevelOf(Without(c), 0, i)
  <2>1. 0 \in Nat
    OBVIOUS
  <2>2. /\ LevelsOf(Without(c), 0) \in Seq(LevelSet)
        /\ Len(LevelsOf(Without(c), 0)) = Depth(Without(c), 0)
        /\ \A i \in 1 .. Depth(Without(c), 0) : LevelsOf(Without(c), 0)[i] = LevelOf(Without(c), 0, i)
    BY <1>2, <2>1, LevelsFacts, Zenon
  <2>3. QED
    BY <1>3, <2>2, Zenon
<1>8. /\ Without(LevelsOf(c, k)) \in Seq(LevelSet)
      /\ Len(Without(LevelsOf(c, k))) = Len(c) - 1
      /\ \A i \in 1 .. Len(c) - 1 : Without(LevelsOf(c, k))[i] = LevelsOf(c, k)[i]
  <2>1. LevelsOf(c, k) # <<>>
    BY <1>1, <1>6
  <2>2. QED
    BY <1>6, <2>1, WithoutFacts
<1>9. \A i \in 1 .. Len(c) - 1 : LevelsOf(Without(c), 0)[i] = Without(LevelsOf(c, k))[i]
  BY <1>1, <1>4, <1>6, <1>7, <1>8
<1>10. QED
  BY <1>2, <1>7, <1>8, <1>9, SeqEqual

-----------------------------------------------------------------------------
(* The invariant. *)

(* Every conditional in cond has a group that was selected or is in its     *)
(* #else; only while a skip loop runs may the innermost have none yet.      *)
CondOK(c, k) ==
  /\ c \in Seq(Entries)
  /\ k \in Nat
  /\ k > 0 => c # <<>>
  /\ \A i \in DOMAIN c : c[i].ctx = "else" \/ c[i].included \/ (k > 0 /\ i = Len(c))

TablesOK ==
  /\ macros \in [Names -> Bodies \cup {Undef}]
  /\ stacks \in [Names -> Seq(Bodies \cup {Undef})]
  /\ once \subseteq DOMAIN files
  /\ guards \in [DOMAIN files -> Names \cup {Undef}]
  /\ \A h \in DOMAIN files : guards[h] # Undef => guards[h] = DetectIncludeGuard(files[h])

InputOK ==
  /\ Plain(files)
  /\ lines \in Seq(PlainLines(files))
  /\ bol = TRUE

Inv ==
  /\ InputOK
  /\ CondOK(cond, skip)
  /\ TablesOK
  /\ status \in {"run", "done", "error"}

(* The invariant implies what the runs check. *)
LEMMA InvIsTyped == Inv => TypeOK
BY DEF Inv, InputOK, CondOK, TablesOK, TypeOK, Entries

(* What is known of the line being read. *)
LEMMA LineFacts ==
  ASSUME Inv, Running
  PROVE  /\ line \in PlainLines(files)
         /\ Tail(lines) \in Seq(PlainLines(files))
         /\ Dir(line) = line.dir
         /\ HashInMain <=> line.dir # "text"
         /\ HashInSkip <=> line.dir # "text"
         /\ ~Vanishes(line.trail)
         /\ line.dir \in (Directive \ {"line"}) \cup {"text"}
         /\ line.file \in DOMAIN files
         /\ line.dir = "include" => line.arg \in DOMAIN files
         /\ line.dir \in MacroDirective => line.arg \in Names
         /\ line.dir = "define" => line.val \in Bodies
<1>1. lines \in Seq(PlainLines(files)) /\ lines # <<>>
  BY DEF Inv, InputOK, Running
<1>2. line \in PlainLines(files) /\ Tail(lines) \in Seq(PlainLines(files))
  BY <1>1, HeadTailProperties DEF line
<1>3. /\ line.lead = Absent /\ line.trail = Absent
      /\ line.dir \in (Directive \ {"line"}) \cup {"text"}
      /\ line.file \in DOMAIN files
      /\ line.dir = "include" => line.arg \in DOMAIN files
      /\ line.dir \in MacroDirective => line.arg \in Names
      /\ line.dir = "define" => line.val \in Bodies
  BY <1>2 DEF PlainLines
<1>4. bol = TRUE
  BY DEF Inv, InputOK
<1>5. QED
  BY <1>2, <1>3, <1>4 DEF Dir, HashInMain, HashInSkip, Vanishes

(* A conditional is added, or the innermost one removed. *)
LEMMA AppendCond ==
  ASSUME NEW c, CondOK(c, 0), NEW e \in Entries, NEW k \in {0, 1},
         e.ctx = "else" \/ e.included \/ k = 1
  PROVE  CondOK(Append(c, e), k)
<1>1. /\ c \in Seq(Entries)
      /\ \A i \in 1 .. Len(c) : c[i].ctx = "else" \/ c[i].included
  BY DEF CondOK
<1>2. /\ Append(c, e) \in Seq(Entries)
      /\ Len(Append(c, e)) = Len(c) + 1
      /\ DOMAIN Append(c, e) = 1 .. Len(c) + 1
      /\ Append(c, e)[Len(c) + 1] = e
      /\ \A i \in 1 .. Len(c) : Append(c, e)[i] = c[i]
  BY <1>1
<1>3. Append(c, e) # <<>>
  BY <1>1
<1>4. ASSUME NEW i \in 1 .. Len(c) + 1
      PROVE  Append(c, e)[i].ctx = "else" \/ Append(c, e)[i].included \/ (k > 0 /\ i = Len(c) + 1)
  <2>1. CASE i \in 1 .. Len(c)
    BY <1>1, <1>2, <2>1
  <2>2. CASE i = Len(c) + 1
    BY <1>2, <2>2
  <2>3. QED
    BY <1>1, <2>1, <2>2
<1>5. QED
  BY <1>2, <1>3, <1>4 DEF CondOK

LEMMA PopCond ==
  ASSUME NEW c, NEW k, CondOK(c, k), c # <<>>
  PROVE  CondOK(Without(c), 0)
<1>1. /\ c \in Seq(Entries)
      /\ \A i \in 1 .. Len(c) : c[i].ctx = "else" \/ c[i].included \/ i = Len(c)
  BY DEF CondOK
<1>2. /\ Without(c) \in Seq(Entries)
      /\ Len(Without(c)) = Len(c) - 1
      /\ \A i \in 1 .. Len(c) - 1 : Without(c)[i] = c[i]
  BY <1>1, WithoutFacts
<1>3. DOMAIN Without(c) = 1 .. Len(c) - 1 /\ Len(c) \in Nat
  BY <1>1, <1>2, LenProperties
<1>4. ASSUME NEW i \in 1 .. Len(c) - 1 PROVE Without(c)[i].ctx = "else" \/ Without(c)[i].included
  BY <1>1, <1>2, <1>3
<1>5. QED
  BY <1>2, <1>3, <1>4 DEF CondOK

(* The condition of #if, #ifdef and #ifndef, and of #elif and its variants, *)
(* is a truth value.                                                        *)
LEMMA HoldsIsBoolean ==
  ASSUME line.dir \in Opening \cup Elif
  PROVE  Holds(line, macros) \in BOOLEAN
BY DEF Holds, Opening, Elif

(* Reading one line more keeps the input as it should be. *)
LEMMA ConsumeKeepsInput ==
  ASSUME Inv, Running, Consume
  PROVE  InputOK' /\ status' = status /\ files' = files
<1>1. Tail(lines) \in Seq(PlainLines(files))
  BY LineFacts
<1>2. QED
  BY <1>1 DEF Consume, Inv, InputOK

(* The macro table and the stacks keep their types. *)
LEMMA MacroTypes ==
  ASSUME Inv, Running, line.dir \in MacroDirective
  PROVE  /\ NewMacros(line, macros, stacks) \in [Names -> Bodies \cup {Undef}]
         /\ NewStacks(line, macros, stacks) \in [Names -> Seq(Bodies \cup {Undef})]
<1> DEFINE n == line.arg
           B == Bodies \cup {Undef}
<1>1. /\ macros \in [Names -> B]
      /\ stacks \in [Names -> Seq(B)]
  BY DEF Inv, TablesOK
<1>2. /\ n \in Names
      /\ line.dir = "define" => line.val \in Bodies
  BY LineFacts
<1>3. Undef \in B /\ Bodies \subseteq B
  OBVIOUS
<1> HIDE DEF n, B
<1>4. /\ macros[n] \in B
      /\ stacks[n] \in Seq(B)
      /\ stacks[n] # <<>> => Head(stacks[n]) \in B /\ Tail(stacks[n]) \in Seq(B)
      /\ <<macros[n]>> \in Seq(B)
  BY <1>1, <1>2, HeadTailProperties
<1>5. <<macros[n]>> \o stacks[n] \in Seq(B)
  BY <1>4, ConcatProperties
<1>6. NewMacros(line, macros, stacks) \in [Names -> B]
  <2>1. CASE line.dir = "define"
    BY <1>1, <1>2, <1>3, <2>1 DEF NewMacros, n
  <2>2. CASE line.dir = "undef"
    BY <1>1, <1>2, <1>3, <2>2 DEF NewMacros, n
  <2>3. CASE line.dir = "pop_macro" /\ stacks[n] # <<>>
    BY <1>1, <1>2, <1>4, <2>3 DEF NewMacros, n
  <2>4. CASE line.dir \notin {"define", "undef"} /\ ~(line.dir = "pop_macro" /\ stacks[n] # <<>>)
    BY <1>1, <2>4 DEF NewMacros, n
  <2>5. QED
    BY <2>1, <2>2, <2>3, <2>4
<1>7. NewStacks(line, macros, stacks) \in [Names -> Seq(B)]
  <2>1. CASE line.dir = "push_macro"
    BY <1>1, <1>2, <1>5, <2>1 DEF NewStacks, n
  <2>2. CASE line.dir = "pop_macro" /\ stacks[n] # <<>>
    BY <1>1, <1>2, <1>4, <2>2 DEF NewStacks, n
  <2>3. CASE line.dir # "push_macro" /\ ~(line.dir = "pop_macro" /\ stacks[n] # <<>>)
    BY <1>1, <2>3 DEF NewStacks, n
  <2>4. QED
    BY <2>1, <2>2, <2>3
<1>8. QED
  BY <1>6, <1>7 DEF B

(* The entries the handlers write. *)
LEMMA EntryFacts ==
  ASSUME NEW ctx \in Ctx, NEW included \in BOOLEAN
  PROVE  /\ Entry(ctx, included) \in Entries
         /\ Entry(ctx, included).ctx = ctx
         /\ Entry(ctx, included).included = included
BY DEF Entry, Entries

LEMMA TopFacts ==
  ASSUME Inv, cond # <<>>
  PROVE  /\ Top \in Entries
         /\ Top.included \in BOOLEAN
         /\ Top.ctx = "else" \/ Top.included \/ skip > 0
         /\ Popped = Without(cond)
         /\ CondOK(Popped, 0)
<1>1. CondOK(cond, skip)
  BY DEF Inv
<1>2. cond \in Seq(Entries) /\ Len(cond) \in DOMAIN cond
  BY <1>1 DEF CondOK
<1>3. cond[Len(cond)] \in Entries
  BY <1>2
<1>4. Top.included \in BOOLEAN
  BY <1>3 DEF Top, Entries
<1>5. Popped = Without(cond)
  BY DEF Popped, Without
<1>6. QED
  BY <1>1, <1>2, <1>3, <1>4, <1>5, PopCond DEF Top, CondOK

(* The initial state, for well-behaved programs. *)
WellBehaved == \A family \in DOMAIN Programs : \A p \in Programs[family] : Plain(p)

LEMMA InitInv ==
  ASSUME WellBehaved, Init
  PROVE  Inv
<1>1. Plain(files)
  BY DEF WellBehaved, Init
<1>2. files["main"] \in Seq(PlainLines(files))
  BY <1>1 DEF Plain
<1>3. InputOK
  BY <1>1, <1>2 DEF InputOK, Init
<1>4. CondOK(cond, skip)
  BY DEF CondOK, Init
<1>5. TablesOK
  BY DEF TablesOK, Init, NoMacros, NoStacks
<1>6. QED
  BY <1>3, <1>4, <1>5 DEF Inv, Init

(* Every step keeps the invariant. *)
LEMMA NextKeepsInv ==
  ASSUME Inv, [Next]_vars
  PROVE  Inv'
<1>1. CASE PassThrough
  <2>1. Running /\ skip = 0
    BY <1>1 DEF PassThrough
  <2>2. Tail(lines) \in Seq(PlainLines(files)) /\ bol' = TRUE
    BY <1>1, <2>1, LineFacts DEF PassThrough
  <2>3. InputOK'
    BY <1>1, <2>2 DEF PassThrough, Inv, InputOK
  <2>4. QED
    BY <1>1, <2>3 DEF PassThrough, Inv, CondOK, TablesOK, table
<1>2. CASE HandleIf
  <2>1. CASE NoExpression(line, macros)
    BY <1>2, <2>1 DEF HandleIf, Error, Inv, InputOK, CondOK, TablesOK, table
  <2>2. CASE ~NoExpression(line, macros)
    <3> DEFINE e == Entry("then", Holds(line, macros))
    <3>1. Running /\ skip = 0 /\ line.dir \in Opening /\ Consume /\ UNCHANGED table
      BY <1>2, <2>2 DEF HandleIf, InMain
    <3>2. /\ cond' = Append(cond, e)
          /\ skip' = IF Holds(line, macros) THEN 0 ELSE 1
      BY <1>2, <2>2 DEF HandleIf
    <3>3. Holds(line, macros) \in BOOLEAN
      BY <3>1, HoldsIsBoolean
    <3>4. e \in Entries /\ e.included = Holds(line, macros)
      BY <3>3, EntryFacts DEF Ctx
    <3>5. CondOK(cond, 0)
      BY <3>1 DEF Inv
    <3>6. CondOK(cond', skip')
      BY <3>2, <3>3, <3>4, <3>5, AppendCond
    <3>7. InputOK' /\ status' = status /\ files' = files
      BY <3>1, ConsumeKeepsInput
    <3>8. QED
      BY <3>1, <3>6, <3>7 DEF Inv, TablesOK, table
  <2>3. QED
    BY <2>1, <2>2
<1>3. CASE HandleElif
  <2>1. CASE Error
    BY <2>1 DEF Error, Inv, InputOK, CondOK, TablesOK, table
  <2>2. CASE ~Error
    <3> DEFINE taken == ~Top.included /\ Holds(line, macros)
               e == Entry("elif", Top.included \/ taken)
    <3>1. cond # <<>> /\ Running /\ line.dir \in Elif /\ Consume /\ UNCHANGED table
      BY <1>3, <2>2 DEF HandleElif, AtBranch, InMain
    <3>2. /\ cond' = Append(Popped, e)
          /\ skip' = IF taken THEN 0 ELSE 1
      BY <1>3, <2>2 DEF HandleElif
    <3>3. CondOK(Popped, 0) /\ Top.included \in BOOLEAN
      BY <3>1, TopFacts
    <3>4. e \in Entries /\ e.included = (Top.included \/ taken)
      <4>1. (Top.included \/ taken) \in BOOLEAN
        OBVIOUS
      <4>2. QED
        BY <4>1, EntryFacts DEF Ctx
    <3>5. CondOK(cond', skip')
      BY <3>2, <3>3, <3>4, AppendCond
    <3>6. InputOK' /\ status' = status /\ files' = files
      BY <3>1, ConsumeKeepsInput
    <3>7. QED
      BY <3>1, <3>5, <3>6 DEF Inv, TablesOK, table
  <2>3. QED
    BY <2>1, <2>2
<1>4. CASE HandleElse
  <2>1. CASE Error
    BY <2>1 DEF Error, Inv, InputOK, CondOK, TablesOK, table
  <2>2. CASE ~Error
    <3> DEFINE e == Entry("else", Top.included)
    <3>1. cond # <<>> /\ Running /\ Consume /\ UNCHANGED table
      BY <1>4, <2>2 DEF HandleElse, AtBranch, InMain
    <3>2. /\ cond' = Append(Popped, e)
          /\ skip' = IF Top.included THEN 1 ELSE 0
      BY <1>4, <2>2 DEF HandleElse
    <3>3. CondOK(Popped, 0) /\ Top.included \in BOOLEAN
      BY <3>1, TopFacts
    <3>4. e \in Entries /\ e.ctx = "else"
      BY <3>3, EntryFacts DEF Ctx
    <3>5. CondOK(cond', skip')
      BY <3>2, <3>3, <3>4, AppendCond
    <3>6. InputOK' /\ status' = status /\ files' = files
      BY <3>1, ConsumeKeepsInput
    <3>7. QED
      BY <3>1, <3>5, <3>6 DEF Inv, TablesOK, table
  <2>3. QED
    BY <2>1, <2>2
<1>5. CASE HandleEndif
  <2>1. CASE Error
    BY <2>1 DEF Error, Inv, InputOK, CondOK, TablesOK, table
  <2>2. CASE ~Error
    <3>1. cond # <<>> /\ Running /\ Consume /\ UNCHANGED table
      BY <1>5, <2>2 DEF HandleEndif, AtBranch, InMain
    <3>2. cond' = Popped /\ skip' = 0
      BY <1>5, <2>2 DEF HandleEndif
    <3>3. CondOK(cond', skip')
      BY <3>1, <3>2, TopFacts
    <3>4. InputOK' /\ status' = status /\ files' = files
      BY <3>1, ConsumeKeepsInput
    <3>5. QED
      BY <3>1, <3>3, <3>4 DEF Inv, TablesOK, table
  <2>3. QED
    BY <2>1, <2>2
<1>6. CASE SkipLine
  <2>1. Running /\ skip > 0 /\ Consume /\ UNCHANGED table /\ cond' = cond
    BY <1>6 DEF SkipLine
  <2>2. skip \in Nat
    BY DEF Inv, CondOK
  <2>3. skip' \in Nat \ {0}
    <3>1. CASE line.dir \in Opening
      BY <1>6, <2>1, <2>2, <3>1, LineFacts DEF SkipLine, Opening
    <3>2. CASE line.dir = "endif"
      <4>1. skip # 1
        BY <1>6, <2>1, <3>2, LineFacts DEF SkipLine, Conditional, Opening
      <4>2. line.dir \notin Opening /\ HashInSkip
        BY <2>1, <3>2, LineFacts DEF Opening
      <4>3. QED
        BY <1>6, <2>1, <2>2, <3>2, <4>1, <4>2 DEF SkipLine
    <3>3. CASE line.dir \notin Opening \cup {"endif"}
      BY <1>6, <2>1, <2>2, <3>3 DEF SkipLine
    <3>4. QED
      BY <3>1, <3>2, <3>3
  <2>4. CondOK(cond', skip')
    BY <2>1, <2>2, <2>3 DEF Inv, CondOK
  <2>5. InputOK' /\ status' = status /\ files' = files
    BY <2>1, ConsumeKeepsInput
  <2>6. QED
    BY <2>1, <2>4, <2>5 DEF Inv, TablesOK, table
<1>7. CASE HandleMacro
  <2>1. Running /\ line.dir \in MacroDirective /\ Consume
    BY <1>7 DEF HandleMacro, InMain
  <2>2. /\ macros' \in [Names -> Bodies \cup {Undef}]
        /\ stacks' \in [Names -> Seq(Bodies \cup {Undef})]
    BY <1>7, <2>1, MacroTypes DEF HandleMacro
  <2>3. InputOK' /\ status' = status /\ files' = files
    BY <2>1, ConsumeKeepsInput
  <2>4. TablesOK'
    BY <1>7, <2>2, <2>3 DEF HandleMacro, Inv, TablesOK
  <2>5. QED
    BY <1>7, <2>3, <2>4 DEF HandleMacro, Inv, CondOK
<1>8. CASE HandleInclude
  <2> DEFINE h == line.arg
             found == DetectIncludeGuard(files[h])
  <2>1. Running /\ h \in DOMAIN files
    BY <1>8, LineFacts DEF HandleInclude, InMain
  <2>2. CASE Consume /\ UNCHANGED <<guards, once>>
    <3>1. InputOK' /\ status' = status /\ files' = files
      BY <2>1, <2>2, ConsumeKeepsInput
    <3>2. QED
      BY <1>8, <2>2, <3>1 DEF HandleInclude, Inv, CondOK, TablesOK
  <2>3. CASE ~(Consume /\ UNCHANGED <<guards, once>>)
    <3>1. /\ lines' = files[h] \o Tail(lines)
          /\ bol' = TRUE
          /\ guards' = IF found = Undef THEN guards ELSE [guards EXCEPT ![h] = found]
          /\ UNCHANGED <<files, once, status, cond, skip, macros, stacks>>
      BY <1>8, <2>3 DEF HandleInclude
    <3>2. /\ files[h] \in Seq(PlainLines(files))
          /\ found # Undef => found \in Names
      BY <2>1 DEF Inv, InputOK, Plain
    <3>3. Tail(lines) \in Seq(PlainLines(files))
      BY <2>1, LineFacts
    <3>4. lines' \in Seq(PlainLines(files))
      BY <3>1, <3>2, <3>3, ConcatProperties
    <3>5. InputOK'
      BY <3>1, <3>4 DEF Inv, InputOK
    <3> HIDE DEF found
    <3>6. /\ guards' \in [DOMAIN files -> Names \cup {Undef}]
          /\ \A g \in DOMAIN files : guards'[g] # Undef => guards'[g] = DetectIncludeGuard(files[g])
      <4>1. CASE found = Undef
        BY <3>1, <4>1 DEF Inv, TablesOK
      <4>2. CASE found # Undef
        <5>1. guards' = [guards EXCEPT ![h] = found] /\ found \in Names
          BY <3>1, <3>2, <4>2
        <5>2. guards'[h] = DetectIncludeGuard(files[h])
          BY <2>1, <5>1 DEF Inv, TablesOK, found
        <5>3. \A g \in DOMAIN files \ {h} : guards'[g] = guards[g]
          BY <2>1, <5>1 DEF Inv, TablesOK
        <5>4. guards' \in [DOMAIN files -> Names \cup {Undef}]
          BY <2>1, <5>1 DEF Inv, TablesOK
        <5>5. QED
          BY <5>2, <5>3, <5>4 DEF Inv, TablesOK
      <4>3. QED
        BY <4>1, <4>2
    <3>7. TablesOK'
      BY <3>1, <3>6 DEF Inv, TablesOK
    <3>8. QED
      BY <3>1, <3>5, <3>7 DEF Inv, CondOK
  <2>4. QED
    BY <2>2, <2>3
<1>9. CASE HandleOnce
  <2>1. Running /\ Consume
    BY <1>9 DEF HandleOnce, InMain
  <2>2. line.file \in DOMAIN files
    BY <2>1, LineFacts
  <2>3. InputOK' /\ status' = status /\ files' = files
    BY <2>1, ConsumeKeepsInput
  <2>4. QED
    BY <1>9, <2>2, <2>3 DEF HandleOnce, Inv, CondOK, TablesOK
<1>10. CASE HandleLine
  <2>1. Running /\ line.dir = "line"
    BY <1>10 DEF HandleLine, InMain
  <2>2. QED
    BY <2>1, LineFacts
<1>11. CASE HandleError
  BY <1>11 DEF HandleError, Error, Inv, InputOK, CondOK, TablesOK, table
<1>12. CASE EndOfFile
  BY <1>12 DEF EndOfFile, Inv, InputOK, CondOK, TablesOK, table
<1>13. CASE Stopped \/ UNCHANGED vars
  BY <1>13 DEF Stopped, vars, Inv, InputOK, CondOK, TablesOK, table
<1>14. QED
  BY <1>1, <1>2, <1>3, <1>4, <1>5, <1>6, <1>7, <1>8, <1>9, <1>10, <1>11, <1>12, <1>13 DEF Next

-----------------------------------------------------------------------------
(* The refinement. *)

(* The abstract specification reads lines, conditions and the macro table    *)
(* as the preprocessor does.                                                 *)
LEMMA SameReading ==
  /\ C!line = line
  /\ \A l : C!Dir(l) = Dir(l)
  /\ \A l, m : C!Holds(l, m) = Holds(l, m)
  /\ \A l, m : C!NoExpression(l, m) = NoExpression(l, m)
  /\ \A l, m, t : C!NewMacros(l, m, t) = NewMacros(l, m, t)
  /\ \A l, m, t : C!NewStacks(l, m, t) = NewStacks(l, m, t)
<1>1. C!line = line
  BY DEF C!line, line
<1>2. \A l : C!Dir(l) = Dir(l)
  BY DEF C!Dir, Dir, C!Absent, Absent
<1>3. \A l, m : C!Holds(l, m) = Holds(l, m)
  BY DEF C!Holds, Holds, C!Undef, Undef
<1>4. \A l, m : C!NoExpression(l, m) = NoExpression(l, m)
  BY DEF C!NoExpression, NoExpression, C!Empty, Empty
<1>5. \A l, m, t : C!NewMacros(l, m, t) = NewMacros(l, m, t)
  BY DEF C!NewMacros, NewMacros, C!Undef, Undef
<1>6. \A l, m, t : C!NewStacks(l, m, t) = NewStacks(l, m, t)
  BY DEF C!NewStacks, NewStacks
<1>7. QED
  BY <1>1, <1>2, <1>3, <1>4, <1>5, <1>6

(* The levels after a step are those of the new cond and skip. *)
LEMMA LevelsNext == Levels' = LevelsOf(cond', skip')
BY DEF Levels, LevelsOf, LevelOf, StateOf, State, Depth

LEMMA LevelsUnchanged ==
  ASSUME cond' = cond, skip' = skip
  PROVE  Levels' = Levels
BY LevelsMap, LevelsNext

(* Groups are selected when no skip loop runs; the innermost level tells     *)
(* whether a skip loop runs in a nested conditional.                         *)
LEMMA Selecting ==
  ASSUME Inv
  PROVE  C!Selected <=> skip = 0
<1>1. C!Selected <=> (\A i \in DOMAIN Levels : Levels[i].state = "on")
  BY DEF C!Selected
<1>2. CondOK(cond, skip)
  BY DEF Inv
<1>3. QED
  BY <1>1, <1>2, SelectedMeansNotSkipping, LevelsMap DEF CondOK

LEMMA NoLevels ==
  ASSUME Inv
  PROVE  Levels = <<>> <=> cond = <<>>
<1>1. CondOK(cond, skip)
  BY DEF Inv
<1>2. CASE cond = <<>>
  <2>1. skip = 0
    BY <1>1, <1>2 DEF CondOK
  <2>2. Depth(<<>>, 0) = 0
    BY DEF Depth
  <2>3. LevelsOf(<<>>, 0) \in Seq(LevelSet) /\ Len(LevelsOf(<<>>, 0)) = 0
    <3>1. <<>> \in Seq(Entries)
      OBVIOUS
    <3>2. QED
      BY <2>2, <3>1, LevelsFacts
  <2>4. LevelsOf(<<>>, 0) = <<>>
    BY <2>3, EmptySeq
  <2>5. QED
    BY <1>2, <2>1, <2>4, LevelsMap
<1>3. CASE cond # <<>>
  BY <1>1, <1>3, InnermostLevel, LevelsMap DEF CondOK
<1>4. QED
  BY <1>2, <1>3

LEMMA InnermostFacts ==
  ASSUME Inv, cond # <<>>
  PROVE  /\ skip > 1 => C!Innermost = [state |-> "dead", inElse |-> FALSE]
         /\ skip <= 1 => /\ C!Innermost.inElse <=> Top.ctx = "else"
                         /\ C!Innermost.state =
                              IF skip = 0 THEN "on" ELSE IF Top.included THEN "over" ELSE "waiting"
<1>1. CondOK(cond, skip)
  BY DEF Inv
<1>2. C!Innermost = LevelsOf(cond, skip)[Len(LevelsOf(cond, skip))]
  BY LevelsMap DEF C!Innermost
<1>3. cond \in Seq(Entries) /\ skip \in Nat
  BY <1>1 DEF CondOK
<1>4. skip > 1 => C!Innermost = [state |-> "dead", inElse |-> FALSE]
  BY <1>2, <1>3, InnermostLevel
<1>5. ASSUME skip <= 1
      PROVE  /\ C!Innermost.inElse <=> Top.ctx = "else"
             /\ C!Innermost.state =
                  IF skip = 0 THEN "on" ELSE IF Top.included THEN "over" ELSE "waiting"
  <2>1. C!Innermost = LevelOf(cond, skip, Len(cond))
    BY <1>2, <1>3, <1>5, InnermostLevel
  <2>2. C!Innermost.state = StateOf(cond, skip, Len(cond))
    BY <2>1 DEF LevelOf
  <2>3. C!Innermost.inElse = (Len(cond) <= Len(cond) /\ Top.ctx = "else")
    BY <2>1 DEF LevelOf, Top
  <2>4. Len(cond) \in Nat
    BY <1>3
  <2>5. StateOf(cond, skip, Len(cond)) = IF skip = 0 THEN "on" ELSE IF Top.included THEN "over" ELSE "waiting"
    BY <1>3, <2>4 DEF StateOf, Top
  <2>6. Len(cond) <= Len(cond)
    BY <2>4
  <2>7. C!Innermost.inElse = (Top.ctx = "else")
    BY <2>3, <2>6, Zenon
  <2>8. C!Innermost.inElse <=> Top.ctx = "else"
    BY <2>7, Zenon
  <2>9. QED
    BY <2>2, <2>5, <2>8, Zenon
<1>6. QED
  BY <1>4, <1>5

LEMMA ReadingFacts ==
  ASSUME Inv, Running
  PROVE  /\ C!Reading
         /\ C!Dir(C!line) = line.dir
         /\ Consume => C!Read
<1>1. C!Reading
  BY DEF C!Reading, Running
<1>2. C!Dir(C!line) = line.dir
  BY SameReading, LineFacts
<1>3. Consume => C!Read
  BY DEF Consume, C!Read
<1>4. QED
  BY <1>1, <1>2, <1>3

(* error_tok, wherever it is called, is a failure of the specification. *)
LEMMA ErrorFails ==
  ASSUME Error
  PROVE  C!Fail
<1>1. Levels' = Levels
  BY LevelsUnchanged DEF Error
<1>2. QED
  BY <1>1 DEF Error, table, C!Fail

(* An opening directive that is read. *)
LEMMA HandleIfOpens ==
  ASSUME Inv, HandleIf
  PROVE  C!Open
<1>1. Running /\ skip = 0 /\ line.dir \in Opening
  BY DEF HandleIf, InMain
<1>2. /\ C!Reading /\ C!Selected
      /\ C!Dir(C!line) \in C!Opening
      /\ C!line = line
  BY <1>1, ReadingFacts, Selecting, SameReading DEF Opening, C!Opening
<1>3. CASE NoExpression(line, macros)
  <2>1. C!Fail
    BY <1>3, ErrorFails DEF HandleIf
  <2>2. C!NoExpression(C!line, macros)
    BY <1>2, <1>3, SameReading
  <2>3. QED
    BY <1>2, <2>1, <2>2 DEF C!Open
<1>4. CASE ~NoExpression(line, macros)
  <2> DEFINE b == Holds(line, macros)
             e == Entry("then", b)
  <2>1. /\ Consume
        /\ cond' = Append(cond, e)
        /\ skip' = IF b THEN 0 ELSE 1
        /\ UNCHANGED <<table, kept>>
    BY <1>4 DEF HandleIf
  <2>2. b \in BOOLEAN
    BY <1>1, HoldsIsBoolean
  <2>3. e \in Entries /\ e.ctx = "then" /\ e.included = b
    BY <2>2, EntryFacts DEF Ctx
  <2>4. cond \in Seq(Entries)
    BY DEF Inv, CondOK
  <2>5. skip' \in {0, 1}
    BY <2>1
  <2>6. Levels' = Append(Levels, LevelOfEntry(e, skip'))
    BY <1>1, <2>1, <2>3, <2>4, <2>5, AppendLevel, LevelsMap, LevelsNext
  <2>7. LevelOfEntry(e, skip') = [state |-> IF b THEN "on" ELSE "waiting", inElse |-> FALSE]
    <3>1. (e.ctx = "else") = FALSE
      BY <2>3
    <3>2. (IF skip' = 0 THEN "on" ELSE IF e.included THEN "over" ELSE "waiting") = IF b THEN "on" ELSE "waiting"
      BY <2>1, <2>2, <2>3
    <3>3. QED
      BY <3>1, <3>2 DEF LevelOfEntry
  <2> HIDE DEF b, e
  <2>8. Levels' = Append(Levels, C!Level(IF b THEN "on" ELSE "waiting", FALSE))
    BY <2>6, <2>7 DEF C!Level
  <2>9. C!Holds(C!line, macros) = b /\ ~C!NoExpression(C!line, macros)
    BY <1>2, <1>4, SameReading DEF b
  <2>10. C!Read /\ UNCHANGED <<macros, stacks, once, kept>>
    BY <1>1, <2>1, ReadingFacts DEF table
  <2>11. QED
    BY <1>2, <2>8, <2>9, <2>10 DEF C!Open
<1>5. QED
  BY <1>3, <1>4

(* A directive of another group of the innermost conditional: the level is   *)
(* replaced by that of the entry the handler writes.                         *)
LEMMA ReplaceLevel ==
  ASSUME Inv, cond # <<>>, skip \in {0, 1}, NEW e \in Entries,
         cond' = Append(Popped, e), skip' \in {0, 1}
  PROVE  Levels' = Append(C!Outer, LevelOfEntry(e, skip'))
<1>1. /\ cond \in Seq(Entries)
      /\ Popped = Without(cond)
      /\ Popped \in Seq(Entries)
  BY TopFacts DEF Inv, CondOK
<1>2. LevelsOf(Popped, 0) = Without(LevelsOf(cond, skip))
  BY <1>1, PopLevel
<1>3. C!Outer = Without(LevelsOf(cond, skip))
  BY LevelsMap DEF C!Outer, Without
<1>4. LevelsOf(cond', skip') = Append(LevelsOf(Popped, 0), LevelOfEntry(e, skip'))
  BY <1>1, AppendLevel
<1>5. QED
  BY <1>2, <1>3, <1>4, LevelsNext

(* What handle_elif and handle_else find. *)
LEMMA BranchFacts ==
  ASSUME Inv, NEW dirs, dirs \subseteq Elif \cup {"else"}, AtBranch(dirs)
  PROVE  /\ Running /\ skip \in {0, 1} /\ line.dir \in dirs
         /\ C!Reading /\ C!line = line /\ C!Dir(C!line) \in C!Elif \cup {"else"}
         /\ Levels = <<>> <=> cond = <<>>
         /\ cond # <<>> => /\ C!Innermost.inElse <=> Top.ctx = "else"
                           /\ C!Innermost.state =
                                IF skip = 0 THEN "on" ELSE IF Top.included THEN "over" ELSE "waiting"
<1>1. Running /\ skip \in {0, 1} /\ line.dir \in dirs
  BY DEF AtBranch, InMain
<1>2. C!Reading /\ C!line = line /\ C!Dir(C!line) = line.dir
  BY <1>1, ReadingFacts, SameReading
<1>3. C!Elif = Elif
  BY DEF C!Elif, Elif
<1>4. QED
  BY <1>1, <1>2, <1>3, NoLevels, InnermostFacts

LEMMA HandleElifBranches ==
  ASSUME Inv, HandleElif
  PROVE  C!Branch
<1>1. /\ Running /\ skip \in {0, 1} /\ line.dir \in Elif
      /\ C!Reading /\ C!line = line /\ C!Dir(C!line) \in C!Elif \cup {"else"}
      /\ Levels = <<>> <=> cond = <<>>
      /\ cond # <<>> => /\ C!Innermost.inElse <=> Top.ctx = "else"
                        /\ C!Innermost.state =
                             IF skip = 0 THEN "on" ELSE IF Top.included THEN "over" ELSE "waiting"
  BY BranchFacts DEF HandleElif
<1>2. CASE cond = <<>> \/ Top.ctx = "else"
  <2>1. C!Fail
    BY <1>2, ErrorFails DEF HandleElif
  <2>2. Levels = <<>> \/ C!Innermost.inElse
    BY <1>1, <1>2
  <2>3. QED
    BY <1>1, <2>1, <2>2 DEF C!Branch
<1>3. CASE cond # <<>> /\ Top.ctx # "else"
  <2>1. /\ Levels # <<>> /\ ~C!Innermost.inElse
        /\ Top.included \in BOOLEAN
        /\ Top.included \/ skip > 0
    BY <1>1, <1>3, TopFacts
  <2>2. C!Innermost.state = "waiting" <=> ~Top.included
    BY <1>1, <1>3, <2>1
  <2>3. CASE ~Top.included /\ NoExpression(line, macros)
    <3>1. C!Fail
      BY <1>3, <2>3, ErrorFails DEF HandleElif
    <3>2. C!NoExpression(C!line, macros)
      BY <1>1, <2>3, SameReading
    <3>3. QED
      BY <1>1, <2>1, <2>2, <2>3, <3>1, <3>2 DEF C!Branch
  <2>4. CASE ~(~Top.included /\ NoExpression(line, macros))
    <3> DEFINE taken == ~Top.included /\ Holds(line, macros)
               e == Entry("elif", Top.included \/ taken)
               s == IF C!Innermost.state # "waiting" THEN "over"
                    ELSE IF C!Holds(C!line, macros) THEN "on" ELSE "waiting"
    <3>1. /\ Consume
          /\ cond' = Append(Popped, e)
          /\ skip' = IF taken THEN 0 ELSE 1
          /\ UNCHANGED <<table, kept>>
      BY <1>3, <2>4 DEF HandleElif
    <3>2. Holds(line, macros) \in BOOLEAN /\ C!Holds(C!line, macros) = Holds(line, macros)
      BY <1>1, HoldsIsBoolean, SameReading
    <3>3. e \in Entries /\ e.ctx = "elif" /\ e.included = (Top.included \/ taken)
      <4>1. (Top.included \/ taken) \in BOOLEAN
        OBVIOUS
      <4>2. QED
        BY <4>1, EntryFacts DEF Ctx
    <3>4. skip' \in {0, 1}
      BY <3>1
    <3>5. Levels' = Append(C!Outer, LevelOfEntry(e, skip'))
      BY <1>1, <1>3, <3>1, <3>3, <3>4, ReplaceLevel
    <3>6. LevelOfEntry(e, skip') = C!Level(s, FALSE)
      <4>1. (e.ctx = "else") = FALSE
        BY <3>3
      <4>2. (IF skip' = 0 THEN "on" ELSE IF e.included THEN "over" ELSE "waiting") = s
        BY <2>1, <2>2, <3>1, <3>2, <3>3
      <4>3. QED
        BY <4>1, <4>2 DEF LevelOfEntry, C!Level
    <3>7. (C!line.dir = "else") = FALSE
      BY <1>1 DEF Elif
    <3>8. C!Innermost.state # "dead" /\ ~(C!Innermost.state = "waiting" /\ C!NoExpression(C!line, macros))
      BY <1>1, <1>3, <2>2, <2>4, SameReading
    <3>9. C!Read /\ UNCHANGED <<macros, stacks, once, kept>>
      BY <1>1, <3>1, ReadingFacts DEF table
    <3> HIDE DEF e, taken, s
    <3>10. Levels' = Append(C!Outer, C!Level(s, C!line.dir = "else"))
      BY <3>5, <3>6, <3>7
    <3>11. QED
      BY <1>1, <2>1, <3>8, <3>9, <3>10 DEF C!Branch, s
  <2>5. QED
    BY <2>3, <2>4
<1>4. QED
  BY <1>2, <1>3

LEMMA HandleElseBranches ==
  ASSUME Inv, HandleElse
  PROVE  C!Branch
<1>1. /\ Running /\ skip \in {0, 1} /\ line.dir = "else"
      /\ C!Reading /\ C!line = line /\ C!Dir(C!line) \in C!Elif \cup {"else"}
      /\ Levels = <<>> <=> cond = <<>>
      /\ cond # <<>> => /\ C!Innermost.inElse <=> Top.ctx = "else"
                        /\ C!Innermost.state =
                             IF skip = 0 THEN "on" ELSE IF Top.included THEN "over" ELSE "waiting"
  BY BranchFacts DEF HandleElse
<1>2. CASE cond = <<>> \/ Top.ctx = "else"
  <2>1. C!Fail
    BY <1>2, ErrorFails DEF HandleElse
  <2>2. Levels = <<>> \/ C!Innermost.inElse
    BY <1>1, <1>2
  <2>3. QED
    BY <1>1, <2>1, <2>2 DEF C!Branch
<1>3. CASE cond # <<>> /\ Top.ctx # "else"
  <2> DEFINE e == Entry("else", Top.included)
             s == IF C!Innermost.state # "waiting" THEN "over"
                  ELSE IF C!Holds(C!line, macros) THEN "on" ELSE "waiting"
  <2>1. /\ Levels # <<>> /\ ~C!Innermost.inElse
        /\ Top.included \in BOOLEAN
        /\ Top.included \/ skip > 0
    BY <1>1, <1>3, TopFacts
  <2>2. C!Innermost.state = "waiting" <=> ~Top.included
    BY <1>1, <1>3, <2>1
  <2>3. /\ Consume
        /\ cond' = Append(Popped, e)
        /\ skip' = IF Top.included THEN 1 ELSE 0
        /\ UNCHANGED <<table, kept>>
    BY <1>3 DEF HandleElse
  <2>4. C!Holds(C!line, macros) = TRUE
    BY <1>1 DEF C!Holds
  <2>5. ~C!NoExpression(C!line, macros)
    BY <1>1 DEF C!NoExpression
  <2>6. e \in Entries /\ e.ctx = "else" /\ e.included = Top.included
    BY <2>1, EntryFacts DEF Ctx
  <2>7. skip' \in {0, 1}
    BY <2>3
  <2>8. Levels' = Append(C!Outer, LevelOfEntry(e, skip'))
    BY <1>1, <1>3, <2>3, <2>6, <2>7, ReplaceLevel
  <2>9. LevelOfEntry(e, skip') = C!Level(s, TRUE)
    <3>1. (e.ctx = "else") = TRUE
      BY <2>6
    <3>2. (IF skip' = 0 THEN "on" ELSE IF e.included THEN "over" ELSE "waiting") = s
      BY <2>1, <2>2, <2>3, <2>4, <2>6
    <3>3. QED
      BY <3>1, <3>2 DEF LevelOfEntry, C!Level
  <2>10. (C!line.dir = "else") = TRUE
    BY <1>1
  <2>11. C!Innermost.state # "dead"
    BY <1>1, <1>3
  <2>12. C!Read /\ UNCHANGED <<macros, stacks, once, kept>>
    BY <1>1, <2>3, ReadingFacts DEF table
  <2> HIDE DEF e, s
  <2>13. Levels' = Append(C!Outer, C!Level(s, C!line.dir = "else"))
    BY <2>8, <2>9, <2>10
  <2>14. QED
    BY <1>1, <2>1, <2>5, <2>11, <2>12, <2>13 DEF C!Branch, s
<1>4. QED
  BY <1>2, <1>3

LEMMA HandleEndifCloses ==
  ASSUME Inv, HandleEndif
  PROVE  C!Close
<1>1. Running /\ skip \in {0, 1} /\ line.dir = "endif"
  BY DEF HandleEndif, AtBranch, InMain
<1>2. C!Reading /\ C!Dir(C!line) = "endif"
  BY <1>1, ReadingFacts
<1>3. CASE cond = <<>>
  <2>1. C!Fail
    BY <1>3, ErrorFails DEF HandleEndif
  <2>2. QED
    BY <1>2, <1>3, <2>1, NoLevels DEF C!Close
<1>4. CASE cond # <<>>
  <2>1. /\ Consume
        /\ cond' = Popped
        /\ skip' = 0
        /\ UNCHANGED <<table, kept>>
    BY <1>4 DEF HandleEndif
  <2>2. cond \in Seq(Entries) /\ Popped = Without(cond)
    BY <1>4, TopFacts DEF Inv, CondOK
  <2>3. Levels' = C!Outer
    BY <1>1, <1>4, <2>1, <2>2, PopLevel, LevelsMap, LevelsNext DEF C!Outer, Without
  <2>4. C!Read /\ UNCHANGED <<macros, stacks, once, kept>>
    BY <1>1, <2>1, ReadingFacts DEF table
  <2>5. QED
    BY <1>2, <1>4, <2>3, <2>4, NoLevels DEF C!Close
<1>5. QED
  BY <1>3, <1>4

(* An iteration of a skip loop nests, or passes over a line. *)
LEMMA SkipLineSkips ==
  ASSUME Inv, SkipLine
  PROVE  C!Open \/ C!Branch \/ C!Close \/ C!Skip
<1>1. Running /\ skip > 0 /\ Consume /\ cond' = cond /\ UNCHANGED <<table, kept>>
  BY DEF SkipLine
<1>2. /\ cond \in Seq(Entries) /\ cond # <<>>
      /\ skip \in Nat \ {0}
  BY <1>1 DEF Inv, CondOK
<1>3. /\ C!Reading /\ ~C!Selected
      /\ C!Dir(C!line) = line.dir
      /\ C!Read /\ UNCHANGED <<macros, stacks, once, kept>>
  BY <1>1, <1>2, ReadingFacts, Selecting DEF table
<1>4. HashInSkip <=> line.dir # "text"
  BY <1>1, LineFacts
<1>5. CASE line.dir \in Opening
  <2>1. skip' = skip + 1
    BY <1>4, <1>5 DEF SkipLine, Opening
  <2>2. Levels' = Append(Levels, C!Level("dead", FALSE))
    BY <1>1, <1>2, <2>1, NestedLevel, LevelsMap, LevelsNext DEF C!Level
  <2>3. line.dir \in C!Opening
    BY <1>5 DEF Opening, C!Opening
  <2>4. QED
    BY <1>3, <2>2, <2>3 DEF C!Open
<1>6. CASE line.dir \in Elif \cup {"else"}
  <2>1. skip > 1
    BY <1>2, <1>4, <1>6 DEF SkipLine, Conditional, Opening, Elif
  <2>2. skip' = skip
    BY <1>6 DEF SkipLine, Opening, Elif
  <2>3. /\ C!Innermost.state = "dead"
        /\ C!Innermost.inElse = FALSE
        /\ Levels # <<>>
    BY <1>2, <2>1, InnermostFacts, NoLevels
  <2>4. Levels' = Levels
    BY <1>1, <2>2, LevelsUnchanged
  <2>5. line.dir \in C!Elif \cup {"else"}
    BY <1>6 DEF Elif, C!Elif
  <2>6. QED
    BY <1>3, <2>3, <2>4, <2>5 DEF C!Branch
<1>7. CASE line.dir = "endif"
  <2>1. skip - 1 \in Nat \ {0}
    BY <1>2, <1>4, <1>7 DEF SkipLine, Conditional, Opening
  <2>2. line.dir \notin Opening
    BY <1>7 DEF Opening
  <2>3. skip' = skip - 1
    BY <1>4, <1>7, <2>2 DEF SkipLine
  <2>4. LevelsOf(cond, skip - 1 + 1) = Append(LevelsOf(cond, skip - 1), [state |-> "dead", inElse |-> FALSE])
    BY <1>2, <2>1, NestedLevel
  <2>5. skip - 1 + 1 = skip
    BY <1>2
  <2>6. Levels = Append(Levels', [state |-> "dead", inElse |-> FALSE])
    BY <1>1, <2>3, <2>4, <2>5, LevelsMap, LevelsNext
  <2>7. Levels' \in Seq(LevelSet) /\ [state |-> "dead", inElse |-> FALSE] \in LevelSet
    BY <1>1, <1>2, <2>1, <2>3, LevelsFacts, LevelsNext DEF LevelSet
  <2>8. Levels' = C!Outer
    BY <2>6, <2>7, WithoutAppended DEF C!Outer, Without
  <2>9. QED
    BY <1>2, <1>3, <1>7, <2>8, NoLevels DEF C!Close
<1>8. CASE line.dir \notin Conditional
  <2>1. skip' = skip
    BY <1>8 DEF SkipLine, Conditional, Opening
  <2>2. Levels' = Levels
    BY <1>1, <2>1, LevelsUnchanged
  <2>3. C!Dir(C!line) \notin C!Conditional
    BY <1>3, <1>8 DEF Conditional, Opening, Elif, C!Conditional, C!Opening, C!Elif
  <2>4. QED
    BY <1>3, <2>2, <2>3 DEF C!Skip
<1>9. QED
  BY <1>5, <1>6, <1>7, <1>8 DEF Conditional

(* A file that is not read again because its guard is defined is one whose  *)
(* lines would all be skipped.                                              *)
LEMMA HandleIncludeIncludes ==
  ASSUME Inv, HandleInclude
  PROVE  C!Include
<1> DEFINE h == line.arg
           g == guards[h]
<1>1. Running /\ skip = 0 /\ line.dir = "include"
  BY DEF HandleInclude, InMain
<1>2. /\ C!Reading /\ C!Selected /\ C!line = line
      /\ C!Dir(C!line) = "include"
      /\ h \in DOMAIN files
  BY <1>1, ReadingFacts, Selecting, SameReading, LineFacts
<1>3. Levels' = Levels /\ UNCHANGED <<macros, stacks, kept>>
  BY LevelsUnchanged DEF HandleInclude
<1>4. CASE h \in once
  BY <1>1, <1>2, <1>3, <1>4, ReadingFacts DEF HandleInclude, C!Include
<1>5. CASE h \notin once /\ g # Undef /\ macros[g] # Undef
  <2>1. Consume /\ UNCHANGED <<guards, once>>
    BY <1>5 DEF HandleInclude
  <2>2. g = DetectIncludeGuard(files[h])
    BY <1>2, <1>5 DEF Inv, TablesOK
  <2>3. g \in Names /\ C!OneGroup(files[h], g)
    BY <1>2, <1>5, <2>2 DEF Inv, InputOK, Plain
  <2>4. C!Redundant(files[h])
    BY <1>5, <2>3 DEF C!Redundant, C!Undef, Undef
  <2>5. lines' = Tail(lines) /\ UNCHANGED <<files, status>>
    BY <2>1 DEF Consume
  <2>6. QED
    BY <1>2, <1>3, <1>5, <2>1, <2>4, <2>5 DEF C!Include
<1>6. CASE h \notin once /\ ~(g # Undef /\ macros[g] # Undef)
  <2>1. /\ lines' = files[h] \o Tail(lines)
        /\ UNCHANGED <<files, once, status>>
    BY <1>6 DEF HandleInclude
  <2>2. QED
    BY <1>2, <1>3, <1>6, <2>1 DEF C!Include
<1>7. QED
  BY <1>4, <1>5, <1>6

(* Initial states are initial states of the specification. *)
LEMMA InitRefines ==
  ASSUME Inv, Init
  PROVE  C!Init
<1>1. Levels = <<>>
  BY NoLevels DEF Init
<1>2. QED
  BY <1>1 DEF Init, C!Init, NoMacros, C!NoMacros, NoStacks, C!NoStacks, Undef, C!Undef

(* Every step is a step of the specification, or changes none of its        *)
(* variables.                                                               *)
LEMMA NextRefines ==
  ASSUME Inv, [Next]_vars
  PROVE  [C!Next]_(C!vars)
<1>1. CASE PassThrough
  <2>1. Running /\ skip = 0 /\ line.dir = "text"
    BY <1>1, LineFacts DEF PassThrough
  <2>2. /\ C!Reading /\ C!Selected /\ C!line = line
        /\ C!Dir(C!line) = "text"
    BY <2>1, ReadingFacts, Selecting, SameReading
  <2>3. Levels' = Levels
    BY <1>1, LevelsUnchanged DEF PassThrough
  <2>4. C!Keep
    BY <1>1, <2>2, <2>3 DEF PassThrough, table, C!Keep, C!Read
  <2>5. QED
    BY <2>4 DEF C!Next
<1>2. CASE HandleIf
  BY <1>2, HandleIfOpens DEF C!Next
<1>3. CASE HandleElif
  BY <1>3, HandleElifBranches DEF C!Next
<1>4. CASE HandleElse
  BY <1>4, HandleElseBranches DEF C!Next
<1>5. CASE HandleEndif
  BY <1>5, HandleEndifCloses DEF C!Next
<1>6. CASE SkipLine
  BY <1>6, SkipLineSkips DEF C!Next
<1>7. CASE HandleMacro
  <2>1. Running /\ skip = 0 /\ line.dir \in MacroDirective
    BY <1>7 DEF HandleMacro, InMain
  <2>2. /\ C!Reading /\ C!Selected /\ C!line = line
        /\ C!Dir(C!line) \in C!MacroDirective
    BY <2>1, ReadingFacts, Selecting, SameReading DEF MacroDirective, C!MacroDirective
  <2>3. Levels' = Levels /\ C!Read
    BY <1>7, <2>1, ReadingFacts, LevelsUnchanged DEF HandleMacro
  <2>4. /\ macros' = C!NewMacros(C!line, macros, stacks)
        /\ stacks' = C!NewStacks(C!line, macros, stacks)
    BY <1>7, <2>2, SameReading DEF HandleMacro
  <2>5. C!ChangeMacros
    BY <1>7, <2>2, <2>3, <2>4 DEF HandleMacro, C!ChangeMacros
  <2>6. QED
    BY <2>5 DEF C!Next
<1>8. CASE HandleInclude
  BY <1>8, HandleIncludeIncludes DEF C!Next
<1>9. CASE HandleOnce
  <2>1. Running /\ skip = 0 /\ line.dir = "once"
    BY <1>9 DEF HandleOnce, InMain
  <2>2. /\ C!Reading /\ C!Selected /\ C!line = line
        /\ C!Dir(C!line) = "once"
    BY <2>1, ReadingFacts, Selecting, SameReading
  <2>3. Levels' = Levels /\ C!Read
    BY <1>9, <2>1, ReadingFacts, LevelsUnchanged DEF HandleOnce
  <2>4. C!PragmaOnce
    BY <1>9, <2>2, <2>3 DEF HandleOnce, C!PragmaOnce
  <2>5. QED
    BY <2>4 DEF C!Next
<1>10. CASE HandleLine
  <2>1. Running /\ line.dir = "line"
    BY <1>10 DEF HandleLine, InMain
  <2>2. QED
    BY <2>1, LineFacts
<1>11. CASE HandleError
  <2>1. Running /\ skip = 0 /\ line.dir = "error"
    BY <1>11 DEF HandleError, InMain
  <2>2. C!Reading /\ C!Selected /\ C!Dir(C!line) = "error"
    BY <2>1, ReadingFacts, Selecting
  <2>3. C!Fail
    BY <1>11, ErrorFails DEF HandleError
  <2>4. QED
    BY <2>2, <2>3 DEF C!ErrorDirective, C!Next
<1>12. CASE EndOfFile
  <2>1. Levels' = Levels
    BY <1>12, LevelsUnchanged DEF EndOfFile
  <2>2. C!End
    BY <1>12, <2>1, NoLevels DEF EndOfFile, table, C!End
  <2>3. QED
    BY <2>2 DEF C!Next
<1>13. CASE Stopped \/ UNCHANGED vars
  <2>1. UNCHANGED vars
    BY <1>13 DEF Stopped
  <2>2. Levels' = Levels
    BY <2>1, LevelsUnchanged DEF vars
  <2>3. QED
    BY <2>1, <2>2 DEF vars, table, C!vars
<1>14. QED
  BY <1>1, <1>2, <1>3, <1>4, <1>5, <1>6, <1>7, <1>8, <1>9, <1>10, <1>11, <1>12, <1>13 DEF Next

-----------------------------------------------------------------------------
(* The invariant holds of every program of plain lines: the entries of      *)
(* cond_incl, the macro table and the remembered guards are as they should  *)
(* be, and every conditional has had its group.                             *)
THEOREM PreprocessorTyped ==
  ASSUME WellBehaved
  PROVE  Spec => []TypeOK
<1>1. Init => Inv
  BY InitInv
<1>2. Inv /\ [Next]_vars => Inv'
  BY NextKeepsInv
<1>3. QED
  BY <1>1, <1>2, InvIsTyped, PTL DEF Spec

(* The main loop of preprocess2, with its skip loops and its remembered     *)
(* include guards, implements conditional inclusion: for every program of   *)
(* plain lines it passes on the lines of the selected groups, obeys the     *)
(* directives in them, and reports an error when and only when they ask it  *)
(* to.                                                                      *)
THEOREM PreprocessorSelects ==
  ASSUME WellBehaved
  PROVE  Spec => SelectsGroups
<1>1. Init => Inv
  BY InitInv
<1>2. Inv /\ [Next]_vars => Inv'
  BY NextKeepsInv
<1>3. Inv /\ Init => C!Init
  BY InitRefines
<1>4. Inv /\ [Next]_vars => [C!Next]_(C!vars)
  BY NextRefines
<1>5. QED
  BY <1>1, <1>2, <1>3, <1>4, PTL DEF Spec, SelectsGroups, C!Spec
=============================================================================
