----------------------------- MODULE Preprocessor -----------------------------
(***************************************************************************)
(* The main loop of the preprocessor (preprocess2 in preprocess.c) and its *)
(* directives: conditional inclusion with its stack and skip loops,        *)
(* #include with #pragma once and remembered include guards, and the macro *)
(* table as far as these depend on it.  An iteration of the main loop over *)
(* the tokens of one line is one action, and so is an iteration of a skip  *)
(* loop over one line.                                                     *)
(*                                                                         *)
(* Tokens remember whether they begin a line (at_bol).  Macro expansion    *)
(* copies that flag to the token that follows an empty expansion, so the   *)
(* flag of the next line's first token is a variable.                      *)
(***************************************************************************)
EXTENDS SourceLines

VARIABLES
  files,   \* the files of the program
  lines,   \* the token list from the current token on, as lines
  bol,     \* at_bol of the first token of lines
  cond,    \* cond_incl, innermost last: [ctx, included]
  skip,    \* 0, or 1 + the conditionals opened since skip_cond_incl began
  macros,  \* macros: name -> body, or Undef
  stacks,  \* macro_stacks
  once,    \* pragma_once
  guards,  \* include_guards: path -> guard name, or Undef
  kept,    \* the lines passed on (history of the output)
  status   \* "run", then "done", or "error" when error_tok ended the process

table == <<macros, stacks, once, guards>>
vars == <<files, lines, bol, cond, skip, table, kept, status>>

line == Head(lines)
Top == cond[Len(cond)]
Popped == SubSeq(cond, 1, Len(cond) - 1)
Entry(ctx, included) == [ctx |-> ctx, included |-> included]

(* A macro that expands to nothing leaves its at_bol to the next token. *)
Vanishes(name) == name # Absent /\ macros[name] = Empty

(* is_hash, in a skip loop and, where leading macros are expanded first, in *)
(* the main loop.                                                           *)
HashInSkip == Dir(line) # "text" /\ bol
HashInMain == line.dir # "text" /\ bol /\ (line.lead = Absent \/ Vanishes(line.lead))

Running == status = "run" /\ lines # <<>>

(* A directive in the main loop.  A skip loop that reaches a branch of the   *)
(* conditional it skips returns to the main loop, which handles it.          *)
InMain(dirs) == Running /\ skip = 0 /\ HashInMain /\ line.dir \in dirs
AtBranch(dirs) == InMain(dirs) \/ (Running /\ skip = 1 /\ HashInSkip /\ line.dir \in dirs)

Error == status' = "error" /\ UNCHANGED <<files, lines, bol, cond, skip, table, kept>>
Consume == lines' = Tail(lines) /\ bol' = TRUE /\ UNCHANGED <<files, status>>

Init ==
  /\ \E family \in DOMAIN Programs : files \in Programs[family]
  /\ lines = files["main"]
  /\ bol = TRUE
  /\ cond = <<>>
  /\ skip = 0
  /\ macros = NoMacros
  /\ stacks = NoStacks
  /\ once = {}
  /\ guards = [p \in DOMAIN files |-> Undef]
  /\ kept = <<>>
  /\ status = "run"

-----------------------------------------------------------------------------
(* Tokens that are no directive: expanded and passed on.  A macro at the    *)
(* end that expands to nothing takes its at_bol to the next line.           *)
PassThrough ==
  /\ Running
  /\ skip = 0
  /\ ~HashInMain
  /\ kept' = Append(kept, line)
  /\ lines' = Tail(lines)
  /\ bol' = IF ~Vanishes(line.trail) THEN TRUE ELSE line.dir = "text" /\ line.arg = Absent /\ bol
  /\ UNCHANGED <<files, cond, skip, table, status>>

(* handle_if, handle_ifdef, handle_ifndef and push_cond_incl *)
HandleIf ==
  /\ InMain(Opening)
  /\ IF NoExpression(line, macros) THEN Error
     ELSE /\ Consume
          /\ cond' = Append(cond, Entry("then", Holds(line, macros)))
          /\ skip' = IF Holds(line, macros) THEN 0 ELSE 1
          /\ UNCHANGED <<table, kept>>

(* handle_elif, handle_elifdef, handle_elifndef *)
HandleElif ==
  /\ AtBranch(Elif)
  /\ IF cond = <<>> \/ Top.ctx = "else" THEN Error
     ELSE IF ~Top.included /\ NoExpression(line, macros) THEN Error
     ELSE LET taken == ~Top.included /\ Holds(line, macros) IN
          /\ Consume
          /\ cond' = Append(Popped, Entry("elif", Top.included \/ taken))
          /\ skip' = IF taken THEN 0 ELSE 1
          /\ UNCHANGED <<table, kept>>

(* handle_else *)
HandleElse ==
  /\ AtBranch({"else"})
  /\ IF cond = <<>> \/ Top.ctx = "else" THEN Error
     ELSE /\ Consume
          /\ cond' = Append(Popped, Entry("else", Top.included))
          /\ skip' = IF Top.included THEN 1 ELSE 0
          /\ UNCHANGED <<table, kept>>

(* handle_endif *)
HandleEndif ==
  /\ AtBranch({"endif"})
  /\ IF cond = <<>> THEN Error
     ELSE /\ Consume
          /\ cond' = Popped
          /\ skip' = 0
          /\ UNCHANGED <<table, kept>>

(* Mutant: the opening of a nested conditional is not counted. *)
SkipLineWithoutNesting ==
  /\ Running
  /\ skip > 0
  /\ ~(HashInSkip /\ skip = 1 /\ line.dir \in Conditional \ Opening)
  /\ Consume
  /\ skip' = skip
  /\ UNCHANGED <<cond, table, kept>>

(* skip_cond_incl, and skip_cond_incl2 for nested conditionals *)
SkipLine ==
  /\ Running
  /\ skip > 0
  /\ ~(HashInSkip /\ skip = 1 /\ line.dir \in Conditional \ Opening)
  /\ Consume
  /\ skip' = CASE HashInSkip /\ line.dir \in Opening -> skip + 1
               [] HashInSkip /\ line.dir = "endif" -> skip - 1
               [] OTHER -> skip
  /\ UNCHANGED <<cond, table, kept>>

-----------------------------------------------------------------------------
(* handle_define, handle_undef and the push_macro and pop_macro pragmas *)
HandleMacro ==
  /\ InMain(MacroDirective)
  /\ Consume
  /\ macros' = NewMacros(line, macros, stacks)
  /\ stacks' = NewStacks(line, macros, stacks)
  /\ UNCHANGED <<once, guards, cond, skip, kept>>

(* The line at which skip_cond_incl, begun at line i, stops. *)
SkipsTo(file, i) ==
  LET Count(dirs, j) == Cardinality({k \in i .. j - 1 : Dir(file[k]) \in dirs})
      stops == {j \in i .. Len(file) : /\ Dir(file[j]) \in Conditional \ Opening
                                       /\ Count(Opening, j) = Count({"endif"}, j)}
  IN IF stops = {} THEN Len(file) + 1 ELSE CHOOSE j \in stops : \A k \in stops : j <= k

(* detect_include_guard: "#ifndef G", "#define G", and an "#endif" at the    *)
(* end of the file that the scan reaches.                                   *)
DetectIncludeGuard(file) ==
  LET Reached[i \in 2 .. Len(file) + 1] ==
        IF i > Len(file) THEN FALSE
        ELSE IF Dir(file[i]) = "endif" /\ i = Len(file) THEN TRUE
        ELSE IF Dir(file[i]) \in Opening THEN Reached[SkipsTo(file, i + 1)]
        ELSE Reached[i + 1]
  IN IF /\ Len(file) >= 2
        /\ Dir(file[1]) = "ifndef"
        /\ Dir(file[2]) = "define" /\ file[2].arg = file[1].arg
        /\ Reached[2]
     THEN file[1].arg ELSE Undef

(* handle_include and include_file, for a file that is found *)
HandleInclude ==
  /\ InMain({"include"})
  /\ LET g == guards[line.arg] IN
     IF line.arg \in once \/ (g # Undef /\ macros[g] # Undef)
     THEN Consume /\ UNCHANGED <<guards, once>>
     ELSE LET found == DetectIncludeGuard(files[line.arg]) IN
          /\ lines' = files[line.arg] \o Tail(lines)
          /\ bol' = TRUE
          /\ guards' = IF found = Undef THEN guards ELSE [guards EXCEPT ![line.arg] = found]
          /\ UNCHANGED <<files, once, status>>
  /\ UNCHANGED <<cond, skip, macros, stacks, kept>>

(* handle_pragma for #pragma once *)
HandleOnce ==
  /\ InMain({"once"})
  /\ Consume
  /\ once' = once \cup {line.file}
  /\ UNCHANGED <<macros, stacks, guards, cond, skip, kept>>

(* read_line_marker calls preprocess, which ends by asking whether every    *)
(* conditional is closed.                                                   *)
HandleLine ==
  /\ InMain({"line"})
  /\ IF cond # <<>> THEN Error ELSE Consume /\ UNCHANGED <<cond, skip, table, kept>>

HandleError == InMain({"error"}) /\ Error

(* The end of preprocess2 and of preprocess. *)
EndOfFile ==
  /\ status = "run"
  /\ lines = <<>>
  /\ status' = IF cond = <<>> THEN "done" ELSE "error"
  /\ UNCHANGED <<files, lines, bol, cond, skip, table, kept>>

Stopped == status # "run" /\ UNCHANGED vars

Next ==
  \/ PassThrough \/ HandleIf \/ HandleElif \/ HandleElse \/ HandleEndif \/ SkipLine
  \/ HandleMacro \/ HandleInclude \/ HandleOnce \/ HandleLine \/ HandleError
  \/ EndOfFile \/ Stopped

Spec == Init /\ [][Next]_vars

-----------------------------------------------------------------------------
(* Lines whose operands fit their directive, that neither begin nor end     *)
(* with a macro of their own and are no #line.                              *)
PlainLines(p) ==
  {l \in [file : DOMAIN p, dir : (Directive \ {"line"}) \cup {"text"}, arg : STRING, val : STRING,
          lead : {Absent}, trail : {Absent}] :
     /\ l.dir = "include" => l.arg \in DOMAIN p
     /\ l.dir \in MacroDirective => l.arg \in Names
     /\ l.dir = "define" => l.val \in Bodies}

-----------------------------------------------------------------------------
(* Properties. *)

Ctx == {"then", "elif", "else"}

(* Every variable in its range.  Every conditional around the current group  *)
(* has its group selected; only of the innermost may no group be yet.        *)
TypeOK ==
  /\ bol \in BOOLEAN
  /\ cond \in Seq([ctx : Ctx, included : BOOLEAN])
  /\ skip \in Nat
  /\ skip > 0 => cond # <<>>
  /\ \A i \in DOMAIN cond : cond[i].ctx = "else" \/ cond[i].included \/ (skip > 0 /\ i = Len(cond))
  /\ macros \in [Names -> Bodies \cup {Undef}]
  /\ stacks \in [Names -> Seq(Bodies \cup {Undef})]
  /\ once \subseteq DOMAIN files
  /\ guards \in [DOMAIN files -> Names \cup {Undef}]
  /\ status \in {"run", "done", "error"}

(* The conditionals as the C standard sees them: those of cond, and those    *)
(* nested in the group that is being skipped.                               *)
State(i) ==
  IF i < Len(cond) \/ skip = 0 THEN "on"
  ELSE IF i > Len(cond) THEN "dead"
  ELSE IF cond[i].included THEN "over" ELSE "waiting"

Levels ==
  [i \in 1 .. Len(cond) + (IF skip = 0 THEN 0 ELSE skip - 1) |->
     [state |-> State(i), inElse |-> i <= Len(cond) /\ cond[i].ctx = "else"]]

C == INSTANCE Selection WITH rest <- lines, levels <- Levels

(* A program of plain lines in which what detect_include_guard finds in a   *)
(* file is the guard of all of it.                                          *)
Plain(p) ==
  /\ "main" \in DOMAIN p
  /\ \A h \in DOMAIN p :
       /\ p[h] \in Seq(PlainLines(p))
       /\ LET g == DetectIncludeGuard(p[h]) IN g # Undef => g \in Names /\ C!OneGroup(p[h], g)

(* "It interprets preprocessor directives while expanding macros"            *)
(* (README.md:101): through nesting, skip loops, included files, remembered  *)
(* guards and errors, exactly the lines conditional inclusion selects are    *)
(* passed on, and exactly the directives it selects take effect.             *)
SelectsGroups == C!Spec

=============================================================================
