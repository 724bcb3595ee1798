----------------------------- MODULE SourceLines -----------------------------
(***************************************************************************)
(* Source files as the preprocessor (preprocess.c) reads them, line by     *)
(* line, and what is common to its model and to its specification.  A file *)
(* is a sequence of lines; main() is the path of the file on the command   *)
(* line.  All operands are strings: names of macros, paths, "0" and "1".   *)
(***************************************************************************)
EXTENDS Integers, Sequences, FiniteSets

CONSTANTS
  Names,    \* macro names
  Programs  \* families of programs, a sequence of sets; a program is a record of files

Undef == "undefined"
Empty == "empty"
Absent == ""

(* arg is a macro name, a path, a number or the text; val is the body a     *)
(* macro is given; lead and trail are macro names before and after the rest *)
(* of the line, and file is the path of the file the line is in.            *)
Line(file, dir, arg, val, lead, trail) ==
  [file |-> file, dir |-> dir, arg |-> arg, val |-> val, lead |-> lead, trail |-> trail]

(* The directive a line is in the source: "#" is its first token. *)
Dir(l) == IF l.lead = Absent THEN l.dir ELSE "text"

Opening == {"if", "ifdef", "ifndef"}
Elif == {"elif", "elifdef", "elifndef"}
Conditional == Opening \cup Elif \cup {"else", "endif"}
MacroDirective == {"define", "undef", "push_macro", "pop_macro"}
Directive == Conditional \cup MacroDirective \cup {"include", "once", "line", "error"}

Bodies == {"0", "1", Empty}
NoMacros == [n \in Names |-> Undef]
NoStacks == [n \in Names |-> <<>>]

(* eval_const_expr, find_macro: the condition of a directive.  A name that   *)
(* is no macro counts as 0; one that expands to nothing is an error.         *)
Holds(line, macros) ==
  CASE line.dir \in {"if", "elif"} -> (IF line.arg \in Names THEN macros[line.arg] ELSE line.arg) = "1"
    [] line.dir \in {"ifdef", "elifdef"} -> macros[line.arg] # Undef
    [] line.dir \in {"ifndef", "elifndef"} -> macros[line.arg] = Undef
    [] line.dir = "else" -> TRUE

NoExpression(line, macros) ==
  line.dir \in {"if", "elif"} /\ line.arg \in Names /\ macros[line.arg] = Empty

(* What #define, #undef, push_macro and pop_macro make of the macro table   *)
(* and of the stacks; popping an empty stack does nothing.                  *)
NewMacros(line, macros, stacks) ==
  LET n == line.arg IN
  CASE line.dir = "define" -> [macros EXCEPT ![n] = line.val]
    [] line.dir = "undef" -> [macros EXCEPT ![n] = Undef]
    [] line.dir = "pop_macro" /\ stacks[n] # <<>> -> [macros EXCEPT ![n] = Head(stacks[n])]
    [] OTHER -> macros

NewStacks(line, macros, stacks) ==
  LET n == line.arg IN
  CASE line.dir = "push_macro" -> [stacks EXCEPT ![n] = <<macros[n]>> \o @]
    [] line.dir = "pop_macro" /\ stacks[n] # <<>> -> [stacks EXCEPT ![n] = Tail(@)]
    [] OTHER -> stacks
=============================================================================
