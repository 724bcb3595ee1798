------------------------------ MODULE Selection ------------------------------
(***************************************************************************)
(* What conditional inclusion promises: every line is read in turn, and it *)
(* counts when every group it is in is selected.  Of the groups of one     *)
(* conditional at most one is selected, the first whose condition holds;   *)
(* inside a group that is not selected, directives only nest.              *)
(***************************************************************************)
EXTENDS SourceLines

VARIABLES
  files,   \* the files of the program
  rest,    \* the lines still to be read
  levels,  \* the conditionals around the next line, innermost last
  macros,  \* name -> body, or Undef
  stacks,  \* name -> the bodies push_macro saved
  once,    \* files with #pragma once
  kept,    \* the lines of text that were selected
  status   \* "run", then "done" or "error"

vars == <<files, rest, levels, macros, stacks, once, kept, status>>

(* A conditional is on (its current group is selected), waiting (no group   *)
(* was), over (an earlier group was) or dead (nested in a skipped group).   *)
Level(state, inElse) == [state |-> state, inElse |-> inElse]

line == Head(rest)
Selected == \A i \in DOMAIN levels : levels[i].state = "on"
Innermost == levels[Len(levels)]
Outer == SubSeq(levels, 1, Len(levels) - 1)

Reading == status = "run" /\ rest # <<>>

Fail == status' = "error" /\ UNCHANGED <<files, rest, levels, macros, stacks, once, kept>>

Read == rest' = Tail(rest) /\ UNCHANGED <<files, status>>

Init ==
  /\ \E family \in DOMAIN Programs : files \in Programs[family]
  /\ rest = files["main"]
  /\ levels = <<>>
  /\ macros = NoMacros
  /\ stacks = NoStacks
  /\ once = {}
  /\ kept = <<>>
  /\ status = "run"

Open ==
  /\ Reading
  /\ Dir(line) \in Opening
  /\ IF Selected /\ NoExpression(line, macros) THEN Fail
     ELSE /\ Read
          /\ levels' = Append(levels, Level(IF ~Selected THEN "dead"
                                            ELSE IF Holds(line, macros) THEN "on" ELSE "waiting", FALSE))
          /\ UNCHANGED <<macros, stacks, once, kept>>

Branch ==
  /\ Reading
  /\ Dir(line) \in Elif \cup {"else"}
  /\ IF levels = <<>> \/ Innermost.inElse THEN Fail
     ELSE IF Innermost.state = "waiting" /\ NoExpression(line, macros) THEN Fail
     ELSE /\ Read
          /\ levels' = IF Innermost.state = "dead" THEN levels
                       ELSE Append(Outer, Level(IF Innermost.state # "waiting" THEN "over"
                                                ELSE IF Holds(line, macros) THEN "on" ELSE "waiting",
                                                line.dir = "else"))
          /\ UNCHANGED <<macros, stacks, once, kept>>

Close ==
  /\ Reading
  /\ Dir(line) = "endif"
  /\ IF levels = <<>> THEN Fail
     ELSE /\ Read
          /\ levels' = Outer
          /\ UNCHANGED <<macros, stacks, once, kept>>

(* Any other line in a group that is not selected. *)
Skip ==
  /\ Reading
  /\ ~Selected
  /\ Dir(line) \notin Conditional
  /\ Read
  /\ UNCHANGED <<levels, macros, stacks, once, kept>>

Keep ==
  /\ Reading
  /\ Selected
  /\ Dir(line) = "text"
  /\ Read
  /\ kept' = Append(kept, line)
  /\ UNCHANGED <<levels, macros, stacks, once>>

ChangeMacros ==
  /\ Reading
  /\ Selected
  /\ Dir(line) \in MacroDirective
  /\ Read
  /\ macros' = NewMacros(line, macros, stacks)
  /\ stacks' = NewStacks(line, macros, stacks)
  /\ UNCHANGED <<levels, once, kept>>

(* Nothing of file counts when g is defined: it is one #ifndef group.       *)
OneGroup(file, g) ==
  LET Opened(i) == Cardinality({j \in 1 .. i : Dir(file[j]) \in Opening})
      Closed(i) == Cardinality({j \in 1 .. i : Dir(file[j]) = "endif"})
  IN /\ file # <<>>
     /\ Dir(file[1]) = "ifndef" /\ file[1].arg = g
     /\ Dir(file[Len(file)]) = "endif"
     /\ \A i \in 2 .. Len(file) :
          (Dir(file[i]) \in Conditional \ Opening /\ Opened(i) - Closed(i - 1) = 1) <=> i = Len(file)

Redundant(file) == \E g \in Names : OneGroup(file, g) /\ macros[g] # Undef

(* A file read again after #pragma once counts for nothing; one whose lines *)
(* would all be skipped need not be read.                                   *)
Include ==
  /\ Reading
  /\ Selected
  /\ Dir(line) = "include"
  /\ IF line.arg \in once THEN Read
     ELSE /\ \/ rest' = files[line.arg] \o Tail(rest)
             \/ Redundant(files[line.arg]) /\ rest' = Tail(rest)
          /\ UNCHANGED <<files, status>>
  /\ UNCHANGED <<levels, macros, stacks, once, kept>>

PragmaOnce ==
  /\ Reading
  /\ Selected
  /\ Dir(line) = "once"
  /\ Read
  /\ once' = once \cup {line.file}
  /\ UNCHANGED <<levels, macros, stacks, kept>>

(* #line changes nothing that is selected; #error ends the compilation. *)
LineDirective ==
  /\ Reading
  /\ Selected
  /\ Dir(line) = "line"
  /\ Read
  /\ UNCHANGED <<levels, macros, stacks, once, kept>>

ErrorDirective ==
  /\ Reading
  /\ Selected
  /\ Dir(line) = "error"
  /\ Fail

(* A conditional must be closed by the end. *)
End ==
  /\ status = "run"
  /\ rest = <<>>
  /\ status' = IF levels = <<>> THEN "done" ELSE "error"
  /\ UNCHANGED <<files, rest, levels, macros, stacks, once, kept>>

Next ==
  \/ Open \/ Branch \/ Close \/ Skip \/ Keep \/ ChangeMacros
  \/ Include \/ PragmaOnce \/ LineDirective \/ ErrorDirective \/ End

Spec == Init /\ [][Next]_vars
=============================================================================
