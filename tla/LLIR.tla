-------------------------------- MODULE LLIR --------------------------------
(***************************************************************************)
(* The low-level intermediate representation of ir/llir.h: a function is a *)
(* list of instructions that read and write virtual registers and transfer *)
(* control to labels.  Operands are kept only as far as control and data   *)
(* flow is concerned: which register an instruction defines, which ones   *)
(* it reads (src1..3, base_reg, index_reg and args alike), where it goes.  *)
(*                                                                         *)
(* Code is a sequence; the instruction at index i has position i - 1.      *)
(***************************************************************************)
EXTENDS Integers, Sequences, FiniteSets

CONSTANTS
  VRegs,   \* the virtual registers of the function
  Labels,  \* names of labels
  None     \* a NULL operand or label

ASSUME NoneIsNothing == None \notin VRegs /\ None \notin Labels

(* "op" is any instruction without control transfer or clobbering. *)
Kinds == {"op", "call", "label", "jmp", "br", "ret"}

Insn == [kind       : Kinds,
         dst        : VRegs \cup {None},
         srcs       : SUBSET VRegs,
         label      : Labels \cup {None},
         labelTrue  : Labels \cup {None},
         labelFalse : Labels \cup {None}]

Positions(code) == 0 .. Len(code) - 1
At(code, p) == code[p + 1]

(* target_labels: the labels a jump or a branch may go to. *)
Targets(insn) ==
  CASE insn.kind = "jmp" -> {insn.label} \ {None}
    [] insn.kind = "br"  -> {insn.labelTrue, insn.labelFalse} \ {None}
    [] OTHER             -> {}

(* A branch with one NULL label goes on with the next instruction. *)
FallsThrough(insn) ==
  CASE insn.kind \in {"jmp", "ret"} -> FALSE
    [] insn.kind = "br" -> None \in {insn.labelTrue, insn.labelFalse}
    [] OTHER -> TRUE

LabelPositions(code, name) ==
  {p \in Positions(code) : At(code, p).kind = "label" /\ At(code, p).label = name}

Successors(code, p) ==
  {q \in {p + 1} : FallsThrough(At(code, p)) /\ q \in Positions(code)}
    \cup UNION {LabelPositions(code, l) : l \in Targets(At(code, p))}

-----------------------------------------------------------------------------
(* Reference definitions: which code is well formed and which values are    *)
(* live.  The compiler has no such computation on the way to the register   *)
(* allocator; the properties measure it against these.                      *)

(* A set of positions, and those that lead to it without writing v. *)
Grow(code, v, live) ==
  live \cup {p \in Positions(code) : At(code, p).dst # v /\ Successors(code, p) \cap live # {}}

(* Grown backwards until nothing is added. *)
Growth(code, v) ==
  LET Grown[live \in SUBSET Positions(code)] ==
        LET more == Grow(code, v, live) IN IF more = live THEN live ELSE Grown[more]
  IN Grown

(* Where v is live on entry: some path reads it before writing it. *)
LiveIn(code, v) == Growth(code, v)[{p \in Positions(code) : v \in At(code, p).srcs}]

LiveOut(code, v) ==
  LET live == LiveIn(code, v) IN {p \in Positions(code) : Successors(code, p) \cap live # {}}

Defs(code, v) == {p \in Positions(code) : At(code, p).dst = v}
Uses(code, v) == {p \in Positions(code) : v \in At(code, p).srcs}
Mentions(code, v) == Defs(code, v) \cup Uses(code, v)

First(S) == CHOOSE p \in S : \A q \in S : p <= q
Final(S) == CHOOSE p \in S : \A q \in S : q <= p

(* Every label is placed once and every jump's label is. *)
LabelsResolve(code) ==
  \A p \in Positions(code) :
    /\ \A l \in Targets(At(code, p)) : LabelPositions(code, l) # {}
    /\ At(code, p).kind = "label" => LabelPositions(code, At(code, p).label) = {p}

(* The lowering emits an operand before its users, and control leaves an    *)
(* expression only to abandon it: in list order too, a value is needed only *)
(* after its first definition.                                              *)
NeededAfterDefined(code, v) ==
  Mentions(code, v) # {} =>
    /\ Defs(code, v) # {}
    /\ \A p \in LiveIn(code, v) : First(Defs(code, v)) < p

(* The value of &&, || or ?: is written once in each of two arms and read   *)
(* after them, and what is computed between is used up in the second arm.   *)
Merged(code, v) ==
  LET d1 == First(Defs(code, v))
      d2 == Final(Defs(code, v))
  IN /\ Defs(code, v) = {d1, d2}
     /\ \A p \in Uses(code, v) : d2 < p
     /\ \A w \in VRegs \ {v} :
          Mentions(code, w) \cap (d1 .. d2) # {} =>
            \/ First(Mentions(code, w)) < d1
            \/ Mentions(code, w) \subseteq d1 .. d2 /\ d2 \notin LiveOut(code, w)

(* The code lower_hlir_function_to_llir produces, as far as the allocator   *)
(* is concerned.                                                            *)
WellFormed(code) ==
  /\ LabelsResolve(code)
  /\ \A v \in VRegs : Cardinality(Defs(code, v)) > 1 => Merged(code, v)
  /\ \A v \in VRegs : NeededAfterDefined(code, v)
=============================================================================
