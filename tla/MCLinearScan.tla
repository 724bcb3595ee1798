---------------------------- MODULE MCLinearScan ----------------------------
(* Every well-formed function of up to ProgLen instructions on two values,  *)
(* and what gen_expr_hlir makes of longer expressions with &&.  Every flow   *)
(* of control among four blocks, and short functions, for the analyses.     *)
EXTENDS LinearScan, Analysis, TLC

CONSTANTS a, b, L1, L2, L3, ProgLen

Plain(kind, dst, srcs) ==
  [kind |-> kind, dst |-> dst, srcs |-> srcs, label |-> None, labelTrue |-> None, labelFalse |-> None]
Op(dst, srcs) == Plain("op", dst, srcs)
Label(l) == [Plain("label", None, {}) EXCEPT !.label = l]
Jmp(l) == [Plain("jmp", None, {}) EXCEPT !.label = l]
BrTrue(srcs, l) == [Plain("br", None, srcs) EXCEPT !.labelTrue = l]
BrFalse(srcs, l) == [Plain("br", None, srcs) EXCEPT !.labelFalse = l]

Emitted ==
  {Op(a, {}), Op(b, {}), Op(b, {a}), Op(None, {a}), Op(None, {b})}
  \cup {Plain("call", None, {}), Plain("call", b, {a})}
  \cup UNION {{Label(l), Jmp(l), BrTrue({}, l)} : l \in {L1, L2}}

(* b + (x && y), in a loop or not, with b read again later or not. *)
And(use) == <<Op(b, {}), BrFalse({}, L1), BrFalse({}, L1), Op(a, {}), Jmp(L2), Label(L1), Op(a, {}), Label(L2), use>>
Lowered ==
  {And(Op(None, {a, b})), And(Op(None, {b})),
   <<Op(b, {}), Label(L3), BrFalse({}, L1), Op(a, {}), Jmp(L2), Label(L1), Op(a, {}), Label(L2), BrTrue({a}, L3), Op(None, {b})>>}

Begins == {<<>>} \cup Lowered

IsLabel(insn, l) == insn.kind = "label" /\ insn.label = l

(* What is missing in code: a value's definition, a jump's label, a label's *)
(* jump.                                                                    *)
Placed == {l \in Labels : \E i \in DOMAIN code : IsLabel(code[i], l)}
Wanted == UNION {Targets(code[i]) : i \in DOMAIN code}
Missing == {v \in VRegs : \A i \in DOMAIN code : code[i].dst # v}
           \cup (Placed \ Wanted) \cup (Wanted \ Placed)

(* What may still become a function of ProgLen instructions: labels and     *)
(* definitions come once each, L1 before L2.                                *)
Promising ==
  \/ code \in Lowered
  \/ /\ Len(code) + Cardinality(Missing) <= ProgLen
     /\ \A i, j \in DOMAIN code : i < j =>
          /\ code[i].dst # None => code[i].dst # code[j].dst
          /\ \A l \in {L1, L2} : ~(IsLabel(code[i], l) /\ IsLabel(code[j], l))
          /\ ~(IsLabel(code[i], L2) /\ IsLabel(code[j], L1))

Scalars == {[float |-> FALSE, mem |-> FALSE, size |-> 4, align |-> 4]}
EveryCallSet == SUBSET Pos
FrameStarts == {20}

-----------------------------------------------------------------------------
(* A block is a label but for the first one, and how it ends. *)
Br(srcs, l, m) == [BrTrue(srcs, l) EXCEPT !.labelFalse = m]
BlockLabels == <<L1, L2, L3>>
Endings ==
  {<<>>, <<Plain("ret", None, {})>>} \cup {<<Jmp(l)>> : l \in Labels} \cup {<<BrTrue({}, l)>> : l \in Labels} \cup {<<BrFalse({}, L3)>>}
    \cup {<<Br({}, L1, L3)>>, <<Br({}, L3, L2)>>, <<Br({}, L2, L1)>>}
FlowOf(ends) == ends[1] \o <<Label(L1)>> \o ends[2] \o <<Label(L2)>> \o ends[3] \o <<Label(L3)>> \o ends[4]
Flows == {FlowOf(<<e>> \o ends) \o <<Op(None, {})>> :
            e \in {<<BrTrue({}, L3)>>, <<Br({}, L3, L2)>>}, ends \in [1 .. 3 -> Endings]}

(* Short functions with calls, in which jumps find their labels. *)
CallArgument == Plain("call", None, {a})
Short ==
  {c \in [1 .. 5 -> {Op(a, {}), Op(b, {a}), Op(None, {b}), CallArgument, Plain("call", b, {}), Label(L1), Jmp(L1), BrTrue({b}, L1)}] :
     c[1] = Op(a, {}) /\ LabelsResolve(c)}
MCAnalyzed == Flows \cup Short

(* The allocator or the analyses, the other without a function. *)
InitEither ==
  \/ ScanInit /\ func = <<>> /\ cfg = <<>> /\ dom = NoTree /\ sweeps = 0 /\ liveness = <<>> /\ changes = 0
  \/ InitAnalysis /\ ScanInit /\ code = <<>>
NextEither ==
  \/ func = <<>> /\ ScanNext /\ UNCHANGED analysisVars
  \/ func # <<>> /\ NextAnalysis /\ UNCHANGED scanVars
SpecEither == InitEither /\ [][NextEither]_<<scanVars, analysisVars>>
=============================================================================
