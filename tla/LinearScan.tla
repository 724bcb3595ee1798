----------------------------- MODULE LinearScan -----------------------------
(***************************************************************************)
(* regalloc_function as a whole: number the instructions, compute the live *)
(* intervals, sort them, allocate.                                         *)
(*                                                                         *)
(* compute_live_intervals gives each virtual register one interval, from   *)
(* its first mention to its last use in list order, then extends it over   *)
(* the backward branches it is live across.  What RegAlloc takes as its    *)
(* input is here what that pass computes from a function's code, and what  *)
(* comes out is judged against the code: no value is lost before its last  *)
(* use.                                                                    *)
(***************************************************************************)
EXTENDS LLIR, RegAlloc

CONSTANTS
  Menu,     \* the instructions the lowering may emit
  Begun,    \* code it has emitted already when the model starts
  MaxLen    \* bound on the length of a function

ASSUME InputIsCode == Menu \subseteq Insn /\ Begun \subseteq Seq(Insn)

NoPos == -1
MaxLoopIters == 3

VARIABLES
  code,     \* the function's instructions
  defPos,   \* vreg -> def_pos
  lastUse,  \* vreg -> last_use_pos
  scan,     \* "lowering", "mentions", "edges" or "done"
  edges,    \* the list of back edges, <<branch_pos, target_pos>>
  edge,     \* index in edges of the next one to propagate
  round,    \* loop_iter
  changed   \* this round has extended an interval

intervalVars == <<code, defPos, lastUse, scan, edges, edge, round, changed>>

(* mark_vreg_def and mark_vreg_use over the list: an instruction's dst is   *)
(* marked before its sources, and a use that comes first sets def_pos to 0. *)
DefPos(v) ==
  IF Mentions(code, v) = {} THEN NoPos
  ELSE IF First(Mentions(code, v)) \in Defs(code, v) THEN First(Mentions(code, v))
  ELSE 0

(* Mutant: the first use is kept, as the first definition is. *)
LastUseKeepingFirst(v) == IF Uses(code, v) = {} THEN NoPos ELSE First(Uses(code, v))

LastUse(v) == IF Uses(code, v) = {} THEN NoPos ELSE Final(Uses(code, v))

(* Mutant: only insn->label is looked at, which branches do not have. *)
BackEdgesOfJumps ==
  {e \in Positions(code) \X Positions(code) :
     /\ At(code, e[1]).kind = "jmp"
     /\ e[2] < e[1]
     /\ e[2] \in LabelPositions(code, At(code, e[1]).label)}

(* Backward jumps and branches, as <<branch_pos, target_pos>>. *)
BackEdges ==
  {e \in Positions(code) \X Positions(code) :
     /\ e[2] < e[1]
     /\ \E l \in Targets(At(code, e[1])) : e[2] \in LabelPositions(code, l)}

(* The compact edge list, in the order of the branches in the code. *)
EdgeLists ==
  {list \in [1 .. Cardinality(BackEdges) -> BackEdges] :
     /\ \A e \in BackEdges : \E n \in DOMAIN list : list[n] = e
     /\ \A m, n \in DOMAIN list : m < n => list[m][1] <= list[n][1]}

IntervalInit ==
  /\ code \in Begun
  /\ defPos = [v \in VRegs |-> NoPos]
  /\ lastUse = [v \in VRegs |-> NoPos]
  /\ scan = "lowering"
  /\ edges = <<>>
  /\ edge = 1
  /\ round = 0
  /\ changed = FALSE

(* ir_append_insn, called by lower_hlir_function_to_llir with any           *)
(* instruction.                                                             *)
AppendInsn ==
  /\ scan = "lowering"
  /\ Len(code) < MaxLen
  /\ \E insn \in Menu : code' = Append(code, insn)
  /\ UNCHANGED <<defPos, lastUse, scan, edges, edge, round, changed>>

(* The function is complete when it is what a C function lowers to. *)
EndLowering ==
  /\ scan = "lowering"
  /\ \A v \in VRegs : Defs(code, v) # {}
  /\ WellFormed(code) = TRUE
  /\ scan' = "mentions"
  /\ UNCHANGED <<code, defPos, lastUse, edges, edge, round, changed>>

MarkMentions ==
  /\ scan = "mentions"
  /\ defPos' = [v \in VRegs |-> DefPos(v)]
  /\ lastUse' = [v \in VRegs |-> LastUse(v)]
  /\ edges' \in EdgeLists
  /\ scan' = IF BackEdges = {} THEN "done" ELSE "edges"
  /\ round' = 1
  /\ UNCHANGED <<code, edge, changed>>

(* A value that exists before a loop and is used in it lives to its end. *)
CrossesEdge(v, e) ==
  /\ defPos[v] >= 0
  /\ defPos[v] < e[2]
  /\ lastUse[v] >= e[2]
  /\ lastUse[v] < e[1]

(* Mutant: the interval ends just before the branch. *)
PropagateShort ==
  /\ scan = "edges"
  /\ edge \in DOMAIN edges
  /\ lastUse' = [v \in VRegs |-> IF CrossesEdge(v, edges[edge]) THEN edges[edge][1] - 1 ELSE lastUse[v]]
  /\ changed' = (changed \/ \E v \in VRegs : CrossesEdge(v, edges[edge]))
  /\ edge' = edge + 1
  /\ UNCHANGED <<code, defPos, scan, edges, round>>

Propagate ==
  /\ scan = "edges"
  /\ edge \in DOMAIN edges
  /\ lastUse' = [v \in VRegs |-> IF CrossesEdge(v, edges[edge]) THEN edges[edge][1] ELSE lastUse[v]]
  /\ changed' = (changed \/ \E v \in VRegs : CrossesEdge(v, edges[edge]))
  /\ edge' = edge + 1
  /\ UNCHANGED <<code, defPos, scan, edges, round>>

EndOfRound ==
  /\ scan = "edges"
  /\ edge \notin DOMAIN edges
  /\ \/ /\ changed /\ round < MaxLoopIters
        /\ round' = round + 1
        /\ edge' = 1
        /\ UNCHANGED scan
     \/ /\ ~changed \/ round >= MaxLoopIters
        /\ scan' = "done"
        /\ UNCHANGED <<round, edge>>
  /\ changed' = FALSE
  /\ UNCHANGED <<code, defPos, lastUse, edges>>

IntervalNext == AppendInsn \/ EndLowering \/ MarkMentions \/ Propagate \/ EndOfRound

IntervalSpec == IntervalInit /\ [][IntervalNext]_intervalVars

-----------------------------------------------------------------------------
(* Properties of the intervals. *)

IntervalTypeOK ==
  /\ code \in Seq(Insn)
  /\ defPos \in [VRegs -> Positions(code) \cup {NoPos}]
  /\ lastUse \in [VRegs -> Positions(code) \cup {NoPos}]
  /\ scan \in {"lowering", "mentions", "edges", "done"}
  /\ edge \in 1 .. Cardinality(DOMAIN edges) + 1
  /\ round \in 0 .. MaxLoopIters
  /\ changed \in BOOLEAN

(* The interval of a value contains every position where it is needed,      *)
(* along every path the code can take, backward jumps included.             *)
IntervalsCoverLiveness ==
  scan = "done" => \A v \in VRegs : LiveIn(code, v) \subseteq defPos[v] .. lastUse[v]

(* "Propagate loop liveness to a fixed point": the bound of three rounds    *)
(* never cuts the propagation short.  The edges are in branch order, so     *)
(* that an extension only enables later edges and the second round, which   *)
(* changes nothing, is the last.                                            *)
LoopLivenessIsFixed ==
  /\ scan = "done" => \A v \in VRegs, e \in BackEdges : ~CrossesEdge(v, e)
  /\ round < MaxLoopIters

-----------------------------------------------------------------------------
(* The whole of regalloc_function. *)

VARIABLE sorted  \* sorted_vregs, <<>> until it is filled

allocVars == <<def, last, shape, calls, cur, active, used, reg, slot, slots, slotLast,
               busy, spillOffset, frame>>
scanVars == <<intervalVars, sorted, allocVars>>

(* Every value of the function has an interval; the bounds of the two parts *)
(* are the same.                                                            *)
ASSUME ScanFits == /\ IsFiniteSet(VRegs)
                   /\ NumVRegs = Cardinality(VRegs)
                   /\ MaxLen = MaxPos
                   /\ \A c \in Begun : Len(c) <= MaxLen
                   /\ CallSets = SUBSET Pos

ScanInit ==
  /\ IntervalInit
  /\ sorted = <<>>
  /\ def = <<>> /\ last = <<>> /\ shape = <<>> /\ calls = {}
  /\ cur = 1 /\ active = {} /\ used = {}
  /\ reg = [v \in Ranks |-> NoReg]
  /\ slot = [v \in Ranks |-> 0]
  /\ slots = <<>> /\ slotLast = [s \in Ranks |-> NoUse] /\ busy = {}
  /\ spillOffset \in Bases
  /\ frame = <<>>

ComputeIntervals == IntervalNext /\ UNCHANGED <<sorted, allocVars>>

(* compare_vregs_by_def_pos; the addresses that break ties are arbitrary. *)
OrderedByStart(s) ==
  \A i, j \in Ranks : /\ s[i] = s[j] => i = j
                      /\ i < j => defPos[s[i]] <= defPos[s[j]]

(* Mutant: only calls whose result is used count. *)
CallPositionsOfValues == {p \in Positions(code) : At(code, p).kind = "call" /\ At(code, p).dst # None}

(* The LLIR_CALL instructions interval_spans_call looks for. *)
CallPositions == {p \in Positions(code) : At(code, p).kind = "call"}

Sort ==
  /\ scan = "done"
  /\ sorted = <<>>
  /\ sorted' \in {s \in [Ranks -> VRegs] : OrderedByStart(s)}
  /\ def' = [i \in Ranks |-> defPos[sorted'[i]]]
  /\ last' = [i \in Ranks |-> lastUse[sorted'[i]]]
  /\ shape' \in [Ranks -> Shapes]
  /\ calls' = CallPositions
  /\ UNCHANGED <<intervalVars, cur, active, used, reg, slot, slots, slotLast, busy, spillOffset, frame>>

AllocateSorted == sorted # <<>> /\ Next /\ UNCHANGED <<intervalVars, sorted>>

ScanNext == ComputeIntervals \/ Sort \/ AllocateSorted

ScanSpec == ScanInit /\ [][ScanNext]_scanVars

-----------------------------------------------------------------------------
(* Properties. *)

RegOf(v) == reg[CHOOSE i \in Ranks : sorted[i] = v]

(* The end of all this: an instruction never writes over a value that is    *)
(* still to be read, because its result was given the same register.        *)
ResultsClobberNothing ==
  frame # <<>> =>
    \A v \in VRegs : RegOf(v) # NoReg =>
      \A p \in LiveOut(code, v) :
        At(code, p).dst \notin {v, None} => RegOf(At(code, p).dst) # RegOf(v)

(* A call clobbers the scratch registers: no value needed after it, other   *)
(* than its own result, is in one.                                          *)
CallsClobberNothing ==
  frame # <<>> =>
    \A v \in VRegs : RegOf(v) \in Scratch =>
      \A p \in LiveOut(code, v) : At(code, p).kind = "call" => At(code, p).dst = v
=============================================================================
