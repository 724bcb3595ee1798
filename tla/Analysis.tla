------------------------------- MODULE Analysis -------------------------------
(***************************************************************************)
(* The analyses of ir/analysis.c: the control flow graph of a function,    *)
(* its dominator tree, the linear liveness, and the pass context that      *)
(* caches them until a pass reports a change.  The tree is computed by the *)
(* iteration of Cooper, Harvey and Kennedy, which compares the numbers of  *)
(* blocks; here the blocks are numbered in list order, not in reverse      *)
(* postorder.                                                              *)
(*                                                                         *)
(* The passes of the compiler do not ask for these analyses yet; the tests *)
(* under tests/optimizations do.                                           *)
(***************************************************************************)
EXTENDS LLIR

CONSTANTS
  Analyzed,   \* the functions
  MaxChanges  \* bound on the changes passes make

ASSUME AnalyzedResolve == \A c \in Analyzed : c \in Seq(Insn) /\ LabelsResolve(c)
ASSUME MaxChangesIsNat == MaxChanges \in Nat

VARIABLES
  func,     \* the instructions of the function
  cfg,      \* IRPassContext: the graph, a sequence of blocks; <<>> while there is none
  dom,      \* the tree while it is built and after: [state, idom], state "none", "changed" or "settled"
  sweeps,   \* how often the list of blocks has been gone through (history)
  liveness, \* <<>> or <<its record>>
  changes   \* changes_count

analysisVars == <<func, cfg, dom, sweeps, liveness, changes>>

NoTree == [state |-> "none", idom |-> <<>>]

-----------------------------------------------------------------------------
(* ir_build_cfg.  A block begins at the first instruction, at a label and   *)
(* after a terminator; the label of the first instruction is not kept.      *)
IsTerminator(insn) == insn.kind \in {"jmp", "br", "ret"}
Leaders(c) == {i \in DOMAIN c : i = 1 \/ c[i].kind = "label" \/ IsTerminator(c[i - 1])}
BlockStart(c, b) == CHOOSE i \in Leaders(c) : Cardinality({j \in Leaders(c) : j < i}) = b - 1
NumBlocks(c) == Cardinality(Leaders(c))
End(c, b) == IF b = NumBlocks(c) THEN Len(c) ELSE BlockStart(c, b + 1) - 1
BlockLabel(c, b) == IF BlockStart(c, b) # 1 /\ c[BlockStart(c, b)].kind = "label" THEN c[BlockStart(c, b)].label ELSE None

(* bb_add_succ for the first block with that label, if there is a label. *)
Labelled(c, l) ==
  LET S == {b \in 1 .. NumBlocks(c) : l # None /\ BlockLabel(c, b) = l}
  IN {b \in S : \A d \in S : b <= d}
NextBlock(c, b) == {b + 1} \cap (1 .. NumBlocks(c))

(* A branch without a label_false falls through; without a label_true it    *)
(* only jumps.                                                              *)
Succs(c, b) ==
  LET term == c[End(c, b)] IN
  CASE term.kind = "jmp" -> Labelled(c, term.label)
    [] term.kind = "ret" -> {}
    [] term.kind = "br" ->
         Labelled(c, term.labelTrue)
           \cup (IF term.labelFalse # None THEN Labelled(c, term.labelFalse) ELSE NextBlock(c, b))
    [] OTHER -> NextBlock(c, b)

(* What can be reached from the blocks in S along the edges. *)
Follow(succs, S) == S \cup UNION {succs[b] : b \in S}
Closure(succs) ==
  LET Closed[S \in SUBSET DOMAIN succs] == IF Follow(succs, S) = S THEN S ELSE Closed[Follow(succs, S)]
  IN Closed
Reach(succs, S) == Closure(succs)[S]

(* The list of predecessors is in the order of the blocks. *)
ir_build_cfg(c) ==
  LET blocks == 1 .. NumBlocks(c)
      succs == [b \in blocks |-> Succs(c, b)]
      reached == Reach(succs, {1})
  IN [b \in blocks |-> [succs |-> succs[b], preds |-> {p \in blocks : b \in succs[p]}, reachable |-> b \in reached]]

-----------------------------------------------------------------------------
(* ir_build_dom_tree.  idom is 0 for a block that is not processed yet, and *)
(* the entry's is the entry.                                                *)
Up(idom, b) == IF idom[b] = b THEN 0 ELSE idom[b]

(* The two fingers climb until they meet; one that climbs off the tree      *)
(* makes it the entry.                                                      *)
Fingers(idom) ==
  LET Tree == {0} \cup DOMAIN idom
      Meet[at \in Tree \X Tree] ==
        LET f == at[1]
            g == at[2]
        IN IF f = 0 \/ g = 0 THEN 1
           ELSE IF f = g THEN f
           ELSE IF f > g THEN Meet[<<Up(idom, f), g>>]
           ELSE Meet[<<f, Up(idom, g)>>]
  IN Meet
Intersect(idom, b, c) == Fingers(idom)[<<b, c>>]

LowestOf(S) == CHOOSE b \in S : \A d \in S : b <= d

(* Mutant: the first processed predecessor is taken for all of them. *)
FirstPredecessor(graph, idom, b) ==
  LET processed == {p \in graph[b].preds : idom[p] # 0}
  IN IF processed = {} THEN 0 ELSE LowestOf(processed)

(* The new idom of a block: the first processed predecessor intersected     *)
(* with those after it, in order.                                           *)
Intersected(idom) ==
  LET Over[at \in (SUBSET DOMAIN idom) \X DOMAIN idom] ==
        LET p == LowestOf(at[1])
        IN IF at[1] = {} THEN at[2]
           ELSE Over[<<at[1] \ {p}, IF p = at[2] THEN p ELSE Intersect(idom, p, at[2])>>]
  IN Over
NewIdom(graph, idom, b) ==
  LET processed == {p \in graph[b].preds : idom[p] # 0}
  IN IF processed = {} THEN 0 ELSE Intersected(idom)[<<processed, LowestOf(processed)>>]

(* One round over the list; later blocks see what earlier ones were given. *)
Processed(graph, idom, b) ==
  LET new == IF b = 1 \/ ~graph[b].reachable THEN 0 ELSE NewIdom(graph, idom, b)
  IN IF new = 0 THEN idom ELSE [idom EXCEPT ![b] = new]
Sweep(graph, idom) ==
  LET After[b \in DOMAIN graph] == Processed(graph, IF b = 1 THEN idom ELSE After[b - 1], b)
  IN After
Swept(graph, idom) == Sweep(graph, idom)[Len(graph)]

(* ir_dom_dominates: a is on b's way up the tree. *)
Climbing(idom, a) ==
  LET Climbs[c \in DOMAIN idom] == c = a \/ (Up(idom, c) # 0 /\ Climbs[Up(idom, c)])
  IN Climbs
ir_dom_dominates(idom, a, b) == Climbing(idom, a)[b]

(* dom_depth *)
Depths(idom) ==
  LET Depth[c \in DOMAIN idom] == IF Up(idom, c) = 0 THEN 0 ELSE 1 + Depth[Up(idom, c)]
  IN Depth
DomDepth(idom, b) == Depths(idom)[b]

-----------------------------------------------------------------------------
(* ir_compute_liveness, in list order; a position that is not set is -1.    *)
(* What is read after a call and was mentioned before it is live across it, *)
(* unless it is read as an argument of a call.                              *)
ir_compute_liveness(c) ==
  LET firstOf(v) == First(Mentions(c, v))
      operands(v) == {p \in Uses(c, v) : At(c, p).kind # "call"}
      across(v, p) == \E q \in Positions(c) : At(c, q).kind = "call" /\ firstOf(v) < q /\ q <= p
      mentioned == {v \in VRegs : Mentions(c, v) # {}}
  IN [def |-> [v \in VRegs |-> IF v \in mentioned THEN firstOf(v) ELSE -1],
      last |-> [v \in VRegs |-> IF v \in mentioned THEN Final(Mentions(c, v)) ELSE -1],
      across |-> [v \in VRegs |-> v \in mentioned /\ \E p \in operands(v) : across(v, p)]]

-----------------------------------------------------------------------------
InitAnalysis ==
  /\ func \in Analyzed
  /\ cfg = <<>> /\ dom = NoTree /\ sweeps = 0 /\ liveness = <<>> /\ changes = 0

(* ir_get_or_build_cfg: what is cached is returned as it is. *)
GetCfg ==
  /\ dom.state # "changed"
  /\ cfg' = IF cfg = <<>> THEN ir_build_cfg(func) ELSE cfg
  /\ UNCHANGED <<func, dom, sweeps, liveness, changes>>

BeginDomTree ==
  /\ cfg # <<>> /\ dom = NoTree
  /\ dom' = [state |-> "changed", idom |-> [b \in DOMAIN cfg |-> IF b = 1 THEN 1 ELSE 0]]
  /\ sweeps' = 0
  /\ UNCHANGED <<func, cfg, liveness, changes>>

(* Mutant: a block counts as changed whenever it is given an idom, even the *)
(* one it has.                                                              *)
SweepWithoutComparing ==
  /\ dom.state = "changed"
  /\ dom' = [dom EXCEPT !.idom = Swept(cfg, dom.idom)]
  /\ sweeps' = sweeps + 1
  /\ UNCHANGED <<func, cfg, liveness, changes>>

SweepBlocks ==
  /\ dom.state = "changed"
  /\ LET idom == Swept(cfg, dom.idom)
     IN dom' = [state |-> IF idom = dom.idom THEN "settled" ELSE "changed", idom |-> idom]
  /\ sweeps' = sweeps + 1
  /\ UNCHANGED <<func, cfg, liveness, changes>>

GetLiveness ==
  /\ liveness = <<>> /\ dom.state # "changed"
  /\ liveness' = <<ir_compute_liveness(func)>>
  /\ UNCHANGED <<func, cfg, dom, sweeps, changes>>

(* A pass removes an instruction, reports the change, and the pass manager  *)
(* invalidates what is cached: ir_pass_manager_run_function,                *)
(* ir_invalidate_analyses.  No pass runs while a tree is being built.       *)
PassChanges ==
  /\ dom.state = "settled" /\ changes < MaxChanges
  /\ \E i \in DOMAIN func :
       /\ func[i].kind # "label"
       /\ func' = [j \in 1 .. Len(func) - 1 |-> func[IF j < i THEN j ELSE j + 1]]
  /\ cfg' = <<>> /\ dom' = NoTree /\ sweeps' = 0 /\ liveness' = <<>> /\ changes' = changes + 1

NextAnalysis == GetCfg \/ BeginDomTree \/ SweepBlocks \/ GetLiveness \/ PassChanges

AnalysisSpec == InitAnalysis /\ [][NextAnalysis]_analysisVars

-----------------------------------------------------------------------------
(* What the graph is right for: code in which a branch has a label_true.    *)
BranchesJumpWhenTrue == \A i \in DOMAIN func : func[i].kind = "br" => func[i].labelTrue # None

(* Two blocks follow each other when the last instruction of one may be     *)
(* followed by the first of the other; what jumps to the head is lost.      *)
GraphIsFlow ==
  LET leaders == Leaders(func)
      blockAt == [i \in DOMAIN func |-> Cardinality({j \in leaders : j <= i})]
      flow == UNION {{<<p + 1, q + 1>> : q \in Successors(func, p)} : p \in Positions(func)}
      within == {e \in flow : e[2] = e[1] + 1 /\ blockAt[e[2]] = blockAt[e[1]]}
      graph == UNION {{<<b, d>> : d \in cfg[b].succs} : b \in DOMAIN cfg}
  IN /\ Len(cfg) = Cardinality(leaders)
     /\ {<<blockAt[e[1]], blockAt[e[2]]>> : e \in {f \in flow \ within : f[2] # 1}} = graph
     /\ \A e \in flow \ within : e[2] \in leaders
     /\ graph = UNION {{<<p, b>> : p \in cfg[b].preds} : b \in DOMAIN cfg}

(* a is on every path from the entry to b. *)
OnEveryPath(a, b) ==
  a = b \/ b \notin Reach([x \in DOMAIN cfg |-> IF x = a THEN {} ELSE cfg[x].succs \ {a}], {1} \ {a})

(* Nothing is taken for a dominator that is not one.  A block that is listed *)
(* before its dominators may be given a higher idom than its own, since the  *)
(* fingers compare the places in the list; otherwise the tree is exact.      *)
TreeIsDominance ==
  LET reachable == {b \in DOMAIN cfg : cfg[b].reachable}
      Dominators == [b \in reachable |-> {a \in reachable : OnEveryPath(a, b)}]
      listedInOrder == \A b \in reachable : \A a \in Dominators[b] : a <= b
  IN \A b \in reachable :
       LET found == {a \in reachable : ir_dom_dominates(dom.idom, a, b)}
       IN /\ found \subseteq Dominators[b]
          /\ listedInOrder => found = Dominators[b]
          /\ DomDepth(dom.idom, b) = Cardinality(found) - 1

ForwardOnly == \A p \in Positions(func) : \A q \in Successors(func, p) : p < q

LivenessCovers ==
  LET l == liveness[1] IN
  \A v \in VRegs :
    /\ \A p \in LiveIn(func, v) : (\E d \in Defs(func, v) : d < p) => l.def[v] < p /\ p <= l.last[v]
    /\ (\E p \in LiveOut(func, v), d \in Defs(func, v) : At(func, p).kind = "call" /\ d < p)
         /\ (\A p \in Uses(func, v) : At(func, p).kind # "call")
       => l.across[v]
    /\ l.across[v] => \E p \in Positions(func) : At(func, p).kind = "call" /\ l.def[v] < p /\ p <= l.last[v]

(* What is cached is about the function as it is now: the graph has the      *)
(* edges control may take, every path leads through what the tree has as a   *)
(* dominator, and the linear liveness covers where values are live as long   *)
(* as control goes forward.  ir_build_cfg, ir_build_dom_tree,                *)
(* ir_dom_dominates, ir_compute_liveness, ir_invalidate_analyses.            *)
AnalysesAgreeWithPaths ==
  /\ cfg # <<>> /\ BranchesJumpWhenTrue => GraphIsFlow
  /\ dom.state = "settled" => TreeIsDominance
  /\ liveness # <<>> /\ ForwardOnly => LivenessCovers

(* The tree settles, and after no more rounds than there are blocks and one  *)
(* that changes nothing, although a block may be given an idom that is not   *)
(* above the one it had.  The loop over changed of ir_build_dom_tree.        *)
SweepsSettle == sweeps <= Len(cfg) + 1
=============================================================================
