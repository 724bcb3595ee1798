# A specification of chibicc

This directory specifies the C compiler in `src/` (a fork of chibicc with an
optimizing back end of its own) in TLA+. TLC checks the modules on small
instances; TLAPS proves the results of section 5 for all instances.
`PROJECT.json` ties the definitions to the lines they model (a helper of a line or
two has no entry where that of a definition which uses it covers its lines), and
every hazard to the properties that would catch it.

## 1. The system

A compilation is one process per source file (`main.c` forks `-cc1`), and inside
it one pass after the other over data the earlier pass built:

    tokenize.c -> preprocess.c -> parse.c + type.c -> ir/hlir.c -> ir/hlir_opt*.c
      -> ir/ir.c (lowering) -> ir/pass_manager.c: ir/opt_*.c
      -> ir/regalloc.c -> codegen/<target>  (calls and frames: abi/<abi>)

There are no threads and, except for the driver's child processes, no
concurrency. What is hard is elsewhere: long sequences of legal calls (a name
table after many insertions and deletions, an allocator after many evictions),
facts computed once and used after the program they describe was rewritten
(optimizer, spill slots), fixed points cut off by a bound, decisions made several
times over that must come out the same (where an argument goes, what an option
means to the driver and to its child), and arithmetic at the edge of a type's
width.

| Component | State it keeps | Operations | What makes it correct |
|---|---|---|---|
| driver (`main.c`) | option lists, temporary files, children | parse arguments, cc1, assemble, link | exit status reflects every child; no temporary file is left; stages read complete files; the child reads the command line as its parent did |
| hash map (`hashmap.c`) | buckets, `used`, capacity | put, get, delete, rehash | a name put and not deleted is found with its last value; probing ends |
| tokenizer (`tokenize.c`, `unicode.c`) | current file, line flags | normalize, tokenize, number lines, convert, join | each character belongs to one token; lines survive splicing; constants and strings have the standard's type |
| preprocessor (`preprocess.c`) | macro table, conditional stack, include guards, `#pragma once`, push/pop stacks | one handler per directive, macro expansion | the active group is the first true one; a skipped file would have contributed nothing; expansion ends and is the standard's |
| parser (`parse.c`), types (`type.c`) | scopes, current function, switch, goto and label lists, globals | declarations, statements, expressions, initializers, struct layout, constant evaluation | the tree means what C says; layout follows the ABI; only unreachable static inline functions are dropped |
| HLIR lowering (`ir/hlir.c`) and optimizer (`ir/hlir_opt*.c`) | instruction list, current function | one case per AST node; seven passes and inlining | behaviour preserved; the loop over passes ends; the shape the allocator assumes |
| LLIR lowering (`ir/ir.c`) | instruction list, vreg table | append, remove, insert before; one case per HLIR instruction | the same |
| LLIR optimizer (`ir/opt_*.c`, `ir/pass_manager.c`) | the list, `def_insn` pointers, pass flags | copy propagation, peephole, control flow, dead code, verifier, legalization | behaviour preserved; fixed point reached |
| analysis engine (`ir/analysis.c`) | graph, dominator tree and linear liveness, cached in the pass context | build, invalidate; no pass asks for it yet, only tests do | agrees with the paths of the function as it is now |
| register allocator (`ir/regalloc.c`) | intervals, active list, register flags, slot table, frame size | interval computation; expire, assign, evict, spill | no register holds two live values; a slot is taken from dead ones; calls clobber nothing live |
| code generators (`codegen/`) | materialization table, `cached_rax_vreg`, text | one case per LLIR instruction | the text does what the LLIR does |
| ABI back ends (`abi/`) | classification, argument cursors | classify, place locals, prologue, call, return, `va_arg` | caller and callee agree on where every argument is |

Interactions that matter: every name table is a hash map, and the macro table is
the only one names are deleted from. Lowering promises the optimizer and the
allocator a shape (labels defined once, values of `&&`, `||` and `?:` written in
two arms and read after both, everything else written once; `ir/hlir.c:592-727`);
each pass must keep it; the allocator computes intervals from list order because
of it. The pass manager iterates on what passes say they changed. The code
generator trusts `phys_reg` and `spill_slot`.

## 2. Modules

| Module | Models | How |
|---|---|---|
| `Driver` | `main`, `run_subprocess`, `cleanup` and the three programs it starts | one action per step of the loop over inputs, of the wait loop and of the `atexit` handler, and per step of a child: start, read, write, finish, fail, be killed. Environments (an inherited child, ignored `SIGCHLD`, a full disk, no `fork`) are constants |
| `Options` | `parse_args`, the pass registry, the choice of target and ABI, the types and macros each ABI gives | one argument is one action, `NextOption`; the driver's parse is followed by that of the compiler it starts |
| `HashMap` | `hashmap.c` | one action per operation: `Put`, `PutRehashing` (rehash first, and its assertion), `Delete`; `Get` is an operator. The capacity is the initial one doubled any number of times, on which `& mask` rests. `contents` is a history variable: what the callers believe the table holds |
| `Tokenizer` | `tokenize_file` with all its passes, `convert_pp_tokens`, the joining of strings | an iteration of each loop over the text is one action; the text is a sequence of bytes |
| `SourceLines` | source lines, the macro table and conditions (`eval_const_expr`) | shared by the next two |
| `Selection` | (abstract) conditional inclusion as the C standard has it, line by line | one stack of conditionals, each on, waiting, over or dead |
| `Preprocessor` | the loop of `preprocess2` with its directives | one iteration over a line is one action; `cond` and `skip` are `cond_incl` and the skip loops, mapped to the stack of `Selection` by `Levels` |
| `Macros` | `expand_macro`, `read_macro_args`, `subst` | the calls in progress are a stack of frames; one token handled is one action. Its first section is (abstract) macro replacement as the C standard has it: rescanning with disabled names, where a text means the set of results the standard allows |
| `Embed` | `#embed`, `__has_embed`, `search_include_paths` and its cache, `search_include_next` | a directive or a search is one action, on a small set of directories and files |
| `Trees` | `struct Node` as the parser hands it over | what an expression or a statement does: the contract of everything behind the parser |
| `CTypes` | `type.c`, struct and union layout | types as records, `add_type` |
| `Declarations` | the parser's state, specifiers, declarators, structs and enums | an operator per function of `parse.c`, from a parser state to a parser state |
| `Expressions` | expressions and constant evaluation | the same |
| `FrontEnd` | initializers, statements, functions, globals, `mark_live`, tentative definitions | the same; one external declaration is one action |
| `CMeaning` | (abstract) a part of C: how it is written and what it means | what `FrontEnd` is measured against; it sees no token, label or type of the parser |
| `LLIRSemantics` | `ir/llir.h` with operands and what `codegen/x86_64` makes of each instruction | an interpreter: `Step`, `OutcomeUnder`. The reference passes are measured against |
| `HLIRPasses` | HLIR (`ir/hlir.h`), its lowering and every pass of its optimizer | each pass an operator from a function to the rewritten function |
| `MiddleEnd` | `ast_to_hlir`, `hlir_optimize`, `hlir_to_llir` | generation as operators from a generator state to the next; one pass is one action |
| `LLIRPasses` | copy propagation, control flow, dead code, legalization | each pass an operator |
| `Optimizer` | the peephole optimizer and `llir_optimize`, the pass manager's loop | `RunPass`, `NextIteration`, `EndOfLoop`, `LegalizeIsel` |
| `LLIR` | `ir/llir.h`, control and data flow only | instructions as records, successors, reference liveness (`LiveIn`), and `WellFormed`, the shape lowering produces |
| `Analysis` | the control flow graph, dominator tree and linear liveness of `ir/analysis.c` and their cache in the pass context | asking for each is an action, a round over the blocks is one, and so is a pass that changes the function; on the instructions of `LLIR` |
| `RegAlloc` | `regalloc_function` from the sorted intervals on | one iteration of its loop is one action, by outcome: `TakeRegister`, `EvictActive`, `SpillCurrent`, each including the expiry of intervals and slots that precedes it; `Finish` computes the callee-saved mask and frame size. Initial states are all lists of intervals |
| `LinearScan` | `regalloc_function` as a whole: `compute_live_intervals`, the sort and the allocation; lowering as the append of any instruction | `AppendInsn`, `EndLowering`, `MarkMentions`, then one `Propagate` per backward edge and `EndOfRound` per round of the bounded fixed point; what they compute is sorted (`Sort`) and given to `RegAlloc` |
| `CodeGen` | `codegen/x86_64/x86_64.c`: what is never computed on its own, the cached register, the text of each instruction | printing an instruction is one action, with the `xor` of a `main` (`EndOfText`) before the epilogue; then `Run` executes text and LLIR in step |
| `CallConv` | a call under the System V convention: `sysv64_emit_call` in the caller, `sysv64_assign_lvar_offsets`, `sysv64_emit_prologue` and `sysv64_builtin_va_arg` in the callee | one iteration of each of their seven loops is one action, in the order of execution. An argument is a set of eightbytes, and a register or stack slot holds the name of the eightbyte stored in it. The low byte of the callee's `%rbp` is part of a call: with it the prologue's two `lea` give the byte its `test %al` sees (`SaveAreaByte`) |
| `Win64` | a call under the Microsoft x64 convention, from the caller's registers to the result | a group of emitted instructions is one action, on a byte-addressed memory; `Laid` is what `win64_assign_lvar_offsets` puts below `%rbp`, `Bottom` where its running `bottom` stands after each |
| `...Proof` | | the theorems of section 5 |
| `MC...` | | instances for TLC |

How the modules compose: `LinearScan` extends `LLIR` and `RegAlloc` and runs the
computation of the intervals before the allocation; `MiddleEnd` extends `HLIRPasses` and `Trees`, and
measures the first against the second; `LLIRSemantics` instantiates `LLIR` so that
the middle end can be asked for the allocator's hypothesis; `Preprocessor`
instantiates `Selection` under a refinement mapping. The parser is a chain of
extensions as its functions call each other: `CTypes`, `Declarations`,
`Expressions`, `FrontEnd`.

Correspondence worth knowing: positions are 0-based as in the code, sequences
1-based. The active list of `RegAlloc` is a set, since its order is that of last
uses and, among equals, of insertion, and can be recomputed; the flag arrays
`gp_used` and `fp_used` are one set over pool indices. In the modules about
instructions virtual registers are numbers and 0 is a NULL operand. A history
variable never guards an action. Where functions of the code call each other
recursively (the parser, the generator), the modules have one recursive operator
that takes the name of the function, and the functions are defined by it: TLC
evaluates such a group many times faster than one of mutually recursive operators.

Facts found while modelling that shape the modules:

* The only register pool in the repository, that of x86-64, has no floating-point
  registers (`codegen/x86_64/x86_64.c:2344`). With registers of both classes the
  active list, sized by the larger class, could fill up and leak a register.
  `RegAlloc` models the code's branch for a full list, and `RegistersAreSound` is
  proved to hold even then.
* The verifier pass returns true for a valid function, which the loop reads as
  "changed", so the loop always runs to `opt_max_passes`.
* `hashmap_put` needs room before it looks: with the watermark of 70 percent, a
  table of fewer than 4 buckets could fill up. The code starts with 16.
* The inlining pass wants a call without a label, which the generator never
  emits: it never fires.
* `sysv64_push_args` and `win64_push_args` are not called for x86-64, whose calls
  are LLIR instructions. `ir/ir.c:198-1228` is not called at all.
* `-O0` leaves the optimizers out by `opt_level`, not by the pass registry.

## 3. Runs

Every run checks the specification of its module; where one run has two or three models
(`preprocessor`, `front_end`, `linear_scan`, `codegen`, `callconv`, `driver`), a behaviour is one of one of them, and
the idle ones stay as they are.

| Run | Question | Instance and why it is enough |
|---|---|---|
| `preprocessor` | Are tokens, lines, constants and strings the standard's? Does the preprocessor implement conditional inclusion? Does `#embed` embed what it names? | Tokens: texts of 4 pieces of comments, spliced lines, line ends and quotes; of 4 pieces of literals and prefixes; of 3 operator characters; constants of every base and suffix at the limits of an 8-bit `int` and a 16-bit `long`; up to three adjacent strings of every prefix. A splice can be in, before and behind any token of a text, and two can meet. Inclusion: every file of 6 lines of conditionals, text and `#define`, right or wrong; conditionals with three groups nested in another (12 lines), with `#error`, `#undef` and `#define` in them; ten headers (guarded, `#pragma once`, both, including themselves, guards that are not recognized) included from 4 arbitrary lines that also define, undefine, push and pop the guard. `#embed`: `#embed` and `__has_embed` of every name under 72 parameter lists, malformed ones, and every three searches in a row: two include directories, a file that both have, one that the second has, an empty one and an absolute name |
| `macros` | Does expansion end, and is it the standard's? | three object-like macros that refer to each other in every way of a family; two function-like ones, also passed to each other, with arguments that come from behind a replacement; `#` and `##`; variadic macros and `__VA_OPT__`. `MaxTokens` = 20 bounds a list; an expansion that exceeded it would be an error of `ExpansionEnds` |
| `front_end` | Does the tree mean what C says? Do searches of a name table end, and are names found? | about 26,300 translation units, token by token: expressions and statements in every combination of a family, declarators nested three deep, type specifiers, structures of up to three members with bit-fields, zero widths and `packed`, constant expressions, initializers, static inline functions that call each other. The table: 3 keys that all collide in the smallest table and partly in the next, 2 values. The initial capacity is 4 instead of 16, so that watermarks, wrap-around, tombstones and rehashes all happen with three keys |
| `middle_end` | Is a function's tree, its HLIR after each pass and its LLIR the same function? | about 3,700 trees, at `-O0`, `-O1`, `-O2`, three memories; a `long` has 4 bits and an `int` 3 |
| `optimizer` | Do the LLIR passes preserve behaviour, and converge? | about 7,000 functions, five memories; a `long` has 4 bits and an `int` 2: wide enough for signedness, overflow, powers of two, shifts that add up past the width, narrowing and widening to differ. Three iterations stand for 200: `PassesConverge` shows that they reach the fixed point |
| `linear_scan` | Is allocated code right? | every well-formed function of up to 6 instructions over two values, with two labels, forward and backward jumps and calls, plus longer code as `&&` lowers to, once in a loop; one callee-saved and one scratch register. The constraint `Promising` only cuts code that cannot be completed within the bound. Do the analyses agree with the paths? Every flow of control among four blocks, and every function of 5 instructions of a menu of operations, calls and jumps to one label, before and after a pass removes any instruction. `SweepsSettle`: the tree of one of these graphs settles after at most as many rounds as it has blocks and the one that changes nothing |
| `codegen` | Does the text do what the LLIR does? Is the allocation sound? | 250 legalized functions, some of them also as a `main` that returns early and at its end or not, every choice of the values that have slots, two orders of registers, four memories; three registers and `Scratch`. The allocator: 4 intervals over 5 positions: a victim, an evictor, a dead slot's owner and a bystander. One callee-saved and one scratch register: both searches and both restrictions on eviction happen, and two values always compete. Scalar, aggregate, float (which has no register), sizes 4 to 20; a frame that already holds locals; a call in the middle of some intervals |
| `callconv` | Do caller and callee agree on where every argument is? | System V: up to 4 arguments of ten types (scalars; aggregates of one and two eightbytes of equal and mixed classes; in memory for their size or for an unaligned field), 3 integer and 2 vector registers instead of 6 and 8: each class can be full, or have one register left for an aggregate that needs two, before, at or after any argument. Return types: a word, and a structure through a hidden pointer, which takes a register. The low byte of the callee's `%rbp` is any multiple of 16 for a variadic callee of up to two scalars, with a `va_list` and an `int`, and 0 for the others, which decides nothing there. Win64: up to 6 arguments of ten types, so that two are on the stack, byte by byte |
| `driver` | Temporary files, exit status, order of stages; do driver and child read the options alike? | every command line of up to two inputs of every kind in every mode, each fault of the environment by itself; 21,000 command lines of two or three options of the whole menu |

A function of the three instruction-level runs counts as endless when it executes
more than 16 times `Fuel` instructions: 16 in `optimizer`, `codegen` and
`front_end`, 176 in `middle_end`. Two functions that both count as endless are
compared by the calls they have made. Deadlock checking
is off where the program stops: after the last pass or declaration.

Three more runs check one property each that a comment or a test of the code states
and that TLC refutes:

| Run | What is said | What the code does |
|---|---|---|
| `spill_sharing` | `ir/regalloc.c:582-586`: a slot is used again when its previous value is dead (`SharedSlotsApart`) | dead when the *evictor* starts; the evicted interval started earlier. With two registers, a 12-byte structure on [0,2] and scalars on [1,4], [2,4] and [3,3], the scalar evicted at 3 has the structure's slot as its home although both are live on [1,2] |
| `variadic_floats` | `abi/sysV64/sysv64.c:1219-1220`: `%al` is the number of vector registers used, and they are saved unless it is zero (`VariadicFloatsArrive`) | `%rax` has been loaded with addresses twice by then (1194-1195, 1204-1206): where the low byte of the save area's address is zero, floating-point arguments are not saved and `va_arg` reads what was there before |
| `main_returns` | `tests/conformance-tests/04-types/functions.c:5` and its like: the exit status is what `main` returns (`MainReturnsItsValue`) | `emit_text` prints `xor %eax, %eax` before the epilogue of `main` (`x86_64.c:2324-2325`), and a return that only labels follow prints no jump over it (2218-2222): `int main() { return 5; }` exits with 0 |

**Fairness.** Two properties are liveness properties. `DriverEnds` assumes weak
fairness of the driver (`WF_vars(Main)`) and of its children (`WF_vars(Child)`):
processes that can run are scheduled, and each of `cc1`, `as` and `ld` ends.
Nothing is assumed of an inherited child or of signals, and the property says that
the driver does not end before an inherited child does. `ExpansionEnds` assumes
weak fairness of `Next`: the preprocessor runs by itself and waits for nothing.

**What passing runs leave out, because the code deviates there.** Each of these is
a place where a run would report a violation; the comments of the `MC` modules
name them at the instance they are missing from, and the notes of the hazards give
the example.

* Hash map: insertion takes the first tombstone without looking for the key
  further on, so a key can be in the table twice (`hashmap.c:95-121`). The
  assertion in `rehash` notices when it comes to it and stops the compiler; before
  that `#undef` can reveal the older value. A behaviour whose assertion fails ends.
* Register allocator: two values that share a slot can be live at once (run
  `spill_sharing`). What `SlotsTakenFromTheDead` says, and what is proved, is that a
  slot is taken from values whose last use comes before the interval in hand.
* LLIR optimizer: constants merged by `&&` folded into operands by legalization
  (`x + (x && y)` returns `x`); casts that change only signedness dropped;
  unsigned folding and shifts at narrow widths; a narrow store after a wide one to
  one address; `!(x < 3.0)` for NaN.
* Code generator: the value of a `main` whose last instruction returns (run
  `main_returns`), which `TextMeansFunction` excepts and of which it says everything
  else; a signed `char` becoming a `long` or `_Bool`; `x % y` without a
  register when `x` is used again from `%rax` (the cache names `x`, `%rax` holds the
  quotient); a folded comparison whose operands' registers are reused before the
  branch; comparisons of two large constants.
* Preprocessor: empty macros at the edge of a line (their beginning-of-line mark
  goes to the next token, even the `#` of the next line); `#line` inside a
  conditional, which ends the compilation; headers whose guard
  `detect_include_guard` takes to cover the whole file although it was closed early
  or has an `#else` (`preprocess.c:815-845`).
* `#embed`: a resource given by an identifier that is no macro recurses without end
  (`Embed` lets it end in a crash, which `MCUnits` leaves out); a parameter list in
  `__has_embed` may lack its last parenthesis. `include_next_idx` is set by every
  search that walks the directories, whichever directive it is for, and by none that
  is answered from the cache; `#include_next` goes on from what it finds, not from
  behind it (`preprocess.c:753-765`). The property speaks of an `#include_next` that
  follows the first search of its name.
* Analyses: a `br` with a `label_false` only, which lowering emits for conditions,
  gets no edge to the next instruction in the graph, and the label of a function's
  first instruction is forgotten (`BranchesJumpWhenTrue`); a block listed before one
  of its dominators may get an immediate dominator further up than its own; linear
  liveness knows no loops (`ForwardOnly`) and does not count arguments as uses after
  a call; the cache does not say which function it is about (`ir_pass_manager_run_prog`
  uses one context for all). No pass asks for any of them yet.
* Macros: an argument is expanded in place and then used raw by `#` or `##`
  (`preprocess.c:663`); `##` in object-like macros; parameters in `__VA_OPT__`;
  pastes of three operands of which the first two are empty; `X(x) x##` with an
  empty argument.
* Tokenizer: hexadecimal and decimal constants that the standard gives type
  `long` get `long long`; `08`, `100f` and `''` are accepted; `u8` strings next to
  wide ones; UTF-8 that is overlong; decimal constants beyond the signed types.
* Front end: shifts, `~` and unary `+` on narrow operands; `++` on `_Bool`; packed
  structures with bit-fields; unnamed bit-fields that raise the alignment; a brace
  list that overrides an earlier part; `union = {}`; negative `int` constants
  (folded at 64 bits, `parse.c:2701`); a structure defined in a parameter list; negative array
  designators, for which `parse.c:1564-1580` has no check and which read before the
  array of children.
* Middle end: case ranges (`hlir.c:1069`), operands of inline assembly, which
  `hlir_for_each_use` does not see (`hlir.c:900`), accesses by name that only
  handwritten HLIR has together with accesses through pointers; at `-O2` duplicate
  constants can keep the passes from a fixed point. A structure of up to 16 bytes
  that a call returns and that is used at once as an argument, returned or accessed
  is taken for an address (`hlir.c:755-766`, `sysv64.c:1406`); structures are not in
  the model.
* System V: unnamed floating-point arguments where the prologue has not saved the
  vector registers (run `variadic_floats`): `VariadicArrive` has `VectorsSaved` as its
  hypothesis; stack arguments with an alignment of 16 after an odd number of
  eightbytes (the caller stores at multiples of 8, the callee rounds up);
  structures of size 0 (the caller counts a register for them, the prologue does
  not); named stack parameters of a variadic function (`va_arg` starts at
  `%rbp + 16` and reads them again); small structures as unnamed arguments;
  `long double` arguments. A structure that contains a `long double` ends the
  compiler with an internal error, which the run has.
* Win64: an aggregate by reference at a stack slot does not advance `top`
  (`win64.c:359-382`, against the comment at 372 that every argument consumes one
  slot), so
  the run has one only as the last argument (`SlotsCounted`); unnamed aggregates by
  reference; over-aligned locals, which `align_to(bottom, align)` before adding the
  size misaligns.
* Driver: an inherited child, ignored `SIGCHLD` and a full disk make the exit
  status wrong (`Reliable`); assembly given to a linking command is assembled and
  never linked; `-M -o` with several inputs overwrites its result (`Shared`).
* Options: `take_arg` does not know `-L` and `-MQ` as options with a value, so that
  `chibicc a.c -L` makes the child swallow `-cc1`; `sys6_init_types` and
  `z80_init_types` never set `long long`.

Other facts about options that contradict what one may expect but that no property
is about: macros are defined before `-target` is read; `-march` never changes the
ABI; `x86_64-linux-gnu` is an unknown ABI and `x86-64` is split at its dash;
`__SIZEOF_LONG_DOUBLE__` is 8 where `sizeof` says 16; the flag of `-fhlir-dce` is
never read; the copy of the include paths that `-MMD` compares with holds the `-I`
directories too, so it leaves their headers out (`main.c:90`).

## 4. Abstract specifications

Six parts are measured against a specification of their own that shares no
operator with them: conditional inclusion (`Selection`, by refinement), macro
replacement (the first section of `Macros`), C (`CMeaning`, in `MCFrontEnd`), trees (`Trees`),
LLIR (`LLIRSemantics`) and liveness (`LLIR!LiveIn`). For the table and for the
calling conventions the contract is a history variable: what callers put
(`contents`), which eightbyte was passed (`<<a, e>>`).

## 5. Proofs

All theorems but one are of the form `Spec => []Inv` or a refinement, for every value of
the constants that the `ASSUME`s of the module admit; the one about the optimizer is
about a step, since not all of its passes are proved. Each component has a proof module
of its own; `RegAlloc` and `LinearScan`, which extends it, share one.

| Module | Theorem | States |
|---|---|---|
| `DriverProof` | `DriverTyped`, `TmpfilesRemoved`, `StagesInOrder`, `StatusHonest` | the driver's three safety properties, for any number of inputs |
| `HashMapProof` | `HashMapTyped`, `SearchesAlwaysEnd`, `NamesAreFound` | both properties of the table, for any hash function, keys and initial capacity |
| `PreprocessorProof` | `PreprocessorSelects`, `PreprocessorTyped` | `Preprocessor` implements `Selection` |
| `LinearScanProof` on `RegAlloc` | `TypeCorrect`, `RegistersSound`, `FrameSound`, `SlotsComeFromTheDead` | the allocator's properties of the run `codegen`, for any pool and intervals |
| `LinearScanProof` on `LinearScan` | `LoopLivenessReachesFixpoint`, `LiveRangesAreCovered`, `ScanRunsIntervals`, `AllocatedRangesAreCovered`, `NothingClobbered`, `CallsSpareValues` | the four properties of the run about intervals and registers: from any code lowering can make to its registers |
| `AnalysisProof` | `AnalysesAlwaysAgree`, `ClimbsEnd` | that graph, dominators and liveness are those of the paths, for any function whose labels resolve and any number of changes; that climbing the tree ends |
| `OptimizerProof` | `TidyingKeeps`, `TidyingKeepsBehaviour` | that control-flow simplification, dead-code elimination and the verifier keep `BehaviourPreserved`, for any function, memory and width |
| `CallConvProof` | `CallerPassesAgree`, `FrameIsDisjoint`, `LayoutsAlwaysAgree`, `NamedArgumentsArrive`, `UnnamedArgumentsArrive` | the caller's passes and the callee's frame, for any call; what is passed is what is received, by name and by `va_arg` |
| `Win64Proof` | `CallsAlwaysReturn`, `ArgumentsAlwaysDelivered` | both Win64 properties of the run, byte by byte, for calls of any length |

**Driver** (`MaxInputsAssumption`, `EnvironmentsAssumption`). The list `todo` is
unfolded by input: a state of `main`'s loop is the input in hand (`Current`), what
its body is (`Body`) and how much of the body is left. `SafeInv` needs each of its
parts: `ShapeInv`, that `todo` is the rest of `Body`, so that the step in hand is
known from its length; `Awaited` and `OwnInv`, that a child exists only while
`main` waits and is the one of the first step; `TmpInv`, that a temporary file
that may exist is registered; `FilesInv`, that the files hold what the stages
passed so far have completed: the files of the current input for its next step
(`Ready`), the linker's inputs (`Linkable`) and the results of finished inputs
(`Settled`). Without `FilesInv` an exit status of 0 says nothing of earlier inputs.

**Hash map** (`HashIsNat`, `InitSizeLeavesRoom`, `MarkersAreNotKeys`). `MapInv` says
that `used` counts exactly the buckets that end no search, that one bucket is free, that the capacity is
the initial one times a power of two (`Doublings`; where the initial one is itself a power of
two, as the code's 16 is, `& mask` is `%`), and that a search for a name in the table meets no free bucket before it (`Found`,
stated by the position of the entry instead of the `CHOOSE` of the search). Rehash
is a loop and a recursive function in the model: what it does is proved by least
counterexample, as the set of steps after which the new table would be wrong has a
least element. A name that is in the table twice is why `Found` speaks of the first
entry a search meets; that rehash does not bring up the other is what the code's
assertion ensures, and the theorem holds as far as it does.

**Preprocessor.** The hypothesis `WellBehaved` is that programs consist of plain
lines (`PlainLines`: operands fit their directives, no macro at the edge of a line,
no `#line`) and that a guard `detect_include_guard` finds is the guard of the whole
file; `TheseArePlain` in `MCPreprocessor` has TLC confirm that the nested
conditionals and all headers of the run satisfy it. The invariant adds two facts to
typing: every entry of `cond` has had its group or is in its `#else`, except the
innermost while a skip loop runs (without it a second `#elif` could be selected),
and a remembered guard is the one detected in that file. The proof is about the
mapping `Levels`: one lemma for each way it changes (a conditional opened, moved to
its next group, closed, and the same nested in a skipped group), one for each
handler, and a step per action.

**Register allocator** (`CountsAreNat`, `InputsAreTyped`). `RegistersDisjoint` is not
inductive: a step that takes a register marked free must know that whoever held it
is dead. The strengthening is `HoldersProtected`: active values hold marked
registers, each a different one, and a value that still has a register and is not
active either ended before the current interval or, when the active list was full,
holds a register that stays marked and that no active value has. The proof takes
the three outcomes of an iteration in turn; for each, the values handled before and
the one handled now are compared. That intervals arrive in order of their start is
used where "ended before the current start" must remain true for the next one. The
frame needs `TableSound` (slots lie one below the other between the locals and
`spillOffset`, each large enough and aligned for its owner), `Homed` (every value
handled has a register or a slot, not both) and `LiveSlotsReserved` (a value that is
still read at the start of the current interval has its slot in use), which
keeps `Reusable` from giving such a slot away and so gives `SlotsComeFromTheDead`. It
does not follow that values with one slot are never live at once, and it is not so.

**Linear scan** (`ScanFits`: the allocator is asked about the function the intervals
were computed for). `LoopInv`: an edge extends an interval to its own branch, and
the edges are in the order of their branches, so an edge handled in a round cannot
be crossed again by what the round does later: the first round reaches the fixed
point and the second only notices, so the bound of three rounds never matters.
`CoverInv` says that an interval begins at the first definition and lasts to the
last use or longer. `LiveIn` is the least set closed under "read here, or live at a
successor and not written here"; least fixed points of a growing function over a
finite set exist (`GrowthExists`, `GrowthGrows`), and a position live outside its
interval would have to be reached through a jump that no edge covers. The shape of
the code enters as `WellFormed`: labels resolve, nothing is read before it is
written, and a value with two definitions is one of `&&`, `||` or `?:`, whose arms
are used up in the second arm (`Merged`). `ScanInv` then joins it to the
allocator's `RegInv`, from which `NothingClobbered` and `CallsSpareValues` follow:
two values live at once have intervals that meet, so their registers differ.
The first two theorems are about `compute_live_intervals` by itself
(`IntervalSpec`); `ScanRunsIntervals` shows that the allocator as a whole implements
it, so that they hold in its runs too. `LinearScan` extends `RegAlloc` instead of
naming an instance of it, since lemmas of a named instance cannot be used.

**Analyses** (`AnalyzedResolve`: the functions are sequences of instructions whose
labels resolve, which lowering guarantees; `MaxChangesIsNat`). `CachedIsOfFunction`
says that what is in the cache was computed from the function as it is now, and
that a settled tree is one a round leaves as it is. The rest is about the three
algorithms.
The graph: blocks are counted by their leaders, every leader begins one
(`CountGrows`, `StartOf`, `EndOf`, `LabelledIs`), so that an edge leaves the end of a
block and enters the start of one (`EdgeLeaves`, `EdgeTaken`, `GraphIsRight`).
The tree: a new immediate dominator need not be above the old one, so that the
rounds are not monotone and the usual argument does not apply. What is kept by
each single assignment is `GrownTree`: every block that has been reached keeps a
path from the entry, the one along which it was first processed, and what is above
it in the tree lies on that path. So the tree has no cycle at any time
(`ClimbsEnd`): the two fingers, `ir_dom_dominates` and the depths come to an end.
That a settled tree names only dominators (`SettledSound`) is an argument on a
single round, over the blocks a path visits; that it leaves none out where every
block is listed after its dominators (`Complete`) is kept from round to round, since
the fingers then meet at the closest block above both. `DepthCounts` is by least
counterexample along the tree.
Liveness: a position where a value is live is followed by a use with no definition
between (`LiveBeforeUse`), and if control only goes forward the use is further down
the list (`LivenessIsRight`). A pass that removes an instruction keeps the labels
resolved (`RemovedKeepsLabels`) and empties the cache.

**Optimizer** (`Widths`, `NoneIsNoLabel`, `FuelIsNat`). `BehaviourPreserved` says more than that outcomes
are equal: every instruction has the operands it cannot do without (`IsFunction`) and
every label that control goes to is placed once (`LabelsPlaced`), and a register ever
set to a constant is set to constants only (`ConstantsStand`), which is what makes
the property one that a pass can rely on. `StepAgrees`: an instruction does the same
wherever in a function it stands, except that control goes to where the labels are.
So a run of the changed function can be laid beside a run of the original one
(`Simulated`): after so many steps of the one there is a number of steps of the other,
not greater, after which memory, calls and the registers that are still read agree,
and the instruction to come is the same one. That is shown once for deleting
instructions (`Deleting`, `DeletingKeeps`), provided that each deleted one does nothing
that matters when it is reached, and once for redirecting a branch
(`RewritingKeeps`). What is deleted are instructions whose result nothing reads
(`SweepKeeps`; `DceKeeps` repeats it), instructions no run reaches, by following a run
from the last barrier (`RunsReach`, `ReachedKeeps`), and jumps to a label that follows
with only labels between (`DirectKeeps`); what is redirected are branches
with equal arms or an arm that falls through (`MergedKeeps`, `FallthroughKeeps`).
Branches on constants are folded first. `Known` is what the cursor of that loop knows
of registers: each is set to its constant above it in the block. `RunsHold` follows a run
from that place to the branch, where the register still holds the constant
(`TakenInRuns`), so that a jump there does the same (`KnownJumpKeeps`), or nothing does
(`KnownFallKeeps`); `FoldedTurn` is one turn of the loop and `FoldKeeps` the whole of it.
`CfgSimplifyKeeps` puts them together in the order of `ir_opt_cfg_simplify`.
The loops of the passes and the run itself are recursive functions; facts about them are
by least counterexample (`Stepwise`).

`TidyingKeeps` says it of one function and one pass, and `TidyingKeepsBehaviour` of a
step of the pass manager. The hypothesis beside the name of the pass is that the original
run ends within the bound (`wanted[m].end # ""`): a run that is cut off there is compared with
one that gets further, which is the bound's doing and not the code's. `ConstantsStand`
is not one of the theorem's hypotheses but part of the property, since folding needs it:
`def_insn` and the loop's own table know a constant by its register, and neither is told
when the register is set to something else. The values lowering makes outside `&&`,
`||` and `?:` are so; where one of these merges a constant with another value, `TidyingKeeps` still
holds of a function that has no branch on a constant left to fold. The runs check the
property after copy propagation, the peephole optimizer and legalization as well.

**Calling convention** (`MaximaAreNat`, `CallsAreTyped`). The first pass of the caller leaves
the trace of its cursors in the history variable `counted`. `CallerInv` says that
each entry follows from the one before by the decision `After`, and that the later
passes are at the trace's entry for their argument, so that the same decision leads
them to the next; `TraceInv` says the same of the callee's layout and prologue, which start
from the hidden pointer and see parameters instead of arguments. `FrameInv` says that every
local laid out so far lies above `bottom`, below which the next one goes; it rests
on `AlignToIsAbove`, that rounding up never goes below. `CallerArrives` is what the
caller has stored and loaded so far, `CalleeArrives` what the prologue has saved:
each eightbyte is where the trace says, because the trace only grows and no two
arguments have an entry in common. So every argument has one place. `AreaInv` and
`VaInv` continue it into the body: the outgoing area stays, and `va_arg`'s three
cursors are those of the trace at the next unnamed argument.

`NamedArgumentsArrive` and `UnnamedArgumentsArrive` have hypotheses, each of which excludes a
deviation named in section 3. `Deliverable`: every parameter has a size, and one on the
stack that wants an alignment above 8 happens to have it. `Fetchable`: in addition
all named arguments are in registers, and the unnamed ones are scalars or
aggregates passed in memory. The run checks `ArgumentsArrive` and `VariadicArrive`
without these hypotheses, on calls that satisfy them. `VariadicArrive` has one of its own,
`VectorsSaved`: if an unnamed argument is a floating-point number, the low byte of the save
area's address, which the prologue tests, is not zero.

**Microsoft convention** (`Win64CallsAreTyped`: the arguments and the result have
types, at least the named arguments are passed, and the register the target is in
holds no argument). The memory is one function from addresses to bytes, so most of
the proof is that regions of it are apart: the outgoing area, the return address,
the saved registers, the copies of large aggregates, the locals and the slots.
`BottomsDescend` and `BottomsApart` say so for what lies below `%rbp`, for any
number of objects of any size and alignment; since `Bottom` is a recursive function,
they too are proved by least counterexample. `ReturnInv` has what the way back
needs: where `%rsp` and `%rbp` are at each stage (`Control`), that the return
address and the saved registers are in memory until they are used (`Linked`), that
a register the callee does not save is one it does not change (`PoolKept`), and
where the address for the result is until the result is there (`BufferKnown`,
`ResultThere`). `DeliverInv`, proved on top of it, follows the arguments: what has
been passed is in its register or slot (`InRegisters`, `InSlots`), a parameter the
prologue has taken holds its argument although later ones are stored after it
(`Taken64`), and `va_arg` is at the slot of the next unnamed argument (`Found`).

`CallsAlwaysReturn` has no hypothesis. `ArgumentsAlwaysDelivered` has `Understood`,
which excludes the two deviations named in section 3: on the stack no parameter
follows a large aggregate, and no unnamed argument is one. With either the two
sides disagree. The run checks `Win64Delivers` without the hypothesis, on calls that
satisfy it.

**The prover.** The SMT translation of tlapm 1.4.5 states that `DOMAIN s = 1 .. n`
and `Len(s) = n` are equivalent for every value `s`, sequence or not. Only one
direction is true in general, so a step in which a function with another domain
meets `Len` could be proved for a wrong reason. Every SMT obligation in which that
axiom occurs was discharged a second time with the true direction only; steps that
needed the other one were rewritten until none was left.

**What is only model-checked, and why.**

* `DriverEnds`, `ExpansionEnds`: liveness under fairness is out of the prover's
  reach.
* `SweepsSettle`, that the rounds of `ir_build_dom_tree` end: since they are not
  monotone, no measure was found that every round lowers. Each of them ends
  (`ClimbsEnd`), and what they settle on is right (`AnalysesAlwaysAgree`).
* In `Optimizer`, the passes that compute values (`copy_prop`, `peephole`,
  legalization) and `PassesConverge`: each of the some eighty rules is an
  identity of arithmetic at a width, with powers of two that the provers do not have.
* `CodeGen`, `MiddleEnd`, `FrontEnd`, `Macros`, `Tokenizer`, `Embed`:
  they or their references (`Trees`, `CMeaning`, the rescanning of
  `Macros`, the reference readings of `MCTokenizer`) are recursive operators, and what a recursive
  definition computes for every input needs induction over data. The passes are
  rewrites by local patterns, so that the instances of the runs, which have every
  pair of operators, say most of what a proof would.
* `CommandLineObeyed`: options are told apart by the characters they
  begin with; strings are opaque to the provers.

## 6. Not modelled, and why

* `parse_test.c`: no target compiles it.
  `ir/ir.c:198-1228`: the old lowering, not called.
* The m68k and Z80 code generators: they move every value through one register,
  cast without extending, ignore signedness, multiply 32-bit values at 16 bits
  (`codegen/m68k/m68k.c:580`) and skip instructions they do not know without a
  word, so that a property of their text has little but counterexamples. With them the
  `sys6`, `pascal`, `z80` and `win32` calling conventions, of which `Options` has the
  types and macros only.
* Floating point, VLAs, atomics, inline assembly, computed goto, statement
  expressions in the parser, compound and string literals in the parser.
* `_Pragma`, `__LINE__` and its like, the
  reading of macro definitions.
* In the ABIs: values System V returns in registers, `alloca`, stack unwinding.
* Text for people: assembly directives, `-M` rules, error messages and their
  carets, `-###`.
* Vendored headers, libraries and platform shims.

## 7. Plan

1. Proofs: copy propagation and the constants of the peephole optimizer, from
   `ConstantsStand` and `RunsHold` as they stand.
2. A measure for `SweepsSettle`, and values System V returns in registers.
3. Structures and floating point in the middle end, which is where most of the
   remaining lines are.
