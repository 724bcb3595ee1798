------------------------------- MODULE Options -------------------------------
(***************************************************************************)
(* What the command line sets: parse_args of src/main.c, one step per      *)
(* argument, the pass registry of src/ir/pass_manager.c, the choice of a   *)
(* code generator and an ABI (src/codegen/codegen.c, src/abi/abi.c), the   *)
(* sizes of the types each ABI gives and the predefined macros that        *)
(* announce them.  A process parses the line of the user ("driver"); the   *)
(* compiler it starts for an input ("cc1") parses the same line again with *)
(* the options of run_cc1 behind it, and must come to the same result.     *)
(*                                                                         *)
(* An argument is the string it is.  Null stands for a null pointer.       *)
(***************************************************************************)
EXTENDS Integers, FiniteSets, SequencesExt

CONSTANT ArgumentLists   \* the command lines, without argv[0]

VARIABLES argv,    \* the arguments
          at,      \* parse_args' i
          opts,    \* the opt_ variables and the lists of main.c
          passes,  \* the enabled flag of every registered pass
          target,  \* current_codegen, current_abi, current_objfmt, type sizes
          stage,   \* check, parse, parsed, or how the process ended
          role,    \* the driver or its child
          parent   \* what the driver parsed, and the input it started cc1 for

optionVars == <<argv, at, opts, passes, target, stage, role, parent>>

Null == "(null)"

StartsWith(s, p) == Len(s) >= Len(p) /\ SubSeq(s, 1, Len(p)) = p
Rest(s, p) == SubSeq(s, Len(p) + 1, Len(s))
Chars(s) == [k \in 1 .. Len(s) |-> SubSeq(s, k, k)]

-----------------------------------------------------------------------------
(* The pass registry. *)

ir_init_pass_registry ==
  {"copy-prop", "peephole", "cfg-simplify", "dce", "verifier", "legalize-isel",
   "hlir-const-fold", "hlir-algebraic", "hlir-copy-prop", "hlir-local-cse",
   "hlir-load-store", "hlir-control-flow", "hlir-dead-code", "hlir-dce", "hlir-inlining"}
(* The enabled flags the pass definitions begin with. *)
pass_registry == [p \in ir_init_pass_registry |-> p \in {"verifier", "legalize-isel"}]
HLIRPassNames == {p \in ir_init_pass_registry : StartsWith(p, "hlir-")}

(* The passes only level 2 adds. *)
Expensive == {"hlir-local-cse", "hlir-load-store", "hlir-inlining"}

(* Mutant: level 1 leaves what level 2 added. *)
ir_opt_set_level_Additive(ps, level) ==
  CASE level <= 0 -> [p \in ir_init_pass_registry |-> p \notin Expensive \cup {"legalize-isel"}]
    [] level = 1 -> [p \in ir_init_pass_registry |->
                       IF p \in Expensive \cup {"legalize-isel"} THEN ps[p] ELSE TRUE]
    [] OTHER -> [p \in ir_init_pass_registry |-> TRUE]
ir_opt_set_level(ps, level) ==
  CASE level <= 0 -> [p \in ir_init_pass_registry |-> p \notin Expensive \cup {"legalize-isel"}]
    [] level = 1 -> [p \in ir_init_pass_registry |->
                       IF p = "legalize-isel" THEN ps[p] ELSE p \notin Expensive]
    [] OTHER -> [p \in ir_init_pass_registry |-> TRUE]

ir_opt_init == ir_opt_set_level(pass_registry, 0)

Upper == Chars("ABCDEFGHIJKLMNOPQRSTUVWXYZ_")
Lower == Chars("abcdefghijklmnopqrstuvwxyz-")
LowerOf == [c \in Range(Upper) |-> Lower[CHOOSE k \in DOMAIN Upper : Upper[k] = c]]
(* Names are compared without case, and with _ for -; those below are folded. *)
Folded(name) == FoldLeft(LAMBDA s, c : s \o (IF c \in DOMAIN LowerOf THEN LowerOf[c] ELSE c), "", Chars(name))

(* The names a pass answers to, in the order they are compared. *)
Aliases == <<
  [names |-> {"all"}, sets |-> ir_init_pass_registry \ {"verifier"}],
  [names |-> {"hlir", "hlir-opt", "hlir-all"}, sets |-> HLIRPassNames],
  [names |-> {"const-fold", "constant-folding", "tree-ccp", "ccp", "hlir-const-fold"}, sets |-> {"hlir-const-fold"}],
  [names |-> {"copy-prop", "copy-propagation", "tree-copy-prop"}, sets |-> {"copy-prop"}],
  [names |-> {"dce", "dead-code-elimination", "tree-dce"}, sets |-> {"dce"}],
  [names |-> {"cfg-simplify", "simplify-cfg", "tree-dominator-opts"}, sets |-> {"cfg-simplify"}],
  [names |-> {"peephole", "peephole2", "strength-reduce", "strength-reduction"}, sets |-> {"peephole"}],
  [names |-> {"local-cse", "cse", "tree-cse", "hlir-local-cse", "hlir-cse"}, sets |-> {"hlir-local-cse"}],
  [names |-> {"verifier"}, sets |-> {"verifier"}],
  [names |-> {"hlir-algebraic"}, sets |-> {"hlir-algebraic"}],
  [names |-> {"hlir-copy-prop", "hlir-copy-propagation"}, sets |-> {"hlir-copy-prop"}],
  [names |-> {"hlir-load-store", "hlir-dse", "hlir-store-elim"}, sets |-> {"hlir-load-store"}],
  [names |-> {"hlir-control-flow", "hlir-cfg"}, sets |-> {"hlir-control-flow"}],
  [names |-> {"hlir-dead-code", "hlir-deadcode"}, sets |-> {"hlir-dead-code"}],
  [names |-> {"hlir-dce", "hlir-dead-val", "hlir-dead-value", "hlir-unused-val", "hlir-unused-value"}, sets |-> {"hlir-dce"}],
  [names |-> {"hlir-inlining", "hlir-inline", "inlining", "inline", "inline-functions"}, sets |-> {"hlir-inlining"}],
  [names |-> {"legalize-isel"}, sets |-> {"legalize-isel"}] >>

(* The passes a name stands for: the first entry that has it; none is an unknown name. *)
Named(name) ==
  LET folded == Folded(name)
      hits == {k \in DOMAIN Aliases : folded \in Aliases[k].names}
  IN IF hits = {} THEN {} ELSE Aliases[CHOOSE k \in hits : \A j \in hits : k <= j].sets

ir_opt_set_pass_enabled(ps, names, enabled) ==
  [p \in ir_init_pass_registry |-> IF p \in names THEN enabled ELSE ps[p]]

-----------------------------------------------------------------------------
(* Code generators, ABIs, the types' sizes and the predefined macros. *)

(* size and alignment of every arithmetic type. *)
Row(bool, char, short, int, long, llong, float, double, ldouble) ==
  [bool |-> bool, char |-> char, short |-> short, int |-> int, long |-> long, llong |-> llong,
   float |-> float, double |-> double, ldouble |-> ldouble]
abi_sysv64 == Row(<<1, 1>>, <<1, 1>>, <<2, 2>>, <<4, 4>>, <<8, 8>>, <<8, 8>>, <<4, 4>>, <<8, 8>>, <<16, 16>>)
abi_win64  == Row(<<1, 1>>, <<1, 1>>, <<2, 2>>, <<4, 4>>, <<4, 4>>, <<8, 8>>, <<4, 4>>, <<8, 8>>, <<8, 8>>)
abi_win32  == Row(<<1, 1>>, <<1, 1>>, <<2, 2>>, <<4, 4>>, <<4, 4>>, <<8, 4>>, <<4, 4>>, <<8, 4>>, <<8, 4>>)
abi_sys6   == Row(<<1, 1>>, <<1, 1>>, <<2, 2>>, <<4, 2>>, <<4, 2>>, <<8, 2>>, <<4, 2>>, <<8, 2>>, <<8, 2>>)
abi_pascal == abi_sys6
abi_z80    == Row(<<1, 1>>, <<1, 1>>, <<2, 1>>, <<2, 1>>, <<4, 1>>, <<4, 1>>, <<4, 1>>, <<4, 1>>, <<4, 1>>)

init_abis == [sysv64 |-> abi_sysv64, win64 |-> abi_win64, win32 |-> abi_win32,
              sys6 |-> abi_sys6, pascal |-> abi_pascal, z80 |-> abi_z80]

(* What init_types assigns; a type it does not mention keeps its size. *)
sysv64_init_types(ts) == Row(<<1, 1>>, <<1, 1>>, <<2, 2>>, <<4, 4>>, <<8, 8>>, <<8, 8>>, <<4, 4>>, <<8, 8>>, <<16, 16>>)
win64_init_types(ts) == Row(ts.bool, <<1, 1>>, <<2, 2>>, <<4, 4>>, <<4, 4>>, <<8, 8>>, <<4, 4>>, <<8, 8>>, <<8, 8>>)
win32_init_types(ts) == Row(ts.bool, <<1, 1>>, <<2, 2>>, <<4, 4>>, <<4, 4>>, <<8, 4>>, <<4, 4>>, <<8, 4>>, <<8, 4>>)
sys6_init_types(ts)  == Row(ts.bool, <<1, 1>>, <<2, 2>>, <<4, 2>>, <<4, 2>>, ts.llong, <<4, 2>>, <<8, 2>>, <<8, 2>>)
z80_init_types(ts)   == Row(ts.bool, <<1, 1>>, <<2, 1>>, <<2, 1>>, <<4, 1>>, ts.llong, <<4, 1>>, <<4, 1>>, <<4, 1>>)

ObjectFormat == [sysv64 |-> "elf", win64 |-> "coff", win32 |-> "coff",
                 sys6 |-> "flat", pascal |-> "flat", z80 |-> "flat"]

(* A target whose field ok is FALSE is one error() was called for. *)
set_abi(t, name) ==
  CASE name = Null -> t
    [] name \notin DOMAIN init_abis -> [t EXCEPT !.ok = FALSE]
    [] OTHER -> [t EXCEPT !.abi = name, !.objfmt = ObjectFormat[name],
                          !.types = CASE name = "sysv64" -> sysv64_init_types(t.types)
                                      [] name = "win64" -> win64_init_types(t.types)
                                      [] name = "win32" -> win32_init_types(t.types)
                                      [] name \in {"sys6", "pascal"} -> sys6_init_types(t.types)
                                      [] name = "z80" -> z80_init_types(t.types)]

(* An ABI is set from the start, so the generator's default_abi_name never is. *)
set_codegen(t, name) ==
  IF name \in {"x86_64", "m68k", "z80"} THEN [t EXCEPT !.codegen = name] ELSE [t EXCEPT !.ok = FALSE]

init_target(t, name, abi) ==
  LET cg == CASE name \in {"x86_64", "x86-64", "amd64"} -> "x86_64"
              [] name \in {"m68k", "68k", "mac"} -> "m68k"
              [] OTHER -> name
      default == CASE cg = "m68k" -> "sys6" [] cg = "z80" -> "z80" [] OTHER -> Null
      chosen == set_codegen(t, cg)
  IN IF ~chosen.ok THEN chosen ELSE set_abi(chosen, IF abi = Null THEN default ELSE abi)

(* The types' static initializers in src/type.c do not matter: sysv64 sets them all. *)
init_all_targets_and_abis ==
  init_target([ok |-> TRUE, codegen |-> "x86_64", abi |-> "sysv64", objfmt |-> "elf",
               types |-> sysv64_init_types(Null)], "x86_64", "sysv64")

(* The macros that announce sizes; -D and -U change macros later. *)
init_macros ==
  [double |-> 8, float |-> 4, int |-> 4, ldouble |-> 8, llong |-> 8, long |-> 8, short |-> 2]

-----------------------------------------------------------------------------
(* parse_args *)

take_arg(arg) ==
  arg \in {"-o", "-I", "-idirafter", "-include", "-x", "-MF", "-MT", "-Xlinker",
           "-target", "--target", "-mabi", "-march", "-D", "-U",
           "-cc1-input", "-cc1-output", "--max-passes"}

NoOptions ==
  [on |-> {"fcommon"}, x |-> "none", O |-> 0, max_passes |-> 200,
   MF |-> Null, MT |-> Null, o |-> Null, base_file |-> Null, cc1_output_file |-> Null,
   include |-> <<>>, include_paths |-> <<>>, std_include_paths |-> <<>>, idirafter |-> <<>>,
   ld_extra_args |-> <<>>, input_paths |-> <<>>, macros |-> <<>>]

(* A fresh process: what main does before parse_args. *)
Fresh(args) ==
  /\ argv' = args /\ at' = 1 /\ stage' = "check"
  /\ opts' = NoOptions
  /\ passes' = ir_opt_init
  /\ target' = init_all_targets_and_abis

InitOptions ==
  /\ argv \in ArgumentLists /\ at = 1 /\ stage = "check"
  /\ opts = NoOptions
  /\ passes = ir_opt_init
  /\ target = init_all_targets_and_abis
  /\ role = "driver" /\ parent = <<>>

(* Every option of take_arg has a value behind it, whatever that looks like. *)
CheckArguments ==
  /\ stage = "check"
  /\ stage' = IF FoldLeft(LAMBDA due, a : ~due /\ take_arg(a), FALSE, argv) THEN "usage" ELSE "parse"
  /\ UNCHANGED <<argv, at, opts, passes, target, role, parent>>

arg == argv[at]
Following == IF at < Len(argv) THEN argv[at + 1] ELSE Null

(* -L and -MQ take a value take_arg does not know of, so what follows them may *)
(* be read in another way than it was checked, and end in a null pointer.      *)
Dereferenced ==
  {"-x", "-target", "--target", "-march", "-D", "-U", "--max-passes", "-MQ"}
Parsing == stage = "parse" /\ at <= Len(argv)
Reading == Parsing /\ ~(Following = Null /\ arg \in Dereferenced)
Crash ==
  /\ Parsing /\ ~Reading
  /\ stage' = "crashed"
  /\ UNCHANGED <<argv, at, opts, passes, target, role, parent>>

(* An option with its value behind it or joined to it. *)
Is(opt) == StartsWith(arg, opt)
Value(opt) == IF arg = opt THEN Following ELSE Rest(arg, opt)
Used(opt) == IF arg = opt THEN 2 ELSE 1

Continue(new, n) ==
  /\ opts' = new /\ at' = at + n
  /\ UNCHANGED <<argv, stage, role, parent>>
Take(new, n) == Continue(new, n) /\ UNCHANGED <<passes, target>>
Switch(flags) == Take([opts EXCEPT !.on = @ \cup flags], 1)
Fail(how) == stage' = how /\ UNCHANGED <<argv, at, opts, passes, target, role, parent>>

Aim(t, n) ==
  IF t.ok THEN Continue(opts, n) /\ target' = t /\ UNCHANGED passes ELSE Fail("error")

(* The part before the first dash and the part behind it. *)
Split(t) ==
  LET dashes == {k \in 1 .. Len(t) : SubSeq(t, k, k) = "-"}
      k == CHOOSE k \in dashes : \A j \in dashes : k <= j
  IN IF dashes = {} THEN <<t, Null>> ELSE <<SubSeq(t, 1, k - 1), SubSeq(t, k + 1, Len(t))>>

TakeTarget ==
  /\ Reading
  /\ \/ /\ arg \in {"-target", "--target"}
        /\ LET t == Split(Following) IN Aim(init_target(target, t[1], t[2]), 2)
     \/ /\ Is("--target=")
        /\ LET t == Split(Rest(arg, "--target=")) IN Aim(init_target(target, t[1], t[2]), 1)
     \/ /\ arg = "-mabi" /\ Aim(set_abi(target, Following), 2)
     \/ /\ Is("-mabi=") /\ Aim(set_abi(target, Rest(arg, "-mabi=")), 1)
     \/ /\ arg = "-march" /\ Aim(set_codegen(target, Following), 2)
     \/ /\ Is("-march=") /\ Aim(set_codegen(target, Rest(arg, "-march=")), 1)

TakeMode ==
  /\ Reading
  /\ \/ /\ arg \in {"-###", "-cc1", "-S", "-c", "-E", "-fcommon"}
        /\ Switch({Rest(arg, "-")})
     \/ /\ arg = "-fno-common" /\ Take([opts EXCEPT !.on = @ \ {"fcommon"}], 1)
     \/ /\ arg = "--help" /\ Fail("help")
     \/ /\ Is("-o") /\ Take([opts EXCEPT !.o = Value("-o")], Used("-o"))

define(str) ==
  LET eq == {k \in 1 .. Len(str) : SubSeq(str, k, k) = "="}
      k == CHOOSE k \in eq : \A j \in eq : k <= j
  IN IF eq = {} THEN <<str, "1">> ELSE <<SubSeq(str, 1, k - 1), SubSeq(str, k + 1, Len(str))>>
undef_macro(str) == <<str, Null>>

parse_opt_x(s) == IF s \in {"c", "assembler", "none"} THEN s ELSE Null

TakePreprocessor ==
  /\ Reading
  /\ \/ /\ Is("-I") /\ Take([opts EXCEPT !.include_paths = Append(@, Value("-I"))], Used("-I"))
     \/ /\ Is("-D") /\ Take([opts EXCEPT !.macros = Append(@, define(Value("-D")))], Used("-D"))
     \/ /\ Is("-U") /\ Take([opts EXCEPT !.macros = Append(@, undef_macro(Value("-U")))], Used("-U"))
     \/ /\ arg = "-include" /\ Take([opts EXCEPT !.include = Append(@, Following)], 2)
     \/ /\ Is("-x")
        /\ IF parse_opt_x(Value("-x")) = Null THEN Fail("error")
           ELSE Take([opts EXCEPT !.x = parse_opt_x(Value("-x"))], Used("-x"))

TakeForLinker ==
  /\ Reading
  /\ \/ /\ (Is("-l") \/ Is("-Wl,")) /\ Take([opts EXCEPT !.input_paths = Append(@, arg)], 1)
     \/ /\ arg = "-Xlinker" /\ Take([opts EXCEPT !.ld_extra_args = Append(@, Following)], 2)
     \/ /\ arg = "-s" /\ Take([opts EXCEPT !.ld_extra_args = Append(@, "-s")], 1)

(* make's quoting of a target: $ is doubled, # gets a backslash, a blank gets one *)
(* too, and so does every backslash in front of the blank.                        *)
quote_makefile(s) ==
  LET c(k) == SubSeq(s, k, k)
      slashes(k) == {j \in 1 .. k - 1 : \A i \in j .. k - 1 : c(i) = "\\"}
      quoted(k) == CASE c(k) = "$" -> "$$"
                     [] c(k) = "#" -> "\\#"
                     [] c(k) \in {" ", "\t"} -> FoldLeft(LAMBDA q, j : q \o "\\", "\\", [j \in 1 .. Cardinality(slashes(k)) |-> j]) \o c(k)
                     [] OTHER -> c(k)
  IN FoldLeft(LAMBDA q, k : q \o quoted(k), "", [k \in 1 .. Len(s) |-> k])

Joined(old, new) == IF old = Null THEN new ELSE old \o " " \o new

TakeDependency ==
  /\ Reading
  /\ \/ /\ arg \in {"-M", "-MP", "-MD"} /\ Switch({Rest(arg, "-")})
     \/ /\ arg = "-MMD" /\ Switch({"MD", "MMD"})
     \/ /\ arg \in {"-fpic", "-fPIC"} /\ Switch({"fpic"})
     \/ /\ arg = "-MF" /\ Take([opts EXCEPT !.MF = Following], 2)
     \/ /\ arg = "-MT" /\ Take([opts EXCEPT !.MT = Joined(@, Following)], 2)
     \/ /\ arg = "-MQ" /\ Take([opts EXCEPT !.MT = Joined(@, quote_makefile(Following))], 2)

TakeCc1 ==
  /\ Reading
  /\ \/ /\ arg = "-cc1-input" /\ Take([opts EXCEPT !.base_file = Following], 2)
     \/ /\ arg = "-cc1-output" /\ Take([opts EXCEPT !.cc1_output_file = Following], 2)

TakeLinking ==
  /\ Reading
  /\ \/ /\ arg = "-idirafter" /\ Take([opts EXCEPT !.idirafter = Append(@, Following)], 2)
     \/ /\ arg \in {"-static", "-shared"}
        /\ Take([opts EXCEPT !.on = @ \cup {Rest(arg, "-")}, !.ld_extra_args = Append(@, arg)], 1)
     \/ /\ Is("-L") /\ Take([opts EXCEPT !.ld_extra_args = @ \o <<"-L", Value("-L")>>], Used("-L"))

Digits == Chars("0123456789")
(* The level of -O: none for a letter that is no level. *)
LevelOf(a) ==
  LET c == SubSeq(a, 3, 3)
  IN CASE a = "-O" -> 1
       [] c \in {"s", "z"} -> 2
       [] c \in Range(Digits) -> (CHOOSE k \in 1 .. 10 : Digits[k] = c) - 1
       [] OTHER -> -1
Sections == {"ffunction-sections", "fdata-sections"}

TakeLevel ==
  /\ Reading
  /\ Is("-O")
  /\ LET level == LevelOf(arg)
     IN IF level = -1 THEN Take(opts, 1)
        ELSE /\ Continue([opts EXCEPT !.O = level, !.on = @ \cup (IF level > 0 THEN Sections ELSE {})], 1)
             /\ passes' = ir_opt_set_level(passes, level)
             /\ UNCHANGED target

(* The number a string begins with. *)
atoi(s) ==
  LET digits == IF StartsWith(s, "-") THEN Rest(s, "-") ELSE s
      number == FoldLeft(LAMBDA n, c : IF n.over \/ c \notin Range(Digits) THEN [n EXCEPT !.over = TRUE]
                                       ELSE [n EXCEPT !.n = 10 * @ + (CHOOSE k \in 1 .. 10 : Digits[k] = c) - 1],
                         [n |-> 0, over |-> FALSE], Chars(digits)).n
  IN IF StartsWith(s, "-") THEN 0 - number ELSE number
ir_opt_set_max_passes(old, n) == IF n > 0 THEN n ELSE old

TakeLimit ==
  /\ Reading
  /\ \/ /\ arg \in {"-fdump-ir", "--dump-ir"} /\ Switch({"dump_ir"})
     \/ \E opt \in {"-fmax-passes=", "-fmax-iterations=", "-fopt-max-passes=", "--max-passes="} :
          /\ Is(opt)
          /\ Take([opts EXCEPT !.max_passes = ir_opt_set_max_passes(@, atoi(Rest(arg, opt)))], 1)
     \/ /\ arg = "--max-passes"
        /\ Take([opts EXCEPT !.max_passes = ir_opt_set_max_passes(@, atoi(Following))], 2)

TakeSections ==
  /\ Reading
  /\ \/ /\ arg \in {"-ffunction-sections", "-fdata-sections"} /\ Switch({Rest(arg, "-")})
     \/ /\ arg \in {"-fno-function-sections", "-fno-data-sections"}
        /\ Take([opts EXCEPT !.on = @ \ {"f" \o Rest(arg, "-fno-")}], 1)

(* Options with an "f" of their own, which come before the passes. *)
NotAPass ==
  \/ arg \in {"-fcommon", "-fno-common", "-fpic", "-fPIC", "-fdump-ir", "-ffunction-sections",
              "-fdata-sections", "-fno-function-sections", "-fno-data-sections"}
  \/ \E opt \in {"-fmax-passes=", "-fmax-iterations=", "-fopt-max-passes="} : Is(opt)
PassName == IF Is("-fno-") THEN Rest(arg, "-fno-") ELSE Rest(arg, "-f")
IsPass == Is("-f") /\ ~NotAPass /\ Named(PassName) # {}

TakePass ==
  /\ Reading
  /\ IsPass
  /\ Continue(opts, 1)
  /\ passes' = LET names == Named(PassName) IN ir_opt_set_pass_enabled(passes, names, ~Is("-fno-"))
  /\ UNCHANGED target

Ignored ==
  \/ (Is("-W") /\ ~Is("-Wl,")) \/ Is("-std=")
  \/ arg \in {"-ffreestanding", "-fno-builtin", "-fno-omit-frame-pointer", "-fno-stack-protector",
              "-fno-strict-aliasing", "-m64", "-mno-red-zone", "-w"}
TakeIgnored ==
  /\ Reading
  /\ \/ Is("-g") /\ Switch({"g"})
     \/ (Ignored /\ Take(opts, 1))

IsInput == ~StartsWith(arg, "-") \/ arg = "-"
TakeInputPath ==
  /\ Reading
  /\ IsInput
  /\ Take([opts EXCEPT !.input_paths = Append(@, arg)], 1)

(* Everything else is refused. *)
Known ==
  \/ IsInput \/ take_arg(arg) \/ IsPass \/ NotAPass \/ Ignored
  \/ arg \in {"-###", "-cc1", "--help", "-S", "-c", "-E", "-s", "-M", "-MP", "-MD", "-MQ", "-MMD",
              "-static", "-shared", "--dump-ir"}
  \/ \E opt \in {"--target=", "-mabi=", "-march=", "-o", "-I", "-D", "-U", "-x", "-l", "-Wl,", "-L", "-O",
                 "--max-passes=", "-g"} : Is(opt)
UnknownArgument ==
  /\ Reading
  /\ ~Known
  /\ Fail("error")

EndOfArguments ==
  /\ stage = "parse" /\ at > Len(argv)
  /\ opts' = [opts EXCEPT !.include_paths = @ \o opts.idirafter, !.x = IF "E" \in opts.on THEN "c" ELSE @]
  /\ stage' = IF opts.input_paths = <<>> /\ opts.base_file = Null THEN "error" ELSE "parsed"
  /\ UNCHANGED <<argv, at, passes, target, role, parent>>

(* cc1 adds its own directories; the copy kept for -MMD has those of -I as well. *)
add_default_include_paths ==
  LET paths == opts.include_paths \o
               <<"include", "sdk/include", "/usr/local/include", "/usr/include/x86_64-linux-gnu", "/usr/include">>
  IN [opts EXCEPT !.include_paths = paths, !.std_include_paths = paths]
StartCc1 ==
  /\ stage = "parsed" /\ "cc1" \in opts.on
  /\ opts' = [add_default_include_paths EXCEPT
                !.base_file = IF @ = Null /\ opts.input_paths # <<>> THEN Head(opts.input_paths) ELSE @]
  /\ stage' = "cc1"
  /\ UNCHANGED <<argv, at, passes, target, role, parent>>

(* Mutant: the input is left to the first one of the line. *)
run_cc1_Inputless(args, input, output) == args \o <<"-cc1">> \o (IF output = Null THEN <<>> ELSE <<"-cc1-output", output>>)
run_cc1(args, input, output) ==
  args \o <<"-cc1">> \o (IF input = Null THEN <<>> ELSE <<"-cc1-input", input>>)
       \o (IF output = Null THEN <<>> ELSE <<"-cc1-output", output>>)

(* main starts the compiler for one C input after the other; the output's name *)
(* does not matter here.                                                       *)
Compile ==
  /\ stage = "parsed" /\ role = "driver" /\ "cc1" \notin opts.on
  /\ ~(Len(opts.input_paths) > 1 /\ opts.o # Null /\ opts.on \cap {"c", "S", "E"} # {})
  /\ \E i \in DOMAIN opts.input_paths :
       LET input == opts.input_paths[i]
           output == IF opts.on \cap {"E", "M"} # {} THEN Null ELSE "/tmp/chibicc-" \o input
       IN /\ ~StartsWith(input, "-l") /\ ~StartsWith(input, "-Wl,")
          /\ opts.x = "c" \/ (opts.x = "none" /\ Len(input) > 2 /\ SubSeq(input, Len(input) - 1, Len(input)) = ".c")
          /\ Fresh(run_cc1(argv, input, output))
          /\ parent' = [opts |-> opts, passes |-> passes, target |-> target, input |-> input, output |-> output]
  /\ role' = "cc1"

ParseArgument ==
  \/ TakeTarget \/ TakeMode \/ TakePreprocessor \/ TakeForLinker \/ TakeDependency \/ TakeCc1
  \/ TakeLinking \/ TakeLevel \/ TakeLimit \/ TakeSections \/ TakePass \/ TakeIgnored
  \/ TakeInputPath \/ UnknownArgument \/ Crash
NextOption == CheckArguments \/ ParseArgument \/ EndOfArguments \/ StartCc1 \/ Compile

-----------------------------------------------------------------------------
(* Properties *)

(* The positions before k that parse_args read as options, not as values. *)
TakesValue(a) == take_arg(a) \/ a \in {"-L", "-MQ"}
IsOptionAt(k) == ~FoldLeft(LAMBDA due, a : ~due /\ TakesValue(a), FALSE, SubSeq(argv, 1, k - 1))

(* The passes an argument says something of, and what it says. *)
Level(a) == IF StartsWith(a, "-O") THEN LevelOf(a) ELSE -1
Mentions(a) ==
  CASE Level(a) # -1 -> ir_init_pass_registry
    [] StartsWith(a, "-fno-") -> Named(Rest(a, "-fno-"))
    [] StartsWith(a, "-f") -> Named(Rest(a, "-f"))
    [] OTHER -> {}
Wants(a, p) == IF Level(a) # -1 THEN p \in Expensive => Level(a) >= 2 ELSE ~StartsWith(a, "-fno-")

PassesFollow ==
  LET said == [k \in 1 .. Len(argv) |-> IF IsOptionAt(k) THEN Mentions(argv[k]) ELSE {}]
      leveled == {k \in 1 .. Len(argv) : IsOptionAt(k) /\ Level(argv[k]) # -1}
      latest(ks) == CHOOSE k \in ks : \A j \in ks : j <= k
  IN /\ \A p \in ir_init_pass_registry \ {"legalize-isel"} :
          LET words == {k \in DOMAIN said : p \in said[k]}
          IN passes[p] = IF words = {} THEN p \notin Expensive ELSE Wants(argv[latest(words)], p)
     /\ opts.O = IF leveled = {} THEN 0 ELSE Level(argv[latest(leveled)])

TypesFollow ==
  /\ target.abi \in {"sysv64", "win64", "win32"} => target.types = init_abis[target.abi]
  /\ target.abi = "sysv64" => \A t \in DOMAIN init_macros \ {"ldouble"} : init_macros[t] = target.types[t][1]

(***************************************************************************)
(* The last word counts.  Whatever the order of -O, -fname and -fno-name,  *)
(* a pass is enabled when the last argument that says something of it says *)
(* so, and opt_O is the last level: ir_opt_set_level and                   *)
(* ir_opt_set_pass_enabled only assign some of the flags each, on top of   *)
(* what is left of earlier arguments.  And after any series of -target,    *)
(* -mabi and -march the types have the sizes and alignments of the last    *)
(* ABI, and with the default one the __SIZEOF_ macros tell them, although  *)
(* init_types assigns them in variables all ABIs share.  Left out are      *)
(* legalize-isel, which llir_optimize runs without a look at its flag, the *)
(* 68k and Z80 ABIs, whose init_types skips long long, and                 *)
(* __SIZEOF_LONG_DOUBLE__, which says 8 of a type of 16 bytes.             *)
(***************************************************************************)
LastWordCounts == stage = "parsed" => PassesFollow /\ TypesFollow

(***************************************************************************)
(* The compiler that main starts for an input reads the same command line  *)
(* with run_cc1's options behind it, and comes to the same options, passes *)
(* and target, to its own input and output, and to no error.  A line that  *)
(* ends with -L is left out: it takes the -cc1 behind it for a directory.  *)
(***************************************************************************)
ChildAgrees ==
  role = "cc1" /\ Null \notin Range(parent.opts.ld_extra_args) =>
    /\ stage \in {"check", "parse", "parsed", "cc1"}
    /\ stage = "cc1" =>
         /\ passes = parent.passes /\ target = parent.target
         /\ opts = [parent.opts EXCEPT !.on = @ \cup {"cc1"}, !.base_file = parent.input,
                                       !.cc1_output_file = IF parent.output = Null THEN @ ELSE parent.output,
                                       !.include_paths = opts.include_paths,
                                       !.std_include_paths = opts.std_include_paths]
         /\ IsPrefix(parent.opts.include_paths, opts.include_paths)

(* What the command line says is what is compiled: parse_args, in the driver *)
(* and again in the compiler that run_cc1 starts.                            *)
CommandLineObeyed == LastWordCounts /\ ChildAgrees
=============================================================================
