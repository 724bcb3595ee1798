------------------------------ MODULE MCDriver ------------------------------
(***************************************************************************)
(* Two models of src/main.c in one run.  The driver: command lines of up   *)
(* to two inputs, in an environment without faults and with each fault by  *)
(* itself.  The options: every list of two units of the whole menu, and of *)
(* three of those about optimization or targets, before an input or        *)
(* behind it.                                                              *)
(***************************************************************************)
EXTENDS Driver, Options

MCEnvironments == {{}} \cup {{f} : f \in Faults}

Levels  == {<<"-O">>, <<"-O0">>, <<"-O1">>, <<"-O2">>, <<"-Os">>, <<"-Ofast">>, <<"-O10">>}
Passes  == {<<"-fdce">>, <<"-fno-dce">>, <<"-fno-all">>, <<"-fall">>, <<"-fhlir">>, <<"-fno-hlir_opt">>,
            <<"-fno-Tree_CSE">>, <<"-finline">>, <<"-fno-hlir-inlining">>, <<"-fno-verifier">>,
            <<"-fno-peephole2">>, <<"-fhlir-dse">>, <<"-fno-legalize-isel">>, <<"-flegalize-isel">>}
Aims    == {<<"-target", "x86_64">>, <<"--target", "m68k">>, <<"--target=z80">>, <<"-target", "amd64-win64">>,
            <<"-target", "mac-pascal">>, <<"--target=x86-64">>, <<"-mabi", "sysv64">>, <<"-mabi=win32">>,
            <<"-mabi", "win64">>, <<"-mabi=sys6">>, <<"-mabi", "arm">>, <<"-march", "m68k">>, <<"-march=x86_64">>,
            <<"-march=arm">>}
Others  == {<<"-###">>, <<"--help">>, <<"-o", "x">>, <<"-ox">>, <<"-o", "-O2">>, <<"-S">>, <<"-c">>, <<"-E">>, <<"-M">>,
            <<"-MD">>, <<"-MMD">>, <<"-MP">>, <<"-MF", "d">>, <<"-MT", "t">>, <<"-MQ", "a $#">>, <<"-fcommon">>,
            <<"-fno-common">>, <<"-Idir">>, <<"-I", "-L">>, <<"-idirafter", "dir">>, <<"-include", "h">>, <<"-DX=1">>,
            <<"-D", "X">>, <<"-UX">>, <<"-U", "-o">>, <<"-x", "c">>, <<"-xassembler">>, <<"-x", "f">>, <<"-lm">>,
            <<"-Wl,-z">>, <<"-Xlinker", "-z">>, <<"-s">>, <<"-static">>, <<"-shared">>, <<"-fPIC">>, <<"-L", "dir">>,
            <<"-L">>, <<"-MQ">>, <<"-Ldir">>, <<"-fdump-ir">>, <<"-fmax-passes=3">>, <<"--max-passes", "-1">>,
            <<"--max-passes=07x">>, <<"-ffunction-sections">>, <<"-fno-data-sections">>, <<"-fno-builtin">>,
            <<"-fno-such">>, <<"-g3">>, <<"-Wall">>, <<"-std=c11">>, <<"-bogus">>, <<"b.c">>, <<"-">>, <<"-o">>,
            <<"-cc1">>, <<"-cc1", "-cc1-input", "b.c">>, <<"-cc1-output", "y">>}
Menu    == Levels \cup Passes \cup Aims \cup Others

MCArgumentLists ==
  {u \o <<"a.c">> \o v : u, v \in Menu}
    \cup {u \o v \o w \o <<"a.c">> : u, v, w \in Levels \cup Passes}
    \cup {u \o v \o w \o <<"a.c">> : u, v, w \in Aims}
    \cup {<<"-f" \o n, "a.c">> : n \in UNION {Aliases[k].names : k \in DOMAIN Aliases}}
    \cup Menu

(* One of the models, the other at its end. *)
InitEither ==
  \/ /\ Init
     /\ argv = <<>> /\ at = 1 /\ opts = NoOptions /\ passes = <<>> /\ target = <<>>
     /\ stage = "none" /\ role = "driver" /\ parent = <<>>
  \/ /\ InitOptions
     /\ cmd = [mode |-> "c", o |-> FALSE, inputs |-> <<>>] /\ env = {} /\ next = 1 /\ todo = <<>>
     /\ ld_args = <<>> /\ tmpfiles = {} /\ fs = [p \in Paths |-> Absent]
     /\ procs = [own |-> NoProc, inherited |-> NoProc] /\ status = 0 /\ pc = "exited" /\ code = 0
NextEither == (Next /\ UNCHANGED optionVars) \/ (NextOption /\ UNCHANGED vars)
SpecEither == InitEither /\ [][NextEither]_<<vars, optionVars>> /\ Fairness
=============================================================================
