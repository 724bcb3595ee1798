------------------------------- MODULE Driver -------------------------------
(***************************************************************************)
(* The compiler driver of src/main.c: main() walks the inputs of the       *)
(* command line and runs one subprocess at a time (the compiler itself as  *)
(* "cc1", the assembler, the linker), with temporary files between the     *)
(* stages, a wait loop after each fork and an atexit handler that removes  *)
(* the temporary files.                                                    *)
(*                                                                         *)
(* The children run concurrently with the driver and fail wherever they    *)
(* may.  What the code does not control is the environment env: a child    *)
(* process the driver inherited across its own exec ("inherited"), a       *)
(* SIGCHLD disposition of "ignore" ("sigign"), a full disk ("full") and a  *)
(* platform without fork ("nofork").                                       *)
(***************************************************************************)
EXTENDS Integers, Sequences, FiniteSets

CONSTANTS MaxInputs,     \* bound on the number of inputs of a command line
          Environments   \* the environments considered, each a set of faults

ASSUME MaxInputsAssumption == MaxInputs \in Nat

Faults == {"inherited", "sigign", "full", "nofork"}

ASSUME EnvironmentsAssumption == Environments \subseteq SUBSET Faults

VARIABLES cmd,       \* the command line: mode, whether -o was given, inputs
          env,       \* the faults of the environment
          next,      \* main's loop index
          todo,      \* what is left to do for the current input
          ld_args,   \* what the linker will be given, in order
          tmpfiles,  \* the temporary files cleanup() will remove
          fs,        \* the files: state, and the inputs a file translates
          procs,     \* the child processes of the driver
          status,    \* what wait() stored last
          pc,        \* where the driver is
          code       \* its exit status

vars == <<cmd, env, next, todo, ld_args, tmpfiles, fs, procs, status, pc, code>>

-----------------------------------------------------------------------------
\* The kinds of an input: C source, assembly, something for the linker (an
\* object, archive, shared object, -l or -Wl), or an extension it cannot tell.
Kinds == {"c", "asm", "ld", "unknown"}

\* -M, -E, -S, -c and none of these; main tests them in this order.  With -E
\* every input is taken for C source, but for -l and -Wl.
Modes == {"M", "E", "S", "c", "link"}

CommandLines == [mode : Modes, o : BOOLEAN,
                 inputs : UNION {[1 .. n -> Kinds] : n \in 0 .. MaxInputs}]

\* A path: an input, the output named after an input, the k-th temporary file
\* (mkstemp never returns a name twice), the file of -o, a.out and stdout.
Path(kind, n) == [kind |-> kind, n |-> n]
Paths == [kind : {"in", "out", "tmp", "o", "a.out", "stdout"}, n : 0 .. 2 * MaxInputs]
Tmp(k) == Path("tmp", k)

Absent  == [state |-> "absent", from |-> {}]
Partial == [state |-> "partial", from |-> {}]
Complete(inputs) == [state |-> "complete", from |-> inputs]

NoProc == [state |-> "none", prog |-> "none", in |-> {}, out |-> Path("stdout", 0), code |-> 0]
Started(s) == [state |-> "forked", prog |-> s.prog, in |-> s.in, out |-> s.out, code |-> 0]

\* The inherited child is a process of its own; only its end matters.
Foreign == [NoProc EXCEPT !.state = "running"]

Init ==
  /\ cmd \in {c \in CommandLines : /\ Len(c.inputs) > 0
                                   /\ c.mode = "E" => \A i \in DOMAIN c.inputs : c.inputs[i] \in {"c", "ld"}}
  /\ env \in Environments
  /\ next = 1
  /\ todo = <<>>
  /\ ld_args = <<>>
  /\ tmpfiles = {}
  /\ fs = [p \in Paths |-> IF p.kind = "in" THEN Complete({p.n}) ELSE Absent]
  /\ procs = [own |-> NoProc,
              inherited |-> IF "inherited" \in env THEN Foreign ELSE NoProc]
  /\ status = 0
  /\ pc = "main"
  /\ code = 0

-----------------------------------------------------------------------------
\* exit(c): the atexit handler removes every registered temporary file.
cleanup == /\ fs' = [p \in Paths |-> IF p \in tmpfiles THEN Absent ELSE fs[p]]
           /\ tmpfiles' = {}

Exit(c) == /\ cleanup
           /\ pc' = "exited"
           /\ code' = c

\* What main does for an input, as the steps of its loop body.
Step(op, prog, in, out) == [op |-> op, prog |-> prog, in |-> in, out |-> out]
mktmp(k)           == Step("mktmp", "none", {}, Tmp(k))
run(prog, in, out) == Step("run", prog, in, out)
remove(p)          == Step("remove", "none", {}, p)
keep(p)            == Step("keep", "none", {}, p)

Output(i)  == IF cmd.o THEN Path("o", 0) ELSE Path("out", i)
Printed    == IF cmd.o THEN Path("o", 0) ELSE Path("stdout", 0)
Executable == IF cmd.o THEN Path("o", 0) ELSE Path("a.out", 0)

\* Plausible bug: the first temporary file is removed before "as" reads it.
LoopBody_EarlyRemove(i) ==
  IF cmd.inputs[i] # "c" \/ cmd.mode # "link" THEN <<>>
  ELSE <<mktmp(2 * i - 1), mktmp(2 * i), run("cc1", {Path("in", i)}, Tmp(2 * i - 1)),
         remove(Tmp(2 * i - 1)), run("as", {Tmp(2 * i - 1)}, Tmp(2 * i)), keep(Tmp(2 * i))>>

LoopBody(i) ==
  LET in == Path("in", i)
      t1 == Tmp(2 * i - 1)
      t2 == Tmp(2 * i)
      kind == cmd.inputs[i]
  IN  CASE kind = "ld" -> <<keep(in)>>
        [] kind = "asm" /\ cmd.mode = "S" -> <<>>
        [] kind = "asm" /\ cmd.mode # "S" -> <<run("as", {in}, Output(i))>>
        [] kind = "c" /\ cmd.mode \in {"E", "M"} -> <<run("cc1", {in}, Printed)>>
        [] kind = "c" /\ cmd.mode = "S" -> <<run("cc1", {in}, Output(i))>>
        [] kind = "c" /\ cmd.mode = "c" ->
             <<mktmp(t1.n), run("cc1", {in}, t1), run("as", {t1}, Output(i)), remove(t1)>>
        [] kind = "c" /\ cmd.mode = "link" ->
             <<mktmp(t1.n), mktmp(t2.n), run("cc1", {in}, t1), run("as", {t1}, t2),
               remove(t1), keep(t2)>>

\* "cannot specify '-o' with ... multiple files".
Conflict == Len(cmd.inputs) > 1 /\ cmd.o /\ cmd.mode \in {"c", "S", "E"}

RejectCommand ==
  /\ pc = "main" /\ next = 1 /\ todo = <<>>
  /\ Conflict
  /\ Exit(1)
  /\ UNCHANGED <<cmd, env, next, todo, ld_args, procs, status>>

UnknownExtension ==
  /\ pc = "main" /\ todo = <<>>
  /\ ~Conflict
  /\ next <= Len(cmd.inputs) /\ cmd.inputs[next] = "unknown"
  /\ Exit(1)
  /\ UNCHANGED <<cmd, env, next, todo, ld_args, procs, status>>

TakeInput ==
  /\ pc = "main" /\ todo = <<>>
  /\ ~Conflict
  /\ next <= Len(cmd.inputs) /\ cmd.inputs[next] # "unknown"
  /\ todo' = LoopBody(next)
  /\ next' = next + 1
  /\ UNCHANGED <<cmd, env, ld_args, tmpfiles, fs, procs, status, pc, code>>

\* After the loop: link when anything was collected, whatever the mode.
TakeLink ==
  /\ pc = "main" /\ todo = <<>>
  /\ next = Len(cmd.inputs) + 1
  /\ ld_args # <<>>
  /\ todo' = <<run("ld", {ld_args[k] : k \in DOMAIN ld_args}, Executable)>>
  /\ next' = next + 1
  /\ UNCHANGED <<cmd, env, ld_args, tmpfiles, fs, procs, status, pc, code>>

\* find_libpath and find_gcc_libpath end the driver when they find nothing.
LinkPathsMissing ==
  /\ pc = "main" /\ todo = <<>>
  /\ next = Len(cmd.inputs) + 1
  /\ ld_args # <<>>
  /\ Exit(1)
  /\ UNCHANGED <<cmd, env, next, todo, ld_args, procs, status>>

Finish ==
  /\ pc = "main" /\ todo = <<>>
  /\ next > Len(cmd.inputs)
  /\ next = Len(cmd.inputs) + 1 => ld_args = <<>>
  /\ Exit(0)
  /\ UNCHANGED <<cmd, env, next, todo, ld_args, procs, status>>

Doing(op) == pc = "main" /\ todo # <<>> /\ Head(todo).op = op
Done      == todo' = Tail(todo)

\* Plausible bug: the file is not registered for cleanup().
create_tmpfile_Unregistered ==
  /\ Doing("mktmp")
  /\ fs' = [fs EXCEPT ![Head(todo).out] = Partial]
  /\ tmpfiles' = tmpfiles
  /\ Done
  /\ UNCHANGED <<cmd, env, next, ld_args, procs, status, pc, code>>

create_tmpfile ==
  /\ Doing("mktmp")
  /\ fs' = [fs EXCEPT ![Head(todo).out] = Partial]
  /\ tmpfiles' = tmpfiles \cup {Head(todo).out}
  /\ Done
  /\ UNCHANGED <<cmd, env, next, ld_args, procs, status, pc, code>>

\* mkstemp failed in every directory it was tried in.
NoTmpfile ==
  /\ Doing("mktmp")
  /\ Exit(1)
  /\ UNCHANGED <<cmd, env, next, todo, ld_args, procs, status>>

RemoveTmpfile ==
  /\ Doing("remove")
  /\ fs' = [fs EXCEPT ![Head(todo).out] = Absent]
  /\ Done
  /\ UNCHANGED <<cmd, env, next, ld_args, tmpfiles, procs, status, pc, code>>

KeepForLinker ==
  /\ Doing("keep")
  /\ ld_args' = Append(ld_args, Head(todo).out)
  /\ Done
  /\ UNCHANGED <<cmd, env, next, tmpfiles, fs, procs, status, pc, code>>

-----------------------------------------------------------------------------
\* run_subprocess: fork, or the synchronous spawnvp where fork is missing.
run_subprocess ==
  /\ Doing("run")
  /\ procs' = [procs EXCEPT !.own = Started(Head(todo))]
  /\ pc' = IF "nofork" \in env THEN "spawnvp" ELSE "wait"
  /\ UNCHANGED <<cmd, env, next, todo, ld_args, tmpfiles, fs, status, code>>

\* One return of wait() in "while (wait(&status) > 0);": any ended child.
\* With SIGCHLD ignored the kernel reaps the children and wait stores nothing.
Reap(p) ==
  /\ pc = "wait"
  /\ "sigign" \notin env
  /\ procs[p].state = "exited"
  /\ status' = procs[p].code
  /\ procs' = [procs EXCEPT ![p] = NoProc]
  /\ UNCHANGED <<cmd, env, next, todo, ld_args, tmpfiles, fs, pc, code>>

\* Plausible bug: the status of the child is not looked at.
Judge_Ignored(s) ==
  /\ pc' = "main"
  /\ Done
  /\ UNCHANGED <<cmd, env, next, ld_args, tmpfiles, fs, code>>

\* "if (status != 0) exit(1)".
Judge(s) ==
  IF s # 0
    THEN /\ Exit(1)
         /\ UNCHANGED <<cmd, env, next, todo, ld_args>>
    ELSE /\ pc' = "main"
         /\ Done
         /\ UNCHANGED <<cmd, env, next, ld_args, tmpfiles, fs, code>>

\* Plausible bug: "while (wait(&status));" does not end on wait's -1.
WaitFails_Again == pc = "wait" /\ UNCHANGED vars

\* wait() has no child left and fails.
WaitFails ==
  /\ pc = "wait"
  /\ "sigign" \notin env
  /\ \A p \in DOMAIN procs : procs[p].state = "none"
  /\ Judge(status)
  /\ UNCHANGED <<procs, status>>

\* ... and status is still uninitialized when the kernel reaped the children.
WaitFailsUnset ==
  /\ pc = "wait"
  /\ "sigign" \in env
  /\ \A p \in DOMAIN procs : procs[p].state \in {"none", "exited"}
  /\ \E s \in {0, 1} : status' = s /\ Judge(s)
  /\ procs' = [p \in DOMAIN procs |-> NoProc]

SpawnReturns ==
  /\ pc = "spawnvp"
  /\ procs.own.state = "exited"
  /\ Judge(procs.own.code)
  /\ procs' = [procs EXCEPT !.own = NoProc]
  /\ UNCHANGED status

-----------------------------------------------------------------------------
\* The children.  Only files, the child's state and its status can change.
ChildFrame == UNCHANGED <<cmd, env, next, todo, ld_args, tmpfiles, status, pc, code>>

own == procs.own
OwnBecomes(state, c) == procs' = [procs EXCEPT !.own = [own EXCEPT !.state = state, !.code = c]]

Alive == pc \in {"wait", "spawnvp"}

\* The child's execvp; when it fails the child _exits, so that the atexit
\* handler does not run in it.
Exec ==
  /\ Alive /\ own.state = "forked"
  /\ OwnBecomes("running", 0)
  /\ fs' = fs
  /\ ChildFrame

ExecFails ==
  /\ Alive /\ own.state = "forked"
  /\ OwnBecomes("exited", 1)
  /\ fs' = fs
  /\ ChildFrame

\* cc1 opens its output only after it has parsed its input: codegen writes as
\* it goes.  as and ld open theirs the same way.
OpenOutput ==
  /\ Alive /\ own.state = "running"
  /\ OwnBecomes("writing", 0)
  /\ fs' = [fs EXCEPT ![own.out] = Partial]
  /\ ChildFrame

\* A diagnosed error, a failed assertion or a signal, at any time.  cc1 leaves
\* what it wrote; the binary utilities may remove theirs.
ChildFails ==
  /\ Alive /\ own.state \in {"running", "writing"}
  /\ OwnBecomes("exited", 1)
  /\ \/ fs' = fs
     \/ own.prog # "cc1" /\ fs' = [fs EXCEPT ![own.out] = Absent]
  /\ ChildFrame

\* What a complete run writes: the translation of what its inputs hold.
Translation(in) ==
  IF \A p \in in : fs[p].state = "complete"
    THEN Complete(UNION {fs[p].from : p \in in})
    ELSE Complete({})

ChildSucceeds ==
  /\ Alive /\ own.state = "writing"
  /\ OwnBecomes("exited", 0)
  /\ fs' = [fs EXCEPT ![own.out] = Translation(own.in)]
  /\ ChildFrame

\* cc1 checks neither fprintf nor fclose: on a full disk it reports success
\* and leaves a truncated file.
DiskFull ==
  /\ Alive /\ own.state = "writing" /\ own.prog = "cc1"
  /\ "full" \in env
  /\ OwnBecomes("exited", 0)
  /\ fs' = fs
  /\ ChildFrame

InheritedEnds ==
  /\ pc \notin {"exited", "killed"}
  /\ procs.inherited.state = "running"
  /\ \E c \in {0, 1} :
       procs' = [procs EXCEPT !.inherited = [procs.inherited EXCEPT !.state = "exited", !.code = c]]
  /\ fs' = fs
  /\ ChildFrame

\* A signal ends the driver without its atexit handlers.
Killed ==
  /\ pc \notin {"exited", "killed"}
  /\ pc' = "killed"
  /\ UNCHANGED <<cmd, env, next, todo, ld_args, tmpfiles, fs, procs, status, code>>

-----------------------------------------------------------------------------
Main == \/ RejectCommand \/ UnknownExtension \/ TakeInput \/ TakeLink \/ LinkPathsMissing \/ Finish
        \/ create_tmpfile \/ NoTmpfile \/ RemoveTmpfile \/ KeepForLinker
        \/ run_subprocess
        \/ \E p \in {"own", "inherited"} : Reap(p)
        \/ WaitFails \/ WaitFailsUnset \/ SpawnReturns

Child == Exec \/ ExecFails \/ OpenOutput \/ ChildFails \/ ChildSucceeds \/ DiskFull

Next == Main \/ Child \/ InheritedEnds \/ Killed

\* The driver runs, and so do the programs it starts: each of them ends.
\* Nothing is assumed of an inherited child or of the signals.
Fairness == WF_vars(Main) /\ WF_vars(Child)

Spec == Init /\ [][Next]_vars /\ Fairness

-----------------------------------------------------------------------------
Steps == [op : {"mktmp", "run", "remove", "keep"}, prog : {"none", "cc1", "as", "ld"},
          in : SUBSET Paths, out : Paths]
Processes == [state : {"none", "forked", "running", "writing", "exited"},
              prog : {"none", "cc1", "as", "ld"}, in : SUBSET Paths, out : Paths,
              code : {0, 1}]

TypeOK ==
  /\ cmd \in CommandLines
  /\ env \in SUBSET Faults
  /\ next \in 1 .. MaxInputs + 2
  /\ todo \in Seq(Steps)
  /\ ld_args \in Seq(Paths)
  /\ tmpfiles \in SUBSET Paths
  /\ fs \in [Paths -> [state : {"absent", "partial", "complete"}, from : SUBSET (0 .. 2 * MaxInputs)]]
  /\ procs \in [own : Processes, inherited : Processes]
  /\ status \in {0, 1}
  /\ pc \in {"main", "wait", "spawnvp", "exited", "killed"}
  /\ code \in {0, 1}

Ended == pc \in {"exited", "killed"}

\* When the driver ends by itself, normally or because a child failed (the
\* exit(1) of run_subprocess, src/main.c:611), none of its temporary files is
\* left, in whatever environment it ran.
NoTmpfileLeft ==
  pc = "exited" => \A p \in Paths : p.kind = "tmp" => fs[p] = Absent

\* Faults the code does not detect; src/main.c:610 takes the last status.
Reliable == env \cap {"inherited", "sigign", "full"} = {}

\* A stage starts only on files an earlier stage has completed: the linker and
\* the assembler never see a partial, removed or stale file.
StagesReadCompleteFiles ==
  Reliable /\ own.state # "none" => \A p \in own.in : fs[p].state = "complete" /\ fs[p].from # {}

\* The file an input's translation is for.  Assembly given to a linking
\* command is assembled but never linked (src/main.c:985).
ResultOf(i) ==
  CASE cmd.inputs[i] = "c" /\ cmd.mode \in {"E", "M"} -> Printed
    [] cmd.inputs[i] = "c" /\ cmd.mode \in {"S", "c"} -> Output(i)
    [] OTHER -> Executable

\* -M -o with several inputs, or -o with something for the linker beside -M,
\* -c or -S, makes two results of one file: the later one wins.
Shared(i) == \E j \in DOMAIN cmd.inputs \ {i} : ResultOf(j) = ResultOf(i)

\* Exit status 0 means that every input has been translated and that the file
\* it was translated into holds its complete translation, however the children
\* interleaved with the wait loop (src/main.c:610).
ExitStatusHonest ==
  pc = "exited" /\ code = 0 /\ Reliable =>
    \A i \in DOMAIN cmd.inputs :
      cmd.inputs[i] # "asm" /\ (cmd.mode = "link" \/ ~Shared(i)) =>
        i \in fs[ResultOf(i)].from

\* The driver ends, unless a child it inherited never does: the wait loop
\* waits for that one too.
DriverEnds == procs.inherited.state # "running" ~> Ended
=============================================================================
