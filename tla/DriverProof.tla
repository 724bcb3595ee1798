----------------------------- MODULE DriverProof -----------------------------
(* Machine-checked proofs about Driver: for every number of inputs, every     *)
(* command line and every environment of the driver, the temporary files are *)
(* removed however a child fails, no stage reads a file before the stage     *)
(* that makes it has completed it, and exit status 0 means that every input  *)
(* has its result.                                                           *)
(*                                                                           *)
(* The list todo is unfolded by input: a state of main()'s loop is the input *)
(* in hand (Current), what its body is (Body) and how much of the body is    *)
(* left (Len(todo)).  The inductive invariant SafeInv, near the end, says    *)
(* what each of these states implies for the child that runs (OwnInv), the   *)
(* list of temporary files (TmpInv) and the file system (FilesInv).          *)
EXTENDS Driver, TLAPS

-----------------------------------------------------------------------------
(* The loop of main(), unfolded. *)

(* The input in hand, once next is past it. *)
Current == next - 1
Inputs  == DOMAIN cmd.inputs
Is(i, kind) == i \in Inputs /\ cmd.inputs[i] = kind
(* A C source under -E, -M, -S, -c or none of them. *)
Takes(i, mode) == Is(i, "c") /\ cmd.mode = mode

(* run_linker, with what was collected. *)
LinkStep == run("ld", {ld_args[k] : k \in DOMAIN ld_args}, Executable)

(* All the steps of the input in hand, or of the linker after the last. *)
Body == IF Current \in Inputs THEN LoopBody(Current)
        ELSE IF next = Len(cmd.inputs) + 2 THEN <<LinkStep>> ELSE <<>>

(* todo is the rest of Body, and every input so far was acceptable. *)
ShapeInv ==
  /\ next \in 1 .. Len(cmd.inputs) + 2
  /\ Len(todo) <= Len(Body)
  /\ \A k \in 1 .. Len(todo) : todo[k] = Body[k + Len(Body) - Len(todo)]
  /\ \A i \in Inputs : i < next => cmd.inputs[i] # "unknown"
  /\ next > 1 => ~Conflict

-----------------------------------------------------------------------------
(* Types. *)

(* The command line by component. *)
LEMMA CommandTyped ==
  ASSUME TypeOK
  PROVE  /\ cmd.mode \in Modes
         /\ cmd.o \in BOOLEAN
         /\ Len(cmd.inputs) \in 0 .. MaxInputs
         /\ Inputs = 1 .. Len(cmd.inputs)
         /\ \A i \in Inputs : i \in 1 .. MaxInputs /\ cmd.inputs[i] \in Kinds
         /\ next \in Nat \ {0}
<1>1. PICK n \in 0 .. MaxInputs : cmd.inputs \in [1 .. n -> Kinds]
  BY DEF TypeOK, CommandLines
<1>2. cmd.mode \in Modes /\ cmd.o \in BOOLEAN
  BY DEF TypeOK, CommandLines
<1>3. cmd.inputs \in Seq(Kinds) /\ Len(cmd.inputs) = n
  BY <1>1, MaxInputsAssumption
<1>4. next \in Nat \ {0}
  BY MaxInputsAssumption DEF TypeOK
<1>5. QED
  BY <1>1, <1>2, <1>3, <1>4, MaxInputsAssumption DEF Inputs

(* Every file named for an input is a path of the model. *)
LEMMA PathsOfInput ==
  ASSUME TypeOK, NEW i \in Inputs
  PROVE  /\ Path("in", i) \in Paths
         /\ Tmp(2 * i - 1) \in Paths
         /\ Tmp(2 * i) \in Paths
         /\ Output(i) \in Paths
         /\ Printed \in Paths
<1>1. i \in 1 .. MaxInputs
  BY CommandTyped
<1>2. \A kind \in {"in", "out", "tmp", "o", "a.out", "stdout"}, n \in 0 .. 2 * MaxInputs :
        Path(kind, n) \in Paths
  BY DEF Path, Paths
<1>3. i \in 0 .. 2 * MaxInputs /\ 2 * i - 1 \in 0 .. 2 * MaxInputs /\ 2 * i \in 0 .. 2 * MaxInputs
      /\ 0 \in 0 .. 2 * MaxInputs
  BY <1>1, MaxInputsAssumption
<1>4. QED
  BY <1>2, <1>3 DEF Tmp, Output, Printed

(* The loop body of each kind of input. *)
LEMMA BodyOfObject ==
  ASSUME NEW i, Is(i, "ld")
  PROVE  LoopBody(i) = <<keep(Path("in", i))>>
BY DEF LoopBody, Is

LEMMA BodyOfAssembly ==
  ASSUME NEW i, Is(i, "asm")
  PROVE  LoopBody(i) = IF cmd.mode = "S" THEN <<>>
                       ELSE <<run("as", {Path("in", i)}, Output(i))>>
BY DEF LoopBody, Is

LEMMA BodyOfPrinted ==
  ASSUME NEW i, Takes(i, "E") \/ Takes(i, "M")
  PROVE  LoopBody(i) = <<run("cc1", {Path("in", i)}, Printed)>>
BY DEF LoopBody, Is, Takes

LEMMA BodyOfCompiled ==
  ASSUME NEW i, Takes(i, "S")
  PROVE  LoopBody(i) = <<run("cc1", {Path("in", i)}, Output(i))>>
BY DEF LoopBody, Is, Takes

LEMMA BodyOfAssembled ==
  ASSUME NEW i, Takes(i, "c"), i \in Nat
  PROVE  LoopBody(i) =
           <<mktmp(2 * i - 1), run("cc1", {Path("in", i)}, Tmp(2 * i - 1)),
             run("as", {Tmp(2 * i - 1)}, Output(i)), remove(Tmp(2 * i - 1))>>
<1>1. Tmp(2 * i - 1).n = 2 * i - 1
  BY DEF Tmp, Path
<1>2. QED
  BY <1>1 DEF LoopBody, Is, Takes

LEMMA BodyOfLinked ==
  ASSUME NEW i, Takes(i, "link"), i \in Nat
  PROVE  LoopBody(i) =
           <<mktmp(2 * i - 1), mktmp(2 * i), run("cc1", {Path("in", i)}, Tmp(2 * i - 1)),
             run("as", {Tmp(2 * i - 1)}, Tmp(2 * i)), remove(Tmp(2 * i - 1)), keep(Tmp(2 * i))>>
<1>1. Tmp(2 * i - 1).n = 2 * i - 1 /\ Tmp(2 * i).n = 2 * i
  BY DEF Tmp, Path
<1>2. QED
  BY <1>1 DEF LoopBody, Is, Takes

(* The two bodies with more than one step. *)
LEMMA LengthOfBody ==
  ASSUME NEW i \in Nat
  PROVE  /\ Takes(i, "c") => Len(LoopBody(i)) = 4
         /\ Takes(i, "link") => Len(LoopBody(i)) = 6
<1>1. ASSUME Takes(i, "c")
      PROVE  Len(LoopBody(i)) = 4
  <2>1. \A a, b, c, d : Len(<<a, b, c, d>>) = 4
    OBVIOUS
  <2>2. QED
    BY <1>1, <2>1, BodyOfAssembled, Zenon
<1>2. ASSUME Takes(i, "link")
      PROVE  Len(LoopBody(i)) = 6
  <2>1. \A a, b, c, d, e, f : Len(<<a, b, c, d, e, f>>) = 6
    OBVIOUS
  <2>2. QED
    BY <1>2, <2>1, BodyOfLinked, Zenon
<1>3. QED
  BY <1>1, <1>2, Zenon

(* An input that main() accepts is handled in one of these ways. *)
LEMMA InputSorts ==
  ASSUME TypeOK, NEW i \in Inputs, cmd.inputs[i] # "unknown"
  PROVE  \/ Is(i, "ld") \/ Is(i, "asm") \/ Takes(i, "E") \/ Takes(i, "M") \/ Takes(i, "S")
         \/ Takes(i, "c") \/ Takes(i, "link")
BY CommandTyped DEF Is, Takes, Kinds, Modes

(* Every step of a loop body is a step on paths that exist. *)
LEMMA StepTyped ==
  ASSUME NEW i \in SUBSET Paths, NEW o \in Paths
  PROVE  /\ \A prog \in {"cc1", "as", "ld"} : run(prog, i, o) \in Steps
         /\ keep(o) \in Steps /\ remove(o) \in Steps
         /\ \A k : Tmp(k) = o => mktmp(k) \in Steps
BY DEF run, keep, remove, mktmp, Step, Steps

(* The lists of steps the bodies are written with. *)
LEMMA ShortSequences ==
  ASSUME NEW S, NEW a \in S, NEW b \in S, NEW c \in S, NEW d \in S, NEW e \in S, NEW f \in S
  PROVE  /\ <<a>> \in Seq(S)
         /\ <<a, b, c, d>> \in Seq(S)
         /\ <<a, b, c, d, e, f>> \in Seq(S)
OBVIOUS

(* The whole body is a list of steps. *)
LEMMA BodyTyped ==
  ASSUME TypeOK, NEW i \in Inputs, cmd.inputs[i] # "unknown"
  PROVE  LoopBody(i) \in Seq(Steps)
<1> DEFINE in == Path("in", i)
           t1 == Tmp(2 * i - 1)
           t2 == Tmp(2 * i)
<1> i \in Nat
  BY CommandTyped
<1>1. in \in Paths /\ t1 \in Paths /\ t2 \in Paths /\ Output(i) \in Paths /\ Printed \in Paths
  BY PathsOfInput
<1>2. /\ keep(in) \in Steps /\ keep(t2) \in Steps /\ remove(t1) \in Steps
      /\ mktmp(2 * i - 1) \in Steps /\ mktmp(2 * i) \in Steps
  <2>1. {} \in SUBSET Paths
    OBVIOUS
  <2>2. QED
    BY <1>1, <2>1, StepTyped
<1>3. /\ run("as", {in}, Output(i)) \in Steps
      /\ run("cc1", {in}, Printed) \in Steps
      /\ run("cc1", {in}, Output(i)) \in Steps
      /\ run("cc1", {in}, t1) \in Steps
      /\ run("as", {t1}, Output(i)) \in Steps
      /\ run("as", {t1}, t2) \in Steps
  <2>1. {in} \in SUBSET Paths /\ {t1} \in SUBSET Paths
    BY <1>1
  <2>2. QED
    BY <1>1, <2>1, StepTyped
<1> HIDE DEF in, t1, t2
<1>4. CASE Is(i, "ld")
  <2>1. LoopBody(i) = <<keep(in)>>
    BY <1>4, BodyOfObject DEF in
  <2>2. QED
    BY <1>2, <2>1, ShortSequences
<1>5. CASE Is(i, "asm")
  <2>1. LoopBody(i) = IF cmd.mode = "S" THEN <<>> ELSE <<run("as", {in}, Output(i))>>
    BY <1>5, BodyOfAssembly DEF in
  <2>2. QED
    BY <1>3, <2>1, ShortSequences
<1>6. CASE Takes(i, "E") \/ Takes(i, "M")
  <2>1. LoopBody(i) = <<run("cc1", {in}, Printed)>>
    BY <1>6, BodyOfPrinted DEF in
  <2>2. QED
    BY <1>3, <2>1, ShortSequences
<1>7. CASE Takes(i, "S")
  <2>1. LoopBody(i) = <<run("cc1", {in}, Output(i))>>
    BY <1>7, BodyOfCompiled DEF in
  <2>2. QED
    BY <1>3, <2>1, ShortSequences
<1>8. CASE Takes(i, "c")
  <2>1. LoopBody(i) = <<mktmp(2 * i - 1), run("cc1", {in}, t1), run("as", {t1}, Output(i)), remove(t1)>>
    BY <1>8, BodyOfAssembled DEF in, t1
  <2>2. QED
    BY <1>2, <1>3, <2>1, ShortSequences
<1>9. CASE Takes(i, "link")
  <2>1. LoopBody(i) = <<mktmp(2 * i - 1), mktmp(2 * i), run("cc1", {in}, t1), run("as", {t1}, t2),
                        remove(t1), keep(t2)>>
    BY <1>9, BodyOfLinked DEF in, t1, t2
  <2>2. QED
    BY <1>2, <1>3, <2>1, ShortSequences
<1>10. QED
  BY <1>4, <1>5, <1>6, <1>7, <1>8, <1>9, InputSorts

(* So is the step of the linker. *)
LEMMA LinkStepTyped ==
  ASSUME TypeOK
  PROVE  Executable \in Paths /\ LinkStep \in Steps
<1>1. Executable \in Paths
  BY CommandTyped, MaxInputsAssumption DEF Executable, Path, Paths
<1>2. {ld_args[k] : k \in DOMAIN ld_args} \in SUBSET Paths
  BY DEF TypeOK
<1>3. QED
  BY <1>1, <1>2, StepTyped DEF LinkStep

(* What is first on the list of a typed driver. *)
LEMMA HeadTyped ==
  ASSUME TypeOK, todo # <<>>
  PROVE  /\ Head(todo) \in Steps /\ Tail(todo) \in Seq(Steps)
         /\ Head(todo).out \in Paths /\ Head(todo).in \in SUBSET Paths
         /\ Head(todo).prog \in {"none", "cc1", "as", "ld"}
<1>1. Head(todo) \in Steps /\ Tail(todo) \in Seq(Steps)
  BY DEF TypeOK
<1>2. QED
  BY <1>1 DEF Steps

(* The files and processes of a typed driver, by component. *)
LEMMA FileTypes ==
  /\ Absent \in [state : {"absent", "partial", "complete"}, from : SUBSET (0 .. 2 * MaxInputs)]
  /\ Partial \in [state : {"absent", "partial", "complete"}, from : SUBSET (0 .. 2 * MaxInputs)]
  /\ \A s \in SUBSET (0 .. 2 * MaxInputs) :
       Complete(s) \in [state : {"absent", "partial", "complete"}, from : SUBSET (0 .. 2 * MaxInputs)]
BY DEF Absent, Partial, Complete

LEMMA ProcessTypes ==
  /\ NoProc \in Processes
  /\ Foreign \in Processes
  /\ \A s \in Steps : Started(s) \in Processes
<1>1. Path("stdout", 0) \in Paths
  BY MaxInputsAssumption DEF Path, Paths
<1>2. {} \in SUBSET Paths
  OBVIOUS
<1>3. NoProc \in Processes /\ Foreign \in Processes
  BY <1>1, <1>2 DEF NoProc, Processes, Foreign
<1>4. ASSUME NEW s \in Steps
      PROVE  Started(s) \in Processes
  BY DEF Started, Steps, Processes
<1>5. QED
  BY <1>3, <1>4

(* exit() removes files and sets the exit status, nothing else. *)
LEMMA ExitTyped ==
  ASSUME TypeOK, NEW c \in {0, 1}, Exit(c)
  PROVE  /\ tmpfiles' \in SUBSET Paths
         /\ fs' \in [Paths -> [state : {"absent", "partial", "complete"}, from : SUBSET (0 .. 2 * MaxInputs)]]
         /\ pc' = "exited" /\ code' \in {0, 1}
BY FileTypes DEF TypeOK, Exit, cleanup

(* The child's own step: its state and its code, nothing else of the record. *)
LEMMA OwnTyped ==
  ASSUME TypeOK, NEW s \in {"running", "writing", "exited"}, NEW c \in {0, 1}, OwnBecomes(s, c)
  PROVE  /\ procs' \in [own : Processes, inherited : Processes]
         /\ own'.state = s /\ own'.code = c
         /\ own'.prog = own.prog /\ own'.in = own.in /\ own'.out = own.out
         /\ procs'.inherited = procs.inherited
<1>1. own \in Processes /\ procs.inherited \in Processes
      /\ procs \in [own : Processes, inherited : Processes]
  BY DEF TypeOK, own
<1> DEFINE new == [own EXCEPT !.state = s, !.code = c]
<1>2. /\ new \in Processes
      /\ new.state = s /\ new.code = c
      /\ new.prog = own.prog /\ new.in = own.in /\ new.out = own.out
  BY <1>1 DEF Processes
<1> HIDE DEF new
<1>3. procs' = [procs EXCEPT !.own = new]
  BY DEF OwnBecomes, new
<1>4. QED
  BY <1>1, <1>2, <1>3 DEF own

(* What a child writes is the content of a file. *)
LEMMA TranslationTyped ==
  ASSUME TypeOK
  PROVE  Translation(own.in) \in [state : {"absent", "partial", "complete"}, from : SUBSET (0 .. 2 * MaxInputs)]
<1>1. own.in \in SUBSET Paths
  BY DEF TypeOK, own, Processes
<1>2. UNION {fs[p].from : p \in own.in} \in SUBSET (0 .. 2 * MaxInputs)
  BY <1>1 DEF TypeOK
<1>3. QED
  BY <1>2, FileTypes DEF Translation

(* The driver starts typed. *)
LEMMA TypeInit == Init => TypeOK
<1> SUFFICES ASSUME Init PROVE TypeOK
  OBVIOUS
<1>1. fs \in [Paths -> [state : {"absent", "partial", "complete"}, from : SUBSET (0 .. 2 * MaxInputs)]]
  <2>1. \A p \in Paths : {p.n} \in SUBSET (0 .. 2 * MaxInputs)
    BY DEF Paths
  <2>2. QED
    BY <2>1, FileTypes DEF Init
<1>2. procs \in [own : Processes, inherited : Processes]
  BY ProcessTypes DEF Init
<1>3. cmd \in CommandLines /\ env \in SUBSET Faults
  BY EnvironmentsAssumption DEF Init
<1>4. /\ next \in 1 .. MaxInputs + 2 /\ todo \in Seq(Steps) /\ ld_args \in Seq(Paths)
      /\ tmpfiles \in SUBSET Paths /\ status \in {0, 1} /\ code \in {0, 1}
      /\ pc \in {"main", "wait", "spawnvp", "exited", "killed"}
  BY MaxInputsAssumption DEF Init
<1>5. QED
  BY <1>1, <1>2, <1>3, <1>4 DEF TypeOK

(* While a subprocess is waited for, its step is still on the list. *)
Awaited == pc \in {"wait", "spawnvp"} => todo # <<>> /\ Head(todo).op = "run"

(* run_subprocess returns to main() or exits. *)
LEMMA JudgeTyped ==
  ASSUME TypeOK, todo # <<>>, NEW s \in {0, 1}, Judge(s)
  PROVE  /\ todo' \in Seq(Steps) /\ pc' \in {"main", "exited"} /\ code' \in {0, 1}
         /\ tmpfiles' \in SUBSET Paths
         /\ fs' \in [Paths -> [state : {"absent", "partial", "complete"}, from : SUBSET (0 .. 2 * MaxInputs)]]
         /\ cmd' = cmd /\ env' = env /\ next' = next /\ ld_args' = ld_args
<1>1. CASE s = 0
  BY <1>1, HeadTyped DEF Judge, Done, TypeOK
<1>2. CASE s # 0
  BY <1>2, ExitTyped DEF Judge, TypeOK
<1>3. QED
  BY <1>1, <1>2

(* Every step of main() keeps the types. *)
LEMMA TypeStepMain == TypeOK /\ Awaited /\ Main => TypeOK'
<1> SUFFICES ASSUME TypeOK, Awaited, Main PROVE TypeOK'
  OBVIOUS
<1> USE DEF TypeOK
<1>1. CASE RejectCommand
  BY <1>1, ExitTyped DEF RejectCommand
<1>2. CASE UnknownExtension
  BY <1>2, ExitTyped DEF UnknownExtension
<1>3. CASE TakeInput
  <2>1. next \in Inputs /\ cmd.inputs[next] # "unknown" /\ todo' = LoopBody(next)
    BY <1>3, CommandTyped DEF TakeInput
  <2>2. todo' \in Seq(Steps)
    BY <2>1, BodyTyped
  <2>3. next' \in 1 .. MaxInputs + 2
    BY <1>3, CommandTyped, MaxInputsAssumption DEF TakeInput
  <2>4. QED
    BY <1>3, <2>2, <2>3 DEF TakeInput
<1>4. CASE TakeLink
  <2>1. todo' = <<LinkStep>>
    BY <1>4 DEF TakeLink, LinkStep
  <2>2. todo' \in Seq(Steps)
    BY <2>1, LinkStepTyped, ShortSequences
  <2>3. next' \in 1 .. MaxInputs + 2
    BY <1>4, CommandTyped, MaxInputsAssumption DEF TakeLink
  <2>4. QED
    BY <1>4, <2>2, <2>3 DEF TakeLink
<1>5. CASE LinkPathsMissing
  BY <1>5, ExitTyped DEF LinkPathsMissing
<1>6. CASE Finish
  BY <1>6, ExitTyped DEF Finish
<1>7. CASE create_tmpfile
  BY <1>7, HeadTyped, FileTypes DEF create_tmpfile, Doing, Done
<1>8. CASE NoTmpfile
  BY <1>8, ExitTyped DEF NoTmpfile
<1>9. CASE RemoveTmpfile
  BY <1>9, HeadTyped, FileTypes DEF RemoveTmpfile, Doing, Done
<1>10. CASE KeepForLinker
  BY <1>10, HeadTyped DEF KeepForLinker, Doing, Done
<1>11. CASE run_subprocess
  BY <1>11, HeadTyped, ProcessTypes DEF run_subprocess, Doing
<1>12. ASSUME NEW p \in {"own", "inherited"}, Reap(p)
       PROVE  TypeOK'
  <2>1. procs[p] \in Processes
    OBVIOUS
  <2>2. procs[p].code \in {0, 1}
    BY <2>1 DEF Processes
  <2>3. procs' \in [own : Processes, inherited : Processes]
    BY <1>12, ProcessTypes DEF Reap
  <2>4. QED
    BY <1>12, <2>2, <2>3 DEF Reap
<1>13. CASE WaitFails
  BY <1>13, JudgeTyped DEF WaitFails, Awaited
<1>14. CASE WaitFailsUnset
  <2>1. PICK s \in {0, 1} : status' = s /\ Judge(s)
    BY <1>14 DEF WaitFailsUnset
  <2>2. procs' \in [own : Processes, inherited : Processes]
    BY <1>14, ProcessTypes DEF WaitFailsUnset
  <2>3. QED
    BY <1>14, <2>1, <2>2, JudgeTyped DEF WaitFailsUnset, Awaited
<1>15. CASE SpawnReturns
  <2>1. procs.own \in Processes
    OBVIOUS
  <2>2. procs.own.code \in {0, 1}
    BY <2>1 DEF Processes
  <2>3. procs' \in [own : Processes, inherited : Processes]
    BY <1>15, ProcessTypes DEF SpawnReturns
  <2>4. QED
    BY <1>15, <2>2, <2>3, JudgeTyped DEF SpawnReturns, Awaited
<1>16. QED
  BY <1>1, <1>2, <1>3, <1>4, <1>5, <1>6, <1>7, <1>8, <1>9, <1>10, <1>11, <1>12, <1>13, <1>14, <1>15
  DEF Main

(* A step of the children changes files and processes only. *)
LEMMA TypeStepChild == TypeOK /\ (Child \/ InheritedEnds \/ Killed) => TypeOK'
<1> SUFFICES ASSUME TypeOK, Child \/ InheritedEnds \/ Killed PROVE TypeOK'
  OBVIOUS
<1> DEFINE Files == [Paths -> [state : {"absent", "partial", "complete"}, from : SUBSET (0 .. 2 * MaxInputs)]]
<1>1. ASSUME ChildFrame, fs' \in Files, procs' \in [own : Processes, inherited : Processes]
      PROVE  TypeOK'
  BY <1>1 DEF ChildFrame, TypeOK
<1>2. own \in Processes /\ own.out \in Paths /\ fs \in Files
  BY DEF TypeOK, own, Processes
<1>3. CASE Exec
  BY <1>1, <1>2, <1>3, OwnTyped DEF Exec
<1>4. CASE ExecFails
  BY <1>1, <1>2, <1>4, OwnTyped DEF ExecFails
<1>5. CASE OpenOutput
  <2>1. fs' \in Files
    BY <1>2, <1>5, FileTypes DEF OpenOutput
  <2>2. QED
    BY <1>1, <1>5, <2>1, OwnTyped DEF OpenOutput
<1>6. CASE ChildFails
  <2>1. fs' \in Files
    BY <1>2, <1>6, FileTypes DEF ChildFails
  <2>2. QED
    BY <1>1, <1>6, <2>1, OwnTyped DEF ChildFails
<1>7. CASE ChildSucceeds
  <2>1. fs' \in Files
    BY <1>2, <1>7, TranslationTyped DEF ChildSucceeds
  <2>2. QED
    BY <1>1, <1>7, <2>1, OwnTyped DEF ChildSucceeds
<1>8. CASE DiskFull
  BY <1>1, <1>2, <1>8, OwnTyped DEF DiskFull
<1>9. CASE InheritedEnds
  <2>1. PICK c \in {0, 1} :
          procs' = [procs EXCEPT !.inherited = [procs.inherited EXCEPT !.state = "exited", !.code = c]]
    BY <1>9 DEF InheritedEnds
  <2>2. procs.inherited \in Processes
    BY DEF TypeOK
  <2>3. [procs.inherited EXCEPT !.state = "exited", !.code = c] \in Processes
    BY <2>2 DEF Processes
  <2>4. procs' \in [own : Processes, inherited : Processes]
    BY <2>1, <2>3 DEF TypeOK
  <2>5. QED
    BY <1>1, <1>2, <1>9, <2>4 DEF InheritedEnds
<1>10. CASE Killed
  BY <1>10 DEF Killed, TypeOK
<1>11. QED
  BY <1>3, <1>4, <1>5, <1>6, <1>7, <1>8, <1>9, <1>10 DEF Child

-----------------------------------------------------------------------------
-----------------------------------------------------------------------------
(* The list of steps. *)

(* What the list of steps begins with. *)

(* The first step left is the one at its place in the body. *)
LEMMA HeadInBody ==
  ASSUME TypeOK, ShapeInv, todo # <<>>
  PROVE  /\ Len(todo) \in 1 .. Len(Body)
         /\ Head(todo) = Body[1 + Len(Body) - Len(todo)]
<1>1. todo \in Seq(Steps)
  BY DEF TypeOK
<1>2. Len(todo) \in Nat \ {0} /\ Head(todo) = todo[1]
  BY <1>1
<1>3. Body \in Seq(Steps)
  <2>1. CASE Current \in Inputs
    BY <2>1, BodyTyped, CommandTyped DEF Body, ShapeInv, Current
  <2>2. CASE Current \notin Inputs
    BY <2>2, LinkStepTyped, ShortSequences DEF Body
  <2>3. QED
    BY <2>1, <2>2
<1>4. QED
  BY <1>1, <1>2, <1>3 DEF ShapeInv

(* After the inputs it is the linker. *)
LEMMA HeadOfLink ==
  ASSUME TypeOK, ShapeInv, todo # <<>>, Current \notin Inputs
  PROVE  /\ next = Len(cmd.inputs) + 2 /\ Len(todo) = 1
         /\ Head(todo) = LinkStep
<1>1. next = Len(cmd.inputs) + 2
  <2>1. CASE next # Len(cmd.inputs) + 2
    <3>1. Body = <<>>
      BY <2>1 DEF Body
    <3>2. QED
      BY <3>1, HeadInBody
  <2>2. QED
    BY <2>1
<1>2. Body = <<LinkStep>>
  BY <1>1 DEF Body
<1>3. Len(Body) = 1 /\ Body[1] = LinkStep
  BY <1>2
<1>4. Len(todo) \in 1 .. Len(Body) /\ Head(todo) = Body[1 + Len(Body) - Len(todo)]
  BY HeadInBody
<1>5. Len(todo) = 1
  BY <1>3, <1>4
<1>6. Len(todo) = 1 /\ Head(todo) = Body[1 + 1 - 1]
  BY <1>3, <1>4, <1>5
<1>7. QED
  BY <1>1, <1>3, <1>6

(* What is first for each kind of input, by the number of steps left. *)
LEMMA HeadOfOne ==
  ASSUME TypeOK, ShapeInv, todo # <<>>, Current \in Inputs, NEW s, LoopBody(Current) = <<s>>
  PROVE  Len(todo) = 1 /\ Head(todo) = s
<1>1. Body = <<s>>
  BY DEF Body
<1>2. Len(Body) = 1 /\ Body[1] = s
  BY <1>1
<1>3. Len(todo) \in 1 .. Len(Body) /\ Head(todo) = Body[1 + Len(Body) - Len(todo)]
  BY HeadInBody
<1>4. Len(todo) = 1
  BY <1>2, <1>3
<1>5. Head(todo) = Body[1 + 1 - 1]
  BY <1>2, <1>3, <1>4
<1>6. QED
  BY <1>2, <1>4, <1>5

LEMMA HeadOfObject ==
  ASSUME TypeOK, ShapeInv, todo # <<>>, Is(Current, "ld")
  PROVE  Len(todo) = 1 /\ Head(todo) = keep(Path("in", Current))
BY BodyOfObject, HeadOfOne DEF Is

LEMMA HeadOfAssembly ==
  ASSUME TypeOK, ShapeInv, todo # <<>>, Is(Current, "asm")
  PROVE  /\ cmd.mode # "S" /\ Len(todo) = 1
         /\ Head(todo) = run("as", {Path("in", Current)}, Output(Current))
<1>1. Current \in Inputs
  BY DEF Is
<1>2. cmd.mode # "S"
  <2>1. CASE cmd.mode = "S"
    <3>1. Body = <<>>
      BY <1>1, <2>1, BodyOfAssembly DEF Body
    <3>2. Len(Body) = 0
      BY <3>1
    <3>3. QED
      BY <3>2, HeadInBody
  <2>2. QED
    BY <2>1
<1>3. QED
  BY <1>1, <1>2, BodyOfAssembly, HeadOfOne

LEMMA HeadOfPrinted ==
  ASSUME TypeOK, ShapeInv, todo # <<>>, Takes(Current, "E") \/ Takes(Current, "M")
  PROVE  /\ Len(todo) = 1
         /\ Head(todo) = run("cc1", {Path("in", Current)}, Printed)
BY BodyOfPrinted, HeadOfOne DEF Is, Takes

LEMMA HeadOfCompiled ==
  ASSUME TypeOK, ShapeInv, todo # <<>>, Takes(Current, "S")
  PROVE  /\ Len(todo) = 1
         /\ Head(todo) = run("cc1", {Path("in", Current)}, Output(Current))
BY BodyOfCompiled, HeadOfOne DEF Is, Takes

LEMMA HeadOfAssembled ==
  ASSUME TypeOK, ShapeInv, todo # <<>>, Takes(Current, "c")
  PROVE  /\ Len(todo) \in 1 .. 4
         /\ Len(todo) = 4 => Head(todo) = mktmp(2 * Current - 1)
         /\ Len(todo) = 3 => Head(todo) = run("cc1", {Path("in", Current)}, Tmp(2 * Current - 1))
         /\ Len(todo) = 2 => Head(todo) = run("as", {Tmp(2 * Current - 1)}, Output(Current))
         /\ Len(todo) = 1 => Head(todo) = remove(Tmp(2 * Current - 1))
<1>1. Current \in Nat /\ Current \in Inputs
  BY CommandTyped DEF Takes, Is
<1>2. Body = <<mktmp(2 * Current - 1), run("cc1", {Path("in", Current)}, Tmp(2 * Current - 1)),
               run("as", {Tmp(2 * Current - 1)}, Output(Current)), remove(Tmp(2 * Current - 1))>>
  BY <1>1, BodyOfAssembled DEF Body
<1>3. Len(Body) = 4 /\ Len(todo) \in 1 .. 4 /\ Head(todo) = Body[5 - Len(todo)]
  <2>1. Len(Body) = 4
    BY <1>2
  <2>2. QED
    BY <2>1, HeadInBody
<1>4. Len(todo) = 1 => Head(todo) = Body[4]
  BY <1>3
<1>5. Len(todo) = 2 => Head(todo) = Body[3]
  BY <1>3
<1>6. Len(todo) = 3 => Head(todo) = Body[2]
  BY <1>3
<1>7. Len(todo) = 4 => Head(todo) = Body[1]
  BY <1>3
<1>8. QED
  BY <1>2, <1>3, <1>4, <1>5, <1>6, <1>7

LEMMA HeadOfLinked ==
  ASSUME TypeOK, ShapeInv, todo # <<>>, Takes(Current, "link")
  PROVE  /\ Len(todo) \in 1 .. 6
         /\ Len(todo) = 6 => Head(todo) = mktmp(2 * Current - 1)
         /\ Len(todo) = 5 => Head(todo) = mktmp(2 * Current)
         /\ Len(todo) = 4 => Head(todo) = run("cc1", {Path("in", Current)}, Tmp(2 * Current - 1))
         /\ Len(todo) = 3 => Head(todo) = run("as", {Tmp(2 * Current - 1)}, Tmp(2 * Current))
         /\ Len(todo) = 2 => Head(todo) = remove(Tmp(2 * Current - 1))
         /\ Len(todo) = 1 => Head(todo) = keep(Tmp(2 * Current))
<1>1. Current \in Nat /\ Current \in Inputs
  BY CommandTyped DEF Takes, Is
<1>2. Body = <<mktmp(2 * Current - 1), mktmp(2 * Current),
               run("cc1", {Path("in", Current)}, Tmp(2 * Current - 1)),
               run("as", {Tmp(2 * Current - 1)}, Tmp(2 * Current)),
               remove(Tmp(2 * Current - 1)), keep(Tmp(2 * Current))>>
  BY <1>1, BodyOfLinked DEF Body
<1>3. Len(Body) = 6 /\ Len(todo) \in 1 .. 6 /\ Head(todo) = Body[7 - Len(todo)]
  <2>1. Len(Body) = 6
    BY <1>2
  <2>2. QED
    BY <2>1, HeadInBody
<1>4. Len(todo) = 1 => Head(todo) = Body[6]
  BY <1>3
<1>5. Len(todo) = 2 => Head(todo) = Body[5]
  BY <1>3
<1>6. Len(todo) = 3 => Head(todo) = Body[4]
  BY <1>3
<1>7. Len(todo) = 4 => Head(todo) = Body[3]
  BY <1>3
<1>8. Len(todo) = 5 => Head(todo) = Body[2]
  BY <1>3
<1>9. Len(todo) = 6 => Head(todo) = Body[1]
  BY <1>3
<1>10. QED
  BY <1>2, <1>3, <1>4, <1>5, <1>6, <1>7, <1>8, <1>9

(* The steps by operation. *)
LEMMA Operations ==
  /\ \A k : mktmp(k).op = "mktmp" /\ mktmp(k).out = Tmp(k)
  /\ \A p : remove(p).op = "remove" /\ remove(p).out = p
  /\ \A p : keep(p).op = "keep" /\ keep(p).out = p
  /\ \A prog, i, o : /\ run(prog, i, o).op = "run" /\ run(prog, i, o).prog = prog
                     /\ run(prog, i, o).in = i /\ run(prog, i, o).out = o
BY DEF mktmp, remove, keep, run, Step

(* What is being done when the first step is the given operation: the input *)
(* it is done for and how much of its body is left.                         *)
Assembling(n) == Takes(Current, "c") /\ Len(todo) = n
Linking(n)    == Takes(Current, "link") /\ Len(todo) = n

(* With steps left there is an input in hand, or the linker is. *)
LEMMA SortOfCurrent ==
  ASSUME TypeOK, ShapeInv, Current \in Inputs
  PROVE  \/ Is(Current, "ld") \/ Is(Current, "asm") \/ Takes(Current, "E") \/ Takes(Current, "M")
         \/ Takes(Current, "S") \/ Takes(Current, "c") \/ Takes(Current, "link")
BY InputSorts, CommandTyped DEF ShapeInv, Current

(* A temporary file is made for the input in hand. *)
LEMMA Making ==
  ASSUME TypeOK, ShapeInv, todo # <<>>, Head(todo).op = "mktmp"
  PROVE  \/ Assembling(4) /\ Head(todo).out = Tmp(2 * Current - 1)
         \/ Linking(6) /\ Head(todo).out = Tmp(2 * Current - 1)
         \/ Linking(5) /\ Head(todo).out = Tmp(2 * Current)
BY SortOfCurrent, Operations, HeadOfLink, HeadOfObject, HeadOfAssembly, HeadOfPrinted, HeadOfCompiled,
   HeadOfAssembled, HeadOfLinked DEF Assembling, Linking, LinkStep

(* The assembly of the input in hand is removed. *)
LEMMA Removing ==
  ASSUME TypeOK, ShapeInv, todo # <<>>, Head(todo).op = "remove"
  PROVE  /\ Assembling(1) \/ Linking(2)
         /\ Head(todo).out = Tmp(2 * Current - 1)
BY SortOfCurrent, Operations, HeadOfLink, HeadOfObject, HeadOfAssembly, HeadOfPrinted, HeadOfCompiled,
   HeadOfAssembled, HeadOfLinked DEF Assembling, Linking, LinkStep

(* A file of the input in hand is kept for the linker. *)
LEMMA Keeping ==
  ASSUME TypeOK, ShapeInv, todo # <<>>, Head(todo).op = "keep"
  PROVE  /\ Len(todo) = 1
         /\ \/ Is(Current, "ld") /\ Head(todo).out = Path("in", Current)
            \/ Takes(Current, "link") /\ Head(todo).out = Tmp(2 * Current)
BY SortOfCurrent, Operations, HeadOfLink, HeadOfObject, HeadOfAssembly, HeadOfPrinted, HeadOfCompiled,
   HeadOfAssembled, HeadOfLinked DEF Assembling, Linking, LinkStep

(* A program is run on the input itself, on what cc1 made of it, or on what *)
(* was collected for the linker.                                            *)
LEMMA Running ==
  ASSUME TypeOK, ShapeInv, todo # <<>>, Head(todo).op = "run"
  PROVE  \/ /\ Current \notin Inputs /\ next = Len(cmd.inputs) + 2 /\ Len(todo) = 1
            /\ Head(todo).in = {ld_args[k] : k \in DOMAIN ld_args}
            /\ Head(todo).out = Executable
         \/ /\ Is(Current, "asm") /\ cmd.mode # "S" /\ Len(todo) = 1
            /\ Head(todo).in = {Path("in", Current)} /\ Head(todo).out = Output(Current)
         \/ /\ Takes(Current, "E") \/ Takes(Current, "M")
            /\ Len(todo) = 1
            /\ Head(todo).in = {Path("in", Current)} /\ Head(todo).out = Printed
         \/ /\ Takes(Current, "S") /\ Len(todo) = 1
            /\ Head(todo).in = {Path("in", Current)} /\ Head(todo).out = Output(Current)
         \/ /\ Assembling(3) \/ Linking(4)
            /\ Head(todo).in = {Path("in", Current)} /\ Head(todo).out = Tmp(2 * Current - 1)
         \/ /\ Assembling(2)
            /\ Head(todo).in = {Tmp(2 * Current - 1)} /\ Head(todo).out = Output(Current)
         \/ /\ Linking(3)
            /\ Head(todo).in = {Tmp(2 * Current - 1)} /\ Head(todo).out = Tmp(2 * Current)
BY SortOfCurrent, Operations, HeadOfLink, HeadOfObject, HeadOfAssembly, HeadOfPrinted, HeadOfCompiled,
   HeadOfAssembled, HeadOfLinked DEF Assembling, Linking, LinkStep

-----------------------------------------------------------------------------
(* The list of steps is what is left of the body of the current input. *)

(* Steps of the children leave the body alone. *)
LEMMA BodyStays ==
  ASSUME cmd' = cmd, next' = next, ld_args' = ld_args \/ Current \in Inputs
  PROVE  Body' = Body
<1>1. /\ Current' = Current /\ Inputs' = Inputs
      /\ Executable' = Executable /\ Printed' = Printed
      /\ \A i : Output(i)' = Output(i)
  BY DEF Current, Inputs, Executable, Printed, Output
<1>2. LoopBody(Current)' = LoopBody(Current)
  BY <1>1 DEF LoopBody
<1>3. CASE Current \in Inputs
  BY <1>1, <1>2, <1>3 DEF Body
<1>4. CASE ld_args' = ld_args
  <2>1. LinkStep' = LinkStep
    BY <1>1, <1>4 DEF LinkStep
  <2>2. QED
    BY <1>1, <1>2, <2>1 DEF Body
<1>5. QED
  BY <1>3, <1>4

(* So they leave the shape alone, *)
LEMMA ShapeStays ==
  ASSUME ShapeInv, cmd' = cmd, next' = next, todo' = todo, ld_args' = ld_args
  PROVE  ShapeInv'
BY BodyStays DEF ShapeInv, Inputs, Conflict

(* dropping the first step keeps it, *)
LEMMA ShapeOfTail ==
  ASSUME TypeOK, ShapeInv, todo # <<>>, todo' = Tail(todo),
         cmd' = cmd, next' = next, ld_args' = ld_args \/ Current \in Inputs
  PROVE  ShapeInv'
<1>1. Body' = Body
  BY BodyStays
<1>2. /\ Len(todo) \in Nat \ {0}
      /\ Len(todo') = Len(todo) - 1
      /\ \A k \in 1 .. Len(todo') : todo'[k] = todo[k + 1]
  BY DEF TypeOK
<1>3. Len(Body) \in Nat
  BY HeadInBody, <1>2
<1>4. Len(todo') <= Len(Body)
  BY <1>2, <1>3 DEF ShapeInv
<1>5. \A k \in 1 .. Len(todo') : todo'[k] = Body[k + Len(Body) - Len(todo')]
  <2>1. TAKE k \in 1 .. Len(todo')
  <2>2. k + 1 \in 1 .. Len(todo) /\ k + 1 + Len(Body) - Len(todo) = k + Len(Body) - Len(todo')
    BY <1>2, <1>3
  <2>3. todo[k + 1] = Body[(k + 1) + Len(Body) - Len(todo)]
    BY <2>2 DEF ShapeInv
  <2>4. QED
    BY <1>2, <2>2, <2>3
<1>6. QED
  BY <1>1, <1>4, <1>5 DEF ShapeInv, Inputs, Conflict

(* and so does taking up the next input. *)
LEMMA ShapeOfBody ==
  ASSUME todo' \in Seq(Steps), todo' = Body', next' \in 1 .. Len(cmd'.inputs) + 2,
         \A i \in Inputs' : i < next' => cmd'.inputs[i] # "unknown",
         ~Conflict'
  PROVE  ShapeInv'
BY DEF ShapeInv

(* Every step keeps it. *)
LEMMA ShapeStep ==
  ASSUME TypeOK, ShapeInv, Awaited, [Next]_vars, TypeOK'
  PROVE  ShapeInv'
<1>1. CASE RejectCommand \/ UnknownExtension \/ LinkPathsMissing \/ Finish \/ NoTmpfile
  BY <1>1, ShapeStays DEF RejectCommand, UnknownExtension, LinkPathsMissing, Finish, NoTmpfile
<1>2. CASE TakeInput
  <2>1. next \in Inputs /\ cmd.inputs[next] # "unknown" /\ todo' = LoopBody(next)
        /\ cmd' = cmd /\ next' = next + 1 /\ ~Conflict
    BY <1>2, CommandTyped DEF TakeInput
  <2>2. todo' = Body'
    <3>1. Current' = next
      BY <2>1, CommandTyped DEF Current
    <3>2. LoopBody(next) = LoopBody(Current)'
      BY <2>1, <3>1 DEF LoopBody, Output, Printed
    <3>3. QED
      BY <2>1, <3>1, <3>2 DEF Body, Inputs
  <2>3. \A i \in Inputs : i < next' => cmd.inputs[i] # "unknown"
    BY <2>1, CommandTyped DEF ShapeInv
  <2>4. ~Conflict'
    BY <2>1 DEF Conflict
  <2>5. next' \in 1 .. Len(cmd'.inputs) + 2
    BY <2>1, CommandTyped
  <2>6. todo' \in Seq(Steps)
    BY DEF TypeOK
  <2>7. QED
    BY <2>1, <2>2, <2>3, <2>4, <2>5, <2>6, ShapeOfBody DEF Inputs
<1>3. CASE TakeLink
  <2>1. /\ next = Len(cmd.inputs) + 1 /\ next' = next + 1 /\ todo' = <<LinkStep>>
        /\ cmd' = cmd /\ ld_args' = ld_args
    BY <1>3 DEF TakeLink, LinkStep
  <2>2. todo' = Body'
    <3>1. Current' \notin Inputs' /\ next' = Len(cmd'.inputs) + 2
      BY <2>1, CommandTyped DEF Current, Inputs
    <3>2. LinkStep' = LinkStep
      BY <2>1 DEF LinkStep, Executable
    <3>3. QED
      BY <2>1, <3>1, <3>2 DEF Body
  <2>3. Len(todo') = 1 /\ Len(Body') = 1
    BY <2>1, <2>2
  <2>4. next \in Nat /\ next' \in 1 .. Len(cmd'.inputs) + 2
    BY <2>1, CommandTyped
  <2>5. \A i \in Inputs : i < next
    BY <2>1, CommandTyped
  <2>6. Conflict' = Conflict
    BY <2>1 DEF Conflict
  <2>7. Conflict => next > 1
    BY <2>1, CommandTyped DEF Conflict
  <2>8. \A i \in Inputs' : cmd'.inputs[i] # "unknown"
    BY <2>1, <2>5 DEF ShapeInv, Inputs
  <2>9. todo' \in Seq(Steps)
    BY DEF TypeOK
  <2>10. QED
    BY <2>2, <2>4, <2>6, <2>7, <2>8, <2>9, ShapeOfBody DEF ShapeInv
<1>4. CASE create_tmpfile \/ RemoveTmpfile
  BY <1>4, ShapeOfTail DEF create_tmpfile, RemoveTmpfile, Doing, Done
<1>5. CASE KeepForLinker
  <2>1. todo # <<>> /\ Head(todo).op = "keep" /\ todo' = Tail(todo) /\ cmd' = cmd /\ next' = next
    BY <1>5 DEF KeepForLinker, Doing, Done
  <2>2. Current \in Inputs
    BY <2>1, Keeping DEF Is, Takes
  <2>3. QED
    BY <2>1, <2>2, ShapeOfTail
<1>6. CASE run_subprocess \/ (\E p \in {"own", "inherited"} : Reap(p))
  BY <1>6, ShapeStays DEF run_subprocess, Reap
<1>7. ASSUME NEW s, Judge(s), pc \in {"wait", "spawnvp"}
      PROVE  ShapeInv'
  <2>1. CASE s # 0
    BY <1>7, <2>1, ShapeStays DEF Judge
  <2>2. CASE s = 0
    BY <1>7, <2>2, ShapeOfTail DEF Judge, Done, Awaited
  <2>3. QED
    BY <2>1, <2>2
<1>8. CASE WaitFails \/ WaitFailsUnset \/ SpawnReturns
  BY <1>7, <1>8 DEF WaitFails, WaitFailsUnset, SpawnReturns
<1>9. CASE Child \/ InheritedEnds
  BY <1>9, ShapeStays DEF Child, Exec, ExecFails, OpenOutput, ChildFails, ChildSucceeds, DiskFull,
                          InheritedEnds, ChildFrame
<1>10. CASE Killed \/ UNCHANGED vars
  BY <1>10, ShapeStays DEF Killed, vars
<1>11. QED
  BY <1>1, <1>2, <1>3, <1>4, <1>5, <1>6, <1>8, <1>9, <1>10 DEF Next, Main

(* A step is dropped only after its subprocess was waited for. *)
LEMMA AwaitedStep ==
  ASSUME TypeOK, Awaited, [Next]_vars
  PROVE  Awaited'
<1>1. CASE RejectCommand \/ UnknownExtension \/ LinkPathsMissing \/ Finish \/ NoTmpfile
  BY <1>1 DEF RejectCommand, UnknownExtension, LinkPathsMissing, Finish, NoTmpfile, Exit, Awaited
<1>2. CASE TakeInput \/ TakeLink \/ create_tmpfile \/ RemoveTmpfile \/ KeepForLinker
  BY <1>2 DEF TakeInput, TakeLink, create_tmpfile, RemoveTmpfile, KeepForLinker, Doing, Awaited
<1>3. CASE run_subprocess
  BY <1>3 DEF run_subprocess, Doing, Awaited
<1>4. CASE \E p \in {"own", "inherited"} : Reap(p)
  BY <1>4 DEF Reap, Awaited
<1>5. CASE WaitFails \/ WaitFailsUnset \/ SpawnReturns
  BY <1>5 DEF WaitFails, WaitFailsUnset, SpawnReturns, Judge, Exit, Awaited
<1>6. CASE Child \/ InheritedEnds
  BY <1>6 DEF Child, Exec, ExecFails, OpenOutput, ChildFails, ChildSucceeds, DiskFull,
              InheritedEnds, ChildFrame, Awaited
<1>7. CASE Killed \/ UNCHANGED vars
  BY <1>7 DEF Killed, vars, Awaited
<1>8. QED
  BY <1>1, <1>2, <1>3, <1>4, <1>5, <1>6, <1>7 DEF Next, Main

-----------------------------------------------------------------------------
-----------------------------------------------------------------------------
(* The child. *)

(* The child that runs is the one of the first step, and without an *)
(* inherited child there is no other.                               *)
OwnIsHead ==
  /\ todo # <<>>
  /\ Head(todo).op = "run"
  /\ own.in = Head(todo).in /\ own.out = Head(todo).out

OwnInv ==
  /\ own.state # "none" => pc \in {"wait", "spawnvp", "killed"} /\ OwnIsHead
  /\ "inherited" \notin env => procs.inherited.state = "none"

(* main() between two children. *)
LEMMA OwnStays ==
  ASSUME OwnInv, procs' = procs, env' = env, todo' = todo, pc' = pc \/ own.state = "none"
  PROVE  OwnInv'
BY DEF OwnInv, OwnIsHead, own

(* No child, nothing to say. *)
LEMMA NoOwn ==
  ASSUME OwnInv, env' = env, procs'.own = NoProc, procs'.inherited \in {procs.inherited, NoProc}
  PROVE  OwnInv'
BY DEF OwnInv, own, NoProc

(* Every step keeps it. *)
LEMMA OwnStep ==
  ASSUME TypeOK, OwnInv, [Next]_vars
  PROVE  OwnInv'
<1>1. procs \in [own : Processes, inherited : Processes]
  BY DEF TypeOK
<1>2. pc \in {"main", "exited"} => own.state = "none"
  BY DEF OwnInv
<1>3. CASE RejectCommand \/ UnknownExtension \/ LinkPathsMissing \/ Finish \/ NoTmpfile
  BY <1>2, <1>3, OwnStays DEF RejectCommand, UnknownExtension, LinkPathsMissing, Finish, NoTmpfile, Doing
<1>4. CASE TakeInput \/ TakeLink \/ create_tmpfile \/ RemoveTmpfile \/ KeepForLinker
  BY <1>2, <1>4 DEF TakeInput, TakeLink, create_tmpfile, RemoveTmpfile, KeepForLinker, Doing,
                    OwnInv, own
<1>5. CASE run_subprocess
  <2>1. /\ procs'.own = Started(Head(todo)) /\ procs'.inherited = procs.inherited
        /\ pc' \in {"wait", "spawnvp"} /\ todo' = todo /\ env' = env
        /\ todo # <<>> /\ Head(todo).op = "run"
    BY <1>1, <1>5 DEF run_subprocess, Doing
  <2>2. own'.in = Head(todo').in /\ own'.out = Head(todo').out
    BY <2>1 DEF own, Started
  <2>3. QED
    BY <2>1, <2>2 DEF OwnInv, OwnIsHead
<1>6. ASSUME NEW p \in {"own", "inherited"}, Reap(p)
      PROVE  OwnInv'
  <2>1. CASE p = "own"
    BY <1>1, <1>6, <2>1, NoOwn DEF Reap
  <2>2. CASE p = "inherited"
    <3>1. procs'.own = procs.own /\ procs'.inherited = NoProc
      BY <1>1, <1>6, <2>2 DEF Reap
    <3>2. QED
      BY <1>6, <3>1 DEF Reap, OwnInv, OwnIsHead, own, NoProc
  <2>3. QED
    BY <2>1, <2>2
<1>7. CASE WaitFails
  <2>1. own.state = "none" /\ procs' = procs /\ env' = env
    BY <1>1, <1>7 DEF WaitFails, own, Judge
  <2>2. QED
    BY <2>1 DEF OwnInv, own
<1>8. CASE WaitFailsUnset
  BY <1>1, <1>8, NoOwn DEF WaitFailsUnset, Judge
<1>9. CASE SpawnReturns
  BY <1>1, <1>9, NoOwn DEF SpawnReturns, Judge
<1>10. CASE Child
  <2>1. own.state # "none" /\ ChildFrame
    BY <1>10 DEF Child, Exec, ExecFails, OpenOutput, ChildFails, ChildSucceeds, DiskFull
  <2>2. \E s \in {"running", "writing", "exited"}, c \in {0, 1} : OwnBecomes(s, c)
    BY <1>10 DEF Child, Exec, ExecFails, OpenOutput, ChildFails, ChildSucceeds, DiskFull
  <2>3. own'.in = own.in /\ own'.out = own.out /\ procs'.inherited = procs.inherited
    BY <2>2, OwnTyped
  <2>4. QED
    BY <2>1, <2>3 DEF OwnInv, OwnIsHead, ChildFrame
<1>11. CASE InheritedEnds
  <2>1. procs.inherited.state # "none" /\ procs'.own = procs.own /\ ChildFrame
    BY <1>1, <1>11 DEF InheritedEnds
  <2>2. QED
    BY <2>1 DEF OwnInv, OwnIsHead, own, ChildFrame
<1>12. CASE Killed
  BY <1>12 DEF Killed, OwnInv, OwnIsHead, own
<1>13. CASE UNCHANGED vars
  BY <1>13, OwnStays DEF vars
<1>14. QED
  BY <1>3, <1>4, <1>5, <1>6, <1>7, <1>8, <1>9, <1>10, <1>11, <1>12, <1>13 DEF Next, Main

(* The steps of the children, as one: the only file that changes is the *)
(* output of the child, and it is the output of the first step.         *)
LEMMA ChildWrites ==
  ASSUME TypeOK, OwnInv, Child
  PROVE  /\ ChildFrame
         /\ pc \in {"wait", "spawnvp"} /\ OwnIsHead
         /\ \A p \in Paths : p # Head(todo).out => fs'[p] = fs[p]
<1>1. /\ ChildFrame /\ pc \in {"wait", "spawnvp"} /\ own.state # "none"
      /\ \A p \in Paths : p # own.out => fs'[p] = fs[p]
  BY DEF Child, Exec, ExecFails, OpenOutput, ChildFails, ChildSucceeds, DiskFull, Alive, TypeOK
<1>2. QED
  BY <1>1 DEF OwnInv, OwnIsHead

-----------------------------------------------------------------------------
-----------------------------------------------------------------------------
(* The temporary files. *)

(* The temporary files: every one that may exist is registered for cleanup. *)
TmpInv ==
  /\ pc = "exited" => \A p \in Paths : p.kind = "tmp" => fs[p] = Absent
  /\ pc # "exited" => \A p \in Paths : p.kind = "tmp" /\ fs[p] # Absent => p \in tmpfiles
  /\ \A p \in tmpfiles : p.kind = "tmp"
  /\ pc # "exited" /\ Takes(Current, "c") /\ Len(todo) <= 3 => Tmp(2 * Current - 1) \in tmpfiles
  /\ pc # "exited" /\ Takes(Current, "link") /\ Len(todo) <= 5 => Tmp(2 * Current - 1) \in tmpfiles
  /\ pc # "exited" /\ Takes(Current, "link") /\ Len(todo) <= 4 => Tmp(2 * Current) \in tmpfiles

(* Which file is temporary. *)
LEMMA Kind ==
  /\ \A k, n : Path(k, n).kind = k /\ Path(k, n).n = n
  /\ \A k : Tmp(k).kind = "tmp" /\ Tmp(k).n = k
  /\ \A i : Output(i).kind \in {"o", "out"}
  /\ Printed.kind \in {"o", "stdout"} /\ Executable.kind \in {"o", "a.out"}
BY DEF Path, Tmp, Output, Printed, Executable

(* Numbers as the provers need them: four, five or six. *)
LEMMA Between ==
  /\ \A n \in 1 .. 4 : n # 1 /\ n # 4 => n \in {2, 3} /\ n <= 3
  /\ \A n \in 1 .. 6 : n # 1 /\ n # 2 /\ n # 5 /\ n # 6 => n \in {3, 4} /\ n <= 4
OBVIOUS

(* How many steps are left when a child writes a temporary file. *)
LEMMA RunningLeft ==
  ASSUME TypeOK, ShapeInv, todo # <<>>, Head(todo).op = "run"
  PROVE  /\ Takes(Current, "c") => Len(todo) \in {2, 3} /\ Len(todo) <= 3
         /\ Takes(Current, "link") => Len(todo) \in {3, 4} /\ Len(todo) <= 4
<1>1. ASSUME Takes(Current, "c")
      PROVE  Len(todo) \in {2, 3} /\ Len(todo) <= 3
  <2>1. Len(todo) \in 1 .. 4 /\ Len(todo) # 4 /\ Len(todo) # 1
    BY <1>1, HeadOfAssembled, Operations
  <2>2. QED
    BY <2>1, Between
<1>2. ASSUME Takes(Current, "link")
      PROVE  Len(todo) \in {3, 4} /\ Len(todo) <= 4
  <2>1. Len(todo) \in 1 .. 6 /\ Len(todo) # 1 /\ Len(todo) # 2 /\ Len(todo) # 5 /\ Len(todo) # 6
    BY <1>2, HeadOfLinked, Operations
  <2>2. QED
    BY <2>1, Between
<1>3. QED
  BY <1>1, <1>2, Zenon

(* A child writes no temporary file but a registered one. *)
LEMMA OutputRegistered ==
  ASSUME TypeOK, ShapeInv, TmpInv, pc # "exited", todo # <<>>, Head(todo).op = "run",
         Head(todo).out.kind = "tmp"
  PROVE  Head(todo).out \in tmpfiles
<1>1. \/ Head(todo).out = Tmp(2 * Current - 1) /\ (Assembling(3) \/ Linking(4))
      \/ Head(todo).out = Tmp(2 * Current) /\ Linking(3)
  BY Running, Kind
<1>2. CASE Assembling(3)
  BY <1>1, <1>2 DEF TmpInv, Assembling, Linking, Takes
<1>3. CASE Linking(4)
  BY <1>1, <1>3 DEF TmpInv, Assembling, Linking, Takes
<1>4. CASE Linking(3)
  BY <1>1, <1>4 DEF TmpInv, Assembling, Linking, Takes
<1>5. QED
  BY <1>1, <1>2, <1>3, <1>4

(* cleanup() removes what is registered. *)
LEMMA TmpAtExit ==
  ASSUME TypeOK, TmpInv, pc # "exited", NEW c, Exit(c)
  PROVE  TmpInv'
BY DEF TypeOK, TmpInv, Exit, cleanup

(* One step less. *)
LEMMA LengthOfTail ==
  ASSUME TypeOK, todo # <<>>
  PROVE  Len(todo) \in Nat \ {0} /\ Len(Tail(todo)) = Len(todo) - 1
BY DEF TypeOK

(* Nothing changes, nothing is lost. *)
LEMMA TmpStays ==
  ASSUME TmpInv, cmd' = cmd, next' = next, tmpfiles' = tmpfiles, fs' = fs, todo' = todo,
         pc # "exited", pc' # "exited"
  PROVE  TmpInv'
BY DEF TmpInv, Takes, Is, Inputs, Current

(* After a subprocess, whatever its status. *)
LEMMA TmpJudged ==
  ASSUME TypeOK, ShapeInv, TmpInv, todo # <<>>, Head(todo).op = "run", pc # "exited", NEW s, Judge(s)
  PROVE  TmpInv'
<1>1. CASE s # 0
  BY <1>1, TmpAtExit DEF Judge
<1>2. CASE s = 0
  <2>1. /\ Takes(Current, "c") => Len(todo) <= 3
        /\ Takes(Current, "link") => Len(todo) <= 4
    BY RunningLeft, Zenon
  <2>2. /\ UNCHANGED <<cmd, next, tmpfiles, fs>> /\ todo' = Tail(todo)
        /\ pc' # "exited"
    BY <1>2 DEF Judge, Done
  <2>3. /\ Current' = Current
        /\ \A m : Takes(Current, m)' <=> Takes(Current, m)
    BY <2>2 DEF Takes, Is, Inputs, Current
  <2>4. ASSUME Takes(Current, "c")
        PROVE  Tmp(2 * Current - 1) \in tmpfiles
    BY <2>1, <2>4, Zenon DEF TmpInv
  <2>5. ASSUME Takes(Current, "link")
        PROVE  Tmp(2 * Current - 1) \in tmpfiles /\ Tmp(2 * Current) \in tmpfiles
    <3>1. Len(todo) \in {3, 4}
      BY <2>5, RunningLeft
    <3>2. \A n \in {3, 4} : n <= 4 /\ n <= 5
      OBVIOUS
    <3>3. Len(todo) <= 4 /\ Len(todo) <= 5
      BY <3>1, <3>2, Zenon
    <3>4. QED
      BY <2>5, <3>3, Zenon DEF TmpInv
  <2>6. QED
    BY <2>2, <2>3, <2>4, <2>5 DEF TmpInv
<1>3. QED
  BY <1>1, <1>2

(* At the start no temporary file exists. *)
LEMMA TmpInit == Init => TmpInv
<1>1. SUFFICES ASSUME Init
               PROVE  TmpInv
  OBVIOUS
<1>2. pc = "main" /\ tmpfiles = {} /\ next = 1
  BY <1>1, Zenon DEF Init
<1>3. ASSUME NEW p \in Paths, p.kind = "tmp"
      PROVE  fs[p] = Absent
  <2>1. fs[p] = IF p.kind = "in" THEN Complete({p.n}) ELSE Absent
    BY <1>1, Zenon DEF Init
  <2>2. QED
    BY <1>3, <2>1
<1>4. Current \notin Inputs
  <2>1. \A i \in Inputs : i \in 1 .. MaxInputs
    BY <1>1, TypeInit, CommandTyped, Zenon
  <2>2. Current = 0
    BY <1>2 DEF Current
  <2>3. QED
    BY <2>1, <2>2, MaxInputsAssumption
<1>5. ~Takes(Current, "c") /\ ~Takes(Current, "link")
  BY <1>4, Zenon DEF Takes, Is
<1>6. QED
  BY <1>2, <1>3, <1>5, Zenon DEF TmpInv

(* Every step keeps it. *)
LEMMA TmpStep ==
  ASSUME TypeOK, ShapeInv, Awaited, OwnInv, TmpInv, [Next]_vars, TypeOK'
  PROVE  TmpInv'
<1>1. CASE RejectCommand \/ UnknownExtension \/ LinkPathsMissing \/ Finish \/ NoTmpfile
  BY <1>1, TmpAtExit DEF RejectCommand, UnknownExtension, LinkPathsMissing, Finish, NoTmpfile, Doing
<1>2. CASE TakeInput
  <2>1. /\ next \in Inputs /\ todo' = LoopBody(next) /\ cmd' = cmd /\ next' = next + 1
        /\ fs' = fs /\ tmpfiles' = tmpfiles /\ pc = "main" /\ pc' = "main"
    BY <1>2, CommandTyped DEF TakeInput
  <2>2. Current' = next /\ next \in Nat
    BY <2>1, CommandTyped DEF Current
  <2>3. ASSUME Takes(next, "c")
        PROVE  ~(Len(todo') <= 3)
    <3>1. Len(todo') = 4
      BY <2>1, <2>2, <2>3, LengthOfBody, Zenon
    <3>2. QED
      BY <3>1
  <2>4. ASSUME Takes(next, "link")
        PROVE  ~(Len(todo') <= 5) /\ ~(Len(todo') <= 4)
    <3>1. Len(todo') = 6
      BY <2>1, <2>2, <2>4, LengthOfBody, Zenon
    <3>2. QED
      BY <3>1
  <2>5. \A mode : Takes(next, mode) = Takes(Current, mode)'
    BY <2>1, <2>2 DEF Takes, Is, Inputs
  <2>6. /\ Takes(Current, "c")' => ~(Len(todo') <= 3)
        /\ Takes(Current, "link")' => ~(Len(todo') <= 5) /\ ~(Len(todo') <= 4)
    BY <2>3, <2>4, <2>5, Zenon
  <2>7. QED
    BY <2>1, <2>6 DEF TmpInv
<1>3. CASE TakeLink
  <2>1. Current' \notin Inputs'
    BY <1>3, CommandTyped DEF TakeLink, Current, Inputs
  <2>2. QED
    BY <1>3, <2>1 DEF TakeLink, TmpInv, Takes, Is
<1>4. CASE create_tmpfile
  <2>1. /\ todo # <<>> /\ Head(todo).op = "mktmp" /\ todo' = Tail(todo) /\ cmd' = cmd /\ next' = next
        /\ fs' = [fs EXCEPT ![Head(todo).out] = Partial] /\ pc = "main" /\ pc' = "main"
        /\ tmpfiles' = tmpfiles \cup {Head(todo).out}
    BY <1>4 DEF create_tmpfile, Doing, Done
  <2>2. \/ Assembling(4) /\ Head(todo).out = Tmp(2 * Current - 1)
        \/ Linking(6) /\ Head(todo).out = Tmp(2 * Current - 1)
        \/ Linking(5) /\ Head(todo).out = Tmp(2 * Current)
    BY <2>1, Making
  <2>3. Head(todo).out.kind = "tmp"
    BY <2>2, Kind
  <2>4. /\ \A p \in Paths : p.kind = "tmp" /\ fs'[p] # Absent => p \in tmpfiles'
        /\ \A p \in tmpfiles' : p.kind = "tmp"
    BY <2>1, <2>3 DEF TypeOK, TmpInv
  <2>5. /\ Len(todo') = Len(todo) - 1
        /\ \A mode : Takes(Current, mode)' = Takes(Current, mode)
        /\ Current' = Current
    BY <2>1, LengthOfTail DEF Takes, Is, Inputs, Current
  <2>6. CASE Assembling(4) /\ Head(todo).out = Tmp(2 * Current - 1)
    BY <2>1, <2>4, <2>5, <2>6 DEF TmpInv, Takes, Assembling, Tmp
  <2>7. CASE Linking(6) /\ Head(todo).out = Tmp(2 * Current - 1)
    <3>1. Tmp(2 * Current' - 1) \in tmpfiles' /\ cmd'.mode = "link" /\ Len(todo') = 5
      BY <2>1, <2>5, <2>7 DEF Takes, Linking
    <3>2. ~(Len(todo') <= 4)
      BY <3>1
    <3>3. /\ ~Takes(Current, "c")'
          /\ ~(Takes(Current, "link")' /\ Len(todo') <= 4)
      BY <3>1, <3>2 DEF Takes
    <3>4. Tmp(2 * Current - 1)' \in tmpfiles'
      BY <3>1 DEF Tmp
    <3>5. QED
      BY <2>1, <2>4, <3>3, <3>4 DEF TmpInv
  <2>8. CASE Linking(5) /\ Head(todo).out = Tmp(2 * Current)
    BY <2>1, <2>4, <2>5, <2>8 DEF TmpInv, Takes, Linking, Tmp
  <2>9. QED
    BY <2>2, <2>6, <2>7, <2>8
<1>5. CASE RemoveTmpfile
  <2>1. /\ todo # <<>> /\ Head(todo).op = "remove" /\ todo' = Tail(todo) /\ cmd' = cmd /\ next' = next
        /\ fs' = [fs EXCEPT ![Head(todo).out] = Absent] /\ pc = "main" /\ pc' = "main"
        /\ tmpfiles' = tmpfiles
    BY <1>5 DEF RemoveTmpfile, Doing, Done
  <2>2. Assembling(1) \/ Linking(2)
    BY <2>1, Removing
  <2>3. \A p \in Paths : p.kind = "tmp" /\ fs'[p] # Absent => p \in tmpfiles'
    BY <2>1 DEF TypeOK, TmpInv
  <2>4. Current' = Current /\ \A mode : Takes(Current, mode)' = Takes(Current, mode)
    BY <2>1 DEF Takes, Is, Inputs, Current
  <2>5. CASE Assembling(1)
    BY <2>1, <2>3, <2>4, <2>5 DEF TmpInv, Takes, Assembling, Tmp
  <2>6. CASE Linking(2)
    BY <2>1, <2>3, <2>4, <2>6 DEF TmpInv, Takes, Linking, Tmp
  <2>7. QED
    BY <2>2, <2>5, <2>6
<1>6. CASE KeepForLinker
  <2>1. /\ todo # <<>> /\ Head(todo).op = "keep" /\ todo' = Tail(todo) /\ cmd' = cmd /\ next' = next
        /\ fs' = fs /\ pc = "main" /\ pc' = "main" /\ tmpfiles' = tmpfiles
    BY <1>6 DEF KeepForLinker, Doing, Done
  <2>2. Len(todo) = 1
    BY <2>1, Keeping
  <2>3. ~Takes(Current, "c")
    BY <2>1, Keeping DEF Takes, Is
  <2>4. Current' = Current /\ \A mode : Takes(Current, mode)' = Takes(Current, mode)
    BY <2>1 DEF Takes, Is, Inputs, Current
  <2>5. QED
    BY <2>1, <2>2, <2>3, <2>4 DEF TmpInv, Tmp
<1>7. CASE run_subprocess
  BY <1>7, TmpStays DEF run_subprocess, Doing
<1>8. CASE \E p \in {"own", "inherited"} : Reap(p)
  BY <1>8, TmpStays DEF Reap
<1>9. CASE WaitFails \/ WaitFailsUnset \/ SpawnReturns
  BY <1>9, TmpJudged DEF WaitFails, WaitFailsUnset, SpawnReturns, Awaited
<1>10. CASE Child
  <2>1. /\ ChildFrame /\ pc # "exited" /\ pc' # "exited"
        /\ todo # <<>> /\ Head(todo).op = "run"
        /\ \A p \in Paths : p # Head(todo).out => fs'[p] = fs[p]
    BY <1>10, ChildWrites DEF OwnIsHead, ChildFrame
  <2>2. \A p \in Paths : p.kind = "tmp" /\ fs'[p] # Absent => p \in tmpfiles
    BY <2>1, OutputRegistered DEF TmpInv
  <2>3. QED
    BY <2>1, <2>2 DEF TmpInv, ChildFrame, Takes, Is, Inputs, Current
<1>11. CASE InheritedEnds
  BY <1>11, TmpStays DEF InheritedEnds, ChildFrame
<1>12. CASE Killed
  BY <1>12, TmpStays DEF Killed
<1>13. CASE UNCHANGED vars
  BY <1>13 DEF vars, TmpInv, Takes, Is, Inputs, Current
<1>14. QED
  BY <1>1, <1>2, <1>3, <1>4, <1>5, <1>6, <1>7, <1>8, <1>9, <1>10, <1>11, <1>12, <1>13 DEF Next, Main

-----------------------------------------------------------------------------
-----------------------------------------------------------------------------
(* The files. *)

(* What the files f hold when left steps of the current input are left and *)
(* the inputs up to done are finished.                                     *)
Ready(f, left) ==
  /\ \A p \in Paths : p.kind = "in" => f[p] = Complete({p.n})
  /\ Takes(Current, "c") /\ left = 2 => f[Tmp(2 * Current - 1)] = Complete({Current})
  /\ Takes(Current, "c") /\ left <= 1 => Current \in f[Output(Current)].from
  /\ Takes(Current, "link") /\ left = 3 => f[Tmp(2 * Current - 1)] = Complete({Current})
  /\ Takes(Current, "link") /\ left \in {1, 2} => f[Tmp(2 * Current)] = Complete({Current})

(* What the linker is given: inputs as they are, or what was made of them. *)
Links(i, p) == \/ Is(i, "ld") /\ p = Path("in", i)
               \/ Takes(i, "link") /\ p = Tmp(2 * i)

Linkable(f, done) ==
  /\ \A k \in DOMAIN ld_args : \E i \in 1 .. done : Links(i, ld_args[k]) /\ f[ld_args[k]] = Complete({i})
  /\ next = Len(cmd.inputs) + 2 => ld_args # <<>>

(* The results of the finished inputs. *)
Printing(i) == Is(i, "c") /\ cmd.mode # "link" /\ ~Shared(i)
Linked(i)   == Is(i, "ld") \/ Takes(i, "link")

Settled(f, done) ==
  \A i \in Inputs : i <= done =>
    /\ Printing(i) => i \in f[ResultOf(i)].from
    /\ Linked(i) => IF done <= Len(cmd.inputs)
                    THEN \E k \in DOMAIN ld_args : f[ld_args[k]] = Complete({i})
                    ELSE i \in f[Executable].from

Finished == IF todo = <<>> THEN Current ELSE Current - 1

(* The first step is done: its output is the translation of its inputs. *)
Delivered == fs[Head(todo).out] = Complete(UNION {fs[p].from : p \in Head(todo).in})

DoneInv ==
  /\ pc = "wait" /\ own.state = "none" /\ status = 0 => Delivered
  /\ own.state = "exited" /\ own.code = 0 => Delivered

(* The three parts together. *)
Flow(f, left, done) == Ready(f, left) /\ Linkable(f, done) /\ Settled(f, done)

FilesInv == Reliable /\ pc # "exited" => Flow(fs, Len(todo), Finished) /\ DoneInv

-----------------------------------------------------------------------------
(* The current input is a number, and its files are files. *)
LEMMA CurrentTyped ==
  ASSUME TypeOK
  PROVE  /\ Current \in Nat /\ Finished \in Int
         /\ todo # <<>> => Finished = Current - 1
         /\ todo = <<>> => Finished = Current
         /\ Current \in Inputs => Current \in Nat \ {0} /\ Current <= Len(cmd.inputs)
         /\ Len(cmd.inputs) \in Nat
BY CommandTyped, MaxInputsAssumption DEF Current, Finished

LEMMA ResultTyped ==
  ASSUME TypeOK, NEW i \in Inputs
  PROVE  ResultOf(i) \in Paths /\ ResultOf(i).kind \notin {"in", "tmp"}
<1>1. ResultOf(i) \in {Printed, Output(i), Executable}
  BY DEF ResultOf
<1>2. QED
  BY <1>1, PathsOfInput, LinkStepTyped, Kind

(* With -o every result is the file it names. *)
LEMMA NamedResult ==
  ASSUME TypeOK, cmd.o, NEW i \in Inputs
  PROVE  ResultOf(i) = Path("o", 0) /\ Output(i) = Path("o", 0) /\ Printed = Path("o", 0)
         /\ Executable = Path("o", 0)
BY DEF ResultOf, Output, Printed, Executable

LEMMA ResultOfPrinting ==
  ASSUME NEW i, Is(i, "c")
  PROVE  /\ cmd.mode \in {"E", "M"} => ResultOf(i) = Printed
         /\ cmd.mode \in {"S", "c"} => ResultOf(i) = Output(i)
         /\ cmd.mode = "link" => ResultOf(i) = Executable
BY DEF ResultOf, Is

LEMMA ResultOfObject ==
  ASSUME NEW i, Is(i, "ld")
  PROVE  ResultOf(i) = Executable
BY DEF ResultOf, Is

(* A printed or assembled result that no other input shares is a file that *)
(* no step of a later input writes.                                        *)
LEMMA ResultUntouched ==
  ASSUME TypeOK, ShapeInv, Linkable(fs, Finished), todo # <<>>, Head(todo).op \in {"mktmp", "run", "remove"},
         NEW i \in Inputs, i <= Finished, Printing(i)
  PROVE  ResultOf(i) # Head(todo).out
<1>1. i \in Nat /\ i < Current /\ Current \in Nat /\ i # Current
  BY CurrentTyped, CommandTyped
<1>2. CASE cmd.o
  <2>1. Inputs = {i}
    BY <1>2, NamedResult DEF Printing, Shared, Inputs
  <2>2. Current \notin Inputs
    BY <1>1, <2>1
  <2>3. next = Len(cmd.inputs) + 2
    BY <2>2, HeadOfLink
  <2>4. DOMAIN ld_args # {}
    BY <2>3 DEF Linkable, TypeOK
  <2>5. PICK k \in DOMAIN ld_args, j \in 1 .. Finished : Links(j, ld_args[k])
    BY <2>4 DEF Linkable
  <2>6. j = i
    BY <2>1, <2>5 DEF Links, Is, Takes
  <2>7. QED
    BY <2>5, <2>6 DEF Links, Printing, Is, Takes
<1>3. CASE ~cmd.o
  <2>1. ResultOf(i) = IF cmd.mode \in {"E", "M"} THEN Path("stdout", 0) ELSE Path("out", i)
    BY <1>3, ResultOfPrinting, CommandTyped DEF Printing, Printed, Output, Modes
  <2>2. CASE Head(todo).op # "run"
    BY <2>1, <2>2, Making, Removing, Kind
  <2>3. CASE Head(todo).op = "run"
    <3>1. CASE Takes(Current, "E") \/ Takes(Current, "M")
      BY <1>1, <3>1, ResultOfPrinting DEF Printing, Shared, Takes, Is, Inputs
    <3>2. CASE ~(Takes(Current, "E") \/ Takes(Current, "M"))
      <4>1. \/ Head(todo).out.kind = "tmp"
            \/ Head(todo).out = Executable
            \/ Head(todo).out = Output(Current)
        BY <2>3, <3>2, Running, Kind
      <4>2. Executable.kind = "a.out" /\ Output(Current).kind = "out" /\ Output(Current).n = Current
        BY <1>3 DEF Executable, Output, Path
      <4>3. QED
        BY <1>1, <2>1, <4>1, <4>2, Kind
    <3>3. QED
      BY <3>1, <3>2
  <2>4. QED
    BY <2>2, <2>3
<1>4. QED
  BY <1>2, <1>3

(* No step writes an input or what was collected for the linker. *)
LEMMA OutputFresh ==
  ASSUME TypeOK, ShapeInv, Linkable(fs, Finished), todo # <<>>, Head(todo).op \in {"mktmp", "run", "remove"}
  PROVE  /\ Head(todo).out.kind # "in"
         /\ \A k \in DOMAIN ld_args : ld_args[k] # Head(todo).out
<1>1. \/ Head(todo).out.kind \notin {"in", "tmp"}
      \/ Head(todo).out = Tmp(2 * Current - 1)
      \/ Head(todo).out = Tmp(2 * Current)
  BY Making, Removing, Running, Kind
<1>2. SUFFICES ASSUME NEW k \in DOMAIN ld_args
               PROVE  ld_args[k] # Head(todo).out
  BY <1>1, Kind
<1>3. PICK i \in 1 .. Finished : Links(i, ld_args[k])
  BY DEF Linkable
<1>4. i \in Nat /\ Current \in Nat /\ 2 * i # 2 * Current /\ 2 * i # 2 * Current - 1
  BY CurrentTyped
<1>5. QED
  BY <1>1, <1>3, <1>4, Kind DEF Links

LEMMA LinkerInputTyped ==
  ASSUME TypeOK, NEW k \in DOMAIN ld_args
  PROVE  ld_args[k] \in Paths
BY DEF TypeOK

(* Whatever a step writes, what earlier steps and inputs left is kept. *)
LEMMA WriteKeeps ==
  ASSUME TypeOK, ShapeInv, todo # <<>>, Head(todo).op \in {"mktmp", "run", "remove"},
         Linkable(fs, Finished), Settled(fs, Finished),
         NEW f, \A p \in Paths : p # Head(todo).out => f[p] = fs[p]
  PROVE  /\ Linkable(f, Finished)
         /\ Settled(f, Finished)
         /\ Ready(fs, Len(todo)) => \A p \in Paths : p.kind = "in" => f[p] = Complete({p.n})
<1>1. \A k \in DOMAIN ld_args : f[ld_args[k]] = fs[ld_args[k]]
  BY OutputFresh, LinkerInputTyped
<1>2. \A i \in Inputs : i <= Finished /\ Printing(i) => f[ResultOf(i)] = fs[ResultOf(i)]
  BY ResultUntouched, ResultTyped
<1>3. Finished <= Len(cmd.inputs)
  <2>1. Current <= Len(cmd.inputs) + 1
    BY CurrentTyped, HeadOfLink DEF Current
  <2>2. QED
    BY <2>1, CurrentTyped
<1>4. Linkable(f, Finished)
  BY <1>1 DEF Linkable
<1>5. Settled(f, Finished)
  BY <1>1, <1>2, <1>3 DEF Settled
<1>6. Ready(fs, Len(todo)) => \A p \in Paths : p.kind = "in" => f[p] = Complete({p.n})
  BY OutputFresh DEF Ready
<1>7. QED
  BY <1>4, <1>5, <1>6

(* A program starts on complete files, none of which it writes. *)
LEMMA ReadsComplete ==
  ASSUME TypeOK, ShapeInv, todo # <<>>, Head(todo).op = "run",
         Ready(fs, Len(todo)), Linkable(fs, Finished)
  PROVE  \A p \in Head(todo).in : /\ p \in Paths /\ p # Head(todo).out
                                 /\ fs[p].state = "complete" /\ fs[p].from # {}
<1>1. \A i : Complete({i}).state = "complete" /\ Complete({i}).from # {}
  BY DEF Complete
<1> SUFFICES ASSUME NEW p \in Head(todo).in
             PROVE  /\ p \in Paths /\ p # Head(todo).out
                    /\ fs[p].state = "complete" /\ fs[p].from # {}
  OBVIOUS
<1> SUFFICES \E i : p \in Paths /\ p # Head(todo).out /\ fs[p] = Complete({i})
  BY <1>1
<1>2. CASE Current \notin Inputs
  <2>1. Head(todo).in = {ld_args[k] : k \in DOMAIN ld_args}
    BY <1>2, Running DEF Is, Takes, Assembling, Linking
  <2>2. PICK k \in DOMAIN ld_args : p = ld_args[k]
    BY <2>1
  <2>3. PICK i \in 1 .. Finished : fs[ld_args[k]] = Complete({i})
    BY DEF Linkable
  <2>4. QED
    BY <2>2, <2>3, OutputFresh, LinkerInputTyped
<1>3. CASE Current \in Inputs
  <2>1. Current \in Nat /\ 2 * Current - 1 # 2 * Current
    BY CurrentTyped
  <2>2. p = Path("in", Current) \/ p = Tmp(2 * Current - 1)
    BY <1>3, Running
  <2>3. p \in Paths
    BY <1>3, <2>2, PathsOfInput
  <2>4. CASE p = Path("in", Current)
    <3>1. p.kind = "in" /\ p # Head(todo).out
      BY <2>4, OutputFresh, Kind
    <3>2. fs[p] = Complete({p.n})
      BY <2>3, <3>1 DEF Ready
    <3>3. QED
      BY <2>3, <3>1, <3>2
  <2>5. CASE p = Tmp(2 * Current - 1)
    <3>1. p.kind = "tmp"
      BY <2>5, Kind
    <3>2. \/ Assembling(2) /\ Head(todo).out = Output(Current)
          \/ Linking(3) /\ Head(todo).out = Tmp(2 * Current)
      <4>1. Head(todo).in # {Path("in", Current)}
        BY <3>1, Kind
      <4>2. QED
        BY <1>3, <4>1, Running
    <3>3. p # Head(todo).out
      BY <2>1, <2>5, <3>2, Kind
    <3>4. fs[p] = Complete({Current})
      BY <2>5, <3>2 DEF Ready, Assembling, Linking
    <3>5. QED
      BY <2>3, <3>3, <3>4
  <2>6. QED
    BY <2>2, <2>4, <2>5
<1>4. QED
  BY <1>2, <1>3

(* Nothing that is still needed is lost while a program runs. *)
LEMMA RunKeepsReady ==
  ASSUME TypeOK, ShapeInv, todo # <<>>, Head(todo).op = "run",
         Ready(fs, Len(todo)), Linkable(fs, Finished), Settled(fs, Finished),
         NEW f, \A p \in Paths : p # Head(todo).out => f[p] = fs[p]
  PROVE  Ready(f, Len(todo))
<1>1. \A p \in Paths : p.kind = "in" => f[p] = Complete({p.n})
  BY WriteKeeps
<1>2. ASSUME Takes(Current, "c")
      PROVE  Ready(f, Len(todo))
  <2>1. Current \in Inputs /\ Tmp(2 * Current - 1) \in Paths
    BY <1>2, PathsOfInput DEF Takes, Is
  <2>2. Len(todo) \in {2, 3} /\ ~(Len(todo) <= 1) /\ ~Takes(Current, "link")
    <3>1. Len(todo) \in {2, 3}
      BY <1>2, RunningLeft
    <3>2. \A n \in {2, 3} : ~(n <= 1)
      OBVIOUS
    <3>3. ~Takes(Current, "link")
      BY <1>2 DEF Takes
    <3>4. QED
      BY <3>1, <3>2, <3>3, Zenon
  <2>3. ASSUME Len(todo) = 2
        PROVE  f[Tmp(2 * Current - 1)] = Complete({Current})
    <3>1. Head(todo).out = Output(Current)
      BY <1>2, <2>3, HeadOfAssembled, Operations
    <3>2. Head(todo).out # Tmp(2 * Current - 1)
      BY <3>1, Kind
    <3>3. QED
      BY <1>2, <2>1, <2>3, <3>2 DEF Ready
  <2>4. QED
    BY <1>1, <2>2, <2>3 DEF Ready
<1>3. ASSUME Takes(Current, "link")
      PROVE  Ready(f, Len(todo))
  <2>1. Current \in Inputs /\ Tmp(2 * Current - 1) \in Paths /\ 2 * Current # 2 * Current - 1
    BY <1>3, PathsOfInput, CurrentTyped DEF Takes, Is
  <2>2. Len(todo) # 1 /\ Len(todo) # 2 /\ ~Takes(Current, "c")
    <3>1. Len(todo) \in {3, 4}
      BY <1>3, RunningLeft
    <3>2. \A n \in {3, 4} : n # 1 /\ n # 2
      OBVIOUS
    <3>3. ~Takes(Current, "c")
      BY <1>3 DEF Takes
    <3>4. QED
      BY <3>1, <3>2, <3>3, Zenon
  <2>3. ASSUME Len(todo) = 3
        PROVE  f[Tmp(2 * Current - 1)] = Complete({Current})
    <3>1. Head(todo).out = Tmp(2 * Current)
      BY <1>3, <2>3, HeadOfLinked, Operations
    <3>2. Head(todo).out # Tmp(2 * Current - 1)
      BY <2>1, <3>1, Kind
    <3>3. QED
      BY <1>3, <2>1, <2>3, <3>2 DEF Ready
  <2>4. QED
    BY <1>1, <2>2, <2>3 DEF Ready
<1>4. CASE ~Takes(Current, "c") /\ ~Takes(Current, "link")
  BY <1>1, <1>4 DEF Ready
<1>5. QED
  BY <1>2, <1>3, <1>4

(* The names of files and what is done with an input follow from the *)
(* command line.                                                     *)
LEMMA SameCommand ==
  ASSUME cmd' = cmd
  PROVE  /\ Inputs' = Inputs /\ Executable' = Executable
         /\ \A i : Output(i)' = Output(i) /\ ResultOf(i)' = ResultOf(i)
         /\ \A i, k : Takes(i, k)' = Takes(i, k) /\ Is(i, k)' = Is(i, k)
         /\ \A i : Printing(i)' = Printing(i) /\ Linked(i)' = Linked(i)
         /\ \A i, p : Links(i, p)' = Links(i, p)
<1>1. /\ Inputs' = Inputs /\ Executable' = Executable
      /\ \A i : Output(i)' = Output(i)
      /\ \A i, k : Takes(i, k)' = Takes(i, k) /\ Is(i, k)' = Is(i, k)
  BY DEF Inputs, Executable, Output, Takes, Is
<1>2. \A i : ResultOf(i)' = ResultOf(i)
  BY DEF ResultOf, Executable, Output, Printed
<1>3. \A i : Printing(i)' = Printing(i)
  BY <1>1, <1>2 DEF Printing, Shared, Is, Inputs
<1>4. \A i, p : Links(i, p)' = Links(i, p) /\ Linked(i)' = Linked(i)
  BY <1>1 DEF Links, Linked, Path, Tmp
<1>5. QED
  BY <1>1, <1>2, <1>3, <1>4

LEMMA FlowPrimed ==
  ASSUME cmd' = cmd, next' = next, ld_args' = ld_args, Flow(fs', Len(todo'), Finished')
  PROVE  Flow(fs, Len(todo), Finished)'
<1>1. Current' = Current
  BY DEF Current
<1>2. Ready(fs, Len(todo))'
  BY <1>1, SameCommand DEF Flow, Ready, Tmp, Path
<1>3. Linkable(fs, Finished)'
  BY SameCommand DEF Flow, Linkable
<1>4. Settled(fs, Finished)'
  BY SameCommand DEF Flow, Settled
<1>5. QED
  BY <1>2, <1>3, <1>4 DEF Flow

LEMMA FinishedStep ==
  ASSUME TypeOK, todo # <<>>, todo' = Tail(todo), next' = next
  PROVE  /\ Len(todo) = 1 => todo' = <<>> /\ Finished' = Current /\ Len(todo') = 0
         /\ Len(todo) # 1 => Finished' = Finished /\ Len(todo') # 0
         /\ Len(todo') = Len(todo) - 1
<1>1. Len(todo) \in Nat \ {0} /\ Len(todo') = Len(todo) - 1 /\ todo' \in Seq(Steps)
  BY LengthOfTail, HeadTyped
<1>2. todo' = <<>> <=> Len(todo') = 0
  <2>1. \A s \in Seq(Steps) : s = <<>> <=> Len(s) = 0
    OBVIOUS
  <2>2. QED
    BY <1>1, <2>1
<1>3. QED
  BY <1>1, <1>2 DEF Finished, Current

(* The current input is finished when its result, or its entry in the *)
(* linker's list, is there.                                            *)
LEMMA SettledNext ==
  ASSUME TypeOK, ShapeInv, todo # <<>>, Current \in Inputs, NEW f, Settled(f, Finished),
         Printing(Current) => Current \in f[ResultOf(Current)].from,
         Linked(Current) => \E k \in DOMAIN ld_args : f[ld_args[k]] = Complete({Current})
  PROVE  Settled(f, Current)
<1>1. Finished = Current - 1 /\ Current \in Nat /\ Current <= Len(cmd.inputs) /\ Len(cmd.inputs) \in Nat
  BY CurrentTyped
<1>2. \A i \in Inputs : i <= Current => i <= Finished \/ i = Current
  BY <1>1, CommandTyped
<1>3. Finished <= Len(cmd.inputs)
  BY <1>1
<1>4. QED
  BY <1>1, <1>2, <1>3 DEF Settled

LEMMA LinkableNext ==
  ASSUME TypeOK, todo # <<>>, NEW f, Linkable(f, Finished)
  PROVE  Linkable(f, Current)
<1>1. \A i \in 1 .. Finished : i \in 1 .. Current
  BY CurrentTyped
<1>2. QED
  BY <1>1 DEF Linkable

(* The program of the first step has delivered: what it wrote is there for *)
(* the steps after it.                                                     *)
LEMMA DeliveredFile ==
  ASSUME Delivered, NEW p, NEW i, Head(todo).in = {p}, fs[p] = Complete({i})
  PROVE  fs[Head(todo).out] = Complete({i})
<1>1. UNION {fs[q].from : q \in Head(todo).in} = {i}
  BY DEF Complete
<1>2. QED
  BY <1>1 DEF Delivered

LEMMA SmallNumbers ==
  /\ \A n : n = 1 => n # 2 /\ n # 3
  /\ \A n : n = 2 => n # 3 /\ ~(n <= 1)
  /\ \A n : n = 3 => n \notin {1, 2}
  /\ \A n : n = 0 => n # 2 /\ n # 3 /\ n \notin {1, 2} /\ n <= 1
OBVIOUS

LEMMA FlowAdvances ==
  ASSUME TypeOK, ShapeInv, todo # <<>>, Head(todo).op = "run", Delivered,
         Flow(fs, Len(todo), Finished), todo' = Tail(todo), next' = next
  PROVE  Flow(fs, Len(todo'), Finished')
<1>1. Ready(fs, Len(todo)) /\ Linkable(fs, Finished) /\ Settled(fs, Finished)
  BY DEF Flow
<1>2. \A p \in Paths : p.kind = "in" => fs[p] = Complete({p.n})
  BY <1>1 DEF Ready
<1>3. ASSUME Current \in Inputs
      PROVE  fs[Path("in", Current)] = Complete({Current})
  BY <1>2, <1>3, PathsOfInput, Kind
<1>4. \A i : i \in Complete({i}).from
  BY DEF Complete
<1>5. CASE Current \notin Inputs
  <2>1. /\ Len(todo) = 1 /\ next = Len(cmd.inputs) + 2
        /\ Head(todo).in = {ld_args[k] : k \in DOMAIN ld_args} /\ Head(todo).out = Executable
    BY <1>5, Running DEF Is, Takes, Assembling, Linking
  <2>2. Finished' = Current /\ Len(todo') = 0 /\ Current = Len(cmd.inputs) + 1 /\ Finished = Len(cmd.inputs)
    BY <2>1, FinishedStep, CurrentTyped DEF Current
  <2>3. Ready(fs, Len(todo'))
    BY <1>2, <1>5 DEF Ready, Takes, Is
  <2>4. Linkable(fs, Current)
    BY <1>1, LinkableNext
  <2>5. ASSUME NEW k \in DOMAIN ld_args, NEW i, fs[ld_args[k]] = Complete({i})
        PROVE  i \in fs[Executable].from
    <3>1. i \in fs[ld_args[k]].from
      BY <1>4, <2>5
    <3>2. i \in UNION {fs[p].from : p \in Head(todo).in}
      BY <2>1, <3>1
    <3>3. QED
      BY <2>1, <3>2 DEF Delivered, Complete
  <2>6. Settled(fs, Current)
    <3>1. \A i \in Inputs : i <= Finished
      BY <2>2, CommandTyped
    <3>2. Finished <= Len(cmd.inputs) /\ ~(Current <= Len(cmd.inputs))
      BY <2>2, CurrentTyped
    <3>3. QED
      BY <1>1, <2>5, <3>1, <3>2 DEF Settled
  <2>7. QED
    BY <2>2, <2>3, <2>4, <2>6 DEF Flow
<1>6. CASE Current \in Inputs /\ Len(todo) = 1
  <2>1. ~Takes(Current, "c") /\ ~Takes(Current, "link")
    <3>1. 1 \notin {2, 3} /\ 1 \notin {3, 4}
      OBVIOUS
    <3>2. QED
      BY <1>6, <3>1, RunningLeft, Zenon
  <2>2. \/ Is(Current, "asm")
        \/ /\ Takes(Current, "E") \/ Takes(Current, "M")
           /\ Head(todo).in = {Path("in", Current)} /\ Head(todo).out = Printed
        \/ /\ Takes(Current, "S")
           /\ Head(todo).in = {Path("in", Current)} /\ Head(todo).out = Output(Current)
    BY <1>6, <2>1, Running DEF Assembling, Linking
  <2>3. ~Linked(Current)
    BY <2>1, <2>2 DEF Linked, Is, Takes
  <2>4. ASSUME Printing(Current)
        PROVE  Current \in fs[ResultOf(Current)].from
    <3>1. Head(todo).in = {Path("in", Current)} /\ Head(todo).out = ResultOf(Current)
      BY <2>2, <2>4, ResultOfPrinting DEF Printing, Is, Takes
    <3>2. fs[ResultOf(Current)] = Complete({Current})
      BY <1>3, <1>6, <3>1, DeliveredFile
    <3>3. QED
      BY <1>4, <3>2
  <2>5. Settled(fs, Current)
    BY <1>1, <1>6, <2>3, <2>4, SettledNext
  <2>6. Ready(fs, Len(todo'))
    BY <1>2, <2>1 DEF Ready
  <2>7. QED
    BY <1>1, <1>6, <2>5, <2>6, FinishedStep, LinkableNext DEF Flow
<1>7. CASE Current \in Inputs /\ Len(todo) # 1
  <2>1. Finished' = Finished /\ Len(todo') = Len(todo) - 1 /\ Len(todo) \in Nat
    BY <1>7, FinishedStep, LengthOfTail
  <2>2. \/ /\ Assembling(3) \/ Linking(4)
           /\ Head(todo).in = {Path("in", Current)} /\ Head(todo).out = Tmp(2 * Current - 1)
        \/ /\ Assembling(2)
           /\ Head(todo).in = {Tmp(2 * Current - 1)} /\ Head(todo).out = Output(Current)
        \/ /\ Linking(3)
           /\ Head(todo).in = {Tmp(2 * Current - 1)} /\ Head(todo).out = Tmp(2 * Current)
    BY <1>7, Running
  <2>3. fs[Head(todo).out] = Complete({Current})
    <3>1. CASE Head(todo).in = {Path("in", Current)}
      BY <1>3, <1>7, <3>1, DeliveredFile
    <3>2. CASE Assembling(2) /\ Head(todo).in = {Tmp(2 * Current - 1)}
      BY <1>1, <3>2, DeliveredFile DEF Ready, Assembling
    <3>3. CASE Linking(3) /\ Head(todo).in = {Tmp(2 * Current - 1)}
      BY <1>1, <3>3, DeliveredFile DEF Ready, Linking
    <3>4. QED
      BY <2>2, <3>1, <3>2, <3>3
  <2>4. CASE Assembling(3) /\ Head(todo).out = Tmp(2 * Current - 1)
    <3>1. Len(todo') = 2 /\ ~(Len(todo') <= 1) /\ ~Takes(Current, "link")
      <4>1. Len(todo) = 3 /\ ~Takes(Current, "link")
        BY <2>4 DEF Assembling, Takes
      <4>2. Len(todo') = 2
        BY <2>1, <4>1
      <4>3. QED
        BY <4>1, <4>2, SmallNumbers, Zenon
    <3>2. Ready(fs, Len(todo'))
      BY <1>2, <2>3, <2>4, <3>1 DEF Ready
    <3>3. QED
      BY <1>1, <2>1, <3>2 DEF Flow
  <2>5. CASE Assembling(2) /\ Head(todo).out = Output(Current)
    <3>1. Len(todo') = 1 /\ Len(todo') # 2 /\ ~Takes(Current, "link")
      <4>1. Len(todo) = 2 /\ ~Takes(Current, "link")
        BY <2>5 DEF Assembling, Takes
      <4>2. Len(todo') = 1
        BY <2>1, <4>1
      <4>3. Len(todo') # 2
        BY <4>2, SmallNumbers, Zenon
      <4>4. QED
        BY <4>1, <4>2, <4>3
    <3>2. Current \in fs[Output(Current)].from
      BY <1>4, <2>3, <2>5
    <3>3. Ready(fs, Len(todo'))
      BY <1>2, <3>1, <3>2 DEF Ready
    <3>4. QED
      BY <1>1, <2>1, <3>3 DEF Flow
  <2>6. CASE Linking(4) /\ Head(todo).out = Tmp(2 * Current - 1)
    <3>1. Len(todo') = 3 /\ Len(todo') \notin {1, 2} /\ ~Takes(Current, "c")
      <4>1. Len(todo) = 4 /\ ~Takes(Current, "c")
        BY <2>6 DEF Linking, Takes
      <4>2. Len(todo') = 3
        BY <2>1, <4>1
      <4>3. Len(todo') \notin {1, 2}
        BY <4>2, SmallNumbers, Zenon
      <4>4. QED
        BY <4>1, <4>2, <4>3
    <3>2. Ready(fs, Len(todo'))
      BY <1>2, <2>3, <2>6, <3>1 DEF Ready
    <3>3. QED
      BY <1>1, <2>1, <3>2 DEF Flow
  <2>7. CASE Linking(3) /\ Head(todo).out = Tmp(2 * Current)
    <3>1. Len(todo') = 2 /\ Len(todo') # 3 /\ ~Takes(Current, "c")
      <4>1. Len(todo) = 3 /\ ~Takes(Current, "c")
        BY <2>7 DEF Linking, Takes
      <4>2. Len(todo') = 2
        BY <2>1, <4>1
      <4>3. Len(todo') # 3
        BY <4>2
      <4>4. QED
        BY <4>1, <4>2, <4>3
    <3>2. Ready(fs, Len(todo'))
      BY <1>2, <2>3, <2>7, <3>1 DEF Ready
    <3>3. QED
      BY <1>1, <2>1, <3>2 DEF Flow
  <2>8. QED
    BY <2>2, <2>4, <2>5, <2>6, <2>7
<1>8. QED
  BY <1>5, <1>6, <1>7

(* A temporary file is made before anything is read from it. *)
LEMMA FlowAfterMaking ==
  ASSUME TypeOK, ShapeInv, todo # <<>>, Head(todo).op = "mktmp", Flow(fs, Len(todo), Finished),
         todo' = Tail(todo), next' = next, \A p \in Paths : p # Head(todo).out => fs'[p] = fs[p]
  PROVE  Flow(fs', Len(todo'), Finished')
<1>1. Ready(fs, Len(todo)) /\ Linkable(fs, Finished) /\ Settled(fs, Finished)
  BY DEF Flow
<1>2. /\ Linkable(fs', Finished) /\ Settled(fs', Finished)
      /\ \A p \in Paths : p.kind = "in" => fs'[p] = Complete({p.n})
  BY <1>1, WriteKeeps
<1>3. /\ Len(todo') = Len(todo) - 1
      /\ Len(todo) # 1 => Finished' = Finished
  BY FinishedStep
<1>4. Assembling(4) \/ Linking(6) \/ Linking(5)
  BY Making
<1>5. CASE Assembling(4)
  <2>1. Len(todo) = 4 /\ ~Takes(Current, "link")
    BY <1>5 DEF Assembling, Takes
  <2>2. Len(todo') = 3
    BY <1>3, <2>1
  <2>3. Len(todo') # 2 /\ ~(Len(todo') <= 1) /\ Finished' = Finished
    <3>1. \A n : n = 3 => n # 2 /\ ~(n <= 1)
      OBVIOUS
    <3>2. \A n : n = 4 => n # 1
      OBVIOUS
    <3>3. QED
      BY <1>3, <2>1, <2>2, <3>1, <3>2, Zenon
  <2>4. QED
    BY <1>2, <2>1, <2>3 DEF Flow, Ready
<1>6. CASE Linking(6) \/ Linking(5)
  <2>1. Len(todo) \in {5, 6} /\ ~Takes(Current, "c")
    BY <1>6 DEF Linking, Takes
  <2>2. Len(todo') \in {4, 5}
    BY <1>3, <2>1
  <2>3. Len(todo') # 3 /\ Len(todo') \notin {1, 2} /\ Finished' = Finished
    <3>1. \A n \in {4, 5} : n # 3 /\ n \notin {1, 2}
      OBVIOUS
    <3>2. \A n \in {5, 6} : n # 1
      OBVIOUS
    <3>3. QED
      BY <1>3, <2>1, <2>2, <3>1, <3>2, Zenon
  <2>4. QED
    BY <1>2, <2>1, <2>3 DEF Flow, Ready
<1>7. QED
  BY <1>4, <1>5, <1>6

(* The assembly is removed when nothing reads it any more. *)
LEMMA FlowAfterRemoving ==
  ASSUME TypeOK, ShapeInv, todo # <<>>, Head(todo).op = "remove", Flow(fs, Len(todo), Finished),
         todo' = Tail(todo), next' = next, \A p \in Paths : p # Head(todo).out => fs'[p] = fs[p]
  PROVE  Flow(fs', Len(todo'), Finished')
<1>1. Ready(fs, Len(todo)) /\ Linkable(fs, Finished) /\ Settled(fs, Finished)
  BY DEF Flow
<1>2. /\ Linkable(fs', Finished) /\ Settled(fs', Finished)
      /\ \A p \in Paths : p.kind = "in" => fs'[p] = Complete({p.n})
  BY <1>1, WriteKeeps
<1>3. Head(todo).out = Tmp(2 * Current - 1) /\ (Assembling(1) \/ Linking(2))
  BY Removing
<1>4. CASE Assembling(1)
  <2>1. Len(todo) = 1 /\ Takes(Current, "c") /\ ~Takes(Current, "link") /\ Current \in Inputs
    BY <1>4 DEF Assembling, Takes, Is
  <2>2. Len(todo') = 0 /\ Finished' = Current
    BY <2>1, FinishedStep
  <2>3. Output(Current) \in Paths /\ Output(Current) # Head(todo).out
    BY <1>3, <2>1, PathsOfInput, Kind
  <2>4. Current \in fs'[Output(Current)].from
    <3>1. Len(todo) <= 1
      BY <2>1
    <3>2. Current \in fs[Output(Current)].from
      BY <1>1, <2>1, <3>1 DEF Ready
    <3>3. QED
      BY <2>3, <3>2
  <2>5. Settled(fs', Current)
    <3>1. ResultOf(Current) = Output(Current) /\ ~Linked(Current)
      BY <2>1, ResultOfPrinting DEF Takes, Is, Linked
    <3>2. QED
      BY <1>2, <2>1, <2>4, <3>1, SettledNext
  <2>6. Linkable(fs', Current)
    BY <1>2, LinkableNext
  <2>7. Ready(fs', Len(todo'))
    BY <1>2, <2>1, <2>2, <2>4, SmallNumbers DEF Ready
  <2>8. QED
    BY <2>2, <2>5, <2>6, <2>7 DEF Flow
<1>5. CASE Linking(2)
  <2>1. Len(todo) = 2 /\ Takes(Current, "link") /\ ~Takes(Current, "c") /\ Current \in Inputs
    BY <1>5 DEF Linking, Takes, Is
  <2>2. Len(todo') = 1 /\ Finished' = Finished
    BY <2>1, FinishedStep
  <2>3. 2 * Current # 2 * Current - 1
    BY CurrentTyped
  <2>4. Tmp(2 * Current) \in Paths /\ Tmp(2 * Current) # Head(todo).out
    BY <1>3, <2>1, <2>3, PathsOfInput, Kind
  <2>5. fs'[Tmp(2 * Current)] = Complete({Current})
    BY <1>1, <2>1, <2>4 DEF Ready
  <2>6. Ready(fs', Len(todo'))
    BY <1>2, <2>1, <2>2, <2>5, SmallNumbers DEF Ready
  <2>7. QED
    BY <1>2, <2>2, <2>6 DEF Flow
<1>6. QED
  BY <1>3, <1>4, <1>5

(* While a program runs it can spoil nothing but its output. *)
LEMMA FlowWhileRunning ==
  ASSUME TypeOK, ShapeInv, todo # <<>>, Head(todo).op = "run", Flow(fs, Len(todo), Finished),
         \A p \in Paths : p # Head(todo).out => fs'[p] = fs[p]
  PROVE  Flow(fs', Len(todo), Finished)
BY WriteKeeps, RunKeepsReady DEF Flow

(* The next input is taken up. *)
LEMMA FlowAtInput ==
  ASSUME TypeOK, ShapeInv, Flow(fs, Len(todo), Finished), TakeInput, TypeOK'
  PROVE  Flow(fs, Len(todo), Finished)'
<1>1. /\ todo = <<>> /\ next \in Inputs /\ cmd.inputs[next] # "unknown" /\ todo' = LoopBody(next)
      /\ next' = next + 1 /\ cmd' = cmd /\ ld_args' = ld_args /\ fs' = fs
  BY CommandTyped DEF TakeInput
<1>2. /\ Current' = next /\ next = Current + 1 /\ next \in Nat /\ next <= Len(cmd.inputs)
      /\ Len(cmd.inputs) \in Nat /\ Finished = Current /\ Current \in Nat
  BY <1>1, CommandTyped, CurrentTyped DEF Current
<1>3. Finished' \in {Current, next} /\ (Finished' = next => todo' = <<>>)
  <2>1. Finished' = IF todo' = <<>> THEN next ELSE next - 1
    BY <1>2 DEF Finished
  <2>2. QED
    BY <1>2, <2>1
<1>4. Ready(fs, Len(todo))'
  <2>1. \A p \in Paths : p.kind = "in" => fs'[p] = Complete({p.n})
    BY <1>1 DEF Flow, Ready
  <2>2. ASSUME Takes(next, "c")
        PROVE  Len(todo') # 2 /\ ~(Len(todo') <= 1)
    <3>1. Len(todo') = 4
      BY <1>1, <1>2, <2>2, LengthOfBody, Zenon
    <3>2. \A n : n = 4 => n # 2 /\ ~(n <= 1)
      OBVIOUS
    <3>3. QED
      BY <3>1, <3>2, Zenon
  <2>3. ASSUME Takes(next, "link")
        PROVE  Len(todo') # 3 /\ Len(todo') \notin {1, 2}
    <3>1. Len(todo') = 6
      BY <1>1, <1>2, <2>3, LengthOfBody, Zenon
    <3>2. \A n : n = 6 => n # 3 /\ n \notin {1, 2}
      OBVIOUS
    <3>3. QED
      BY <3>1, <3>2, Zenon
  <2>4. \A k : Takes(Current, k)' = Takes(next, k)
    BY <1>1, <1>2 DEF Takes, Is, Inputs
  <2>5. QED
    BY <2>1, <2>2, <2>3, <2>4 DEF Ready
<1>5. Linkable(fs, Finished)'
  <2>1. \A i \in 1 .. Finished : i \in 1 .. Finished'
    BY <1>2, <1>3
  <2>2. next' # Len(cmd.inputs) + 2
    BY <1>1, <1>2
  <2>3. QED
    BY <1>1, <2>1, <2>2, SameCommand DEF Flow, Linkable
<1>6. Settled(fs, Finished)'
  <2>1. ASSUME NEW i \in Inputs, i <= Finished', ~(i <= Finished)
        PROVE  ~Printing(i) /\ ~Linked(i)
    <3>1. i = next /\ todo' = <<>>
      BY <1>2, <1>3, <2>1, CommandTyped
    <3>2. ~Is(i, "ld") /\ ~Is(i, "c")
      <4>1. \A a, b, c, d, e, f : <<a>> # <<>> /\ <<a, b, c, d>> # <<>> /\ <<a, b, c, d, e, f>> # <<>>
        OBVIOUS
      <4>2. i \in Nat /\ LoopBody(i) = <<>>
        BY <1>1, <1>2, <3>1
      <4>3. ~Is(i, "ld")
        BY <4>1, <4>2, BodyOfObject, Zenon
      <4>4. ~Takes(i, "E") /\ ~Takes(i, "M") /\ ~Takes(i, "S") /\ ~Takes(i, "c") /\ ~Takes(i, "link")
        BY <4>1, <4>2, BodyOfPrinted, BodyOfCompiled, BodyOfAssembled, BodyOfLinked, Zenon
      <4>5. QED
        BY <4>3, <4>4, CommandTyped DEF Takes, Modes
    <3>3. QED
      BY <3>2 DEF Printing, Linked, Takes
  <2>2. Finished <= Len(cmd.inputs) /\ Finished' <= Len(cmd.inputs)
    BY <1>2, <1>3
  <2>3. Settled(fs, Finished)
    BY DEF Flow
  <2>4. \A i \in Inputs : i <= Finished' =>
          /\ Printing(i) => i \in fs[ResultOf(i)].from
          /\ Linked(i) => \E k \in DOMAIN ld_args : fs[ld_args[k]] = Complete({i})
    BY <2>1, <2>2, <2>3 DEF Settled
  <2>5. QED
    BY <1>1, <2>2, <2>4, SameCommand DEF Settled
<1>7. QED
  BY <1>4, <1>5, <1>6 DEF Flow

(* The linker is started on what was collected. *)
LEMMA FlowAtLink ==
  ASSUME TypeOK, ShapeInv, Flow(fs, Len(todo), Finished), TakeLink
  PROVE  Flow(fs, Len(todo), Finished)'
<1>1. /\ todo = <<>> /\ next = Len(cmd.inputs) + 1 /\ next' = next + 1 /\ todo' = <<LinkStep>>
      /\ cmd' = cmd /\ ld_args' = ld_args /\ ld_args # <<>> /\ fs' = fs
  BY DEF TakeLink, LinkStep
<1>2. Finished = Len(cmd.inputs) /\ Finished' = Finished /\ Current' \notin Inputs'
  <2>1. todo' # <<>>
    BY <1>1
  <2>2. QED
    BY <1>1, <2>1, CommandTyped DEF Finished, Current, Inputs
<1>3. Ready(fs, Len(todo))'
  BY <1>1, <1>2 DEF Flow, Ready, Takes, Is
<1>4. Linkable(fs, Finished)'
  BY <1>1, <1>2, SameCommand DEF Flow, Linkable
<1>5. Settled(fs, Finished)'
  BY <1>1, <1>2, SameCommand DEF Flow, Settled
<1>6. QED
  BY <1>3, <1>4, <1>5 DEF Flow

(* A file joins the linker's list. *)
LEMMA FlowAtKeep ==
  ASSUME TypeOK, ShapeInv, Flow(fs, Len(todo), Finished), KeepForLinker
  PROVE  Flow(fs, Len(todo), Finished)'
<1>1. /\ todo # <<>> /\ Head(todo).op = "keep" /\ todo' = Tail(todo) /\ next' = next
      /\ cmd' = cmd /\ ld_args' = Append(ld_args, Head(todo).out) /\ fs' = fs
  BY DEF KeepForLinker, Doing, Done
<1>2. /\ Len(todo) = 1
      /\ \/ Is(Current, "ld") /\ Head(todo).out = Path("in", Current)
         \/ Takes(Current, "link") /\ Head(todo).out = Tmp(2 * Current)
  BY <1>1, Keeping
<1>3. /\ Current \in Inputs /\ ~Takes(Current, "c") /\ Links(Current, Head(todo).out)
  BY <1>2 DEF Is, Takes, Links
<1>4. fs[Head(todo).out] = Complete({Current})
  <2>1. CASE Is(Current, "ld") /\ Head(todo).out = Path("in", Current)
    BY <1>3, <2>1, PathsOfInput, Kind DEF Flow, Ready
  <2>2. CASE Takes(Current, "link") /\ Head(todo).out = Tmp(2 * Current)
    BY <1>2, <2>2 DEF Flow, Ready
  <2>3. QED
    BY <1>2, <2>1, <2>2
<1>5. /\ Finished' = Current /\ Len(todo') = 0 /\ Current' = Current /\ Finished = Current - 1
      /\ Current \in Nat \ {0} /\ Current <= Len(cmd.inputs) /\ Len(cmd.inputs) \in Nat
  BY <1>1, <1>2, <1>3, FinishedStep, CurrentTyped DEF Current
<1>6. /\ \A k \in DOMAIN ld_args : k \in DOMAIN ld_args' /\ ld_args'[k] = ld_args[k]
      /\ \A k \in DOMAIN ld_args' : k \in DOMAIN ld_args \/ ld_args'[k] = Head(todo).out
      /\ \E k \in DOMAIN ld_args' : ld_args'[k] = Head(todo).out
      /\ ld_args' # <<>>
  <2>1. ld_args \in Seq(Paths) /\ Head(todo).out \in Paths
    BY <1>1, HeadTyped DEF TypeOK
  <2>2. /\ Len(ld_args) \in Nat /\ DOMAIN ld_args = 1 .. Len(ld_args)
        /\ DOMAIN ld_args' = 1 .. Len(ld_args) + 1
        /\ \A k \in 1 .. Len(ld_args) : ld_args'[k] = ld_args[k]
        /\ ld_args'[Len(ld_args) + 1] = Head(todo).out
    BY <1>1, <2>1
  <2>3. Len(ld_args) + 1 \in DOMAIN ld_args'
    BY <2>2
  <2>4. ld_args' # <<>>
    BY <2>3
  <2>5. QED
    BY <2>2, <2>3, <2>4
<1>7. Ready(fs, Len(todo))'
  BY <1>1, <1>3, <1>5, SameCommand, SmallNumbers DEF Flow, Ready
<1>8. Linkable(fs, Finished)'
  <2>1. ASSUME NEW k \in DOMAIN ld_args'
        PROVE  \E i \in 1 .. Current : Links(i, ld_args'[k]) /\ fs[ld_args'[k]] = Complete({i})
    <3>1. CASE k \in DOMAIN ld_args
      <4>1. PICK i \in 1 .. Finished : Links(i, ld_args[k]) /\ fs[ld_args[k]] = Complete({i})
        BY <3>1 DEF Flow, Linkable
      <4>2. i \in 1 .. Current
        BY <1>5
      <4>3. QED
        BY <1>6, <3>1, <4>1, <4>2
    <3>2. CASE ld_args'[k] = Head(todo).out
      <4>1. Current \in 1 .. Current
        BY <1>5
      <4>2. QED
        BY <1>3, <1>4, <3>2, <4>1
    <3>3. QED
      BY <1>6, <3>1, <3>2
  <2>2. \A k \in DOMAIN ld_args' : \E i \in 1 .. Finished' :
          Links(i, ld_args'[k]) /\ fs'[ld_args'[k]] = Complete({i})
    BY <1>1, <1>5, <2>1
  <2>3. QED
    BY <1>1, <1>6, <2>2 DEF Linkable, Links, Is, Takes, Inputs, Path, Tmp
<1>9. Settled(fs, Finished)'
  <2>1. Settled(fs, Finished)
    BY DEF Flow
  <2>2. ~Printing(Current)
    BY <1>2 DEF Printing, Is, Takes
  <2>3. \A i \in Inputs : i <= Current => i <= Finished \/ i = Current
    BY <1>5, CommandTyped
  <2>4. Finished <= Len(cmd.inputs)
    BY <1>5
  <2>5. \A i \in Inputs : i <= Current =>
          /\ Printing(i) => i \in fs[ResultOf(i)].from
          /\ Linked(i) => \E k \in DOMAIN ld_args' : fs[ld_args'[k]] = Complete({i})
    BY <1>4, <1>6, <2>1, <2>2, <2>3, <2>4 DEF Settled
  <2>6. QED
    BY <1>1, <1>5, <2>5, SameCommand DEF Settled
<1>10. QED
  BY <1>7, <1>8, <1>9 DEF Flow

-----------------------------------------------------------------------------
LEMMA FilesInit == Init => FilesInv
<1> SUFFICES ASSUME Init PROVE Flow(fs, Len(todo), Finished) /\ DoneInv
  BY DEF FilesInv
<1>1. next = 1 /\ todo = <<>> /\ ld_args = <<>> /\ pc = "main" /\ own = NoProc
  BY DEF Init, own
<1>2. Current = 0 /\ Finished = 0
  BY <1>1 DEF Current, Finished
<1>3. \A i \in Inputs : i \in Nat /\ i # 0 /\ ~(i <= 0) /\ Len(cmd.inputs) \in Nat \ {0}
  BY TypeInit, CommandTyped DEF Init
<1>4. 0 \notin Inputs
  BY <1>3
<1>5. Ready(fs, Len(todo))
  BY <1>2, <1>4 DEF Ready, Takes, Is, Init
<1>6. Linkable(fs, Finished)
  <2>1. next # Len(cmd.inputs) + 2
    BY <1>1, TypeInit, CommandTyped
  <2>2. QED
    BY <1>1, <2>1 DEF Linkable
<1>7. Settled(fs, Finished)
  BY <1>2, <1>3 DEF Settled
<1>8. DoneInv
  BY <1>1 DEF DoneInv, NoProc
<1>9. QED
  BY <1>5, <1>6, <1>7, <1>8 DEF Flow

LEMMA DoneOutside ==
  ASSUME pc' # "wait", procs'.own.state = "none"
  PROVE  DoneInv'
BY DEF DoneInv, own

LEMMA DoneKept ==
  ASSUME DoneInv, todo' = todo, fs' = fs, procs' = procs, status' = status, pc' = pc \/ pc' = "killed"
  PROVE  DoneInv'
BY DEF DoneInv, Delivered, own

(* A program that ends well has delivered. *)
LEMMA DoneByChild ==
  ASSUME TypeOK, ShapeInv, OwnInv, Reliable, Flow(fs, Len(todo), Finished), DoneInv, Child
  PROVE  DoneInv'
<1>1. own.state \in {"forked", "running", "writing"} /\ OwnIsHead /\ todo' = todo
  BY DEF Child, Exec, ExecFails, OpenOutput, ChildFails, ChildSucceeds, DiskFull, OwnInv, ChildFrame
<1>2. CASE Exec \/ ExecFails \/ OpenOutput \/ ChildFails
  <2>1. \E s \in {"running", "writing", "exited"}, c \in {0, 1} :
          OwnBecomes(s, c) /\ (s = "exited" => c = 1)
    BY <1>2 DEF Exec, ExecFails, OpenOutput, ChildFails
  <2>2. own'.state # "none" /\ (own'.state = "exited" => own'.code = 1)
    BY <2>1, OwnTyped
  <2>3. QED
    BY <2>2 DEF DoneInv
<1>3. CASE ChildSucceeds
  <2>1. /\ own'.state = "exited"
        /\ fs' = [fs EXCEPT ![Head(todo).out] = Translation(Head(todo).in)]
    BY <1>1, <1>3, OwnTyped DEF ChildSucceeds, OwnIsHead
  <2>2. \A p \in Head(todo).in : p \in Paths /\ p # Head(todo).out /\ fs[p].state = "complete"
    BY <1>1, ReadsComplete DEF OwnIsHead, Flow
  <2>3. Head(todo).out \in Paths
    BY <1>1, HeadTyped DEF OwnIsHead
  <2>4. fs'[Head(todo).out] = Complete(UNION {fs[p].from : p \in Head(todo).in})
    BY <2>1, <2>2, <2>3 DEF TypeOK, Translation
  <2>5. {fs'[p].from : p \in Head(todo).in} = {fs[p].from : p \in Head(todo).in}
    BY <2>1, <2>2 DEF TypeOK
  <2>6. QED
    BY <1>1, <2>1, <2>4, <2>5 DEF DoneInv, Delivered
<1>4. CASE DiskFull
  BY <1>4 DEF DiskFull, Reliable
<1>5. QED
  BY <1>2, <1>3, <1>4 DEF Child

LEMMA FilesStep ==
  ASSUME TypeOK, ShapeInv, Awaited, OwnInv, FilesInv, [Next]_vars, TypeOK'
  PROVE  FilesInv'
<1> SUFFICES ASSUME Reliable', pc' # "exited"
             PROVE  Flow(fs, Len(todo), Finished)' /\ DoneInv'
  BY DEF FilesInv
<1>1. Reliable /\ pc # "exited"
  <2>1. env' = env
    BY DEF Next, Main, Child, vars, RejectCommand, UnknownExtension, TakeInput, TakeLink, LinkPathsMissing,
           Finish, create_tmpfile, NoTmpfile, RemoveTmpfile, KeepForLinker, run_subprocess, Reap,
           WaitFails, WaitFailsUnset, SpawnReturns, Judge, Exec, ExecFails, OpenOutput, ChildFails,
           ChildSucceeds, DiskFull, InheritedEnds, Killed, ChildFrame
  <2>2. pc # "exited"
    BY DEF Next, Main, Child, vars, RejectCommand, UnknownExtension, TakeInput, TakeLink, LinkPathsMissing,
           Finish, create_tmpfile, NoTmpfile, RemoveTmpfile, KeepForLinker, run_subprocess, Reap, Doing,
           WaitFails, WaitFailsUnset, SpawnReturns, Exec, ExecFails, OpenOutput, ChildFails,
           ChildSucceeds, DiskFull, InheritedEnds, Killed, Alive
  <2>3. QED
    BY <2>1, <2>2 DEF Reliable
<1>2. Flow(fs, Len(todo), Finished) /\ DoneInv
  BY <1>1 DEF FilesInv
<1>3. /\ "inherited" \notin env /\ "sigign" \notin env
      /\ procs.inherited.state = "none"
      /\ procs \in [own : Processes, inherited : Processes]
  BY <1>1 DEF Reliable, OwnInv, TypeOK
<1>4. ~(RejectCommand \/ UnknownExtension \/ LinkPathsMissing \/ Finish \/ NoTmpfile)
  BY DEF RejectCommand, UnknownExtension, LinkPathsMissing, Finish, NoTmpfile, Exit
<1>5. ASSUME pc = "main", procs' = procs, pc' = "main"
      PROVE  DoneInv'
  <2>1. procs.own.state = "none"
    BY <1>5 DEF OwnInv, own
  <2>2. QED
    BY <1>5, <2>1, DoneOutside
<1>6. CASE TakeInput
  BY <1>2, <1>5, <1>6, FlowAtInput DEF TakeInput
<1>7. CASE TakeLink
  BY <1>2, <1>5, <1>7, FlowAtLink DEF TakeLink
<1>8. CASE create_tmpfile
  <2>1. \A p \in Paths : p # Head(todo).out => fs'[p] = fs[p]
    BY <1>8 DEF create_tmpfile, TypeOK
  <2>2. Flow(fs', Len(todo'), Finished')
    BY <1>2, <1>8, <2>1, FlowAfterMaking DEF create_tmpfile, Doing, Done
  <2>3. QED
    BY <1>5, <1>8, <2>2, FlowPrimed DEF create_tmpfile, Doing
<1>9. CASE RemoveTmpfile
  <2>1. \A p \in Paths : p # Head(todo).out => fs'[p] = fs[p]
    BY <1>9 DEF RemoveTmpfile, TypeOK
  <2>2. Flow(fs', Len(todo'), Finished')
    BY <1>2, <1>9, <2>1, FlowAfterRemoving DEF RemoveTmpfile, Doing, Done
  <2>3. QED
    BY <1>5, <1>9, <2>2, FlowPrimed DEF RemoveTmpfile, Doing
<1>10. CASE KeepForLinker
  BY <1>2, <1>5, <1>10, FlowAtKeep DEF KeepForLinker, Doing
<1>11. ASSUME cmd' = cmd, next' = next, ld_args' = ld_args, todo' = todo, fs' = fs
       PROVE  Flow(fs, Len(todo), Finished)'
  <2>1. Finished' = Finished
    BY <1>11 DEF Finished, Current
  <2>2. QED
    BY <1>2, <1>11, <2>1, FlowPrimed
<1>12. CASE run_subprocess
  <2>1. procs'.own.state = "forked"
    BY <1>3, <1>12 DEF run_subprocess, Started
  <2>2. QED
    BY <1>11, <1>12, <2>1 DEF run_subprocess, DoneInv, own
<1>13. CASE \E p \in {"own", "inherited"} : Reap(p)
  <2>1. Reap("own")
    BY <1>3, <1>13 DEF Reap
  <2>2. procs'.own = NoProc /\ own.state = "exited" /\ status' = own.code
    BY <1>3, <2>1 DEF Reap, own
  <2>3. QED
    BY <1>2, <1>11, <2>1, <2>2 DEF Reap, DoneInv, Delivered, own, NoProc
<1>14. ASSUME NEW s, Judge(s), s = 0 => Delivered, pc \in {"wait", "spawnvp"}
       PROVE  Flow(fs, Len(todo), Finished)' /\ pc' = "main"
  <2>1. s = 0
    BY <1>14 DEF Judge, Exit
  <2>2. /\ todo' = Tail(todo) /\ cmd' = cmd /\ next' = next /\ ld_args' = ld_args /\ fs' = fs
        /\ pc' = "main"
    BY <1>14, <2>1 DEF Judge, Done
  <2>3. Flow(fs, Len(todo'), Finished')
    BY <1>2, <1>14, <2>1, <2>2, FlowAdvances DEF Awaited
  <2>4. QED
    BY <2>2, <2>3, FlowPrimed
<1>15. CASE WaitFails
  <2>1. own.state = "none" /\ pc = "wait" /\ procs' = procs /\ Judge(status)
    BY <1>3, <1>15 DEF WaitFails, own
  <2>2. status = 0 => Delivered
    BY <1>2, <2>1 DEF DoneInv
  <2>3. QED
    BY <1>14, <2>1, <2>2, DoneOutside DEF own
<1>16. CASE WaitFailsUnset
  BY <1>3, <1>16 DEF WaitFailsUnset
<1>17. CASE SpawnReturns
  <2>1. own.state = "exited" /\ pc = "spawnvp" /\ procs'.own = NoProc /\ Judge(own.code)
    BY <1>3, <1>17 DEF SpawnReturns, own
  <2>2. own.code = 0 => Delivered
    BY <1>2, <2>1 DEF DoneInv
  <2>3. QED
    BY <1>14, <2>1, <2>2, DoneOutside DEF NoProc
<1>18. CASE Child
  <2>1. ChildFrame /\ todo # <<>> /\ Head(todo).op = "run"
        /\ \A p \in Paths : p # Head(todo).out => fs'[p] = fs[p]
    BY <1>18, ChildWrites DEF OwnIsHead
  <2>2. Flow(fs', Len(todo), Finished)
    BY <1>2, <2>1, FlowWhileRunning
  <2>3. todo' = todo /\ Finished' = Finished /\ cmd' = cmd /\ next' = next /\ ld_args' = ld_args
    BY <2>1 DEF ChildFrame, Finished, Current
  <2>4. Flow(fs, Len(todo), Finished)'
    BY <2>2, <2>3, FlowPrimed
  <2>5. QED
    BY <1>1, <1>2, <1>18, <2>4, DoneByChild
<1>19. CASE InheritedEnds
  BY <1>3, <1>19 DEF InheritedEnds
<1>20. CASE Killed
  BY <1>2, <1>11, <1>20, DoneKept DEF Killed
<1>21. CASE UNCHANGED vars
  BY <1>2, <1>11, <1>21, DoneKept DEF vars
<1>22. QED
  BY <1>4, <1>6, <1>7, <1>8, <1>9, <1>10, <1>12, <1>13, <1>15, <1>16, <1>17, <1>18, <1>19, <1>20, <1>21
  DEF Next, Main

-----------------------------------------------------------------------------
-----------------------------------------------------------------------------
(* The exit status. *)

(* Finish exits with status 0 only when every input has its result. *)
LEMMA HonestAtFinish ==
  ASSUME TypeOK, ShapeInv, TmpInv, FilesInv, Finish
  PROVE  ExitStatusHonest'
<1> SUFFICES ASSUME Reliable', NEW i \in Inputs, cmd.inputs[i] # "asm", cmd.mode = "link" \/ ~Shared(i)
             PROVE  i \in fs'[ResultOf(i)].from
  <2>1. cmd' = cmd /\ Inputs' = Inputs
    BY DEF Finish, Inputs
  <2>2. \A i : ResultOf(i)' = ResultOf(i) /\ Shared(i)' = Shared(i)
    BY <2>1 DEF ResultOf, Shared, Printed, Output, Executable, Inputs
  <2>3. QED
    BY <2>1, <2>2 DEF ExitStatusHonest, Inputs
<1>1. /\ pc = "main" /\ todo = <<>> /\ next > Len(cmd.inputs) /\ Reliable
      /\ next = Len(cmd.inputs) + 1 => ld_args = <<>>
      /\ fs' = [p \in Paths |-> IF p \in tmpfiles THEN Absent ELSE fs[p]]
  BY DEF Finish, Exit, cleanup, Reliable
<1>2. Settled(fs, Current)
  BY <1>1, CurrentTyped DEF FilesInv, Flow
<1>3. i \in Nat /\ i <= Current /\ i < next /\ Len(cmd.inputs) \in Nat
      /\ next \in {Len(cmd.inputs) + 1, Len(cmd.inputs) + 2}
  BY <1>1, CommandTyped DEF Current, ShapeInv
<1>4. fs'[ResultOf(i)] = fs[ResultOf(i)]
  BY <1>1, ResultTyped DEF TmpInv
<1>5. Is(i, "ld") \/ Is(i, "c")
  BY <1>3, CommandTyped DEF ShapeInv, Is, Kinds
<1>6. ASSUME Linked(i)
      PROVE  i \in fs[Executable].from
  <2>1. ~(Current <= Len(cmd.inputs))
    <3>1. CASE next = Len(cmd.inputs) + 1
      <4>1. Current <= Len(cmd.inputs)
        BY <1>3, <3>1 DEF Current
      <4>2. \E k \in DOMAIN ld_args : fs[ld_args[k]] = Complete({i})
        BY <1>2, <1>3, <1>6, <4>1 DEF Settled
      <4>3. QED
        BY <1>1, <3>1, <4>2
    <3>2. CASE next = Len(cmd.inputs) + 2
      BY <1>3, <3>2 DEF Current
    <3>3. QED
      BY <1>3, <3>1, <3>2
  <2>2. QED
    BY <1>2, <1>3, <1>6, <2>1 DEF Settled
<1>7. CASE Linked(i)
  <2>1. ResultOf(i) = Executable
    BY <1>7, ResultOfObject, ResultOfPrinting DEF Linked, Takes
  <2>2. QED
    BY <1>4, <1>6, <1>7, <2>1
<1>8. CASE ~Linked(i)
  <2>1. Printing(i)
    BY <1>5, <1>8 DEF Linked, Takes, Printing
  <2>2. QED
    BY <1>2, <1>3, <1>4, <2>1 DEF Settled
<1>9. QED
  BY <1>7, <1>8

LEMMA HonestStep ==
  ASSUME TypeOK, ShapeInv, TmpInv, FilesInv, ExitStatusHonest, [Next]_vars
  PROVE  ExitStatusHonest'
<1>1. CASE Finish
  BY <1>1, HonestAtFinish
<1>2. CASE RejectCommand \/ UnknownExtension \/ LinkPathsMissing \/ NoTmpfile
  BY <1>2 DEF RejectCommand, UnknownExtension, LinkPathsMissing, NoTmpfile, Exit, ExitStatusHonest
<1>3. CASE TakeInput \/ TakeLink \/ create_tmpfile \/ RemoveTmpfile \/ KeepForLinker \/ run_subprocess
  BY <1>3 DEF TakeInput, TakeLink, create_tmpfile, RemoveTmpfile, KeepForLinker, run_subprocess, Doing,
              ExitStatusHonest
<1>4. CASE \E p \in {"own", "inherited"} : Reap(p)
  BY <1>4 DEF Reap, ExitStatusHonest
<1>5. ASSUME NEW s, Judge(s)
      PROVE  pc' = "exited" => code' = 1
  BY <1>5 DEF Judge, Exit
<1>6. CASE WaitFails \/ WaitFailsUnset \/ SpawnReturns
  BY <1>5, <1>6 DEF WaitFails, WaitFailsUnset, SpawnReturns, ExitStatusHonest
<1>7. CASE Child \/ InheritedEnds
  BY <1>7 DEF Child, Exec, ExecFails, OpenOutput, ChildFails, ChildSucceeds, DiskFull, Alive,
              InheritedEnds, ChildFrame, ExitStatusHonest
<1>8. CASE Killed
  BY <1>8 DEF Killed, ExitStatusHonest
<1>9. CASE UNCHANGED vars
  BY <1>9 DEF vars, ExitStatusHonest, Reliable, Shared, ResultOf, Printed, Output, Executable
<1>10. QED
  BY <1>1, <1>2, <1>3, <1>4, <1>6, <1>7, <1>8, <1>9 DEF Next, Main

-----------------------------------------------------------------------------
-----------------------------------------------------------------------------
(* The theorems. *)

(* The inductive invariant. *)
SafeInv == /\ TypeOK /\ ShapeInv /\ Awaited /\ OwnInv
           /\ TmpInv /\ FilesInv /\ ExitStatusHonest

LEMMA ShapeInit == Init => ShapeInv /\ Awaited /\ OwnInv /\ ExitStatusHonest
<1> SUFFICES ASSUME Init PROVE ShapeInv /\ Awaited /\ OwnInv /\ ExitStatusHonest
  OBVIOUS
<1>1. /\ next = 1 /\ todo = <<>> /\ pc = "main" /\ own = NoProc /\ Len(cmd.inputs) \in Nat \ {0}
      /\ Inputs = 1 .. Len(cmd.inputs)
  BY TypeInit, CommandTyped DEF Init, own
<1>2. Body = <<>>
  <2>1. Current \notin Inputs /\ next # Len(cmd.inputs) + 2
    BY <1>1 DEF Current
  <2>2. QED
    BY <2>1 DEF Body
<1>3. ShapeInv
  BY <1>1, <1>2 DEF ShapeInv
<1>4. OwnInv
  BY <1>1 DEF OwnInv, NoProc, Init
<1>5. QED
  BY <1>1, <1>3, <1>4 DEF Awaited, ExitStatusHonest

LEMMA SafeInit == Init => SafeInv
BY TypeInit, ShapeInit, TmpInit, FilesInit DEF SafeInv

LEMMA SafeStep == SafeInv /\ [Next]_vars => SafeInv'
<1> SUFFICES ASSUME SafeInv, [Next]_vars PROVE SafeInv'
  OBVIOUS
<1> USE DEF SafeInv
<1>1. TypeOK'
  <2>1. CASE Main
    BY <2>1, TypeStepMain
  <2>2. CASE Child \/ InheritedEnds \/ Killed
    BY <2>2, TypeStepChild
  <2>3. CASE UNCHANGED vars
    BY <2>3 DEF vars, TypeOK
  <2>4. QED
    BY <2>1, <2>2, <2>3 DEF Next
<1>2. ShapeInv' /\ Awaited' /\ OwnInv'
  BY <1>1, ShapeStep, AwaitedStep, OwnStep
<1>3. TmpInv' /\ FilesInv' /\ ExitStatusHonest'
  BY <1>1, TmpStep, FilesStep, HonestStep
<1>4. QED
  BY <1>1, <1>2, <1>3

(* It holds in every state of every behaviour. *)
LEMMA Safe == Spec => []SafeInv
<1>1. QED
  BY SafeInit, SafeStep, PTL DEF Spec

(* main() and the programs it starts keep every variable in its range, in    *)
(* every environment (src/main.c:938-1034).                                  *)
THEOREM DriverTyped == Spec => []TypeOK
<1>1. SafeInv => TypeOK
  BY DEF SafeInv
<1>2. QED
  BY <1>1, Safe, PTL

(* When the driver ends by itself no temporary file is left, whatever the    *)
(* environment and wherever in the loop a child failed: create_tmpfile has   *)
(* registered every one before cleanup runs (src/main.c:561-578, 611).       *)
THEOREM TmpfilesRemoved == Spec => []NoTmpfileLeft
<1>1. SafeInv => NoTmpfileLeft
  BY DEF SafeInv, TmpInv, NoTmpfileLeft
<1>2. QED
  BY <1>1, Safe, PTL

(* Where the platform keeps its promises (Reliable), a program that writes   *)
(* reads only complete files: run_subprocess waited for the program that     *)
(* makes them and exits when it fails (src/main.c:607-612).                  *)
THEOREM StagesInOrder == Spec => []StagesReadCompleteFiles
<1>1. SafeInv => StagesReadCompleteFiles
  <2> SUFFICES ASSUME SafeInv, Reliable, own.state # "none"
               PROVE  \A p \in own.in : fs[p].state = "complete" /\ fs[p].from # {}
    BY DEF StagesReadCompleteFiles
  <2>1. pc \in {"wait", "spawnvp", "killed"} /\ OwnIsHead
    BY DEF SafeInv, OwnInv
  <2>2. Ready(fs, Len(todo)) /\ Linkable(fs, Finished)
    BY <2>1 DEF SafeInv, FilesInv, Flow
  <2>3. QED
    BY <2>1, <2>2, ReadsComplete DEF SafeInv, OwnIsHead
<1>2. QED
  BY <1>1, Safe, PTL

(* There too, exit status 0 means that every input has its complete result,  *)
(* and the executable the code of all inputs, unless two inputs were told to *)
(* share one output file (src/main.c:957-1034).                              *)
THEOREM StatusHonest == Spec => []ExitStatusHonest
<1>1. SafeInv => ExitStatusHonest
  BY DEF SafeInv
<1>2. QED
  BY <1>1, Safe, PTL
=============================================================================
