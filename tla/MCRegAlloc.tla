------------------------------ MODULE MCRegAlloc ------------------------------
(* Instances of RegAlloc for TLC: the shapes of values, the positions of    *)
(* calls and the frame sizes of the small functions it allocates.           *)
EXTENDS RegAlloc

Scalar   == [float |-> FALSE, mem |-> FALSE, size |-> 4, align |-> 4]
Struct12 == [float |-> FALSE, mem |-> TRUE, size |-> 12, align |-> 4]
Float16  == [float |-> TRUE, mem |-> FALSE, size |-> 16, align |-> 16]

ScalarAndFloat == {Scalar, Float16}
AllShapes      == {Scalar, Struct12, Float16}

(* A call at 3: some intervals have it inside them, others do not.         *)
OneCall == {{3}}
NoCalls == {{}}

(* A frame that already holds locals, not a multiple of a word. *)
FrameBases == {20}
=============================================================================
