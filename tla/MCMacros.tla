------------------------------- MODULE MCMacros -------------------------------
(* Families of macro definitions and texts for the macro expander. *)
EXTENDS Macros, TLC

T(atoms) == [i \in DOMAIN atoms |-> <<atoms[i]>>]
Object(body) == [objlike |-> TRUE, params |-> <<>>, variadic |-> FALSE, body |-> T(body)]
Function(params, body) == [objlike |-> FALSE, params |-> T(params), variadic |-> FALSE, body |-> T(body)]
Variadic(params, body) == [objlike |-> FALSE, params |-> T(params), variadic |-> TRUE, body |-> T(body)]
Program(table, atoms) == [macros |-> table, texts |-> T(atoms)]

(* Three object-like macros that refer to each other in any way. *)
Bodies(atoms) == {<<>>} \cup {<<a>> : a \in atoms} \cup {<<a, b>> : a, b \in atoms}
ObjectCycles ==
  {Program(<<"A">> :> Object(a) @@ <<"B">> :> Object(b) @@ <<"C">> :> Object(c), t) :
     a \in Bodies({"A", "B", "C"}), b \in Bodies({"A", "C", "x"}), c \in {<<>>, <<"A">>, <<"B">>, <<"C">>, <<"A", "B">>},
     t \in {<<"A">>, <<"B", "A">>}}

(* Two function-like macros, also passed to each other, and texts in which the *)
(* arguments of an invocation come from behind the replacement of its name.    *)
FunctionBodies ==
  {<<"x">>, <<"f">>, <<"g">>, <<"f", "(", "x", ")">>, <<"g", "(", "x", ")">>, <<"x", "(", "1", ")">>, <<"x", "x">>,
   <<"x", "g">>, <<"f", "x">>, <<"(", "x", ")">>, <<"x", "(", "x", ")">>, <<"g", "(">>}
FunctionTexts ==
  {<<"f", "(", "2", ")", "(", "9", ")">>, <<"f", "(", "g", ")", "(", "f", ")", "(", "1", ")">>,
   <<"f", "(", "f", ")", "(", "1", ")">>, <<"f", "(", "f", "(", "1", ")", ")">>, <<"g", "(", "f", "(", "g", ")", ")">>,
   <<"f", "g", "(", "f", ")">>, <<"f", "(", "g", "(", "f", ")", "(", "2", ")", ")">>, <<"f", "(", "1">>,
   <<"f", "(", ")", "2", ")">>, <<"f", "(", "1", ",", "2", ")">>, <<"g", "(", "(", "1", ",", "f", ")", ")">>,
   <<"f", "(", "A", ")", "(", "A", ")">>}
Functions ==
  {Program(<<"f">> :> Function(<<"x">>, f) @@ <<"g">> :> Function(<<"x">>, g) @@ <<"A">> :> Object(a), t) :
     f \in FunctionBodies, g \in FunctionBodies, a \in {<<"g">>}, t \in FunctionTexts}

(* # and ##: the operands are not expanded, what is pasted may be a macro. A *)
(* parameter used raw is not used expanded before, and of two operands that  *)
(* ## joins to a third one of the first two is not empty.                    *)
OperatorBodies ==
  {<<"#", "x", "x">>, <<"#", "x", "#", "y">>, <<"x", "##", "y">>, <<"x", "##", "y", "x">>, <<"p", "x", "##", "y", "p">>,
   <<"x", "##", "p">>, <<"p", "##", "x">>, <<"p", "##", "x", "##", "p", "y">>, <<"#", "x", "x", "##", "y">>,
   <<"x", "y">>, <<"##", "x">>, <<"x", "##">>, <<"#", "p">>, <<"x", "(", "y", ")">>}
OperatorOperands == {<<>>, <<"f">>, <<"A">>, <<"A", "A">>, <<"2">>, <<"f", "(", "1", ")">>, <<"(", "A", ",", ")">>, <<"+", "A">>}
Operators ==
  {Program(<<"h">> :> Function(<<"x", "y">>, h) @@ <<"f">> :> Function(<<"x">>, <<"x", "h", "A">>) @@ <<"A">> :> Object(<<"f", "A">>)
             @@ <<"f", "2">> :> Object(<<"A", "f">>) @@ <<"A", "A">> :> Object(<<"h">>),
           <<"h", "(">> \o a \o <<",">> \o b \o <<")", "(", "A", ")">>) :
     h \in OperatorBodies, a \in OperatorOperands, b \in OperatorOperands}

(* Variadic macros, the GNU comma and __VA_OPT__. *)
VariadicBodies ==
  {<<"x", "__VA_ARGS__">>, <<"f", "(", "__VA_ARGS__", ")">>, <<"f", "(", "x", ",", "##", "__VA_ARGS__", ")">>,
   <<"#", "__VA_ARGS__", "x">>, <<"x", "__VA_OPT__", "(", ",", "A", "(", ")", ")", "__VA_ARGS__">>, <<"x", "##", "__VA_ARGS__">>}
VariadicTexts ==
  {<<"v", "(", ")">>, <<"v", "(", "1", ")">>, <<"v", "(", "1", ",", ")">>, <<"v", "(", "f", ",", "A", ",", "2", ")">>,
   <<"v", "(", "(", "1", ",", "2", ")", ",", "v", "(", "A", ")", ")">>, <<"v", "(", ",", ",", ")">>}
Variadics ==
  {Program(<<"v">> :> m @@ <<"f">> :> Function(<<"y", "z">>, <<"z", "y", "v">>) @@ <<"A">> :> Object(<<"v">>), t) :
     m \in {Variadic(<<"x">>, b) : b \in VariadicBodies} \cup {Variadic(<<>>, b) : b \in {<<"__VA_ARGS__">>, <<"f", "(", "__VA_ARGS__", ")">>}}
             \cup {Function(<<>>, <<"v", "A">>)},
     t \in VariadicTexts}

MCPrograms == [objects |-> ObjectCycles, functions |-> Functions, operators |-> Operators, variadics |-> Variadics]
=============================================================================
