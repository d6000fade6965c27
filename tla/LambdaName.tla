----------------------------- MODULE LambdaName -----------------------------
(***************************************************************************)
(* IsLambda (AutowiringDebug.cpp:24-41, the non-MSVC build): a type is     *)
(* taken for a lambda when its demangled name holds a character that is    *)
(* not a letter, a digit, '_', ':', '<', '>', ',' or ' '.                  *)
(*                                                                         *)
(* A demangled name is a sequence of one-character strings, spelled the    *)
(* way the Itanium demangler prints the types of the model: a lambda's     *)
(* closure type "f()::{lambda()#1}", and types that are no lambda: plain,  *)
(* namespaced and template classes, a class in an anonymous namespace      *)
(* ("(anonymous namespace)::A") and a template over a pointer ("t<A*>"). *)
(* Words the check does not look into are shortened ("l" for "lambda").   *)
(***************************************************************************)
EXTENDS Naturals, Sequences

Letters == {"a", "b", "f", "l", "n", "t", "A", "B"}
Digits == {"1"}

\* The closure types and the other types the demangler names.
Names ==
    { [kind |-> "lambda", name |-> <<"f", "(", ")", ":", ":", "{", "l", "(", ")", "#", "1", "}">>],
      [kind |-> "class",  name |-> <<"A">>],
      [kind |-> "class",  name |-> <<"n", ":", ":", "A">>],
      [kind |-> "class",  name |-> <<"t", "<", "A", ",", " ", "B", ">">>],
      [kind |-> "class",  name |-> <<"(", "a", " ", "n", ")", ":", ":", "A">>],
      [kind |-> "class",  name |-> <<"t", "<", "A", "*", ">">>] }

\* The characters a non-lambda name may hold.
Allowed(cur) == cur \in Letters \cup Digits \cup {"_", ":", "<", ">", ",", " "}

\* IsLambda(ti): some character of demangle(ti) is not allowed.
IsLambda(name) == \E i \in DOMAIN name : ~Allowed(name[i])

VARIABLES
    ti,         \* the type asked about
    verdict     \* IsLambda's answer as a kind; "none" before the call

vars == <<ti, verdict>>

TypeOK == ti \in Names /\ verdict \in {"none", "lambda", "class"}

Init == ti \in Names /\ verdict = "none"

Ask ==
    /\ verdict = "none"
    /\ verdict' = IF IsLambda(ti.name) THEN "lambda" ELSE "class"
    /\ UNCHANGED ti

Spec == Init /\ [][Ask]_vars

-----------------------------------------------------------------------------
\* IsLambda answers true exactly for the closure types of lambdas (its
\* comment: lambdas are found by their forbidden characters; spec 3 marks
\* such types as synthesized): no class type, however it is named, is
\* taken for a lambda.
IsLambdaExact == verdict # "none" => verdict = ti.kind
=============================================================================
