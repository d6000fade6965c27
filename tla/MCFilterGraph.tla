---------------------------- MODULE MCFilterGraph ----------------------------
(* Model-checking instance of FilterGraph: model values for types and     *)
(* filters, and the demangled names of the filters.                       *)
EXTENDS FilterGraph, TLC

CONSTANTS A, B, F1, F2, F3

MCTypes == {A, B}
MCFilterTypes == {F1, F2, F3}

\* Every filter type demangles to a name of its own.
DistinctNames == [f \in FilterTypes |-> f]

\* F1 and F2 demangle to the same text, as two types named
\* "(anonymous namespace)::Filter" in two translation units do.
SharedName == [f \in FilterTypes |-> IF f = F2 THEN F1 ELSE f]

Symmetry == Permutations(MCTypes) \cup Permutations(MCFilterTypes)
=============================================================================
