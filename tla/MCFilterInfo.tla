---------------------------- MODULE MCFilterInfo ----------------------------
(* Model-checking instance of FilterInfo: symmetry over the model values. *)
EXTENDS FilterInfo, TLC

LOCAL Rel == INSTANCE Relation

CONSTANTS A, B, F1, F2, F3

MCTypes == {A, B}
MCFilterTypes == {F1, F2, F3}

Symmetry == Permutations(MCTypes) \cup Permutations(MCFilterTypes)

\* Filter p provides an input of filter c that has no time shift: the
\* dependency the dispatch of one packet follows.
ZeroShiftFeeds ==
    [pc \in FilterTypes \X FilterTypes |->
        \E i \in DOMAIN sig[pc[2]] :
            /\ sig[pc[2]][i].is_input /\ sig[pc[2]][i].tshift = 0
            /\ IsProvider([type |-> pc[1], args |-> sig[pc[1]]], sig[pc[2]][i].id)]

\* The registries a program can set up and dispatch: a chain of providers
\* leads back to where it started only through an auto_prev<T, N> input.
PrevOnlyCycles ==
    Rel!IsIrreflexive(Rel!TransitiveClosure(ZeroShiftFeeds, FilterTypes), FilterTypes)

PrevCycleSpec == Init /\ PrevOnlyCycles /\ [][Next]_vars /\ WF_vars(InfoStep)
=============================================================================
