----------------------------- MODULE FilterInfo -----------------------------
(***************************************************************************)
(* The filter-graph queries of AutowiringDebug.cpp run against a growing  *)
(* filter registry:                                                        *)
(*   - AutoFilterInfo(name): the recursive walk fnCall that prints, for    *)
(*     every input of a filter, each filter that provides it, and recurses *)
(*     into that provider.  The recursion is kept as an explicit stack of  *)
(*     frames so that every loop iteration is one step;                    *)
(*   - ListRootDecorations(): the inputs no filter outputs.                *)
(* Both work on a copy of the descriptors taken when they are called       *)
(* (GetAutoFilters returns a vector by value); since the registry only     *)
(* grows, the copy is the prefix of the registry of the length recorded.   *)
(***************************************************************************)
EXTENDS FilterRegistry

CONSTANT MaxDepth   \* frames the calling thread's stack holds

ASSUME MaxDepth \in Nat \ {0}

VARIABLES
    status,     \* "idle", "nofactory", "running", "done", "notfound" or "overflow"
    slen,       \* length of the registry copy the walk works on
    root,       \* index of the descriptor named in the call
    stack,      \* frames of fnCall: descriptor d, argument i, provider j
    out,        \* printed provider lines: level, id, provider index
    rlen,       \* length of the registry copy of the last ListRootDecorations
    roots       \* its result

vars == <<regVars, status, slen, root, stack, out, rlen, roots>>

Snap == SubSeq(GetAutoFilters, 1, slen)

Frame == [d : Nat, i : Nat, j : Nat]
Line  == [level : Nat, id : Types, provider : Nat]

TypeOK ==
    /\ RegTypeOK
    /\ status \in {"idle", "nofactory", "running", "done", "notfound", "overflow"}
    /\ slen \in 0..Len(registry) /\ rlen \in 0..Len(registry)
    /\ root \in Nat
    /\ stack \in Seq(Frame) /\ Len(stack) =< MaxDepth
    /\ out \in Seq(Line)
    /\ roots \subseteq Types

Init ==
    /\ RegInit
    /\ status = "idle" /\ slen = 0 /\ root = 0
    /\ stack = <<>> /\ out = <<>>
    /\ rlen = 0 /\ roots = {}

walkVars == <<status, slen, root, stack, out>>

-----------------------------------------------------------------------------
(* AutoFilterInfo(name): without a factory, "No factory detected in this *)
(* context"; otherwise copy the descriptors, find the named one, print    *)
(* its type and call fnCall on it with level 1.  A new call may start     *)
(* once the previous one returned.                                        *)
Returned == {"idle", "nofactory", "done", "notfound"}

InfoNoFactory ==
    /\ status \in Returned
    /\ ~factory
    /\ status' = "nofactory" /\ slen' = 0 /\ root' = 0 /\ stack' = <<>> /\ out' = <<>>
    /\ UNCHANGED <<regVars, rlen, roots>>

AutoFilterInfo(name) ==
    /\ status \in Returned
    /\ factory
    /\ LET k == DescriptorByName(name, GetAutoFilters)
       IN  /\ slen' = Len(registry)
           /\ root' = k
           /\ out' = <<>>
           /\ IF k = 0
                 THEN status' = "notfound" /\ stack' = <<>>
                 ELSE status' = "running" /\ stack' = <<[d |-> k, i |-> 1, j |-> 1]>>
    /\ UNCHANGED <<regVars, rlen, roots>>

Top == stack[Len(stack)]
TopArgs == Snap[Top.d].args
SetTop(f) == [stack EXCEPT ![Len(stack)] = f]

\* for (i < arity): the loop over the arguments is exhausted, fnCall returns.
InfoReturn ==
    /\ status = "running"
    /\ Top.i > Len(TopArgs)
    /\ stack' = SubSeq(stack, 1, Len(stack) - 1)
    /\ status' = IF Len(stack) = 1 THEN "done" ELSE "running"
    /\ UNCHANGED <<regVars, slen, root, out, rlen, roots>>

\* if (!args[i].is_input) continue;
InfoSkipArg ==
    /\ status = "running"
    /\ Top.i =< Len(TopArgs)
    /\ ~TopArgs[Top.i].is_input
    /\ stack' = SetTop([Top EXCEPT !.i = @ + 1, !.j = 1])
    /\ UNCHANGED <<regVars, status, slen, root, out, rlen, roots>>

\* The loop over the candidate providers of input i is exhausted.
InfoNextArg ==
    /\ status = "running"
    /\ Top.i =< Len(TopArgs)
    /\ TopArgs[Top.i].is_input
    /\ Top.j > slen
    /\ stack' = SetTop([Top EXCEPT !.i = @ + 1, !.j = 1])
    /\ UNCHANGED <<regVars, status, slen, root, out, rlen, roots>>

\* Candidate j does not provide input i.
InfoSkipProvider ==
    /\ status = "running"
    /\ Top.i =< Len(TopArgs)
    /\ TopArgs[Top.i].is_input
    /\ Top.j =< slen
    /\ ~IsProvider(Snap[Top.j], TopArgs[Top.i].id)
    /\ stack' = SetTop([Top EXCEPT !.j = @ + 1])
    /\ UNCHANGED <<regVars, status, slen, root, out, rlen, roots>>

\* Mutant: print the provider but do not recurse into it.
InfoVisitNoRecurse ==
    /\ status = "running"
    /\ Top.i =< Len(TopArgs)
    /\ TopArgs[Top.i].is_input
    /\ Top.j =< slen
    /\ IsProvider(Snap[Top.j], TopArgs[Top.i].id)
    /\ out' = Append(out, [level |-> Len(stack), id |-> TopArgs[Top.i].id, provider |-> Top.j])
    /\ stack' = SetTop([Top EXCEPT !.j = @ + 1])
    /\ UNCHANGED <<regVars, status, slen, root, rlen, roots>>

\* Candidate j provides input i: print the line and recurse into it with
\* one more level.  A call that needs more frames than the stack holds
\* overflows it, which ends the process.
InfoVisitProvider ==
    /\ status = "running"
    /\ Top.i =< Len(TopArgs)
    /\ TopArgs[Top.i].is_input
    /\ Top.j =< slen
    /\ IsProvider(Snap[Top.j], TopArgs[Top.i].id)
    /\ out' = Append(out, [level |-> Len(stack), id |-> TopArgs[Top.i].id, provider |-> Top.j])
    /\ IF Len(stack) = MaxDepth
          THEN status' = "overflow" /\ UNCHANGED stack
          ELSE /\ stack' = Append(SetTop([Top EXCEPT !.j = @ + 1]), [d |-> Top.j, i |-> 1, j |-> 1])
               /\ UNCHANGED status
    /\ UNCHANGED <<regVars, slen, root, rlen, roots>>

InfoStep == InfoReturn \/ InfoSkipArg \/ InfoNextArg \/ InfoSkipProvider \/ InfoVisitProvider

-----------------------------------------------------------------------------
(* ListRootDecorations() on a copy of the descriptors; without a factory  *)
(* it returns an empty list.                                               *)
RootsNoFactory ==
    /\ ~factory
    /\ rlen' = 0 /\ roots' = {}
    /\ UNCHANGED <<regVars, walkVars>>

ListRoots ==
    /\ factory
    /\ rlen' = Len(registry)
    /\ roots' = ListRootDecorations(GetAutoFilters)
    /\ UNCHANGED <<regVars, walkVars>>

Next ==
    \/ InjectFactory /\ UNCHANGED <<walkVars, rlen, roots>>
    \/ \E f \in FilterTypes : Register(f) /\ UNCHANGED <<walkVars, rlen, roots>>
    \/ InfoNoFactory
    \/ \E name \in FilterTypes : AutoFilterInfo(name)
    \/ InfoStep
    \/ RootsNoFactory
    \/ ListRoots

\* fnCall runs on the calling thread without blocking: weak fairness.
Spec == Init /\ [][Next]_vars /\ WF_vars(InfoStep)

-----------------------------------------------------------------------------
(* Reference definitions, from spec 4.2.                                   *)

\* Descriptor p feeds descriptor c when it provides one of c's inputs.
Feeds(descs, p, c) ==
    \E i \in DOMAIN descs[c].args :
        descs[c].args[i].is_input /\ p \in ArgumentProviding(descs, descs[c].args[i].id)

\* Every descriptor from which a chain of providers leads to descriptor c.
RECURSIVE UpstreamOf(_, _)
UpstreamOf(descs, S) ==
    LET S2 == S \cup { p \in DOMAIN descs : \E c \in S : Feeds(descs, p, c) }
    IN  IF S2 = S THEN S ELSE UpstreamOf(descs, S2)

Upstream(descs, c) == UpstreamOf(descs, { p \in DOMAIN descs : Feeds(descs, p, c) })

\* The line that printed the filter a line at level L hangs under: the
\* nearest earlier line at level L - 1 (level 1 hangs under the root).
ParentOf(k) ==
    IF out[k].level = 1 THEN root
    ELSE out[CHOOSE m \in 1..(k - 1) :
                /\ out[m].level = out[k].level - 1
                /\ \A n \in (m + 1)..(k - 1) : out[n].level # out[k].level - 1]
            .provider

-----------------------------------------------------------------------------
(* Properties.                                                             *)

\* AutoFilterInfo is sound: every printed line names a filter that
\* outputs the printed type, under a filter that takes that type as an
\* input (fnCall's provider test, AutowiringDebug.cpp:250-257).
InfoLinesSound ==
    status \in {"running", "done"} =>
        \A k \in DOMAIN out :
            /\ out[k].provider \in ArgumentProviding(Snap, out[k].id)
            /\ \E i \in DOMAIN Snap[ParentOf(k)].args :
                  Snap[ParentOf(k)].args[i].id = out[k].id /\ Snap[ParentOf(k)].args[i].is_input

\* AutoFilterInfo is complete: when it returns, the filters it printed are
\* exactly those from which a chain of providers leads to the named filter
\* (spec 4.2 ArgumentProviding, applied transitively).
InfoComplete ==
    status = "done" =>
        { out[k].provider : k \in DOMAIN out } = Upstream(Snap, root)

\* Every AutoFilterInfo call returns (fnCall terminates).
AutoFilterInfoReturns ==
    status = "running" ~> status = "done"

\* ListRootDecorations agrees with the spec's UnsatisfiedInputs on the same
\* copy of the registry (AutowiringDebug.cpp:283-293).
RootsMatchSpec ==
    roots = UnsatisfiedInputs(SubSeq(GetAutoFilters, 1, rlen))

\* Every type some filter takes as an input (in place or not) is either
\* produced by some filter or reported by ListRootDecorations.
RootsComplete ==
    LET descs == SubSeq(GetAutoFilters, 1, rlen)
    IN  \A a \in AllArgs(descs) :
            a.is_input => a.id \in roots \/ ArgumentProviding(descs, a.id) # {}
=============================================================================
