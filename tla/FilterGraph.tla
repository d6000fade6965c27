---------------------------- MODULE FilterGraph ----------------------------
(***************************************************************************)
(* WriteAutoFilterGraph (AutowiringDebug.cpp:303-392): the DOT export of   *)
(* the filter graph.  It copies the factory's descriptors and, in order,   *)
(* gives each filter name and each decoration name an id from one counter  *)
(* (first occurrence wins), writes one edge per (filter, argument), then   *)
(* one box label per filter name and one oval label per decoration name.  *)
(*                                                                         *)
(* The text is abstracted to its content: an edge is its two ids, whether  *)
(* it carries [dir=both] and its time shift; a label is an id, a name and  *)
(* a shape.  Filters are keyed by demangle(desc.GetType()), FilterName     *)
(* here; decorations by DemangleWithAutoID(arg.id), which is one name per  *)
(* type (the type itself here).  Registrations interleave with exports.    *)
(***************************************************************************)
EXTENDS FilterRegistry, Integers, TLC

LOCAL Seqs == INSTANCE SequencesExt

CONSTANT FilterName     \* demangle(desc.GetType()) of each filter type

ASSUME FilterName \in [FilterTypes -> FilterTypes]

VARIABLES
    graph,      \* the last graph written: edges and node labels
    glen        \* registry entries it was written from; -1 before any

gVars == <<graph, glen>>
vars == <<regVars, gVars>>

Shapes == {"box", "oval"}

TypeOK ==
    /\ RegTypeOK
    /\ graph \in [edges : Seq([from : Nat, to : Nat, both : BOOLEAN, shift : Nat]),
                  nodes : SUBSET [id : Nat, name : FilterTypes \cup Types, shape : Shapes]]
    /\ glen \in {-1} \cup 0..Len(registry)

Init ==
    /\ RegInit
    /\ graph = [edges |-> <<>>, nodes |-> {}]
    /\ glen = -1

-----------------------------------------------------------------------------
(* The loop of WriteAutoFilterGraph over the copied descriptors.  Its      *)
(* state: the maps filters and decorations (name -> id), idCounter and the *)
(* edges written so far.                                                   *)

Empty == [filters |-> <<>>, decorations |-> <<>>, next |-> 0, edges |-> <<>>]

\* if (filters.find(filter) == filters.end()) filters[filter] = idCounter++;
FilterStep(s, f) ==
    IF FilterName[f] \in DOMAIN s.filters THEN s
    ELSE [s EXCEPT !.filters = (FilterName[f] :> s.next) @@ @, !.next = @ + 1]

\* Mutant: every argument gives its decoration a fresh id.
ArgStepFreshId(s, f, a) ==
    LET s1  == [s EXCEPT !.decorations = (a.id :> s.next) @@ @, !.next = @ + 1]
        fid == s1.filters[FilterName[f]]
        did == s1.decorations[a.id]
    IN  [s1 EXCEPT !.edges = Append(@,
            IF a.is_rvalue \/ a.is_input
            THEN [from |-> did, to |-> fid, both |-> a.is_rvalue, shift |-> a.tshift]
            ELSE [from |-> fid, to |-> did, both |-> FALSE, shift |-> a.tshift])]

\* One argument: assign the decoration an id if it has none, then the edge:
\* rvalue "dec -> filter [dir=both]", input "dec -> filter", anything else
\* "filter -> dec"; a time shift adds [style=dotted label="prev=N"].
ArgStep(s, f, a) ==
    LET s1  == IF a.id \in DOMAIN s.decorations THEN s
               ELSE [s EXCEPT !.decorations = (a.id :> s.next) @@ @, !.next = @ + 1]
        fid == s1.filters[FilterName[f]]
        did == s1.decorations[a.id]
    IN  [s1 EXCEPT !.edges = Append(@,
            IF a.is_rvalue \/ a.is_input
            THEN [from |-> did, to |-> fid, both |-> a.is_rvalue, shift |-> a.tshift]
            ELSE [from |-> fid, to |-> did, both |-> FALSE, shift |-> a.tshift])]

DescStep(s, desc) ==
    Seqs!FoldLeft(LAMBDA acc, a : ArgStep(acc, desc.type, a), FilterStep(s, desc.type), desc.args)

\* The graph written from descriptors descs: the edges, then a box per
\* entry of filters and an oval per entry of decorations.
Graph(descs) ==
    LET s == Seqs!FoldLeft(DescStep, Empty, descs)
    IN  [edges |-> s.edges,
         nodes |-> { [id |-> s.filters[n], name |-> n, shape |-> "box"] : n \in DOMAIN s.filters }
                   \cup { [id |-> s.decorations[n], name |-> n, shape |-> "oval"] : n \in DOMAIN s.decorations }]

\* Without a factory the network is empty: only the "digraph" header and
\* the closing brace the MakeAtExit guard writes.
GraphNoFactory ==
    /\ ~factory
    /\ graph' = [edges |-> <<>>, nodes |-> {}]
    /\ glen' = 0
    /\ UNCHANGED regVars

\* WriteAutoFilterGraph(os, ctxt), also reached through WriteAutoFilterGraph(os)
\* and AutoFilterGraphStr() on the current context: GetAutoFilters() copies
\* the descriptors of the factory.
WriteAutoFilterGraph ==
    /\ factory
    /\ graph' = Graph(GetAutoFilters)
    /\ glen' = Len(registry)
    /\ UNCHANGED regVars

Next ==
    \/ InjectFactory /\ UNCHANGED gVars
    \/ \E f \in FilterTypes : Register(f) /\ UNCHANGED gVars
    \/ GraphNoFactory
    \/ WriteAutoFilterGraph

Spec == Init /\ [][Next]_vars

-----------------------------------------------------------------------------
(* Reading the graph back.                                                 *)

Written == SubSeq(registry, 1, glen)

\* An edge as spec 4.4 names it: decoration, filter, direction, shift.
Direction(a) == IF a.is_rvalue THEN "both" ELSE IF a.is_input THEN "in" ELSE "out"

SpecEdge(f, a) == [dec |-> a.id, filter |-> FilterName[f], dir |-> Direction(a), shift |-> a.tshift]

SpecEdges ==
    Seqs!FlattenSeq([i \in 1..glen |->
        [j \in DOMAIN sig[Written[i]] |-> SpecEdge(Written[i], sig[Written[i]][j])]])

NodesWithId(id) == { n \in graph.nodes : n.id = id }

\* What a reader of the DOT file makes of an edge: the labels of its two
\* ends (an oval and a box) and its direction; "broken" otherwise.
Decode(e) ==
    LET F == NodesWithId(e.from)
        T == NodesWithId(e.to)
    IN  IF Cardinality(F) # 1 \/ Cardinality(T) # 1 THEN "broken"
        ELSE LET u == CHOOSE n \in F : TRUE
                 v == CHOOSE n \in T : TRUE
             IN  CASE u.shape = "oval" /\ v.shape = "box" ->
                        [dec |-> u.name, filter |-> v.name, dir |-> IF e.both THEN "both" ELSE "in", shift |-> e.shift]
                   [] u.shape = "box" /\ v.shape = "oval" /\ ~e.both ->
                        [dec |-> v.name, filter |-> u.name, dir |-> "out", shift |-> e.shift]
                   [] OTHER -> "broken"

\* The exported graph is the registry's dependency graph (spec 4.4 and
\* scenario 8): ids 0, 1, ... name one node each; every distinct filter
\* type written has its own box and every decoration type its own oval;
\* and, read through the labels, the edges are exactly one per (filter,
\* argument) in registration order with the direction of its kind.  The
\* shared idCounter and the first-occurrence lookups of the loop must keep
\* every edge pointing at the node that is labelled with its name.
GraphFaithful ==
    glen >= 0 =>
        /\ { n.id : n \in graph.nodes } = 0..(Cardinality(graph.nodes) - 1)
        /\ \A n, m \in graph.nodes : n.id = m.id => n = m
        /\ Cardinality({ n \in graph.nodes : n.shape = "box" }) = Cardinality({ Written[i] : i \in DOMAIN Written })
        /\ { n.name : n \in { m \in graph.nodes : m.shape = "oval" } } = { e.dec : e \in { SpecEdges[i] : i \in DOMAIN SpecEdges } }
        /\ [i \in DOMAIN graph.edges |-> Decode(graph.edges[i])] = SpecEdges
=============================================================================
