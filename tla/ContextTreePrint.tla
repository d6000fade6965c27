-------------------------- MODULE ContextTreePrint --------------------------
(***************************************************************************)
(* PrintContextTree and PrintRunnables (AutowiringDebug.cpp:70-197): a     *)
(* depth-first pre-order walk of the context tree that prints one line per *)
(* context and, for PrintRunnables, one line per runnable under it.  Each  *)
(* line starts with one four-character column per level, drawn from the    *)
(* chain of PrintContext frames (pParent links): a bar, a blank, a tee     *)
(* ("|-- ") or an elbow ("*-- ").  Text after the columns is left out.     *)
(*                                                                         *)
(* Contexts are 1..N in creation order; context 1 is the printed root.     *)
(* The tree (parent) and the number of runnables of each context are      *)
(* chosen in Init.  Each step of the walk prints one line or moves the     *)
(* loop, and reads FirstChild / NextSibling when the code does.            *)
(*                                                                         *)
(* With Concurrent, other threads change the tree while the print runs:    *)
(* CreateChild appends the next context under a live parent, and a leaf   *)
(* context whose last reference is dropped leaves its parent's list.  The *)
(* walk holds a shared_ptr to the context of every frame and to its loop   *)
(* variable ctxt, so those contexts stay alive (spec 4.1 and 5).           *)
(***************************************************************************)
EXTENDS Naturals, Sequences, SequencesExt

CONSTANTS
    N,              \* number of contexts
    MaxRunnables,   \* bound on the runnables of one context
    Modes,          \* which prints: "tree" (PrintContextTree), "runnables" (PrintRunnables)
    Concurrent      \* whether contexts are created and released during the print

ASSUME N \in Nat \ {0} /\ MaxRunnables \in Nat /\ Modes \subseteq {"tree", "runnables"}
ASSUME Concurrent \in BOOLEAN

Ctx == 1..N

\* Every tree on Ctx whose children were created after their parents.
Trees == { p \in [2..N -> Ctx] : \A c \in 2..N : p[c] < c }

VARIABLES
    mode,       \* the print being run
    parent,     \* parent[c] for c # 1
    nrun,       \* nrun[c]: runnables registered in context c
    frames,     \* the recursion: one frame per PrintContextTreeRecursive call
    lines,      \* printed lines: kind, context and columns
    created,    \* contexts 1..created have been created
    base,       \* the value of created when the print started
    gone        \* contexts released since

vars == <<mode, parent, nrun, frames, lines, created, base, gone>>
treeVars == <<created, base, gone>>

Alive == (1..created) \ gone

\* The parent's list of children, expired entries skipped.
Children(c) == { d \in 2..created : parent[d] = c } \ gone

\* CoreContext::FirstChild / NextSibling: children in creation order.
FirstChild(c) ==
    IF Children(c) = {} THEN 0 ELSE CHOOSE d \in Children(c) : \A e \in Children(c) : d =< e

NextSibling(c) ==
    LET later == IF c = 1 THEN {} ELSE { d \in Children(parent[c]) : d > c }
    IN  IF later = {} THEN 0 ELSE CHOOSE d \in later : \A e \in later : d =< e

Glyphs == {"bar", "blank", "tee", "elbow"}
Frame  == [ctx : Ctx, phase : {"name", "attrs", "children"}, k : Nat, cursor : 0..N]
Line   == [kind : {"node", "attr"}, ctx : Ctx, cols : Seq(Glyphs)]

TypeOK ==
    /\ mode \in Modes
    /\ parent \in Trees
    /\ nrun \in [Ctx -> 0..MaxRunnables]
    /\ frames \in Seq(Frame)
    /\ lines \in Seq(Line)
    /\ created \in 1..N /\ base \in 1..created /\ gone \subseteq 2..created

Init ==
    /\ mode \in Modes
    /\ parent \in Trees
    /\ nrun \in [Ctx -> IF mode = "tree" THEN {0} ELSE 0..MaxRunnables]
    /\ frames = <<[ctx |-> 1, phase |-> "name", k |-> 0, cursor |-> 0]>>
    /\ lines = <<>>
    /\ created \in IF Concurrent THEN 1..N ELSE {N}
    /\ base = created /\ gone = {}

-----------------------------------------------------------------------------
(* The indentation routines of PrintContext, over the chain of contexts   *)
(* from the root frame to the current one.                                 *)

\* Mutant: the ancestor columns drawn from FirstChild instead of NextSibling.
RECURSIVE ParentIndentFirstChild(_)
ParentIndentFirstChild(chain) ==
    IF Len(chain) = 1 THEN <<>>
    ELSE ParentIndentFirstChild(Front(chain))
         \o <<IF FirstChild(Last(chain)) # 0 THEN "bar" ELSE "blank">>

\* PrintParentIndentation: nothing for the root; otherwise the ancestors'
\* columns, then a bar when this context has a next sibling.
RECURSIVE PrintParentIndentation(_)
PrintParentIndentation(chain) ==
    IF Len(chain) = 1 THEN <<>>
    ELSE PrintParentIndentation(Front(chain))
         \o <<IF NextSibling(Last(chain)) # 0 THEN "bar" ELSE "blank">>

\* PrintChildIndentation: nothing for the root; otherwise the parent's
\* PrintParentIndentation, then a tee or, for a last child, an elbow.
PrintChildIndentation(chain) ==
    IF Len(chain) = 1 THEN <<>>
    ELSE PrintParentIndentation(Front(chain))
         \o <<IF NextSibling(Last(chain)) # 0 THEN "tee" ELSE "elbow">>

\* PrintAttributeIndentation: the ancestors' columns and its own, each a
\* bar when that context has a first child.
RECURSIVE PrintAttributeIndentation(_)
PrintAttributeIndentation(chain) ==
    (IF Len(chain) = 1 THEN <<>> ELSE PrintAttributeIndentation(Front(chain)))
    \o <<IF FirstChild(Last(chain)) # 0 THEN "bar" ELSE "blank">>

Chain == [i \in DOMAIN frames |-> frames[i].ctx]
Top == frames[Len(frames)]
SetTop(f) == [frames EXCEPT ![Len(frames)] = f]

-----------------------------------------------------------------------------
(* PrintContextTreeRecursive, one step per line or loop iteration.        *)

\* Print this context's line, then run the prefix routine.
PrintName ==
    /\ frames # <<>>
    /\ Top.phase = "name"
    /\ lines' = Append(lines, [kind |-> "node", ctx |-> Top.ctx, cols |-> PrintChildIndentation(Chain)])
    /\ frames' = SetTop([Top EXCEPT !.phase = "attrs", !.k = 1])
    /\ UNCHANGED <<mode, parent, nrun, treeVars>>

\* PrintRunnables' prefix: one line per runnable of the context.  The
\* prefix of PrintContextTree prints nothing (nrun is 0 everywhere).
PrintRunnable ==
    /\ frames # <<>>
    /\ Top.phase = "attrs"
    /\ Top.k =< nrun[Top.ctx]
    /\ lines' = Append(lines, [kind |-> "attr", ctx |-> Top.ctx, cols |-> PrintAttributeIndentation(Chain)])
    /\ frames' = SetTop([Top EXCEPT !.k = @ + 1])
    /\ UNCHANGED <<mode, parent, nrun, treeVars>>

\* The prefix returns; the loop over the children starts at FirstChild().
EnterChildren ==
    /\ frames # <<>>
    /\ Top.phase = "attrs"
    /\ Top.k > nrun[Top.ctx]
    /\ frames' = SetTop([Top EXCEPT !.phase = "children", !.cursor = FirstChild(Top.ctx)])
    /\ UNCHANGED <<mode, parent, nrun, lines, treeVars>>

\* Recurse into the current child.
Descend ==
    /\ frames # <<>>
    /\ Top.phase = "children"
    /\ Top.cursor # 0
    /\ frames' = Append(frames, [ctx |-> Top.cursor, phase |-> "name", k |-> 0, cursor |-> 0])
    /\ UNCHANGED <<mode, parent, nrun, lines, treeVars>>

\* Mutant: the caller's loop ends after the child returns.
ReturnNoSibling ==
    /\ frames # <<>>
    /\ Top.phase = "children"
    /\ Top.cursor = 0
    /\ frames' = IF Len(frames) = 1 THEN <<>>
                 ELSE LET f == Front(frames)
                      IN  [f EXCEPT ![Len(f)].cursor = 0]
    /\ UNCHANGED <<mode, parent, nrun, lines, treeVars>>

\* The loop is exhausted: return; the caller moves to NextSibling().
Return ==
    /\ frames # <<>>
    /\ Top.phase = "children"
    /\ Top.cursor = 0
    /\ frames' = IF Len(frames) = 1 THEN <<>>
                 ELSE LET f == Front(frames)
                      IN  [f EXCEPT ![Len(f)].cursor = NextSibling(Top.ctx)]
    /\ UNCHANGED <<mode, parent, nrun, lines, treeVars>>

Done == frames = <<>>

-----------------------------------------------------------------------------
(* Other threads (spec-modelled CoreContext).                              *)

\* Contexts the walk holds a shared_ptr to.
Held == { frames[i].ctx : i \in DOMAIN frames } \cup { frames[i].cursor : i \in DOMAIN frames }

\* CoreContext::CreateChild: the next context, appended under its parent,
\* which must not have been released (spec 4.1, ContextTornDown).
CreateChild ==
    /\ Concurrent /\ created < N
    /\ parent[created + 1] \in Alive
    /\ created' = created + 1
    /\ UNCHANGED <<mode, parent, nrun, frames, lines, base, gone>>

\* The last reference to a leaf context is dropped: ~CoreContext removes
\* it from its parent's list.  A context with children is kept alive by
\* them, the root by the caller, and the walk's contexts by the walk.
Release(d) ==
    /\ Concurrent
    /\ d \in Alive \ ({1} \cup Held)
    /\ Children(d) = {}
    /\ gone' = gone \cup {d}
    /\ UNCHANGED <<mode, parent, nrun, frames, lines, created, base>>

\* The walk ends when the root frame returns: the print has finished.
Next ==
    \/ PrintName \/ PrintRunnable \/ EnterChildren \/ Descend \/ Return
    \/ CreateChild \/ \E d \in Ctx : Release(d)

Spec == Init /\ [][Next]_vars

-----------------------------------------------------------------------------
Glyph(l, c) == IF c \in DOMAIN lines[l].cols THEN lines[l].cols[c] ELSE "none"

\* A column that carries a stroke on to the line below / that receives one.
GoesDown(g) == g \in {"bar", "tee"}
ComesDown(g) == g \in {"bar", "tee", "elbow"}

\* The drawing is connected: every bar or tee continues into the line
\* below it, and every bar, tee or elbow hangs from a stroke in the line
\* above or, for a first child, from its parent's name.  A dangling stroke
\* is what a reader of the printed tree takes for a missing sibling.
DrawingConnected ==
    \A l \in DOMAIN lines, c \in 1..N :
        /\ GoesDown(Glyph(l, c)) =>
              IF l < Len(lines) THEN ComesDown(Glyph(l + 1, c)) ELSE ~Done
        /\ (l > 1 /\ ComesDown(Glyph(l, c))) =>
              \/ GoesDown(Glyph(l - 1, c))
              \/ lines[l - 1].kind = "node" /\ c = Len(lines[l - 1].cols) + 1

\* PrintContextTree draws a connected tree when no context is created or
\* released while it prints (a concurrent change tears the drawing, since
\* PrintParentIndentation asks NextSibling afresh on every line).
TreeDrawingConnected ==
    (mode = "tree" /\ created = base /\ gone = {}) => DrawingConnected

RECURSIVE AncestorsOf(_)
AncestorsOf(c) == IF c = 1 THEN {} ELSE {parent[c]} \cup AncestorsOf(parent[c])

NodeLines == SelectSeq(lines, LAMBDA l : l.kind = "node")

Printed == { NodeLines[i].ctx : i \in DOMAIN NodeLines }

\* When the print returns it has listed each context at most once, and
\* every context that existed when it started and was never released,
\* in pre-order with siblings in creation order: each context comes after
\* its parent, with only its parent's other descendants and its earlier
\* siblings in between; each context's runnable lines, nrun of them,
\* follow its own line.  The walk of FirstChild / NextSibling through the
\* frames of PrintContextTreeRecursive skips, repeats and reorders
\* nothing, also while other threads append and release contexts.
WalkPreOrder ==
    Done =>
        /\ \A i, j \in DOMAIN NodeLines : NodeLines[i].ctx = NodeLines[j].ctx => i = j
        /\ (1..base) \ gone \subseteq Printed
        /\ NodeLines[1].ctx = 1
        /\ \A j \in 2..Len(NodeLines) :
              LET c == NodeLines[j].ctx
              IN  \E i \in 1..(j - 1) :
                     /\ NodeLines[i].ctx = parent[c]
                     /\ \A m \in (i + 1)..(j - 1) :
                           LET d == NodeLines[m].ctx
                           IN  parent[c] \in AncestorsOf(d) /\ (parent[d] = parent[c] => d < c)
        /\ \A l \in DOMAIN lines :
              lines[l].kind = "attr" => l > 1 /\ lines[l - 1].ctx = lines[l].ctx
        /\ \A c \in Printed :
              Len(SelectSeq(lines, LAMBDA l : l.kind = "attr" /\ l.ctx = c)) = nrun[c]
=============================================================================
