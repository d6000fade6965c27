---------------------------- MODULE DemangleName ----------------------------
(***************************************************************************)
(* DemangleWithAutoID (AutowiringDebug.cpp:44-63): the display name of a   *)
(* decoration type.  A complete type has its typeinfo and is demangled     *)
(* as is.  An incomplete one only has the typeinfo of its synthetic        *)
(* wrapper autowiring::s<T>; the routine strips the prefix "autowiring::s<" *)
(* and the closing '>' (with the blanks before it) and appends " [i]".     *)
(*                                                                         *)
(* Strings are sequences of characters.  Type names are spelled over a     *)
(* few characters: identifiers "a" and "b", a template "t<...>" with one   *)
(* or two arguments; "S" stands for the text "autowiring::s".  size_t      *)
(* arithmetic wraps at 2^Width, so npos - 1 is what the code computes.     *)
(***************************************************************************)
EXTENDS Integers, Sequences, FiniteSets

CONSTANTS
    Width,      \* bits of size_t, scaled down but above every length
    Depth       \* nesting bound of the template names enumerated

ASSUME Width \in Nat \ {0} /\ Depth \in Nat

Npos == 2^Width - 1
SizeT(x) == x % (2^Width)
MinOf(a, b) == IF a < b THEN a ELSE b
MaxOf(S) == CHOOSE x \in S : \A y \in S : y =< x

None == <<"none">>

Prefix == <<"S", "<">>
Incomplete == <<" ", "[", "i", "]">>

-----------------------------------------------------------------------------
(* std::string members, positions counted from 0.                         *)

\* compare(0, n, p) == 0: the first n characters (as many as there are) are p.
StartsWith(s, p) == SubSeq(s, 1, MinOf(Len(p), Len(s))) = p

\* find_last_of(c): the last position holding c, npos if there is none.
FindLastOf(s, c) ==
    LET P == { i \in 0..(Len(s) - 1) : s[i + 1] = c }
    IN  IF P = {} THEN Npos ELSE MaxOf(P)

\* find_last_not_of(c, pos): the last position =< pos not holding c.
FindLastNotOf(s, c, pos) ==
    LET P == { i \in 0..MinOf(pos, Len(s) - 1) : s[i + 1] # c }
    IN  IF P = {} THEN Npos ELSE MaxOf(P)

\* substr(pos, n): at most n characters from pos (pos > size() throws,
\* which no input reaches: the property below would fail on "throws").
Substr(s, pos, n) ==
    IF pos > Len(s) THEN <<"throws">>
    ELSE SubSeq(s, pos + 1, pos + MinOf(n, Len(s) - pos))

-----------------------------------------------------------------------------
\* Mutant: the search for trailing blanks starts at the '>' itself.
DemangleFromClose(id) ==
    IF id.ti # None THEN id.ti
    ELSE LET r == id.synth
             off == Len(Prefix)
             end == FindLastNotOf(r, " ", FindLastOf(r, ">"))
         IN  (IF StartsWith(r, Prefix) THEN Substr(r, off, SizeT(end - off + 1)) ELSE r) \o Incomplete

\* DemangleWithAutoID(id): id.ti is demangle(ti) of a complete type, or
\* None; id.synth is demangle(ti_synth).
DemangleWithAutoID(id) ==
    IF id.ti # None THEN id.ti
    ELSE LET r == id.synth
             off == Len(Prefix)
             end == FindLastNotOf(r, " ", SizeT(FindLastOf(r, ">") - 1))
         IN  (IF StartsWith(r, Prefix) THEN Substr(r, off, SizeT(end - off + 1)) ELSE r) \o Incomplete

-----------------------------------------------------------------------------
(* The names a demangler gives the types of the model, in both spellings  *)
(* of nested templates: "t<t<a>>" and, from older compilers, "t<t<a> >".  *)

\* The closing bracket after an argument list, with the older compilers'
\* blank when the list itself ends in '>'.
Close(args, spaced) == IF spaced /\ args # <<>> /\ args[Len(args)] = ">" THEN <<" ", ">">> ELSE <<">">>

Template(args, spaced) == <<"t", "<">> \o args \o Close(args, spaced)

RECURSIVE Names(_, _)
Names(d, spaced) ==
    IF d = 0 THEN { <<"a">>, <<"b">> }
    ELSE LET N == Names(d - 1, spaced)
         IN  N \cup { Template(x, spaced) : x \in N }
               \cup { Template(x \o <<",", " ">> \o y, spaced) : x, y \in Names(0, spaced) }

\* A decoration type: complete, incomplete (only the synthetic wrapper's
\* typeinfo) or one whose wrapper the demangler could not decode (its
\* mangled text comes back unchanged).
Ids ==
    UNION { { [name |-> n, kind |-> "complete", ti |-> n, synth |-> None] : n \in Names(Depth, sp) }
            \cup { [name |-> n, kind |-> "incomplete", ti |-> None, synth |-> <<"S", "<">> \o n \o Close(n, sp)] : n \in Names(Depth, sp) }
            : sp \in BOOLEAN }
    \cup { [name |-> m, kind |-> "mangled", ti |-> None, synth |-> m] : m \in { <<"N", "1", "S", "I", "E">>, <<"Z">> } }

VARIABLES
    id,         \* the auto_id asked about
    out         \* the name DemangleWithAutoID returned; <<>> before the call

vars == <<id, out>>

TypeOK == id \in Ids /\ out \in Seq(STRING)

Init == id \in Ids /\ out = <<>>

Demangle ==
    /\ out = <<>>
    /\ out' = DemangleWithAutoID(id)
    /\ UNCHANGED id

Spec == Init /\ [][Demangle]_vars

-----------------------------------------------------------------------------
\* The name of a decoration type is the type's own name, followed by
\* " [i]" when only the synthetic wrapper autowiring::s<T> is known: the
\* position arithmetic on size_t (find_last_of('>') - 1, end - off + 1)
\* removes exactly the wrapper, also from nested templates spelled with a
\* blank before the last '>', and a name the demangler could not decode is
\* kept whole.  ListRootDecorations and WriteAutoFilterGraph key their
\* output by this name.
NameRoundTrip ==
    out # <<>> =>
        out = id.name \o (IF id.kind = "complete" THEN <<>> ELSE Incomplete)
=============================================================================
