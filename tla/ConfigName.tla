----------------------------- MODULE ConfigName -----------------------------
(***************************************************************************)
(* AutoConfigBase's names (AutoConfigUnix.cpp): the Name of a config is    *)
(* the tag type T taken out of demangle(typeid(ConfigTypeExtractor<T>)),   *)
(* its Class the type taken out of the current slot stump's                *)
(* TypeUnifierComplex<C>, both with std::regex_match, and its Field is     *)
(* Class "." Name.  In a release build the asserts are gone: a name the    *)
(* pattern does not match gives sm.str(1) of a failed match, "".           *)
(*                                                                         *)
(* A demangled name is a sequence of tokens: word characters "a", "b";     *)
(* ":", "<", ">"; "C" and "S" for the words "class " and "struct " the     *)
(* MSVC demangler puts before a type; "X" and "U" for the identifiers      *)
(* ConfigTypeExtractor and TypeUnifierComplex; "w" for "autowiring".       *)
(***************************************************************************)
EXTENDS Naturals, Sequences

CONSTANTS
    Classes,    \* demangled names of the classes that hold configs
    Tags        \* demangled names of the config tag types

Word == {"a", "b"}
NoStump == <<"none">>

IsWordRun(s) == \A i \in DOMAIN s : s[i] \in Word

-----------------------------------------------------------------------------
(* std::regex_match(name, sm, pattern), the pattern being: anything, M,  *)
(* "<", optionally "class " or "struct ", a captured run of word          *)
(* characters, ">" (M is ConfigTypeExtractor or TypeUnifierComplex).      *)
(* In ECMAScript's backtracking order the greedy "anything" tries the     *)
(* last M< first, and the optional group tries to take "class " or        *)
(* "struct " first.  The result is the capture, "" when nothing matches.  *)

\* The part after "M<": an optional C or S, a word run, a final ">".
AfterOpen(t) ==
    LET ok(r) == Len(r) >= 1 /\ r[Len(r)] = ">" /\ IsWordRun(SubSeq(r, 1, Len(r) - 1))
        cap(r) == SubSeq(r, 1, Len(r) - 1)
    IN  IF Len(t) >= 1 /\ t[1] \in {"C", "S"} /\ ok(Tail(t)) THEN {cap(Tail(t))}
        ELSE IF ok(t) THEN {cap(t)} ELSE {}

Extract(s, m) ==
    LET starts == { i \in 1..(Len(s) - 1) : s[i] = m /\ s[i + 1] = "<"
                                            /\ AfterOpen(SubSeq(s, i + 2, Len(s))) # {} }
        last == CHOOSE i \in starts : \A j \in starts : j =< i
    IN  IF starts = {} THEN <<>>
        ELSE CHOOSE c \in AfterOpen(SubSeq(s, last + 2, Len(s))) : TRUE

\* ExtractFieldName(typeid(ConfigTypeExtractor<T>)).
ExtractFieldName(tag) == Extract(<<"w", ":", ":", "X", "<">> \o tag \o <<">">>, "X")

\* CurrentStumpName(): "" without a stump, else the class of
\* TypeUnifierComplex<C>.
CurrentStumpName(cls) ==
    IF cls = NoStump THEN <<>>
    ELSE Extract(<<"w", ":", ":", "U", "<">> \o cls \o <<">">>, "U")

\* Mutant: the two names joined without the separator.
FormatNoDot(cls, name) == cls \o name

\* FormatFieldName(cls, name): cls "." name.
FormatFieldName(cls, name) == cls \o <<".">> \o name

-----------------------------------------------------------------------------
VARIABLE configs    \* the AutoConfigBase objects constructed so far

vars == <<configs>>

Config == [cls : Classes \cup {NoStump}, tag : Tags, Class : Seq(STRING),
           Name : Seq(STRING), Field : Seq(STRING)]

TypeOK == configs \subseteq Config

Init == configs = {}

\* AutoConfigBase(tiMemberName), constructed while the stump of cls (or
\* none) is current: the three members in declaration order.
AutoConfigBase(cls, tag) ==
    /\ \A c \in configs : <<c.cls, c.tag>> # <<cls, tag>>
    /\ LET Class == CurrentStumpName(cls)
           Name == ExtractFieldName(tag)
       IN  configs' = configs \cup {[cls |-> cls, tag |-> tag, Class |-> Class,
                                     Name |-> Name, Field |-> FormatFieldName(Class, Name)]}

Next == \E cls \in Classes \cup {NoStump}, tag \in Tags : AutoConfigBase(cls, tag)

Spec == Init /\ [][Next]_vars

-----------------------------------------------------------------------------
\* Two configs that are different members, of different classes or of
\* different tags, get different Field keys, so that a ConfigListener or
\* a config store keyed by Field never confuses them: the regex capture
\* and the "." of FormatFieldName keep Class and Name apart and whole.
FieldKeysUnique ==
    \A c, d \in configs : c.Field = d.Field => c.cls = d.cls /\ c.tag = d.tag
=============================================================================
