--------------------------- MODULE FilterRegistry ---------------------------
(***************************************************************************)
(* The AutoFilter descriptors held by an AutoPacketFactory (spec 4.2) and  *)
(* the two ways AutowiringDebug.cpp reads them: argument lookup by type    *)
(* (AutoFilterInfo) and the input/output partition (ListRootDecorations).  *)
(*                                                                         *)
(* The factory itself is not under src/: the registry and its Register     *)
(* operation are modelled from the spec.  A filter's descriptor is fixed   *)
(* by its C++ signature, so each filter type has one argument list, sig,   *)
(* chosen in Init from every list the bounds allow.                        *)
(***************************************************************************)
EXTENDS Naturals, Sequences, FiniteSets

CONSTANTS
    Types,          \* decoration types (auto_id values), model values
    FilterTypes,    \* filter types (AutoFilterDescriptor::GetType()), model values
    ArgKinds,       \* subset of {"in", "out", "inout", "ctx"} the model allows
    MaxArgs,        \* bound on a filter's arity
    MaxShift,       \* bound on the time shift of an auto_prev input
    RepeatIds       \* may one filter declare the same type twice?

ASSUME /\ ArgKinds \subseteq {"in", "out", "inout", "ctx"}
       /\ MaxArgs \in Nat \ {0} /\ MaxShift \in Nat /\ RepeatIds \in BOOLEAN

\* The flags AutoFilterArgument carries for each kind of argument:
\* auto_in<T> / const T&, auto_out<T> / T&, T&& (in place), and a
\* context argument such as AutoPacket& that is neither input nor output.
Flags == [in    |-> [is_input |-> TRUE,  is_output |-> FALSE, is_rvalue |-> FALSE],
          out   |-> [is_input |-> FALSE, is_output |-> TRUE,  is_rvalue |-> FALSE],
          inout |-> [is_input |-> TRUE,  is_output |-> TRUE,  is_rvalue |-> TRUE],
          ctx   |-> [is_input |-> FALSE, is_output |-> FALSE, is_rvalue |-> FALSE]]

\* Only inputs (auto_prev<T, N>) carry a time shift.
Shifts(k) == IF k = "in" THEN 0..MaxShift ELSE {0}

Arguments ==
    UNION { { [id |-> t, tshift |-> s,
              is_input |-> Flags[k].is_input, is_output |-> Flags[k].is_output,
              is_rvalue |-> Flags[k].is_rvalue] : t \in Types, s \in Shifts(k) } : k \in ArgKinds }

\* A filter names a type twice only as auto_prev<T> next to another T.
ArgLists ==
    { a \in UNION { [1..n -> Arguments] : n \in 1..MaxArgs } :
        \A i, j \in DOMAIN a :
            i # j /\ a[i].id = a[j].id => RepeatIds /\ (a[i].tshift > 0 \/ a[j].tshift > 0) }

VARIABLES
    factory,    \* is an AutoPacketFactory in the current context?
    sig,        \* sig[f]: the argument list of filter type f
    registry    \* filter types in registration order

regVars == <<factory, sig, registry>>

RegTypeOK ==
    /\ sig \in [FilterTypes -> ArgLists]
    /\ registry \in Seq(FilterTypes)
    /\ factory \in BOOLEAN

\* A context starts without a factory; Autowired<AutoPacketFactory> finds
\* none until one is injected.
RegInit ==
    /\ factory = FALSE
    /\ sig \in [FilterTypes -> ArgLists]
    /\ registry = <<>>

\* AutoRequired<AutoPacketFactory>: a factory comes to live in the context.
InjectFactory ==
    /\ ~factory
    /\ factory' = TRUE
    /\ UNCHANGED <<sig, registry>>

\* Register: DuplicateFilter when the same (type, arguments) pair is
\* already registered, which leaves the registry unchanged.  Filters are
\* registered with the factory living in the context.
Register(f) ==
    /\ factory
    /\ \A k \in DOMAIN registry : registry[k] # f
    /\ registry' = Append(registry, f)
    /\ UNCHANGED <<factory, sig>>

\* AutoPacketFactory::GetAutoFilters(): a copy of the descriptors.
GetAutoFilters == [k \in DOMAIN registry |-> [type |-> registry[k], args |-> sig[registry[k]]]]

\* DescriptorByName: the first descriptor, in registration order, whose
\* type has the given name; 0 when none does.  Filter types are their own
\* demangled names here.
DescriptorByName(name, descs) ==
    LET hits == { k \in DOMAIN descs : descs[k].type = name }
    IN  IF hits = {} THEN 0 ELSE CHOOSE k \in hits : \A j \in hits : k =< j

\* AutoFilterDescriptor::GetArgumentType(id): the first argument with that
\* id, or 0 when there is none (a null pointer).
GetArgumentType(desc, id) ==
    LET hits == { i \in DOMAIN desc.args : desc.args[i].id = id }
    IN  IF hits = {} THEN 0 ELSE CHOOSE i \in hits : \A j \in hits : i =< j

\* Mutant: the provider test without the in-place check.
IsProviderAnyOutput(desc, id) ==
    LET i == GetArgumentType(desc, id)
    IN  i # 0 /\ desc.args[i].is_output

\* The provider test of AutoFilterInfo: the argument GetArgumentType finds
\* is an output and is not in place.
IsProvider(desc, id) ==
    LET i == GetArgumentType(desc, id)
    IN  i # 0 /\ desc.args[i].is_output /\ ~desc.args[i].is_rvalue

\* Every argument of every descriptor.
AllArgs(descs) == UNION { { d.args[i] : i \in DOMAIN d.args } : d \in { descs[k] : k \in DOMAIN descs } }

\* Mutant: ListRootDecorations that sorts in-place arguments too.
ListRootDecorationsWithRvalue(descs) ==
    LET outputs == { a.id : a \in { b \in AllArgs(descs) : b.is_output } }
        inputs  == { a.id : a \in { b \in AllArgs(descs) : ~b.is_output } }
    IN  inputs \ outputs

\* ListRootDecorations: every argument that is not in place goes to the
\* outputs when it is an output and to the inputs otherwise; roots are the
\* inputs that are not outputs.
ListRootDecorations(descs) ==
    LET args    == { a \in AllArgs(descs) : ~a.is_rvalue }
        outputs == { a.id : a \in { b \in args : b.is_output } }
        inputs  == { a.id : a \in { b \in args : ~b.is_output } }
    IN  inputs \ outputs

-----------------------------------------------------------------------------
(* The spec's readings of the registry (4.2), used as references.          *)

\* ArgumentProviding(id): filters with a non-rvalue output argument id.
ArgumentProviding(descs, id) ==
    { k \in DOMAIN descs :
        \E i \in DOMAIN descs[k].args :
            descs[k].args[i].id = id /\ descs[k].args[i].is_output /\ ~descs[k].args[i].is_rvalue }

\* UnsatisfiedInputs(): non-rvalue inputs never produced as non-rvalue outputs.
UnsatisfiedInputs(descs) ==
    { a.id : a \in { b \in AllArgs(descs) : b.is_input /\ ~b.is_rvalue } }
    \ { a.id : a \in { b \in AllArgs(descs) : b.is_output /\ ~b.is_rvalue } }
=============================================================================
