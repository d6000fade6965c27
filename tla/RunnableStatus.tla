--------------------------- MODULE RunnableStatus ---------------------------
(***************************************************************************)
(* The status column of PrintRunnables (AutowiringDebug.cpp:172-181) read  *)
(* while the runnables it describes change state on their own threads.     *)
(*                                                                         *)
(* CoreRunnable is not under src/: its lifecycle is modelled from the spec *)
(* (3, 5, 8.5): Waiting -> Started -> Running -> Stopped, Stop allowed     *)
(* from every state and before Start, Stopped absorbing, and the three     *)
(* queries derived from the state alone.  The printer calls IsRunning,     *)
(* ShouldStop and WasStarted one after another, each a separate read.      *)
(***************************************************************************)
EXTENDS Naturals, FiniteSets

CONSTANT Runnables

States == {"Waiting", "Started", "Running", "Stopped"}
Labels == {"RUNNING", "STOPPED", "STARTED", "WAITING"}

\* The order in which the lifecycle visits the states.
Rank == [Waiting |-> 0, Started |-> 1, Running |-> 2, Stopped |-> 3]
LabelOf == [RUNNING |-> "Running", STOPPED |-> "Stopped", STARTED |-> "Started", WAITING |-> "Waiting"]

VARIABLES
    state,      \* state[r] of each runnable
    pc,         \* the printer: "idle" or the query it calls next
    cur,        \* the runnable whose line is being printed
    printed,    \* runnables already printed by this PrintRunnables call
    first,      \* state of cur when its line started
    held,       \* states cur held since its line started
    last        \* the last printed line: runnable, label and its window

vars == <<state, pc, cur, printed, first, held, last>>

None == [r |-> "none"]
Window == [r : Runnables, label : Labels, first : States, final : States, held : SUBSET States]

\* The queries of CoreRunnable, derived from the state (spec 3).
IsRunning(s)  == s = "Running"
ShouldStop(s) == s = "Stopped"
WasStarted(s) == s # "Waiting"

TypeOK ==
    /\ state \in [Runnables -> States]
    /\ pc \in {"idle", "isRunning", "shouldStop", "wasStarted"}
    /\ cur \in Runnables /\ printed \subseteq Runnables
    /\ first \in States /\ held \subseteq States
    /\ last \in Window \cup {None}

Init ==
    /\ state = [r \in Runnables |-> "Waiting"]
    /\ pc = "idle"
    /\ cur \in Runnables
    /\ printed = {}
    /\ first = "Waiting" /\ held = {}
    /\ last = None

-----------------------------------------------------------------------------
(* The runnables' own threads (spec-modelled CoreRunnable).                *)

\* A transition of r; the printer's window over r records the new state.
Move(r, from, to) ==
    /\ state[r] \in from
    /\ state' = [state EXCEPT ![r] = to]
    /\ held' = IF pc # "idle" /\ cur = r THEN held \cup {to} ELSE held
    /\ UNCHANGED <<pc, cur, printed, first, last>>

Start(r) == Move(r, {"Waiting"}, "Started")
Run(r)   == Move(r, {"Started"}, "Running")
\* Stop: from any state; on a stopped runnable it changes nothing.
Stop(r)  == Move(r, {"Waiting", "Started", "Running"}, "Stopped")

-----------------------------------------------------------------------------
(* The printer: for (CoreRunnable* runnable : ctxt->GetRunnables()).       *)

\* A PrintRunnables call starts the next runnable's line; once every
\* runnable is printed, a new call starts over.
BeginLine(r) ==
    /\ pc = "idle"
    /\ r \notin printed
    /\ pc' = "isRunning" /\ cur' = r
    /\ printed' = IF printed \cup {r} = Runnables THEN {} ELSE printed \cup {r}
    /\ first' = state[r] /\ held' = {state[r]}
    /\ UNCHANGED <<state, last>>

Emit(label) ==
    /\ pc' = "idle"
    /\ last' = [r |-> cur, label |-> label, first |-> first, final |-> state[cur], held |-> held]
    /\ UNCHANGED <<state, cur, printed, first, held>>

\* if (runnable->IsRunning()) "[ RUNNING ]"
ProbeRunning ==
    /\ pc = "isRunning"
    /\ IF IsRunning(state[cur]) THEN Emit("RUNNING")
       ELSE pc' = "shouldStop" /\ UNCHANGED <<state, cur, printed, first, held, last>>

\* Mutant: WasStarted asked before ShouldStop.
ProbeWasStartedFirst ==
    /\ pc = "shouldStop"
    /\ IF WasStarted(state[cur]) THEN Emit("STARTED")
       ELSE pc' = "wasStarted" /\ UNCHANGED <<state, cur, printed, first, held, last>>

\* else if (runnable->ShouldStop()) "[ STOPPED ]"
ProbeShouldStop ==
    /\ pc = "shouldStop"
    /\ IF ShouldStop(state[cur]) THEN Emit("STOPPED")
       ELSE pc' = "wasStarted" /\ UNCHANGED <<state, cur, printed, first, held, last>>

\* else if (runnable->WasStarted()) "[ STARTED ]" else "[ WAITING ]"
ProbeWasStarted ==
    /\ pc = "wasStarted"
    /\ Emit(IF WasStarted(state[cur]) THEN "STARTED" ELSE "WAITING")

Next ==
    \/ \E r \in Runnables : Start(r) \/ Run(r) \/ Stop(r) \/ BeginLine(r)
    \/ ProbeRunning \/ ProbeShouldStop \/ ProbeWasStarted

Spec == Init /\ [][Next]_vars

-----------------------------------------------------------------------------
\* A printed status is never behind the state the runnable had when its
\* line started, nor ahead of the state it had when the status was chosen:
\* the three separate queries never report a runnable as earlier in its
\* lifecycle than it already was, e.g. a stopped runnable as started.
LabelWithinWindow ==
    last # None =>
        /\ Rank[last.first] =< Rank[LabelOf[last.label]]
        /\ Rank[LabelOf[last.label]] =< Rank[last.final]

\* A printed status is a state the runnable actually held while its line
\* was printed (the spec's promise that observers never see contradictory
\* flags).
LabelWasHeld ==
    last # None => LabelOf[last.label] \in last.held
=============================================================================
