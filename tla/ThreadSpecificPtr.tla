------------------------- MODULE ThreadSpecificPtr -------------------------
(***************************************************************************)
(* thread_specific_ptr_base on Windows (thread_specific_ptr_win.cpp): a    *)
(* key is a fiber-local storage index.  init() takes one with FlsAlloc     *)
(* and clears the caller's slot, get() and set() read and write the        *)
(* calling thread's slot, freeTLS() gives the index back with FlsFree.     *)
(*                                                                         *)
(* The FLS calls behave as Win32 documents them: FlsAlloc hands out a free *)
(* index whose slots are NULL, or FLS_OUT_OF_INDEXES when none is left;    *)
(* the index pool is per process and shared with every other user of FLS   *)
(* in it; FlsSetValue and FlsGetValue on an index that is not allocated    *)
(* fail, the latter returning NULL; FlsFree and the exit of a thread hand  *)
(* each non-NULL slot value to the callback registered with the index.     *)
(* Each object is constructed (init) and destroyed (freeTLS) once, on any  *)
(* thread.  A value is a fresh pointer each time it is set.                *)
(***************************************************************************)
EXTENDS Naturals, FiniteSets

CONSTANTS
    Ptrs,       \* thread_specific_ptr objects
    Threads,
    Values,     \* non-NULL pointers
    NIndexes,   \* FLS indexes the process has (FLS_MAXIMUM_AVAILABLE, scaled down)
    Others      \* indexes other users of FLS in the process take

ASSUME NIndexes \in Nat /\ Others \in Nat

Indexes == 0..(NIndexes - 1)
OutOfIndexes == NIndexes        \* FLS_OUT_OF_INDEXES: no index of the pool
Null == "null"

VARIABLES
    life,       \* life[p]: "new", "live" (init done) or "freed" (freeTLS done)
    key,        \* key[p]: m_key
    owner,      \* owner[i]: the object or "other" holding index i, or Null
    taken,      \* indexes other users took so far
    slot,       \* slot[t][i]: thread t's value at index i
    running,    \* threads that have not exited
    used,       \* values handed to set so far
    stored,     \* stored[p][t]: the last value thread t set through p
    ret         \* the last get(): what it returned and what the thread had stored

vars == <<life, key, owner, taken, slot, running, used, stored, ret>>

Allocated(i) == i \in Indexes /\ owner[i] # Null

TypeOK ==
    /\ life \in [Ptrs -> {"new", "live", "freed"}]
    /\ key \in [Ptrs -> Indexes \cup {OutOfIndexes}]
    /\ owner \in [Indexes -> Ptrs \cup {"other", Null}]
    /\ taken \in 0..Others
    /\ slot \in [Threads -> [Indexes -> Values \cup {Null}]]
    /\ running \subseteq Threads /\ used \subseteq Values
    /\ stored \in [Ptrs -> [Threads -> Values \cup {Null}]]
    /\ ret \in [val : Values \cup {Null}, stored : Values \cup {Null}]

Init ==
    /\ life = [p \in Ptrs |-> "new"]
    /\ key = [p \in Ptrs |-> OutOfIndexes]
    /\ owner = [i \in Indexes |-> Null] /\ taken = 0
    /\ slot = [t \in Threads |-> [i \in Indexes |-> Null]]
    /\ running = Threads /\ used = {}
    /\ stored = [p \in Ptrs |-> [t \in Threads |-> Null]]
    /\ ret = [val |-> Null, stored |-> Null]

-----------------------------------------------------------------------------
(* Win32 fiber-local storage.                                              *)

\* FlsAlloc: the lowest free index, or FLS_OUT_OF_INDEXES.
FlsAlloc ==
    LET free == { i \in Indexes : owner[i] = Null }
    IN  IF free = {} THEN OutOfIndexes ELSE CHOOSE i \in free : \A j \in free : i =< j

\* FlsSetValue(i, v) on thread t: fails unless i is allocated.
FlsSetValue(t, i, v) == IF Allocated(i) THEN [slot EXCEPT ![t][i] = v] ELSE slot

\* FlsGetValue(i) on thread t: NULL unless i is allocated.
FlsGetValue(t, i) == IF Allocated(i) THEN slot[t][i] ELSE Null

-----------------------------------------------------------------------------
(* thread_specific_ptr_base.                                               *)

\* Mutant: set(nullptr) before m_key is assigned: FlsSetValue on whatever
\* the uninitialized m_key holds.
InitSetFirst(p, t) ==
    /\ life[p] = "new" /\ t \in running
    /\ \E garbage \in Indexes \cup {OutOfIndexes} :
          slot' = FlsSetValue(t, garbage, Null)
    /\ key' = [key EXCEPT ![p] = FlsAlloc]
    /\ owner' = IF FlsAlloc = OutOfIndexes THEN owner ELSE [owner EXCEPT ![FlsAlloc] = p]
    /\ life' = [life EXCEPT ![p] = "live"]
    /\ UNCHANGED <<taken, running, used, stored, ret>>

\* init(): m_key = FlsAlloc(m_cleanupFunction); set(nullptr).  The result
\* of FlsAlloc is not checked.
InitTLS(p, t) ==
    /\ life[p] = "new" /\ t \in running
    /\ key' = [key EXCEPT ![p] = FlsAlloc]
    /\ owner' = IF FlsAlloc = OutOfIndexes THEN owner ELSE [owner EXCEPT ![FlsAlloc] = p]
    /\ slot' = FlsSetValue(t, FlsAlloc, Null)
    /\ life' = [life EXCEPT ![p] = "live"]
    /\ UNCHANGED <<taken, running, used, stored, ret>>

\* set(value): FlsSetValue(m_key, value), its result ignored.
Set(p, t, v) ==
    /\ life[p] = "live" /\ t \in running
    /\ v = Null \/ v \notin used
    /\ slot' = FlsSetValue(t, key[p], v)
    /\ stored' = [stored EXCEPT ![p][t] = v]
    /\ used' = IF v = Null THEN used ELSE used \cup {v}
    /\ UNCHANGED <<life, key, owner, taken, running, ret>>

\* get(): FlsGetValue(m_key).
Get(p, t) ==
    /\ life[p] = "live" /\ t \in running
    /\ ret' = [val |-> FlsGetValue(t, key[p]), stored |-> stored[p][t]]
    /\ UNCHANGED <<life, key, owner, taken, slot, running, used, stored>>

\* freeTLS(): FlsFree(m_key); the callback gets every thread's value and
\* the index returns to the pool.
FreeTLS(p) ==
    /\ life[p] = "live"
    /\ life' = [life EXCEPT ![p] = "freed"]
    /\ IF Allocated(key[p])
       THEN /\ owner' = [owner EXCEPT ![key[p]] = Null]
            /\ slot' = [t \in Threads |-> [slot[t] EXCEPT ![key[p]] = Null]]
       ELSE UNCHANGED <<owner, slot>>
    /\ UNCHANGED <<key, taken, running, used, stored, ret>>

-----------------------------------------------------------------------------
(* The rest of the process.                                                *)

\* Another DLL or component of the process takes an FLS index.
OtherAlloc ==
    /\ taken < Others /\ FlsAlloc # OutOfIndexes
    /\ owner' = [owner EXCEPT ![FlsAlloc] = "other"]
    /\ taken' = taken + 1
    /\ UNCHANGED <<life, key, slot, running, used, stored, ret>>

\* A thread exits: the callbacks get its values and its slots go away.
ThreadExit(t) ==
    /\ t \in running
    /\ running' = running \ {t}
    /\ slot' = [slot EXCEPT ![t] = [i \in Indexes |-> Null]]
    /\ UNCHANGED <<life, key, owner, taken, used, stored, ret>>

Next ==
    \/ \E p \in Ptrs, t \in Threads : InitTLS(p, t) \/ Get(p, t)
    \/ \E p \in Ptrs, t \in Threads, v \in Values \cup {Null} : Set(p, t, v)
    \/ \E p \in Ptrs : FreeTLS(p)
    \/ OtherAlloc
    \/ \E t \in Threads : ThreadExit(t)

Spec == Init /\ [][Next]_vars

-----------------------------------------------------------------------------
\* A thread reads back through a live thread_specific_ptr exactly what it
\* last stored through that same object (NULL if nothing): the key init()
\* obtained is this object's own index for the whole life of the object,
\* even when indexes are handed back by freeTLS and reused, and when other
\* users of FLS in the process share the pool (spec 6: one slot per key).
GetReturnsSet == ret.val = ret.stored
=============================================================================
