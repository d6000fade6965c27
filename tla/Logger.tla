------------------------------- MODULE Logger -------------------------------
(***************************************************************************)
(* websocketpp::log::basic (websocketpp/logger/basic.hpp) shared by        *)
(* several threads, with the concurrency policy's mutex m_lock.            *)
(*                                                                         *)
(* A level is a set of channel bits: & is \cap, | is \cup, ~c is the       *)
(* complement in Bits; names::none is {} and names::all is Bits.  Streams  *)
(* are model values standing for std::ostream objects.  A call is split    *)
(* where another thread can observe it: write() takes the lock and tests   *)
(* the channel, reads m_out and streams the line into it (the chain of     *)
(* operator<< runs on the stream it read), then reads m_out again to flush *)
(* it and releases the lock.  set_ostream() stores m_out without the lock; *)
(* a pointer store is one step (a reader sees the old or the new value).   *)
(*                                                                         *)
(* The timestamp manipulator runs inside the chain: std::localtime fills   *)
(* the C library's one static struct tm and returns a pointer to it, and   *)
(* put_time formats it afterwards.  Another logger instance (an endpoint   *)
(* has an access and an error logger, each with its own m_lock) may call   *)
(* localtime in between; the racing store is a data race, modelled as the  *)
(* buffer holding either call's result.                                    *)
(***************************************************************************)
EXTENDS FiniteSets

CONSTANTS
    Threads,    \* threads calling the logger
    Bits,       \* channel bits
    Streams,    \* output streams
    Static,     \* m_static_channels, fixed by the constructor
    OtherLogger \* is a second basic logger writing at the same time?

ASSUME Static \subseteq Bits /\ OtherLogger \in BOOLEAN

None == "none"

VARIABLES
    dynamic,    \* m_dynamic_channels
    out,        \* m_out
    lock,       \* the thread holding m_lock, or None
    pc,         \* pc[t]: "idle", or where thread t is inside a call
    chan,       \* chan[t]: the channel of t's write, or the level to clear
    target,     \* target[t]: the stream t's write streamed its line into
    dirty,      \* streams holding a logged line not yet flushed
    tm,         \* whose localtime() call the static struct tm holds
    stamp       \* stamp[t]: whose time put_time printed in t's line

vars == <<dynamic, out, lock, pc, chan, target, dirty, tm, stamp>>

TypeOK ==
    /\ dynamic \subseteq Static
    /\ out \in Streams
    /\ lock \in Threads \cup {None}
    /\ pc \in [Threads -> {"idle", "test", "chain", "stamp", "flush", "clear"}]
    /\ chan \in [Threads -> SUBSET Bits]
    /\ target \in [Threads -> Streams \cup {None}]
    /\ dirty \subseteq Streams
    /\ tm \in Threads \cup {"other", None}
    /\ stamp \in [Threads -> Threads \cup {"other", None}]

\* The constructors: every channel off, m_out given or std::cout/cerr.
Init ==
    /\ dynamic = {}
    /\ out \in Streams
    /\ lock = None
    /\ pc = [t \in Threads |-> "idle"]
    /\ chan = [t \in Threads |-> {}]
    /\ target = [t \in Threads |-> None]
    /\ dirty = {}
    /\ tm = None
    /\ stamp = [t \in Threads |-> None]

\* dynamic_test(channel): (channel & m_dynamic_channels) != 0.
DynamicTest(c) == c \cap dynamic # {}

Free == lock = None

-----------------------------------------------------------------------------
(* write(channel, msg)                                                     *)

\* The call: scoped_lock_type lock(m_lock).
Write(t, c) ==
    /\ pc[t] = "idle" /\ Free
    /\ lock' = t
    /\ pc' = [pc EXCEPT ![t] = "test"]
    /\ chan' = [chan EXCEPT ![t] = c]
    /\ UNCHANGED <<dynamic, out, target, dirty, tm, stamp>>

\* Mutant: the lock scoped to the test, released before the output.
WriteTestUnlocks(t) ==
    /\ pc[t] = "test"
    /\ IF DynamicTest(chan[t])
          THEN pc' = [pc EXCEPT ![t] = "chain"]
          ELSE pc' = [pc EXCEPT ![t] = "idle"]
    /\ lock' = None
    /\ UNCHANGED <<dynamic, out, chan, target, dirty, tm, stamp>>

\* if (!dynamic_test(channel)) return; (the lock is released on return).
WriteTest(t) ==
    /\ pc[t] = "test"
    /\ IF DynamicTest(chan[t])
          THEN pc' = [pc EXCEPT ![t] = "chain"] /\ UNCHANGED lock
          ELSE pc' = [pc EXCEPT ![t] = "idle"] /\ lock' = None
    /\ UNCHANGED <<dynamic, out, chan, target, dirty, tm, stamp>>

\* *m_out << "[" << timestamp << ...: m_out is read once and the line goes
\* into that stream; timestamp() calls std::localtime, which fills the
\* static struct tm.
WriteChain(t) ==
    /\ pc[t] = "chain"
    /\ target' = [target EXCEPT ![t] = out]
    /\ dirty' = dirty \cup {out}
    /\ tm' = t
    /\ pc' = [pc EXCEPT ![t] = "stamp"]
    /\ UNCHANGED <<dynamic, out, lock, chan, stamp>>

\* timestamp(): put_time (or strftime) formats the struct tm that
\* localtime returned a pointer to; the rest of the line follows.
WriteStamp(t) ==
    /\ pc[t] = "stamp"
    /\ stamp' = [stamp EXCEPT ![t] = tm]
    /\ pc' = [pc EXCEPT ![t] = "flush"]
    /\ UNCHANGED <<dynamic, out, lock, chan, target, dirty, tm>>

\* m_out->flush(): m_out is read again; then the lock is released.
WriteFlush(t) ==
    /\ pc[t] = "flush"
    /\ dirty' = dirty \ {out}
    /\ pc' = [pc EXCEPT ![t] = "idle"]
    /\ target' = [target EXCEPT ![t] = None]
    /\ stamp' = [stamp EXCEPT ![t] = None]
    /\ lock' = None
    /\ UNCHANGED <<dynamic, out, chan, tm>>

\* The other logger's timestamp() calls std::localtime under its own
\* m_lock, which does not exclude this logger's writers.
OtherLocaltime ==
    /\ OtherLogger
    /\ tm' = "other"
    /\ UNCHANGED <<dynamic, out, lock, pc, chan, target, dirty, stamp>>

-----------------------------------------------------------------------------
(* Channels and the stream.                                                *)

\* clear_channels(channels): the call, before its lock.
ClearChannels(t, c) ==
    /\ pc[t] = "idle"
    /\ pc' = [pc EXCEPT ![t] = "clear"]
    /\ chan' = [chan EXCEPT ![t] = c]
    /\ UNCHANGED <<dynamic, out, lock, target, dirty, tm, stamp>>

\* Mutant: clear_channels without its scoped_lock.
ClearStepUnlocked(t) ==
    /\ pc[t] = "clear"
    /\ dynamic' = dynamic \ chan[t]
    /\ pc' = [pc EXCEPT ![t] = "idle"]
    /\ UNCHANGED <<out, lock, chan, target, dirty, tm, stamp>>

\* scoped_lock_type lock(m_lock); m_dynamic_channels &= ~channels.
ClearStep(t) ==
    /\ pc[t] = "clear" /\ Free
    /\ dynamic' = dynamic \ chan[t]
    /\ pc' = [pc EXCEPT ![t] = "idle"]
    /\ UNCHANGED <<out, lock, chan, target, dirty, tm, stamp>>

\* Mutant: set_channels taking the lock before testing for none, so that
\* set_channels(none) calls clear_channels with m_lock held.
SetChannelsLockFirst(t, c) ==
    /\ pc[t] = "idle" /\ Free
    /\ IF c = {}
          THEN /\ lock' = t
               /\ pc' = [pc EXCEPT ![t] = "clear"] /\ chan' = [chan EXCEPT ![t] = Bits]
               /\ UNCHANGED dynamic
          ELSE dynamic' = dynamic \cup (c \cap Static) /\ UNCHANGED <<lock, pc, chan>>
    /\ UNCHANGED <<out, target, dirty, tm, stamp>>

\* set_channels(channels): none clears every channel through
\* clear_channels(all) before any lock is taken; otherwise, under the lock,
\* m_dynamic_channels |= (channels & m_static_channels).
SetChannels(t, c) ==
    /\ pc[t] = "idle"
    /\ IF c = {}
          THEN /\ pc' = [pc EXCEPT ![t] = "clear"] /\ chan' = [chan EXCEPT ![t] = Bits]
               /\ UNCHANGED dynamic
          ELSE /\ Free
               /\ dynamic' = dynamic \cup (c \cap Static)
               /\ UNCHANGED <<pc, chan>>
    /\ UNCHANGED <<out, lock, target, dirty, tm, stamp>>

\* set_ostream(out): m_out = out, with no lock.
SetOstream(t, s) ==
    /\ pc[t] = "idle"
    /\ out' = s
    /\ UNCHANGED <<dynamic, lock, pc, chan, target, dirty, tm, stamp>>

Progress(t) == WriteTest(t) \/ WriteChain(t) \/ WriteStamp(t) \/ WriteFlush(t) \/ ClearStep(t)

Next ==
    \E t \in Threads :
        \/ \E b \in Bits : Write(t, {b})
        \/ \E c \in SUBSET Bits : SetChannels(t, c) \/ ClearChannels(t, c)
        \/ \E s \in Streams : SetOstream(t, s)
        \/ Progress(t)
    \/ OtherLocaltime

\* A thread inside a call keeps running: weak fairness per thread.  The
\* mutex promises no order among waiters, so nothing stronger is assumed.
Spec == Init /\ [][Next]_vars /\ \A t \in Threads : WF_vars(Progress(t))

-----------------------------------------------------------------------------
(* Properties.                                                             *)

\* A line is streamed only on a channel that is enabled while it is being
\* streamed: set_channels and clear_channels, on other threads, cannot
\* disable a channel between write's dynamic_test and its output, because
\* all three hold m_lock.
LoggedOnlyWhenEnabled ==
    \A t \in Threads : pc[t] \in {"chain", "stamp", "flush"} => DynamicTest(chan[t])

\* A thread that takes m_lock releases it: no call of the logger waits on
\* the lock its own thread holds (set_channels(none) calls clear_channels
\* before locking).
LockReleased ==
    \A t \in Threads : lock = t ~> lock # t

\* Every line write() streams is flushed before write() returns: a stream
\* holding an unflushed line is one some write(), still holding m_lock,
\* streamed into and has yet to flush.  write() reads m_out twice, for the
\* line and for flush(), and set_ostream stores m_out without m_lock.
FlushedWhereWritten ==
    dirty \subseteq { target[t] : t \in { u \in Threads : pc[u] \in {"stamp", "flush"} } }

\* The time printed in a line is the time its own write() read: between
\* the localtime call of timestamp() and put_time reading the struct tm,
\* no other call overwrites it.  m_lock keeps this logger's own writers
\* apart; nothing keeps another logger's localtime out.
StampIsOwn ==
    \A t \in Threads : pc[t] = "flush" => stamp[t] = t
====
