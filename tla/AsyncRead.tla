----------------------------- MODULE AsyncRead -----------------------------
(***************************************************************************)
(* asio's composed read (contrib/autoboost/autoboost/asio/impl/read.hpp):  *)
(* read() and async_read() keep calling the stream's read_some until the   *)
(* completion condition or the buffers say stop, then return or call the   *)
(* handler with the error of the last read and the total transferred.      *)
(*                                                                         *)
(* One operation runs per behaviour, in one of six variants:               *)
(*   "generic"    read_op over a buffer sequence (consuming_buffers),      *)
(*   "single"     read_op<mutable_buffers_1>,                              *)
(*   "pair"       read_op<array<Elem, 2>> (boost:: and std::),             *)
(*   "streambuf"  read_streambuf_op,                                       *)
(*   "sync"       read() over a buffer sequence,                           *)
(*   "syncSb"     read() into a basic_streambuf.                           *)
(* A buffer is a run of byte slots <<b, o>> (buffer b, offset o).  The     *)
(* stream's data are the bytes 0, 1, 2, ... of what the peer sends; the    *)
(* peer sends Data bytes and then closes (eof).  Each async step is one    *)
(* call of operator(): the completion of the outstanding read_some, the    *)
(* bookkeeping, the test, and either the next read_some or the handler.    *)
(***************************************************************************)
EXTENDS Naturals, Sequences

CONSTANTS
    MaxBuf,         \* bound on the size of each buffer
    MaxData,        \* bound on the bytes the peer sends before closing
    MaxK,           \* bound on the argument of transfer_at_least / _exactly
    MaxTransfer     \* default_max_transfer_size (65536 in asio), scaled down

ASSUME MaxBuf \in Nat /\ MaxData \in Nat /\ MaxK \in Nat /\ MaxTransfer \in Nat \ {0}

Variants == {"generic", "single", "pair", "streambuf", "sync", "syncSb"}
Async    == {"generic", "single", "pair", "streambuf"}
Streambufs == {"streambuf", "syncSb"}
Conditions == {"all", "atLeast", "exactly"}
Errors == {"ok", "eof"}

\* The overloads of each entry point: with a completion condition or with
\* transfer_all(), and for read() reporting through an error_code& or by
\* throwing system_error (throw_error(ec, "read")).
ReadOverloads == {"condEc", "allEc", "condThrow", "allThrow"}
ReadStreambufOverloads == ReadOverloads
AsyncReadOverloads == {"cond", "all"}
AsyncReadStreambufOverloads == AsyncReadOverloads

Overloads(v) ==
    CASE v = "sync"      -> ReadOverloads
      [] v = "syncSb"    -> ReadStreambufOverloads
      [] v = "streambuf" -> AsyncReadStreambufOverloads
      [] OTHER           -> AsyncReadOverloads

\* The conditions an overload passes on: transfer_all() for the short ones.
OverloadConditions(a) == IF a \in {"all", "allEc", "allThrow"} THEN {"all"} ELSE Conditions

VARIABLES
    variant, api,       \* the call: which read, which overload of it
    cond, k,            \* the completion condition it passes on
    size,               \* size[b] of buffer b; for a streambuf, its max_size
    sb0,                \* bytes already in the streambuf when the read starts
    data,               \* bytes the peer sends before it closes
    pc,                 \* "idle", "reading" (a read_some outstanding), "done"
    total,              \* total_transferred_
    req,                \* the slots handed to the outstanding read_some
    sent,               \* stream bytes consumed so far
    placed,             \* [slot, byte] for every byte the stream delivered
    result,             \* what the handler or read() got: [ec, n]
    userCont,           \* is_continuation(handler_) of the caller's handler
    start,              \* start_ of the read_op: 1 in the initiating call
    hint                \* the continuation hint the outstanding read_some got

vars == <<variant, api, cond, k, size, sb0, data, pc, total, req, sent, placed, result,
          userCont, start, hint>>

Slot == (0..1) \X (0..(2 * MaxBuf))
None == [ec |-> "none", n |-> 0]

MinOf(a, b) == IF a < b THEN a ELSE b

TypeOK ==
    /\ variant \in Variants /\ api \in Overloads(variant)
    /\ cond \in Conditions /\ k \in 0..MaxK
    /\ size \in [0..1 -> 0..MaxBuf] /\ sb0 \in 0..MaxBuf /\ data \in 0..MaxData
    /\ pc \in {"idle", "reading", "done"}
    /\ total \in Nat /\ sent \in Nat
    /\ req \in Seq(Slot)
    /\ placed \subseteq [slot : Slot, byte : Nat]
    /\ result \in [ec : Errors \cup {"thrown"}, n : Nat] \cup {None}
    /\ userCont \in BOOLEAN /\ start \in {0, 1} /\ hint \in BOOLEAN

Init ==
    /\ variant \in Variants /\ api \in Overloads(variant)
    /\ cond \in OverloadConditions(api)
    /\ k \in IF cond = "all" THEN {0} ELSE 0..MaxK
    /\ size \in { s \in [0..1 -> 0..MaxBuf] :
                    variant \notin {"generic", "pair", "sync"} => s[1] = 0 }
    /\ sb0 \in IF variant \in Streambufs THEN 0..size[0] ELSE {0}
    /\ data \in 0..MaxData
    /\ pc = "idle" /\ total = 0 /\ req = <<>> /\ sent = 0
    /\ placed = {} /\ result = None
    /\ userCont \in IF variant \in Async THEN BOOLEAN ELSE {FALSE}
    /\ start = 0 /\ hint = FALSE

-----------------------------------------------------------------------------
(* The completion conditions (asio completion_condition.hpp):            *)
(* transfer_all_t, transfer_at_least_t and transfer_exactly_t.            *)

\* check_for_completion(ec, total): how many more bytes to ask for; 0 stops.
Check(ec, t) ==
    CASE cond = "all"     -> IF ec # "ok" THEN 0 ELSE MaxTransfer
      [] cond = "atLeast" -> IF ec # "ok" \/ t >= k THEN 0 ELSE MaxTransfer
      [] cond = "exactly" -> IF ec # "ok" \/ t >= k THEN 0 ELSE MinOf(k - t, MaxTransfer)

-----------------------------------------------------------------------------
(* The slots each variant hands to read_some.                              *)

Region(b, off, len) == [i \in 1..len |-> <<b, off + i - 1>>]

\* asio::buffer(buf + off, n): the offset is clamped to the buffer's size,
\* and at most n bytes of what remains.
BufAt(b, off, n) ==
    LET o == MinOf(off, size[b]) IN Region(b, o, MinOf(size[b] - o, n))

\* consuming_buffers after consume(t) and prepare(n): the first n of the
\* slots not yet consumed.
ConsumingPrepare(t, n) ==
    LET all == Region(0, 0, size[0]) \o Region(1, 0, size[1])
    IN  SubSeq(all, t + 1, MinOf(t + n, Len(all)))

\* read_op<mutable_buffers_1>: buffer(buffer_ + total_transferred_, n).
SingleRequest(t, n) == BufAt(0, t, n)

\* Mutant: the second buffer's offset not reduced by the first's size.
PairRequestNoShift(t, n) ==
    LET r0 == BufAt(0, t, n) IN r0 \o BufAt(1, t, n - Len(r0))

\* read_op<array<Elem, 2>>: bufs[0] from offset total, bufs[1] from the
\* part of total past buffer 0, with what n leaves after bufs[0].
PairRequest(t, n) ==
    LET r0 == BufAt(0, t, n)
    IN  r0 \o BufAt(1, IF t < size[0] THEN 0 ELSE t - size[0], n - Len(r0))

\* read_size_helper(streambuf, max_size): what fits under max_size (the
\* 512-byte floor exceeds every size of the model).
BytesAvailable(t, m) == MinOf(m, size[0] - sb0 - t)

\* streambuf.prepare(n): the n slots after the committed bytes.
SbPrepare(t, n) == Region(0, sb0 + t, n)

Capacity == IF variant \in Streambufs THEN size[0] - sb0 ELSE size[0] + size[1]

-----------------------------------------------------------------------------
(* The stream: read_some delivers bytes from `sent` on into the first      *)
(* slots of the request.  A read into no slots returns at once with no     *)
(* error; otherwise it returns at least one byte, or eof once the peer has *)
(* closed.                                                                 *)
Outcomes ==
    { o \in [ec : Errors, b : 0..MaxData] :
        IF req = <<>> THEN o.ec = "ok" /\ o.b = 0
        ELSE IF sent = data THEN o.ec = "eof" /\ o.b = 0
        ELSE o.ec = "ok" /\ 1 =< o.b /\ o.b =< MinOf(Len(req), data - sent) }

\* The bytes of outcome o land in the request's first o.b slots.
Deliver(o) ==
    /\ placed' = placed \cup { [slot |-> req[i], byte |-> sent + i - 1] : i \in 1..o.b }
    /\ sent' = sent + o.b
    /\ total' = total + o.b

\* What the caller gets: the throwing overloads of read() call
\* throw_error(ec, "read"), and the count is lost with the exception.
Reported(ec, n) ==
    IF api \in {"condThrow", "allThrow"} /\ ec # "ok" THEN [ec |-> "thrown", n |-> 0]
    ELSE [ec |-> ec, n |-> n]

\* The step either calls the handler (returns) or issues the next read_some.
Finish(stop, ec, next) ==
    IF stop THEN pc' = "done" /\ result' = Reported(ec, total') /\ req' = <<>>
    ELSE req' = next /\ UNCHANGED <<pc, result>>

callVars == <<variant, api, cond, k, size, sb0, data, userCont>>

-----------------------------------------------------------------------------
(* What the stream keeps of the operation: async_read_some is given the    *)
(* op itself, moved (MOVE_CAST of this op) into the stream, and the        *)
(* io_service asks asio_handler_is_continuation of that copy when the read *)
(* is issued.                                                              *)

\* Mutant: a move constructor that initialises start_(0) as the first
\* constructor does, instead of taking other.start_.
ReadOpMoveNoStart(op) == [start |-> 0, total |-> op.total]

\* read_op(read_op&& other) (and read_streambuf_op's): every member is
\* taken from other, start_ and total_transferred_ included.
ReadOpMove(op) == [start |-> op.start, total |-> op.total]

\* asio_handler_is_continuation(op): start_ == 0 ? true :
\* is_continuation(handler_).
IsContinuation(op) == op.start = 0 \/ userCont

\* The read_some operator() issues: it hands on MOVE_CAST of this op, whose
\* start_ is the one switch (start_ = start) has just assigned.
IssueHint == hint' = IsContinuation(ReadOpMove([start |-> start', total |-> total']))

-----------------------------------------------------------------------------
(* Starting a read.                                                        *)

\* Mutant: async_read completing at once when there is nothing to ask for,
\* the way read() does.
AsyncReadInline ==
    /\ pc = "idle" /\ variant \in {"generic", "single", "pair"}
    /\ start' = 1
    /\ LET n == Check("ok", 0)
           r == CASE variant = "generic" -> ConsumingPrepare(0, n)
                  [] variant = "single"  -> SingleRequest(0, n)
                  [] variant = "pair"    -> PairRequest(0, n)
       IN  IF r = <<>> THEN pc' = "done" /\ result' = [ec |-> "ok", n |-> 0] /\ req' = <<>> /\ UNCHANGED hint
           ELSE pc' = "reading" /\ req' = r /\ IssueHint /\ UNCHANGED result
    /\ UNCHANGED <<callVars, total, sent, placed>>

\* The read_op / read_streambuf_op constructors: the buffers (or the
\* streambuf) and the condition are taken over, start_(0) and
\* total_transferred_(0).
ReadOpConstruct == total' = 0

\* async_read(s, buffers, cond, handler): read_op(...)(error_code(), 0, 1),
\* case 1: prepare what the condition asks for and issue read_some.
AsyncRead ==
    /\ pc = "idle" /\ variant \in {"generic", "single", "pair"}
    /\ ReadOpConstruct
    /\ LET n == Check("ok", 0)
       IN  req' = CASE variant = "generic" -> ConsumingPrepare(0, n)
                    [] variant = "single"  -> SingleRequest(0, n)
                    [] variant = "pair"    -> PairRequest(0, n)
    /\ pc' = "reading"
    /\ start' = 1 /\ IssueHint
    /\ UNCHANGED <<callVars, sent, placed, result>>

\* async_read(s, streambuf, cond, handler): read_streambuf_op, case 1.
AsyncReadStreambuf ==
    /\ pc = "idle" /\ variant = "streambuf"
    /\ ReadOpConstruct
    /\ req' = SbPrepare(0, BytesAvailable(0, Check("ok", 0)))
    /\ pc' = "reading"
    /\ start' = 1 /\ IssueHint
    /\ UNCHANGED <<callVars, sent, placed, result>>

\* read(s, buffers, cond, ec): the loop runs while the prepared buffers
\* are not empty, so it may return before reading anything.
SyncRead ==
    /\ pc = "idle" /\ variant = "sync"
    /\ LET r == ConsumingPrepare(0, Check("ok", 0))
       IN  IF r = <<>> THEN pc' = "done" /\ result' = [ec |-> "ok", n |-> 0] /\ req' = <<>>
           ELSE pc' = "reading" /\ req' = r /\ UNCHANGED result
    /\ UNCHANGED <<callVars, total, sent, placed, start, hint>>

\* read(s, streambuf, cond, ec): the loop runs while bytes_available > 0.
SyncReadStreambuf ==
    /\ pc = "idle" /\ variant = "syncSb"
    /\ LET m == BytesAvailable(0, Check("ok", 0))
       IN  IF m = 0 THEN pc' = "done" /\ result' = [ec |-> "ok", n |-> 0] /\ req' = <<>>
           ELSE pc' = "reading" /\ req' = SbPrepare(0, m) /\ UNCHANGED result
    /\ UNCHANGED <<callVars, total, sent, placed, start, hint>>

-----------------------------------------------------------------------------
(* One completion of read_some and the loop iteration that follows it.    *)

\* read_op::operator() default: consume, prepare, stop on an empty read
\* without error or when nothing is left to prepare.
ReadOpStep(o) ==
    /\ variant = "generic"
    /\ Deliver(o)
    /\ LET t == total + o.b
           r == ConsumingPrepare(t, Check(o.ec, t))
       IN  Finish((o.ec = "ok" /\ o.b = 0) \/ r = <<>>, o.ec, r)

\* read_op<mutable_buffers_1>: stop on an empty read without error, when
\* the condition says 0 or when the buffer is full.
ReadOpSingleStep(o) ==
    /\ variant = "single"
    /\ Deliver(o)
    /\ LET t == total + o.b
           n == Check(o.ec, t)
       IN  Finish((o.ec = "ok" /\ o.b = 0) \/ n = 0 \/ t = size[0], o.ec, SingleRequest(t, n))

\* read_op<array<Elem, 2>>: the same test against both buffers' sizes.
ReadOpPairStep(o) ==
    /\ variant = "pair"
    /\ Deliver(o)
    /\ LET t == total + o.b
           n == Check(o.ec, t)
       IN  Finish((o.ec = "ok" /\ o.b = 0) \/ n = 0 \/ t = size[0] + size[1], o.ec, PairRequest(t, n))

\* read_streambuf_op: commit, then stop on an empty read without error or
\* when nothing more is available to prepare.
ReadStreambufOpStep(o) ==
    /\ variant = "streambuf"
    /\ Deliver(o)
    /\ LET t == total + o.b
           m == BytesAvailable(t, Check(o.ec, t))
       IN  Finish((o.ec = "ok" /\ o.b = 0) \/ m = 0, o.ec, SbPrepare(t, m))

\* read(): consume, prepare, and loop while the buffers are not empty.
SyncReadStep(o) ==
    /\ variant = "sync"
    /\ Deliver(o)
    /\ LET t == total + o.b
           r == ConsumingPrepare(t, Check(o.ec, t))
       IN  Finish(r = <<>>, o.ec, r)

\* read() into a streambuf: commit, and loop while bytes_available > 0.
SyncReadStreambufStep(o) ==
    /\ variant = "syncSb"
    /\ Deliver(o)
    /\ LET t == total + o.b
           m == BytesAvailable(t, Check(o.ec, t))
       IN  Finish(m = 0, o.ec, SbPrepare(t, m))

Step ==
    /\ pc = "reading"
    /\ \E o \in Outcomes :
          \/ ReadOpStep(o) \/ ReadOpSingleStep(o) \/ ReadOpPairStep(o)
          \/ ReadStreambufOpStep(o) \/ SyncReadStep(o) \/ SyncReadStreambufStep(o)
    \* operator()(ec, n) with the default start = 0: switch (start_ = start).
    /\ IF variant \in Async
          THEN start' = 0 /\ IF pc' = "reading" THEN IssueHint ELSE UNCHANGED hint
          ELSE UNCHANGED <<start, hint>>
    /\ UNCHANGED callVars

Next ==
    \/ AsyncRead \/ AsyncReadStreambuf \/ SyncRead \/ SyncReadStreambuf
    \/ Step

\* A read_some on a peer that sends or closes completes, and the
\* io_service runs its handler: weak fairness on the loop.
Spec == Init /\ [][Next]_vars /\ WF_vars(Step)

-----------------------------------------------------------------------------
(* Properties.                                                             *)

\* Where a slot sits in the caller's data: buffers back to back, or the
\* streambuf's input sequence after the bytes it already held.
Position(s) ==
    IF variant \in Streambufs THEN s[2] - sb0
    ELSE IF s[1] = 0 THEN s[2] ELSE size[0] + s[2]

\* Every byte the stream delivered lands inside the caller's buffers (after
\* a streambuf's existing content), at the position equal to its place in
\* the stream, and no slot is written twice: the offsets the loop computes
\* after each partial read (read.hpp 268-270, 350-355, 622-630) neither
\* skip, overlap nor overrun.
DataInPlace ==
    /\ \A p \in placed :
          /\ p.slot[2] < size[p.slot[1]]
          /\ (variant \in Streambufs => p.slot[2] >= sb0)
          /\ Position(p.slot) = p.byte
    /\ \A p, q \in placed : p.slot = q.slot => p = q

\* Every read_some an async_read issues tells the io_service whether it
\* continues an operation in progress: those issued from the completion of
\* the previous read_some say yes, and the one issued from async_read
\* itself says what the caller's handler says.  The hook reads start_ from
\* the copy the stream holds, so the move of the op must carry start_ over
\* and operator() must set start_ on every call (read.hpp 188, 486-495).
ContinuationHint ==
    pc = "reading" /\ variant \in Async => (hint <=> total > 0 \/ userCont)

\* The read does what asio promises of read() and async_read(), the
\* abstract ComposedRead with the buffers' capacity, the peer's data and
\* total_transferred_ as its progress: each variant's loop only goes on
\* after a positive transfer, never asks for more than fits or than
\* transfer_exactly allows, stops without error only once its condition
\* holds (transfer_all: the buffers are full), never calls an async
\* handler from the initiating call, and always ends under the fairness
\* of Spec.
Abstract == INSTANCE ComposedRead
              WITH cap <- Capacity, avail <- data, async <- variant \in Async,
                   throws <- api \in {"condThrow", "allThrow"}, got <- total

ComposedReadSpec == Abstract!Spec
====
