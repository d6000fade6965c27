---------------------------- MODULE ComposedRead ----------------------------
(***************************************************************************)
(* What a composed read promises its caller, whichever buffers it fills    *)
(* and however it splits the work into read_some calls (asio's contract    *)
(* for read() and async_read()): it transfers bytes a positive amount at a *)
(* time, never more than the buffers hold nor, for transfer_exactly(k),    *)
(* more than k; it ends without error only once the completion condition   *)
(* holds, and with eof only when the peer has closed and everything it     *)
(* sent was taken; an asynchronous read never ends inside its initiating   *)
(* call; and every read that starts ends.                                  *)
(*                                                                         *)
(* The call's parameters are variables no step changes: the condition and  *)
(* its k, the capacity of the buffers, the bytes the peer sends before it  *)
(* closes, whether the read is asynchronous, and whether it reports an     *)
(* error by throwing (the caller then gets no count).                      *)
(***************************************************************************)
EXTENDS Naturals

VARIABLES
    cond, k,    \* the completion condition: "all", "atLeast" or "exactly"
    cap,        \* bytes the buffers (or the streambuf) can take
    avail,      \* bytes the peer sends before it closes
    async,      \* async_read rather than read
    throws,     \* an error is thrown rather than returned
    pc,         \* "idle", "reading" or "done"
    got,        \* bytes transferred so far
    result      \* what the caller is given: [ec, n]

vars == <<cond, k, cap, avail, async, throws, pc, got, result>>
params == <<cond, k, cap, avail, async, throws>>

Least(a, b) == IF a < b THEN a ELSE b

\* The most the read may transfer.
Limit == IF cond = "exactly" THEN Least(k, cap) ELSE cap

\* The completion condition holds after n bytes (as far as the buffers go).
Satisfied(n) ==
    CASE cond = "all"     -> n = cap
      [] cond = "atLeast" -> n >= Least(k, cap)
      [] cond = "exactly" -> n = Least(k, cap)

Init ==
    /\ pc = "idle" /\ got = 0
    /\ result = [ec |-> "none", n |-> 0]

\* The call: the read starts; read() may return at once when nothing is
\* asked of it, async_read never completes from inside the call.
Begin ==
    /\ pc = "idle"
    /\ \/ pc' = "reading" /\ UNCHANGED <<got, result>>
       \/ /\ ~async /\ Satisfied(0)
          /\ pc' = "done" /\ result' = [ec |-> "ok", n |-> 0]
          /\ UNCHANGED got
    /\ UNCHANGED params

\* Some bytes arrive and the read goes on.
Transfer ==
    /\ pc = "reading"
    /\ \E n \in (got + 1)..Least(Limit, avail) : got' = n
    /\ UNCHANGED <<pc, result>>
    /\ UNCHANGED params

\* The last bytes (possibly none) arrive and the caller is told the outcome.
Complete ==
    /\ pc = "reading"
    /\ \E n \in got..Least(Limit, avail), ec \in {"ok", "eof"} :
          /\ ec = "ok" => Satisfied(n)
          /\ ec = "eof" => n = avail
          /\ got' = n /\ pc' = "done"
          /\ result' = IF throws /\ ec # "ok" THEN [ec |-> "thrown", n |-> 0] ELSE [ec |-> ec, n |-> n]
    /\ UNCHANGED params

Next == Begin \/ Transfer \/ Complete

Spec == Init /\ [][Next]_vars /\ WF_vars(Transfer \/ Complete)
=============================================================================
