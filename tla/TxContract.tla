----------------------------- MODULE TxContract -----------------------------
(***************************************************************************)
(* What asynchronous transmission promises the application (docs/uart-tx.md *)
(* and Zephyr's UART API as the driver implements it), with no DMA,        *)
(* registers, interrupts or workers: a buffer is the application's, or in  *)
(* the one transfer in progress, or in one event on its way.               *)
(***************************************************************************)
EXTENDS Integers

CONSTANTS Buffers, Callbacks, MaxLength

VARIABLES callback,   \* the registered callback, or "null"
          transfer    \* per buffer: its state, length, bytes sent, and its event

vars == <<callback, transfer>>

Mine == [state |-> "mine", length |-> 0, sent |-> 0, cb |-> "null", type |-> "none", count |-> 0]

Init == callback = "null" /\ transfer = [b \in Buffers |-> Mine]

Busy(b) == transfer[b].state = "busy"
Quiet == \A b \in Buffers : ~Busy(b)

\* The callback changes between transfers only.
SetCallback(cb) == Quiet /\ callback' = cb /\ UNCHANGED transfer

\* One transfer at a time, and someone to tell about it.
Submit(b, n) ==
  /\ Quiet /\ transfer[b] = Mine /\ callback # "null"
  /\ transfer' = [transfer EXCEPT ![b] = [Mine EXCEPT !.state = "busy", !.length = n,
                                                      !.cb = callback]]
  /\ UNCHANGED callback

\* A byte of the buffer leaves the port: during the transfer, or as the tail of
\* an aborted one.
Send(b) ==
  /\ Busy(b) \/ transfer[b].type = "ABORTED"
  /\ transfer[b].sent < MaxLength
  /\ transfer' = [transfer EXCEPT ![b].sent = @ + 1]
  /\ UNCHANGED callback

\* The transfer ends with one event: done when all of it was sent, or aborted
\* with a count no larger than its length.
End(b, type, n) ==
  LET t == transfer[b] IN
  /\ Busy(b)
  /\ IF type = "DONE" THEN n = t.length /\ t.sent = t.length ELSE n <= t.length
  /\ transfer' = [transfer EXCEPT ![b].state = "ended", ![b].type = type, ![b].count = n]
  /\ UNCHANGED callback

\* The event reaches the callback of the transfer; the buffer is the
\* application's again.
Tell(b) ==
  /\ transfer[b].state = "ended"
  /\ transfer' = [transfer EXCEPT ![b] = Mine]
  /\ UNCHANGED callback

Next ==
  \/ \E cb \in Callbacks \cup {"null"} : SetCallback(cb)
  \/ \E b \in Buffers :
       \/ Send(b) \/ Tell(b)
       \/ \E n \in 0 .. MaxLength :
            Submit(b, n) \/ \E type \in {"DONE", "ABORTED"} : End(b, type, n)

Spec == Init /\ [][Next]_vars
=============================================================================
