----------------------------- MODULE RxContract -----------------------------
(***************************************************************************)
(* What asynchronous reception promises the application (docs/uart-rx.md   *)
(* and Zephyr's UART API as the driver implements it): sessions, buffers   *)
(* lent and returned, and the events in between, delivered one at a time.  *)
(* No DMA, registers, interrupts, queue or generations.                    *)
(***************************************************************************)
EXTENDS Integers

CONSTANTS Blocks,     \* receive buffers: [addr, len]
          Callbacks,
          Contexts,   \* threads and interrupt handlers that may call the callback
          MayLose     \* the DMA provider may fail to say how much it stored

VARIABLES open,       \* from rx_enable to UART_RX_DISABLED
          callback,   \* the registered callback, or "null"
          asked,      \* the application owes an answer to a buffer request
          held,       \* per buffer: lent, bytes stored and reported, stop told, count lost
          inside      \* the contexts in the application's callback

vars == <<open, callback, asked, held, inside>>

Mine == [lent |-> FALSE, stored |-> 0, reported |-> 0, stopped |-> FALSE, unknown |-> FALSE]
Lent == [Mine EXCEPT !.lent = TRUE]

Init ==
  /\ ~open /\ callback = "null" /\ ~asked
  /\ held = [b \in Blocks |-> Mine] /\ inside = {}

Apart(a, b) == a.addr + a.len <= b.addr \/ b.addr + b.len <= a.addr
LentOut == {b \in Blocks : held[b] # Mine}

\* The callback changes between sessions only: a session's events go to the
\* callback it began with.
SetCallback(cb) == ~open /\ callback' = cb /\ UNCHANGED <<open, asked, held, inside>>

\* A session begins when every buffer of the last one is back.
Enable(b) ==
  /\ ~open /\ callback # "null" /\ LentOut = {}
  /\ open' = TRUE /\ held' = [held EXCEPT ![b] = Lent]
  /\ UNCHANGED <<callback, asked, inside>>

\* One buffer per request, sharing no byte with those lent.
Answer(b) ==
  /\ open /\ asked /\ asked' = FALSE
  /\ \A a \in LentOut : Apart(a, b)
  /\ held' = [held EXCEPT ![b] = Lent]
  /\ UNCHANGED <<open, callback, inside>>

Store(b) ==
  /\ open /\ held[b].lent /\ held[b].stored < b.len
  /\ held' = [held EXCEPT ![b].stored = @ + 1]
  /\ UNCHANGED <<open, callback, asked, inside>>

\* The session ends and the provider does not say how much it stored.
CountLost(b) ==
  /\ MayLose /\ open /\ held[b].lent
  /\ held' = [held EXCEPT ![b].unknown = TRUE]
  /\ asked' = FALSE
  /\ UNCHANGED <<open, callback, inside>>

\* The session moves to its next buffer or ends: a request may lapse.
Lapse == asked /\ asked' = FALSE /\ UNCHANGED <<open, callback, held, inside>>

\* An event is delivered by x, which leaves no other context in the callback.
Event(x) == open /\ callback # "null" /\ inside \subseteq {x} /\ inside' = {x} /\ UNCHANGED callback

Request(x) == Event(x) /\ asked' = TRUE /\ UNCHANGED <<open, held>>

\* UART_RX_RDY reports bytes that are there and were not reported yet.
Ready(x, b, n) ==
  /\ Event(x) /\ held[b].lent /\ held[b].reported + n <= held[b].stored
  /\ held' = [held EXCEPT ![b].reported = @ + n]
  /\ UNCHANGED <<open, asked>>

StoppedEvent(x, b) ==
  /\ Event(x) /\ held[b].lent
  /\ held' = [held EXCEPT ![b].stopped = TRUE]
  /\ UNCHANGED <<open, asked>>

\* A buffer comes back once, after all its bytes were reported; or, when their
\* number is not known, after UART_RX_STOPPED.
Release(x, b) ==
  /\ Event(x) /\ held[b].lent
  /\ held[b].reported = held[b].stored \/ (held[b].unknown /\ held[b].stopped)
  /\ held' = [held EXCEPT ![b] = Mine]
  /\ UNCHANGED <<open, asked>>

\* UART_RX_DISABLED is the last event, after every buffer is back.
Disabled(x) == Event(x) /\ LentOut = {} /\ ~asked /\ open' = FALSE /\ UNCHANGED <<asked, held>>

Return == inside' = {} /\ UNCHANGED <<open, callback, asked, held>>

Next ==
  \/ \E cb \in Callbacks \cup {"null"} : SetCallback(cb)
  \/ \E b \in Blocks : Enable(b) \/ Answer(b) \/ Store(b) \/ CountLost(b)
  \/ Lapse \/ Return
  \/ \E x \in Contexts :
       \/ Request(x) \/ Disabled(x)
       \/ \E b \in Blocks :
            StoppedEvent(x, b) \/ Release(x, b) \/ \E n \in 1 .. b.len : Ready(x, b, n)

Spec == Init /\ [][Next]_vars
=============================================================================
