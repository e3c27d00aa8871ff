------------------------------- MODULE UartIrq -------------------------------
(***************************************************************************)
(* The interrupt-driven USART API (drivers/serial/uart_wch_usart.c) with   *)
(* the flight recorder enabled, under the echo application of              *)
(* tests/drivers/uart_irq: a callback that runs in the interrupt handler   *)
(* and a thread that switches the interrupts on.                           *)
(*                                                                         *)
(* The thread's read-modify-write of the control registers, and the status *)
(* and data accesses of the handler, are steps of their own: the handler   *)
(* may run between the former, the wire moves on between all of them.      *)
(***************************************************************************)
EXTENDS IrqTrace, SequencesExt

CONSTANTS MaxBytes,   \* bound: bytes that arrive on the line
          MaxErrors,  \* bound: of them, bytes with a framing error
          QueueSize,  \* capacity of the application's queue
          Banner,     \* bytes queued before the interrupts are enabled
          MaxClock    \* bound: ticks of the timer

ASSUME IrqConstants ==
  /\ MaxBytes \in Nat /\ MaxErrors \in Nat /\ MaxClock \in Nat
  /\ QueueSize \in Nat \ {0} /\ Banner \in 0..QueueSize

VARIABLES regs,   \* STATR, the enables of CTLR1..3, DATAR's two halves, the shifter
          isr,    \* the handler: its place and the status word it read
          main,   \* the thread: its place and the control registers it read
          app,    \* the application's queue and diagnostics
          trace,  \* the port's record
          line,   \* ghosts: the bytes that arrived, were lost, were sent
          clock,  \* the time, not wrapped
          hist    \* ghosts: when the handler was entered, the events of the log

vars == <<regs, isr, main, app, trace, line, clock, hist>>

Tick == clock % Period

Init ==
  /\ regs = [st |-> {"TXE", "TC"}, ie |-> {}, seen |-> {}, rdr |-> 0, tdr |-> 0, shift |-> 0]
  /\ isr = [pc |-> "off", status |-> {}]
  /\ main = [n |-> 1, loaded |-> FALSE, saved |-> {}]
  /\ app = [q |-> [i \in 1..Banner |-> -i], errors |-> {}, overflow |-> 0, failed |-> FALSE]
  /\ trace = ZeroTrace
  /\ line = [in |-> 0, bad |-> 0, lost |-> 0, cleared |-> {}, out |-> <<>>,
             read |-> [i \in 1..Banner |-> -i]]
  /\ clock = 0
  /\ hist = [entry |-> 0, log |-> <<>>]

(***************************************************************************)
(* The driver's operations on the registers.                               *)
(***************************************************************************)

\* Reading STATR is the first half of the sequence that clears the error flags.
ReadStatus == [regs EXCEPT !.seen = regs.st \cap Errors]

\* Reading DATAR afterwards is the second.
ReadData == [regs EXCEPT !.st = @ \ (regs.seen \cup {"RXNE"}), !.seen = {}]

\* The enables, by register: CTLR1 holds all but two of them.
CTLR1 == {"TXE", "TC", "RXNE", "PE"}
CTLR2 == {"LBD"}
CTLR3 == {"E"}

usart_wch_irq_tx_enable(ie) == ie \cup {"TXE", "TC"}
usart_wch_irq_tx_disable(ie) == ie \ {"TXE", "TC"}
usart_wch_irq_tx_ready == "TXE" \in regs.st /\ "TXE" \in regs.ie
usart_wch_irq_rx_enable(ie) == ie \cup {"RXNE"}
usart_wch_irq_rx_disable(ie) == ie \ {"RXNE"}
usart_wch_irq_rx_ready == "RXNE" \in regs.st
usart_wch_irq_err_enable(ie, reg) == ie \cup (reg \cap {"PE", "LBD", "E"})
usart_wch_irq_err_disable(ie) == ie \ {"PE", "LBD", "E"}

\* The flags each enable lets through; the interrupt line is their sum.
Mask(enable) ==
  CASE enable = "RXNE" -> {"RXNE", "ORE"}
    [] enable = "E" -> {"NE", "ORE", "FE"}
    [] OTHER -> {enable}

usart_wch_irq_is_pending == regs.st \cap UNION {Mask(x) : x \in regs.ie} # {}

(***************************************************************************)
(* The thread: rx_enable, err_enable (three registers), tx_enable, each a  *)
(* load and a store of a control register.                                 *)
(***************************************************************************)

\* Mutation: the error interrupts are enabled after the transmit interrupt.
Steps_ErrorsLast == <<"rx", "tx", "pe", "lbd", "e">>

Steps == <<"rx", "pe", "lbd", "e", "tx">>
Register == [rx |-> CTLR1, pe |-> CTLR1, lbd |-> CTLR2, e |-> CTLR3, tx |-> CTLR1]

Enabled(op, ie) ==
  CASE op = "rx" -> usart_wch_irq_rx_enable(ie)
    [] op = "tx" -> usart_wch_irq_tx_enable(ie)
    [] OTHER -> usart_wch_irq_err_enable(ie, Register[op])

MainLoad ==
  /\ isr.pc = "off" /\ main.n <= Len(Steps) /\ ~main.loaded
  /\ main' = [main EXCEPT !.loaded = TRUE, !.saved = regs.ie \cap Register[Steps[main.n]]]
  /\ UNCHANGED <<regs, isr, app, trace, line, clock, hist>>

MainStore ==
  LET op == Steps[main.n] IN
  /\ isr.pc = "off" /\ main.loaded
  /\ regs' = [regs EXCEPT !.ie = (@ \ Register[op]) \cup Enabled(op, main.saved)]
  /\ main' = [n |-> main.n + 1, loaded |-> FALSE, saved |-> {}]
  /\ UNCHANGED <<isr, app, trace, line, clock, hist>>

Main == MainLoad \/ MainStore

(***************************************************************************)
(* The handler: usart_wch_isr and the application's callback.              *)
(***************************************************************************)

Goto(pc) == isr' = [isr EXCEPT !.pc = pc]

IsrEnter ==
  /\ isr.pc = "off" /\ usart_wch_irq_is_pending
  /\ trace' = wch_trace_enter(trace, Tick)
  /\ hist' = [hist EXCEPT !.entry = clock]
  /\ Goto("check")
  /\ UNCHANGED <<regs, main, app, line, clock>>

\* The application gives up: every interrupt off.
fail(r) ==
  [r EXCEPT !.ie =
     usart_wch_irq_err_disable(usart_wch_irq_tx_disable(usart_wch_irq_rx_disable(@)))]

\* Ghost: the log as it should be: nothing after the first error.
Logged(kind, status, timed) ==
  LET frozen == \E i \in DOMAIN hist.log : hist.log[i].kind \in {3, 4} IN
  IF frozen THEN hist
  ELSE [hist EXCEPT !.log = Append(@,
          [kind |-> kind, status |-> status, tick |-> Tick, irq |-> trace'.irq_count,
           rx |-> trace'.rx_bytes, tx |-> trace'.tx_bytes,
           duration |-> IF timed THEN clock - hist.entry ELSE Unknown,
           detail |-> trace'.max_rx_service_ticks])]

Timed == trace.entry_tick # Unknown

usart_wch_err_check ==
  LET errors == regs.st \cap Errors IN
  /\ isr.pc = "check"
  /\ trace' = wch_trace_status(trace, regs.st, 3, Tick)
  /\ hist' = IF errors = {} THEN hist ELSE Logged(3, regs.st, Timed)
  /\ app' = [app EXCEPT !.errors = @ \cup errors, !.failed = @ \/ errors # {}]
  /\ regs' = IF errors = {} THEN ReadStatus ELSE fail(ReadStatus)
  /\ Goto(IF errors = {} THEN "rx" ELSE "exit")
  /\ UNCHANGED <<main, line, clock>>

RxReady ==
  /\ isr.pc = "rx"
  /\ regs' = ReadStatus
  /\ Goto(IF usart_wch_irq_rx_ready THEN "status" ELSE "tx")
  /\ UNCHANGED <<main, app, trace, line, clock, hist>>

\* fifo_read up to DATAR; without a byte, the application's loop ends.
FifoReadStatus ==
  LET errors == regs.st \cap Errors
      empty == "RXNE" \notin regs.st
  IN
  /\ isr.pc = "status"
  /\ regs' = [ReadStatus EXCEPT !.ie =
                IF empty /\ app.q # <<>> THEN usart_wch_irq_tx_enable(@) ELSE @]
  /\ trace' = IF empty THEN wch_trace_status(trace, regs.st, 4, Tick) ELSE trace
  /\ hist' = IF empty /\ errors # {} THEN Logged(4, regs.st, Timed) ELSE hist
  /\ isr' = [pc |-> IF empty THEN "tx" ELSE "data", status |-> regs.st]
  /\ UNCHANGED <<main, app, line, clock>>

\* fifo_read from DATAR on; a full queue makes the application give up.
FifoReadData ==
  LET full == Len(app.q) = QueueSize IN
  /\ isr.pc = "data"
  /\ trace' = TraceRead(trace, isr.status, Tick)
  /\ hist' = IF isr.status \cap Errors # {} THEN Logged(4, isr.status, Timed) ELSE hist
  /\ line' = [line EXCEPT !.cleared = @ \cup regs.seen,
                          !.read = IF full THEN @ ELSE Append(@, regs.rdr)]
  /\ regs' = IF full THEN fail(ReadData) ELSE ReadData
  /\ app' = IF full THEN [app EXCEPT !.failed = TRUE, !.overflow = @ + 1]
            ELSE [app EXCEPT !.q = Append(@, regs.rdr)]
  /\ Goto(IF full THEN "exit" ELSE "status")
  /\ UNCHANGED <<main, clock>>

TxReady ==
  /\ isr.pc = "tx"
  /\ regs' = ReadStatus
  /\ Goto(IF usart_wch_irq_tx_ready THEN "fill" ELSE "exit")
  /\ UNCHANGED <<main, app, trace, line, clock, hist>>

\* Mutation: no look at TXE.
fifo_fill_NoTxe ==
  /\ isr.pc = "fill" /\ app.q # <<>>
  /\ regs' = [regs EXCEPT !.tdr = Head(app.q), !.st = @ \ {"TXE", "TC"}]
  /\ app' = [app EXCEPT !.q = Tail(@)]
  /\ trace' = [trace EXCEPT !.tx_bytes = @ + 1]
  /\ UNCHANGED <<isr, main, line, clock, hist>>

\* A byte goes to DATAR; the status read before it and this write clear TC.
usart_wch_fifo_fill ==
  /\ isr.pc = "fill" /\ app.q # <<>> /\ "TXE" \in regs.st
  /\ regs' = [ReadStatus EXCEPT !.tdr = Head(app.q), !.st = @ \ {"TXE", "TC"}]
  /\ app' = [app EXCEPT !.q = Tail(@)]
  /\ trace' = [trace EXCEPT !.tx_bytes = @ + 1]
  /\ UNCHANGED <<isr, main, line, clock, hist>>

FillEnds ==
  /\ isr.pc = "fill" /\ (app.q = <<>> \/ "TXE" \notin regs.st)
  /\ regs' = IF app.q # <<>> THEN ReadStatus
             ELSE [regs EXCEPT !.ie = usart_wch_irq_tx_disable(@)]
  /\ Goto("exit")
  /\ UNCHANGED <<main, app, trace, line, clock, hist>>

IsrExit ==
  /\ isr.pc = "exit"
  /\ trace' = wch_trace_exit(trace, Tick)
  /\ hist' = LET slow == clock - hist.entry >= SlowTicks IN
             IF Timed /\ (slow \/ SampleInterval > 1)
             THEN Logged(IF slow THEN 2 ELSE 1, trace.last_status, TRUE) ELSE hist
  /\ isr' = [pc |-> "off", status |-> {}]
  /\ UNCHANGED <<regs, main, app, line, clock>>

usart_wch_isr ==
  \/ IsrEnter \/ usart_wch_err_check \/ RxReady \/ FifoReadStatus \/ FifoReadData
  \/ TxReady \/ usart_wch_fifo_fill \/ FillEnds \/ IsrExit

(***************************************************************************)
(* The wire and the timer (the chip, not the code).                        *)
(***************************************************************************)

\* A byte that finds RXNE set is lost and raises ORE.
RxByte(bad) ==
  /\ line.in < MaxBytes /\ (bad => line.bad < MaxErrors)
  /\ line' = [line EXCEPT !.in = @ + 1, !.bad = IF bad THEN @ + 1 ELSE @,
                          !.lost = IF "RXNE" \in regs.st THEN @ + 1 ELSE @]
  /\ regs' = IF "RXNE" \in regs.st THEN [regs EXCEPT !.st = @ \cup {"ORE"}]
             ELSE [regs EXCEPT !.rdr = line.in + 1,
                               !.st = @ \cup {"RXNE"} \cup (IF bad THEN {"FE"} ELSE {})]
  /\ UNCHANGED <<isr, main, app, trace, clock, hist>>

\* DATAR moves to the shifter; the shifter's byte is on the wire.
TxLoads ==
  /\ regs.tdr # 0 /\ regs.shift = 0
  /\ regs' = [regs EXCEPT !.shift = regs.tdr, !.tdr = 0, !.st = @ \cup {"TXE"}]
  /\ UNCHANGED <<isr, main, app, trace, line, clock, hist>>

TxShifts ==
  /\ regs.shift # 0
  /\ regs' = [regs EXCEPT !.shift = 0, !.st = IF regs.tdr = 0 THEN @ \cup {"TC"} ELSE @]
  /\ line' = [line EXCEPT !.out = Append(@, regs.shift)]
  /\ UNCHANGED <<isr, main, app, trace, clock, hist>>

\* A timed callback is shorter than one turn of the counter.
Passes ==
  /\ clock < MaxClock
  /\ (isr.pc # "off" /\ Timed) => clock + 1 - hist.entry < Period
  /\ clock' = clock + 1
  /\ UNCHANGED <<regs, isr, main, app, trace, line, hist>>

Wire == TxLoads \/ TxShifts

Next == Main \/ usart_wch_isr \/ Wire \/ Passes \/ \E bad \in BOOLEAN : RxByte(bad)

Spec == Init /\ [][Next]_vars

\* The handler runs while the line is up, the thread when it is not, and the
\* transmitter shifts at its own pace.
FairSpec == Spec /\ WF_vars(usart_wch_isr) /\ WF_vars(Main) /\ WF_vars(Wire)

(***************************************************************************)
(* Properties.                                                             *)
(***************************************************************************)

\* Whenever fifo_read's STATR-then-DATAR sequence clears an error flag, that
\* flag is in the port's record: the log is written after DATAR, from the
\* status that preceded it, and no flag that comes up in between is cleared.
ErrorsAreTraced == line.cleared \subseteq trace.api_error_or \cup trace.fifo_error_or

Present(b) == IF b = 0 THEN <<>> ELSE <<b>>

\* The bytes sent, in the shifter, in DATAR and in the queue are those read,
\* in order: no byte is overwritten in DATAR or sent twice.  And every byte
\* that arrived was read, waits, was overrun, or was dropped by a full queue.
EchoIsFaithful ==
  /\ line.out \o Present(regs.shift) \o Present(regs.tdr) \o app.q = line.read
  /\ line.in = Len(line.read) - Banner + line.lost + app.overflow
               + (IF "RXNE" \in regs.st THEN 1 ELSE 0)

\* A queued byte is eventually handed to the transmitter, unless the
\* application gave up: no interleaving of the thread's enables with the
\* callback's leaves the transmit interrupt off while the queue holds a byte.
EchoCompletes == (app.q # <<>>) ~> (app.q = <<>> \/ app.failed)

\* The ring holds the latest events up to and including the first error, in
\* order, each with the time that really elapsed since the handler was
\* entered, the counter's wrap included.
RingIsHistory ==
  LET n == Len(hist.log) IN
  /\ trace.events_written = n
  /\ \A i \in 1..n : i > n - Entries => trace.events[(i - 1) % Entries] = hist.log[i]

\* The application's comment: it does not hide loss.  Outside the handler, a
\* byte overrun whose flag is gone has made the application fail.
LossIsNotHidden ==
  (isr.pc = "off" /\ line.lost > 0 /\ "ORE" \notin regs.st) => app.failed
=============================================================================
