------------------------------- MODULE UartTx -------------------------------
(***************************************************************************)
(* Asynchronous UART transmission over DMA                                 *)
(* (src/drivers/serial/uart_wch_tx_impl.h): the driver's transfer record,  *)
(* the DMA channel it owns (module DmaChannel), the transmitter of the     *)
(* USART, the deadline worker on the system workqueue, and the             *)
(* notifications on their way to the application.                          *)
(*                                                                         *)
(* Every entry point holds the port's spinlock, which on this single core  *)
(* locks interrupts, so its locked part is one action.  The notification   *)
(* it prepares is delivered after the unlock: a separate action, with      *)
(* other contexts free to run in between.  Interrupt handlers are not      *)
(* preempted by threads, so their notification goes out before any thread  *)
(* moves.                                                                  *)
(*                                                                         *)
(* Ticks are counted down: `deadline' and `timer' are the ticks that are   *)
(* left, the same difference the code forms from absolute times.           *)
(***************************************************************************)
EXTENDS DmaChannel

CONSTANTS Threads,        \* application threads
          Buffers,        \* addresses of the application's transmit buffers
          MaxLength,      \* bound: bytes in a transfer
          MaxTicks,       \* bound: ticks of a finite timeout
          Callbacks,      \* application callbacks
          Faults          \* provider failures: "config", "start", "sched", "status"

ASSUME TxConstants ==
  /\ Buffers \subseteq Nat \ {0}
  /\ MaxLength \in 1 .. MaxBlock
  /\ MaxTicks \in Nat \ {0}
  /\ Faults \subseteq {"config", "start", "sched", "status"}
  /\ "null" \notin Callbacks
  /\ Threads \cap {"uart_isr", "dma_isr", "worker", "transfer"} = {}

VARIABLES tx,             \* struct wch_uart_tx: phase, callback, buffer, length,
                          \* deadline, needs_tc
          dma,            \* the reserved channel (DmaChannel!Channel)
          flags,          \* its interrupt flags
          pending,        \* its interrupt is pending in the PFIC
          dmat, tcie,     \* CTLR3.DMAT and CTLR1.TCIE
          tc,             \* STATR.TC
          datar, shift,   \* owner of the byte in DATAR and in the shifter
          work,           \* the delayable work item
          note,           \* notifications between unlock and callback
          loan            \* history: what the application has lent and what
                          \* became of it

hw == <<dma, flags, pending, dmat, tcie, tc, datar, shift>>
vars == <<tx, hw, work, note, loan>>

Null    == 0              \* no buffer, no byte
Polled  == -1             \* a byte written by poll_out()
Off     == -1             \* no deadline, no timer
Isrs     == {"uart_isr", "dma_isr"}
Contexts == Threads \cup Isrs \cup {"worker"}

NoNote == [type |-> "none", cb |-> "null", buffer |-> Null, length |-> 0]
NoLoan == [length |-> 0, cb |-> "null", fed |-> 0, sent |-> 0, left |-> Off]

IsrQuiet == \A x \in Isrs : note[x] = NoNote

\* A context can run: it is not about to deliver a notification, and only the
\* interrupt handlers run before an interrupt handler is done.
CanRun(x) == note[x] = NoNote /\ IsrQuiet

TXE == datar = Null                                       \* STATR.TXE
Drained == datar = Null /\ shift = Null
Feeding == dmat /\ CanMove(dma)

-----------------------------------------------------------------------------
\* The dma_config() argument usart_wch_tx() builds: memory to DATAR, bytes,
\* one block, no half-completion callback.
TxRequest(b, n) ==
  [ByteRequest EXCEPT !.size = n, !.src = b, !.srcInc = TRUE, !.dir = "M2P"]

\* The port after usart_wch_init(): transmitter idle with TC and TXE set, both
\* DMA channels reserved.
Init ==
  /\ tx = [phase |-> "IDLE", callback |-> "null", buffer |-> Null, length |-> 0,
           deadline |-> Off, needs_tc |-> FALSE]
  /\ dma = ResetChannel /\ flags = {} /\ pending = FALSE
  /\ dmat = FALSE /\ tcie = FALSE /\ tc = TRUE
  /\ datar = Null /\ shift = Null
  /\ work = [timer |-> Off, queued |-> FALSE, running |-> FALSE]
  /\ note = [x \in Contexts |-> NoNote]
  /\ loan = [b \in Buffers |-> NoLoan]

\* k_work_reschedule() (external): moves the timer; an invocation that is
\* already queued or running stays.
Reschedule(ticks) == [work EXCEPT !.timer = ticks]

-----------------------------------------------------------------------------
\* usart_wch_tx_finish_locked() in pieces.  `ok' is the outcome of
\* dma_get_status() on the stopped channel c.
Known(type, ok, c) == type = "ABORTED" /\ ok /\ PendingLength(c) <= tx.length

\* Mutation: the bytes left are reported instead of those handed over.
HandedOver_CountsPending(type, ok, c) ==
  IF type = "DONE" THEN tx.length ELSE PendingLength(c)

\* The count reported; if the channel's is unknown, all or nothing.
HandedOver(type, ok, c) ==
  IF type = "DONE" THEN tx.length
  ELSE IF Known(type, ok, c) THEN tx.length - PendingLength(c)
  ELSE IF tx.phase = "WAIT_TC" THEN tx.length ELSE 0

\* Mutation: TC is awaited although no byte was handed over.
NeedsTc_Always(type, ok, c) == type # "DONE" /\ ~tc

\* A tail may be in the transmitter: transfers wait for TC.
NeedsTc(type, ok, c) ==
  /\ type # "DONE"
  /\ ~(Known(type, ok, c) /\ HandedOver(type, ok, c) = 0)
  /\ ~tc

Ended == [tx EXCEPT !.phase = "IDLE", !.buffer = Null, !.length = 0, !.deadline = Off]

\* usart_wch_tx_finish_locked(), called in context x: gate requests, stop the
\* channel, account for progress, prepare the notification, go idle.
Finish(x, type, ok, c) ==
  LET stopped == Stopped(c)
  IN /\ dmat' = FALSE
     /\ tcie' = FALSE
     /\ dma' = stopped
     /\ flags' = {}
     /\ note' = [note EXCEPT ![x] = [type |-> type, cb |-> tx.callback,
                                     buffer |-> tx.buffer,
                                     length |-> HandedOver(type, ok, stopped)]]
     /\ tx' = [Ended EXCEPT !.needs_tc = NeedsTc(type, ok, stopped)]

StatusOutcomes == {TRUE} \cup (IF "status" \in Faults THEN {FALSE} ELSE {})

\* usart_wch_tx_notify(): the application's callback is called; the buffer is
\* the application's again.
usart_wch_tx_notify(x) ==
  /\ note[x] # NoNote
  /\ x \in Isrs \/ IsrQuiet
  /\ note' = [note EXCEPT ![x] = NoNote]
  /\ loan' = [loan EXCEPT ![note[x].buffer] = NoLoan]
  /\ UNCHANGED <<tx, hw, work>>

-----------------------------------------------------------------------------
(* The application's calls.                                                *)

usart_wch_async_callback_set(x, cb) ==
  /\ CanRun(x)
  /\ tx.phase = "IDLE"
  /\ tx' = [tx EXCEPT !.callback = cb]
  /\ UNCHANGED <<hw, work, note, loan>>

\* Mutation: the tail of an aborted transfer is not waited for.
Accepts_IgnoresTail == tx.phase = "IDLE" /\ tx.callback # "null"

\* The port takes a new transfer: nothing in progress, no tail of an aborted
\* transfer or polled byte still in the transmitter, and a callback to tell.
Accepts ==
  /\ tx.phase = "IDLE"
  /\ ~(tx.needs_tc /\ ~tc)
  /\ tx.callback # "null"

\* Mutation: the deadline is one tick late.
Submitted_Late(b, n, timeout) ==
  [tx EXCEPT !.phase = "DMA", !.buffer = b, !.length = n,
             !.deadline = timeout + 1, !.needs_tc = FALSE]

Submitted(b, n, timeout) ==
  [tx EXCEPT !.phase = "DMA", !.buffer = b, !.length = n,
             !.deadline = timeout, !.needs_tc = FALSE]

\* usart_wch_tx(), all set-up steps succeeding.  The application does not
\* lend a buffer twice.
usart_wch_tx(x, b, n, timeout) ==
  /\ CanRun(x)
  /\ loan[b] = NoLoan
  /\ Accepts
  /\ ConfigResult(dma, TxRequest(b, n)) = "OK"
  /\ LET c == Configured(dma, TxRequest(b, n))
     IN StartResult(c) = "STARTED" /\ dma' = Started(c)
  /\ flags' = {}
  /\ tx' = Submitted(b, n, timeout)
  /\ work' = IF timeout = Off THEN work ELSE Reschedule(timeout)
  /\ tcie' = FALSE
  /\ tc' = FALSE
  /\ dmat' = TRUE
  /\ loan' = [loan EXCEPT ![b] = [NoLoan EXCEPT !.length = n, !.cb = tx.callback,
                                                   !.left = timeout]]
  /\ UNCHANGED <<pending, datar, shift, note>>

\* Mutation: the deadline of a transfer that was refused stays.
Refused_KeepsDeadline(fault, timeout) ==
  IF fault = "sched" THEN [tx EXCEPT !.deadline = timeout] ELSE tx

\* The deadline is set before the worker is scheduled and taken back.
Refused(fault, timeout) ==
  IF fault = "sched" THEN [tx EXCEPT !.deadline = Off] ELSE tx

\* usart_wch_tx() with a set-up step failing: dma_config(), dma_start() or, for
\* a finite timeout, k_work_reschedule().  The call returns the error.
usart_wch_tx_fails(x, b, n, timeout, fault) ==
  /\ CanRun(x)
  /\ Accepts
  /\ fault = "sched" => timeout # Off
  /\ dmat' = FALSE
  /\ tcie' = FALSE
  /\ IF fault = "config"
       THEN UNCHANGED <<dma, flags>>
       ELSE /\ dma' = Stopped(Configured(dma, TxRequest(b, n)))
            /\ flags' = {}
  /\ tx' = Refused(fault, timeout)
  /\ UNCHANGED <<pending, tc, datar, shift, work, note, loan>>

usart_wch_tx_abort(x) ==
  /\ CanRun(x)
  /\ tx.phase # "IDLE"
  /\ \E ok \in StatusOutcomes : Finish(x, "ABORTED", ok, dma)
  /\ UNCHANGED <<pending, tc, datar, shift, work, loan>>

\* usart_wch_tx_poll_out(): the iteration of the waiting loop that succeeds.
\* Reading STATR and then writing DATAR clears TC.
usart_wch_tx_poll_out(x) ==
  /\ CanRun(x)
  /\ tx.phase = "IDLE"
  /\ TXE
  /\ datar' = Polled
  /\ tc' = FALSE
  /\ tx' = [tx EXCEPT !.needs_tc = TRUE]
  /\ UNCHANGED <<dma, flags, pending, dmat, tcie, shift, work, note, loan>>

-----------------------------------------------------------------------------
(* Interrupts.                                                             *)

\* Mutation: the transfer is done when DMA is.
BlockFed_IsDone(c) == Finish("dma_isr", "DONE", TRUE, c)

\* Mutation: the completion interrupt is not enabled.
BlockFed_NoTcie(c) ==
  /\ dma' = c
  /\ dmat' = FALSE
  /\ tx' = [tx EXCEPT !.phase = "WAIT_TC"]
  /\ UNCHANGED <<tcie, note>>

\* DMA has fed the whole block: done if TC is there already, else wait for it.
BlockFed(c) ==
  \/ tc /\ Finish("dma_isr", "DONE", TRUE, c)
  \/ /\ ~tc
     /\ dma' = c
     /\ dmat' = FALSE
     /\ tcie' = TRUE
     /\ tx' = [tx EXCEPT !.phase = "WAIT_TC"]
     /\ UNCHANGED note

\* usart_wch_tx_dma_callback(), called by the DMA handler with status s on the
\* channel c the handler leaves.
usart_wch_tx_dma_callback(s, c) ==
  \/ /\ tx.phase # "DMA" \/ s \notin {"EIO", "COMPLETE"}
     /\ dma' = c
     /\ UNCHANGED <<tx, dmat, tcie, note>>
  \/ /\ tx.phase = "DMA" /\ s = "EIO"
     /\ \E ok \in StatusOutcomes : Finish("dma_isr", "ABORTED", ok, c)
  \/ tx.phase = "DMA" /\ s = "COMPLETE" /\ BlockFed(c)

\* dma_wch_isr() for this channel.  Its flags were all read: for one block
\* without half-completion interrupts nothing can arrive after TC or TE.
dma_wch_isr ==
  /\ IsrQuiet
  /\ pending
  /\ pending' = FALSE
  /\ flags' = {}
  /\ usart_wch_tx_dma_callback(IsrStatus(dma, flags), IsrChannel(dma, flags))
  /\ UNCHANGED <<tc, datar, shift, work, loan>>

\* usart_wch_isr() with its transmit condition true.
usart_wch_isr ==
  /\ IsrQuiet
  /\ tx.phase = "WAIT_TC" /\ tcie /\ tc
  /\ Finish("uart_isr", "DONE", TRUE, dma)
  /\ UNCHANGED <<pending, tc, datar, shift, work, loan>>

-----------------------------------------------------------------------------
(* The deadline worker and the kernel's clock (external, but for the       *)
(* handler).                                                               *)

Tick ==
  /\ work.timer > 0 \/ tx.deadline > 0 \/ \E b \in Buffers : loan[b].left > 0
  /\ work' = [work EXCEPT !.timer = IF @ > 0 THEN @ - 1 ELSE @]
  /\ tx' = [tx EXCEPT !.deadline = IF @ > 0 THEN @ - 1 ELSE @]
  /\ loan' = [b \in Buffers |->
                [loan[b] EXCEPT !.left = IF @ > 0 THEN @ - 1 ELSE @]]
  /\ UNCHANGED <<hw, note>>

TimerFires ==
  /\ work.timer = 0
  /\ work' = [work EXCEPT !.timer = Off, !.queued = TRUE]
  /\ UNCHANGED <<tx, hw, note, loan>>

WorkerTakes ==
  /\ CanRun("worker")
  /\ work.queued /\ ~work.running
  /\ work' = [work EXCEPT !.queued = FALSE, !.running = TRUE]
  /\ UNCHANGED <<tx, hw, note, loan>>

\* Mutation: a transfer that waits for TC is left alone.
Timed_DmaOnly == tx.phase = "DMA" /\ tx.deadline # Off

Timed == tx.phase # "IDLE" /\ tx.deadline # Off

\* Mutation: every wake-up is taken for the deadline's.
Remaining_Ignored == 0

Remaining == tx.deadline

\* usart_wch_tx_timeout(): a wake-up left over from an earlier transfer finds
\* no deadline, or one that is still ahead.
usart_wch_tx_timeout ==
  /\ CanRun("worker")
  /\ work.running
  /\ \/ /\ ~Timed
        /\ work' = [work EXCEPT !.running = FALSE]
        /\ UNCHANGED <<tx, dma, flags, dmat, tcie, note>>
     \/ /\ Timed /\ Remaining > 0
        /\ work' = [Reschedule(Remaining) EXCEPT !.running = FALSE]
        /\ UNCHANGED <<tx, dma, flags, dmat, tcie, note>>
     \/ /\ Timed /\ Remaining = 0
        /\ work' = [work EXCEPT !.running = FALSE]
        /\ \E ok \in StatusOutcomes : Finish("worker", "ABORTED", ok, dma)
  /\ UNCHANGED <<pending, tc, datar, shift, loan>>

-----------------------------------------------------------------------------
(* The hardware (external).  DMA answers a request for the next byte within *)
(* the time of the byte in the shifter, so TC only rises once nothing is    *)
(* left to feed.                                                            *)

Count(b, field) ==
  IF b > 0 /\ loan[b] # NoLoan THEN [loan EXCEPT ![b][field] = @ + 1] ELSE loan

RaiseFlags(fs) ==
  /\ flags' = flags \cup fs
  /\ pending' = (pending \/ fs \cap dma.ie # {})

FeedByte ==
  /\ Feeding
  /\ TXE
  /\ datar' = dma.maddr
  /\ dma' = Moved(dma)
  /\ RaiseFlags(MoveFlags(dma))
  /\ loan' = Count(dma.maddr, "fed")
  /\ UNCHANGED <<tx, dmat, tcie, tc, shift, work, note>>

LoadShifter ==
  /\ shift = Null /\ datar # Null
  /\ shift' = datar
  /\ datar' = Null
  /\ UNCHANGED <<tx, dma, flags, pending, dmat, tcie, tc, work, note, loan>>

ShiftOut ==
  /\ shift # Null
  /\ datar # Null \/ ~Feeding
  /\ shift' = Null
  /\ tc' = (tc \/ datar = Null)
  /\ loan' = Count(shift, "sent")
  /\ UNCHANGED <<tx, dma, flags, pending, dmat, tcie, datar, work, note>>

EngineError ==
  /\ Feeding
  /\ dma' = Faulted(dma)
  /\ RaiseFlags({"TE"})
  /\ UNCHANGED <<tx, dmat, tcie, tc, datar, shift, work, note, loan>>

-----------------------------------------------------------------------------
Timeouts == {Off} \cup 1 .. MaxTicks

AppCall(x) ==
  \/ \E cb \in Callbacks \cup {"null"} : usart_wch_async_callback_set(x, cb)
  \/ \E b \in Buffers, n \in 1 .. MaxLength, t \in Timeouts :
       \/ usart_wch_tx(x, b, n, t)
       \/ \E f \in Faults \ {"status"} : usart_wch_tx_fails(x, b, n, t, f)
  \/ usart_wch_tx_abort(x)
  \/ usart_wch_tx_poll_out(x)

Worker == TimerFires \/ WorkerTakes \/ usart_wch_tx_timeout
Transmitter == FeedByte \/ LoadShifter \/ ShiftOut

Next ==
  \/ \E x \in Threads : AppCall(x)
  \/ \E x \in Contexts : usart_wch_tx_notify(x)
  \/ dma_wch_isr
  \/ usart_wch_isr
  \/ Tick
  \/ Worker
  \/ Transmitter
  \/ EngineError

Spec == Init /\ [][Next]_vars

\* Everything the kernel and the processor owe the driver: interrupts are taken
\* and their callbacks return, threads and the workqueue get the processor
\* between interrupts, the clock ticks.
Scheduling ==
  /\ \A x \in Contexts : SF_vars(usart_wch_tx_notify(x))
  /\ WF_vars(dma_wch_isr) /\ WF_vars(usart_wch_isr)
  /\ WF_vars(Tick) /\ WF_vars(TimerFires)
  /\ SF_vars(WorkerTakes) /\ SF_vars(usart_wch_tx_timeout)

\* Nothing is asked of DMA and USART, which may stall at any point.
StallingSpec == Spec /\ Scheduling

-----------------------------------------------------------------------------
(* Properties.                                                             *)

Transfer == [phase : {"IDLE", "DMA", "WAIT_TC"}, callback : Callbacks \cup {"null"},
             buffer : Buffers \cup {Null}, length : 0 .. MaxLength,
             deadline : Off .. MaxTicks, needs_tc : BOOLEAN]
WorkItem == [timer : Off .. MaxTicks, queued : BOOLEAN, running : BOOLEAN]
Notification == [type : {"none", "DONE", "ABORTED"}, cb : Callbacks \cup {"null"},
                 buffer : Buffers \cup {Null}, length : 0 .. MaxLength]
Loan == [length : 0 .. MaxLength, cb : Callbacks \cup {"null"}, fed : 0 .. MaxLength,
         sent : 0 .. MaxLength, left : Off .. MaxTicks]

\* Every variable of the transmit path has its type; counters and ticks stay
\* within the transfer and the timeout they are about.
TypeOK ==
  /\ tx \in Transfer /\ dma \in Channel /\ flags \subseteq Flags
  /\ pending \in BOOLEAN /\ dmat \in BOOLEAN /\ tcie \in BOOLEAN /\ tc \in BOOLEAN
  /\ {datar, shift} \subseteq Buffers \cup {Null, Polled}
  /\ work \in WorkItem /\ note \in [Contexts -> Notification] /\ loan \in [Buffers -> Loan]

\* Who holds buffer b: the transfer in progress, or a notification under way.
Holders(b) ==
  {x \in Contexts : note[x].buffer = b}
    \cup (IF tx.buffer = b THEN {"transfer"} ELSE {})

\* The contract's view of buffer b; two holders at once are outside of it.
Abstract(b) ==
  LET holders == Holders(b)
      at == [state |-> "busy", length |-> tx.length, sent |-> loan[b].sent,
             cb |-> tx.callback, type |-> "none", count |-> 0]
      of(n) == [state |-> "ended", length |-> loan[b].length, sent |-> loan[b].sent,
                cb |-> n.cb, type |-> n.type, count |-> n.length]
  IN IF \E x, y \in holders : x # y THEN [at EXCEPT !.state = "two holders"]
     ELSE IF holders = {"transfer"} THEN at
     ELSE IF holders # {} THEN of(note[CHOOSE x \in holders : TRUE])
     ELSE [state |-> "mine", length |-> 0, sent |-> 0, cb |-> "null", type |-> "none",
           count |-> 0]

Contract ==
  INSTANCE TxContract WITH callback <- tx.callback,
                           transfer <- [b \in Buffers |-> Abstract(b)]

\* The driver implements the transmit contract: one transfer at a time; exactly
\* one terminal event per accepted buffer, to the callback registered when it
\* was accepted; UART_TX_DONE only once every byte has left the shifter; and a
\* buffer is the application's again only when its event is delivered.
ImplementsContract == Contract!Spec

\* UART_TX_ABORTED reports the number of bytes DMA handed to the USART.
AbortCountsHandedOver ==
  \A x \in Contexts :
    note[x].type = "ABORTED" => note[x].length = loan[note[x].buffer].fed

\* DMA reads only memory the application has lent: it is over before the
\* buffer's terminal event is even prepared.
EngineReadsOnlyLent ==
  dma.en => /\ dma.maddr = tx.buffer /\ tx.buffer # Null
            /\ loan[tx.buffer] # NoLoan

\* During a transfer the transmitter holds bytes of that transfer only: no
\* polled byte in the middle of a buffer, no tail of an earlier buffer.
TransferOwnsTransmitter ==
  tx.phase # "IDLE" => {datar, shift} \subseteq {Null, tx.buffer}

\* An idle port is gated: no DMA request, no completion interrupt, the channel
\* off, no deadline.  This holds after every kind of failed set-up too.
IdleIsGated ==
  tx.phase = "IDLE" => ~dmat /\ ~tcie /\ ~dma.en /\ tx.deadline = Off

\* The port does not lock itself out: while it refuses transfers for want of
\* TC, a byte is in the transmitter and TC will come.
RefusalIsTemporary == tx.needs_tc /\ ~tc => ~Drained

\* A wake-up of the worker, however late or left over from an earlier
\* transfer, never aborts a transfer before the timeout the application gave.
NeverAbortedEarly ==
  note["worker"] # NoNote => loan[note["worker"].buffer].left = 0

\* A transfer with a timeout ends and its owner is told, even if DMA and USART
\* stall.
DeadlineHonoured ==
  \A b \in Buffers :
    (loan[b] # NoLoan /\ loan[b].left # Off) ~> (loan[b] = NoLoan)

\* DMA and USART keep going unless a bus error stops them.
HardwareWorks == WF_vars(FeedByte) /\ WF_vars(LoadShifter) /\ WF_vars(ShiftOut)

\* With working hardware every accepted transfer ends and its owner is told,
\* whether it has a timeout or not.
OwnerIsTold == HardwareWorks => \A b \in Buffers : (loan[b] # NoLoan) ~> (loan[b] = NoLoan)
=============================================================================
