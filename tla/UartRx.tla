------------------------------- MODULE UartRx -------------------------------
(***************************************************************************)
(* Asynchronous UART reception over DMA                                    *)
(* (src/drivers/serial/uart_wch_rx_impl.h): the session record with its    *)
(* current and next buffer, the queue of notes to the application and the  *)
(* one dispatcher that drains it, the DMA channel (module DmaChannel), the *)
(* receiver of the USART, and the buffers the application lends.           *)
(*                                                                         *)
(* Every entry point is one action for its locked part (single core, the   *)
(* lock excludes interrupts) and then calls the dispatcher.  The           *)
(* dispatcher releases the lock around each callback, so any other context *)
(* may run there; a callback may itself call any entry point, and then     *)
(* finds the dispatcher already running.                                   *)
(***************************************************************************)
EXTENDS DmaChannel, Sequences

CONSTANTS Threads,        \* application threads
          Blocks,         \* receive buffers: [addr, len]
          Callbacks,      \* application callbacks
          Generations,    \* modulus of the generation counter, 2^32 in the driver
          RingSize,       \* ARRAY_SIZE(rx->notes), 12 in the driver
          Faults          \* provider failures: "config", "start", "status"

Null == [addr |-> 0, len |-> 0]

ASSUME RxConstants ==
  /\ Blocks \subseteq [addr : Nat \ {0}, len : 1 .. MaxBlock]
  /\ Generations \in Nat \ {0}
  /\ RingSize \in Nat
  /\ Faults \subseteq {"config", "start", "status"}
  /\ "null" \notin Callbacks
  /\ Threads \cap {"uart_isr", "dma_isr"} = {}

VARIABLES rx,             \* phase, buffer, next, request_open, dispatching, generation
          notes,          \* the queue of notes, oldest first
          callback,       \* data->tx.callback
          dma,            \* the reserved channel (DmaChannel!Channel)
          flags,          \* its interrupt flags
          pending,        \* its interrupt is pending in the PFIC
          dmar,           \* CTLR3.DMAR; EIE and PEIE are set and cleared with it
          rxne,           \* STATR.RXNE: a byte waits in DATAR
          err,            \* error flags of STATR
          pc,             \* where each context is
          loan,           \* history: buffers lent and what arrived in them
          missing         \* history: a byte of the session was dropped

app == <<loan, missing>>
channel == <<dma, flags, pending>>
vars == <<rx, notes, callback, channel, dmar, rxne, err, pc, app>>

Isrs == {"uart_isr", "dma_isr"}
Contexts == Threads \cup Isrs

NoLoan ==
  [lent |-> FALSE, stored |-> 0, reported |-> 0, stopped |-> FALSE, unknown |-> FALSE]

IsrFree == \A x \in Isrs : pc[x] = "idle"

\* Threads run while no interrupt handler does; a handler runs to its end.
OnCpu(x) == x \in Isrs \/ IsrFree

\* Context x may call an entry point: its own code, or the callback it is in.
CanCall(x) ==
  /\ OnCpu(x)
  /\ pc[x] = "callback" \/ (pc[x] = "idle" /\ x \in Threads)

\* After the locked part an entry point calls the dispatcher, which a callback
\* finds running and leaves at once.
ThenDispatch(x) == pc' = [pc EXCEPT ![x] = IF @ = "callback" THEN @ ELSE "dispatch"]

Overlap(a, b) == a.addr < b.addr + b.len /\ b.addr < a.addr + a.len

-----------------------------------------------------------------------------
(* Helpers of the driver.                                                  *)

Note(type, block, len) ==
  [type |-> type, block |-> block, len |-> len, generation |-> rx.generation]

\* usart_wch_rx_ready(): no event for no data.
ReadyNote(block, count) == IF count > 0 THEN <<Note("RDY", block, count)>> ELSE <<>>

ReleaseNote(block) == <<Note("RELEASED", block, 0)>>

\* The notes of usart_wch_rx_finish() for a session with buffers cur and next,
\* `count' bytes received and the reason for stopping, if any.
FinishNotes(cur, next, count, stopped) ==
  (IF stopped THEN <<Note("STOPPED", cur, count)>> ELSE <<>>)
    \o ReadyNote(cur, count)
    \o ReleaseNote(cur)
    \o (IF next # Null THEN ReleaseNote(next) ELSE <<>>)
    \o <<Note("DISABLED", Null, 0)>>

Ended ==
  [rx EXCEPT !.phase = "STOPPING", !.buffer = Null, !.next = Null,
             !.request_open = FALSE]

\* usart_wch_rx_finish(): the session record and the receiver; the caller has
\* gated requests and stopped the channel.  Errors and the byte in DATAR go.
Finish(queue, cur, next, count, stopped) ==
  /\ notes' = queue \o FinishNotes(cur, next, count, stopped)
  /\ rx' = Ended
  /\ dmar' = FALSE
  /\ rxne' = FALSE
  /\ err' = {}
  /\ missing' = (missing /\ ~stopped)

\* usart_wch_rx_count() on the stopped channel c; `ok' is the outcome of
\* dma_get_status().
CountKnown(c, ok) == ok /\ PendingLength(c) <= rx.buffer.len

Received(c, ok) == IF CountKnown(c, ok) THEN rx.buffer.len - PendingLength(c) ELSE 0

\* There is a reason to report: an error on the line, or no trustworthy count.
StopReason(c, ok, line) == line \/ ~CountKnown(c, ok)

\* usart_wch_rx_gate(), usart_wch_rx_count(), usart_wch_rx_finish() in a row.
GateCountFinish(c, ok, line) ==
  LET off == Stopped(c)
  IN /\ dma' = off
     /\ flags' = {}
     /\ Finish(notes, rx.buffer, rx.next, Received(off, ok), StopReason(off, ok, line))
     /\ loan' = [loan EXCEPT ![rx.buffer].unknown = ~CountKnown(off, ok)]

StatusOutcomes == {TRUE} \cup (IF "status" \in Faults THEN {FALSE} ELSE {})

\* Mutation: one byte more than the buffer has.
RxRequest_OneTooMany(b) ==
  [ByteRequest EXCEPT !.size = b.len + 1, !.dst = b.addr, !.dstInc = TRUE, !.dir = "P2M"]

\* The dma_config() argument of usart_wch_rx_start(): DATAR to memory, bytes.
RxRequest(b) ==
  [ByteRequest EXCEPT !.size = b.len, !.dst = b.addr, !.dstInc = TRUE, !.dir = "P2M"]

NextGeneration == (rx.generation + 1) % Generations

\* Mutation: the request is queued before the generation moves on.
RequestNote_Old == Note("REQUEST", Null, 0)

RequestNote == [Note("REQUEST", Null, 0) EXCEPT !.generation = NextGeneration]

\* Mutation: the next buffer is asked for twice.
Start_AsksTwice(c, b, queue) ==
  /\ ConfigResult(c, RxRequest(b)) = "OK"
  /\ dma' = Started(Configured(c, RxRequest(b)))
  /\ flags' = {}
  /\ rx' = [rx EXCEPT !.phase = "ACTIVE", !.buffer = b, !.next = Null,
                      !.request_open = FALSE, !.generation = NextGeneration]
  /\ dmar' = TRUE
  /\ notes' = queue \o <<RequestNote, RequestNote>>

\* usart_wch_rx_start() succeeds on stopped channel c with buffer b, the queue
\* being `queue' so far: a new generation, no open request, a note that asks
\* for the next buffer.
Start(c, b, queue) ==
  /\ ConfigResult(c, RxRequest(b)) = "OK"
  /\ dma' = Started(Configured(c, RxRequest(b)))
  /\ flags' = {}
  /\ rx' = [rx EXCEPT !.phase = "ACTIVE", !.buffer = b, !.next = Null,
                      !.request_open = FALSE, !.generation = NextGeneration]
  /\ dmar' = TRUE
  /\ notes' = Append(queue, RequestNote)

\* usart_wch_rx_start() fails on channel c: what usart_wch_rx_gate() leaves.
StartFailed(c, b, fault) ==
  /\ dma' = IF fault = "config" THEN Stopped(c)
            ELSE Stopped(Configured(c, RxRequest(b)))
  /\ flags' = {}

StartFaults == Faults \ {"status"}

-----------------------------------------------------------------------------
Init ==
  /\ rx = [phase |-> "IDLE", buffer |-> Null, next |-> Null, request_open |-> FALSE,
           dispatching |-> FALSE, generation |-> 0]
  /\ notes = <<>>
  /\ callback = "null"
  /\ dma = ResetChannel /\ flags = {} /\ pending = FALSE
  /\ dmar = FALSE /\ rxne = FALSE /\ err = {}
  /\ pc = [x \in Contexts |-> "idle"]
  /\ loan = [b \in Blocks |-> NoLoan]
  /\ missing = FALSE

Lend(b) == loan' = [loan EXCEPT ![b] = [NoLoan EXCEPT !.lent = TRUE]]

\* The application does not lend memory that it has lent already; whether its
\* answer to a request overlaps the buffer in use is left to the driver.
Lendable(b, except) ==
  \A l \in Blocks \ {except} : loan[l].lent => ~Overlap(b, l)

usart_wch_async_callback_set(x, cb) ==
  /\ CanCall(x)
  /\ rx.phase = "IDLE"
  /\ callback' = cb
  /\ UNCHANGED <<rx, notes, channel, dmar, rxne, err, pc, app>>

\* usart_wch_rx_enable(): gate, discard what is in the receiver, start.
usart_wch_rx_enable(x, b) ==
  /\ CanCall(x)
  /\ Lendable(b, Null)
  /\ rx.phase = "IDLE"
  /\ callback # "null"
  /\ Start(Stopped(dma), b, notes)
  /\ rxne' = FALSE
  /\ err' = {}
  /\ ThenDispatch(x)
  /\ Lend(b)
  /\ missing' = FALSE
  /\ UNCHANGED <<callback, pending>>

\* ... with dma_config() or dma_start() failing: the call returns the error.
usart_wch_rx_enable_fails(x, b, fault) ==
  /\ CanCall(x)
  /\ rx.phase = "IDLE"
  /\ callback # "null"
  /\ StartFailed(Stopped(dma), b, fault)
  /\ dmar' = FALSE
  /\ rxne' = FALSE
  /\ err' = {}
  /\ ThenDispatch(x)
  /\ UNCHANGED <<rx, notes, callback, pending, app>>

\* The overlap test of usart_wch_rx_buf_rsp(), as the code writes it.
Rejected(b, cur) ==
  IF b.addr <= cur.addr THEN cur.addr - b.addr < b.len ELSE b.addr - cur.addr < cur.len

Asked == rx.next = Null /\ rx.request_open

usart_wch_rx_buf_rsp(x, b) ==
  /\ CanCall(x)
  /\ Lendable(b, rx.buffer)
  /\ rx.phase = "ACTIVE"
  /\ Asked
  /\ ~Rejected(b, rx.buffer)
  /\ rx' = [rx EXCEPT !.next = b, !.request_open = FALSE]
  /\ Lend(b)
  /\ UNCHANGED <<notes, callback, channel, dmar, rxne, err, pc, missing>>

usart_wch_rx_disable(x) ==
  /\ CanCall(x)
  /\ rx.phase = "ACTIVE"
  /\ \E ok \in StatusOutcomes : GateCountFinish(dma, ok, err # {})
  /\ ThenDispatch(x)
  /\ UNCHANGED <<callback, pending>>

\* Mutation: polling takes bytes from a DMA session.
poll_in_AnyPhase(x) ==
  /\ CanCall(x)
  /\ rxne
  /\ rxne' = FALSE
  /\ err' = {}
  /\ missing' = (missing \/ rx.phase = "ACTIVE")
  /\ UNCHANGED <<rx, notes, callback, channel, dmar, pc, loan>>

\* usart_wch_poll_in() when a byte is there; reading STATR and then DATAR also
\* clears the error flags.
usart_wch_poll_in(x) ==
  /\ CanCall(x)
  /\ rx.phase = "IDLE"
  /\ rxne
  /\ rxne' = FALSE
  /\ err' = {}
  /\ missing' = (missing \/ rx.phase = "ACTIVE")
  /\ UNCHANGED <<rx, notes, callback, channel, dmar, pc, loan>>

-----------------------------------------------------------------------------
(* The dispatcher.                                                         *)

\* A request for a buffer is dropped when its session is over or has moved on.
Deliverable(n) ==
  n.type = "REQUEST" => rx.phase = "ACTIVE" /\ n.generation = rx.generation

\* The notes up to the first deliverable one are taken off the queue under one
\* lock; then the callback is called without it.
Deliver(x, i) ==
  LET n == notes[i]
  IN /\ Deliverable(n)
     /\ \A j \in 1 .. (i - 1) : ~Deliverable(notes[j])
     /\ notes' = SubSeq(notes, i + 1, Len(notes))
     /\ rx' = [rx EXCEPT !.dispatching = TRUE,
                         !.request_open = @ \/ n.type = "REQUEST",
                         !.phase = IF n.type = "DISABLED" THEN "IDLE" ELSE @]
     /\ pc' = [pc EXCEPT ![x] = "callback"]
     /\ loan' = CASE n.type = "RDY" -> [loan EXCEPT ![n.block].reported = @ + n.len]
                  [] n.type = "STOPPED" -> [loan EXCEPT ![n.block].stopped = TRUE]
                  [] n.type = "RELEASED" -> [loan EXCEPT ![n.block] = NoLoan]
                  [] OTHER -> loan

\* Mutation: the dispatcher stays registered when it leaves.
DispatchDone_StaysRegistered(x) ==
  /\ \A i \in 1 .. Len(notes) : ~Deliverable(notes[i])
  /\ notes' = <<>>
  /\ pc' = [pc EXCEPT ![x] = "idle"]
  /\ UNCHANGED <<rx, loan>>

\* Nothing (more) to deliver: the dispatcher is done.
DispatchDone(x) ==
  /\ \A i \in 1 .. Len(notes) : ~Deliverable(notes[i])
  /\ notes' = <<>>
  /\ rx' = [rx EXCEPT !.dispatching = FALSE]
  /\ pc' = [pc EXCEPT ![x] = "idle"]
  /\ UNCHANGED loan

\* usart_wch_rx_dispatch() enters while another context dispatches.
DispatchLeft(x) ==
  /\ OnCpu(x)
  /\ pc[x] = "dispatch"
  /\ rx.dispatching
  /\ pc' = [pc EXCEPT ![x] = "idle"]
  /\ UNCHANGED <<rx, notes, callback, channel, dmar, rxne, err, app>>

\* usart_wch_rx_dispatch() enters, or comes back from a callback.
MayDispatch(x) ==
  \/ pc[x] = "dispatch" /\ ~rx.dispatching
  \/ pc[x] = "callback"

usart_wch_rx_dispatch(x) ==
  /\ OnCpu(x)
  /\ MayDispatch(x)
  /\ (\E i \in 1 .. Len(notes) : Deliver(x, i)) \/ DispatchDone(x)
  /\ UNCHANGED <<callback, channel, dmar, rxne, err, missing>>

-----------------------------------------------------------------------------
(* Interrupts.                                                             *)

\* Mutation: the hand-over fails before the buffers are exchanged.
HandOverFailed_ReleasesOld(queue) == Finish(queue, rx.buffer, Null, 0, TRUE)

HandOverFailed(queue) == Finish(queue, rx.next, Null, 0, TRUE)

\* usart_wch_rx_dma_callback() with status s, on the channel c the DMA handler
\* leaves: stop on an error, finish when no buffer follows, else hand over.
usart_wch_rx_dma_callback(s, c) ==
  \/ /\ err # {} \/ s = "EIO"
     /\ \E ok \in StatusOutcomes : GateCountFinish(c, ok, TRUE)
  \/ /\ err = {} /\ s = "COMPLETE" /\ rx.next = Null
     /\ dma' = Stopped(c)
     /\ flags' = {}
     /\ Finish(notes, rx.buffer, Null, rx.buffer.len, FALSE)
     /\ UNCHANGED loan
  \/ /\ err = {} /\ s = "COMPLETE" /\ rx.next # Null
     /\ UNCHANGED loan
     /\ LET done == notes \o ReadyNote(rx.buffer, rx.buffer.len)
                          \o ReleaseNote(rx.buffer)
        IN \/ /\ Start(Stopped(c), rx.next, done)
              /\ UNCHANGED <<rxne, err, missing>>
           \/ \E fault \in StartFaults :
                /\ StartFailed(Stopped(c), rx.next, fault)
                /\ HandOverFailed(done)

\* dma_wch_isr() for this channel, its callback's locked part included.
dma_wch_isr ==
  /\ IsrFree
  /\ pending
  /\ pending' = FALSE
  /\ LET s == IsrStatus(dma, flags)
         c == IsrChannel(dma, flags)
     IN IF s \in {"EIO", "COMPLETE"} /\ rx.phase = "ACTIVE"
          THEN /\ usart_wch_rx_dma_callback(s, c)
               /\ pc' = [pc EXCEPT !["dma_isr"] = "dispatch"]
          ELSE /\ dma' = c
               /\ flags' = {}
               /\ pc' = [pc EXCEPT !["dma_isr"] = IF s = "none" THEN "idle" ELSE "dispatch"]
               /\ UNCHANGED <<rx, notes, dmar, rxne, err, missing, loan>>
  /\ UNCHANGED callback

\* usart_wch_isr() on a receive error.
usart_wch_isr_error ==
  /\ IsrFree
  /\ rx.phase = "ACTIVE" /\ err # {}
  /\ \E ok \in StatusOutcomes : GateCountFinish(dma, ok, TRUE)
  /\ pc' = [pc EXCEPT !["uart_isr"] = "dispatch"]
  /\ UNCHANGED <<callback, pending>>

\* usart_wch_isr() for the transmitter: it calls the dispatcher as well.
usart_wch_isr_tx ==
  /\ IsrFree
  /\ ~(rx.phase = "ACTIVE" /\ err # {})
  /\ pc' = [pc EXCEPT !["uart_isr"] = "dispatch"]
  /\ UNCHANGED <<rx, notes, callback, channel, dmar, rxne, err, app>>

-----------------------------------------------------------------------------
(* The hardware (external).                                                *)

\* A frame arrives.  If DATAR is still full it is lost and ORE says so.
ByteArrives ==
  /\ IF rxne
       THEN /\ err' = err \cup {"ORE"}
            /\ missing' = (missing \/ rx.phase = "ACTIVE")
            /\ UNCHANGED rxne
       ELSE /\ rxne' = TRUE
            /\ \E e \in {{}, {"LINE"}} : err' = err \cup e
            /\ UNCHANGED missing
  /\ UNCHANGED <<rx, notes, callback, channel, dmar, pc, loan>>

Receiving == dmar /\ CanMove(dma)

StoreByte ==
  /\ Receiving
  /\ rxne
  /\ rxne' = FALSE
  /\ dma' = Moved(dma)
  /\ flags' = flags \cup MoveFlags(dma)
  /\ pending' = (pending \/ MoveFlags(dma) \cap dma.ie # {})
  /\ loan' = [b \in Blocks |->
                IF loan[b].lent /\ b.addr = dma.maddr
                  THEN [loan[b] EXCEPT !.stored = @ + 1] ELSE loan[b]]
  /\ UNCHANGED <<rx, notes, callback, dmar, err, pc, missing>>

EngineError ==
  /\ Receiving
  /\ rxne
  /\ dma' = Faulted(dma)
  /\ flags' = flags \cup {"TE"}
  /\ pending' = TRUE
  /\ UNCHANGED <<rx, notes, callback, dmar, rxne, err, pc, app>>

-----------------------------------------------------------------------------
AppCall(x) ==
  \/ \E cb \in Callbacks \cup {"null"} : usart_wch_async_callback_set(x, cb)
  \/ \E b \in Blocks :
       \/ usart_wch_rx_enable(x, b)
       \/ \E fault \in StartFaults : usart_wch_rx_enable_fails(x, b, fault)
       \/ usart_wch_rx_buf_rsp(x, b)
  \/ usart_wch_rx_disable(x)
  \/ usart_wch_poll_in(x)

Next ==
  \/ \E x \in Contexts : AppCall(x) \/ DispatchLeft(x) \/ usart_wch_rx_dispatch(x)
  \/ dma_wch_isr
  \/ usart_wch_isr_error
  \/ usart_wch_isr_tx
  \/ ByteArrives
  \/ StoreByte
  \/ EngineError

Spec == Init /\ [][Next]_vars

\* Interrupts are taken, callbacks return, and threads get the processor
\* between interrupts.
Scheduling ==
  /\ WF_vars(dma_wch_isr) /\ WF_vars(usart_wch_isr_error)
  /\ \A x \in Contexts : SF_vars(DispatchLeft(x) \/ usart_wch_rx_dispatch(x))

FairSpec == Spec /\ Scheduling

-----------------------------------------------------------------------------
(* Properties.                                                             *)

\* The assertion in usart_wch_rx_queue(): the notes of all the sessions that
\* can be under way at once fit the array, whoever dispatches and whenever.
RingNeverOverflows == Len(notes) <= RingSize

Releases(b) == {i \in 1 .. Len(notes) : notes[i].type = "RELEASED" /\ notes[i].block = b}

\* The contract's view of buffer b: held by the session or by a release on its
\* way; more than one of these is outside the contract.
Abstract(b) ==
  LET inSession == b \in {rx.buffer, rx.next}
  IN IF ~inSession /\ Releases(b) = {} THEN NoLoan
     ELSE IF \/ inSession /\ (Releases(b) # {} \/ rx.buffer = rx.next)
             \/ \E i, j \in Releases(b) : i # j
       THEN [NoLoan EXCEPT !.stored = -1]
     ELSE [loan[b] EXCEPT !.lent = TRUE]

Contract ==
  INSTANCE RxContract WITH open <- rx.phase # "IDLE",
                           asked <- rx.request_open,
                           held <- [b \in Blocks |-> Abstract(b)],
                           inside <- {x \in Contexts : pc[x] = "callback"},
                           MayLose <- "status" \in Faults

\* The driver implements the receive contract: events are delivered one at a
\* time, to the callback the session began with; every buffer lent shares no
\* byte with another and comes back exactly once, after UART_RX_RDY reported
\* every byte DMA stored in it, no more and no fewer (or UART_RX_STOPPED said
\* that the number is unknown); UART_RX_DISABLED comes last.
ImplementsContract == Contract!Spec

\* DMA writes only into the current buffer, within its bounds, and only while
\* the session is active.
EngineWritesOnlyLent ==
  dma.en => /\ rx.phase = "ACTIVE"
            /\ rx.buffer # Null /\ loan[rx.buffer].lent
            /\ dma.maddr = rx.buffer.addr
            /\ loan[rx.buffer].stored + dma.cntr <= rx.buffer.len

\* A byte of the session that was lost leaves an error flag standing until the
\* session stops with UART_RX_STOPPED: no gap in the data goes unreported.
NoSilentLoss == missing => rx.phase = "ACTIVE" /\ err # {}

\* A session that is stopping gets to UART_RX_DISABLED.
StopCompletes == rx.phase = "STOPPING" ~> rx.phase = "IDLE"

\* A session without a next buffer gets to ask for one, unless it ends.
RequestReachesApplication ==
  (rx.phase = "ACTIVE" /\ rx.next = Null)
    ~> (rx.phase # "ACTIVE" \/ rx.next # Null \/ rx.request_open)
=============================================================================
