---------------------------- MODULE UartTxProofs ----------------------------
(***************************************************************************)
(* Proofs about asynchronous transmission (module UartTx), for every set   *)
(* of threads, buffers and callbacks, every length and every timeout.      *)
(***************************************************************************)
EXTENDS UartTxInv, DmaChannelProofs, TLAPS

-----------------------------------------------------------------------------
(* The inductive invariant.                                                *)

-----------------------------------------------------------------------------
(* The steps.                                                              *)

\* What the constants are, as the steps need it.
LEMMA Bounds ==
  /\ MaxBlock \in Nat \ {0}
  /\ MaxLength \in Nat \ {0} /\ MaxLength <= MaxBlock /\ MaxTicks \in Nat \ {0}
  /\ \A b \in Buffers : b \in Nat \ {0} /\ b # Null /\ b # Polled
  /\ {"uart_isr", "dma_isr", "worker"} \subseteq Contexts
  /\ NoNote \in Notification /\ NoLoan \in Loan
  /\ \A x \in Threads : x \in Contexts /\ x \notin {"uart_isr", "dma_isr", "worker", "transfer"}
<1>1. MaxLength \in Nat \ {0} /\ MaxLength <= MaxBlock /\ MaxTicks \in Nat \ {0}
  BY TxConstants, MaxBlockAssumption
<1>2. NoNote \in Notification
  BY <1>1 DEF NoNote, Notification, Null
<1>3. NoLoan \in Loan
  BY <1>1 DEF NoLoan, Loan, Off
<1> QED
  BY <1>1, <1>2, <1>3, TxConstants, MaxBlockAssumption DEF Contexts, Isrs, Null, Polled

\* The state usart_wch_init() leaves satisfies the invariant.
LEMMA InitInv == Init => TxInv
<1> SUFFICES ASSUME Init PROVE TxInv
  BY Zenon
<1>1. ByteChannel(dma)
  BY ByteReset, Zenon DEF Init
<1>2. TypeOK
  <2>1. tx \in Transfer /\ work \in WorkItem
    BY Bounds DEF Init, Transfer, WorkItem, Off, Null
  <2>2. note \in [Contexts -> Notification] /\ loan \in [Buffers -> Loan]
    BY Bounds, Zenon DEF Init
  <2> QED
    BY <1>1, <2>1, <2>2, Zenon DEF Init, TypeOK, ByteChannel, ChannelInv
<1>3. PhaseInv /\ TransferInv /\ (tc => Drained)
  BY Zenon DEF Init, PhaseInv, TransferInv, Drained, ResetChannel
<1>4. \A b \in Buffers : LoanInv(b)
  BY Zenon DEF Init, LoanInv, NoLoan
<1>5. \A x \in Contexts : NoteInv(x)
  BY Zenon DEF Init, NoteInv
<1> QED
  BY <1>1, <1>2, <1>3, <1>4, <1>5, Zenon DEF TxInv

\* usart_wch_tx_finish_locked() keeps the invariant.  Its callers see to it that
\* the context has no notification under way, that a transfer is reported done
\* only once the transmitter is drained, and that the worker ends it in time.
LEMMA FinishInv ==
  ASSUME TxInv, tx.phase # "IDLE",
         NEW x \in Contexts, note[x] = NoNote,
         NEW type \in {"DONE", "ABORTED"}, NEW ok \in BOOLEAN,
         NEW c, ByteChannel(c), SameBlock(c, dma), c.state # "UNCONFIGURED",
         Finish(x, type, ok, c),
         type = "DONE" => tc /\ dma.cntr = 0,
         x = "worker" => tx.deadline = 0,
         UNCHANGED <<tc, datar, shift, loan>>,
         pending' \in BOOLEAN, work' \in WorkItem
  PROVE  TxInv'
<1> DEFINE b == tx.buffer
           off == Stopped(c)
           count == HandedOver(type, ok, off)
           n == [type |-> type, cb |-> tx.callback, buffer |-> b, length |-> count]
<1>1. /\ ByteChannel(off) /\ ~off.en /\ off.state = "CONFIGURED"
      /\ SameBlock(off, dma) /\ PendingLength(off) = dma.cntr
  BY ByteStopped, BytesPending, Zenon DEF SameBlock
<1>2. /\ b \in Buffers /\ b # Null /\ tx.length \in 1 .. MaxLength
      /\ dma.cntr \in 0 .. tx.length
      /\ loan[b].length = tx.length /\ loan[b].left = tx.deadline
      /\ loan[b].fed = tx.length - dma.cntr /\ loan[b].sent \in Nat
      /\ loan[b].sent + Held(b, datar) + Held(b, shift) = loan[b].fed
      /\ {datar, shift} \subseteq {Null, b}
  BY Bounds DEF TxInv, TransferInv, TypeOK, Transfer, Loan, Channel
<1>3. /\ count \in 0 .. tx.length
      /\ type = "DONE" => count = tx.length
      /\ NeedsTc(type, ok, off) \in BOOLEAN
      /\ tc \/ ~NeedsTc(type, ok, off) => Drained
  <2>1. count \in 0 .. tx.length /\ (type = "DONE" => count = tx.length)
    BY <1>1, <1>2 DEF HandedOver, Known
  <2>2. tc => Drained
    BY Zenon DEF TxInv
  <2>3. ASSUME Known(type, ok, off), count = 0 PROVE Drained
    <3>1. loan[b].fed = 0
      BY <1>1, <1>2, <2>3, Zenon DEF HandedOver, Known
    <3> QED
      BY <1>2, <3>1 DEF Held, Drained
  <2> QED
    BY <2>1, <2>2, <2>3, Zenon DEF NeedsTc
<1>4. /\ dmat' = FALSE /\ tcie' = FALSE /\ dma' = off /\ flags' = {}
      /\ note' = [note EXCEPT ![x] = n]
      /\ tx' = [tx EXCEPT !.phase = "IDLE", !.buffer = Null, !.length = 0, !.deadline = Off,
                          !.needs_tc = NeedsTc(type, ok, off)]
  BY Zenon DEF Finish, Ended, TxInv, TypeOK, Transfer
<1>5. TypeOK'
  <2>1. tx' \in Transfer
    <3>1. /\ 0 \in 0 .. MaxLength /\ Off \in Off .. MaxTicks /\ tx \in Transfer
          /\ NeedsTc(type, ok, off) \in BOOLEAN
      BY <1>3, Bounds DEF TxInv, TypeOK, Off
    <3> QED
      BY <1>4, <3>1, Zenon DEF Transfer
  <2>2. note' \in [Contexts -> Notification]
    BY <1>2, <1>3, <1>4, Bounds DEF TxInv, TypeOK, Transfer, Notification
  <2> QED
    BY <1>1, <1>4, <2>1, <2>2, Zenon DEF TxInv, TypeOK, ByteChannel, ChannelInv
<1>6. PhaseInv' /\ TransferInv' /\ (tc => Drained)'
  BY <1>1, <1>3, <1>4, Zenon DEF TxInv, TypeOK, Transfer, PhaseInv, TransferInv, Drained
<1>7. ASSUME NEW y \in Contexts PROVE NoteInv(y)'
  <2>1. \A z \in Contexts \ {x} : note[z].buffer # b
    BY <1>2 DEF TxInv, NoteInv, NoNote
  <2>2. tx'.buffer = Null
    BY <1>4, Zenon DEF TxInv, TypeOK, Transfer
  <2>3. CASE y = x
    <3>1. note'[x] = n /\ \A z \in Contexts \ {x} : note'[z] = note[z]
      BY <1>4, Zenon DEF TxInv, TypeOK
    <3>2. ASSUME type = "DONE" PROVE loan[b].sent = tx.length
      BY <1>2, <3>2 DEF TxInv, Drained, Held
    <3> QED
      BY <1>2, <1>3, <2>1, <2>2, <2>3, <3>1, <3>2 DEF NoteInv
  <2>4. CASE y # x
    <3>1. note'[x] = n /\ \A z \in Contexts \ {x} : note'[z] = note[z]
      BY <1>4, Zenon DEF TxInv, TypeOK
    <3>2. NoteInv(y)
      BY Zenon DEF TxInv
    <3> QED
      BY <1>2, <2>1, <2>2, <2>4, <3>1, <3>2, Bounds DEF NoteInv
  <2> QED
    BY <2>3, <2>4, Zenon
<1>8. \A a \in Buffers : LoanInv(a)'
  BY Zenon DEF TxInv, LoanInv, Held
<1> QED
  BY <1>1, <1>4, <1>5, <1>6, <1>7, <1>8, Zenon DEF TxInv

\* usart_wch_tx_notify() returns a buffer nothing else holds.
LEMMA NotifyInv ==
  ASSUME TxInv, NEW x \in Contexts, usart_wch_tx_notify(x)
  PROVE  TxInv'
<1> DEFINE b == note[x].buffer
<1>1. /\ b \in Buffers /\ b # tx.buffer
      /\ \A y \in Contexts \ {x} : note[y].buffer # b
  BY Zenon DEF usart_wch_tx_notify, TxInv, NoteInv
<1>2. /\ note' = [note EXCEPT ![x] = NoNote] /\ loan' = [loan EXCEPT ![b] = NoLoan]
      /\ UNCHANGED <<tx, dma, flags, pending, dmat, tcie, tc, datar, shift, work>>
  BY Zenon DEF usart_wch_tx_notify, hw
<1>3. TypeOK'
  BY <1>1, <1>2, Bounds, Zenon DEF TxInv, TypeOK
<1>4. PhaseInv' /\ (tc => Drained)' /\ ByteChannel(dma)'
  BY <1>2, Zenon DEF TxInv, PhaseInv, Drained
<1>5. /\ loan'[b] = NoLoan /\ \A a \in Buffers \ {b} : loan'[a] = loan[a]
      /\ note'[x] = NoNote /\ \A y \in Contexts \ {x} : note'[y] = note[y]
  BY <1>1, <1>2, Zenon DEF TxInv, TypeOK
<1>6. TransferInv'
  <2>1. tx.phase # "IDLE" => tx.buffer \in Buffers \ {b}
    BY <1>1, Zenon DEF TxInv, TransferInv
  <2> QED
    BY <1>2, <1>5, <2>1, ZenonT(60) DEF TxInv, TransferInv, Drained, Held
<1>7. \A a \in Buffers : LoanInv(a)'
  BY <1>2, <1>5 DEF TxInv, LoanInv, Held, NoLoan
<1>8. ASSUME NEW y \in Contexts PROVE NoteInv(y)'
  <2>1. CASE y = x
    BY <1>5, <2>1, Zenon DEF NoteInv
  <2>2. CASE y # x
    <3>1. NoteInv(y) /\ (note[y] # NoNote => note[y].buffer \in Buffers \ {b})
      BY <1>1, <2>2, Zenon DEF TxInv, NoteInv
    <3>2. note[y] # NoNote => note[y].buffer # Null
      BY <3>1, Bounds, Zenon
    <3> QED
      BY <1>2, <1>5, <2>2, <3>1, <3>2 DEF NoteInv, NoNote
  <2> QED
    BY <2>1, <2>2, Zenon
<1> QED
  BY <1>3, <1>4, <1>6, <1>7, <1>8, Zenon DEF TxInv

\* The callback changes while nothing is in progress.
LEMMA CallbackInv ==
  ASSUME TxInv, NEW x, NEW cb \in Callbacks \cup {"null"}, usart_wch_async_callback_set(x, cb)
  PROVE  TxInv'
<1>1. /\ tx.phase = "IDLE" /\ tx' = [tx EXCEPT !.callback = cb]
      /\ UNCHANGED <<dma, flags, pending, dmat, tcie, tc, datar, shift, work, note, loan>>
  BY Zenon DEF usart_wch_async_callback_set, hw
<1>2. /\ tx' \in Transfer /\ tx'.phase = "IDLE" /\ tx'.buffer = tx.buffer
      /\ tx'.length = tx.length /\ tx'.deadline = tx.deadline /\ tx'.needs_tc = tx.needs_tc
  BY <1>1, Zenon DEF TxInv, TypeOK, Transfer
<1> QED
  BY <1>1, <1>2 DEF TxInv, TypeOK, PhaseInv, TransferInv, LoanInv, NoteInv, Drained, Held

\* The request of usart_wch_tx() is one a byte channel takes.
LEMMA TxRequestIsBytes ==
  ASSUME NEW b \in Buffers, NEW n \in 1 .. MaxLength
  PROVE  /\ TxRequest(b, n) \in ByteRequests
         /\ TxRequest(b, n).size = n /\ TxRequest(b, n).src = b
         /\ TxRequest(b, n).dir = "M2P"
<1>1. b \in Nat /\ n \in 1 .. MaxBlock
  BY Bounds
<1>2. TxRequest(b, n) \in ConfigRequest
  <2>1. b \in Nat /\ n \in Nat
    BY <1>1, Bounds
  <2> QED
    BY <2>1, Zenon DEF TxRequest, ByteRequest, ConfigRequest
<1> QED
  BY <1>1, <1>2, Zenon DEF TxRequest, ByteRequest, ByteRequests

\* An idle port's channel is not busy, so it can be configured and started.
LEMMA IdleChannel ==
  ASSUME TxInv, tx.phase = "IDLE", NEW b \in Buffers, NEW n \in 1 .. MaxLength
  PROVE  LET c == Configured(dma, TxRequest(b, n))
         IN /\ ByteChannel(Started(c)) /\ Started(c).state = "RUNNING" /\ Started(c).en
            /\ Started(c).cntr = n /\ Started(c).length = n /\ Started(c).maddr = b
            /\ ByteChannel(Stopped(c)) /\ Stopped(c).state = "CONFIGURED" /\ ~Stopped(c).en
<1> DEFINE c == Configured(dma, TxRequest(b, n))
<1>1. ByteChannel(dma) /\ ~Busy(dma)
  BY Zenon DEF TxInv, PhaseInv, Busy, ByteChannel
<1>2. /\ ByteChannel(c) /\ c.state = "CONFIGURED" /\ ~c.en
      /\ c.cntr = n /\ c.length = n /\ c.maddr = b
  <2> DEFINE r == TxRequest(b, n)
  <2>1. r \in ByteRequests /\ r.size = n /\ r.src = b /\ r.dir = "M2P"
    BY TxRequestIsBytes
  <2> HIDE DEF r
  <2> QED
    BY <1>1, <2>1, ByteConfigured, Zenon DEF r
<1> HIDE DEF c
<1>3. n > 0
  BY Bounds
<1>4. /\ ByteChannel(Started(c)) /\ Started(c).state = "RUNNING" /\ Started(c).en
      /\ Started(c).cntr = n /\ Started(c).length = n /\ Started(c).maddr = b
      /\ ByteChannel(Stopped(c)) /\ Stopped(c).state = "CONFIGURED" /\ ~Stopped(c).en
  BY <1>2, <1>3, ByteStarted, ByteStopped DEF SameBlock
<1> QED
  BY <1>4, Zenon DEF c

\* An accepted transfer: the transmitter is drained, so only bytes of the new
\* buffer will be in it.
LEMMA TransmitInv ==
  ASSUME TxInv, NEW x, NEW b \in Buffers, NEW n \in 1 .. MaxLength, NEW t \in Timeouts,
         usart_wch_tx(x, b, n, t)
  PROVE  TxInv'
<1> DEFINE c == Started(Configured(dma, TxRequest(b, n)))
           l == [NoLoan EXCEPT !.length = n, !.cb = tx.callback, !.left = t]
<1>1. /\ tx.phase = "IDLE" /\ loan[b] = NoLoan /\ Drained
      /\ tx' = [tx EXCEPT !.phase = "DMA", !.buffer = b, !.length = n, !.deadline = t,
                          !.needs_tc = FALSE]
      /\ dma' = c /\ flags' = {} /\ tcie' = FALSE /\ tc' = FALSE /\ dmat' = TRUE
      /\ work' = (IF t = Off THEN work ELSE [work EXCEPT !.timer = t])
      /\ loan' = [loan EXCEPT ![b] = l]
      /\ UNCHANGED <<pending, datar, shift, note>>
  BY Zenon DEF usart_wch_tx, Accepts, Submitted, Reschedule, TxInv, PhaseInv, TypeOK
<1>2. /\ ByteChannel(c) /\ c.state = "RUNNING" /\ c.cntr = n /\ c.length = n /\ c.maddr = b
      /\ c \in Channel
  BY <1>1, IdleChannel DEF ByteChannel, ChannelInv
<1> HIDE DEF c
<1>3. n \in 0 .. MaxLength /\ n # 0 /\ n \in Nat /\ t \in Off .. MaxTicks
  BY Bounds DEF Timeouts, Off
<1>4. /\ tx' \in Transfer
      /\ tx'.phase = "DMA" /\ tx'.buffer = b /\ tx'.length = n /\ tx'.deadline = t
      /\ tx'.needs_tc = FALSE
  BY <1>1, <1>3, Zenon DEF TxInv, TypeOK, Transfer
<1>5. /\ l \in Loan /\ l.length = n /\ l.fed = 0 /\ l.sent = 0 /\ l.left = t
  BY <1>3, Bounds, Zenon DEF NoLoan, Loan, TxInv, TypeOK, Transfer
<1> HIDE DEF l
<1>6. loan' \in [Buffers -> Loan] /\ loan'[b] = l /\ \A a \in Buffers \ {b} : loan'[a] = loan[a]
  BY <1>1, <1>5, Zenon DEF TxInv, TypeOK
<1>7. TypeOK'
  <2>1. work' \in WorkItem
    BY <1>1, <1>3, Zenon DEF TxInv, TypeOK, WorkItem
  <2> QED
    BY <1>1, <1>2, <1>4, <1>6, <2>1, Zenon DEF TxInv, TypeOK
<1>8. PhaseInv' /\ (tc => Drained)' /\ ByteChannel(dma)'
  BY <1>1, <1>2, <1>4, Zenon DEF PhaseInv
<1>9. TransferInv'
  <2>1. Held(b, datar) = 0 /\ Held(b, shift) = 0
    BY <1>1, Bounds, Zenon DEF Held, Drained
  <2>2. Held(b, datar') = 0 /\ Held(b, shift') = 0
    BY <1>1, <2>1, Zenon DEF Held
  <2> QED
    BY <1>1, <1>2, <1>3, <1>4, <1>5, <1>6, <2>2 DEF TransferInv, Drained, Held
<1>10. ASSUME NEW a \in Buffers PROVE LoanInv(a)'
  <2>1. CASE a = b
    <3>1. Held(b, datar') = 0 /\ Held(b, shift') = 0
      BY <1>1, Bounds, Zenon DEF Held, Drained
    <3> QED
      BY <1>3, <1>5, <1>6, <2>1, <3>1 DEF LoanInv
  <2>2. CASE a # b
    BY <1>1, <1>6, <2>2, Zenon DEF TxInv, LoanInv, Held
  <2> QED
    BY <2>1, <2>2, Zenon
<1>11. ASSUME NEW y \in Contexts PROVE NoteInv(y)'
  <2>1. NoteInv(y) /\ (note[y] # NoNote => note[y].buffer # b)
    BY <1>1 DEF TxInv, NoteInv, NoLoan
  <2> QED
    BY <1>1, <1>4, <1>6, <2>1, Zenon DEF NoteInv
<1> QED
  BY <1>7, <1>8, <1>9, <1>10, <1>11, Zenon DEF TxInv

\* A refused transfer leaves an idle port idle and gated.
LEMMA FailsInv ==
  ASSUME TxInv, NEW x, NEW b \in Buffers, NEW n \in 1 .. MaxLength, NEW t \in Timeouts,
         NEW f, usart_wch_tx_fails(x, b, n, t, f)
  PROVE  TxInv'
<1>1. /\ tx.phase = "IDLE" /\ dmat' = FALSE /\ tcie' = FALSE
      /\ \/ UNCHANGED <<dma, flags>>
         \/ dma' = Stopped(Configured(dma, TxRequest(b, n))) /\ flags' = {}
      /\ tx' = tx \/ tx' = [tx EXCEPT !.deadline = Off]
      /\ UNCHANGED <<pending, tc, datar, shift, work, note, loan>>
  BY Zenon DEF usart_wch_tx_fails, Accepts, Refused
<1>2. tx' = tx
  BY <1>1, ZenonT(60) DEF TxInv, PhaseInv, TypeOK, Transfer
<1>3. ByteChannel(dma') /\ dma' \in Channel /\ dma'.state # "RUNNING" /\ flags' \subseteq Flags
  BY <1>1, IdleChannel DEF TxInv, PhaseInv, TypeOK, ByteChannel, ChannelInv
<1> QED
  BY <1>1, <1>2, <1>3, Zenon DEF TxInv, TypeOK, PhaseInv, TransferInv, LoanInv, NoteInv, Drained, Held

\* A polled byte enters an idle transmitter, and TC is to be waited for.
LEMMA PollOutInv ==
  ASSUME TxInv, NEW x, usart_wch_tx_poll_out(x)
  PROVE  TxInv'
<1>1. /\ tx.phase = "IDLE" /\ datar = Null /\ datar' = Polled /\ tc' = FALSE
      /\ tx' = [tx EXCEPT !.needs_tc = TRUE]
      /\ UNCHANGED <<dma, flags, pending, dmat, tcie, shift, work, note, loan>>
  BY Zenon DEF usart_wch_tx_poll_out, TXE
<1>2. /\ tx' \in Transfer /\ tx'.phase = "IDLE" /\ tx'.buffer = tx.buffer
      /\ tx'.length = tx.length /\ tx'.deadline = tx.deadline /\ tx'.needs_tc = TRUE
  BY <1>1, Zenon DEF TxInv, TypeOK, Transfer
<1>3. \A a \in Buffers : Held(a, datar) = 0 /\ Held(a, datar') = 0 /\ Held(a, shift') = Held(a, shift)
  BY <1>1, Bounds, Zenon DEF Held
<1>4. \A a \in Buffers : LoanInv(a)'
  BY <1>1, <1>3, Zenon DEF TxInv, LoanInv
<1>5. TypeOK' /\ PhaseInv' /\ TransferInv' /\ ByteChannel(dma)'
  BY <1>1, <1>2, Zenon DEF TxInv, TypeOK, PhaseInv, TransferInv
<1>6. \A y \in Contexts : NoteInv(y)'
  BY <1>1, <1>2, ZenonT(60) DEF TxInv, NoteInv
<1> QED
  BY <1>1, <1>4, <1>5, <1>6, Zenon DEF TxInv

\* The outcomes of dma_get_status() are truth values.
LEMMA Outcomes == StatusOutcomes \subseteq BOOLEAN
  BY Zenon DEF StatusOutcomes

\* A transfer in progress has a configured channel.
LEMMA ActiveChannel ==
  ASSUME TxInv, tx.phase # "IDLE"
  PROVE  ByteChannel(dma) /\ SameBlock(dma, dma) /\ dma.state # "UNCONFIGURED"
  BY Zenon DEF TxInv, TypeOK, Transfer, PhaseInv, SameBlock

\* The application aborts its transfer.
LEMMA AbortInv ==
  ASSUME TxInv, NEW x \in Threads, usart_wch_tx_abort(x)
  PROVE  TxInv'
<1>1. /\ tx.phase # "IDLE" /\ note[x] = NoNote
      /\ UNCHANGED <<tc, datar, shift, loan>> /\ pending' \in BOOLEAN /\ work' \in WorkItem
  BY Zenon DEF usart_wch_tx_abort, CanRun, TxInv, TypeOK
<1>2. PICK ok \in StatusOutcomes : Finish(x, "ABORTED", ok, dma)
  BY Zenon DEF usart_wch_tx_abort
<1> QED
  BY <1>1, <1>2, Outcomes, ActiveChannel, FinishInv, Bounds, Zenon

\* The DMA handler: a left-over interrupt changes nothing, an error aborts, the
\* end of the block completes the transfer or makes it wait for TC.
LEMMA DmaIsrInv ==
  ASSUME TxInv, dma_wch_isr
  PROVE  TxInv'
<1> DEFINE s == IsrStatus(dma, flags)
           c == IsrChannel(dma, flags)
<1>1. /\ note["dma_isr"] = NoNote /\ pending' \in BOOLEAN /\ flags' = {}
      /\ usart_wch_tx_dma_callback(s, c)
      /\ UNCHANGED <<tc, datar, shift, work, loan>> /\ work' \in WorkItem
  BY Zenon DEF dma_wch_isr, IsrQuiet, Isrs, TxInv, TypeOK
<1>2. /\ ByteChannel(c) /\ SameBlock(c, dma) /\ s \in {"none", "EIO", "COMPLETE"}
      /\ s = "none" => c = dma
      /\ s # "none" => dma.state = "RUNNING" /\ c.state = "CONFIGURED" /\ ~c.en
      /\ s = "COMPLETE" => "TC" \in flags
  BY ByteIsr DEF TxInv
<1> HIDE DEF s, c
<1>3. s # "none" => tx.phase = "DMA"
  BY <1>2, Zenon DEF TxInv, PhaseInv, TypeOK, Transfer
<1>4. CASE s = "none"
  <2>1. dma' = dma /\ UNCHANGED <<tx, dmat, tcie, note>>
    BY <1>1, <1>2, <1>4, Zenon DEF usart_wch_tx_dma_callback
  <2> QED
    BY <1>1, <2>1, Zenon DEF TxInv, TypeOK, PhaseInv, TransferInv, LoanInv, NoteInv, Drained, Held
<1>5. CASE s = "EIO"
  <2>1. PICK ok \in StatusOutcomes : Finish("dma_isr", "ABORTED", ok, c)
    BY <1>1, <1>3, <1>5, Zenon DEF usart_wch_tx_dma_callback
  <2> QED
    BY <1>1, <1>2, <1>3, <1>5, <2>1, Outcomes, FinishInv, Bounds, Zenon
<1>6. CASE s = "COMPLETE"
  <2>1. tx.phase = "DMA" /\ dma.cntr = 0 /\ BlockFed(c)
    BY <1>1, <1>2, <1>3, <1>6, Zenon DEF TxInv, PhaseInv, usart_wch_tx_dma_callback
  <2>2. CASE tc
    <3>1. Finish("dma_isr", "DONE", TRUE, c)
      BY <2>1, <2>2, Zenon DEF BlockFed
    <3> QED
      BY <1>1, <1>2, <1>6, <2>1, <2>2, <3>1, FinishInv, Bounds, Zenon
  <2>3. CASE ~tc
    <3>1. /\ dma' = c /\ dmat' = FALSE /\ tcie' = TRUE /\ UNCHANGED note
          /\ tx' = [tx EXCEPT !.phase = "WAIT_TC"]
      BY <2>1, <2>3, Zenon DEF BlockFed
    <3>2. /\ tx' \in Transfer /\ tx'.phase = "WAIT_TC" /\ tx'.buffer = tx.buffer
          /\ tx'.length = tx.length /\ tx'.deadline = tx.deadline /\ tx'.needs_tc = tx.needs_tc
      BY <3>1, Zenon DEF TxInv, TypeOK, Transfer
    <3>3. c \in Channel /\ c.state = "CONFIGURED" /\ c.cntr = 0 /\ c.maddr = dma.maddr
      BY <1>2, <1>6, <2>1, Zenon DEF ByteChannel, ChannelInv, SameBlock
    <3>4. TypeOK' /\ PhaseInv' /\ ByteChannel(dma)' /\ (tc => Drained)'
      BY <1>1, <1>2, <3>1, <3>2, <3>3, Zenon DEF TxInv, TypeOK, PhaseInv, Drained
    <3>5. TransferInv'
      BY <1>1, <2>1, <3>1, <3>2, <3>3, Zenon DEF TxInv, TransferInv, Drained, Held
    <3>6. (\A b \in Buffers : LoanInv(b)') /\ (\A x \in Contexts : NoteInv(x)')
      BY <1>1, <3>1, <3>2, Zenon DEF TxInv, LoanInv, NoteInv, Held
    <3> QED
      BY <3>4, <3>5, <3>6, Zenon DEF TxInv
  <2> QED
    BY <2>2, <2>3, Zenon
<1> QED
  BY <1>2, <1>4, <1>5, <1>6, Zenon

\* TC ends a transfer that waits for it.
LEMMA UartIsrInv ==
  ASSUME TxInv, usart_wch_isr
  PROVE  TxInv'
<1>1. /\ tx.phase = "WAIT_TC" /\ tc /\ note["uart_isr"] = NoNote /\ dma.cntr = 0
      /\ Finish("uart_isr", "DONE", TRUE, dma)
      /\ UNCHANGED <<tc, datar, shift, loan>> /\ pending' \in BOOLEAN /\ work' \in WorkItem
  BY Zenon DEF usart_wch_isr, IsrQuiet, Isrs, TxInv, TypeOK, PhaseInv
<1> QED
  BY <1>1, ActiveChannel, FinishInv, Bounds, Zenon

\* The worker's wake-up ends a transfer only when its time is up.
LEMMA TimeoutInv ==
  ASSUME TxInv, usart_wch_tx_timeout
  PROVE  TxInv'
<1>1. /\ note["worker"] = NoNote /\ UNCHANGED <<pending, tc, datar, shift, loan>>
      /\ pending' \in BOOLEAN
  BY Zenon DEF usart_wch_tx_timeout, CanRun, TxInv, TypeOK
<1>2. work' \in WorkItem
  BY Zenon DEF usart_wch_tx_timeout, Reschedule, Remaining, TxInv, TypeOK, Transfer, WorkItem
<1>3. CASE UNCHANGED <<tx, dma, flags, dmat, tcie, note>>
  BY <1>1, <1>2, <1>3, Zenon
  DEF TxInv, TypeOK, PhaseInv, TransferInv, LoanInv, NoteInv, Drained, Held
<1>4. CASE Timed /\ Remaining = 0 /\ \E ok \in StatusOutcomes : Finish("worker", "ABORTED", ok, dma)
  <2>1. PICK ok \in StatusOutcomes : Finish("worker", "ABORTED", ok, dma)
    BY <1>4, Zenon
  <2>2. tx.phase # "IDLE" /\ tx.deadline = 0
    BY <1>4, Zenon DEF Timed, Remaining
  <2> QED
    BY <1>1, <1>2, <2>1, <2>2, Outcomes, ActiveChannel, FinishInv, Bounds, Zenon
<1> QED
  BY <1>3, <1>4, Zenon DEF usart_wch_tx_timeout

\* The workqueue changes nothing but the work item.
LEMMA WorkInv ==
  ASSUME TxInv, TimerFires \/ WorkerTakes
  PROVE  TxInv'
<1>1. UNCHANGED <<tx, dma, flags, pending, dmat, tcie, tc, datar, shift, note, loan>>
  BY Zenon DEF TimerFires, WorkerTakes, hw
<1>2. work' \in WorkItem
  <2>1. Off \in Off .. MaxTicks /\ work \in WorkItem
    BY Bounds DEF Off, TxInv, TypeOK
  <2> QED
    BY <2>1, Zenon DEF TimerFires, WorkerTakes, WorkItem
<1> QED
  BY <1>1, <1>2, ZenonT(60) DEF TxInv, TypeOK, PhaseInv, TransferInv, LoanInv, NoteInv, Drained, Held

\* A tick moves the deadline and the application's own count alike.
LEMMA TickInv ==
  ASSUME TxInv, Tick
  PROVE  TxInv'
<1> DEFINE Less(n) == IF n > 0 THEN n - 1 ELSE n
<1>1. /\ work' = [work EXCEPT !.timer = Less(work.timer)]
      /\ tx' = [tx EXCEPT !.deadline = Less(tx.deadline)]
      /\ loan' = [b \in Buffers |-> [loan[b] EXCEPT !.left = Less(loan[b].left)]]
      /\ UNCHANGED <<dma, flags, pending, dmat, tcie, tc, datar, shift, note>>
  BY Zenon DEF Tick, hw
<1>2. \A n \in Off .. MaxTicks : Less(n) \in Off .. MaxTicks
  BY Bounds DEF Off
<1>3. Less(Off) = Off /\ Less(0) = 0
  BY DEF Off
<1> HIDE DEF Less
<1>4. /\ tx' \in Transfer /\ tx'.phase = tx.phase /\ tx'.buffer = tx.buffer
      /\ tx'.length = tx.length /\ tx'.deadline = Less(tx.deadline) /\ tx'.needs_tc = tx.needs_tc
  BY <1>1, <1>2, Zenon DEF TxInv, TypeOK, Transfer
<1>5. work' \in WorkItem
  BY <1>1, <1>2, Zenon DEF TxInv, TypeOK, WorkItem
<1>6. /\ loan' \in [Buffers -> Loan]
      /\ \A b \in Buffers : /\ loan'[b].length = loan[b].length /\ loan'[b].fed = loan[b].fed
                            /\ loan'[b].sent = loan[b].sent
                            /\ loan'[b].left = Less(loan[b].left)
                            /\ loan[b] = NoLoan => loan'[b] = NoLoan
  <2>1. ASSUME NEW b \in Buffers
        PROVE  /\ [loan[b] EXCEPT !.left = Less(loan[b].left)] \in Loan
               /\ loan'[b].length = loan[b].length /\ loan'[b].fed = loan[b].fed
               /\ loan'[b].sent = loan[b].sent
               /\ loan'[b].left = Less(loan[b].left)
               /\ loan[b] = NoLoan => loan'[b] = NoLoan
    BY <1>1, <1>2, <1>3, SMTT(30) DEF TxInv, TypeOK, Loan, NoLoan
  <2> QED
    BY <1>1, <2>1, Zenon
<1>7. TypeOK' /\ ByteChannel(dma)' /\ (tc => Drained)'
  BY <1>1, <1>4, <1>5, <1>6, Zenon DEF TxInv, TypeOK, Drained
<1>8. PhaseInv'
  BY <1>1, <1>3, <1>4, Zenon DEF TxInv, PhaseInv, Drained
<1>9. TransferInv'
  BY <1>1, <1>4, <1>6 DEF TxInv, TransferInv, Drained, Held
<1>10. \A b \in Buffers : LoanInv(b)'
  BY <1>1, <1>6 DEF TxInv, LoanInv, Held
<1>11. \A x \in Contexts : NoteInv(x)'
  BY <1>1, <1>3, <1>4, <1>6 DEF TxInv, NoteInv
<1> QED
  BY <1>7, <1>8, <1>9, <1>10, <1>11, Zenon DEF TxInv

\* DMA feeds a byte of the buffer of the transfer in progress.
LEMMA FeedInv ==
  ASSUME TxInv, FeedByte
  PROVE  TxInv'
<1> DEFINE b == tx.buffer
<1>1. /\ tx.phase = "DMA" /\ dma.state = "RUNNING" /\ CanMove(dma) /\ ~tc
      /\ datar = Null /\ dma.maddr = b /\ b \in Buffers /\ b > 0
      /\ loan[b].length = tx.length /\ tx.length # 0 /\ loan[b] # NoLoan
  BY Bounds DEF FeedByte, Feeding, TXE, TxInv, PhaseInv, TransferInv, TypeOK, Transfer, NoLoan
<1>2. /\ datar' = b /\ dma' = Moved(dma) /\ flags' = flags \cup MoveFlags(dma)
      /\ pending' = (pending \/ MoveFlags(dma) \cap dma.ie # {})
      /\ loan' = [loan EXCEPT ![b].fed = @ + 1]
      /\ UNCHANGED <<tx, dmat, tcie, tc, shift, work, note>>
  BY <1>1, Zenon DEF FeedByte, RaiseFlags, Count
<1>3. /\ ByteChannel(dma') /\ dma'.state = "RUNNING" /\ dma' \in Channel
      /\ dma.cntr \in Nat \ {0} /\ dma'.cntr = dma.cntr - 1 /\ dma'.maddr = dma.maddr
      /\ MoveFlags(dma) \subseteq Flags
      /\ "TC" \in MoveFlags(dma) => dma.cntr = 1
  BY <1>1, <1>2, ByteMoved, Zenon DEF TxInv, ByteChannel, ChannelInv
<1>4. /\ tx.length \in Nat /\ tx.length <= MaxLength /\ dma.cntr <= tx.length
      /\ loan[b].fed = tx.length - dma.cntr /\ loan[b].sent \in Nat
      /\ loan[b].sent + Held(b, datar) + Held(b, shift) = loan[b].fed
  BY <1>1, Bounds DEF TxInv, TransferInv, TypeOK, Transfer, Loan
<1>5. /\ loan' \in [Buffers -> Loan] /\ loan'[b] = [loan[b] EXCEPT !.fed = loan[b].fed + 1]
      /\ \A a \in Buffers \ {b} : loan'[a] = loan[a]
  <2>1. [loan[b] EXCEPT !.fed = loan[b].fed + 1] \in Loan
    BY <1>1, <1>3, <1>4, Bounds DEF TxInv, TypeOK, Loan
  <2> QED
    BY <1>1, <1>2, <2>1, Zenon DEF TxInv, TypeOK
<1>6. /\ loan'[b].fed = loan[b].fed + 1 /\ loan'[b].sent = loan[b].sent
      /\ loan'[b].length = loan[b].length /\ loan'[b].left = loan[b].left
  BY <1>1, <1>5 DEF TxInv, TypeOK, Loan
<1>7. /\ \A a \in Buffers : Held(a, datar) = 0 /\ Held(a, shift') = Held(a, shift)
      /\ \A a \in Buffers : Held(a, datar') = IF a = b THEN 1 ELSE 0
  BY <1>1, <1>2, Bounds, Zenon DEF Held
<1>8. TypeOK'
  BY <1>1, <1>2, <1>3, <1>5, Zenon DEF TxInv, TypeOK
<1>9. PhaseInv' /\ (tc => Drained)'
  BY <1>1, <1>2, <1>3 DEF TxInv, PhaseInv, CanMove
<1>10. TransferInv'
  <2>1. loan'[b].sent + 1 + Held(b, shift') = loan'[b].fed
    <3>1. Held(b, datar) = 0 /\ Held(b, shift') = Held(b, shift)
      BY <1>1, <1>7, Zenon
    <3>2. Held(b, shift) \in Nat
      BY Zenon DEF Held
    <3> QED
      BY <1>3, <1>4, <1>6, <3>1, <3>2
  <2>2. ~Drained'
    BY <1>1, <1>2, Bounds, Zenon DEF Drained
  <2> QED
    BY <1>1, <1>2, <1>3, <1>4, <1>6, <1>7, <2>1, <2>2 DEF TxInv, TransferInv
<1>11. ASSUME NEW a \in Buffers PROVE LoanInv(a)'
  <2>1. CASE a = b
    BY <1>1, <1>3, <1>4, <1>6, <1>7, <2>1 DEF LoanInv, Held
  <2>2. CASE a # b
    BY <1>5, <1>7, <2>2, Zenon DEF TxInv, LoanInv
  <2> QED
    BY <2>1, <2>2, Zenon
<1>12. \A x \in Contexts : NoteInv(x)'
  BY <1>2, <1>5 DEF TxInv, NoteInv
<1> QED
  BY <1>3, <1>8, <1>9, <1>10, <1>11, <1>12, Zenon DEF TxInv

\* A byte moves from DATAR to the shifter.
LEMMA LoadInv ==
  ASSUME TxInv, LoadShifter
  PROVE  TxInv'
<1>1. /\ shift = Null /\ datar # Null /\ shift' = datar /\ datar' = Null
      /\ UNCHANGED <<tx, dma, flags, pending, dmat, tcie, tc, work, note, loan>>
  BY Zenon DEF LoadShifter
<1>2. ~Drained /\ ~Drained'
  BY <1>1, Zenon DEF Drained
<1>3. \A a \in Buffers : /\ Held(a, datar') = Held(a, shift) /\ Held(a, shift') = Held(a, datar)
                         /\ Held(a, shift) = 0 /\ Held(a, datar) \in Nat
  BY <1>1, Bounds, Zenon DEF Held
<1>4. \A a \in Buffers : LoanInv(a)'
  BY <1>1, <1>3 DEF TxInv, TypeOK, Loan, LoanInv
<1>5. TypeOK' /\ PhaseInv' /\ ByteChannel(dma)' /\ (tc => Drained)'
  BY <1>1, <1>2, Zenon DEF TxInv, TypeOK, PhaseInv
<1>6. TransferInv'
  BY <1>1, <1>2, <1>3 DEF TxInv, TransferInv, TypeOK, Loan
<1>7. \A x \in Contexts : NoteInv(x)'
  BY <1>1, Zenon DEF TxInv, NoteInv
<1> QED
  BY <1>4, <1>5, <1>6, <1>7, Zenon DEF TxInv

\* A byte leaves the shifter; TC rises when there is no other and DMA has none.
LEMMA ShiftOutInv ==
  ASSUME TxInv, ShiftOut
  PROVE  TxInv'
<1> DEFINE counted == shift > 0 /\ loan[shift] # NoLoan
<1>1. /\ shift # Null /\ ~tc /\ shift' = Null /\ tc' = (datar = Null)
      /\ loan' = IF counted THEN [loan EXCEPT ![shift].sent = @ + 1] ELSE loan
      /\ UNCHANGED <<tx, dma, flags, pending, dmat, tcie, datar, work, note>>
  BY Zenon DEF ShiftOut, Count, TxInv, TypeOK, Drained
<1>2. shift \in Buffers \/ ~counted
  BY <1>1 DEF TxInv, TypeOK, Polled, Null
<1>3. counted => /\ loan[shift].sent + 1 + Held(shift, datar) <= loan[shift].fed
                 /\ loan[shift].fed <= loan[shift].length /\ loan[shift] \in Loan
  BY <1>2 DEF TxInv, LoanInv, TypeOK, Held, Loan
<1>4. /\ loan' \in [Buffers -> Loan]
      /\ \A a \in Buffers :
           /\ loan'[a].length = loan[a].length /\ loan'[a].fed = loan[a].fed
           /\ loan'[a].left = loan[a].left
           /\ loan'[a].sent = loan[a].sent + (IF counted /\ a = shift THEN 1 ELSE 0)
           /\ ~(counted /\ a = shift) => loan'[a] = loan[a]
  <2>1. CASE ~counted
    BY <1>1, <2>1 DEF TxInv, TypeOK, Loan
  <2>2. CASE counted
    <3>1. [loan[shift] EXCEPT !.sent = loan[shift].sent + 1] \in Loan
      BY <1>3, <2>2, Bounds DEF Loan, Held
    <3> QED
      BY <1>1, <1>2, <2>2, <3>1 DEF TxInv, TypeOK, Loan
  <2> QED
    BY <2>1, <2>2, Zenon
<1>5. \A a \in Buffers : /\ Held(a, datar') = Held(a, datar) /\ Held(a, shift') = 0
                         /\ Held(a, shift) = IF a = shift THEN 1 ELSE 0
                         /\ Held(a, datar) \in Nat
  BY <1>1, Bounds, Zenon DEF Held
<1>6. ASSUME NEW a \in Buffers PROVE LoanInv(a)'
  <2>1. a > 0 /\ (loan[a].length # 0 => loan[a] # NoLoan)
    BY Bounds DEF NoLoan
  <2>2. loan[a] \in Loan /\ LoanInv(a)
    BY Zenon DEF TxInv, TypeOK
  <2> QED
    BY <1>1, <1>4, <1>5, <2>1, <2>2 DEF LoanInv, Loan, NoLoan
<1>7. TypeOK' /\ ByteChannel(dma)' /\ (tc => Drained)'
  BY <1>1, <1>4, Zenon DEF TxInv, TypeOK, Drained
<1>8. PhaseInv'
  <2>1. tc' <=> datar = Null
    BY <1>1, Zenon
  <2>2. datar = Null /\ dmat => ~CanMove(dma)
    BY Zenon DEF ShiftOut, Feeding
  <2>3. tx.phase = "IDLE" => tx.needs_tc
    BY <1>1, Zenon DEF TxInv, PhaseInv, Drained
  <2> QED
    BY <1>1, <2>1, <2>2, <2>3, Zenon DEF TxInv, PhaseInv, Drained
<1>9. TransferInv'
  <2> SUFFICES ASSUME tx.phase # "IDLE" PROVE TransferInv'
    BY <1>1, Zenon DEF TransferInv
  <2>1. /\ tx.buffer \in Buffers /\ shift = tx.buffer /\ counted
        /\ loan[tx.buffer].sent \in Nat
    BY <1>1, Bounds DEF TxInv, TypeOK, Loan, TransferInv, NoLoan
  <2> HIDE DEF counted
  <2>2. loan[tx.buffer].sent + Held(tx.buffer, datar) + 1 = loan[tx.buffer].fed
    BY <1>5, <2>1, Zenon DEF TxInv, TransferInv
  <2>3. loan'[tx.buffer].sent + Held(tx.buffer, datar') + Held(tx.buffer, shift') = loan'[tx.buffer].fed
    <3>1. /\ Held(tx.buffer, datar') = Held(tx.buffer, datar) /\ Held(tx.buffer, shift') = 0
          /\ Held(tx.buffer, datar) \in Nat
      BY <1>5, <2>1, Zenon
    <3>2. /\ loan'[tx.buffer].sent = loan[tx.buffer].sent + 1
          /\ loan'[tx.buffer].fed = loan[tx.buffer].fed
      BY <1>4, <2>1, Zenon
    <3> QED
      BY <2>1, <2>2, <3>1, <3>2
  <2> QED
    BY <1>1, <1>4, <2>1, <2>3, Zenon DEF TxInv, TransferInv, Drained
<1>10. ASSUME NEW x \in Contexts PROVE NoteInv(x)'
  <2>1. NoteInv(x)
    BY Zenon DEF TxInv
  <2>2. ASSUME note[x].type = "DONE", note[x] # NoNote
        PROVE  note[x].buffer # shift
    <3>1. /\ note[x].buffer \in Buffers /\ loan[note[x].buffer] \in Loan
          /\ loan[note[x].buffer].sent = loan[note[x].buffer].length
          /\ LoanInv(note[x].buffer) /\ loan[note[x].buffer].length # 0
      BY <2>1, <2>2, Zenon DEF TxInv, TypeOK, NoteInv
    <3> QED
      BY <1>5, <3>1 DEF LoanInv, Loan
  <2> QED
    BY <1>1, <1>4, <2>1, <2>2, Zenon DEF NoteInv
<1> QED
  BY <1>6, <1>7, <1>8, <1>9, <1>10, Zenon DEF TxInv

\* A bus error stops the engine; the transfer record follows when the handler runs.
LEMMA EngineErrorInv ==
  ASSUME TxInv, EngineError
  PROVE  TxInv'
<1>1. /\ dma' = Faulted(dma) /\ flags' = flags \cup {"TE"}
      /\ pending' = (pending \/ {"TE"} \cap dma.ie # {})
      /\ UNCHANGED <<tx, dmat, tcie, tc, datar, shift, work, note, loan>>
  BY Zenon DEF EngineError, RaiseFlags
<1>2. /\ ByteChannel(dma') /\ dma' \in Channel /\ dma'.state = dma.state /\ ~dma'.en
      /\ dma'.cntr = dma.cntr /\ dma'.maddr = dma.maddr
  BY <1>1, ByteFaulted, Zenon DEF TxInv, SameBlock, ByteChannel, ChannelInv
<1>3. TypeOK'
  BY <1>1, <1>2, Zenon DEF TxInv, TypeOK, Flags
<1> QED
  BY <1>1, <1>2, <1>3, ZenonT(60)
  DEF TxInv, PhaseInv, TransferInv, LoanInv, NoteInv, Drained, Held, CanMove

\* Every step keeps the invariant.
LEMMA NextInv == TxInv /\ [Next]_vars => TxInv'
<1> SUFFICES ASSUME TxInv, [Next]_vars PROVE TxInv'
  BY Zenon
<1>1. CASE \E x \in Threads : AppCall(x)
  BY <1>1, CallbackInv, TransmitInv, FailsInv, AbortInv, PollOutInv, Zenon DEF AppCall
<1>2. CASE \E x \in Contexts : usart_wch_tx_notify(x)
  BY <1>2, NotifyInv, Zenon
<1>3. CASE dma_wch_isr
  BY <1>3, DmaIsrInv, Zenon
<1>4. CASE usart_wch_isr
  BY <1>4, UartIsrInv, Zenon
<1>5. CASE Tick
  BY <1>5, TickInv, Zenon
<1>6. CASE Worker
  BY <1>6, WorkInv, TimeoutInv, Zenon DEF Worker
<1>7. CASE Transmitter
  BY <1>7, FeedInv, LoadInv, ShiftOutInv, Zenon DEF Transmitter
<1>8. CASE EngineError
  BY <1>8, EngineErrorInv, Zenon
<1>9. CASE UNCHANGED vars
  BY <1>9, ZenonT(60)
  DEF vars, hw, TxInv, TypeOK, PhaseInv, TransferInv, LoanInv, NoteInv, Drained, Held
<1> QED
  BY <1>1, <1>2, <1>3, <1>4, <1>5, <1>6, <1>7, <1>8, <1>9, Zenon DEF Next

-----------------------------------------------------------------------------
(* What depends on dma_get_status() not failing.                           *)

\* A notification that is not new tells the count it told before.
LEMMA SameCounts ==
  ASSUME AbortCountsHandedOver,
         \A x \in Contexts :
           \/ note'[x] = NoNote
           \/ /\ note'[x] = note[x]
              /\ note[x] # NoNote => loan'[note[x].buffer].fed = loan[note[x].buffer].fed
  PROVE  AbortCountsHandedOver'
<1> SUFFICES ASSUME NEW x \in Contexts, note'[x].type = "ABORTED"
             PROVE  note'[x].length = loan'[note'[x].buffer].fed
  BY Zenon DEF AbortCountsHandedOver
<1>1. NoNote.type # "ABORTED"
  BY Zenon DEF NoNote
<1>2. note'[x] = note[x] /\ loan'[note[x].buffer].fed = loan[note[x].buffer].fed
  BY <1>1, Zenon
<1>3. note[x].length = loan[note[x].buffer].fed
  BY <1>2, Zenon DEF AbortCountsHandedOver
<1> QED
  BY ONLY <1>2, <1>3, Zenon

\* usart_wch_tx_finish_locked() counts the bytes DMA handed over, and has TC
\* awaited only if one of them is in the transmitter.
LEMMA FinishCounts ==
  ASSUME TxInv, AbortCountsHandedOver, tx.phase # "IDLE",
         NEW x \in Contexts, NEW type \in {"DONE", "ABORTED"}, NEW ok, ok = TRUE,
         NEW c, ByteChannel(c), SameBlock(c, dma), c.state # "UNCONFIGURED",
         Finish(x, type, ok, c), UNCHANGED <<tc, datar, shift, loan>>
  PROVE  AbortCountsHandedOver' /\ RefusalIsTemporary'
<1> DEFINE off == Stopped(c)
           count == HandedOver(type, ok, off)
           n == [type |-> type, cb |-> tx.callback, buffer |-> tx.buffer, length |-> count]
<1>1. PendingLength(off) = dma.cntr
  BY ByteStopped, BytesPending, Zenon DEF SameBlock
<1>2. /\ tx.buffer \in Buffers /\ tx.length \in Nat /\ dma.cntr \in 0 .. tx.length
      /\ loan[tx.buffer].fed = tx.length - dma.cntr
      /\ ~tc /\ dma.cntr # tx.length => ~Drained
  BY Bounds DEF TxInv, TransferInv, TypeOK, Transfer, Channel
<1>3. type = "ABORTED" => count = loan[tx.buffer].fed
  BY <1>1, <1>2 DEF Known, HandedOver
<1>4. /\ note' = [note EXCEPT ![x] = n]
      /\ tx' = [tx EXCEPT !.phase = "IDLE", !.buffer = Null, !.length = 0, !.deadline = Off,
                          !.needs_tc = NeedsTc(type, ok, off)]
  BY Zenon DEF Finish, Ended, TxInv, TypeOK, Transfer
<1> HIDE DEF count, off
<1>5. ASSUME NEW y \in Contexts, note'[y].type = "ABORTED"
      PROVE  note'[y].length = loan'[note'[y].buffer].fed
  <2>1. CASE y = x
    <3>1. note'[y] = n
      BY <1>4, <2>1, Zenon DEF TxInv, TypeOK
    <3> QED
      BY <1>3, <1>5, <3>1
  <2>2. CASE y # x
    <3>1. note'[y] = note[y]
      BY <1>4, <2>2, Zenon DEF TxInv, TypeOK
    <3> QED
      BY <1>5, <3>1, Zenon DEF AbortCountsHandedOver
  <2> QED
    BY <2>1, <2>2, Zenon
<1>6. tx'.needs_tc = NeedsTc(type, ok, off)
  BY <1>4, Zenon DEF TxInv, TypeOK, Transfer
<1>7. NeedsTc(type, ok, off) /\ ~tc => ~Drained
  BY <1>1, <1>2 DEF NeedsTc, Known, HandedOver
<1> QED
  BY <1>5, <1>6, <1>7, Zenon DEF AbortCountsHandedOver, RefusalIsTemporary, Drained

\* Every step keeps the counts and the reason to refuse.
LEMMA NextCounts ==
  ASSUME "status" \notin Faults, TxInv, AbortCountsHandedOver, RefusalIsTemporary, [Next]_vars
  PROVE  AbortCountsHandedOver' /\ RefusalIsTemporary'
<1>0. StatusOutcomes = {TRUE}
  BY Zenon DEF StatusOutcomes
<1>1. ASSUME NEW x \in Threads, AppCall(x)
      PROVE  AbortCountsHandedOver' /\ RefusalIsTemporary'
  <2>1. ASSUME NEW cb, usart_wch_async_callback_set(x, cb)
        PROVE  AbortCountsHandedOver' /\ RefusalIsTemporary'
    BY <2>1, Zenon DEF usart_wch_async_callback_set, hw, AbortCountsHandedOver, RefusalIsTemporary,
                Drained, TxInv, TypeOK, Transfer
  <2>2. ASSUME NEW b \in Buffers, NEW n \in 1 .. MaxLength, NEW t, usart_wch_tx(x, b, n, t)
        PROVE  AbortCountsHandedOver' /\ RefusalIsTemporary'
    <3>1. /\ tx'.needs_tc = FALSE /\ note' = note
          /\ \A a \in Buffers \ {b} : loan'[a] = loan[a]
      BY <2>2, Zenon DEF usart_wch_tx, Submitted, TxInv, TypeOK, Transfer
    <3>2. \A y \in Contexts : note[y] # NoNote => note[y].buffer \in Buffers \ {b}
      BY <2>2 DEF usart_wch_tx, TxInv, NoteInv, NoLoan
    <3> QED
      BY <3>1, <3>2, SameCounts, Zenon DEF RefusalIsTemporary
  <2>3. ASSUME NEW b, NEW n, NEW t, NEW f, usart_wch_tx_fails(x, b, n, t, f)
        PROVE  AbortCountsHandedOver' /\ RefusalIsTemporary'
    BY <2>3, Zenon DEF usart_wch_tx_fails, Refused, AbortCountsHandedOver, RefusalIsTemporary,
                Drained, TxInv, TypeOK, Transfer
  <2>4. ASSUME usart_wch_tx_abort(x)
        PROVE  AbortCountsHandedOver' /\ RefusalIsTemporary'
    BY <1>0, <2>4, FinishCounts, ActiveChannel, Bounds, Zenon DEF usart_wch_tx_abort
  <2>5. ASSUME usart_wch_tx_poll_out(x)
        PROVE  AbortCountsHandedOver' /\ RefusalIsTemporary'
    BY <2>5 DEF usart_wch_tx_poll_out, AbortCountsHandedOver, RefusalIsTemporary, Drained,
                Polled, Null
  <2> QED
    BY <1>1, <2>1, <2>2, <2>3, <2>4, <2>5, Zenon DEF AppCall
<1>2. ASSUME NEW x \in Contexts, usart_wch_tx_notify(x)
      PROVE  AbortCountsHandedOver' /\ RefusalIsTemporary'
  <2>1. /\ note' = [note EXCEPT ![x] = NoNote] /\ loan' = [loan EXCEPT ![note[x].buffer] = NoLoan]
        /\ UNCHANGED <<tx, tc, datar, shift>>
    BY <1>2, Zenon DEF usart_wch_tx_notify, hw
  <2>2. \A y \in Contexts \ {x} : note'[y] = note[y] /\ note[y].buffer # note[x].buffer
    BY <1>2, <2>1, Zenon DEF usart_wch_tx_notify, TxInv, TypeOK, NoteInv
  <2>3. \A y \in Contexts : note[y] # NoNote => note[y].buffer \in Buffers
    BY Zenon DEF TxInv, NoteInv
  <2>4. AbortCountsHandedOver'
    BY <2>1, <2>2, <2>3, SameCounts, Zenon DEF TxInv, TypeOK
  <2> QED
    BY <2>1, <2>4, Zenon DEF RefusalIsTemporary, Drained
<1>3. ASSUME dma_wch_isr
      PROVE  AbortCountsHandedOver' /\ RefusalIsTemporary'
  <2> DEFINE s == IsrStatus(dma, flags)
             c == IsrChannel(dma, flags)
  <2>1. usart_wch_tx_dma_callback(s, c) /\ UNCHANGED <<tc, datar, shift, loan>>
    BY <1>3, Zenon DEF dma_wch_isr
  <2>2. /\ ByteChannel(c) /\ SameBlock(c, dma)
        /\ s # "none" => c.state = "CONFIGURED"
    BY ByteIsr DEF TxInv
  <2> HIDE DEF s, c
  <2>3. CASE UNCHANGED <<tx, note>>
    BY <2>1, <2>3, Zenon DEF AbortCountsHandedOver, RefusalIsTemporary, Drained
  <2>4. CASE tx.phase = "DMA" /\ s # "none" /\ \E type \in {"DONE", "ABORTED"} : Finish("dma_isr", type, TRUE, c)
    BY <2>1, <2>2, <2>4, FinishCounts, Bounds, Zenon
  <2>5. CASE tx' = [tx EXCEPT !.phase = "WAIT_TC"] /\ UNCHANGED note
    BY <2>1, <2>5, Zenon DEF AbortCountsHandedOver, RefusalIsTemporary, Drained, TxInv, TypeOK, Transfer
  <2> QED
    BY <1>0, <2>1, <2>3, <2>4, <2>5, Zenon DEF usart_wch_tx_dma_callback, BlockFed
<1>4. ASSUME usart_wch_isr
      PROVE  AbortCountsHandedOver' /\ RefusalIsTemporary'
  BY <1>4, FinishCounts, ActiveChannel, Bounds, Zenon DEF usart_wch_isr
<1>5. ASSUME Tick
      PROVE  AbortCountsHandedOver' /\ RefusalIsTemporary'
  <2>1. /\ UNCHANGED <<note, tc, datar, shift>> /\ tx'.needs_tc = tx.needs_tc
        /\ \A b \in Buffers : loan'[b].fed = loan[b].fed
    BY <1>5, Zenon DEF Tick, hw, TxInv, TypeOK, Transfer, Loan
  <2>2. \A y \in Contexts : note[y] # NoNote => note[y].buffer \in Buffers
    BY Zenon DEF TxInv, NoteInv
  <2> QED
    BY <2>1, <2>2, SameCounts, Zenon DEF RefusalIsTemporary, Drained
<1>6. ASSUME Worker
      PROVE  AbortCountsHandedOver' /\ RefusalIsTemporary'
  <2>1. CASE UNCHANGED <<tx, tc, datar, shift, note, loan>>
    BY <2>1, Zenon DEF AbortCountsHandedOver, RefusalIsTemporary, Drained
  <2>2. CASE /\ tx.phase # "IDLE" /\ Finish("worker", "ABORTED", TRUE, dma)
             /\ UNCHANGED <<tc, datar, shift, loan>>
    BY <2>2, FinishCounts, ActiveChannel, Bounds, Zenon
  <2> QED
    BY <1>0, <1>6, <2>1, <2>2, Zenon
    DEF Worker, TimerFires, WorkerTakes, usart_wch_tx_timeout, Timed, hw
<1>7. ASSUME FeedByte
      PROVE  AbortCountsHandedOver' /\ RefusalIsTemporary'
  <2>1. /\ dma.maddr = tx.buffer /\ tx.buffer \in Buffers /\ ~tx.needs_tc
        /\ UNCHANGED <<tx, note>> /\ loan' = Count(tx.buffer, "fed")
    BY <1>7, Zenon DEF FeedByte, Feeding, TxInv, TypeOK, Transfer, PhaseInv, TransferInv
  <2>2. \A b \in Buffers \ {tx.buffer} : loan'[b] = loan[b]
    BY <2>1, Zenon DEF Count, TxInv, TypeOK
  <2>3. \A y \in Contexts : note[y] # NoNote => note[y].buffer \in Buffers \ {tx.buffer}
    BY Zenon DEF TxInv, NoteInv
  <2> QED
    BY <2>1, <2>2, <2>3, SameCounts, Zenon DEF RefusalIsTemporary
<1>8. ASSUME LoadShifter
      PROVE  AbortCountsHandedOver' /\ RefusalIsTemporary'
  BY <1>8, Zenon DEF LoadShifter, AbortCountsHandedOver, RefusalIsTemporary, Drained
<1>9. ASSUME ShiftOut
      PROVE  AbortCountsHandedOver' /\ RefusalIsTemporary'
  <2>1. /\ UNCHANGED <<tx, note, datar>> /\ (tc' <=> tc \/ datar = Null)
        /\ loan' = Count(shift, "sent")
    BY <1>9, Zenon DEF ShiftOut, TxInv, TypeOK
  <2>2. \A b \in Buffers : loan'[b].fed = loan[b].fed
    BY <2>1, Zenon DEF Count, TxInv, TypeOK, Loan
  <2>3. \A y \in Contexts : note[y] # NoNote => note[y].buffer \in Buffers
    BY Zenon DEF TxInv, NoteInv
  <2> QED
    BY <2>1, <2>2, <2>3, SameCounts, Zenon DEF RefusalIsTemporary, Drained
<1>10. ASSUME EngineError
       PROVE  AbortCountsHandedOver' /\ RefusalIsTemporary'
  BY <1>10, Zenon DEF EngineError, AbortCountsHandedOver, RefusalIsTemporary, Drained
<1>11. CASE UNCHANGED vars
  BY <1>11, Zenon DEF vars, hw, AbortCountsHandedOver, RefusalIsTemporary, Drained
<1> QED
  BY <1>1, <1>2, <1>3, <1>4, <1>5, <1>6, <1>7, <1>8, <1>9, <1>10, <1>11, Zenon
  DEF Next, Transmitter

-----------------------------------------------------------------------------
(* The theorems on safety.                                                 *)

\* The invariant holds in every reachable state.
LEMMA Invariance == Spec => []TxInv
  BY InitInv, NextInv, PTL DEF Spec

\* Every variable keeps its type: lengths, counts and ticks never leave the
\* bounds of the transfer they belong to, whatever the interleaving.
THEOREM TypeCorrect == Spec => []TypeOK
<1>1. TxInv => TypeOK
  BY Zenon DEF TxInv
<1> QED
  BY <1>1, Invariance, PTL

\* DMA reads only from the buffer of the transfer in progress, which the
\* application has lent.
THEOREM ReadsOnlyLent == Spec => []EngineReadsOnlyLent
<1>1. TxInv => EngineReadsOnlyLent
  BY Bounds
  DEF TxInv, TypeOK, Transfer, PhaseInv, TransferInv, ByteChannel, ChannelInv,
      EngineReadsOnlyLent, NoLoan
<1> QED
  BY <1>1, Invariance, PTL

\* An idle port is gated, after every way a transfer can end or be refused.
THEOREM IdleGated == Spec => []IdleIsGated
<1>1. TxInv => IdleIsGated
  BY Zenon DEF TxInv, PhaseInv, ByteChannel, ChannelInv, IdleIsGated
<1> QED
  BY <1>1, Invariance, PTL

\* The transmitter holds bytes of the transfer in progress only.
THEOREM OwnsTransmitter == Spec => []TransferOwnsTransmitter
<1>1. TxInv => TransferOwnsTransmitter
  BY Zenon DEF TxInv, TransferInv, TransferOwnsTransmitter
<1> QED
  BY <1>1, Invariance, PTL

\* No wake-up of the worker aborts a transfer before its timeout.
THEOREM NotEarly == Spec => []NeverAbortedEarly
<1>1. TxInv => NeverAbortedEarly
  BY Bounds, Zenon DEF TxInv, NoteInv, NeverAbortedEarly
<1> QED
  BY <1>1, Invariance, PTL

\* If dma_get_status() does not fail, the counts are exact and refusals end.
LEMMA CountInvariance ==
  ASSUME "status" \notin Faults
  PROVE  Spec => [](AbortCountsHandedOver /\ RefusalIsTemporary)
<1> DEFINE CountInv == TxInv /\ AbortCountsHandedOver /\ RefusalIsTemporary
<1>1. Init => CountInv
  BY InitInv DEF Init, AbortCountsHandedOver, RefusalIsTemporary, NoNote
<1>2. CountInv /\ [Next]_vars => CountInv'
  BY NextInv, NextCounts, Zenon
<1> QED
  BY <1>1, <1>2, PTL DEF Spec

\* UART_TX_ABORTED reports the number of bytes DMA handed to the USART, if
\* dma_get_status() does not fail.
THEOREM CountsExact ==
  ASSUME "status" \notin Faults
  PROVE  Spec => []AbortCountsHandedOver
  BY CountInvariance, PTL

\* While the port refuses transfers for want of TC a byte is on its way out, if
\* dma_get_status() does not fail.
THEOREM RefusesForNow ==
  ASSUME "status" \notin Faults
  PROVE  Spec => []RefusalIsTemporary
  BY CountInvariance, PTL

-----------------------------------------------------------------------------
(* The driver implements the contract.                                     *)

\* The invariant makes the holders unique.
LEMMA UniqueHolder == TxInv => Views
<1> SUFFICES ASSUME TxInv, NEW b \in Buffers
             PROVE  /\ tx.buffer = b => Abstract(b) = BusyView(b)
                    /\ \A x \in Contexts : note[x].buffer = b => Abstract(b) = EndedView(b, note[x])
                    /\ tx.buffer # b /\ (\A x \in Contexts : note[x].buffer # b)
                         => Abstract(b) = Contract!Mine
  BY Zenon DEF Views
<1>0. "transfer" \notin Contexts /\ b # Null
  BY Bounds, TxConstants, Zenon DEF Contexts, Isrs
<1>1. \A x \in Contexts : note[x].buffer = b =>
        tx.buffer # b /\ \A y \in Contexts \ {x} : note[y].buffer # b
  BY <1>0 DEF TxInv, NoteInv, NoNote
<1>2. ASSUME tx.buffer = b PROVE Abstract(b) = BusyView(b)
  <2>1. Holders(b) = {"transfer"}
    BY <1>1, <1>2, Zenon DEF Holders
  <2>3. ~\E y, z \in Holders(b) : y # z
    BY <2>1, Zenon
  <2> QED
    BY <2>1, <2>3, Zenon DEF Abstract, BusyView
<1>3. ASSUME NEW x \in Contexts, note[x].buffer = b PROVE Abstract(b) = EndedView(b, note[x])
  <2>1. Holders(b) = {x} /\ x # "transfer"
    BY <1>0, <1>1, <1>3, Zenon DEF Holders
  <2>2. (CHOOSE y \in Holders(b) : TRUE) = x
    BY <2>1, Zenon
  <2>3. /\ ~\E y, z \in Holders(b) : y # z
        /\ Holders(b) # {"transfer"} /\ Holders(b) # {}
    BY <2>1, <2>2, Zenon
  <2> QED
    BY <2>2, <2>3, Zenon DEF Abstract, EndedView
<1>4. ASSUME tx.buffer # b, \A x \in Contexts : note[x].buffer # b
      PROVE  Abstract(b) = Contract!Mine
  <2>1. Holders(b) = {}
    BY <1>4, Zenon DEF Holders
  <2>3. ~(\E y, z \in Holders(b) : y # z) /\ Holders(b) # {"transfer"}
    BY <2>1, Zenon
  <2> QED
    BY <2>1, <2>3, Zenon DEF Abstract, Contract!Mine
<1> QED
  BY <1>2, <1>3, <1>4, Zenon

\* A buffer whose holder, and what the holder knows of it, stays is seen the same.
LEMMA SameView ==
  ASSUME TxInv, Views, Views', NEW b \in Buffers,
         tx'.buffer = b <=> tx.buffer = b,
         tx.buffer = b => tx'.length = tx.length /\ tx'.callback = tx.callback,
         loan'[b].length = loan[b].length, loan'[b].sent = loan[b].sent,
         \A x \in Contexts : note[x].buffer = b \/ note'[x].buffer = b => note'[x] = note[x]
  PROVE  Abstract(b)' = Abstract(b)
<1>1. CASE tx.buffer = b
  BY <1>1, Zenon DEF Views, BusyView
<1>2. CASE \E x \in Contexts : note[x].buffer = b
  BY <1>2 DEF Views, EndedView
<1>3. CASE tx.buffer # b /\ \A x \in Contexts : note[x].buffer # b
  BY <1>3, Zenon DEF Views, Contract!Mine
<1> QED
  BY <1>1, <1>2, <1>3, Zenon

\* Steps the contract does not see.
LEMMA Unseen ==
  ASSUME TxInv, Views, Views', tx'.callback = tx.callback,
         tx'.buffer = tx.buffer, tx'.length = tx.length, UNCHANGED note,
         \A b \in Buffers : loan'[b].length = loan[b].length /\ loan'[b].sent = loan[b].sent
  PROVE  UNCHANGED Contract!vars
<1>1. \A b \in Buffers : Abstract(b)' = Abstract(b)
  BY SameView, Zenon
<1>2. [b \in Buffers |-> Abstract(b)]' = [b \in Buffers |-> Abstract(b)]
  BY <1>1, Zenon
<1> QED
  BY <1>2, Zenon DEF Contract!vars

\* A step that changes the view of one buffer.
LEMMA OneView ==
  ASSUME NEW b \in Buffers, NEW v, Abstract(b)' = v,
         \A a \in Buffers \ {b} : Abstract(a)' = Abstract(a)
  PROVE  [a \in Buffers |-> Abstract(a)]' = [[a \in Buffers |-> Abstract(a)] EXCEPT ![b] = v]
  BY Zenon

\* What End and Submit of the contract make of a record, field by field.
LEMMA EndedRecord ==
  ASSUME NEW b, NEW n, loan[b].length = tx.length, n.cb = tx.callback
  PROVE  EndedView(b, n)
           = [BusyView(b) EXCEPT !.state = "ended", !.type = n.type, !.count = n.length]
<1>1. PICK r1 : r1 = [BusyView(b) EXCEPT !.state = "ended"]
  BY Zenon
<1>2. PICK r2 : r2 = [r1 EXCEPT !.type = n.type]
  BY Zenon
<1>3. PICK r3 : r3 = [r2 EXCEPT !.count = n.length]
  BY Zenon
<1>4. r1 = [state |-> "ended", length |-> loan[b].length, sent |-> loan[b].sent, cb |-> n.cb,
            type |-> "none", count |-> 0]
  BY <1>1, Zenon DEF BusyView
<1>5. r2 = [state |-> "ended", length |-> loan[b].length, sent |-> loan[b].sent, cb |-> n.cb,
            type |-> n.type, count |-> 0]
  BY <1>2, <1>4, Zenon
<1>6. r3 = EndedView(b, n)
  BY <1>3, <1>5, Zenon DEF EndedView
<1> QED
  BY <1>1, <1>2, <1>3, <1>6, Zenon

\* The contract's record of a transfer just accepted.
LEMMA SubmittedRecord ==
  ASSUME NEW n, NEW c
  PROVE  [Contract!Mine EXCEPT !.state = "busy", !.length = n, !.cb = c]
         = [state |-> "busy", length |-> n, sent |-> 0, cb |-> c, type |-> "none", count |-> 0]
<1>1. PICK r1 : r1 = [Contract!Mine EXCEPT !.state = "busy"]
  BY Zenon
<1>2. PICK r2 : r2 = [r1 EXCEPT !.length = n]
  BY Zenon
<1>3. PICK r3 : r3 = [r2 EXCEPT !.cb = c]
  BY Zenon
<1>4. r1 = [state |-> "busy", length |-> 0, sent |-> 0, cb |-> "null", type |-> "none", count |-> 0]
  BY <1>1, Zenon DEF Contract!Mine
<1>5. r2 = [state |-> "busy", length |-> n, sent |-> 0, cb |-> "null", type |-> "none", count |-> 0]
  BY <1>2, <1>4, Zenon
<1>6. r3 = [state |-> "busy", length |-> n, sent |-> 0, cb |-> c, type |-> "none", count |-> 0]
  BY <1>3, <1>5, Zenon
<1>7. [Contract!Mine EXCEPT !.state = "busy", !.length = n, !.cb = c] = r3
  BY <1>1, <1>2, <1>3, Zenon
<1> QED
  BY <1>6, <1>7, Zenon

\* usart_wch_tx_finish_locked() is the contract's End.
LEMMA FinishIsEnd ==
  ASSUME TxInv, TxInv', Views, Views', tx.phase # "IDLE",
         NEW x \in Contexts, note[x] = NoNote,
         NEW type \in {"DONE", "ABORTED"}, NEW ok, NEW c,
         Finish(x, type, ok, c),
         type = "DONE" => tc /\ dma.cntr = 0,
         UNCHANGED <<tc, datar, shift, loan>>
  PROVE  Contract!Next
<1> DEFINE T == [a \in Buffers |-> Abstract(a)]
<1>1. PICK b \in Buffers : b = tx.buffer
  BY Zenon DEF TxInv, TransferInv
<1>2. b # Null /\ Abstract(b) = BusyView(b) /\ loan[b].length = tx.length
  BY <1>1, Bounds, Zenon DEF TxInv, TransferInv, Views
<1>3. PICK n \in Notification : n = note'[x]
  BY Zenon DEF TxInv, TypeOK
<1>4. /\ n.type = type /\ n.cb = tx.callback /\ n.buffer = b
      /\ \A y \in Contexts \ {x} : note'[y] = note[y]
      /\ tx'.callback = tx.callback /\ tx'.buffer = Null
  BY <1>1, <1>3, ZenonT(60) DEF Finish, Ended, TxInv, TypeOK, Transfer
<1>5. /\ n.length \in 0 .. MaxLength /\ n.length <= tx.length
      /\ type = "DONE" => n.length = tx.length /\ loan[b].sent = tx.length
  <2>1. note'[x] # NoNote
    BY <1>3, <1>4 DEF NoNote
  <2> QED
    BY <1>2, <1>3, <1>4, <2>1, ZenonT(60) DEF TxInv, NoteInv, Notification
<1>6. Abstract(b)' = EndedView(b, n)
  BY <1>3, <1>4, Zenon DEF Views, EndedView
<1>7. ASSUME NEW a \in Buffers \ {b} PROVE Abstract(a)' = Abstract(a)
  <2>1. a # Null /\ tx.buffer # a /\ tx'.buffer # a
    BY <1>1, <1>4, Bounds, Zenon
  <2>2. note[x].buffer # a /\ note'[x].buffer # a
    BY <1>3, <1>4, <2>1 DEF NoNote
  <2> QED
    BY <1>4, <2>1, <2>2, SameView, Zenon
<1>8. T[b] = BusyView(b) /\ Contract!Busy(b)
  BY <1>2 DEF Contract!Busy, BusyView
<1>9. T' = [T EXCEPT ![b].state = "ended", ![b].type = type, ![b].count = n.length]
  <2>1. EndedView(b, n) = [BusyView(b) EXCEPT !.state = "ended", !.type = type, !.count = n.length]
    BY <1>2, <1>4, EndedRecord, Zenon
  <2>2. T' = [T EXCEPT ![b] = EndedView(b, n)]
    BY <1>6, <1>7, OneView, Zenon
  <2>3. [T EXCEPT ![b].state = "ended", ![b].type = type, ![b].count = n.length]
          = [T EXCEPT ![b] = [T[b] EXCEPT !.state = "ended", !.type = type, !.count = n.length]]
    BY Zenon
  <2> QED
    BY <1>8, <2>1, <2>2, <2>3, Zenon
<1>10. Contract!End(b, type, n.length)
  BY <1>4, <1>5, <1>8, <1>9 DEF Contract!End, BusyView
<1> QED
  BY <1>5, <1>10, Zenon DEF Contract!Next

\* Without a transfer in progress the contract is quiet.
LEMMA IdleIsQuiet ==
  ASSUME Views, \A a \in Buffers : tx.buffer # a
  PROVE  Contract!Quiet
<1> SUFFICES ASSUME NEW a \in Buffers PROVE Abstract(a).state # "busy"
  BY Zenon DEF Contract!Quiet, Contract!Busy
<1>1. Abstract(a) = Contract!Mine \/ \E y \in Contexts : Abstract(a) = EndedView(a, note[y])
  BY Zenon DEF Views
<1> QED
  BY <1>1 DEF Contract!Mine, EndedView

\* usart_wch_tx() is the contract's Submit.
LEMMA TransmitIsSubmit ==
  ASSUME TxInv, TxInv', Views, Views', NEW x \in Threads, NEW b \in Buffers,
         NEW n \in 1 .. MaxLength, NEW t \in Timeouts, usart_wch_tx(x, b, n, t)
  PROVE  Contract!Next
<1> DEFINE T == [a \in Buffers |-> Abstract(a)]
<1>1. /\ tx.phase = "IDLE" /\ tx.callback # "null" /\ loan[b] = NoLoan /\ note' = note
      /\ tx'.callback = tx.callback /\ tx'.buffer = b /\ tx'.length = n
      /\ loan'[b].sent = 0 /\ \A a \in Buffers \ {b} : loan'[a] = loan[a]
  BY ZenonT(60) DEF usart_wch_tx, Accepts, Submitted, NoLoan, TxInv, TypeOK, Transfer
<1>2. \A a \in Buffers : tx.buffer # a
  BY <1>1, Bounds, Zenon DEF TxInv, PhaseInv
<1>3. \A y \in Contexts : note[y].buffer # b
  BY <1>1, Bounds DEF TxInv, NoteInv, NoNote, NoLoan
<1>4. T[b] = Contract!Mine
  BY <1>2, <1>3, Zenon DEF Views
<1>5. Contract!Quiet
  BY <1>2, IdleIsQuiet, Zenon
<1>6. Abstract(b)' = [Contract!Mine EXCEPT !.state = "busy", !.length = n, !.cb = tx.callback]
  <2>1. Abstract(b)' = [state |-> "busy", length |-> n, sent |-> 0, cb |-> tx.callback,
                        type |-> "none", count |-> 0]
    BY <1>1, Zenon DEF Views, BusyView
  <2> QED
    BY <2>1, SubmittedRecord, Zenon
<1>7. \A a \in Buffers \ {b} : Abstract(a)' = Abstract(a)
  BY <1>1, <1>2, SameView, Zenon
<1>8. T' = [T EXCEPT ![b] = [Contract!Mine EXCEPT !.state = "busy", !.length = n,
                                                  !.cb = tx.callback]]
  BY <1>6, <1>7, OneView, Zenon
<1>9. Contract!Submit(b, n)
  BY <1>1, <1>4, <1>5, <1>8, Zenon DEF Contract!Submit
<1>10. n \in 0 .. MaxLength
  BY Bounds
<1> QED
  BY <1>9, <1>10, Zenon DEF Contract!Next

\* usart_wch_tx_notify() is the contract's Tell.
LEMMA NotifyIsTell ==
  ASSUME TxInv, TxInv', Views, Views', NEW x \in Contexts, usart_wch_tx_notify(x)
  PROVE  Contract!Next
<1> DEFINE T == [a \in Buffers |-> Abstract(a)]
<1>1. PICK b \in Buffers : b = note[x].buffer
  BY Zenon DEF usart_wch_tx_notify, TxInv, NoteInv
<1>2. /\ b # Null /\ tx.buffer # b /\ \A y \in Contexts \ {x} : note[y].buffer # b
  BY <1>1, Bounds, ZenonT(60) DEF usart_wch_tx_notify, TxInv, NoteInv
<1>3. /\ tx' = tx /\ note'[x] = NoNote /\ \A y \in Contexts \ {x} : note'[y] = note[y]
      /\ \A a \in Buffers \ {b} : loan'[a] = loan[a]
  <2>1. /\ tx' = tx /\ note' = [note EXCEPT ![x] = NoNote]
        /\ loan' = [loan EXCEPT ![b] = NoLoan]
    BY <1>1, Zenon DEF usart_wch_tx_notify
  <2>2. note \in [Contexts -> Notification] /\ loan \in [Buffers -> Loan]
    BY Zenon DEF TxInv, TypeOK
  <2> QED
    BY ONLY <2>1, <2>2, x \in Contexts, b \in Buffers, Zenon
<1>4. T[b].state = "ended"
  BY <1>1 DEF Views, EndedView
<1>5. Abstract(b)' = Contract!Mine
  <2>1. \A y \in Contexts : note'[y].buffer # b
    BY <1>2, <1>3 DEF NoNote
  <2> QED
    BY <1>2, <1>3, <2>1, Zenon DEF Views, Contract!Mine
<1>6. ASSUME NEW a \in Buffers \ {b} PROVE Abstract(a)' = Abstract(a)
  <2>1. note[x].buffer # a /\ note'[x].buffer # a
    BY <1>1, <1>3, Bounds DEF NoNote
  <2> QED
    BY <1>3, <2>1, SameView, Zenon
<1>7. T' = [T EXCEPT ![b] = Contract!Mine]
  BY <1>5, <1>6, OneView, Zenon
<1>8. Contract!Tell(b)
  BY <1>3, <1>4, <1>7, Zenon DEF Contract!Tell
<1> QED
  BY <1>8, Zenon DEF Contract!Next

\* A byte that leaves the shifter is the contract's Send if it is one of a
\* buffer the driver holds.
LEMMA ShiftOutIsSend ==
  ASSUME TxInv, TxInv', Views, Views', ShiftOut
  PROVE  Contract!Next \/ UNCHANGED Contract!vars
<1> DEFINE T == [a \in Buffers |-> Abstract(a)]
<1>1. loan' = Count(shift, "sent") /\ UNCHANGED <<tx, note>>
  BY Zenon DEF ShiftOut
<1>2. CASE loan' = loan
  BY <1>1, <1>2, Unseen, Zenon
<1>3. CASE loan' # loan
  <2>1. PICK b \in Buffers : b = shift
    BY <1>1, <1>3, Zenon DEF Count, TxInv, TypeOK, Null, Polled
  <2>2. loan[b] # NoLoan /\ loan' = [loan EXCEPT ![b].sent = @ + 1]
    BY <1>1, <1>3, <2>1, Zenon DEF Count
  <2>3. /\ loan[b] \in Loan /\ loan[b].sent < loan[b].length
        /\ loan[b].length \in 0 .. MaxLength /\ loan[b].sent \in Nat
    <3>1. loan[b] \in Loan /\ LoanInv(b) /\ Held(b, shift) = 1 /\ Held(b, datar) \in Nat
      BY <2>1, Zenon DEF TxInv, TypeOK, Held
    <3> QED
      BY <2>2, <3>1 DEF LoanInv, Loan
  <2>4. /\ loan'[b].sent = loan[b].sent + 1 /\ loan'[b].length = loan[b].length
        /\ \A a \in Buffers \ {b} : loan'[a] = loan[a]
    BY <2>2, <2>3, Zenon DEF TxInv, TypeOK, Loan
  <2>5. \A a \in Buffers \ {b} : Abstract(a)' = Abstract(a)
    BY <1>1, <2>4, SameView, Zenon
  <2>6. ASSUME Contract!Busy(b) \/ T[b].type = "ABORTED", T[b].sent = loan[b].sent,
               Abstract(b)' = [T[b] EXCEPT !.sent = @ + 1]
        PROVE  Contract!Next
    <3>1. T' = [T EXCEPT ![b] = [T[b] EXCEPT !.sent = @ + 1]]
      BY <2>5, <2>6, OneView, Zenon
    <3>2. T' = [T EXCEPT ![b].sent = @ + 1]
      BY <3>1, Zenon
    <3>3. T[b].sent < MaxLength
      BY <2>3, <2>6, Bounds
    <3>4. Contract!Send(b)
      BY <1>1, <2>6, <3>2, <3>3, Zenon DEF Contract!Send
    <3> QED
      BY <3>4, Zenon DEF Contract!Next
  <2>7. CASE tx.buffer = b
    <3>1. T[b] = BusyView(b) /\ Abstract(b)' = [BusyView(b) EXCEPT !.sent = loan[b].sent + 1]
      BY <1>1, <2>4, <2>7 DEF Views, BusyView
    <3>2. Contract!Busy(b) /\ BusyView(b).sent = loan[b].sent
      BY <3>1, ZenonT(60) DEF Contract!Busy, BusyView
    <3> QED
      BY <2>6, <3>1, <3>2, Zenon
  <2>8. CASE \E x \in Contexts : note[x].buffer = b
    <3>1. PICK x \in Contexts : note[x].buffer = b
      BY <2>8, Zenon
    <3>2. PICK n \in Notification : n = note[x]
      BY Zenon DEF TxInv, TypeOK
    <3>3. T[b] = EndedView(b, n) /\ Abstract(b)' = [EndedView(b, n) EXCEPT !.sent = loan[b].sent + 1]
      BY <1>1, <2>4, <3>1, <3>2 DEF Views, EndedView
    <3>4. n.type = "ABORTED"
      <4>1. note[x] # NoNote
        BY <3>1, Bounds DEF NoNote
      <4>2. /\ n.type \in {"DONE", "ABORTED"}
            /\ n.type = "DONE" => n.length = loan[b].length /\ loan[b].sent = n.length
        BY <3>1, <3>2, <4>1, Zenon DEF TxInv, NoteInv
      <4> QED
        BY ONLY <2>3, <4>2
    <3>5. EndedView(b, n).type = "ABORTED" /\ EndedView(b, n).sent = loan[b].sent
      BY <3>4, Zenon DEF EndedView
    <3> QED
      BY <2>6, <3>3, <3>5, Zenon
  <2>9. CASE tx.buffer # b /\ \A x \in Contexts : note[x].buffer # b
    <3>1. Abstract(b)' = Abstract(b)
      BY <1>1, <2>9, Zenon DEF Views, Contract!Mine
    <3>2. T' = T
      BY <2>5, <3>1, Zenon
    <3> QED
      BY <1>1, <3>2, Zenon DEF Contract!vars
  <2> QED
    BY <2>7, <2>8, <2>9, Zenon
<1> QED
  BY <1>2, <1>3, Zenon

\* The callback changes while the contract is quiet.
LEMMA CallbackIsSet ==
  ASSUME TxInv, TxInv', Views, Views', NEW x, NEW cb \in Callbacks \cup {"null"},
         usart_wch_async_callback_set(x, cb)
  PROVE  Contract!Next
<1> DEFINE T == [a \in Buffers |-> Abstract(a)]
<1>1. /\ tx.phase = "IDLE" /\ tx'.callback = cb /\ tx'.buffer = tx.buffer
      /\ note' = note /\ loan' = loan
  BY Zenon DEF usart_wch_async_callback_set, TxInv, TypeOK, Transfer
<1>2. \A a \in Buffers : tx.buffer # a
  BY <1>1, Bounds, Zenon DEF TxInv, PhaseInv
<1>3. \A a \in Buffers : Abstract(a)' = Abstract(a)
  BY <1>1, <1>2, SameView, Zenon
<1>4. T' = T
  BY <1>3, Zenon
<1>5. Contract!Quiet
  BY <1>2, IdleIsQuiet, Zenon
<1>6. Contract!SetCallback(cb)
  BY <1>1, <1>4, <1>5, Zenon DEF Contract!SetCallback
<1> QED
  BY <1>6, Zenon DEF Contract!Next

\* The DMA handler ends the transfer, or the contract does not see it.
LEMMA DmaIsrIsEnd ==
  ASSUME TxInv, TxInv', Views, Views', dma_wch_isr
  PROVE  Contract!Next \/ UNCHANGED Contract!vars
<1> DEFINE s == IsrStatus(dma, flags)
           c == IsrChannel(dma, flags)
<1>1. /\ note["dma_isr"] = NoNote /\ usart_wch_tx_dma_callback(s, c)
      /\ UNCHANGED <<tc, datar, shift, loan>>
  BY Zenon DEF dma_wch_isr, IsrQuiet, Isrs
<1>2. s = "COMPLETE" => "TC" \in flags
  BY ByteIsr, Zenon DEF TxInv
<1> HIDE DEF s, c
<1>3. CASE UNCHANGED <<tx, note>>
  BY <1>1, <1>3, Unseen, Zenon
<1>4. CASE tx.phase = "DMA" /\ \E ok \in StatusOutcomes : Finish("dma_isr", "ABORTED", ok, c)
  BY <1>1, <1>4, FinishIsEnd, Bounds, Zenon
<1>5. CASE tx.phase = "DMA" /\ s = "COMPLETE" /\ tc /\ Finish("dma_isr", "DONE", TRUE, c)
  <2>1. dma.cntr = 0
    BY <1>2, <1>5, Zenon DEF TxInv, PhaseInv
  <2> QED
    BY <1>1, <1>5, <2>1, FinishIsEnd, Bounds, Zenon
<1>6. CASE tx' = [tx EXCEPT !.phase = "WAIT_TC"] /\ UNCHANGED note
  BY <1>1, <1>6, Unseen, Zenon DEF TxInv, TypeOK, Transfer
<1> QED
  BY <1>1, <1>3, <1>4, <1>5, <1>6, Zenon DEF usart_wch_tx_dma_callback, BlockFed

\* Every step of the driver is a step of the contract, or one it does not see.
LEMMA StepRefines ==
  ASSUME TxInv, TxInv', Views, Views', [Next]_vars
  PROVE  [Contract!Next]_(Contract!vars)
<1>1. ASSUME NEW x \in Threads, AppCall(x)
      PROVE  Contract!Next \/ UNCHANGED Contract!vars
  <2>1. ASSUME NEW b, NEW n, NEW t, NEW f, usart_wch_tx_fails(x, b, n, t, f)
        PROVE  UNCHANGED Contract!vars
    BY <2>1, Unseen, Zenon DEF usart_wch_tx_fails, Refused, TxInv, TypeOK, Transfer
  <2>2. ASSUME usart_wch_tx_abort(x) PROVE Contract!Next
    BY <2>2, FinishIsEnd, Bounds, Zenon DEF usart_wch_tx_abort, CanRun
  <2>3. ASSUME usart_wch_tx_poll_out(x) PROVE UNCHANGED Contract!vars
    BY <2>3, Unseen, Zenon DEF usart_wch_tx_poll_out, TxInv, TypeOK, Transfer
  <2> QED
    BY <1>1, <2>1, <2>2, <2>3, CallbackIsSet, TransmitIsSubmit, Zenon DEF AppCall
<1>2. CASE usart_wch_isr
  <2>1. /\ note["uart_isr"] = NoNote /\ dma.cntr = 0 /\ tc /\ tx.phase # "IDLE"
        /\ Finish("uart_isr", "DONE", TRUE, dma) /\ UNCHANGED <<tc, datar, shift, loan>>
    BY <1>2, Zenon DEF usart_wch_isr, IsrQuiet, Isrs, TxInv, PhaseInv
  <2> QED
    BY <2>1, FinishIsEnd, Bounds, Zenon
<1>3. CASE Tick
  BY <1>3, Unseen DEF Tick, TxInv, TypeOK, Transfer, Loan
<1>4. CASE Worker
  <2>1. CASE UNCHANGED <<tx, note, loan>>
    BY <2>1, Unseen, Zenon
  <2>2. CASE /\ tx.phase # "IDLE" /\ note["worker"] = NoNote
             /\ \E ok \in StatusOutcomes : Finish("worker", "ABORTED", ok, dma)
             /\ UNCHANGED <<tc, datar, shift, loan>>
    BY <2>2, FinishIsEnd, Bounds, Zenon
  <2> QED
    BY <1>4, <2>1, <2>2, Zenon
    DEF Worker, TimerFires, WorkerTakes, usart_wch_tx_timeout, Timed, CanRun
<1>5. CASE FeedByte
  <2>1. /\ UNCHANGED <<tx, note>>
        /\ \A b \in Buffers : loan'[b].length = loan[b].length /\ loan'[b].sent = loan[b].sent
    BY <1>5, ZenonT(60) DEF FeedByte, Count, TxInv, TypeOK, Loan
  <2> QED
    BY <2>1, Unseen, Zenon
<1>6. CASE UNCHANGED <<tx, note, loan>>
  BY <1>6, Unseen, Zenon
<1> QED
  BY <1>1, <1>2, <1>3, <1>4, <1>5, <1>6, NotifyIsTell, DmaIsrIsEnd, ShiftOutIsSend, Zenon
  DEF Next, Transmitter, LoadShifter, EngineError, vars

\* Asynchronous transmission implements its contract: one transfer at a time,
\* one terminal event for every accepted buffer, to the callback that accepted
\* it, UART_TX_DONE only once all its bytes have left the shifter.
THEOREM Refinement == Spec => ImplementsContract
<1>1. Init => Contract!Init
  <2> SUFFICES ASSUME Init PROVE Contract!Init
    BY Zenon
  <2>1. Views
    BY InitInv, UniqueHolder, Zenon
  <2>2. \A b \in Buffers : Abstract(b) = Contract!Mine
    BY <2>1, Bounds, Zenon DEF Init, Views, NoNote
  <2> QED
    BY <2>2, Zenon DEF Init, Contract!Init
<1>2. TxInv /\ TxInv' /\ [Next]_vars => [Contract!Next]_(Contract!vars)
  BY UniqueHolder, StepRefines, PTL
<1> QED
  BY <1>1, <1>2, Invariance, PTL DEF Spec, ImplementsContract, Contract!Spec
=============================================================================
