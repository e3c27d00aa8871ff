# A TLA+ verification of the WCH drivers

This directory models the Zephyr drivers for the WCH CH32V203 in
`src/drivers/`: TLA+ modules translated from the C sources, TLC configurations
that check them on small instances, and TLAPS proofs that hold for every
instance. `PROJECT.json` maps every definition to the source lines it stands
for and lists the runs, the mutants, the findings, the hazards and the theorems.

    tlc -config MCDmaWch.cfg MCDmaWch          # one run; the others alike
    tlapm DmaWchProofs.tla                     # one proof module, a minute

The other proof modules are checked alike: `DmaChannelProofs` and
`UartInitProofs` take seconds, `UartTxProofs` and `UdcBusProofs` three or four
minutes, `UdcWchProofs`, `UartRxProofs` and `UdcStepProofs` six to eleven.

## 1. The system

The part has one core. `irq_lock()` and `k_spin_lock()` therefore make a
section atomic for every thread and every handler, but not for the hardware:
the DMA engine and the USART go on while the processor is locked. Everything
below is about what that leaves open.

| Component | Source | State | Operations |
|---|---|---|---|
| DMA controller | `dma/dma_wch.c` | per channel: software state, callback, length, width; CFGR, CNTR, addresses; two shared flag registers | config, reload, start, stop, suspend, resume, get_status, release, interrupt handler |
| UART transmission | `serial/uart_wch_tx_impl.h` | phase, buffer, length, deadline, `needs_tc`, callback; work item | callback_set, tx, tx_abort, poll_out, DMA callback, TC interrupt, deadline worker |
| UART reception | `serial/uart_wch_rx_impl.h` | phase, current and next buffer, `request_open`, generation, ring of 12 notes, `dispatching` | rx_enable, rx_buf_rsp, rx_disable, poll_in, dispatcher, DMA callback, error interrupt |
| UART initialisation | `serial/uart_wch_usart.c`, `uart_wch_tx_impl.h` | divisor, reservation of two channels | init with rollback |
| UART interrupt API | `serial/uart_wch_usart.c` | callback pointer, enable bits | fifo_fill, fifo_read, err_check, irq_* |
| UART helpers | `serial/uart_wch_contract.h` | none | divisor, buffer check, receive delta |
| UART interrupt trace | `serial/uart_wch_irq_trace.h` | counters, event ring, freeze at the first error | enter, exit, status, event |
| USB device controller | `usb/udc_wch.c` | four endpoints, staging RAM, masked interrupt and worker | enqueue, dequeue, enable, disable, halt, address, worker, reset |
| USB clock | `usb/udc_wch_ch32v203.h` | USB divider, debug pins, clock gates | prepare, unprepare |

How they interact: the UART driver reserves two DMA channels, programs them
with `dma_config()`, and is called back from the DMA interrupt handler with
interrupts locked. Both directions of a port share one spinlock, one callback
pointer and one UART interrupt handler. The application is called after the
unlock, and may call back into the driver from there. The USB controller uses
no DMA channel and is independent of the rest.

What makes each part hard, and what it has to guarantee:

- **DMA.** The engine raises flags between the handler's read and its clear;
  interrupts pended for a transfer arrive after it was stopped or replaced;
  eight channels share a register. Required: no event is lost, none is
  attributed to the wrong transfer, the engine never runs on a channel the
  software takes for idle, counts are those of the block.
- **UART transmission.** Abort, deadline, bus error and completion race; DMA
  completion is not the end of transmission; the worker of an old transfer runs
  during a new one; set-up fails halfway. Required: one terminal event per
  transfer, to the right callback, with the right count, and nothing reads the
  buffer afterwards; a deadline neither early nor lost.
- **UART reception.** Any context may queue notes while one other dispatches
  them unlocked; buffers are handed over in the interrupt; errors and completion
  coincide. Required: buffers come back once, after their data was reported and
  before the session ends; the ring never overflows; no byte is lost silently.
- **UART initialisation, USB clock.** A step fails after earlier ones were done.
  Required: everything acquired is given back, and nobody else's.
- **UART interrupt API, interrupt trace.** The thread's read-modify-write of a
  control register is interrupted by a handler that writes the same register;
  error flags come up between two register reads and are cleared by the second;
  the tick counter wraps inside a callback. Required: what was received is
  echoed, in order; errors that are cleared are recorded; times are right.
- **USB controller.** The handler masks the controller and leaves flags latched
  for a worker; SETUP, reset and overflow supersede transfers; packets and
  handshakes get lost; quiescing may fail. Required: each request is completed
  once, with the data of its own packets, and the controller is never left
  masked.

## 2. The modules

| Module | Models | Lines of interest |
|---|---|---|
| `DmaChannel` | one channel as a value, each entry point as an operator on it | `dma_wch.c:142-577` |
| `DmaWch` | all channels, both flag registers, the handler, the engine | `dma_wch.c:64-124, 533-580` |
| `UartTx` | transmission on one channel, USART transmitter, deadline worker | `uart_wch_tx_impl.h` |
| `UartRx` | reception on one channel, USART receiver, dispatcher | `uart_wch_rx_impl.h` |
| `TxContract`, `RxContract` | what the two directions promise the application; no code of their own | |
| `UartInit` | bring-up of two ports beside other DMA clients | `uart_wch_usart.c:92-157`, `uart_wch_tx_impl.h:135-160` |
| `IrqTrace` | the trace record, each function as an operator on it | `uart_wch_irq_trace.h` |
| `UartIrq` | the interrupt-driven API under the echo application | `uart_wch_usart.c:202-404`, `tests/drivers/uart_irq/src/main.c` |
| `UdcWch` | the USB driver's functions on its data and registers | `udc_wch.c:84-529` |
| `UdcBus` | the stack's calls, handler and worker, controller, host | `udc_wch.c:286-567` |
| `UdcClock` | clock and pins as functions of one record, used by `UdcBus` | `udc_wch_ch32v203.h` |
| `MC*` | constants and symmetry for TLC | |
| `UartTxInv`, `UartRxInv`, `UdcWchInv`, `UdcBusInv` | inductive invariants and the relations the proofs are stated in; no code of their own | |
| `DmaChannelProofs`, `DmaWchProofs` | lemmas about one channel, theorems about `DmaWch` | |
| `UartTxProofs`, `UartRxProofs` | theorems about `UartTx` and `UartRx`, the refinements included | |
| `UartInitProofs` | theorem about `UartInit` | |
| `UdcStepProofs`, `UdcWchProofs`, `UdcBusProofs` | theorems about `UdcBus` (section 4) | |

**DmaChannel** is the software record and the registers of one channel in one
record. `ConfigResult`, `ReloadResult` and `StartResult` follow the early
returns of their functions in order; `Configured`, `Reloaded`, `Started`,
`Stopped`, ... give the channel afterwards. The same operators are used by
`DmaWch`, `UartTx` and `UartRx`, so the UART models run on the DMA driver's
code and not on a simplification of it. The engine's part (`Moved`, `MoveFlags`,
`Faulted`) is external, as the driver assumes it: one element at a time, half
flag, completion flag at zero, reload in circular mode, EN cleared on a bus
error. Rejected features of a configuration are four Booleans, one for each
group of checks that returns the same way.

**DmaWch.** An entry point is one action, since it runs under `irq_lock()`; a
call that returns an error changes nothing and is not an action. The handler is
two actions, `dma_wch_isr_enter` (read the flags) and `dma_wch_isr_service`
(clear them, put the channel right, call back), with the engine free to move
and to raise flags between them. During the callback any entry point may be
called on any channel. `intfr` holds bit numbers, so that the offsets and the
two banks of the code are really computed; a write to INTFCR with the global
bit clears the group. `pfic` keeps interrupts pending even when their flags
have been cleared. `raised` is a history variable: the events of the current
transfer that were not yet handled.

**UartTx.** The locked part of an entry point is one action and delivering its
notification another. Handlers finish before threads go on. `datar` and `shift`
hold the buffer a byte belongs to, not its value. Times are what is left of
them, the difference the code forms. `work` is Zephyr's delayable work item: a
timer, a queued invocation and a running one can exist together. The history
variable `loan` records what was lent, to be told by which callback, how many
bytes were fed and shifted out, and the ticks left. Two assumptions about the
hardware: DMA answers within one character time, so TC rises only when nothing
is left to feed; and reading STATR then writing DATAR clears TC, which
`tests/unit/uart_tx_native/src/main.c` states too.

**UartRx.** As above; after the locked part comes the dispatcher, one action for
each note it delivers, with the lock free during the callback. A call from
inside a callback finds `dispatching` set and returns. The UART handler also
dispatches when it ran for the transmitter (`usart_wch_isr_tx`). Buffers are
intervals of addresses, so that the overlap test is the code's arithmetic.
`loan` and `missing` are history variables: bytes stored and reported per
buffer and whether `dma_get_status()` could tell them; a byte lost in the
session.

**TxContract, RxContract** know nothing of DMA, registers, queues or workers.
For transmission a buffer is the application's, in the one transfer, or in one
event on its way; the event is given to the callback registered at submission,
and DONE needs every byte sent. For reception there are sessions, at most one
open request, buffers lent and returned once after all that was stored in them
was reported (or, if the count was not to be had, after a note of the error that
stops the session), one context at a time in the callback, DISABLED last. The mapping
is computed from the driver's state: `Abstract(b)` is who holds buffer `b` (the
transfer record, a note in a context or in the queue), and a buffer with two
holders is mapped to a value the contract cannot reach. Every step of the driver
must then be a step of the contract or a stutter.

**UartInit.** One call is one action with its early return chosen by `fault`;
channel requests go through the DMA core's allocation, in which other clients
take and release channels at any time. Two ports, so that one port's rollback
could hit the other's channels.

**UartIrq, IrqTrace.** The thread's enables are a load and a store each
(`err_enable` one pair per register), the handler is one action per register
access, and the wire moves between any two. STATR then DATAR clears the error
flags that were seen at the STATR read, and only those. Bytes are numbered, so
that loss, repetition and order show. `hist.log` is what the ring should hold,
kept with unwrapped time.

**UdcWch, UdcBus.** `dev` is the driver's data and the controller's registers in
one record; the functions of the driver are operators on it. A call of the stack
is one action under the mutex; `wch_kick()` on EP0 is two, since a SETUP may come
between its check and its copy. The worker takes the mutex in `WorkRead` and
then goes through its branches step by step, with handler, controller and host
running beside it. A transaction is a token accepted by the controller (which
makes `SIE_FREE` false, so that `wch_quiesce()` may give up) and then its end:
acknowledged, lost, unheard, overflowed. The host keeps its own toggles and
repeats a packet whose handshake it did not hear. Packets are of two bytes
(`MPS` for 64), so that a request of three takes a full and a short one.
Ghosts: `id` and packet counts of requests, `done` (what came back, whether it
moved exactly what it claims, whether an overflow is in it), `skew` and `unheard`
(a cancelled request left the two ends' toggles ambiguous, which USB resolves
only by a clear-halt or a new configuration; exactness is not claimed until
then), `refused` (the last quiesce of the endpoint gave up).

`clk` is the record of `UdcClock`: bring-up fails at a step the action chooses,
and shutdown restores what was saved.

Taken from the way the driver uses Zephyr's UDC core and the controller:
`udc_setup_received()` cancels what is queued on EP0, clears busy and hands over
or keeps the SETUP; `INT_BUSY` refuses tokens while TRANSFER is latched;
`SIE_FREE` and the flag read after it are one step; writing 0 to CTRL stops the
controller. The host addresses bulk endpoints only once configured, EP0 data
only after a SETUP, and leaves a pipe alone while it clears its halt. The stack
queues control data only for the SETUP it took.

## 3. The runs

Times are for two workers.

| Run | Shows | States | Time |
|---|---|---|---|
| `dma` | channels 0 and 8, which share an index in different flag registers, every kind of refused request: engine and software agree, no flag is stale or lost, callbacks are truthful, positions lie in the block, a channel whose transfer is over does not stay busy | 195,300 | 60 s |
| `tx_faults` | two threads, every provider call failing at any time: `TxContract` is implemented, DMA reads only lent memory, the transmitter is not shared, an idle port is gated, no deadline is early | 428,098 | 100 s |
| `tx_live` | a provider that works, hardware that may stall: right counts, no lock-out, the deadline ends its transfer; with working hardware every transfer ends | 32,982 | 22 s |
| `rx` | two threads, overlapping buffers, failing DMA calls, in the hand-over too: `RxContract` is implemented, seven notes suffice, no byte is lost silently, a stopping session ends, an active one gets to ask for its next buffer | 80,268 | 51 s |
| `udc_bulk` | two bulk endpoints, lost packets and handshakes, halts, cancellations: success is exact, what is ready is armed, no completion is credited to another request | 768,912 | 32 s |
| `udc_control` | SETUP at any time over data stages, stalls and resets: a kept SETUP is neither stalled nor answered with old data | 1,929,331 | 60 s |
| `udc_bus` | reset, suspend, overflow, endpoint disabling, restart, failing bring-up on six boards: each request comes back once and never successfully with a damaged packet, clock and pins are restored, no completion is left unserved | 505,784 | 101 s |
| `irq` | bytes, overruns and framing errors between any two register accesses: the echo is faithful and completes, cleared errors are recorded, the ring's times are right across the counter's wrap | 1,671,107 | 75 s |
| `uart_init` | two ports, a failure at every step, other DMA clients: all or nothing, and an exact divisor | 67,081 | 2 s |
| `udc_clear`, `udc_preempt`, `irq_loss` | the findings below | | |

Every property of every passing run has a mutant: a plausible slip in the mapped
code that TLC then finds with that property (operators whose comment begins with
`Mutation:`; they are used by nothing else).

### Findings

Places where the code does not do what the repository says of it.

- **Clear-halt of an endpoint that is not halted** (`udc_clear`,
  `udc_wch.c:425`). "clear-halt resets DATA0 and restarts pending work"
  (`docs/usb-udc.md:71-72`). With a packet armed, the NAK that resets the toggle
  also disarms the endpoint, and `wch_kick()` finds it busy and returns: the
  request waits until it is cancelled.
- **SETUP between check and copy** (`udc_preempt`, `udc_wch.c:126`).
  `docs/usb-udc.md:42-43` promises "EP0 SETUP preemption safety" for the copies.
  A SETUP received after `wch_kick()` looked for one and before it copies an IN
  packet into the same buffer is overwritten.
- **Overrun after the application's check** (`irq_loss`, `uart_wch_usart.c:285`).
  The echo application says "do not hide loss"
  (`tests/drivers/uart_irq/src/main.c:54`), but an overrun that comes up between
  its `uart_err_check()` and the STATR read of `fifo_read()` is cleared by a call
  that returns only the byte. `docs/hardware-20260910-irq-trace.md:52` records
  this on silicon.

### Also seen while modelling

Behaviour of the code that the models contain, and that no run is listed for.

- The bus resumes after the worker read `SUSPEND`'s state and before it
  acknowledges the flag (`udc_wch.c:313-318`): both changes go with one flag,
  and the stack keeps the older state until the next change.
- A halt serves a latched completion itself (`udc_wch.c:165`), ahead of a FIFO
  overflow latched with it, which the worker would have looked at first.
  `NoCorruptedSuccess` is therefore claimed without halts.
- A cancelled request whose completion is latched is acknowledged without
  advancing the toggle, and a lost ACK leaves the host's toggle unknown:
  `SuccessIsExact` makes no claim for such an endpoint until its toggle is reset.
- After -EBUSY from `wch_quiesce()` the endpoint stays NAKed and busy until the
  stack tries again; `ReadyIsArmed` excepts it.
- Dequeuing on a halted endpoint replaces STALL by NAK while `halted` stays set.
- A reset and a later SETUP found in one read of the flags: the reset's service
  discards the SETUP, which the host repeats.
- The AFIO clock stays on after `wch_shutdown()`, and a failed
  `usart_wch_init()` leaves the UART's clock on.

### Bounds

`MaxBlock` 4 instead of 65535: a block has a first and a last element, a half, a
wrap. Two channels with equal index in the two banks are where an addressing slip
shows; the proofs cover any number. Two threads, two handlers and the worker give
every pair of contexts; two buffers tell the right one from another, and so do a
callback and none. `tx_live` has one thread, as its claims are about one transfer
against handlers, worker and clock. Timeouts of one or two ticks allow an old
wake-up before, at and after the new deadline. `Generations` is 2 instead of
2^32, the worst case for confusing old requests with new ones. `RingSize` is 7
where the driver has 12: TLC finds that 7 notes are reached and never exceeded,
so the array has room to spare.

USB: `MPS` is 2 for 64, so that sizes 0, 2 and 3 are an empty, a full, and a full
and a short packet; an OUT packet of 3 is too long for its request. Two or three
requests (`MaxReq`) are an old one and the next; `MaxFault` counts lost packets
and handshakes, `MaxBus` resets, suspends, overflows and SETUPs, of which the
control and bus runs allow one during the service of another. `Ops` names the
operations of an instance; between them the runs use all of them. Interrupt API:
`Period` 3 lets the counter wrap inside a callback; two bytes and a banner
overfill a queue of two, one error comes at any access. `uart_init` takes the
rates of the unit tests and the edges of the divisor's range.

**Deadlock** is checked in the DMA and UART DMA runs. The USB, interrupt and
initialisation models may stop: the host, the wire or the callers have then
nothing more to do within the bounds. Symmetry of threads is used in `tx_faults`,
which has no liveness property.

**Faults.** With `dma_get_status()` failing, an aborted transfer that made no
progress leaves `needs_tc` set with nothing in the transmitter, and the port
refuses later transfers: the code fails closed there. `RefusalIsTemporary` and
`AbortCountsHandedOver` are therefore claimed without that fault. For reception
the contract says what holds with it.

### Fairness

- `dma`: a handler goes on (weak), a callback returns (weak), a pending interrupt
  is taken even if others come first (strong: the controller's priorities are
  fixed, but each handler empties its own request).
- `tx_live` asks only what kernel and processor owe: interrupts are taken, the
  clock ticks, threads and the workqueue get the processor between interrupts.
  The last is strong fairness, as every interrupt disables the thread for a
  moment. `DeadlineHonoured` needs no more. `OwnerIsTold` has weak fairness of DMA
  and USART (`HardwareWorks`) as its premise, since without a deadline nobody
  else ends a transfer.
- `rx` asks the same of interrupts and of every context's way through the
  dispatcher.
- `udc_bus`: the handler, the worker and a copy under way go on (weak). Nothing is
  asked of host or stack.
- `irq`: handler, thread and wire go on (weak): the thread runs whenever the
  handler is not active, and a byte being shifted leaves the shifter.

No application call is assumed to be made.

## 4. The proofs

All results hold for every value of the constants that satisfies the named
assumptions of the modules (`MaxBlockAssumption`, `ChannelsAssumption`,
`RequestsAssumption`, `ReloadsAssumption`, `TxConstants`, `RxConstants`,
`InitConstants`, `UdcConstants`, `BoardsAssumption`), which TLC evaluates in the
runs. Where a theorem needs more, it says so in its `ASSUME`.

| Module | Theorem | Property | Further assumption |
|---|---|---|---|
| `DmaWchProofs` | `TypeCorrect`, `NeverRunsUnattended`, `FlagsAreFresh`, `EventsAreKept`, `TerminalEventsInterrupt`, `FreeChannelsAreQuiet`, `StatusIsSound` | `TypeOK`, `EnabledOnlyWhileRunning`, `NoStaleFlag`, `NoLostEvent`, `TerminalFlagPends`, `FreeChannelIsQuiet`, `StatusWithinBlock` | |
| | `NeverReprogrammedInUse`, `CallbacksAreTruthful` | the action properties `ReprogrammedOnlyWhenOff`, `EventsAreGenuine` | |
| `UartTxProofs` | `TypeCorrect`, `ReadsOnlyLent`, `IdleGated`, `OwnsTransmitter`, `NotEarly` | `TypeOK`, `EngineReadsOnlyLent`, `IdleIsGated`, `TransferOwnsTransmitter`, `NeverAbortedEarly` | |
| | `CountsExact`, `RefusesForNow` | `AbortCountsHandedOver`, `RefusalIsTemporary` | `dma_get_status()` does not fail |
| | `Refinement` | `ImplementsContract` (`TxContract`) | |
| `UartRxProofs` | `RingFits` | `RingNeverOverflows` | `RingSize >= 7`; the driver has 12 |
| | `WritesOnlyLent`, `LossIsReported` | `EngineWritesOnlyLent`, `NoSilentLoss` | |
| | `Refinement` | `ImplementsContract` (`RxContract`) | |
| `UartInitProofs` | `AllOrNothing` | `InitIsAllOrNothing` | |
| `UdcBusProofs` | `TypeCorrect`, `BootState`, `LoanSafety`, `SetupSafety`, `CreditSafety` | `TypeOK`, `BootStateIsRestored`, `LoansConserved`, `SetupSupersedes`, `CreditsItsRequest` | |

**DMA.** `Inv` is `TypeOK` and, for each channel, `Attended`: the channel
is sound (`ChannelInv`), its flags are among the raised events, the raised
events are among its flags and the handler's snapshot, unread terminal flags
pend, the snapshot was raised, a completed single block has no element left,
and a free channel is quiet. The parts need each other. `NoLostEvent` is kept by
the handler because it clears exactly its snapshot; `TerminalFlagPends` needs
that a configured channel enables its terminal interrupts; `StatusWithinBlock`
needs a length that is a multiple of the width and a count no larger than the
block, which a reload has to restore; `EventsAreGenuine` needs that a snapshot
is never older than the transfer it is applied to. The proof has three layers:
lemmas about one channel (`DmaChannelProofs`: each operator of `DmaChannel`
keeps `ChannelInv`), lemmas about the flag registers (flag positions are
distinct and below bit 32, and so what a clear or a raise does to every
channel's flags), and lemmas about steps that combine them.

**UART transmission.** `TxInv` says how far a transfer has come in four places
that change at different times: the loan, the channel's count, the transmitter's
two registers and the phase. `TransferInv` equates them (bytes sent plus bytes in
the transmitter are those fed, and those fed are the length less the count);
`PhaseInv` says what each phase means for DMA request, completion interrupt and
channel, the gated idle state above all; `LoanInv` and `NoteInv` that every lent
buffer has one holder, the transfer or one notification, and that a DONE is told
of a buffer that is all sent. There is one lemma per action. `NeverAbortedEarly`
needs the equality of the loan's and the driver's deadline in `TransferInv`: it
is what a stale wake-up of the worker is compared with. The counts need that
`dma_get_status()` works, and then are inductive together with `TxInv`
(`NextCounts`). For the refinement, `Views` shows that `Abstract(b)` is decided by
the one holder of `b`, and each action is then a step of `TxContract` or a
stutter.

**UART reception.** `RxInv` describes the queue of notes by the phase: idle, it
is empty; active, it is empty while a request is open or the next buffer is there,
and otherwise has at most three notes with the request last; stopping, at most
seven with DISABLED last. That gives `RingNeverOverflows`, and is inductive only
with what the queue says of buffers (`QueueInv`): data before release, nothing
twice, and each release `Settles` its account, that is, what was stored has been
reported, or will be by a note before it, or a note says the number is unknown.
`QueueInv` is kept when two queues about different buffers are joined
(`QueueJoin`) and when the dispatcher takes a note (`QueuePop`); the actions that
end a session append to the queue and share these lemmas. `LoanInv` ties the
loans to their one holder, `DispatchInv` says that one context is in the callback.

**UART initialisation.** The property is inductive with the types: a failing
call gives back the channels it took and no others, since each channel is
requested for one port only.

**USB.** The device is one record changed by two dozen actions, most of them
through several functions of the driver. The proof first says what each function
does to the fields (relations such as `Staged`, `Dequeued`, `Superseded` of
`UdcWchInv`; `UdcWchProofs` shows that the functions satisfy them), then that every
step is one of the cases of `StepEffect` (`UdcBusProofs!Effects`): the action, and
the relation between the record before and after. `UdcStepProofs` shows from
`StepEffect`, without looking into the driver's functions, that these invariants
are kept, each resting on those before:

- `Base`: types; `DevCore` (an armed endpoint is enabled, not halted and has a
  data request at its head, whose first bytes are staged; a latched completion
  excludes a token under way; between check and copy of `wch_kick()` the request
  stays); `Mutex` (a worker past its read finds the driver running and the flags
  it read). It gives `TypeOK`, that a remaining length never gets negative included:
  a completed IN packet is never longer than what is left because it is the one
  staged.
- `BooksInv`: the ids 1..n are each in one place of one queue or returned once.
- `SetupInv`: while a SETUP waits, EP0 is not halted, answers NAK and has nothing
  queued.
- `ResetInv`: with a bus reset latched, no endpoint is configured, and what is
  latched after it can only be a SETUP. This is the part one would not guess: it is
  why the service of a reset cannot leave the completion of an old packet behind.
- `CreditInv`: an endpoint that answers, has a token under way or a completion
  latched has a transfer (or is EP0 OUT between transfers), and a latched completion
  carries the id of the request at the head.

`BootStateIsRestored` rests on `ClockInv` alone: up, the saved divider and pins are
those of the board.

Only model-checked:

- all liveness (`TerminalIsServiced`, `DeadlineHonoured`, `OwnerIsTold`,
  `StopCompletes`, `RequestReachesApplication`, `TransferIsServiced`,
  `EchoCompletes`): the prover does not reason about fairness;
- of `UdcBus`, `SuccessIsExact`, `NoCorruptedSuccess` and `ReadyIsArmed`. The first
  needs a further invariant that relates the toggles of host and controller, the
  packets counted and the marks `skew` and `unheard`; the other two hold only without
  halts (`NoCorruptedSuccess`) and without clearing endpoints that are not halted
  (`ReadyIsArmed`, see the findings), and their strengthening is not written;
- the properties of `UartIrq`, whose trace is compared with a history by sequence
  functions (`SequencesExt`), and `IrqTrace`: what those compute for every input
  needs an induction over sequences, which the prover cannot do.

## 5. What is not modelled

- Nested interrupts: a handler is not preempted by another handler.
- Whether STATR read by the processor and DATAR read by DMA together clear
  receive errors: `err_check()` and the transmit paths read STATR during a
  session. The repository does not say what the silicon does; the models clear
  error flags only by complete sequences of the processor.
- Data values, user pointers, logging, alignment of memory to caches.
- Both directions of a port at once: they meet in the lock, the callback pointer
  and the UART handler, which each model represents for itself. Their product is
  beyond TLC at these bounds.
- `irq_tx_complete()`, `callback_set()` in the interrupt-driven build and polling
  mixed with it: the application that drives `UartIrq` does not use them.
- The polling loops of the build without DMA, and `wch_uart_rx_delta()`, which no
  driver calls: no state of their own.
- Zephyr's UDC core and DMA core, except as the drivers use them; Kconfig, CMake,
  devicetree.

## 6. Plan

Done, in this order: `DmaChannel`, `DmaWch`, `UartTx`, `UartRx`, `DmaWchProofs`;
`TxContract` and `RxContract` with their refinements; `UartInit`, `IrqTrace`,
`UartIrq`; `UdcWch`, `UdcBus`, `UdcClock`; the proofs of section 4.

Next, prove for `UdcBus`:

1. `NoCorruptedSuccess` without "halt" in `Ops`: a damaged packet is latched
   together with FIFO_OV, and nothing but the worker, which looks at FIFO_OV first,
   credits a completion.
2. `ReadyIsArmed` without "clear any" in `Ops`.
3. `SuccessIsExact`.
