------------------------------- MODULE UdcBus -------------------------------
(***************************************************************************)
(* The USBFS device driver at work: the calls of the device stack, the     *)
(* interrupt handler and the work item that consumes the latched flags     *)
(* (drivers/usb/udc_wch.c, functions in UdcWch), the controller and the    *)
(* host at the other end of the cable.                                     *)
(*                                                                         *)
(* The stack's calls and the worker exclude each other through the UDC     *)
(* mutex; the interrupt handler, the controller and the host interleave    *)
(* with both.                                                              *)
(***************************************************************************)
EXTENDS UdcWch, UdcClock

CONSTANTS Data,      \* the endpoints on which the stack submits data requests
          Ops,       \* the operations the stack and the bus perform
          Sizes,     \* the sizes of the requests
          Packets,   \* the lengths of the OUT packets the host sends
          MaxReq,    \* bound: requests submitted
          MaxFault,  \* bound: packets and handshakes lost on the wire
          MaxBus     \* bound: resets, suspends, overflows, driver restarts

ASSUME UdcConstants ==
  /\ Data \subseteq {"out0", "in0", "in1", "out2"}
  /\ Sizes \subseteq Nat /\ Packets \subseteq Nat
  /\ MaxReq \in Nat /\ MaxFault \in Nat /\ MaxBus \in Nat

VARIABLES dev,   \* the driver's data, the controller's registers, the loans
          work,  \* the work item: queued, its place in wch_work, its flags
          stack, \* "off", "init" or "on": uninitialised, initialised, enabled
          host,  \* the host's view of the bus
          clk,   \* clock and pins: the board, the chip, the saved values
          spent  \* what is used up of the bounds

vars == <<dev, work, stack, host, clk, spent>>

(***************************************************************************)
(* The states the program starts in: registers after reset, wch_preinit    *)
(* done.                                                                   *)
(***************************************************************************)

Init ==
  /\ dev = [running |-> FALSE, on |-> FALSE, en |-> FALSE, fg |-> {},
            st |-> NoToken, sie |-> "none", addr |-> 0, mode |-> {},
            ctl |-> [e \in Eps |-> [r |-> "ACK", t |-> 0]],
            ep |-> [e \in Eps |-> [enabled |-> FALSE, halted |-> FALSE, busy |-> FALSE]],
            q |-> [e \in Eps |-> <<>>], in_length |-> [e \in Eps |-> 0],
            packet0 |-> "none", copying |-> FALSE,
            pending |-> FALSE, valid |-> FALSE, taken |-> FALSE,
            suspended |-> FALSE, done |-> {},
            skew |-> [e \in Eps |-> FALSE], unheard |-> [e \in Eps |-> FALSE],
            refused |-> [e \in Eps |-> FALSE],
            intact |-> TRUE]
  /\ work = [queued |-> FALSE, pc |-> "idle", flags |-> {}]
  /\ stack = "off"
  /\ clk \in {BootClock(b) : b \in Boards}
  /\ host = [tog |-> [e \in Eps |-> 0], resend |-> [e \in Eps |-> FALSE],
             conf |-> {}, setup |-> FALSE, suspended |-> FALSE]
  /\ spent = [req |-> 0, fault |-> 0, bus |-> 0]

(***************************************************************************)
(* The calls of the device stack.  Each holds the UDC mutex, which the     *)
(* worker holds from reading the flags to unmasking the interrupt.         *)
(***************************************************************************)

MutexFree == work.pc = "idle" /\ ~dev.copying

Call(op) == op \in Ops /\ MutexFree

BusStep == spent.bus < MaxBus /\ spent' = [spent EXCEPT !.bus = @ + 1]

ApiInit(fault) ==
  LET ok == Prepared(clk, fault)
      up == wch_prepare(clk, fault)
  IN
  /\ MutexFree /\ stack = "off"
  /\ stack' = IF ok /\ fault \notin {"ep0 out", "ep0 in"} THEN "init" ELSE "off"
  /\ clk' = IF ok /\ stack' = "off" THEN wch_unprepare(up) ELSE up
  /\ dev' = IF ok THEN wch_init(dev, fault) ELSE dev
  /\ UNCHANGED <<work, host, spent>>

\* Attaching: the host sees a new device.
ApiEnable ==
  /\ MutexFree /\ stack = "init"
  /\ BusStep
  /\ stack' = "on" /\ dev' = wch_enable(dev)
  /\ host' = [host EXCEPT !.conf = {}, !.setup = FALSE, !.suspended = FALSE]
  /\ UNCHANGED <<work, clk>>

ApiDisable ==
  /\ Call("disable") /\ stack = "on"
  /\ stack' = "init" /\ dev' = wch_disable(dev)
  /\ UNCHANGED <<work, host, clk, spent>>

ApiShutdown ==
  /\ Call("disable") /\ stack = "init"
  /\ stack' = "off" /\ dev' = wch_shutdown(dev) /\ clk' = wch_unprepare(clk)
  /\ UNCHANGED <<work, host, spent>>

\* The host configures the endpoint, unless it has meanwhile reset the bus.
ApiEpEnable(e) ==
  /\ MutexFree /\ stack = "on" /\ e \in Bulk \cap Data /\ ~dev.ep[e].enabled
  /\ dev' = wch_ep_enable(dev, e)
  /\ host' = IF "RESET" \in dev.fg THEN host
             ELSE [host EXCEPT !.conf = @ \cup {e}, !.tog[e] = 0, !.resend[e] = FALSE]
  /\ UNCHANGED <<work, stack, clk, spent>>

ApiEpDisable(e) ==
  /\ Call("epdisable") /\ stack = "on" /\ e \in Bulk /\ dev.ep[e].enabled
  /\ \/ SieFree(dev) /\ dev' = wch_ep_disable(dev, e)
     \/ ~SieFree(dev) /\ dev' = Refused(dev, e)
  /\ host' = IF SieFree(dev) THEN [host EXCEPT !.conf = @ \ {e}] ELSE host
  /\ UNCHANGED <<work, stack, clk, spent>>

Request(setup, size, zlp) ==
  [id |-> spent.req + 1, setup |-> setup, size |-> size, len |-> size,
   zlp |-> zlp, want |-> zlp, sent |-> 0, pk |-> 0, bad |-> FALSE]

Posted(e) == \E i \in DOMAIN dev.q[e] : dev.q[e][i].setup

\* A control request belongs to the SETUP the stack took last (taken): there is
\* one, none newer is kept, and no setup request is posted ahead of it.
ApiEnqueue(e, size, zlp) ==
  /\ MutexFree /\ stack = "on" /\ e \in Data /\ dev.ep[e].enabled /\ dev.running
  /\ e \in Control => dev.taken /\ ~Posted(e)
  /\ zlp => IsIn(e)
  /\ spent.req < MaxReq
  /\ spent' = [spent EXCEPT !.req = @ + 1]
  /\ LET put == [dev EXCEPT !.q[e] = Append(@, Request(FALSE, size, zlp))] IN
     dev' = IF e = "in0" THEN KickChecked(put) ELSE wch_kick(put, e)
  /\ UNCHANGED <<work, stack, clk, host>>

\* A kept SETUP is handed over at once, by the common layer.
ApiEnqueueSetup ==
  /\ Call("setup") /\ stack = "on" /\ dev.running /\ ~Posted("out0")
  /\ spent.req < MaxReq
  /\ spent' = [spent EXCEPT !.req = @ + 1]
  /\ LET r == Request(TRUE, 0, FALSE)
         err == IF dev.valid THEN "OK" ELSE "EPROTO" IN
     dev' = IF dev.pending
            THEN [dev EXCEPT !.pending = FALSE, !.valid = FALSE, !.taken = TRUE,
                             !.done = @ \cup {Outcome(dev, "out0", r, err)}]
            ELSE wch_kick([dev EXCEPT !.q["out0"] = Append(@, r)], "out0")
  /\ UNCHANGED <<work, stack, clk, host>>

ApiDequeue(e) ==
  /\ Call("dequeue") /\ stack = "on" /\ dev.q[e] # <<>>
  /\ \/ SieFree(dev) /\ dev' = wch_dequeue(dev, e)
     \/ ~SieFree(dev) /\ dev' = Refused(dev, e)
  /\ UNCHANGED <<work, stack, clk, host, spent>>

ApiHalt(e) ==
  /\ Call("halt") /\ stack = "on" /\ dev.ep[e].enabled /\ e \in Data
  /\ \/ SieFree(dev) /\ dev' = wch_halt(dev, e)
     \/ ~SieFree(dev) /\ dev' = Refused(dev, e)
  /\ UNCHANGED <<work, stack, clk, host, spent>>

\* The host asks for it and resets its own toggle; it leaves the pipe alone
\* from before it sends the request until the request is done.
ApiClearHalt(e) ==
  /\ MutexFree /\ stack = "on" /\ dev.ep[e].enabled /\ e \in Bulk
  /\ "clear" \in Ops
  /\ ~dev.ep[e].halted => "clear any" \in Ops
  /\ dev.sie # e /\ ~("TRANSFER" \in dev.fg /\ dev.st.ep = e)
  /\ dev' = wch_clear_halt(dev, e)
  /\ host' = [host EXCEPT !.tog[e] = 0, !.resend[e] = FALSE]
  /\ UNCHANGED <<work, stack, clk, spent>>

wch_address(a) ==
  /\ Call("address") /\ stack = "on" /\ dev.addr # a
  /\ dev' = [dev EXCEPT !.addr = a]
  /\ UNCHANGED <<work, stack, clk, host, spent>>

\* The copy of wch_kick for the control IN endpoint, the caller still holding
\* the mutex.
KickCopy ==
  /\ dev.copying
  /\ dev' = [Stage(dev, "in0") EXCEPT !.copying = FALSE]
  /\ UNCHANGED <<work, stack, clk, host, spent>>

(***************************************************************************)
(* Interrupt handler and worker.                                           *)
(***************************************************************************)

wch_isr ==
  /\ dev.en /\ dev.fg # {}
  /\ dev' = [dev EXCEPT !.en = FALSE]
  /\ work' = [work EXCEPT !.queued = TRUE]
  /\ UNCHANGED <<stack, clk, host, spent>>

\* The work item starts; a stopped driver returns at once.
WorkRead ==
  /\ MutexFree /\ work.queued
  /\ work' = [queued |-> FALSE, flags |-> IF dev.running THEN dev.fg ELSE {},
              pc |-> IF dev.running THEN "handle" ELSE "idle"]
  /\ UNCHANGED <<dev, stack, clk, host, spent>>

WorkReset ==
  /\ work.pc = "handle" /\ "RESET" \in work.flags
  /\ dev' = wch_ack(wch_reset(dev), work.flags)
  /\ work' = [work EXCEPT !.pc = "kick"]
  /\ UNCHANGED <<stack, clk, host, spent>>

WorkOverflow ==
  /\ work.pc = "handle" /\ "RESET" \notin work.flags /\ "FIFO_OV" \in work.flags
  /\ dev' = wch_disable(dev)
  /\ work' = [work EXCEPT !.pc = "idle", !.flags = {}]
  /\ UNCHANGED <<stack, clk, host, spent>>

\* Mutation: a completion is handled before the overflow.
WorkTransfer_BeforeOverflow ==
  /\ work.pc = "handle" /\ "TRANSFER" \in work.flags /\ "RESET" \notin work.flags
  /\ dev' = wch_ack(wch_transfer(dev), {"TRANSFER"})
  /\ work' = [work EXCEPT !.flags = @ \ {"TRANSFER"}]
  /\ UNCHANGED <<stack, clk, host, spent>>

WorkTransfer ==
  /\ work.pc = "handle" /\ work.flags \cap {"RESET", "FIFO_OV"} = {}
  /\ dev' = IF "TRANSFER" \in work.flags
            THEN wch_ack(wch_transfer(dev), {"TRANSFER"}) ELSE dev
  /\ work' = [work EXCEPT !.pc = IF "SUSPEND" \in work.flags THEN "suspend" ELSE "kick"]
  /\ UNCHANGED <<stack, clk, host, spent>>

\* MIS_ST is read and the event submitted; the flag is cleared afterwards.
WorkSuspend ==
  /\ work.pc = "suspend"
  /\ dev' = [dev EXCEPT !.suspended = host.suspended]
  /\ work' = [work EXCEPT !.pc = "ack"]
  /\ UNCHANGED <<stack, clk, host, spent>>

WorkSuspendAck ==
  /\ work.pc = "ack"
  /\ dev' = wch_ack(dev, {"SUSPEND"})
  /\ work' = [work EXCEPT !.pc = "kick"]
  /\ UNCHANGED <<stack, clk, host, spent>>

WorkKick ==
  /\ work.pc = "kick"
  /\ dev' = KickChecked(wch_kick(wch_kick(wch_kick(dev, "out0"), "in1"), "out2"))
  /\ work' = [work EXCEPT !.pc = "unmask"]
  /\ UNCHANGED <<stack, clk, host, spent>>

\* Mutation: the interrupts stay masked.
WorkUnmask_Missing ==
  /\ work.pc = "unmask" /\ ~dev.copying
  /\ work' = [work EXCEPT !.pc = "idle", !.flags = {}]
  /\ UNCHANGED <<dev, stack, clk, host, spent>>

WorkUnmask ==
  /\ work.pc = "unmask" /\ ~dev.copying
  /\ dev' = [dev EXCEPT !.en = TRUE]
  /\ work' = [work EXCEPT !.pc = "idle", !.flags = {}]
  /\ UNCHANGED <<stack, clk, host, spent>>

wch_work ==
  \/ WorkRead \/ WorkReset \/ WorkOverflow \/ WorkTransfer
  \/ WorkSuspend \/ WorkSuspendAck \/ WorkKick \/ WorkUnmask

(***************************************************************************)
(* The controller and the host.  A token is answered as the endpoint's     *)
(* control register says, a SETUP always; none is taken while TRANSFER is  *)
(* latched (INT_BUSY).  The outcome of the transaction follows later.      *)
(***************************************************************************)

Token(t) ==
  /\ dev.on /\ dev.sie = "none" /\ "TRANSFER" \notin dev.fg /\ ~host.suspended
  /\ \/ t = "setup" /\ "setup" \in Ops
     \/ t \in Control /\ host.setup /\ dev.ctl[t].r = "ACK"
     \/ t \in Bulk \cap host.conf \cap dev.mode /\ dev.ctl[t].r = "ACK"
  /\ dev' = [dev EXCEPT !.sie = t]
  /\ UNCHANGED <<work, stack, clk, host, spent>>

Fault == spent.fault < MaxFault /\ spent' = [spent EXCEPT !.fault = @ + 1]

Latched(s, flags, token) ==
  [s EXCEPT !.sie = "none", !.fg = @ \cup flags, !.st = token,
            !.unheard = [e \in Eps |-> @[e] /\ e # token.ep]]

HeadId(e) == IF dev.q[e] = <<>> THEN 0 ELSE Head(dev.q[e]).id

\* The packet never arrives, whichever the direction.
Lost ==
  /\ dev.sie # "none"
  /\ Fault
  /\ dev' = [dev EXCEPT !.sie = "none"]
  /\ UNCHANGED <<work, stack, clk, host>>

Counted(r, len) == [r EXCEPT !.sent = @ + len, !.pk = @ + 1]

\* The host takes the staged packet if its toggle is the expected one.
InTaken(e) ==
  IF host.tog[e] = dev.ctl[e].t /\ dev.q[e] # <<>>
  THEN [dev EXCEPT !.q[e][1] = Counted(@, dev.in_length[e])]
  ELSE dev

InAcked(e) ==
  /\ dev.sie = e /\ IsIn(e)
  /\ host' = [host EXCEPT !.tog[e] = 1 - dev.ctl[e].t]
  /\ \/ /\ dev' = Latched(InTaken(e), {"TRANSFER"},
                          [NoToken EXCEPT !.ep = e, !.ok = TRUE, !.id = HeadId(e)])
        /\ UNCHANGED spent
     \/ /\ Fault                                              \* the ACK is lost
        /\ dev' = [InTaken(e) EXCEPT !.sie = "none", !.unheard[e] = TRUE]
  /\ UNCHANGED <<work, stack, clk>>

\* The device answers ACK; the host moves on to its next packet if it hears it.
OutArrives(e, len, heard, flags) ==
  /\ dev.sie = e /\ e \in {"out0", "out2"}
  /\ dev' = Latched(dev, flags,
              [ep |-> e, ok |-> host.tog[e] = dev.ctl[e].t, len |-> len, id |-> HeadId(e),
               fresh |-> ~host.resend[e], bad |-> "FIFO_OV" \in flags])
  /\ host' = [host EXCEPT !.tog[e] = IF heard THEN 1 - @ ELSE @, !.resend[e] = ~heard]
  /\ UNCHANGED <<work, stack, clk>>

OutAcked(e, len) == UNCHANGED spent /\ OutArrives(e, len, TRUE, {"TRANSFER"})

OutUnheard(e, len) == Fault /\ OutArrives(e, len, FALSE, {"TRANSFER"})

OutOverflow(e, len) ==
  /\ "overflow" \in Ops
  /\ BusStep
  /\ OutArrives(e, len, TRUE, {"TRANSFER", "FIFO_OV"})

SetupArrives(valid) ==
  /\ dev.sie = "setup"
  /\ dev' = [Latched(dev, {"TRANSFER"}, [NoToken EXCEPT !.ep = "setup", !.ok = valid])
               EXCEPT !.packet0 = "setup"]
  /\ host' = [host EXCEPT !.setup = TRUE, !.tog["in0"] = 1, !.tog["out0"] = 1,
                          !.resend["out0"] = FALSE]
  /\ UNCHANGED <<work, stack, clk, spent>>

BusReset ==
  /\ "reset" \in Ops /\ dev.on
  /\ BusStep
  /\ dev' = [dev EXCEPT !.fg = @ \cup {"RESET"}, !.sie = "none"]
  /\ host' = [host EXCEPT !.conf = {}, !.setup = FALSE, !.suspended = FALSE]
  /\ UNCHANGED <<work, stack, clk>>

\* Suspend and resume raise the same flag.
BusSuspend ==
  /\ "suspend" \in Ops /\ dev.on /\ dev.sie = "none"
  /\ BusStep
  /\ dev' = [dev EXCEPT !.fg = @ \cup {"SUSPEND"}]
  /\ host' = [host EXCEPT !.suspended = ~@]
  /\ UNCHANGED <<work, stack, clk>>

Transaction ==
  \/ \E t \in Eps \cup {"setup"} : Token(t)
  \/ Lost
  \/ \E e \in Eps : InAcked(e)
  \/ \E e \in Eps, len \in Packets : OutAcked(e, len) \/ OutUnheard(e, len) \/ OutOverflow(e, len)
  \/ \E valid \in BOOLEAN : SetupArrives(valid)

Api ==
  \/ \E fault \in PrepareFaults \cup {"ep0 out", "ep0 in"} : ApiInit(fault)
  \/ ApiEnable \/ ApiDisable \/ ApiShutdown
  \/ \E e \in Eps : \/ ApiEpEnable(e) \/ ApiEpDisable(e) \/ ApiDequeue(e)
                    \/ ApiHalt(e) \/ ApiClearHalt(e)
  \/ \E e \in Eps, size \in Sizes, zlp \in BOOLEAN : ApiEnqueue(e, size, zlp)
  \/ ApiEnqueueSetup
  \/ \E a \in 0..1 : wch_address(a)

Next == Api \/ KickCopy \/ wch_isr \/ wch_work \/ Transaction \/ BusReset \/ BusSuspend

Spec == Init /\ [][Next]_vars

\* Interrupts are taken, the work queue runs its items, a call that holds the
\* mutex returns.  Nothing is assumed of the host or of the stack.
Fairness == WF_vars(wch_isr) /\ WF_vars(wch_work) /\ WF_vars(KickCopy)

FairSpec == Spec /\ Fairness

(***************************************************************************)
(* Properties.                                                             *)
(***************************************************************************)

Requests ==
  [id : 1..MaxReq, setup : BOOLEAN, size : Nat, len : Nat, zlp : BOOLEAN,
   want : BOOLEAN, sent : Nat, pk : Nat, bad : BOOLEAN]

\* Every register and field stays in its range; in particular a request's
\* remaining length never goes below zero, so net_buf_pull and net_buf_add_mem
\* in wch_transfer stay within the buffer.
TypeOK ==
  /\ dev.fg \subseteq {"RESET", "TRANSFER", "SUSPEND", "FIFO_OV"}
  /\ dev.ctl \in [Eps -> [r : {"ACK", "NAK", "STALL"}, t : 0..1]]
  /\ dev.ep \in [Eps -> [enabled : BOOLEAN, halted : BOOLEAN, busy : BOOLEAN]]
  /\ \A e \in Eps : \A i \in DOMAIN dev.q[e] : dev.q[e][i] \in Requests
  /\ dev.in_length \in [Eps -> 0..MPS]
  /\ dev.sie \in Eps \cup {"none", "setup"}
  /\ work.pc \in {"idle", "handle", "suspend", "ack", "kick", "unmask"}
  /\ stack \in {"off", "init", "on"}

Queued == UNION {{dev.q[e][i].id : i \in DOMAIN dev.q[e]} : e \in Eps}
Returned == {d.id : d \in dev.done}

\* Exactly one return per accepted request: it is in one queue or has come back
\* once, whatever cancels it; a stopped driver (disable, overflow, shutdown),
\* which ignores the result of wch_dequeue, holds none.
LoansConserved ==
  /\ Queued \cap Returned = {}
  /\ Queued \cup Returned = 1..spent.req
  /\ \A c, d \in dev.done : c.id = d.id => c = d
  /\ ~dev.running => Queued = {}

\* A request reported successful moved, exactly once, the bytes it claims and
\* the packets it needs (the terminating empty packet included): retransmissions,
\* lost handshakes, halts and resets in between neither repeat nor drop a packet.
SuccessIsExact == \A d \in dev.done : d.err = "OK" => d.exact

\* Overflow beats completion (wch_work): no request is reported successful with
\* a packet of an overflowed FIFO in it, as long as the stack halts no endpoint
\* (wch_quiesce, for wch_halt, credits a completion without a look at the flag).
NoCorruptedSuccess == \A d \in dev.done : d.err = "OK" => d.clean

\* A latched completion that wch_transfer would credit belongs to the request at
\* the head of its queue: cancellation and reset leave none behind for the next
\* request.
CreditsItsRequest ==
  LET e == dev.st.ep IN
  "TRANSFER" \in dev.fg /\ e \in Eps =>
    (dev.ep[e].busy /\ ~dev.ep[e].halted => dev.q[e] # <<>> /\ Head(dev.q[e]).id = dev.st.id)

\* Work conservation: between calls, a request ready to go is armed in the
\* controller, unless a cancellation or halt of it was refused with -EBUSY.
ReadyIsArmed ==
  MutexFree /\ dev.running => \A e \in Eps :
    /\ dev.ep[e].enabled /\ ~dev.ep[e].halted /\ ~dev.refused[e]
    /\ dev.q[e] # <<>> /\ ~(e \in Control /\ wch_setup_pending(dev))
    => Head(dev.q[e]).setup \/ (dev.ep[e].busy /\ dev.ctl[e].r = "ACK")

\* While a SETUP waits for the stack, a stall or data meant for the control
\* transfer it superseded does not reach the host.
SetupSupersedes ==
  dev.pending => \A e \in Control : ~dev.ep[e].halted /\ dev.ctl[e].r = "NAK"

\* Every latched completion is consumed, or the driver is stopped: ISR, worker
\* and unmasking never lose the interrupt.
TransferIsServiced ==
  (dev.running /\ "TRANSFER" \in dev.fg) ~> (~dev.running \/ "TRANSFER" \notin dev.fg)

\* However often the device is brought up, fails half way and is taken down:
\* while it is down the divider, the debug pins and the clock gate are as the
\* boot left them (the SDI debugger works again); while it is up, USB runs at
\* 48 MHz and the shared pins are released exactly when the device tree asks.
BootStateIsRestored ==
  IF stack = "off"
  THEN clk.usbpre = clk.board.usbpre /\ clk.sdi = clk.board.sdi /\ ~clk.usb
  ELSE /\ clk.usb /\ clk.usbpre * 48 = clk.board.pll_hz
       /\ clk.sdi = IF clk.board.release_sdi THEN "disable" ELSE clk.board.sdi

\* docs/usb-udc.md: clear-halt restarts pending work, also when the host clears
\* an endpoint that is not halted, as it may to reset the toggle.
ClearHaltRestarts ==
  [][\A e \in Bulk : ApiClearHalt(e) /\ dev.q[e] # <<>> /\ ~dev.refused[e]
                       => dev'.ctl[e].r = "ACK"]_vars

\* docs/usb-udc.md: staging is safe against SETUP preemption; the SETUP handed to
\* the stack is the one the host sent.
SetupIntact == dev.intact
=============================================================================
