------------------------------- MODULE UdcWch -------------------------------
(***************************************************************************)
(* The functions of the USBFS device controller driver                     *)
(* (drivers/usb/udc_wch.c), as functions of one record: the driver's data, *)
(* the endpoint queues and the controller registers it programs.  Packet   *)
(* data is abstracted to its length, in units of half a maximum packet.    *)
(* The fields sent, pk, bad, skew, unheard, refused, intact and done are   *)
(* ghosts: they record what really crossed the bus and came back to the    *)
(* stack, and no function decides by them.                                 *)
(***************************************************************************)
EXTENDS Integers, Sequences

Control == {"out0", "in0"}
Bulk == {"in1", "out2"}
Eps == Control \cup Bulk
IsIn(e) == e \in {"in0", "in1"}
MPS == 2

Least(a, b) == IF a < b THEN a ELSE b

NoToken == [ep |-> "none", ok |-> FALSE, len |-> 0, id |-> 0,
            fresh |-> FALSE, bad |-> FALSE]

\* INT_ST is read only while TRANSFER is latched, so it is forgotten with it.
wch_ack(s, flags) ==
  [s EXCEPT !.fg = @ \ flags, !.st = IF "TRANSFER" \in flags THEN NoToken ELSE @]

wch_response(s, e, response) == [s EXCEPT !.ctl[e].r = response]

wch_setup_pending(s) == "TRANSFER" \in s.fg /\ s.st.ep = "setup"

\* The packets a request needs on the bus, its terminating empty one included.
PacketsOf(r) ==
  (r.size \div MPS) + (IF r.size = 0 \/ r.size % MPS # 0 \/ r.want THEN 1 ELSE 0)

\* Ghost: what the request says it moved is what crossed the bus, once.  An
\* armed request that is cancelled, or halted after a lost ACK (unheard), leaves
\* it open whether the host's toggle moved (skew), until the pipe is set up again.
Exact(s, e, r) ==
  \/ r.setup \/ s.skew[e]
  \/ r.sent = r.size - r.len /\ (IsIn(e) => r.pk = PacketsOf(r))

\* A request goes back to the stack: its loan ends.
Outcome(s, e, r, err) ==
  [id |-> r.id, err |-> err, exact |-> Exact(s, e, r), clean |-> ~r.bad]

udc_submit_ep_event(s, e, err) ==
  [s EXCEPT !.q[e] = Tail(@),
            !.done = @ \cup {Outcome(s, e, Head(s.q[e]), err)}]

udc_ep_cancel_queued(s, e, err) ==
  [s EXCEPT !.q[e] = <<>>,
            !.done = @ \cup {Outcome(s, e, s.q[e][i], err) : i \in DOMAIN s.q[e]}]

Startable(s, e) ==
  /\ s.running /\ s.ep[e].enabled /\ ~s.ep[e].halted /\ ~s.ep[e].busy
  /\ s.q[e] # <<>>
  /\ ~(e \in Control /\ wch_setup_pending(s))
  /\ ~Head(s.q[e]).setup

\* The part of wch_kick after its checks: stage the packet, answer ACK.
Stage(s, e) ==
  LET len == Least(Head(s.q[e]).len, MPS) IN
  [s EXCEPT !.ep[e].busy = TRUE,
            !.ctl[e].r = "ACK",
            !.in_length[e] = IF IsIn(e) THEN len ELSE @,
            !.packet0 = IF e = "in0" /\ len > 0 THEN "in" ELSE @]

wch_kick(s, e) == IF Startable(s, e) THEN Stage(s, e) ELSE s

\* wch_kick of the control IN endpoint from the stack or the worker: the
\* controller runs on between the check for a SETUP and the copy into the
\* packet buffer both directions share (KickCopy).
KickChecked(s) == [s EXCEPT !.copying = Startable(s, "in0")]

\* udc_ep_set_busy(cfg, false)
Idled(s, e) == [s EXCEPT !.ep[e].busy = FALSE]

wch_complete(s, e, err) == udc_submit_ep_event(Idled(s, e), e, err)

\* The common layer: old control requests are cancelled, the SETUP goes to the
\* posted setup request (the stack posts one at a time) or is kept until there is
\* one.
ControlCleared(s) ==
  LET both(f, v) == [e \in Eps |-> IF e \in Control THEN v ELSE f[e]]
  IN [Idled(Idled(s, "in0"), "out0") EXCEPT
        !.q = both(@, <<>>), !.skew = both(@, FALSE),
        !.refused = both(@, FALSE), !.unheard = both(@, FALSE)]

udc_setup_received(s, valid) ==
  LET post == {i \in DOMAIN s.q["out0"] : s.q["out0"][i].setup}
      err == IF valid THEN "OK" ELSE "EPROTO"
      back(e) == {Outcome(s, e, s.q[e][i], IF s.q[e][i].setup THEN err ELSE "ECONNRESET") :
                    i \in DOMAIN s.q[e]}
  IN [ControlCleared(s) EXCEPT
        !.taken = post # {}, !.pending = post = {}, !.valid = post = {} /\ valid,
        !.intact = @ /\ (valid => s.packet0 = "setup"),
        !.done = @ \cup back("in0") \cup back("out0")]

Unstalled(s, e) == [s EXCEPT !.ctl[e] = [r |-> "NAK", t |-> 1], !.ep[e].halted = FALSE]

TransferSetup(s) == udc_setup_received(Unstalled(Unstalled(s, "in0"), "out0"), s.st.ok)

\* Mutation: the toggle is not advanced.
Answered_SameToggle(s, e) == [s EXCEPT !.ctl[e].r = "NAK"]

\* The response becomes NAK and the DATA toggle is advanced.
Answered(s, e) == [s EXCEPT !.ctl[e] = [r |-> "NAK", t |-> 1 - s.ctl[e].t]]

TransferIn(s, e) ==
  LET pulled == [Answered(s, e) EXCEPT !.q[e][1].len = @ - s.in_length[e]]
      left == Head(pulled.q[e]).len
      zlp == left = 0 /\ Head(s.q[e]).zlp
      next == IF zlp THEN [pulled EXCEPT !.q[e][1].zlp = FALSE] ELSE pulled
  IN IF zlp /\ s.in_length[e] = MPS
     THEN wch_kick(Idled(next, e), e)
     ELSE IF left = 0 THEN wch_complete(next, e, "OK")
     ELSE Idled(next, e)

\* Mutation: no look at the room left in the buffer.
TooLong_ForAPacket(len, room) == len > MPS

TooLong(len, room) == len > MPS \/ len > room

TransferOut(s, e) ==
  LET len == s.st.len
      room == Head(s.q[e]).len
      filled == [Head(s.q[e]) EXCEPT !.len = @ - len,
                                     !.sent = IF s.st.fresh THEN @ + len ELSE @,
                                     !.bad = @ \/ s.st.bad]
      added == [Answered(s, e) EXCEPT !.q[e][1] = filled]
  IN IF TooLong(len, room) THEN wch_complete(Answered(s, e), e, "EMSGSIZE")
     ELSE IF len < MPS \/ len = room THEN wch_complete(added, e, "OK")
     ELSE Idled(added, e)

\* Ghost: a packet the host holds delivered but the driver ignored is missing.
Ignored(s, e) == [s EXCEPT !.q[e][1].sent = IF s.st.fresh THEN @ + s.st.len ELSE @]

wch_transfer(s) ==
  LET e == s.st.ep IN
  IF e = "setup" THEN TransferSetup(s)
  ELSE IF ~s.ep[e].busy \/ s.ep[e].halted \/ s.q[e] = <<>> THEN s
  ELSE IF Head(s.q[e]).setup THEN s
  ELSE IF IsIn(e) THEN TransferIn(s, e)
  ELSE IF s.st.ok THEN TransferOut(s, e)
  ELSE Ignored(s, e)

\* The wait for SIE_FREE is left out: the call is taken when the serial engine
\* is free, or gives up with -EBUSY (Refused).
SieFree(s) == ~s.running \/ s.sie = "none"

Refused(s, e) ==
  [wch_response(s, e, "NAK") EXCEPT !.refused[e] = s.ep[e].busy]

\* Mutation: the latched completion stays for the next request.
Consumed_Never(s) == s

\* The latched completion of a quiesced endpoint is acknowledged.
Consumed(s) == wch_ack(s, {"TRANSFER"})

wch_quiesce(s, e, cancel) ==
  LET nak == wch_response(s, e, "NAK")
      hit == "TRANSFER" \in s.fg /\ s.st.ep = e
      kept == IF cancel THEN nak ELSE wch_response(wch_transfer(nak), e, "NAK")
      seen == IF hit THEN Consumed(kept) ELSE nak
  IN [seen EXCEPT !.ep[e].busy = FALSE, !.refused[e] = FALSE,
                  !.skew[e] = @ \/ (s.ep[e].busy /\ (cancel \/ s.unheard[e])),
                  !.unheard[e] = FALSE]

wch_dequeue(s, e) == udc_ep_cancel_queued(wch_quiesce(s, e, TRUE), e, "ECONNABORTED")

\* Mutation: the stall is not given up for a newer SETUP.
halt_OverSetup(s, e) ==
  [wch_quiesce(s, e, FALSE) EXCEPT !.ctl[e].r = "STALL", !.ep[e].halted = TRUE]

wch_halt(s, e) ==
  LET calm == wch_quiesce(s, e, FALSE) IN
  IF e \in Control /\ (wch_setup_pending(calm) \/ calm.pending) THEN calm
  ELSE [calm EXCEPT !.ctl[e].r = "STALL", !.ep[e].halted = TRUE]

\* Mutation: pending work is not restarted.
clear_halt_NoKick(s, e) ==
  [s EXCEPT !.ctl[e] = [r |-> "NAK", t |-> 0], !.ep[e].halted = FALSE]

wch_clear_halt(s, e) ==
  wch_kick([s EXCEPT !.ctl[e] = [r |-> "NAK", t |-> 0], !.ep[e].halted = FALSE,
                     !.skew[e] = @ /\ s.q[e] # <<>>], e)

wch_ep_enable(s, e) ==
  [s EXCEPT !.mode = IF e \in Bulk THEN @ \cup {e} ELSE @,
            !.ctl[e] = [r |-> IF e = "out0" THEN "ACK" ELSE "NAK", t |-> 0],
            !.ep[e] = [enabled |-> TRUE, halted |-> FALSE, busy |-> FALSE],
            !.skew[e] = FALSE, !.refused[e] = FALSE]

wch_ep_disable(s, e) ==
  [wch_dequeue(s, e) EXCEPT !.mode = @ \ {e}, !.ep[e].enabled = FALSE]

ResetEp(s, e) ==
  udc_ep_cancel_queued(
    [s EXCEPT !.ctl[e].r = "NAK",
              !.ep[e] = [enabled |-> e \in Control, halted |-> FALSE, busy |-> FALSE],
              !.refused[e] = FALSE], e, "ECONNABORTED")

ForEachEp(Op(_, _), s) ==
  Op(Op(Op(Op(s, "out0"), "in0"), "in1"), "out2")

wch_reset(s) ==
  [ForEachEp(ResetEp, [s EXCEPT !.addr = 0, !.mode = {}])
     EXCEPT !.pending = FALSE, !.valid = FALSE, !.taken = FALSE, !.suspended = FALSE,
            !.ctl["in0"] = [r |-> "NAK", t |-> 0],
            !.ctl["out0"] = [r |-> "ACK", t |-> 0],
            !.skew = [e \in Eps |-> FALSE], !.unheard = [e \in Eps |-> FALSE]]

\* Mutation: the loop stops one endpoint early.
DequeueAll_OffByOne(s) == wch_dequeue(wch_dequeue(wch_dequeue(s, "out0"), "in0"), "in1")

DequeueAll(s) == ForEachEp(wch_dequeue, s)

\* CTRL = 0 detaches the device and stops the serial engine.
wch_disable(s) ==
  LET off == wch_ack([s EXCEPT !.running = FALSE, !.en = FALSE,
                               !.on = FALSE, !.sie = "none"],
                     {"RESET", "TRANSFER", "SUSPEND", "FIFO_OV"})
  IN [DequeueAll(off)
        EXCEPT !.pending = FALSE, !.valid = FALSE, !.taken = FALSE]

wch_enable(s) ==
  [s EXCEPT !.running = TRUE, !.addr = 0, !.fg = {}, !.st = NoToken, !.en = TRUE, !.on = TRUE,
            !.ctl["out0"] = [r |-> "ACK", t |-> 0],
            !.ctl["in0"] = [r |-> "NAK", t |-> 0]]

\* The registers after wch_init; its endpoints are enabled last, and when that
\* fails EP0 OUT is disabled again.
WchCleared(s) ==
  [s EXCEPT !.on = FALSE, !.en = FALSE, !.addr = 0, !.mode = {}, !.fg = {}, !.st = NoToken]

wch_init(s, fault) ==
  CASE fault = "ep0 out" -> wch_ep_disable(WchCleared(s), "out0")
    [] fault = "ep0 in" -> wch_ep_disable(wch_ep_enable(WchCleared(s), "out0"), "out0")
    [] OTHER -> wch_ep_enable(wch_ep_enable(WchCleared(s), "out0"), "in0")

wch_shutdown(s) == wch_ep_disable(wch_ep_disable(wch_disable(s), "out0"), "in0")
=============================================================================
