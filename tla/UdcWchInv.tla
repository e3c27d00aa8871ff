------------------------------ MODULE UdcWchInv ------------------------------
(***************************************************************************)
(* What the functions of the USBFS device driver (UdcWch) do to the device *)
(* record, as relations between the record s before and the record t       *)
(* after.                                                                  *)
(***************************************************************************)
EXTENDS UdcBus

Flag == {"RESET", "TRANSFER", "SUSPEND", "FIFO_OV"}
Slot == [r : {"ACK", "NAK", "STALL"}, t : 0..1]
EpState == [enabled : BOOLEAN, halted : BOOLEAN, busy : BOOLEAN]

Latch ==
  [ep : Eps \cup {"none", "setup"}, ok : BOOLEAN, len : Nat, id : 0..MaxReq,
   fresh : BOOLEAN, bad : BOOLEAN]

Err == {"OK", "EPROTO", "ECONNRESET", "ECONNABORTED", "EMSGSIZE"}
Return == [id : 1..MaxReq, err : Err, exact : BOOLEAN, clean : BOOLEAN]

Device ==
  [running : BOOLEAN, on : BOOLEAN, en : BOOLEAN, fg : SUBSET Flag, st : Latch,
   sie : Eps \cup {"none", "setup"}, addr : Nat, mode : SUBSET Bulk,
   ctl : [Eps -> Slot], ep : [Eps -> EpState], q : [Eps -> Seq(Requests)],
   in_length : [Eps -> 0..MPS], packet0 : {"none", "in", "setup"},
   copying : BOOLEAN, pending : BOOLEAN, valid : BOOLEAN, taken : BOOLEAN,
   suspended : BOOLEAN, done : SUBSET Return, skew : [Eps -> BOOLEAN],
   unheard : [Eps -> BOOLEAN], refused : [Eps -> BOOLEAN], intact : BOOLEAN]

\* What a step on one endpoint leaves alone: the other endpoints, ...
Local(s, t, e) ==
  \A g \in Eps \ {e} :
    /\ t.ep[g] = s.ep[g] /\ t.ctl[g] = s.ctl[g] /\ t.q[g] = s.q[g]
    /\ t.in_length[g] = s.in_length[g] /\ t.skew[g] = s.skew[g]
    /\ t.unheard[g] = s.unheard[g] /\ t.refused[g] = s.refused[g]

\* ... the controller and the control transfer in progress ...
SameBus(s, t) ==
  /\ t.running = s.running /\ t.on = s.on /\ t.sie = s.sie /\ t.mode = s.mode
  /\ t.copying = s.copying /\ t.pending = s.pending /\ t.taken = s.taken

\* ... and what the controller has latched.
SameLatch(s, t) == t.fg = s.fg /\ t.st = s.st

SameMarks(s, t, e) ==
  t.skew[e] = s.skew[e] /\ t.unheard[e] = s.unheard[e] /\ t.refused[e] = s.refused[e]

SameSwitches(s, t, e) ==
  t.ep[e].enabled = s.ep[e].enabled /\ t.ep[e].halted = s.ep[e].halted

(***************************************************************************)
(* Stage and wch_kick: the endpoint is armed.                              *)
(***************************************************************************)

Staged(s, t, e) ==
  /\ t \in Device /\ Local(s, t, e) /\ SameBus(s, t) /\ SameLatch(s, t)
  /\ SameMarks(s, t, e) /\ SameSwitches(s, t, e)
  /\ t.done = s.done /\ t.q[e] = s.q[e]
  /\ t.ep[e].busy /\ t.ctl[e].r = "ACK" /\ t.ctl[e].t = s.ctl[e].t
  /\ IsIn(e) => t.in_length[e] = Least(Head(s.q[e]).len, MPS)

(***************************************************************************)
(* wch_ack, wch_response, udc_ep_cancel_queued and wch_complete.           *)
(***************************************************************************)

SameEps(s, t) ==
  /\ t.ep = s.ep /\ t.ctl = s.ctl /\ t.q = s.q /\ t.in_length = s.in_length
  /\ t.skew = s.skew /\ t.unheard = s.unheard /\ t.refused = s.refused
  /\ t.done = s.done

Acked(s, t, flags) ==
  /\ t \in Device /\ SameEps(s, t) /\ SameBus(s, t)
  /\ t.fg = s.fg \ flags
  /\ t.st = IF "TRANSFER" \in flags THEN NoToken ELSE s.st

Responded(s, t, e, response) ==
  /\ t \in Device /\ Local(s, t, e) /\ SameBus(s, t) /\ SameLatch(s, t)
  /\ t.skew = s.skew /\ t.unheard = s.unheard /\ t.refused = s.refused
  /\ SameMarks(s, t, e) /\ t.ep = s.ep /\ t.q = s.q /\ t.in_length = s.in_length
  /\ t.done = s.done /\ t.ctl[e].r = response /\ t.ctl[e].t = s.ctl[e].t

\* The returns of a whole queue.
Returns(s, e, err) == {Outcome(s, e, s.q[e][i], err) : i \in DOMAIN s.q[e]}

Cancelled(s, t, e, err) ==
  /\ t \in Device /\ Local(s, t, e) /\ SameBus(s, t) /\ SameLatch(s, t)
  /\ SameMarks(s, t, e) /\ t.ep = s.ep /\ t.ctl = s.ctl /\ t.in_length = s.in_length
  /\ t.q[e] = <<>> /\ t.done = s.done \cup Returns(s, e, err)

Completed(s, t, e, err) ==
  /\ t \in Device /\ Local(s, t, e) /\ SameBus(s, t) /\ SameLatch(s, t)
  /\ SameMarks(s, t, e) /\ SameSwitches(s, t, e) /\ ~t.ep[e].busy
  /\ t.ctl = s.ctl /\ t.in_length = s.in_length
  /\ t.q[e] = Tail(s.q[e])
  /\ t.done = s.done \cup {Outcome(s, e, Head(s.q[e]), err)}

(***************************************************************************)
(* wch_transfer for a data packet.                                         *)
(***************************************************************************)

\* What a packet does not change in the request it belongs to.
SameRequest(h, r) ==
  /\ r \in Requests
  /\ r.id = h.id /\ r.setup = h.setup /\ r.size = h.size /\ r.want = h.want /\ r.pk = h.pk

\* The request goes on with the rest of its data, ...
GoesOn(s, t, e, r) ==
  t.q[e] = [s.q[e] EXCEPT ![1] = r] /\ t.done = s.done

\* ... or goes back.
GoesBack(s, t, e, r, err) ==
  /\ t.q[e] = Tail(s.q[e]) /\ t.done = s.done \cup {Outcome(s, e, r, err)}
  /\ ~t.ep[e].busy

OneEp(s, t, e) ==
  /\ t \in Device /\ Local(s, t, e) /\ SameBus(s, t) /\ SameLatch(s, t)
  /\ SameMarks(s, t, e) /\ SameSwitches(s, t, e)

AnsweredIs(s, t, e) ==
  /\ OneEp(s, t, e) /\ t.ep = s.ep /\ t.q = s.q /\ t.in_length = s.in_length
  /\ t.done = s.done /\ t.ctl[e].r = "NAK" /\ t.ctl[e].t = 1 - s.ctl[e].t

\* The first request of a queue replaced, everything else as it was.
Replaced(s, t, e, r) ==
  /\ OneEp(s, t, e) /\ t.ep = s.ep /\ t.ctl = s.ctl /\ t.in_length = s.in_length
  /\ t.done = s.done /\ t.q[e] = [s.q[e] EXCEPT ![1] = r] /\ Head(t.q[e]) = r
  /\ t.q[e] # <<>> /\ Tail(t.q[e]) = Tail(s.q[e])

\* The endpoint released.
Freed(s, t, e) ==
  /\ OneEp(s, t, e) /\ t.ctl = s.ctl /\ t.q = s.q /\ t.in_length = s.in_length
  /\ t.done = s.done /\ ~t.ep[e].busy

\* An IN packet was acknowledged: its bytes leave the request, and the request
\* goes on with an empty packet, goes back or waits for its next packet.
SentPacket(s, t, e) ==
  \E r \in Requests :
    /\ SameRequest(Head(s.q[e]), r) /\ r.sent = Head(s.q[e]).sent
    /\ r.bad = Head(s.q[e]).bad /\ r.len = Head(s.q[e]).len - s.in_length[e]
    /\ t.ctl[e].t = 1 - s.ctl[e].t
    /\ \/ /\ GoesOn(s, t, e, r) /\ t.ep[e].busy /\ t.ctl[e].r = "ACK"
          /\ t.in_length[e] = 0 /\ s.in_length[e] = MPS
          /\ r.len = 0 /\ ~r.zlp /\ Head(s.q[e]).zlp
       \/ /\ GoesBack(s, t, e, r, "OK") /\ t.ctl[e].r = "NAK"
          /\ r.len = 0 /\ (Head(s.q[e]).zlp => s.in_length[e] # MPS)
       \/ /\ GoesOn(s, t, e, r) /\ ~t.ep[e].busy /\ t.ctl[e].r = "NAK"
          /\ r.len # 0 /\ r.zlp = Head(s.q[e]).zlp

\* An OUT packet was accepted: its bytes enter the request, and the request goes
\* back or waits for its next packet.  A packet the request has no room for ends
\* it with an error.
ReceivedPacket(s, t, e) ==
  \E r \in Requests :
    /\ SameRequest(Head(s.q[e]), r) /\ t.ctl[e].r = "NAK" /\ t.ctl[e].t = 1 - s.ctl[e].t
    /\ \/ r = Head(s.q[e]) /\ GoesBack(s, t, e, r, "EMSGSIZE")
       \/ /\ s.st.len <= Head(s.q[e]).len /\ r.len = Head(s.q[e]).len - s.st.len
          /\ r.sent = IF s.st.fresh THEN Head(s.q[e]).sent + s.st.len ELSE Head(s.q[e]).sent
          /\ r.bad <=> Head(s.q[e]).bad \/ s.st.bad
          /\ \/ GoesBack(s, t, e, r, "OK")
             \/ GoesOn(s, t, e, r) /\ ~t.ep[e].busy

\* A repeated OUT packet: nothing happens but that the ghost counts it if the
\* host did not mean it as a repetition.
IgnoredPacket(s, t, e) ==
  \E r \in Requests :
    /\ SameRequest(Head(s.q[e]), r) /\ r.len = Head(s.q[e]).len
    /\ r.bad = Head(s.q[e]).bad /\ r.zlp = Head(s.q[e]).zlp
    /\ r.sent = IF s.st.fresh THEN Head(s.q[e]).sent + s.st.len ELSE Head(s.q[e]).sent
    /\ Replaced(s, t, e, r)

(***************************************************************************)
(* wch_transfer for a SETUP.                                               *)
(***************************************************************************)

\* What the common layer sends back when a SETUP arrives.
SetupReturns(s, e, err) ==
  {Outcome(s, e, s.q[e][i], IF s.q[e][i].setup THEN err ELSE "ECONNRESET") :
     i \in DOMAIN s.q[e]}

Superseded(s, t) ==
  /\ t \in Device
  /\ \A g \in Bulk :
       /\ t.ep[g] = s.ep[g] /\ t.ctl[g] = s.ctl[g] /\ t.q[g] = s.q[g]
       /\ t.in_length[g] = s.in_length[g] /\ t.skew[g] = s.skew[g]
       /\ t.unheard[g] = s.unheard[g] /\ t.refused[g] = s.refused[g]
  /\ \A g \in Control :
       /\ t.q[g] = <<>> /\ ~t.ep[g].busy /\ ~t.ep[g].halted
       /\ t.ep[g].enabled = s.ep[g].enabled
       /\ t.ctl[g].r = "NAK" /\ t.ctl[g].t = 1
       /\ ~t.skew[g] /\ ~t.refused[g] /\ ~t.unheard[g]
  /\ t.running = s.running /\ t.on = s.on /\ t.sie = s.sie /\ t.mode = s.mode
  /\ t.copying = s.copying /\ SameLatch(s, t)
  /\ t.taken <=> ~t.pending
  /\ \E err \in Err :
       t.done = s.done \cup SetupReturns(s, "in0", err) \cup SetupReturns(s, "out0", err)

UnstalledIs(s, t, e) ==
  /\ t \in Device /\ Local(s, t, e) /\ SameBus(s, t) /\ SameLatch(s, t)
  /\ t.q = s.q /\ t.in_length = s.in_length /\ t.done = s.done
  /\ t.skew = s.skew /\ t.unheard = s.unheard /\ t.refused = s.refused
  /\ t.ctl[e].r = "NAK" /\ t.ctl[e].t = 1
  /\ ~t.ep[e].halted /\ t.ep[e].busy = s.ep[e].busy /\ t.ep[e].enabled = s.ep[e].enabled

(***************************************************************************)
(* wch_transfer.                                                           *)
(***************************************************************************)

\* An armed endpoint has a data request to work on, and what is staged for an
\* IN endpoint is the beginning of what is left of it.
EpSound(s, e) ==
  s.ep[e].busy =>
    /\ s.running /\ s.ep[e].enabled /\ ~s.ep[e].halted
    /\ s.q[e] # <<>> /\ ~Head(s.q[e]).setup
    /\ IsIn(e) => s.in_length[e] = Least(Head(s.q[e]).len, MPS)

DataTransferred(s, t, e) ==
  /\ OneEp(s, t, e)
  /\ ~s.ep[e].busy => t = s
  /\ s.ep[e].busy /\ IsIn(e) => SentPacket(s, t, e)
  /\ s.ep[e].busy /\ ~IsIn(e) /\ s.st.ok => ReceivedPacket(s, t, e)
  /\ s.ep[e].busy /\ ~IsIn(e) /\ ~s.st.ok => IgnoredPacket(s, t, e)

(***************************************************************************)
(* wch_kick, and the calls that refuse, cancel or halt.                    *)
(***************************************************************************)

Kicked(s, t, e) == IF Startable(s, e) THEN Staged(s, t, e) ELSE t = s

SameBusButCopying(s, t) ==
  /\ t.running = s.running /\ t.on = s.on /\ t.sie = s.sie /\ t.mode = s.mode
  /\ t.pending = s.pending /\ t.taken = s.taken

CheckedIs(s, t) ==
  /\ t \in Device /\ SameEps(s, t) /\ SameLatch(s, t) /\ SameBusButCopying(s, t)
  /\ t.copying <=> Startable(s, "in0")

RefusedIs(s, t, e) ==
  /\ t \in Device /\ Local(s, t, e) /\ SameBus(s, t) /\ SameLatch(s, t)
  /\ t.ep = s.ep /\ t.q = s.q /\ t.in_length = s.in_length /\ t.done = s.done
  /\ t.skew = s.skew /\ t.unheard = s.unheard /\ (t.refused[e] <=> s.ep[e].busy)
  /\ t.ctl[e].r = "NAK" /\ t.ctl[e].t = s.ctl[e].t

LatchedFor(s, e) == "TRANSFER" \in s.fg /\ s.st.ep = e

\* What wch_quiesce does to the latched completion and to the queue: a
\* completion of this endpoint is consumed, and credited unless the queue is
\* being cancelled.
Credited(s, t, e, cancel) ==
  /\ IF LatchedFor(s, e) THEN t.fg = s.fg \ {"TRANSFER"} /\ t.st = NoToken
                         ELSE SameLatch(s, t)
  /\ IF LatchedFor(s, e) /\ ~cancel
     THEN \E n, m : /\ Responded(s, n, e, "NAK") /\ DataTransferred(n, m, e)
                    /\ t.q = m.q /\ t.done = m.done /\ t.ctl[e].t = m.ctl[e].t
     ELSE t.q = s.q /\ t.done = s.done /\ t.ctl[e].t = s.ctl[e].t

Sought(s, t, e, cancel) ==
  /\ t \in Device /\ Local(s, t, e) /\ SameBus(s, t) /\ SameSwitches(s, t, e)
  /\ SameMarks(s, t, e) /\ t.ctl[e].r = "NAK" /\ Credited(s, t, e, cancel)

Quiesced(s, t, e, cancel) ==
  /\ t \in Device /\ Local(s, t, e) /\ SameBus(s, t) /\ SameSwitches(s, t, e)
  /\ t.ctl[e].r = "NAK" /\ ~t.ep[e].busy /\ ~t.refused[e] /\ ~t.unheard[e]
  /\ t.skew[e] <=> s.skew[e] \/ (s.ep[e].busy /\ (cancel \/ s.unheard[e]))
  /\ Credited(s, t, e, cancel)

\* What ends the loans of an endpoint: its whole queue goes back.
SentBack(s, t, e) ==
  \E m \in Device : m.q[e] = s.q[e] /\ t.done = s.done \cup Returns(m, e, "ECONNABORTED")

Dequeued(s, t, e) ==
  /\ t \in Device /\ Local(s, t, e) /\ SameBus(s, t) /\ SameSwitches(s, t, e)
  /\ t.ctl[e].r = "NAK" /\ ~t.ep[e].busy /\ ~t.refused[e] /\ ~t.unheard[e]
  /\ IF LatchedFor(s, e) THEN t.fg = s.fg \ {"TRANSFER"} /\ t.st = NoToken
                         ELSE SameLatch(s, t)
  /\ t.q[e] = <<>> /\ SentBack(s, t, e)

Stalled(s, t, e) ==
  /\ t \in Device /\ Local(s, t, e) /\ SameBus(s, t) /\ SameLatch(s, t) /\ SameMarks(s, t, e)
  /\ t.q = s.q /\ t.in_length = s.in_length /\ t.done = s.done
  /\ t.ctl[e].r = "STALL" /\ t.ctl[e].t = s.ctl[e].t
  /\ t.ep[e].halted /\ t.ep[e].enabled = s.ep[e].enabled /\ t.ep[e].busy = s.ep[e].busy

Halted(s, t, e) ==
  \E m : /\ Quiesced(s, m, e, FALSE)
         /\ IF e \in Control /\ (wch_setup_pending(m) \/ m.pending) THEN t = m
                                                                    ELSE Stalled(m, t, e)

ToggleReset(s, t, e) ==
  /\ t \in Device /\ Local(s, t, e) /\ SameBus(s, t) /\ SameLatch(s, t)
  /\ t.q = s.q /\ t.in_length = s.in_length /\ t.done = s.done
  /\ t.unheard[e] = s.unheard[e] /\ t.refused[e] = s.refused[e]
  /\ t.skew[e] <=> s.skew[e] /\ s.q[e] # <<>>
  /\ t.ctl[e].r = "NAK" /\ t.ctl[e].t = 0
  /\ ~t.ep[e].halted /\ t.ep[e].enabled = s.ep[e].enabled /\ t.ep[e].busy = s.ep[e].busy

HaltCleared(s, t, e) == \E m : ToggleReset(s, m, e) /\ Kicked(m, t, e)

(***************************************************************************)
(* The books: every loan is in one queue, at one place, or has come back   *)
(* once.                                                                   *)
(***************************************************************************)

Books(q, done, n) ==
  /\ \A e \in Eps : \A i \in DOMAIN q[e] : q[e][i].id \in 1..n
  /\ \A e, f \in Eps : \A i \in DOMAIN q[e], j \in DOMAIN q[f] :
       q[e][i].id = q[f][j].id => e = f /\ i = j
  /\ \A d \in done : d.id \in 1..n
  /\ \A c, d \in done : c.id = d.id => c = d
  /\ \A d \in done : \A e \in Eps : \A i \in DOMAIN q[e] : d.id # q[e][i].id
  /\ \A k \in 1..n : \/ \E e \in Eps : \E i \in DOMAIN q[e] : q[e][i].id = k
                     \/ \E d \in done : d.id = k

\* The outcomes in a set match the requests of a queue one to one.
Matches(back, sq) ==
  /\ \A o \in back : \E i \in DOMAIN sq : o.id = sq[i].id
  /\ \A i \in DOMAIN sq : \E o \in back : o.id = sq[i].id
  /\ \A o, p \in back : o.id = p.id => o = p

\* One queue is empty, the others are as they were.
Emptied(q, r, e) == r[e] = <<>> /\ \A g \in Eps \ {e} : r[g] = q[g]

KeepsBooks(s, t) == \A n : Books(s.q, s.done, n) => Books(t.q, t.done, n)

\* What comes back anew is reported as aborted.
OnlyAborts(s, t) == \A d \in t.done : d \in s.done \/ d.err = "ECONNABORTED"

(***************************************************************************)
(* Enabling and disabling endpoints.                                       *)
(***************************************************************************)

SameBusButMode(s, t) ==
  /\ t.running = s.running /\ t.on = s.on /\ t.sie = s.sie
  /\ t.copying = s.copying /\ t.pending = s.pending /\ t.taken = s.taken

EpEnabled(s, t, e) ==
  /\ t \in Device /\ Local(s, t, e) /\ SameBusButMode(s, t) /\ SameLatch(s, t)
  /\ t.mode \subseteq s.mode \cup {e}
  /\ t.ctl[e].r = (IF e = "out0" THEN "ACK" ELSE "NAK") /\ t.ctl[e].t = 0
  /\ t.ep[e].enabled /\ ~t.ep[e].halted /\ ~t.ep[e].busy
  /\ t.q = s.q /\ t.in_length = s.in_length /\ t.done = s.done
  /\ ~t.skew[e] /\ ~t.refused[e] /\ t.unheard = s.unheard

SwitchedOff(s, t, e) ==
  /\ t \in Device /\ Local(s, t, e) /\ SameBusButMode(s, t) /\ SameLatch(s, t)
  /\ SameMarks(s, t, e) /\ t.mode = s.mode \ {e}
  /\ t.ctl = s.ctl /\ t.q = s.q /\ t.in_length = s.in_length /\ t.done = s.done
  /\ ~t.ep[e].enabled /\ t.ep[e].halted = s.ep[e].halted /\ t.ep[e].busy = s.ep[e].busy

EpDisabled(s, t, e) == \E m : Dequeued(s, m, e) /\ SwitchedOff(m, t, e)

(***************************************************************************)
(* The bus reset.                                                          *)
(***************************************************************************)

EpReset(s, t, e) ==
  /\ t \in Device /\ Local(s, t, e) /\ SameBus(s, t) /\ SameLatch(s, t)
  /\ t.q[e] = <<>> /\ SentBack(s, t, e) /\ t.ctl[e].r = "NAK" /\ ~t.refused[e]
  /\ ~t.ep[e].busy /\ ~t.ep[e].halted /\ (t.ep[e].enabled <=> e \in Control)

\* An endpoint the reset has been through.
EpClear(t, g) ==
  /\ t.q[g] = <<>> /\ ~t.ep[g].busy /\ ~t.ep[g].halted
  /\ (t.ep[g].enabled <=> g \in Control) /\ ~t.refused[g] /\ t.ctl[g].r = "NAK"

AllReset(s, t) ==
  /\ t \in Device /\ SameLatch(s, t)
  /\ t.running = s.running /\ t.on = s.on /\ t.sie = s.sie /\ t.copying = s.copying
  /\ t.mode = {} /\ ~t.pending /\ ~t.taken
  /\ \A g \in Eps : /\ t.q[g] = <<>> /\ ~t.ep[g].busy /\ ~t.ep[g].halted
                    /\ (t.ep[g].enabled <=> g \in Control) /\ ~t.refused[g]
                    /\ ~t.skew[g] /\ ~t.unheard[g]
                    /\ t.ctl[g].r = IF g = "out0" THEN "ACK" ELSE "NAK"
  /\ t.ctl["in0"].t = 0 /\ t.ctl["out0"].t = 0
  /\ KeepsBooks(s, t) /\ OnlyAborts(s, t)

(***************************************************************************)
(* Starting and stopping the device.                                       *)
(***************************************************************************)

\* An endpoint without work.
EpIdle(t, g) == t.q[g] = <<>> /\ ~t.ep[g].busy /\ ~t.refused[g] /\ t.ctl[g].r = "NAK"

\* The latch is empty.
NothingLatched(s) == s.fg = {} /\ s.st = NoToken

AllDequeued(s, t) ==
  /\ t \in Device /\ SameBus(s, t) /\ NothingLatched(t)
  /\ \A g \in Eps : EpIdle(t, g)
  /\ KeepsBooks(s, t) /\ OnlyAborts(s, t)

Down(s, t) ==
  /\ t \in Device /\ NothingLatched(t) /\ ~t.running /\ ~t.on /\ t.sie = "none"
  /\ ~t.pending /\ ~t.taken /\ t.copying = s.copying
  /\ \A g \in Eps : EpIdle(t, g)
  /\ KeepsBooks(s, t) /\ OnlyAborts(s, t)

Attached(s, t) ==
  /\ t \in Device /\ NothingLatched(t) /\ t.running /\ t.on /\ t.sie = s.sie
  /\ t.mode = s.mode /\ t.copying = s.copying /\ t.pending = s.pending /\ t.taken = s.taken
  /\ t.ep = s.ep /\ t.q = s.q /\ t.in_length = s.in_length /\ t.done = s.done
  /\ t.skew = s.skew /\ t.unheard = s.unheard /\ t.refused = s.refused
  /\ \A g \in Bulk : t.ctl[g] = s.ctl[g]
  /\ t.ctl["out0"].r = "ACK" /\ t.ctl["out0"].t = 0
  /\ t.ctl["in0"].r = "NAK" /\ t.ctl["in0"].t = 0

ClearedIs(s, t) ==
  /\ t \in Device /\ SameEps(s, t) /\ NothingLatched(t) /\ ~t.on /\ t.mode = {}
  /\ t.running = s.running /\ t.sie = s.sie /\ t.copying = s.copying
  /\ t.pending = s.pending /\ t.taken = s.taken

\* The device while it is initialised or being initialised, never attached.
Prepared0(s, t) ==
  /\ t \in Device /\ NothingLatched(t) /\ ~t.on /\ t.mode = {}
  /\ t.running = s.running /\ t.sie = s.sie /\ t.copying = s.copying
  /\ t.pending = s.pending /\ t.taken = s.taken
  /\ \A g \in Eps : t.q[g] = <<>> /\ (t.ep[g].busy => s.ep[g].busy)
  /\ KeepsBooks(s, t) /\ OnlyAborts(s, t)
=============================================================================
