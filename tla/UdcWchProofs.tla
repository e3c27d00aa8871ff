---------------------------- MODULE UdcWchProofs ----------------------------
(***************************************************************************)
(* Lemmas about the functions of the USBFS device driver (UdcWch): what    *)
(* each of them does to the fields of the device record, in the terms the  *)
(* invariants of UdcBusProofs are stated in.                               *)
(***************************************************************************)
EXTENDS UdcStepProofs

(***************************************************************************)
(* Stage and wch_kick: the endpoint is armed.                              *)
(***************************************************************************)

\* Stage arms the endpoint with the next packet of its first request.
LEMMA StageEffect ==
  ASSUME NEW s \in Device, NEW e \in Eps, s.q[e] # <<>>
  PROVE  Staged(s, Stage(s, e), e)
<1>1. PICK y \in EpState : y = s.ep[e]
  BY Fields, Zenon
<1>2. PICK z \in Slot : z = s.ctl[e]
  BY Fields, Zenon
<1>3. PICK r \in Requests : r = Head(s.q[e])
  BY Fields, First, Zenon
<1>4. PICK len \in 0..MPS : len = Least(r.len, MPS)
  BY DEF Requests, Least, MPS
<1>5. PICK x : x = [y EXCEPT !.busy = TRUE]
  BY Zenon
<1>6. x \in EpState /\ x.busy /\ x.enabled = y.enabled /\ x.halted = y.halted
  BY <1>5, Zenon DEF EpState
<1>7. PICK c : c = [z EXCEPT !.r = "ACK"]
  BY Zenon
<1>8. c \in Slot /\ c.r = "ACK" /\ c.t = z.t
  BY <1>7, Zenon DEF Slot
<1>9. PICK l \in 0..MPS : l = IF IsIn(e) THEN len ELSE s.in_length[e]
  BY Fields, Zenon
<1>10. PICK ep \in [Eps -> EpState] : ep = [s.ep EXCEPT ![e] = x]
  BY <1>6, Fields, Zenon
<1>11. PICK ctl \in [Eps -> Slot] : ctl = [s.ctl EXCEPT ![e] = c]
  BY <1>8, Fields, Zenon
<1>12. PICK il \in [Eps -> 0..MPS] : il = [s.in_length EXCEPT ![e] = l]
  BY Fields, Zenon
<1>13. PICK p0 \in {"none", "in", "setup"} :
         p0 = IF e = "in0" /\ len > 0 THEN "in" ELSE s.packet0
  BY Fields, Zenon
<1>14. PICK t : t = [s EXCEPT !.ep = ep, !.ctl = ctl, !.in_length = il, !.packet0 = p0]
  BY Zenon
<1>15. Stage(s, e) = t
  <2>1. Stage(s, e) = [s EXCEPT !.ep[e].busy = TRUE, !.ctl[e].r = "ACK",
                                !.in_length[e] = l, !.packet0 = p0]
    BY ONLY <1>3, <1>4, <1>9, <1>13, Zenon DEF Stage
  <2>2. PICK m : m = [s EXCEPT !.ep = ep, !.ctl = ctl]
    BY Zenon
  <2>3. [s EXCEPT !.ep[e].busy = TRUE] = [s EXCEPT !.ep = ep]
    BY ONLY <1>1, <1>5, <1>10, Zenon
  <2>4. [s EXCEPT !.ctl[e].r = "ACK"] = [s EXCEPT !.ctl = ctl]
    BY ONLY <1>2, <1>7, <1>11, Zenon
  <2>5. [s EXCEPT !.ep[e].busy = TRUE, !.ctl[e].r = "ACK"] = m
    BY ONLY <1>1, <1>2, <1>5, <1>7, <1>10, <1>11, <2>2, Zenon
  <2>6. Stage(s, e) = [m EXCEPT !.in_length[e] = l, !.packet0 = p0]
    BY ONLY <2>1, <2>5, Zenon
  <2>7. m.in_length = s.in_length
    BY ONLY <2>2, s \in Device, Zenon DEF Device
  <2>8. t = [m EXCEPT !.in_length = il, !.packet0 = p0]
    BY ONLY <1>14, <2>2, Zenon
  <2> QED BY ONLY <1>12, <2>6, <2>7, <2>8, Zenon
<1>16. t \in Device
  BY ONLY <1>14, s \in Device, Zenon DEF Device
<1>17. /\ t.ep = ep /\ t.ctl = ctl /\ t.in_length = il
       /\ t.q = s.q /\ t.done = s.done /\ t.skew = s.skew /\ t.unheard = s.unheard
       /\ t.refused = s.refused /\ SameBus(s, t) /\ SameLatch(s, t)
  BY ONLY <1>14, s \in Device, Zenon DEF Device, SameBus, SameLatch
<1>18. ep[e] = x /\ ctl[e] = c /\ il[e] = l
  BY <1>10, <1>11, <1>12, Fields, Zenon
<1>19. Local(s, t, e)
  BY <1>10, <1>11, <1>12, <1>17, Fields DEF Local
<1> QED
  BY <1>1, <1>2, <1>3, <1>4, <1>6, <1>8, <1>9, <1>15, <1>16, <1>17, <1>18, <1>19, Zenon
  DEF Staged, SameMarks, SameSwitches

(***************************************************************************)
(* wch_ack, wch_response, udc_ep_cancel_queued and wch_complete.           *)
(***************************************************************************)

\* wch_ack clears flags, and with TRANSFER the latched outcome.
LEMMA AckEffect ==
  ASSUME NEW s \in Device, NEW flags
  PROVE  Acked(s, wch_ack(s, flags), flags)
<1>1. PICK fg \in SUBSET Flag : fg = s.fg \ flags
  BY Fields, Zenon
<1>2. PICK st \in Latch : st = IF "TRANSFER" \in flags THEN NoToken ELSE s.st
  BY Fields, NoTokenType, Zenon
<1>3. PICK t : t = [s EXCEPT !.fg = fg, !.st = st]
  BY Zenon
<1>4. wch_ack(s, flags) = t
  BY <1>1, <1>2, <1>3, Zenon DEF wch_ack
<1>5. t \in Device /\ SameEps(s, t) /\ SameBus(s, t) /\ t.fg = fg /\ t.st = st
  BY ONLY <1>3, s \in Device, ZenonT(60) DEF Device, SameEps, SameBus
<1> QED BY <1>1, <1>2, <1>4, <1>5, Zenon DEF Acked

\* wch_response changes the answer of one endpoint.
LEMMA ResponseEffect ==
  ASSUME NEW s \in Device, NEW e \in Eps, NEW response \in {"ACK", "NAK", "STALL"}
  PROVE  Responded(s, wch_response(s, e, response), e, response)
<1>1. PICK z \in Slot : z = s.ctl[e]
  BY Fields, Zenon
<1>2. PICK c : c = [z EXCEPT !.r = response]
  BY Zenon
<1>3. c \in Slot /\ c.r = response /\ c.t = z.t
  BY <1>2, Zenon DEF Slot
<1>4. PICK ctl \in [Eps -> Slot] : ctl = [s.ctl EXCEPT ![e] = c]
  BY <1>3, Fields, Zenon
<1>5. PICK t : t = [s EXCEPT !.ctl = ctl]
  BY Zenon
<1>6. wch_response(s, e, response) = t
  BY <1>1, <1>2, <1>4, <1>5, Zenon DEF wch_response
<1>7. /\ t \in Device /\ SameBus(s, t) /\ SameLatch(s, t) /\ t.ctl = ctl
      /\ t.ep = s.ep /\ t.q = s.q /\ t.in_length = s.in_length /\ t.done = s.done
      /\ t.skew = s.skew /\ t.unheard = s.unheard /\ t.refused = s.refused
  BY ONLY <1>5, s \in Device, ZenonT(60) DEF Device, SameBus, SameLatch
<1>8. ctl[e] = c /\ \A g \in Eps \ {e} : ctl[g] = s.ctl[g]
  BY <1>4, Fields, Zenon
<1> QED BY <1>1, <1>3, <1>6, <1>7, <1>8, Zenon DEF Responded, Local, SameMarks

\* A returned queue is a set of returns.
LEMMA ReturnsType ==
  ASSUME NEW s \in Device, NEW e \in Eps, NEW err \in Err
  PROVE  Returns(s, e, err) \subseteq Return
<1>1. s.q[e] \in Seq(Requests)
  BY Fields, Zenon
<1>2. \A i \in DOMAIN s.q[e] : s.q[e][i] \in Requests
  BY <1>1
<1> QED BY <1>2, OutcomeType DEF Returns

\* udc_ep_cancel_queued returns every request of the queue.
LEMMA CancelEffect ==
  ASSUME NEW s \in Device, NEW e \in Eps, NEW err \in Err
  PROVE  Cancelled(s, udc_ep_cancel_queued(s, e, err), e, err)
<1>1. PICK q \in [Eps -> Seq(Requests)] : q = [s.q EXCEPT ![e] = <<>>]
  <2>1. PICK none \in Seq(Requests) : none = <<>>
    <3>1. <<>> \in Seq(Requests)
      OBVIOUS
    <3> QED BY <3>1, Zenon
  <2>2. [s.q EXCEPT ![e] = none] \in [Eps -> Seq(Requests)]
    BY Fields, Zenon
  <2> QED BY <2>1, <2>2, Zenon
<1>2. PICK d \in SUBSET Return : d = s.done \cup Returns(s, e, err)
  BY Fields, ReturnsType, Zenon
<1>3. PICK t : t = [s EXCEPT !.q = q, !.done = d]
  BY Zenon
<1>4. udc_ep_cancel_queued(s, e, err) = t
  BY <1>1, <1>2, <1>3, Zenon DEF udc_ep_cancel_queued, Returns
<1>5. /\ t \in Device /\ SameBus(s, t) /\ SameLatch(s, t) /\ t.ctl = s.ctl
      /\ t.ep = s.ep /\ t.q = q /\ t.in_length = s.in_length /\ t.done = d
      /\ t.skew = s.skew /\ t.unheard = s.unheard /\ t.refused = s.refused
  BY ONLY <1>3, s \in Device, ZenonT(60) DEF Device, SameBus, SameLatch
<1>6. q[e] = <<>> /\ \A g \in Eps \ {e} : q[g] = s.q[g]
  BY <1>1, Fields, Zenon
<1> QED BY <1>2, <1>4, <1>5, <1>6, Zenon DEF Cancelled, Local, SameMarks

\* wch_complete returns the first request.
LEMMA CompleteEffect ==
  ASSUME NEW s \in Device, NEW e \in Eps, NEW err \in Err, s.q[e] # <<>>
  PROVE  Completed(s, wch_complete(s, e, err), e, err)
<1>1. PICK y \in EpState : y = s.ep[e]
  BY Fields, Zenon
<1>2. PICK x : x = [y EXCEPT !.busy = FALSE]
  BY Zenon
<1>3. x \in EpState /\ ~x.busy /\ x.enabled = y.enabled /\ x.halted = y.halted
  BY <1>2, Zenon DEF EpState
<1>4. PICK ep \in [Eps -> EpState] : ep = [s.ep EXCEPT ![e] = x]
  BY <1>3, Fields, Zenon
<1>5. PICK m : m = [s EXCEPT !.ep = ep]
  BY Zenon
<1>6. /\ m \in Device /\ SameBus(s, m) /\ SameLatch(s, m) /\ m.ctl = s.ctl
      /\ m.ep = ep /\ m.q = s.q /\ m.in_length = s.in_length /\ m.done = s.done
      /\ m.skew = s.skew /\ m.unheard = s.unheard /\ m.refused = s.refused
  BY ONLY <1>5, s \in Device, Zenon DEF Device, SameBus, SameLatch
<1>7. wch_complete(s, e, err) = udc_submit_ep_event(m, e, err)
  BY <1>1, <1>2, <1>4, <1>5, Zenon DEF wch_complete, Idled
<1>8. Head(s.q[e]) \in Requests /\ Tail(s.q[e]) \in Seq(Requests)
  BY Fields, First, Zenon
<1>9. PICK o \in Return : o = Outcome(s, e, Head(s.q[e]), err)
  BY <1>8, OutcomeType, Zenon
<1>10. o = Outcome(m, e, Head(m.q[e]), err)
  BY <1>6, <1>9, Zenon DEF Outcome, Exact
<1>11. PICK q \in [Eps -> Seq(Requests)] : q = [m.q EXCEPT ![e] = Tail(m.q[e])]
  BY <1>6, <1>8, Fields, Zenon
<1>12. PICK d \in SUBSET Return : d = m.done \cup {o}
  BY <1>6, Fields, Zenon
<1>13. PICK t : t = [m EXCEPT !.q = q, !.done = d]
  BY Zenon
<1>14. udc_submit_ep_event(m, e, err) = t
  BY <1>10, <1>11, <1>12, <1>13, Zenon DEF udc_submit_ep_event
<1>15. /\ t \in Device /\ SameBus(m, t) /\ SameLatch(m, t) /\ t.ctl = m.ctl
       /\ t.ep = m.ep /\ t.q = q /\ t.in_length = m.in_length /\ t.done = d
       /\ t.skew = m.skew /\ t.unheard = m.unheard /\ t.refused = m.refused
  BY ONLY <1>6, <1>13, ZenonT(60) DEF Device, SameBus, SameLatch
<1>16. SameBus(s, t) /\ SameLatch(s, t)
  BY <1>6, <1>15, Zenon DEF SameBus, SameLatch
<1>17. /\ t.ep[e] = x /\ t.q[e] = Tail(s.q[e])
       /\ \A g \in Eps \ {e} : t.ep[g] = s.ep[g] /\ t.q[g] = s.q[g]
  BY <1>4, <1>6, <1>11, <1>15, Fields
<1> QED
  BY <1>1, <1>3, <1>6, <1>7, <1>9, <1>12, <1>14, <1>15, <1>16, <1>17, SMTT(30)
  DEF Completed, Local, SameMarks, SameSwitches

(***************************************************************************)
(* wch_transfer for a data packet.                                         *)
(***************************************************************************)

\* The endpoint answers NAK and expects the other toggle.
LEMMA AnsweredEffect ==
  ASSUME NEW s \in Device, NEW e \in Eps
  PROVE  AnsweredIs(s, Answered(s, e), e)
<1>1. PICK z \in Slot : z = s.ctl[e]
  BY Fields, Zenon
<1>2. PICK tog \in 0..1 : tog = 1 - z.t
  BY DEF Slot
<1>3. PICK c : c = [r |-> "NAK", t |-> tog]
  BY Zenon
<1>4. c \in Slot /\ c.r = "NAK" /\ c.t = tog
  BY <1>3, Zenon DEF Slot
<1>5. PICK ctl \in [Eps -> Slot] : ctl = [s.ctl EXCEPT ![e] = c]
  BY <1>4, Fields, Zenon
<1>6. PICK t : t = [s EXCEPT !.ctl = ctl]
  BY Zenon
<1>7. Answered(s, e) = t
  BY <1>1, <1>2, <1>3, <1>5, <1>6, Zenon DEF Answered
<1>8. /\ t \in Device /\ SameBus(s, t) /\ SameLatch(s, t) /\ t.ctl = ctl
      /\ t.ep = s.ep /\ t.q = s.q /\ t.in_length = s.in_length /\ t.done = s.done
      /\ t.skew = s.skew /\ t.unheard = s.unheard /\ t.refused = s.refused
  BY ONLY <1>6, s \in Device, ZenonT(60) DEF Device, SameBus, SameLatch
<1>9. ctl[e] = c /\ \A g \in Eps \ {e} : ctl[g] = s.ctl[g]
  BY <1>5, Fields, Zenon
<1> QED
  BY <1>1, <1>2, <1>4, <1>7, <1>8, <1>9, Zenon
  DEF AnsweredIs, OneEp, Local, SameMarks, SameSwitches

\* The first request of a queue is replaced.
LEMMA ReplaceEffect ==
  ASSUME NEW s \in Device, NEW e \in Eps, s.q[e] # <<>>, NEW r \in Requests, NEW t,
         t = [s EXCEPT !.q = [s.q EXCEPT ![e] = [s.q[e] EXCEPT ![1] = r]]]
  PROVE  Replaced(s, t, e, r)
<1>1. s.q[e] \in Seq(Requests)
  BY Fields, Zenon
<1>2. PICK sq \in Seq(Requests) : sq = [s.q[e] EXCEPT ![1] = r]
  BY <1>1, FirstReplaced, Zenon
<1>3. sq # <<>> /\ Head(sq) = r /\ Tail(sq) = Tail(s.q[e])
  BY <1>1, <1>2, FirstReplaced, Zenon
<1>4. PICK q \in [Eps -> Seq(Requests)] : q = [s.q EXCEPT ![e] = sq]
  BY Fields, Zenon
<1>5. t = [s EXCEPT !.q = q]
  BY <1>2, <1>4, Zenon
<1>6. /\ t \in Device /\ SameBus(s, t) /\ SameLatch(s, t) /\ t.ctl = s.ctl
      /\ t.ep = s.ep /\ t.q = q /\ t.in_length = s.in_length /\ t.done = s.done
      /\ t.skew = s.skew /\ t.unheard = s.unheard /\ t.refused = s.refused
  BY ONLY <1>5, s \in Device, Zenon DEF Device, SameBus, SameLatch
<1>7. q[e] = sq /\ \A g \in Eps \ {e} : q[g] = s.q[g]
  BY <1>4, Fields, Zenon
<1> QED
  BY <1>2, <1>3, <1>6, <1>7, Zenon DEF Replaced, OneEp, Local, SameMarks, SameSwitches

\* The endpoint is no longer busy.
LEMMA FreeEffect ==
  ASSUME NEW s \in Device, NEW e \in Eps
  PROVE  Freed(s, Idled(s, e), e)
<1>1. PICK y \in EpState : y = s.ep[e]
  BY Fields, Zenon
<1>2. PICK x : x = [y EXCEPT !.busy = FALSE]
  BY Zenon
<1>3. x \in EpState /\ ~x.busy /\ x.enabled = y.enabled /\ x.halted = y.halted
  BY <1>2, Zenon DEF EpState
<1>4. PICK ep \in [Eps -> EpState] : ep = [s.ep EXCEPT ![e] = x]
  BY <1>3, Fields, Zenon
<1>5. PICK t : t = [s EXCEPT !.ep = ep]
  BY Zenon
<1>6. /\ t \in Device /\ SameBus(s, t) /\ SameLatch(s, t) /\ t.ctl = s.ctl
      /\ t.ep = ep /\ t.q = s.q /\ t.in_length = s.in_length /\ t.done = s.done
      /\ t.skew = s.skew /\ t.unheard = s.unheard /\ t.refused = s.refused
  BY ONLY <1>5, s \in Device, ZenonT(60) DEF Device, SameBus, SameLatch
<1>7. ep[e] = x /\ \A g \in Eps \ {e} : ep[g] = s.ep[g]
  BY <1>4, Fields, Zenon
<1>8. Idled(s, e) = t
  BY <1>1, <1>2, <1>4, <1>5, Zenon DEF Idled
<1> QED
  BY <1>1, <1>3, <1>6, <1>7, <1>8, Zenon DEF Freed, OneEp, Local, SameMarks, SameSwitches

\* The same with everything else they leave alone.
LEMMA OneEpTrans ==
  ASSUME NEW s, NEW m, NEW t, NEW e, OneEp(s, m, e), OneEp(m, t, e)
  PROVE  OneEp(s, t, e)
  BY DEF OneEp, Local, SameBus, SameLatch, SameMarks, SameSwitches

\* Staging is a step on one endpoint,
LEMMA StagedIsOneEp ==
  ASSUME NEW s, NEW t, NEW e, Staged(s, t, e)
  PROVE  OneEp(s, t, e)
  BY Zenon DEF OneEp, Staged

\* and so is returning a request.
LEMMA CompletedIsOneEp ==
  ASSUME NEW s, NEW t, NEW e, NEW err, Completed(s, t, e, err)
  PROVE  OneEp(s, t, e)
  BY Zenon DEF OneEp, Completed

\* wch_transfer on an IN packet that was acknowledged.
LEMMA TransferInEffect ==
  ASSUME NEW s \in Device, NEW e \in Eps, IsIn(e),
         s.running, s.ep[e].enabled, ~s.ep[e].halted, s.st.ep = e,
         s.q[e] # <<>>, ~Head(s.q[e]).setup,
         s.in_length[e] <= Head(s.q[e]).len
  PROVE  OneEp(s, TransferIn(s, e), e) /\ SentPacket(s, TransferIn(s, e), e)
<1>1. s.q[e] \in Seq(Requests) /\ s.in_length[e] \in 0..MPS
  BY Fields, Zenon
<1>2. PICK h \in Requests : h = Head(s.q[e]) /\ h = s.q[e][1]
  BY <1>1, First, Zenon
<1>3. PICK left \in Nat : left = h.len - s.in_length[e]
  <2>1. PICK l \in Nat : l = s.in_length[e]
    BY <1>1 DEF MPS
  <2>2. PICK k \in Nat : k = h.len
    BY Zenon DEF Requests
  <2>3. l <= k
    BY <1>2, <2>1, <2>2, Zenon
  <2>4. k - l \in Nat
    BY ONLY <2>3, l \in Nat, k \in Nat
  <2> QED BY <2>1, <2>2, <2>4, Zenon
<1>4. PICK a : a = Answered(s, e) /\ AnsweredIs(s, a, e)
  BY AnsweredEffect, Zenon
<1>5. /\ a \in Device /\ OneEp(s, a, e) /\ a.q = s.q /\ a.q[e] # <<>> /\ a.ep = s.ep
      /\ a.in_length = s.in_length /\ a.done = s.done
      /\ a.ctl[e].r = "NAK" /\ a.ctl[e].t = 1 - s.ctl[e].t
  BY <1>4, Zenon DEF AnsweredIs, OneEp
<1>6. PICK r1 : r1 = [h EXCEPT !.len = left]
  BY Zenon
<1>7. /\ r1 \in Requests /\ SameRequest(h, r1) /\ r1.len = left
      /\ r1.sent = h.sent /\ r1.bad = h.bad /\ r1.zlp = h.zlp
  BY <1>6, Zenon DEF Requests, SameRequest
<1>8. PICK p : p = [a EXCEPT !.q = [a.q EXCEPT ![e] = [a.q[e] EXCEPT ![1] = r1]]]
  BY Zenon
<1>9. [Answered(s, e) EXCEPT !.q[e][1].len = @ - s.in_length[e]] = p
  BY <1>2, <1>3, <1>4, <1>5, <1>6, <1>8, ZenonT(60)
<1>10. Replaced(a, p, e, r1)
  BY <1>5, <1>7, <1>8, ReplaceEffect, Zenon
<1>11. /\ p \in Device /\ OneEp(s, p, e) /\ p.ep = s.ep /\ p.ctl = a.ctl
       /\ p.in_length = s.in_length /\ p.done = s.done
       /\ p.q[e] = [s.q[e] EXCEPT ![1] = r1] /\ Head(p.q[e]) = r1 /\ p.q[e] # <<>>
       /\ Tail(p.q[e]) = Tail(s.q[e])
  BY <1>5, <1>10, OneEpTrans DEF Replaced, OneEp
<1>12. PICK r2 : r2 = [r1 EXCEPT !.zlp = FALSE]
  BY Zenon
<1>13. /\ r2 \in Requests /\ SameRequest(h, r2) /\ r2.len = left
       /\ r2.sent = h.sent /\ r2.bad = h.bad /\ ~r2.zlp
  BY <1>7, <1>12, Zenon DEF Requests, SameRequest
<1>14. PICK z : z = [p EXCEPT !.q = [p.q EXCEPT ![e] = [p.q[e] EXCEPT ![1] = r2]]]
  BY Zenon
<1>15. [p EXCEPT !.q[e][1].zlp = FALSE] = z
  <2>1. p.q[e] \in Seq(Requests)
    BY <1>11, Fields, ZenonT(60)
  <2>2. p.q[e][1] = r1
    BY <2>1, <1>11, First, Zenon
  <2> QED BY <2>2, <1>12, <1>14, Zenon
<1>16. Replaced(p, z, e, r2)
  BY <1>11, <1>13, <1>14, ReplaceEffect, Zenon
<1>17. /\ z \in Device /\ OneEp(s, z, e) /\ z.ep = s.ep /\ z.ctl = a.ctl
       /\ z.in_length = s.in_length /\ z.done = s.done
       /\ Head(z.q[e]) = r2 /\ z.q[e] # <<>> /\ Tail(z.q[e]) = Tail(s.q[e])
  BY <1>11, <1>16, OneEpTrans DEF Replaced, OneEp
<1>18. z.q[e] = [s.q[e] EXCEPT ![1] = r2]
  <2>1. z.q[e] = [[s.q[e] EXCEPT ![1] = r1] EXCEPT ![1] = r2]
    BY <1>11, <1>16, Zenon DEF Replaced
  <2>2. PICK n \in Nat : s.q[e] \in [1..n -> Requests]
    BY <1>1
  <2> QED BY <2>1, <2>2, Zenon
<1>19. ASSUME NEW n \in {p, z}, NEW r \in {r1, r2}, Head(n.q[e]) = r,
              n.q[e] = [s.q[e] EXCEPT ![1] = r], left = 0,
              h.zlp => s.in_length[e] # MPS, TransferIn(s, e) = wch_complete(n, e, "OK")
       PROVE  OneEp(s, TransferIn(s, e), e) /\ SentPacket(s, TransferIn(s, e), e)
  <2>1. PICK t : t = wch_complete(n, e, "OK")
    BY Zenon
  <2>2. Completed(n, t, e, "OK")
    BY <1>11, <1>17, <2>1, CompleteEffect, Zenon DEF Err
  <2>3. OneEp(s, n, e) /\ n.done = s.done /\ n.ctl = a.ctl /\ Tail(n.q[e]) = Tail(s.q[e])
    BY <1>11, <1>17, Zenon
  <2>4. OneEp(s, t, e)
    BY <2>2, <2>3, CompletedIsOneEp, OneEpTrans, Zenon
  <2>5. Outcome(n, e, r, "OK") = Outcome(s, e, r, "OK")
    <3>1. n.skew[e] = s.skew[e]
      BY <2>3, Zenon DEF OneEp, SameMarks
    <3> QED BY <3>1, Zenon DEF Outcome, Exact
  <2>6. GoesBack(s, t, e, r, "OK") /\ t.ctl[e].r = "NAK" /\ t.ctl[e].t = 1 - s.ctl[e].t
    BY <1>5, <1>19, <2>2, <2>3, <2>5 DEF Completed, GoesBack
  <2>7. r \in Requests /\ SameRequest(h, r) /\ r.sent = h.sent /\ r.bad = h.bad /\ r.len = left
    BY <1>7, <1>13, Zenon
  <2>8. SentPacket(s, t, e)
    BY ONLY <1>2, <1>3, <1>19, <2>6, <2>7, Zenon DEF SentPacket
  <2> QED BY <1>19, <2>1, <2>4, <2>8, Zenon
<1>20. CASE left = 0 /\ h.zlp /\ s.in_length[e] = MPS
  <2>1. PICK f : f = Idled(z, e)
    BY Zenon
  <2>2. TransferIn(s, e) = wch_kick(f, e)
    BY <1>2, <1>7, <1>9, <1>11, <1>15, <1>20, <2>1, Zenon DEF TransferIn
  <2>3. Freed(z, f, e)
    BY <1>17, <2>1, FreeEffect, Zenon
  <2>4. /\ f \in Device /\ OneEp(s, f, e) /\ f.q[e] = z.q[e] /\ f.ctl = z.ctl
        /\ f.done = s.done /\ ~f.ep[e].busy
    BY <1>17, <2>3, OneEpTrans, Zenon DEF Freed, OneEp
  <2>5. ~Head(f.q[e]).setup
    BY <1>13, <1>17, <1>2, <2>4, Zenon DEF SameRequest
  <2>6. Startable(f, e)
    BY <2>4, <2>5, <1>17, Zenon DEF Startable, OneEp, SameBus, SameLatch, SameSwitches,
       wch_setup_pending, Eps, Control, Bulk
  <2>7. PICK t : t = Stage(f, e) /\ Staged(f, t, e)
    BY <1>17, <2>4, StageEffect, Zenon
  <2>8. TransferIn(s, e) = t
    BY <2>2, <2>6, <2>7, Zenon DEF wch_kick
  <2>9. OneEp(s, t, e)
    BY <2>4, <2>7, StagedIsOneEp, OneEpTrans
  <2>10. t.in_length[e] = 0
    BY <1>13, <1>17, <1>20, <2>4, <2>7, SMTT(30) DEF Staged, Least, MPS
  <2>11. /\ GoesOn(s, t, e, r2) /\ t.ep[e].busy /\ t.ctl[e].r = "ACK"
         /\ t.ctl[e].t = 1 - s.ctl[e].t
    BY <1>5, <1>17, <1>18, <2>4, <2>7 DEF Staged, GoesOn
  <2> QED BY <1>2, <1>3, <1>13, <1>20, <2>8, <2>9, <2>10, <2>11, Zenon DEF SentPacket
<1>21. CASE left = 0 /\ h.zlp /\ s.in_length[e] # MPS
  <2>1. TransferIn(s, e) = wch_complete(z, e, "OK")
    BY <1>2, <1>7, <1>9, <1>11, <1>15, <1>21, Zenon DEF TransferIn
  <2> QED BY <1>17, <1>18, <1>19, <1>21, <2>1, Zenon
<1>22. CASE left = 0 /\ ~h.zlp
  <2>1. TransferIn(s, e) = wch_complete(p, e, "OK")
    BY <1>2, <1>7, <1>9, <1>11, <1>22, Zenon DEF TransferIn
  <2> QED BY <1>11, <1>19, <1>22, <2>1, Zenon
<1>23. CASE left # 0
  <2>1. PICK t : t = Idled(p, e)
    BY Zenon
  <2>2. TransferIn(s, e) = t
    BY <1>2, <1>7, <1>9, <1>11, <1>23, <2>1, Zenon DEF TransferIn
  <2>3. Freed(p, t, e)
    BY <1>11, <2>1, FreeEffect, Zenon
  <2>4. OneEp(s, t, e)
    BY <1>11, <2>3, OneEpTrans, Zenon DEF Freed
  <2>5. /\ GoesOn(s, t, e, r1) /\ ~t.ep[e].busy /\ t.ctl[e].r = "NAK"
        /\ t.ctl[e].t = 1 - s.ctl[e].t
    BY <1>5, <1>11, <2>3 DEF Freed, GoesOn
  <2> QED BY <1>2, <1>3, <1>7, <1>23, <2>2, <2>4, <2>5, Zenon DEF SentPacket
<1> QED BY <1>20, <1>21, <1>22, <1>23, Zenon

\* wch_transfer on an OUT packet with the expected toggle.
LEMMA TransferOutEffect ==
  ASSUME NEW s \in Device, NEW e \in Eps, s.q[e] # <<>>
  PROVE  OneEp(s, TransferOut(s, e), e) /\ ReceivedPacket(s, TransferOut(s, e), e)
<1>1. s.q[e] \in Seq(Requests) /\ s.st \in Latch
  BY Fields, Zenon
<1>2. PICK h \in Requests : h = Head(s.q[e]) /\ h = s.q[e][1]
  BY <1>1, First, Zenon
<1>3. PICK len \in Nat, room \in Nat : len = s.st.len /\ room = h.len
  BY <1>1, Zenon DEF Latch, Requests
<1>4. PICK a : a = Answered(s, e) /\ AnsweredIs(s, a, e)
  BY AnsweredEffect, Zenon
<1>5. /\ a \in Device /\ OneEp(s, a, e) /\ a.q = s.q /\ a.q[e] # <<>> /\ a.ep = s.ep
      /\ a.done = s.done /\ a.ctl[e].r = "NAK" /\ a.ctl[e].t = 1 - s.ctl[e].t
  BY <1>4, Zenon DEF AnsweredIs, OneEp
<1>6. CASE TooLong(len, room)
  <2>1. PICK t : t = wch_complete(a, e, "EMSGSIZE")
    BY Zenon
  <2>2. TransferOut(s, e) = t
    BY <1>2, <1>3, <1>4, <1>6, <2>1, Zenon DEF TransferOut
  <2>3. Completed(a, t, e, "EMSGSIZE")
    BY <1>5, <2>1, CompleteEffect, Zenon DEF Err
  <2>4. OneEp(s, t, e)
    BY <1>5, <2>3, CompletedIsOneEp, OneEpTrans, Zenon
  <2>5. a.skew[e] = s.skew[e]
    BY <1>5, Zenon DEF OneEp, SameMarks
  <2>6. Outcome(a, e, h, "EMSGSIZE") = Outcome(s, e, h, "EMSGSIZE")
    BY <2>5, Zenon DEF Outcome, Exact
  <2>7. GoesBack(s, t, e, h, "EMSGSIZE") /\ t.ctl[e].r = "NAK" /\ t.ctl[e].t = 1 - s.ctl[e].t
    BY <1>2, <1>5, <2>3, <2>6, Zenon DEF Completed, GoesBack
  <2>8. SameRequest(h, h)
    BY Zenon DEF SameRequest
  <2> QED BY <1>2, <2>2, <2>4, <2>7, <2>8, Zenon DEF ReceivedPacket
<1>7. CASE ~TooLong(len, room)
  <2>1. len <= room /\ room - len \in Nat
    BY <1>7 DEF TooLong
  <2>2. PICK k \in Nat : k = h.sent
    BY Zenon DEF Requests
  <2>3. PICK sent \in Nat : sent = IF s.st.fresh THEN k + len ELSE k
    OBVIOUS
  <2>4. PICK bad \in BOOLEAN : bad = (h.bad \/ s.st.bad)
    BY Zenon
  <2>5. PICK left \in Nat : left = room - len
    BY <2>1, Zenon
  <2>6. PICK r : r = [h EXCEPT !.len = left, !.sent = sent, !.bad = bad]
    BY Zenon
  <2>7. r \in Requests /\ SameRequest(h, r) /\ r.len = left /\ r.sent = sent /\ r.bad = bad
    BY <2>6, Zenon DEF Requests, SameRequest
  <2>8. PICK p : p = [a EXCEPT !.q = [a.q EXCEPT ![e] = [a.q[e] EXCEPT ![1] = r]]]
    BY Zenon
  <2>9. [Answered(s, e) EXCEPT
           !.q[e][1] = [Head(s.q[e]) EXCEPT
                          !.len = @ - len,
                          !.sent = IF s.st.fresh THEN @ + len ELSE @,
                          !.bad = @ \/ s.st.bad]] = p
    BY <1>2, <1>3, <1>4, <1>5, <2>2, <2>3, <2>4, <2>5, <2>6, <2>8, Zenon
  <2>10. Replaced(a, p, e, r)
    BY <1>5, <2>7, <2>8, ReplaceEffect, Zenon
  <2>11. /\ p \in Device /\ OneEp(s, p, e) /\ p.ctl = a.ctl /\ p.done = s.done
         /\ p.q[e] = [s.q[e] EXCEPT ![1] = r] /\ Head(p.q[e]) = r /\ p.q[e] # <<>>
         /\ Tail(p.q[e]) = Tail(s.q[e])
    BY <1>5, <2>10, OneEpTrans, Zenon DEF Replaced, OneEp
  <2>12. CASE len < MPS \/ len = room
    <3>1. PICK t : t = wch_complete(p, e, "OK")
      BY Zenon
    <3>2. TransferOut(s, e) = t
      BY <1>2, <1>3, <1>7, <2>9, <2>12, <3>1, Zenon DEF TransferOut
    <3>3. Completed(p, t, e, "OK")
      BY <2>11, <3>1, CompleteEffect, Zenon DEF Err
    <3>4. OneEp(s, t, e)
      BY <2>11, <3>3, CompletedIsOneEp, OneEpTrans, Zenon
    <3>5. p.skew[e] = s.skew[e]
      BY <2>11, Zenon DEF OneEp, SameMarks
    <3>6. Outcome(p, e, r, "OK") = Outcome(s, e, r, "OK")
      BY <3>5, Zenon DEF Outcome, Exact
    <3>7. GoesBack(s, t, e, r, "OK") /\ t.ctl[e].r = "NAK" /\ t.ctl[e].t = 1 - s.ctl[e].t
      BY <1>5, <2>11, <3>3, <3>6, Zenon DEF Completed, GoesBack
    <3> QED BY <1>2, <1>3, <2>1, <2>2, <2>3, <2>4, <2>5, <2>7, <3>2, <3>4, <3>7, Zenon
         DEF ReceivedPacket
  <2>13. CASE ~(len < MPS \/ len = room)
    <3>1. PICK t : t = Idled(p, e)
      BY Zenon
    <3>2. TransferOut(s, e) = t
      BY <1>2, <1>3, <1>7, <2>9, <2>13, <3>1, Zenon DEF TransferOut
    <3>3. Freed(p, t, e)
      BY <2>11, <3>1, FreeEffect, Zenon
    <3>4. OneEp(s, t, e)
      BY <2>11, <3>3, OneEpTrans, Zenon DEF Freed
    <3>5. /\ GoesOn(s, t, e, r) /\ ~t.ep[e].busy /\ t.ctl[e].r = "NAK"
          /\ t.ctl[e].t = 1 - s.ctl[e].t
      BY <1>5, <2>11, <3>3, Zenon DEF Freed, GoesOn
    <3> QED BY <1>2, <1>3, <2>1, <2>2, <2>3, <2>4, <2>5, <2>7, <3>2, <3>4, <3>5, Zenon
         DEF ReceivedPacket
  <2> QED BY <2>12, <2>13, Zenon
<1> QED BY <1>6, <1>7, Zenon

\* wch_transfer on a repeated OUT packet.
LEMMA IgnoredEffect ==
  ASSUME NEW s \in Device, NEW e \in Eps, s.q[e] # <<>>
  PROVE  IgnoredPacket(s, Ignored(s, e), e)
<1>1. s.q[e] \in Seq(Requests) /\ s.st \in Latch
  BY Fields, Zenon
<1>2. PICK h \in Requests : h = Head(s.q[e]) /\ h = s.q[e][1]
  BY <1>1, First, Zenon
<1>3. PICK len \in Nat, k \in Nat : len = s.st.len /\ k = h.sent
  BY <1>1, Zenon DEF Latch, Requests
<1>4. PICK sent \in Nat : sent = IF s.st.fresh THEN k + len ELSE k
  OBVIOUS
<1>5. PICK r : r = [h EXCEPT !.sent = sent]
  BY Zenon
<1>6. /\ r \in Requests /\ SameRequest(h, r) /\ r.len = h.len /\ r.sent = sent
      /\ r.bad = h.bad /\ r.zlp = h.zlp
  BY <1>5, Zenon DEF Requests, SameRequest
<1>7. PICK t : t = [s EXCEPT !.q = [s.q EXCEPT ![e] = [s.q[e] EXCEPT ![1] = r]]]
  BY Zenon
<1>8. Ignored(s, e) = t
  BY <1>2, <1>3, <1>4, <1>5, <1>7, Zenon DEF Ignored
<1>9. Replaced(s, t, e, r)
  BY <1>6, <1>7, ReplaceEffect, Zenon
<1> QED BY <1>2, <1>3, <1>4, <1>6, <1>8, <1>9, Zenon DEF IgnoredPacket

(***************************************************************************)
(* wch_transfer for a SETUP.                                               *)
(***************************************************************************)

\* What a SETUP returns is a set of returns.
LEMMA SetupReturnsType ==
  ASSUME NEW s \in Device, NEW e \in Eps, NEW err \in Err
  PROVE  SetupReturns(s, e, err) \subseteq Return
<1>1. s.q[e] \in Seq(Requests)
  BY Fields, Zenon
<1>2. \A i \in DOMAIN s.q[e] : s.q[e][i] \in Requests
  BY <1>1
<1>3. \A i \in DOMAIN s.q[e] : (IF s.q[e][i].setup THEN err ELSE "ECONNRESET") \in Err
  BY Zenon DEF Err
<1> QED BY <1>2, <1>3, OutcomeType DEF SetupReturns

\* udc_setup_received returns the control requests and keeps or delivers the SETUP.
LEMMA SetupReceivedEffect ==
  ASSUME NEW s \in Device, NEW valid \in BOOLEAN,
         \A g \in Control : ~s.ep[g].halted /\ s.ctl[g].r = "NAK" /\ s.ctl[g].t = 1
  PROVE  Superseded(s, udc_setup_received(s, valid))
<1> DEFINE Both(f, v) == [e \in Eps |-> IF e \in Control THEN v ELSE f[e]]
<1>1. /\ "in0" \in Eps /\ "out0" \in Eps /\ "in0" # "out0" /\ Eps = Control \cup Bulk
      /\ Control \cap Bulk = {} /\ Control = {"in0", "out0"}
  BY Zenon DEF Eps, Control, Bulk
<1>2. PICK f1 : f1 = Idled(s, "in0") /\ Freed(s, f1, "in0")
  BY <1>1, FreeEffect, Zenon
<1>3. f1 \in Device
  BY <1>2, Zenon DEF Freed, OneEp
<1>4. PICK f2 : f2 = Idled(f1, "out0") /\ Freed(f1, f2, "out0")
  BY <1>1, <1>3, FreeEffect, Zenon
<1>5. Idled(Idled(s, "in0"), "out0") = f2
  BY <1>2, <1>4, Zenon
<1>6. /\ f2 \in Device /\ SameBus(s, f2) /\ SameLatch(s, f2)
      /\ f2.ctl = s.ctl /\ f2.q = s.q /\ f2.in_length = s.in_length /\ f2.done = s.done
  BY <1>2, <1>4, Zenon DEF Freed, OneEp, SameBus, SameLatch
<1>0. Freed(s, f1, "in0") /\ Freed(f1, f2, "out0")
  BY <1>2, <1>4, Zenon
<1>7. \A g \in Bulk : f2.ep[g] = s.ep[g] /\ f2.skew[g] = s.skew[g]
                        /\ f2.unheard[g] = s.unheard[g] /\ f2.refused[g] = s.refused[g]
  <2> TAKE g \in Bulk
  <2>1. g \in Eps \ {"in0"} /\ g \in Eps \ {"out0"}
    BY <1>1, Zenon
  <2> QED BY <1>0, <2>1, Zenon DEF Freed, OneEp, Local
<1>8. \A g \in Control : ~f2.ep[g].busy /\ ~f2.ep[g].halted /\ f2.ep[g].enabled = s.ep[g].enabled
  BY <1>0, <1>1 DEF Freed, OneEp, Local, SameSwitches
<1>9. PICK none \in Seq(Requests) : none = <<>>
  <2>1. <<>> \in Seq(Requests)
    OBVIOUS
  <2> QED BY <2>1, Zenon
<1>10. PICK q \in [Eps -> Seq(Requests)] : q = Both(f2.q, <<>>)
  <2>1. Both(f2.q, none) \in [Eps -> Seq(Requests)]
    BY <1>6, Fields, Zenon
  <2> QED BY <1>9, <2>1, Zenon
<1>11. PICK sk \in [Eps -> BOOLEAN] : sk = Both(f2.skew, FALSE)
  BY <1>6, Fields, Zenon
<1>12. PICK rf \in [Eps -> BOOLEAN] : rf = Both(f2.refused, FALSE)
  BY <1>6, Fields, Zenon
<1>13. PICK un \in [Eps -> BOOLEAN] : un = Both(f2.unheard, FALSE)
  BY <1>6, Fields, Zenon
<1>14. PICK c : c = [f2 EXCEPT !.q = q, !.skew = sk, !.refused = rf, !.unheard = un]
  BY Zenon
<1>15. /\ c \in Device /\ SameBus(f2, c) /\ SameLatch(f2, c) /\ c.ctl = f2.ctl
       /\ c.in_length = f2.in_length /\ c.ep = f2.ep /\ c.done = f2.done
       /\ c.q = q /\ c.skew = sk /\ c.refused = rf /\ c.unheard = un
  BY ONLY <1>6, <1>14, ZenonT(60) DEF Device, SameBus, SameLatch
<1>37. [f2 EXCEPT !.q = Both(@, <<>>), !.skew = Both(@, FALSE),
                  !.refused = Both(@, FALSE), !.unheard = Both(@, FALSE)] = c
  BY <1>10, <1>11, <1>12, <1>13, <1>14, Zenon
<1>16. ControlCleared(s) = c
  BY <1>5, <1>37, Zenon DEF ControlCleared
<1>17. PICK tk \in BOOLEAN : tk = ({i \in DOMAIN s.q["out0"] : s.q["out0"][i].setup} # {})
  BY Zenon
<1>18. PICK pd \in BOOLEAN : pd = ({i \in DOMAIN s.q["out0"] : s.q["out0"][i].setup} = {})
  BY Zenon
<1>19. PICK vd \in BOOLEAN :
         vd = ({i \in DOMAIN s.q["out0"] : s.q["out0"][i].setup} = {} /\ valid)
  BY Zenon
<1>20. PICK it \in BOOLEAN : it = (c.intact /\ (valid => s.packet0 = "setup"))
  BY Zenon
<1>21. PICK err \in Err : err = IF valid THEN "OK" ELSE "EPROTO"
  BY Zenon DEF Err
<1>22. PICK d \in SUBSET Return :
         d = c.done \cup SetupReturns(s, "in0", err) \cup SetupReturns(s, "out0", err)
  BY <1>1, <1>15, Fields, SetupReturnsType, Zenon
<1>23. PICK c1 : c1 = [c EXCEPT !.taken = tk, !.pending = pd]
  BY Zenon
<1>30. PICK c2 : c2 = [c1 EXCEPT !.valid = vd, !.intact = it]
  BY Zenon
<1>31. PICK t : t = [c2 EXCEPT !.done = d]
  BY Zenon
<1>32. t = [c EXCEPT !.taken = tk, !.pending = pd, !.valid = vd, !.intact = it, !.done = d]
  BY <1>23, <1>30, <1>31, Zenon
<1>38. udc_setup_received(s, valid)
         = [ControlCleared(s) EXCEPT
              !.taken = ({i \in DOMAIN s.q["out0"] : s.q["out0"][i].setup} # {}),
              !.pending = ({i \in DOMAIN s.q["out0"] : s.q["out0"][i].setup} = {}),
              !.valid = ({i \in DOMAIN s.q["out0"] : s.q["out0"][i].setup} = {} /\ valid),
              !.intact = @ /\ (valid => s.packet0 = "setup"),
              !.done = @ \cup SetupReturns(s, "in0", IF valid THEN "OK" ELSE "EPROTO")
                         \cup SetupReturns(s, "out0", IF valid THEN "OK" ELSE "EPROTO")]
  BY ONLY Zenon DEF udc_setup_received, SetupReturns
<1>39. [c EXCEPT
          !.taken = ({i \in DOMAIN s.q["out0"] : s.q["out0"][i].setup} # {}),
          !.pending = ({i \in DOMAIN s.q["out0"] : s.q["out0"][i].setup} = {}),
          !.valid = ({i \in DOMAIN s.q["out0"] : s.q["out0"][i].setup} = {} /\ valid),
          !.intact = @ /\ (valid => s.packet0 = "setup"),
          !.done = @ \cup SetupReturns(s, "in0", IF valid THEN "OK" ELSE "EPROTO")
                     \cup SetupReturns(s, "out0", IF valid THEN "OK" ELSE "EPROTO")] = t
  BY ONLY <1>17, <1>18, <1>19, <1>20, <1>21, <1>22, <1>32, Zenon
<1>24. udc_setup_received(s, valid) = t
  BY <1>16, <1>38, <1>39, Zenon
<1>33. c1 \in Device
  BY ONLY <1>15, <1>23, ZenonT(60) DEF Device
<1>34. c2 \in Device
  BY ONLY <1>33, <1>30, ZenonT(60) DEF Device
<1>35. t \in Device
  BY ONLY <1>34, <1>31, ZenonT(60) DEF Device
<1>36. t.taken = tk /\ t.pending = pd /\ t.done = d
  BY ONLY <1>15, <1>32, Zenon DEF Device
<1>25. /\ SameLatch(c, t) /\ t.ctl = c.ctl /\ t.in_length = c.in_length
       /\ t.ep = c.ep /\ t.q = c.q
       /\ t.skew = c.skew /\ t.unheard = c.unheard /\ t.refused = c.refused
       /\ t.running = c.running /\ t.on = c.on /\ t.sie = c.sie /\ t.mode = c.mode
       /\ t.copying = c.copying
  BY ONLY <1>15, <1>32, Zenon DEF Device, SameLatch
<1>26. tk <=> ~pd
  BY <1>17, <1>18, Zenon
<1>27. \A g \in Bulk : q[g] = s.q[g] /\ sk[g] = s.skew[g] /\ rf[g] = s.refused[g]
                        /\ un[g] = s.unheard[g]
  BY <1>1, <1>6, <1>7, <1>10, <1>11, <1>12, <1>13, ZenonT(60)
<1>28. \A g \in Control : q[g] = <<>> /\ ~sk[g] /\ ~rf[g] /\ ~un[g]
  BY <1>1, <1>10, <1>11, <1>12, <1>13, Zenon
<1>29. /\ t.running = s.running /\ t.on = s.on /\ t.sie = s.sie /\ t.mode = s.mode
       /\ t.copying = s.copying /\ SameLatch(s, t) /\ t.ctl = s.ctl
       /\ t.in_length = s.in_length /\ t.ep = f2.ep /\ c.done = s.done
  BY <1>6, <1>15, <1>25, Zenon DEF SameBus, SameLatch
<1> HIDE DEF Both
<1>40. \A g \in Bulk :
         /\ t.ep[g] = s.ep[g] /\ t.ctl[g] = s.ctl[g] /\ t.q[g] = s.q[g]
         /\ t.in_length[g] = s.in_length[g] /\ t.skew[g] = s.skew[g]
         /\ t.unheard[g] = s.unheard[g] /\ t.refused[g] = s.refused[g]
  <2> TAKE g \in Bulk
  <2>1. t.ep[g] = s.ep[g]
    BY <1>7, <1>29, Zenon
  <2>2. t.q[g] = s.q[g] /\ t.skew[g] = s.skew[g] /\ t.unheard[g] = s.unheard[g]
        /\ t.refused[g] = s.refused[g]
    BY <1>15, <1>25, <1>27
  <2> QED BY <1>29, <2>1, <2>2, Zenon
<1>41. \A g \in Control :
         /\ t.q[g] = <<>> /\ ~t.ep[g].busy /\ ~t.ep[g].halted
         /\ t.ep[g].enabled = s.ep[g].enabled
         /\ t.ctl[g].r = "NAK" /\ t.ctl[g].t = 1
         /\ ~t.skew[g] /\ ~t.refused[g] /\ ~t.unheard[g]
  BY <1>8, <1>15, <1>25, <1>28, <1>29, ZenonT(60)
<1>42. t.taken <=> ~t.pending
  BY <1>26, <1>36, Zenon
<1>43. t.done = s.done \cup SetupReturns(s, "in0", err) \cup SetupReturns(s, "out0", err)
  BY <1>22, <1>29, <1>36, Zenon
<1> QED BY <1>24, <1>29, <1>35, <1>40, <1>41, <1>42, <1>43, Zenon DEF Superseded

\* A SETUP ends the halt of a control endpoint.
LEMMA UnstalledEffect ==
  ASSUME NEW s \in Device, NEW e \in Eps
  PROVE  UnstalledIs(s, Unstalled(s, e), e)
<1>1. PICK y \in EpState : y = s.ep[e]
  BY Fields, Zenon
<1>2. PICK x : x = [y EXCEPT !.halted = FALSE]
  BY Zenon
<1>3. x \in EpState /\ ~x.halted /\ x.enabled = y.enabled /\ x.busy = y.busy
  BY <1>2, Zenon DEF EpState
<1>4. PICK ep \in [Eps -> EpState] : ep = [s.ep EXCEPT ![e] = x]
  BY <1>3, Fields, Zenon
<1>5. PICK c : c = [r |-> "NAK", t |-> 1]
  BY Zenon
<1>6. c \in Slot /\ c.r = "NAK" /\ c.t = 1
  BY <1>5 DEF Slot
<1>7. PICK ctl \in [Eps -> Slot] : ctl = [s.ctl EXCEPT ![e] = c]
  BY <1>6, Fields, Zenon
<1>8. PICK t : t = [s EXCEPT !.ctl = ctl, !.ep = ep]
  BY Zenon
<1>9. Unstalled(s, e) = t
  BY <1>1, <1>2, <1>4, <1>5, <1>7, <1>8, Zenon DEF Unstalled
<1>10. /\ t \in Device /\ SameBus(s, t) /\ SameLatch(s, t) /\ t.ctl = ctl
       /\ t.ep = ep /\ t.q = s.q /\ t.in_length = s.in_length /\ t.done = s.done
       /\ t.skew = s.skew /\ t.unheard = s.unheard /\ t.refused = s.refused
  BY ONLY <1>8, s \in Device, ZenonT(60) DEF Device, SameBus, SameLatch
<1>11. ep[e] = x /\ ctl[e] = c /\ \A g \in Eps \ {e} : ep[g] = s.ep[g] /\ ctl[g] = s.ctl[g]
  BY <1>4, <1>7, Fields, Zenon
<1> QED BY <1>1, <1>3, <1>6, <1>9, <1>10, <1>11, Zenon DEF UnstalledIs, Local

\* wch_transfer on a SETUP.
LEMMA TransferSetupEffect ==
  ASSUME NEW s \in Device
  PROVE  Superseded(s, TransferSetup(s))
<1>1. /\ "in0" \in Eps /\ "out0" \in Eps /\ "in0" # "out0" /\ Eps = Control \cup Bulk
      /\ Control \cap Bulk = {} /\ Control = {"in0", "out0"}
  BY Zenon DEF Eps, Control, Bulk
<1>2. PICK u1 : u1 = Unstalled(s, "in0") /\ UnstalledIs(s, u1, "in0")
  BY <1>1, UnstalledEffect, Zenon
<1>3. u1 \in Device
  BY <1>2, Zenon DEF UnstalledIs
<1>4. PICK u2 : u2 = Unstalled(u1, "out0") /\ UnstalledIs(u1, u2, "out0")
  BY <1>1, <1>3, UnstalledEffect, Zenon
<1>5. PICK valid \in BOOLEAN : valid = s.st.ok
  <2>1. s.st \in Latch
    BY Fields, Zenon
  <2> QED BY <2>1, Zenon DEF Latch
<1>6. PICK t : t = udc_setup_received(u2, valid)
  BY Zenon
<1>7. TransferSetup(s) = t
  BY <1>2, <1>4, <1>5, <1>6, Zenon DEF TransferSetup
<1>8. /\ u2 \in Device /\ SameBus(s, u2) /\ SameLatch(s, u2)
      /\ u2.q = s.q /\ u2.in_length = s.in_length /\ u2.done = s.done
      /\ u2.skew = s.skew /\ u2.unheard = s.unheard /\ u2.refused = s.refused
  BY <1>2, <1>4, SMTT(30) DEF UnstalledIs, SameBus, SameLatch
<1>9. ASSUME NEW g \in Bulk PROVE u2.ep[g] = s.ep[g] /\ u2.ctl[g] = s.ctl[g]
  <2>1. g \in Eps \ {"in0"} /\ g \in Eps \ {"out0"}
    BY <1>1, Zenon
  <2> QED BY <1>2, <1>4, <2>1 DEF UnstalledIs, Local
<1>10. "in0" \in Eps \ {"out0"} /\ "out0" \in Eps \ {"in0"}
  BY <1>1, Zenon
<1>11. /\ u2.ctl["in0"].r = "NAK" /\ u2.ctl["in0"].t = 1
       /\ ~u2.ep["in0"].halted /\ u2.ep["in0"].enabled = s.ep["in0"].enabled
  BY <1>2, <1>4, <1>10, Zenon DEF UnstalledIs, Local
<1>12. /\ u2.ctl["out0"].r = "NAK" /\ u2.ctl["out0"].t = 1
       /\ ~u2.ep["out0"].halted /\ u2.ep["out0"].enabled = s.ep["out0"].enabled
  BY <1>2, <1>4, <1>10, Zenon DEF UnstalledIs, Local
<1>13. Superseded(u2, t)
  BY <1>1, <1>6, <1>8, <1>11, <1>12, SetupReceivedEffect, Zenon
<1>14. ASSUME NEW e \in Eps, NEW err PROVE SetupReturns(u2, e, err) = SetupReturns(s, e, err)
  <2>1. \A r, x : Outcome(u2, e, r, x) = Outcome(s, e, r, x)
    BY <1>8, Zenon DEF Outcome, Exact
  <2>2. u2.q[e] = s.q[e]
    BY <1>8, Zenon
  <2>3. ASSUME NEW v PROVE v \in SetupReturns(u2, e, err) <=> v \in SetupReturns(s, e, err)
    BY ONLY <2>1, <2>2, ZenonT(60) DEF SetupReturns
  <2> QED BY ONLY <2>3, Zenon DEF SetupReturns
<1>15. \A g \in Bulk :
       /\ t.ep[g] = s.ep[g] /\ t.ctl[g] = s.ctl[g] /\ t.q[g] = s.q[g]
       /\ t.in_length[g] = s.in_length[g] /\ t.skew[g] = s.skew[g]
       /\ t.unheard[g] = s.unheard[g] /\ t.refused[g] = s.refused[g]
  <2> TAKE g \in Bulk
  <2>1. u2.ep[g] = s.ep[g] /\ u2.ctl[g] = s.ctl[g]
    BY <1>9, Zenon
  <2>2. /\ t.ep[g] = u2.ep[g] /\ t.ctl[g] = u2.ctl[g] /\ t.q[g] = u2.q[g]
        /\ t.in_length[g] = u2.in_length[g] /\ t.skew[g] = u2.skew[g]
        /\ t.unheard[g] = u2.unheard[g] /\ t.refused[g] = u2.refused[g]
    BY <1>13, Zenon DEF Superseded
  <2> QED BY ONLY <1>8, <2>1, <2>2, Zenon
<1>16. \A g \in Control :
       /\ t.q[g] = <<>> /\ ~t.ep[g].busy /\ ~t.ep[g].halted
       /\ t.ep[g].enabled = s.ep[g].enabled
       /\ t.ctl[g].r = "NAK" /\ t.ctl[g].t = 1
       /\ ~t.skew[g] /\ ~t.refused[g] /\ ~t.unheard[g]
  BY <1>1, <1>11, <1>12, <1>13 DEF Superseded
<1>17. /\ t \in Device /\ t.running = s.running /\ t.on = s.on /\ t.sie = s.sie
       /\ t.mode = s.mode /\ t.copying = s.copying /\ SameLatch(s, t)
       /\ (t.taken <=> ~t.pending)
  BY <1>8, <1>13, Zenon DEF Superseded, SameBus, SameLatch
<1>18. PICK err \in Err : t.done = u2.done \cup SetupReturns(u2, "in0", err)
                                           \cup SetupReturns(u2, "out0", err)
  BY <1>13, Zenon DEF Superseded
<1>19. t.done = s.done \cup SetupReturns(s, "in0", err) \cup SetupReturns(s, "out0", err)
  BY <1>1, <1>8, <1>14, <1>18, Zenon
<1> QED BY <1>7, <1>15, <1>16, <1>17, <1>19, Zenon DEF Superseded

(***************************************************************************)
(* wch_transfer.                                                           *)
(***************************************************************************)

\* No step at all is a step on one endpoint.
LEMMA SameIsOneEp ==
  ASSUME NEW s \in Device, NEW e
  PROVE  OneEp(s, s, e)
  BY Zenon DEF OneEp, Local, SameBus, SameLatch, SameMarks, SameSwitches

\* wch_transfer on a data packet, in a state where busy endpoints are sound.
LEMMA DataTransferEffect ==
  ASSUME NEW s \in Device, NEW e \in Eps, s.st.ep = e, EpSound(s, e)
  PROVE  DataTransferred(s, wch_transfer(s), e)
<1>1. e # "setup"
  BY Zenon DEF Eps, Control, Bulk
<1>2. CASE ~s.ep[e].busy
  <2>1. wch_transfer(s) = s
    BY <1>1, <1>2, Zenon DEF wch_transfer
  <2> QED BY <1>2, <2>1, SameIsOneEp, Zenon DEF DataTransferred
<1>3. CASE s.ep[e].busy
  <2>1. /\ s.running /\ s.ep[e].enabled /\ ~s.ep[e].halted
        /\ s.q[e] # <<>> /\ ~Head(s.q[e]).setup
        /\ IsIn(e) => s.in_length[e] = Least(Head(s.q[e]).len, MPS)
    BY <1>3, Zenon DEF EpSound
  <2>2. CASE IsIn(e)
    <3>1. wch_transfer(s) = TransferIn(s, e)
      BY <1>1, <1>3, <2>1, <2>2, Zenon DEF wch_transfer
    <3>2. Head(s.q[e]) \in Requests
      BY <2>1, Fields, First
    <3>3. s.in_length[e] <= Head(s.q[e]).len
      BY <2>1, <2>2, <3>2, SMTT(30) DEF Requests, Least, MPS
    <3>4. OneEp(s, TransferIn(s, e), e) /\ SentPacket(s, TransferIn(s, e), e)
      BY <2>1, <2>2, <3>3, TransferInEffect, Zenon
    <3> QED BY <1>3, <2>2, <3>1, <3>4, Zenon DEF DataTransferred
  <2>3. CASE ~IsIn(e) /\ s.st.ok
    <3>1. wch_transfer(s) = TransferOut(s, e)
      BY <1>1, <1>3, <2>1, <2>3, Zenon DEF wch_transfer
    <3>2. OneEp(s, TransferOut(s, e), e) /\ ReceivedPacket(s, TransferOut(s, e), e)
      BY <2>1, TransferOutEffect, Zenon
    <3> QED BY <1>3, <2>3, <3>1, <3>2, Zenon DEF DataTransferred
  <2>4. CASE ~IsIn(e) /\ ~s.st.ok
    <3>1. wch_transfer(s) = Ignored(s, e)
      BY <1>1, <1>3, <2>1, <2>4, Zenon DEF wch_transfer
    <3>2. IgnoredPacket(s, Ignored(s, e), e)
      BY <2>1, IgnoredEffect, Zenon
    <3>3. OneEp(s, Ignored(s, e), e)
      BY <3>2, Zenon DEF IgnoredPacket, Replaced
    <3> QED BY <1>3, <2>4, <3>1, <3>2, <3>3, Zenon DEF DataTransferred
  <2> QED BY <2>2, <2>3, <2>4, Zenon
<1> QED BY <1>2, <1>3, Zenon

(***************************************************************************)
(* wch_kick, and the calls that refuse, cancel or halt.                    *)
(***************************************************************************)

\* wch_kick arms an endpoint that can be started and leaves any other alone.
LEMMA KickEffect ==
  ASSUME NEW s \in Device, NEW e \in Eps
  PROVE  Kicked(s, wch_kick(s, e), e)
<1>1. CASE Startable(s, e)
  BY <1>1, StageEffect, Zenon DEF Kicked, wch_kick, Startable
<1>2. CASE ~Startable(s, e)
  BY <1>2, Zenon DEF Kicked, wch_kick
<1> QED BY <1>1, <1>2, Zenon

\* The check of wch_kick for EP0 IN only notes that the copy is to follow.
LEMMA CheckEffect ==
  ASSUME NEW s \in Device
  PROVE  CheckedIs(s, KickChecked(s))
<1>1. Startable(s, "in0") \in BOOLEAN
  <2>1. "in0" \in Eps
    BY Zenon DEF Eps, Control
  <2>2. s.ep["in0"] \in EpState /\ s.running \in BOOLEAN
    BY <2>1, Fields, Zenon
  <2> QED BY <2>2, Zenon DEF Startable, EpState
<1>2. CASE Startable(s, "in0")
  <2>1. PICK t : t = [s EXCEPT !.copying = TRUE]
    BY Zenon
  <2>2. KickChecked(s) = t
    BY <1>2, <1>1, <2>1, Zenon DEF KickChecked
  <2>3. t \in Device /\ SameEps(s, t) /\ SameLatch(s, t) /\ SameBusButCopying(s, t) /\ t.copying
    BY ONLY <2>1, s \in Device, Zenon DEF Device, SameEps, SameLatch, SameBusButCopying
  <2> QED BY <1>2, <2>2, <2>3, Zenon DEF CheckedIs
<1>3. CASE ~Startable(s, "in0")
  <2>1. PICK t : t = [s EXCEPT !.copying = FALSE]
    BY Zenon
  <2>2. KickChecked(s) = t
    BY <1>3, <1>1, <2>1, Zenon DEF KickChecked
  <2>3. t \in Device /\ SameEps(s, t) /\ SameLatch(s, t) /\ SameBusButCopying(s, t) /\ ~t.copying
    BY ONLY <2>1, s \in Device, ZenonT(60) DEF Device, SameEps, SameLatch, SameBusButCopying
  <2> QED BY <1>3, <2>2, <2>3, Zenon DEF CheckedIs
<1> QED BY <1>2, <1>3, Zenon

\* A call that returns -EBUSY leaves the endpoint answering NAK.
LEMMA RefusedEffect ==
  ASSUME NEW s \in Device, NEW e \in Eps
  PROVE  RefusedIs(s, Refused(s, e), e)
<1>1. PICK m : m = wch_response(s, e, "NAK") /\ Responded(s, m, e, "NAK")
  BY ResponseEffect, Zenon
<1>2. m \in Device
  BY <1>1, Zenon DEF Responded
<1>3. PICK b \in BOOLEAN : b = s.ep[e].busy
  <2>1. s.ep[e] \in EpState
    BY Fields, Zenon
  <2> QED BY <2>1, Zenon DEF EpState
<1>4. m.refused \in [Eps -> BOOLEAN]
  BY <1>2, Fields, Zenon
<1>5. PICK rf : rf = [m.refused EXCEPT ![e] = b]
  BY Zenon
<1>6. rf \in [Eps -> BOOLEAN] /\ rf[e] = b /\ \A g \in Eps \ {e} : rf[g] = m.refused[g]
  <2>1. rf \in [Eps -> BOOLEAN]
    BY ONLY m.refused \in [Eps -> BOOLEAN], b \in BOOLEAN, <1>4, <1>5, Zenon
  <2>2. rf[e] = b
    BY ONLY e \in Eps, <1>4, <1>5, Zenon
  <2>3. \A g \in Eps \ {e} : rf[g] = m.refused[g]
    BY ONLY <1>4, <1>5, Zenon
  <2> QED BY <2>1, <2>2, <2>3, Zenon
<1>7. PICK t : t = [m EXCEPT !.refused = rf]
  BY Zenon
<1>8. Refused(s, e) = t
  <2>1. Refused(s, e) = [m EXCEPT !.refused[e] = b]
    BY ONLY <1>1, <1>3, Zenon DEF Refused
  <2> QED BY ONLY <1>5, <1>7, <2>1, Zenon
<1>9. /\ t \in Device /\ SameBus(m, t) /\ SameLatch(m, t) /\ t.ctl = m.ctl
      /\ t.ep = m.ep /\ t.q = m.q /\ t.in_length = m.in_length /\ t.done = m.done
      /\ t.skew = m.skew /\ t.unheard = m.unheard /\ t.refused = rf
  <2>1. rf \in [Eps -> BOOLEAN]
    BY <1>6, Zenon
  <2> QED BY ONLY <1>2, <1>7, <2>1, ZenonT(60) DEF Device, SameBus, SameLatch
<1>10. m.skew = s.skew /\ m.unheard = s.unheard /\ m.refused = s.refused
  BY <1>1, Zenon DEF Responded
<1>11. Local(s, t, e)
  <2> SUFFICES ASSUME NEW g \in Eps \ {e}
               PROVE /\ t.ep[g] = s.ep[g] /\ t.ctl[g] = s.ctl[g] /\ t.q[g] = s.q[g]
                     /\ t.in_length[g] = s.in_length[g] /\ t.skew[g] = s.skew[g]
                     /\ t.unheard[g] = s.unheard[g] /\ t.refused[g] = s.refused[g]
    BY Zenon DEF Local
  <2>1. m.ctl[g] = s.ctl[g] /\ m.ep = s.ep /\ m.q = s.q /\ m.in_length = s.in_length
    BY <1>1, Zenon DEF Responded, Local
  <2>2. t.refused[g] = m.refused[g]
    BY <1>6, <1>9, Zenon
  <2> QED BY <1>9, <1>10, <2>1, <2>2, Zenon
<1> QED BY <1>1, <1>3, <1>6, <1>8, <1>9, <1>10, <1>11, Zenon
        DEF RefusedIs, Responded, SameBus, SameLatch

\* The completion of a quiesced endpoint, before the endpoint is released.
LEMMA SeekEffect ==
  ASSUME NEW s \in Device, NEW e \in Eps, NEW cancel \in BOOLEAN, cancel \/ EpSound(s, e),
         NEW n, n = wch_response(s, e, "NAK"),
         NEW kept, kept = IF cancel THEN n ELSE wch_response(wch_transfer(n), e, "NAK"),
         NEW t, t = IF LatchedFor(s, e) THEN Consumed(kept) ELSE n
  PROVE  Sought(s, t, e, cancel)
<1>1. Responded(s, n, e, "NAK")
  BY ResponseEffect, Zenon
<1>2. n \in Device
  BY <1>1, Zenon DEF Responded
<1>3. CASE ~LatchedFor(s, e)
  <2>1. t = n
    BY <1>3, Zenon
  <2> QED BY <1>1, <1>3, <2>1, Zenon DEF Sought, Credited, Responded, SameSwitches, SameMarks
<1>4. CASE LatchedFor(s, e) /\ cancel
  <2>1. Acked(n, t, {"TRANSFER"})
    BY <1>2, <1>4, AckEffect, Zenon DEF Consumed
  <2>2. /\ t \in Device /\ SameBus(s, t) /\ SameSwitches(s, t, e) /\ SameMarks(s, t, e)
        /\ t.ctl[e].r = "NAK"
    BY ONLY <1>1, <2>1, Zenon DEF Responded, Acked, SameEps, SameBus, SameSwitches, SameMarks
  <2>3. Local(s, t, e)
    BY ONLY <1>1, <2>1 DEF Responded, Acked, SameEps, Local
  <2>4. Credited(s, t, e, cancel)
    BY ONLY <1>1, <1>4, <2>1, Zenon DEF Credited, Responded, Acked, SameEps, SameLatch
  <2> QED BY ONLY <2>2, <2>3, <2>4, Zenon DEF Sought
<1>5. CASE LatchedFor(s, e) /\ ~cancel
  <2>1. n.st.ep = e /\ EpSound(n, e)
    BY <1>1, <1>5, Zenon DEF LatchedFor, Responded, EpSound, SameLatch, SameBus
  <2>2. PICK m : m = wch_transfer(n) /\ DataTransferred(n, m, e)
    BY <1>2, <2>1, DataTransferEffect, Zenon
  <2>3. m \in Device
    BY <2>2, Zenon DEF DataTransferred, OneEp
  <2>4. PICK k : k = wch_response(m, e, "NAK") /\ Responded(m, k, e, "NAK")
    BY <2>3, ResponseEffect, Zenon
  <2>5. k \in Device /\ t = Consumed(k)
    BY <1>5, <2>2, <2>4, Zenon DEF Responded
  <2>6. Acked(k, t, {"TRANSFER"})
    BY <2>5, AckEffect, Zenon DEF Consumed
  <2>7. OneEp(n, m, e)
    BY <2>2, Zenon DEF DataTransferred
  <2>8. /\ t \in Device /\ SameBus(s, t) /\ SameSwitches(s, t, e) /\ SameMarks(s, t, e)
        /\ t.ctl[e].r = "NAK"
    <3>1. t \in Device /\ SameBus(s, t)
      BY ONLY <1>1, <2>4, <2>6, <2>7, SMTT(30) DEF Responded, OneEp, Acked, SameBus
    <3>2. SameSwitches(s, t, e) /\ SameMarks(s, t, e) /\ t.ctl[e].r = "NAK"
      BY ONLY <1>1, <2>4, <2>6, <2>7, SMTT(30)
      DEF Responded, OneEp, Acked, SameEps, SameSwitches, SameMarks
    <3> QED BY <3>1, <3>2, Zenon
  <2>9. Local(s, t, e)
    <3>1. Local(s, n, e) /\ Local(n, m, e) /\ Local(m, k, e) /\ SameEps(k, t)
      BY ONLY <1>1, <2>4, <2>6, <2>7, Zenon DEF Responded, OneEp, Acked
    <3> QED BY ONLY <3>1 DEF SameEps, Local
  <2>10. t.fg = s.fg \ {"TRANSFER"} /\ t.st = NoToken
    BY ONLY <1>1, <2>4, <2>6, <2>7, Zenon DEF Responded, OneEp, Acked, SameLatch
  <2>11. t.q = m.q /\ t.done = m.done /\ t.ctl[e].t = m.ctl[e].t
    BY ONLY <2>4, <2>6, Zenon DEF Responded, Acked, SameEps
  <2>12. Credited(s, t, e, cancel)
    BY <1>1, <1>5, <2>2, <2>10, <2>11, Zenon DEF Credited
  <2> QED BY <2>8, <2>9, <2>12, Zenon DEF Sought
<1> QED BY <1>3, <1>4, <1>5, Zenon

\* wch_quiesce: the endpoint answers NAK, is not busy and has nothing latched.
LEMMA QuiesceEffect ==
  ASSUME NEW s \in Device, NEW e \in Eps, NEW cancel \in BOOLEAN, cancel \/ EpSound(s, e)
  PROVE  Quiesced(s, wch_quiesce(s, e, cancel), e, cancel)
<1>1. PICK n : n = wch_response(s, e, "NAK")
  BY Zenon
<1>2. PICK kept : kept = IF cancel THEN n ELSE wch_response(wch_transfer(n), e, "NAK")
  BY Zenon
<1>3. PICK m : m = IF LatchedFor(s, e) THEN Consumed(kept) ELSE n
  BY Zenon
<1>4. Sought(s, m, e, cancel)
  BY <1>1, <1>2, <1>3, SeekEffect, Zenon
<1>5. m \in Device /\ SameMarks(s, m, e)
  BY <1>4, Zenon DEF Sought
<1>6. PICK y \in EpState : y = m.ep[e]
  BY <1>5, Fields, Zenon
<1>7. PICK x : x = [y EXCEPT !.busy = FALSE]
  BY Zenon
<1>8. x \in EpState /\ ~x.busy /\ x.enabled = y.enabled /\ x.halted = y.halted
  BY <1>7, Zenon DEF EpState
<1>9. PICK ep \in [Eps -> EpState] : ep = [m.ep EXCEPT ![e] = x]
  BY <1>5, <1>8, Fields, Zenon
<1>10. PICK v \in BOOLEAN : v = (m.skew[e] \/ (s.ep[e].busy /\ (cancel \/ s.unheard[e])))
  BY Zenon
<1>11. /\ m.skew \in [Eps -> BOOLEAN] /\ m.unheard \in [Eps -> BOOLEAN]
       /\ m.refused \in [Eps -> BOOLEAN]
  BY <1>5, Fields, Zenon
<1>12. PICK sk : sk = [m.skew EXCEPT ![e] = v]
  BY Zenon
<1>13. PICK un : un = [m.unheard EXCEPT ![e] = FALSE]
  BY Zenon
<1>14. PICK rf : rf = [m.refused EXCEPT ![e] = FALSE]
  BY Zenon
<1>15. sk \in [Eps -> BOOLEAN] /\ sk[e] = v /\ \A g \in Eps \ {e} : sk[g] = m.skew[g]
  <2>1. m.skew \in [Eps -> BOOLEAN]
    BY <1>11, Zenon
  <2>2. /\ [m.skew EXCEPT ![e] = v] \in [Eps -> BOOLEAN] /\ [m.skew EXCEPT ![e] = v][e] = v
        /\ \A g \in Eps \ {e} : [m.skew EXCEPT ![e] = v][g] = m.skew[g]
    BY <2>1, <1>10, FlagUpdate
  <2> QED BY <2>2, <1>12, Zenon
<1>16. un \in [Eps -> BOOLEAN] /\ ~un[e] /\ \A g \in Eps \ {e} : un[g] = m.unheard[g]
  BY <1>11, <1>13, Zenon
<1>17. rf \in [Eps -> BOOLEAN] /\ ~rf[e] /\ \A g \in Eps \ {e} : rf[g] = m.refused[g]
  BY <1>11, <1>14, Zenon
<1>18. PICK t : t = [m EXCEPT !.ep = ep, !.refused = rf, !.skew = sk, !.unheard = un]
  BY Zenon
<1>19. wch_quiesce(s, e, cancel) = t
  <2>1. wch_quiesce(s, e, cancel)
          = [m EXCEPT !.ep[e].busy = FALSE, !.refused[e] = FALSE,
                      !.skew[e] = @ \/ (s.ep[e].busy /\ (cancel \/ s.unheard[e])),
                      !.unheard[e] = FALSE]
    BY <1>1, <1>2, <1>3, Zenon DEF wch_quiesce, LatchedFor
  <2>2. [m.skew EXCEPT ![e] = @ \/ (s.ep[e].busy /\ (cancel \/ s.unheard[e]))] = sk
    BY <1>10, <1>12, Zenon
  <2>3. PICK w : w = [m EXCEPT !.ep = ep, !.refused = rf]
    BY Zenon
  <2>4. [m EXCEPT !.ep[e].busy = FALSE, !.refused[e] = FALSE] = w
    BY ONLY <2>3, <1>6, <1>7, <1>9, <1>14, Zenon
  <2>5. w.skew = m.skew /\ w.unheard = m.unheard
    BY ONLY <2>3, <1>5, Zenon DEF Device
  <2>6. wch_quiesce(s, e, cancel)
          = [w EXCEPT !.skew[e] = @ \/ (s.ep[e].busy /\ (cancel \/ s.unheard[e])),
                      !.unheard[e] = FALSE]
    BY ONLY <2>1, <2>4, Zenon
  <2>7. t = [w EXCEPT !.skew = sk, !.unheard = un]
    BY ONLY <1>18, <2>3, Zenon
  <2> QED BY ONLY <2>2, <2>5, <2>6, <2>7, <1>13, Zenon
<1>20. /\ t \in Device /\ SameBus(m, t) /\ SameLatch(m, t) /\ t.ctl = m.ctl
       /\ t.ep = ep /\ t.q = m.q /\ t.in_length = m.in_length /\ t.done = m.done
       /\ t.skew = sk /\ t.unheard = un /\ t.refused = rf
  <2>1. sk \in [Eps -> BOOLEAN] /\ un \in [Eps -> BOOLEAN] /\ rf \in [Eps -> BOOLEAN]
    BY <1>15, <1>16, <1>17, Zenon
  <2> QED BY ONLY <1>5, <1>18, <2>1, ep \in [Eps -> EpState], ZenonT(60) DEF Device, SameBus, SameLatch
<1>21. ep[e] = x /\ \A g \in Eps \ {e} : ep[g] = m.ep[g]
  BY <1>5, <1>9, Fields, Zenon
<1>22. Local(s, t, e)
  <2> SUFFICES ASSUME NEW g \in Eps \ {e}
               PROVE /\ t.ep[g] = s.ep[g] /\ t.ctl[g] = s.ctl[g] /\ t.q[g] = s.q[g]
                     /\ t.in_length[g] = s.in_length[g] /\ t.skew[g] = s.skew[g]
                     /\ t.unheard[g] = s.unheard[g] /\ t.refused[g] = s.refused[g]
    BY Zenon DEF Local
  <2>1. /\ m.ep[g] = s.ep[g] /\ m.ctl[g] = s.ctl[g] /\ m.q[g] = s.q[g]
        /\ m.in_length[g] = s.in_length[g] /\ m.skew[g] = s.skew[g]
        /\ m.unheard[g] = s.unheard[g] /\ m.refused[g] = s.refused[g]
    BY <1>4, Zenon DEF Sought, Local
  <2>2. /\ t.ep[g] = m.ep[g] /\ t.skew[g] = m.skew[g] /\ t.unheard[g] = m.unheard[g]
        /\ t.refused[g] = m.refused[g]
    BY <1>15, <1>16, <1>17, <1>20, <1>21, Zenon
  <2> QED BY <1>20, <2>1, <2>2, Zenon
<1>23. t.skew[e] <=> s.skew[e] \/ (s.ep[e].busy /\ (cancel \/ s.unheard[e]))
  BY <1>5, <1>10, <1>15, <1>20, Zenon DEF SameMarks
<1>24. SameBus(s, t) /\ SameSwitches(s, t, e) /\ t.ctl[e].r = "NAK" /\ ~t.ep[e].busy
  BY <1>4, <1>6, <1>8, <1>20, <1>21, Zenon DEF Sought, SameBus, SameSwitches
<1>25. Credited(s, t, e, cancel)
  BY <1>4, <1>20, Zenon DEF Sought, Credited, SameLatch
<1> QED BY <1>16, <1>17, <1>19, <1>20, <1>22, <1>23, <1>24, <1>25, Zenon DEF Quiesced

\* wch_dequeue empties the queue and consumes the completion that belongs to it.
LEMMA DequeueEffect ==
  ASSUME NEW s \in Device, NEW e \in Eps
  PROVE  Dequeued(s, wch_dequeue(s, e), e)
<1>1. PICK m : m = wch_quiesce(s, e, TRUE) /\ Quiesced(s, m, e, TRUE)
  BY QuiesceEffect, Zenon
<1>2. m \in Device
  BY <1>1, Zenon DEF Quiesced
<1>3. PICK t : t = udc_ep_cancel_queued(m, e, "ECONNABORTED")
               /\ Cancelled(m, t, e, "ECONNABORTED")
  BY <1>2, CancelEffect, Zenon DEF Err
<1>4. wch_dequeue(s, e) = t
  BY <1>1, <1>3, Zenon DEF wch_dequeue
<1>5. m.q = s.q /\ m.done = s.done
  BY <1>1, Zenon DEF Quiesced, Credited
<1>6. SentBack(s, t, e)
  BY <1>2, <1>3, <1>5, Zenon DEF SentBack, Cancelled
<1>7. Local(s, t, e)
  <2>1. Local(s, m, e) /\ Local(m, t, e)
    BY <1>1, <1>3, Zenon DEF Quiesced, Cancelled
  <2> QED BY <2>1, LocalTrans, Zenon
<1>8. IF LatchedFor(s, e) THEN t.fg = s.fg \ {"TRANSFER"} /\ t.st = NoToken
                          ELSE SameLatch(s, t)
  BY <1>1, <1>3, ZenonT(60) DEF Quiesced, Credited, Cancelled, SameLatch
<1>9. /\ t \in Device /\ SameBus(s, t) /\ SameSwitches(s, t, e)
      /\ t.ctl[e].r = "NAK" /\ ~t.ep[e].busy /\ t.q[e] = <<>>
  BY <1>1, <1>3, ZenonT(60) DEF Quiesced, Cancelled, SameBus, SameSwitches
<1>10. ~t.refused[e] /\ ~t.unheard[e]
  BY <1>1, <1>3, Zenon DEF Quiesced, Cancelled, SameMarks
<1> QED BY <1>4, <1>6, <1>7, <1>8, <1>9, <1>10, Zenon DEF Dequeued

\* The stall itself.
LEMMA StallEffect ==
  ASSUME NEW s \in Device, NEW e \in Eps, NEW t,
         t = [s EXCEPT !.ctl[e].r = "STALL", !.ep[e].halted = TRUE]
  PROVE  Stalled(s, t, e)
<1>1. PICK y \in EpState : y = s.ep[e]
  BY Fields, Zenon
<1>2. PICK z \in Slot : z = s.ctl[e]
  BY Fields, Zenon
<1>3. PICK x : x = [y EXCEPT !.halted = TRUE]
  BY Zenon
<1>4. x \in EpState /\ x.halted /\ x.enabled = y.enabled /\ x.busy = y.busy
  BY <1>3, Zenon DEF EpState
<1>5. PICK c : c = [z EXCEPT !.r = "STALL"]
  BY Zenon
<1>6. c \in Slot /\ c.r = "STALL" /\ c.t = z.t
  BY <1>5, Zenon DEF Slot
<1>7. PICK ep \in [Eps -> EpState] : ep = [s.ep EXCEPT ![e] = x]
  BY <1>4, Fields, Zenon
<1>8. PICK ctl \in [Eps -> Slot] : ctl = [s.ctl EXCEPT ![e] = c]
  BY <1>6, Fields, Zenon
<1>9. t = [s EXCEPT !.ctl = ctl, !.ep = ep]
  BY <1>1, <1>2, <1>3, <1>5, <1>7, <1>8, Zenon
<1>10. /\ t \in Device /\ SameBus(s, t) /\ SameLatch(s, t) /\ t.ctl = ctl
       /\ t.ep = ep /\ t.q = s.q /\ t.in_length = s.in_length /\ t.done = s.done
       /\ t.skew = s.skew /\ t.unheard = s.unheard /\ t.refused = s.refused
  BY ONLY <1>9, s \in Device, ep \in [Eps -> EpState], ctl \in [Eps -> Slot], ZenonT(60)
  DEF Device, SameBus, SameLatch
<1>11. ep[e] = x /\ ctl[e] = c /\ \A g \in Eps \ {e} : ep[g] = s.ep[g] /\ ctl[g] = s.ctl[g]
  BY <1>7, <1>8, Fields, Zenon
<1> QED BY <1>1, <1>2, <1>4, <1>6, <1>10, <1>11, Zenon DEF Stalled, Local, SameMarks

\* wch_halt quiesces the endpoint, then stalls it unless a SETUP is newer.
LEMMA HaltEffect ==
  ASSUME NEW s \in Device, NEW e \in Eps, EpSound(s, e)
  PROVE  Halted(s, wch_halt(s, e), e)
<1>1. PICK m : m = wch_quiesce(s, e, FALSE) /\ Quiesced(s, m, e, FALSE)
  BY QuiesceEffect, Zenon
<1>2. m \in Device
  BY <1>1, Zenon DEF Quiesced
<1>3. PICK k : k = [m EXCEPT !.ctl[e].r = "STALL", !.ep[e].halted = TRUE]
  BY Zenon
<1>4. Stalled(m, k, e)
  BY <1>2, <1>3, StallEffect, Zenon
<1>5. wch_halt(s, e) = IF e \in Control /\ (wch_setup_pending(m) \/ m.pending) THEN m ELSE k
  BY <1>1, <1>3, Zenon DEF wch_halt
<1> QED BY <1>1, <1>4, <1>5, Zenon DEF Halted

\* wch_clear_halt resets the toggle, then starts what can be started.
LEMMA ClearHaltEffect ==
  ASSUME NEW s \in Device, NEW e \in Eps
  PROVE  HaltCleared(s, wch_clear_halt(s, e), e)
<1>1. PICK y \in EpState : y = s.ep[e]
  BY Fields, Zenon
<1>2. PICK x : x = [y EXCEPT !.halted = FALSE]
  BY Zenon
<1>3. x \in EpState /\ ~x.halted /\ x.enabled = y.enabled /\ x.busy = y.busy
  BY <1>2, Zenon DEF EpState
<1>4. PICK c : c = [r |-> "NAK", t |-> 0]
  BY Zenon
<1>5. c \in Slot /\ c.r = "NAK" /\ c.t = 0
  BY <1>4 DEF Slot
<1>6. PICK ep \in [Eps -> EpState] : ep = [s.ep EXCEPT ![e] = x]
  BY <1>3, Fields, Zenon
<1>7. PICK ctl \in [Eps -> Slot] : ctl = [s.ctl EXCEPT ![e] = c]
  BY <1>5, Fields, Zenon
<1>8. PICK v \in BOOLEAN : v = (s.skew[e] /\ s.q[e] # <<>>)
  BY Zenon
<1>9. s.skew \in [Eps -> BOOLEAN]
  BY Fields, Zenon
<1>10. PICK sk : sk = [s.skew EXCEPT ![e] = v]
  BY Zenon
<1>11. sk \in [Eps -> BOOLEAN] /\ sk[e] = v /\ \A g \in Eps \ {e} : sk[g] = s.skew[g]
  <2>1. /\ [s.skew EXCEPT ![e] = v] \in [Eps -> BOOLEAN] /\ [s.skew EXCEPT ![e] = v][e] = v
        /\ \A g \in Eps \ {e} : [s.skew EXCEPT ![e] = v][g] = s.skew[g]
    BY <1>9, <1>8, FlagUpdate
  <2> QED BY <2>1, <1>10, Zenon
<1>12. PICK m : m = [s EXCEPT !.ctl = ctl, !.ep = ep, !.skew = sk]
  BY Zenon
<1>13. wch_clear_halt(s, e) = wch_kick(m, e)
  <2>1. [s.skew EXCEPT ![e] = @ /\ s.q[e] # <<>>] = sk
    BY <1>8, <1>10, Zenon
  <2> QED BY <1>1, <1>2, <1>4, <1>6, <1>7, <1>12, <2>1, ZenonT(60) DEF wch_clear_halt
<1>14. /\ m \in Device /\ SameBus(s, m) /\ SameLatch(s, m) /\ m.ctl = ctl
       /\ m.ep = ep /\ m.q = s.q /\ m.in_length = s.in_length /\ m.done = s.done
       /\ m.skew = sk /\ m.unheard = s.unheard /\ m.refused = s.refused
  <2>1. sk \in [Eps -> BOOLEAN]
    BY <1>11, Zenon
  <2> QED BY ONLY <1>12, <2>1, s \in Device, ep \in [Eps -> EpState], ctl \in [Eps -> Slot], ZenonT(60)
    DEF Device, SameBus, SameLatch
<1>15. ep[e] = x /\ ctl[e] = c /\ \A g \in Eps \ {e} : ep[g] = s.ep[g] /\ ctl[g] = s.ctl[g]
  BY <1>6, <1>7, Fields, ZenonT(60)
<1>16. Local(s, m, e)
  BY <1>11, <1>14, <1>15, Zenon DEF Local
<1>17. m.skew[e] <=> s.skew[e] /\ s.q[e] # <<>>
  BY <1>8, <1>11, <1>14, Zenon
<1>18. ToggleReset(s, m, e)
  BY <1>1, <1>3, <1>5, <1>14, <1>15, <1>16, <1>17, Zenon DEF ToggleReset
<1> QED BY <1>13, <1>14, <1>18, KickEffect, Zenon DEF HaltCleared

(***************************************************************************)
(* The books: every loan is in one queue, at one place, or has come back   *)
(* once.                                                                   *)
(***************************************************************************)

(***************************************************************************)
(* Enabling and disabling endpoints.                                       *)
(***************************************************************************)

\* wch_ep_enable: the endpoint is set up afresh; its queue is not touched.
LEMMA EpEnableEffect ==
  ASSUME NEW s \in Device, NEW e \in Eps
  PROVE  EpEnabled(s, wch_ep_enable(s, e), e)
<1>1. PICK mode \in SUBSET Bulk : /\ mode = IF e \in Bulk THEN s.mode \cup {e} ELSE s.mode
                                  /\ mode \subseteq s.mode \cup {e}
  BY Fields, Zenon
<1>2. PICK c : c = [r |-> IF e = "out0" THEN "ACK" ELSE "NAK", t |-> 0]
  BY Zenon
<1>3. c \in Slot /\ c.r = (IF e = "out0" THEN "ACK" ELSE "NAK") /\ c.t = 0
  BY <1>2 DEF Slot
<1>4. PICK x : x = [enabled |-> TRUE, halted |-> FALSE, busy |-> FALSE]
  BY Zenon
<1>5. x \in EpState /\ x.enabled /\ ~x.halted /\ ~x.busy
  BY <1>4, Zenon DEF EpState
<1>6. PICK ctl \in [Eps -> Slot] : ctl = [s.ctl EXCEPT ![e] = c]
  BY <1>3, Fields, Zenon
<1>7. PICK ep \in [Eps -> EpState] : ep = [s.ep EXCEPT ![e] = x]
  BY <1>5, Fields, Zenon
<1>8. PICK sk \in [Eps -> BOOLEAN] : sk = [s.skew EXCEPT ![e] = FALSE]
  BY Fields, Zenon
<1>9. PICK rf \in [Eps -> BOOLEAN] : rf = [s.refused EXCEPT ![e] = FALSE]
  BY Fields, Zenon
<1>10. PICK t : t = [s EXCEPT !.mode = mode, !.ctl = ctl, !.ep = ep, !.skew = sk, !.refused = rf]
  BY Zenon
<1>11. wch_ep_enable(s, e) = t
  <2>1. mode = IF e \in Bulk THEN s.mode \cup {e} ELSE s.mode
    BY <1>1, Zenon
  <2>2. wch_ep_enable(s, e) = [s EXCEPT !.mode = mode, !.ctl[e] = c, !.ep[e] = x,
                                        !.skew[e] = FALSE, !.refused[e] = FALSE]
    BY <2>1, <1>2, <1>4, Zenon DEF wch_ep_enable
  <2>3. PICK m : m = [s EXCEPT !.mode = mode, !.ctl = ctl, !.ep = ep]
    BY Zenon
  <2>4. [s EXCEPT !.mode = mode, !.ctl[e] = c, !.ep[e] = x] = m
    BY <2>3, <1>6, <1>7, Zenon
  <2>5. wch_ep_enable(s, e) = [m EXCEPT !.skew[e] = FALSE, !.refused[e] = FALSE]
    BY <2>2, <2>4, Zenon
  <2>6. m.skew = s.skew /\ m.refused = s.refused
    BY ONLY <2>3, s \in Device, Zenon DEF Device
  <2>7. t = [m EXCEPT !.skew = sk, !.refused = rf]
    BY <2>3, <1>10, Zenon
  <2> QED BY <2>5, <2>6, <2>7, <1>8, <1>9, ZenonT(60)
<1>12. /\ t \in Device /\ SameBusButMode(s, t) /\ SameLatch(s, t) /\ t.ctl = ctl /\ t.mode = mode
       /\ t.ep = ep /\ t.q = s.q /\ t.in_length = s.in_length /\ t.done = s.done
       /\ t.skew = sk /\ t.unheard = s.unheard /\ t.refused = rf
  BY ONLY <1>10, s \in Device, ep \in [Eps -> EpState], ctl \in [Eps -> Slot],
          sk \in [Eps -> BOOLEAN], rf \in [Eps -> BOOLEAN], mode \in SUBSET Bulk, ZenonT(60)
  DEF Device, SameBusButMode, SameLatch
<1>13. /\ ep[e] = x /\ ctl[e] = c /\ ~sk[e] /\ ~rf[e]
       /\ \A g \in Eps \ {e} : /\ ep[g] = s.ep[g] /\ ctl[g] = s.ctl[g]
                               /\ sk[g] = s.skew[g] /\ rf[g] = s.refused[g]
  BY <1>6, <1>7, <1>8, <1>9, Fields
<1>14. Local(s, t, e)
  BY <1>12, <1>13, Zenon DEF Local
<1> QED BY <1>1, <1>3, <1>5, <1>11, <1>12, <1>13, <1>14, Zenon DEF EpEnabled

\* wch_ep_disable empties the queue, then switches the endpoint off.
LEMMA EpDisableEffect ==
  ASSUME NEW s \in Device, NEW e \in Eps
  PROVE  EpDisabled(s, wch_ep_disable(s, e), e)
<1>1. PICK m : m = wch_dequeue(s, e) /\ Dequeued(s, m, e)
  BY DequeueEffect, Zenon
<1>2. m \in Device
  BY <1>1, Zenon DEF Dequeued
<1>3. PICK mode \in SUBSET Bulk : mode = m.mode \ {e}
  BY <1>2, Fields, Zenon
<1>4. PICK y \in EpState : y = m.ep[e]
  BY <1>2, Fields, Zenon
<1>5. PICK x : x = [y EXCEPT !.enabled = FALSE]
  BY Zenon
<1>6. x \in EpState /\ ~x.enabled /\ x.halted = y.halted /\ x.busy = y.busy
  BY <1>5, Zenon DEF EpState
<1>7. PICK ep \in [Eps -> EpState] : ep = [m.ep EXCEPT ![e] = x]
  BY <1>2, <1>6, Fields, Zenon
<1>8. PICK t : t = [m EXCEPT !.mode = mode, !.ep = ep]
  BY Zenon
<1>9. wch_ep_disable(s, e) = t
  BY <1>1, <1>3, <1>4, <1>5, <1>7, <1>8, Zenon DEF wch_ep_disable
<1>10. /\ t \in Device /\ SameBusButMode(m, t) /\ SameLatch(m, t) /\ t.ctl = m.ctl /\ t.mode = mode
       /\ t.ep = ep /\ t.q = m.q /\ t.in_length = m.in_length /\ t.done = m.done
       /\ t.skew = m.skew /\ t.unheard = m.unheard /\ t.refused = m.refused
  BY ONLY <1>2, <1>8, ep \in [Eps -> EpState], mode \in SUBSET Bulk, ZenonT(60)
  DEF Device, SameBusButMode, SameLatch
<1>11. ep[e] = x /\ \A g \in Eps \ {e} : ep[g] = m.ep[g]
  BY <1>2, <1>7, Fields, Zenon
<1>12. SwitchedOff(m, t, e)
  BY <1>3, <1>4, <1>6, <1>10, <1>11, Zenon DEF SwitchedOff, Local, SameMarks
<1> QED BY <1>1, <1>9, <1>12, Zenon DEF EpDisabled

(***************************************************************************)
(* The bus reset.                                                          *)
(***************************************************************************)

\* One turn of the loop in wch_reset.
LEMMA ResetEpEffect ==
  ASSUME NEW s \in Device, NEW e \in Eps
  PROVE  EpReset(s, ResetEp(s, e), e)
<1>1. PICK z \in Slot : z = s.ctl[e]
  BY Fields, Zenon
<1>2. PICK c : c = [z EXCEPT !.r = "NAK"]
  BY Zenon
<1>3. c \in Slot /\ c.r = "NAK"
  BY <1>2, Zenon DEF Slot
<1>4. PICK x : x = [enabled |-> e \in Control, halted |-> FALSE, busy |-> FALSE]
  BY Zenon
<1>5. x \in EpState /\ (x.enabled <=> e \in Control) /\ ~x.halted /\ ~x.busy
  <2>1. (e \in Control) \in BOOLEAN
    OBVIOUS
  <2>2. PICK b \in BOOLEAN : b = (e \in Control)
    <3> WITNESS (e \in Control) \in BOOLEAN
    <3> QED BY Zenon
  <2>3. x = [enabled |-> b, halted |-> FALSE, busy |-> FALSE]
    BY <1>4, <2>2, Zenon
  <2>4. x \in EpState /\ x.enabled = b /\ x.halted = FALSE /\ x.busy = FALSE
    BY <2>3, Zenon DEF EpState
  <2> QED BY <2>2, <2>4, Zenon
<1>6. PICK ctl \in [Eps -> Slot] : ctl = [s.ctl EXCEPT ![e] = c]
  BY <1>3, Fields, Zenon
<1>7. PICK ep \in [Eps -> EpState] : ep = [s.ep EXCEPT ![e] = x]
  BY <1>5, Fields, Zenon
<1>8. PICK rf \in [Eps -> BOOLEAN] : rf = [s.refused EXCEPT ![e] = FALSE]
  BY Fields, Zenon
<1>9. PICK m : m = [s EXCEPT !.ctl = ctl, !.ep = ep, !.refused = rf]
  BY Zenon
<1>10. ResetEp(s, e) = udc_ep_cancel_queued(m, e, "ECONNABORTED")
  <2>1. [s EXCEPT !.ctl[e].r = "NAK",
                  !.ep[e] = [enabled |-> e \in Control, halted |-> FALSE, busy |-> FALSE],
                  !.refused[e] = FALSE] = m
    BY <1>1, <1>2, <1>4, <1>6, <1>7, <1>8, <1>9, ZenonT(60)
  <2> QED BY <2>1, Zenon DEF ResetEp
<1>11. /\ m \in Device /\ SameBus(s, m) /\ SameLatch(s, m) /\ m.ctl = ctl
       /\ m.ep = ep /\ m.q = s.q /\ m.in_length = s.in_length /\ m.done = s.done
       /\ m.skew = s.skew /\ m.unheard = s.unheard /\ m.refused = rf
  BY ONLY <1>9, s \in Device, ep \in [Eps -> EpState], ctl \in [Eps -> Slot],
          rf \in [Eps -> BOOLEAN], Zenon
  DEF Device, SameBus, SameLatch
<1>12. /\ ep[e] = x /\ ctl[e] = c /\ ~rf[e]
       /\ \A g \in Eps \ {e} : ep[g] = s.ep[g] /\ ctl[g] = s.ctl[g] /\ rf[g] = s.refused[g]
  BY <1>6, <1>7, <1>8, Fields
<1>13. PICK t : /\ t = udc_ep_cancel_queued(m, e, "ECONNABORTED")
                /\ Cancelled(m, t, e, "ECONNABORTED")
  BY <1>11, CancelEffect, Zenon DEF Err
<1>14. Local(s, t, e)
  <2>1. Local(s, m, e)
    BY <1>11, <1>12, Zenon DEF Local
  <2>2. Local(m, t, e)
    BY <1>13, Zenon DEF Cancelled
  <2> QED BY <2>1, <2>2, LocalTrans, Zenon
<1>15. SentBack(s, t, e)
  BY <1>11, <1>13, Zenon DEF SentBack, Cancelled
<1>16. ~t.refused[e]
  BY <1>11, <1>12, <1>13, Zenon DEF Cancelled, SameMarks
<1> QED BY <1>3, <1>5, <1>10, <1>11, <1>12, <1>13, <1>14, <1>15, <1>16, ZenonT(60)
  DEF EpReset, Cancelled, SameBus, SameLatch

\* The rest of the loop leaves it so.
LEMMA EpClearStays ==
  ASSUME NEW s, NEW t, NEW e, NEW g \in Eps \ {e}, Local(s, t, e), EpClear(s, g)
  PROVE  EpClear(t, g)
  BY Zenon DEF Local, EpClear

\* wch_reset: every queue goes back, every endpoint is as after attaching.
LEMMA ResetEffect ==
  ASSUME NEW s \in Device
  PROVE  AllReset(s, wch_reset(s))
<1>1. /\ "in0" \in Eps /\ "out0" \in Eps /\ "in1" \in Eps /\ "out2" \in Eps
      /\ Eps = {"in0", "out0", "in1", "out2"} /\ Control = {"in0", "out0"}
  BY Zenon DEF Eps, Control, Bulk
<1>2. PICK b : b = [s EXCEPT !.addr = 0, !.mode = {}]
  BY Zenon
<1>3. /\ b \in Device /\ SameEps(s, b) /\ SameLatch(s, b) /\ b.mode = {}
      /\ b.running = s.running /\ b.on = s.on /\ b.sie = s.sie /\ b.copying = s.copying
  BY ONLY <1>2, s \in Device, ZenonT(60) DEF Device, SameEps, SameLatch
<1>4. PICK r1 : r1 = ResetEp(b, "out0") /\ EpReset(b, r1, "out0")
  BY <1>1, <1>3, ResetEpEffect, Zenon
<1>5. PICK r2 : r2 = ResetEp(r1, "in0") /\ EpReset(r1, r2, "in0")
  BY <1>1, <1>4, ResetEpEffect, Zenon DEF EpReset
<1>6. PICK r3 : r3 = ResetEp(r2, "in1") /\ EpReset(r2, r3, "in1")
  BY <1>1, <1>5, ResetEpEffect, Zenon DEF EpReset
<1>7. PICK r4 : r4 = ResetEp(r3, "out2") /\ EpReset(r3, r4, "out2")
  BY <1>1, <1>6, ResetEpEffect, Zenon DEF EpReset
<1>8. ForEachEp(ResetEp, [s EXCEPT !.addr = 0, !.mode = {}]) = r4
  BY <1>2, <1>4, <1>5, <1>6, <1>7, Zenon DEF ForEachEp
<1>9. /\ r1 \in Device /\ r2 \in Device /\ r3 \in Device /\ r4 \in Device
      /\ Local(r1, r2, "in0") /\ Local(r2, r3, "in1") /\ Local(r3, r4, "out2")
  BY <1>4, <1>5, <1>6, <1>7, Zenon DEF EpReset
<1>10. EpClear(r1, "out0") /\ EpClear(r2, "in0") /\ EpClear(r3, "in1") /\ EpClear(r4, "out2")
  BY <1>4, <1>5, <1>6, <1>7, Zenon DEF EpReset, EpClear
<1>11. EpClear(r2, "out0")
  BY <1>1, <1>9, <1>10, EpClearStays, Zenon
<1>12. EpClear(r3, "out0") /\ EpClear(r3, "in0")
  BY <1>1, <1>9, <1>10, <1>11, EpClearStays, Zenon
<1>13. EpClear(r4, "out0") /\ EpClear(r4, "in0") /\ EpClear(r4, "in1")
  BY <1>1, <1>9, <1>10, <1>12, EpClearStays, Zenon
<1>14. KeepsBooks(s, r4) /\ OnlyAborts(s, r4)
  <2>1. KeepsBooks(b, r1) /\ OnlyAborts(b, r1)
    BY <1>1, <1>3, <1>4, SentBackBooks, Zenon DEF EpReset
  <2>2. KeepsBooks(r1, r2) /\ OnlyAborts(r1, r2)
    BY <1>1, <1>5, <1>9, SentBackBooks, Zenon DEF EpReset
  <2>3. KeepsBooks(r2, r3) /\ OnlyAborts(r2, r3)
    BY <1>1, <1>6, <1>9, SentBackBooks, Zenon DEF EpReset
  <2>4. KeepsBooks(r3, r4) /\ OnlyAborts(r3, r4)
    BY <1>1, <1>7, <1>9, SentBackBooks, Zenon DEF EpReset
  <2>5. KeepsBooks(b, r4)
    BY <2>1, <2>2, <2>3, <2>4, BooksTrans, Zenon
  <2>6. OnlyAborts(b, r4)
    BY <2>1, <2>2, <2>3, <2>4, Zenon DEF OnlyAborts
  <2>7. b.q = s.q /\ b.done = s.done
    BY <1>3, Zenon DEF SameEps
  <2> QED BY <2>5, <2>6, <2>7, Zenon DEF KeepsBooks, OnlyAborts
<1>15. PICK c1 : c1 = [r |-> "NAK", t |-> 0]
  BY Zenon
<1>16. PICK c2 : c2 = [r |-> "ACK", t |-> 0]
  BY Zenon
<1>17. c1 \in Slot /\ c1.r = "NAK" /\ c1.t = 0 /\ c2 \in Slot /\ c2.r = "ACK" /\ c2.t = 0
  BY <1>15, <1>16 DEF Slot
<1>18. PICK ca \in [Eps -> Slot] : ca = [r4.ctl EXCEPT !["in0"] = c1]
  BY <1>9, <1>17, Fields, Zenon
<1>19. PICK cb \in [Eps -> Slot] : cb = [ca EXCEPT !["out0"] = c2]
  BY <1>17, Zenon
<1>20. PICK no \in [Eps -> BOOLEAN] : no = [e \in Eps |-> FALSE]
  BY Zenon
<1>21. PICK u : u = [r4 EXCEPT !.pending = FALSE, !.valid = FALSE, !.taken = FALSE,
                               !.suspended = FALSE]
  BY Zenon
<1>22. PICK t : t = [u EXCEPT !.ctl = cb, !.skew = no, !.unheard = no]
  BY Zenon
<1>23. wch_reset(s) = t
  <2>1. wch_reset(s) = [u EXCEPT !.ctl["in0"] = c1, !.ctl["out0"] = c2, !.skew = no, !.unheard = no]
    BY <1>8, <1>15, <1>16, <1>20, <1>21, Zenon DEF wch_reset
  <2>2. u.ctl = r4.ctl
    BY ONLY <1>9, <1>21, Zenon DEF Device
  <2>3. PICK w : w = [u EXCEPT !.ctl = cb]
    BY Zenon
  <2>4. [u EXCEPT !.ctl["in0"] = c1, !.ctl["out0"] = c2] = w
    BY ONLY <2>2, <2>3, <1>18, <1>19, Zenon
  <2>5. wch_reset(s) = [w EXCEPT !.skew = no, !.unheard = no]
    BY ONLY <2>1, <2>4, Zenon
  <2>6. t = [w EXCEPT !.skew = no, !.unheard = no]
    BY ONLY <1>22, <2>3, Zenon
  <2> QED BY <2>5, <2>6, Zenon
<1>24. /\ u \in Device /\ SameEps(r4, u) /\ SameLatch(r4, u) /\ ~u.pending /\ ~u.taken
       /\ u.running = r4.running /\ u.on = r4.on /\ u.sie = r4.sie /\ u.copying = r4.copying
       /\ u.mode = r4.mode
  <2>1. r4 \in Device
    BY <1>9, Zenon
  <2>4. SameEps(r4, u)
    BY ONLY <2>1, <1>21, Zenon DEF Device, SameEps
  <2>5. SameLatch(r4, u)
    BY ONLY <2>1, <1>21, Zenon DEF Device, SameLatch
  <2>6. ~u.pending /\ ~u.taken /\ u.running = r4.running /\ u.on = r4.on
    BY ONLY <2>1, <1>21, Zenon DEF Device
  <2>7. u.sie = r4.sie /\ u.copying = r4.copying /\ u.mode = r4.mode
    BY ONLY <2>1, <1>21, Zenon DEF Device
  <2>2. /\ SameEps(r4, u) /\ SameLatch(r4, u) /\ ~u.pending /\ ~u.taken
        /\ u.running = r4.running /\ u.on = r4.on /\ u.sie = r4.sie /\ u.copying = r4.copying
        /\ u.mode = r4.mode
    BY ONLY <2>4, <2>5, <2>6, <2>7, Zenon
  <2>3. u \in Device
    BY ONLY <2>1, <1>21, ZenonT(60) DEF Device
  <2> QED BY <2>2, <2>3, Zenon
<1>25. /\ t \in Device /\ t.ep = u.ep /\ t.q = u.q /\ t.done = u.done /\ t.refused = u.refused
       /\ t.ctl = cb /\ t.skew = no /\ t.unheard = no /\ SameLatch(u, t) /\ SameBus(u, t)
  BY ONLY <1>22, <1>24, cb \in [Eps -> Slot], no \in [Eps -> BOOLEAN], ZenonT(60)
  DEF Device, SameLatch, SameBus
<1>26. /\ cb["in0"] = c1 /\ cb["out0"] = c2
       /\ \A g \in Eps \ {"in0", "out0"} : cb[g] = r4.ctl[g]
  BY <1>1, <1>9, <1>18, <1>19, Fields, Zenon
<1>27. \A g \in Eps : EpClear(r4, g)
  BY <1>1, <1>10, <1>13, Zenon
<1>28. \A g \in Eps : /\ t.q[g] = <<>> /\ ~t.ep[g].busy /\ ~t.ep[g].halted
                      /\ (t.ep[g].enabled <=> g \in Control) /\ ~t.refused[g]
  BY <1>24, <1>25, <1>27, ZenonT(60) DEF EpClear, SameEps
<1>29. \A g \in Eps : t.ctl[g].r = IF g = "out0" THEN "ACK" ELSE "NAK"
  BY <1>1, <1>17, <1>25, <1>26, <1>27 DEF EpClear
<1>30. \A g \in Eps : ~t.skew[g] /\ ~t.unheard[g]
  BY <1>20, <1>25, Zenon
<1>31. SameLatch(s, t) /\ t.running = s.running /\ t.on = s.on /\ t.sie = s.sie
       /\ t.copying = s.copying /\ t.mode = {} /\ ~t.pending /\ ~t.taken
  <2>1. SameBus(b, r4) /\ SameLatch(b, r4)
    <3>1. /\ SameBus(b, r1) /\ SameLatch(b, r1) /\ SameBus(r1, r2) /\ SameLatch(r1, r2)
          /\ SameBus(r2, r3) /\ SameLatch(r2, r3) /\ SameBus(r3, r4) /\ SameLatch(r3, r4)
      BY ONLY <1>4, <1>5, <1>6, <1>7, Zenon DEF EpReset
    <3> QED BY ONLY <3>1, Zenon DEF SameBus, SameLatch
  <2> QED BY <1>3, <1>24, <1>25, <2>1, Zenon DEF SameBus, SameLatch
<1>32. KeepsBooks(s, t) /\ OnlyAborts(s, t)
  BY <1>14, <1>24, <1>25, Zenon DEF KeepsBooks, OnlyAborts, SameEps
<1> QED BY <1>1, <1>17, <1>23, <1>25, <1>26, <1>28, <1>29, <1>30, <1>31, <1>32, ZenonT(60) DEF AllReset

(***************************************************************************)
(* Starting and stopping the device.                                       *)
(***************************************************************************)

\* Steps on other endpoints leave it so.
LEMMA EpIdleStays ==
  ASSUME NEW s, NEW t, NEW e, NEW g \in Eps \ {e}, Local(s, t, e), EpIdle(s, g)
  PROVE  EpIdle(t, g)
  BY Zenon DEF Local, EpIdle

\* The loop in wch_disable empties every queue.
LEMMA DequeueAllEffect ==
  ASSUME NEW s \in Device, NothingLatched(s)
  PROVE  AllDequeued(s, DequeueAll(s))
<1>1. /\ "in0" \in Eps /\ "out0" \in Eps /\ "in1" \in Eps /\ "out2" \in Eps
      /\ Eps = {"in0", "out0", "in1", "out2"}
  BY Zenon DEF Eps, Control, Bulk
<1>2. PICK r1 : r1 = wch_dequeue(s, "out0") /\ Dequeued(s, r1, "out0")
  BY <1>1, DequeueEffect, Zenon
<1>3. PICK r2 : r2 = wch_dequeue(r1, "in0") /\ Dequeued(r1, r2, "in0")
  BY <1>1, <1>2, DequeueEffect, Zenon DEF Dequeued
<1>4. PICK r3 : r3 = wch_dequeue(r2, "in1") /\ Dequeued(r2, r3, "in1")
  BY <1>1, <1>3, DequeueEffect, Zenon DEF Dequeued
<1>5. PICK r4 : r4 = wch_dequeue(r3, "out2") /\ Dequeued(r3, r4, "out2")
  BY <1>1, <1>4, DequeueEffect, Zenon DEF Dequeued
<1>6. DequeueAll(s) = r4
  BY <1>2, <1>3, <1>4, <1>5, Zenon DEF DequeueAll, ForEachEp
<1>7. /\ r1 \in Device /\ r2 \in Device /\ r3 \in Device /\ r4 \in Device
      /\ Local(r1, r2, "in0") /\ Local(r2, r3, "in1") /\ Local(r3, r4, "out2")
      /\ SameBus(s, r1) /\ SameBus(r1, r2) /\ SameBus(r2, r3) /\ SameBus(r3, r4)
  BY <1>2, <1>3, <1>4, <1>5, Zenon DEF Dequeued
<1>8. EpIdle(r1, "out0") /\ EpIdle(r2, "in0") /\ EpIdle(r3, "in1") /\ EpIdle(r4, "out2")
  BY <1>2, <1>3, <1>4, <1>5, Zenon DEF Dequeued, EpIdle
<1>9. EpIdle(r2, "out0")
  BY <1>1, <1>7, <1>8, EpIdleStays, Zenon
<1>10. EpIdle(r3, "out0") /\ EpIdle(r3, "in0")
  BY <1>1, <1>7, <1>8, <1>9, EpIdleStays, Zenon
<1>11. EpIdle(r4, "out0") /\ EpIdle(r4, "in0") /\ EpIdle(r4, "in1")
  BY <1>1, <1>7, <1>8, <1>10, EpIdleStays, Zenon
<1>12. KeepsBooks(s, r4) /\ OnlyAborts(s, r4)
  <2>1. KeepsBooks(s, r1) /\ OnlyAborts(s, r1)
    BY <1>1, <1>2, SentBackBooks, Zenon DEF Dequeued
  <2>2. KeepsBooks(r1, r2) /\ OnlyAborts(r1, r2)
    BY <1>1, <1>3, <1>7, SentBackBooks, Zenon DEF Dequeued
  <2>3. KeepsBooks(r2, r3) /\ OnlyAborts(r2, r3)
    BY <1>1, <1>4, <1>7, SentBackBooks, Zenon DEF Dequeued
  <2>4. KeepsBooks(r3, r4) /\ OnlyAborts(r3, r4)
    BY <1>1, <1>5, <1>7, SentBackBooks, Zenon DEF Dequeued
  <2>5. KeepsBooks(s, r4)
    BY <2>1, <2>2, <2>3, <2>4, BooksTrans, Zenon
  <2> QED BY <2>1, <2>2, <2>3, <2>4, <2>5, Zenon DEF OnlyAborts
<1>13. NothingLatched(r4)
  <2>1. NothingLatched(r1)
    BY <1>2, Zenon DEF Dequeued, NothingLatched, LatchedFor, SameLatch
  <2>2. NothingLatched(r2)
    BY <1>3, <2>1, Zenon DEF Dequeued, NothingLatched, LatchedFor, SameLatch
  <2>3. NothingLatched(r3)
    BY <1>4, <2>2, Zenon DEF Dequeued, NothingLatched, LatchedFor, SameLatch
  <2> QED BY <1>5, <2>3, Zenon DEF Dequeued, NothingLatched, LatchedFor, SameLatch
<1>14. SameBus(s, r4)
  BY <1>7, Zenon DEF SameBus
<1>15. \A g \in Eps : EpIdle(r4, g)
  BY <1>1, <1>8, <1>11, Zenon
<1> QED BY <1>6, <1>7, <1>12, <1>13, <1>14, <1>15, Zenon DEF AllDequeued

\* wch_disable: detached, with no loan left and nothing latched.
LEMMA DisableEffect ==
  ASSUME NEW s \in Device
  PROVE  Down(s, wch_disable(s))
<1>1. PICK a : a = [s EXCEPT !.running = FALSE, !.en = FALSE, !.on = FALSE, !.sie = "none"]
  BY Zenon
<1>2. a \in Device
  BY ONLY <1>1, s \in Device, ZenonT(60) DEF Device
<1>3. /\ SameEps(s, a) /\ ~a.running /\ ~a.on /\ a.sie = "none" /\ a.copying = s.copying
  BY ONLY <1>1, s \in Device, Zenon DEF Device, SameEps
<1>4. PICK b : b = wch_ack(a, Flag) /\ Acked(a, b, Flag)
  BY <1>2, AckEffect, Zenon
<1>5. NothingLatched(b)
  <2>1. a.fg \subseteq Flag
    BY <1>2, Fields, Zenon
  <2> QED BY <1>4, <2>1, Zenon DEF Acked, NothingLatched, Flag
<1>6. b \in Device /\ SameEps(a, b) /\ SameBus(a, b)
  BY <1>4, Zenon DEF Acked
<1>7. PICK d : d = DequeueAll(b) /\ AllDequeued(b, d)
  BY <1>5, <1>6, DequeueAllEffect, Zenon
<1>8. d \in Device
  BY <1>7, Zenon DEF AllDequeued
<1>9. PICK t : t = [d EXCEPT !.pending = FALSE, !.valid = FALSE, !.taken = FALSE]
  BY Zenon
<1>10. wch_disable(s) = t
  <2>1. Flag = {"RESET", "TRANSFER", "SUSPEND", "FIFO_OV"}
    BY Zenon DEF Flag
  <2> QED BY ONLY <1>1, <1>4, <1>7, <1>9, <2>1, Zenon DEF wch_disable
<1>11. t \in Device
  BY ONLY <1>8, <1>9, ZenonT(60) DEF Device
<1>12. /\ SameEps(d, t) /\ SameLatch(d, t) /\ ~t.pending /\ ~t.taken
       /\ t.running = d.running /\ t.on = d.on /\ t.sie = d.sie /\ t.copying = d.copying
  BY ONLY <1>8, <1>9, Zenon DEF Device, SameEps, SameLatch
<1>13. /\ ~t.running /\ ~t.on /\ t.sie = "none" /\ t.copying = s.copying
  BY <1>3, <1>6, <1>7, <1>12, Zenon DEF AllDequeued, SameBus
<1>14. KeepsBooks(s, t) /\ OnlyAborts(s, t)
  BY <1>3, <1>6, <1>7, <1>12, ZenonT(60) DEF AllDequeued, KeepsBooks, OnlyAborts, SameEps
<1>15. NothingLatched(t) /\ \A g \in Eps : EpIdle(t, g)
  BY <1>7, <1>12, Zenon DEF AllDequeued, NothingLatched, EpIdle, SameEps, SameLatch
<1> QED BY <1>10, <1>11, <1>12, <1>13, <1>14, <1>15, ZenonT(60) DEF Down

\* wch_enable: attached, EP0 ready for the first SETUP.
LEMMA EnableEffect ==
  ASSUME NEW s \in Device
  PROVE  Attached(s, wch_enable(s))
<1>1. /\ "in0" \in Eps /\ "out0" \in Eps /\ "in0" # "out0"
      /\ \A g \in Bulk : g \in Eps /\ g # "in0" /\ g # "out0"
  BY Zenon DEF Eps, Control, Bulk
<1>2. PICK c1 : c1 = [r |-> "ACK", t |-> 0]
  BY Zenon
<1>3. PICK c2 : c2 = [r |-> "NAK", t |-> 0]
  BY Zenon
<1>4. c1 \in Slot /\ c1.r = "ACK" /\ c1.t = 0 /\ c2 \in Slot /\ c2.r = "NAK" /\ c2.t = 0
  BY <1>2, <1>3 DEF Slot
<1>5. PICK ca \in [Eps -> Slot] : ca = [s.ctl EXCEPT !["out0"] = c1]
  BY <1>4, Fields, Zenon
<1>6. PICK cb \in [Eps -> Slot] : cb = [ca EXCEPT !["in0"] = c2]
  BY <1>4, Zenon
<1>7. PICK u : u = [s EXCEPT !.running = TRUE, !.addr = 0, !.fg = {}, !.st = NoToken,
                             !.en = TRUE, !.on = TRUE]
  BY Zenon
<1>8. NoToken \in Latch
  BY NoTokenType, Zenon
<1>9. u \in Device
  BY ONLY <1>7, <1>8, s \in Device, ZenonT(60) DEF Device
<1>10. /\ SameEps(s, u) /\ NothingLatched(u) /\ u.running /\ u.on /\ u.sie = s.sie
       /\ u.mode = s.mode /\ u.copying = s.copying /\ u.pending = s.pending /\ u.taken = s.taken
  BY ONLY <1>7, s \in Device, Zenon DEF Device, SameEps, NothingLatched
<1>11. PICK t : t = [u EXCEPT !.ctl = cb]
  BY Zenon
<1>12. wch_enable(s) = t
  <2>1. wch_enable(s) = [u EXCEPT !.ctl["out0"] = c1, !.ctl["in0"] = c2]
    BY <1>2, <1>3, <1>7, Zenon DEF wch_enable
  <2>2. u.ctl = s.ctl
    BY <1>10, Zenon DEF SameEps
  <2> QED BY ONLY <2>1, <2>2, <1>5, <1>6, <1>11, Zenon
<1>13. /\ t \in Device /\ SameBus(u, t) /\ SameLatch(u, t) /\ t.ctl = cb
       /\ t.ep = u.ep /\ t.q = u.q /\ t.in_length = u.in_length /\ t.done = u.done
       /\ t.skew = u.skew /\ t.unheard = u.unheard /\ t.refused = u.refused
  BY ONLY <1>9, <1>11, cb \in [Eps -> Slot], ZenonT(60) DEF Device, SameBus, SameLatch
<1>14. cb["out0"] = c1 /\ cb["in0"] = c2 /\ \A g \in Bulk : cb[g] = s.ctl[g]
  BY <1>1, <1>5, <1>6, Fields, Zenon
<1> QED BY <1>4, <1>10, <1>12, <1>13, <1>14
  DEF Attached, SameBus, SameLatch, SameEps, NothingLatched

\* The registers wch_init writes before it enables EP0.
LEMMA ClearedEffect ==
  ASSUME NEW s \in Device
  PROVE  ClearedIs(s, WchCleared(s))
<1>1. PICK t : t = [s EXCEPT !.on = FALSE, !.en = FALSE, !.addr = 0, !.mode = {},
                             !.fg = {}, !.st = NoToken]
  BY Zenon
<1>2. NoToken \in Latch
  BY NoTokenType, Zenon
<1>3. t \in Device
  BY ONLY <1>1, <1>2, s \in Device, ZenonT(60) DEF Device
<1>4. /\ SameEps(s, t) /\ NothingLatched(t) /\ ~t.on /\ t.mode = {}
      /\ t.running = s.running /\ t.sie = s.sie /\ t.copying = s.copying
      /\ t.pending = s.pending /\ t.taken = s.taken
  BY ONLY <1>1, s \in Device, Zenon DEF Device, SameEps, NothingLatched
<1> QED BY <1>1, <1>3, <1>4, Zenon DEF ClearedIs, WchCleared

\* Enabling or disabling EP0 keeps the device so.
LEMMA Prepared0Steps ==
  ASSUME NEW s, NEW m, Prepared0(s, m), NEW e \in Control
  PROVE  Prepared0(s, wch_ep_enable(m, e)) /\ Prepared0(s, wch_ep_disable(m, e))
<1>1. e \in Eps /\ e \notin Bulk /\ m \in Device
  BY Zenon DEF Eps, Control, Bulk, Prepared0
<1>2. Prepared0(s, wch_ep_enable(m, e))
  <2>1. PICK t : t = wch_ep_enable(m, e) /\ EpEnabled(m, t, e)
    BY <1>1, EpEnableEffect, Zenon
  <2>2. t \in Device /\ t.mode = {}
    <3>1. t \in Device /\ t.mode \subseteq m.mode \cup {e} /\ m.mode = {}
      BY <2>1, Zenon DEF EpEnabled, Prepared0
    <3>2. t.mode \subseteq Bulk
      BY <3>1, Fields, Zenon
    <3> QED BY <1>1, <3>1, <3>2, Zenon
  <2>3. \A g \in Eps : t.ep[g].busy => m.ep[g].busy
    BY ONLY <2>1, Zenon DEF EpEnabled, Local
  <2>4. t.q = m.q /\ t.done = m.done /\ SameLatch(m, t) /\ SameBusButMode(m, t)
    BY <2>1, Zenon DEF EpEnabled
  <2> QED BY <2>1, <2>2, <2>3, <2>4, Zenon
    DEF Prepared0, SameLatch, SameBusButMode, NothingLatched, KeepsBooks, OnlyAborts
<1>3. Prepared0(s, wch_ep_disable(m, e))
  <2>1. PICK t : t = wch_ep_disable(m, e) /\ EpDisabled(m, t, e)
    BY <1>1, EpDisableEffect, Zenon
  <2>2. /\ t \in Device /\ SameBusButMode(m, t) /\ t.mode = m.mode \ {e}
        /\ Local(m, t, e) /\ EpIdle(t, e) /\ KeepsBooks(m, t) /\ OnlyAborts(m, t)
        /\ IF LatchedFor(m, e) THEN t.fg = m.fg \ {"TRANSFER"} /\ t.st = NoToken
                               ELSE SameLatch(m, t)
    BY <1>1, <2>1, EpDisabledKeeps, Zenon
  <2>3. NothingLatched(t)
    BY <2>2, Zenon DEF Prepared0, NothingLatched, LatchedFor, SameLatch
  <2>4. \A g \in Eps : t.q[g] = <<>> /\ (t.ep[g].busy => m.ep[g].busy)
    BY <2>2, Zenon DEF Local, EpIdle, Prepared0
  <2>5. KeepsBooks(s, t) /\ OnlyAborts(s, t)
    BY <2>2, Zenon DEF Prepared0, KeepsBooks, OnlyAborts
  <2>6. \A g \in Eps : t.ep[g].busy => s.ep[g].busy
    BY <2>4, Zenon DEF Prepared0
  <2> QED BY <2>1, <2>2, <2>3, <2>4, <2>5, <2>6, Zenon DEF Prepared0, SameBusButMode
<1> QED BY <1>2, <1>3, Zenon

\* wch_init, whether it succeeds or fails at one of the endpoints.
LEMMA InitEffect ==
  ASSUME NEW s \in Device, \A g \in Eps : s.q[g] = <<>>, NEW fault
  PROVE  Prepared0(s, wch_init(s, fault))
<1>1. "in0" \in Control /\ "out0" \in Control
  BY Zenon DEF Control
<1>2. PICK m : m = WchCleared(s) /\ ClearedIs(s, m)
  BY ClearedEffect, Zenon
<1>3. Prepared0(s, m)
  BY <1>2, Zenon DEF Prepared0, ClearedIs, SameEps, KeepsBooks, OnlyAborts
<1>4. CASE fault = "ep0 out"
  <2>1. wch_init(s, fault) = wch_ep_disable(m, "out0")
    BY <1>2, <1>4, Zenon DEF wch_init
  <2> QED BY <1>1, <1>3, <2>1, Prepared0Steps, Zenon
<1>5. CASE fault = "ep0 in"
  <2>1. PICK k : k = wch_ep_enable(m, "out0") /\ Prepared0(s, k)
    BY <1>1, <1>3, Prepared0Steps, Zenon
  <2>2. wch_init(s, fault) = wch_ep_disable(k, "out0")
    BY <1>2, <1>5, <2>1, Zenon DEF wch_init
  <2> QED BY <1>1, <2>1, <2>2, Prepared0Steps, Zenon
<1>6. CASE fault # "ep0 out" /\ fault # "ep0 in"
  <2>1. PICK k : k = wch_ep_enable(m, "out0") /\ Prepared0(s, k)
    BY <1>1, <1>3, Prepared0Steps, Zenon
  <2>2. wch_init(s, fault) = wch_ep_enable(k, "in0")
    BY <1>2, <1>6, <2>1, Zenon DEF wch_init
  <2> QED BY <1>1, <2>1, <2>2, Prepared0Steps, Zenon
<1> QED BY <1>4, <1>5, <1>6, Zenon

\* Disabling an endpoint of a stopped device leaves it stopped.
LEMMA DownStays ==
  ASSUME NEW s, NEW m, Down(s, m), NEW e \in Eps
  PROVE  Down(s, wch_ep_disable(m, e))
<1>1. m \in Device
  BY Zenon DEF Down
<1>2. PICK t : t = wch_ep_disable(m, e) /\ EpDisabled(m, t, e)
  BY <1>1, EpDisableEffect, Zenon
<1>3. /\ t \in Device /\ SameBusButMode(m, t)
      /\ Local(m, t, e) /\ EpIdle(t, e) /\ KeepsBooks(m, t) /\ OnlyAborts(m, t)
      /\ IF LatchedFor(m, e) THEN t.fg = m.fg \ {"TRANSFER"} /\ t.st = NoToken
                             ELSE SameLatch(m, t)
  BY <1>1, <1>2, EpDisabledKeeps, Zenon
<1>4. NothingLatched(t)
  BY <1>3, Zenon DEF Down, NothingLatched, LatchedFor, SameLatch
<1>5. \A g \in Eps : EpIdle(t, g)
  <2> TAKE g \in Eps
  <2>1. CASE g # e
    BY <1>3, <2>1, EpIdleStays, Zenon DEF Down
  <2> QED BY <1>3, <2>1, Zenon
<1>6. KeepsBooks(s, t) /\ OnlyAborts(s, t)
  BY <1>3, Zenon DEF Down, KeepsBooks, OnlyAborts
<1> QED BY <1>2, <1>3, <1>4, <1>5, <1>6, Zenon DEF Down, SameBusButMode

\* wch_shutdown stops the device again and disables EP0.
LEMMA ShutdownEffect ==
  ASSUME NEW s \in Device
  PROVE  Down(s, wch_shutdown(s))
<1>1. "in0" \in Eps /\ "out0" \in Eps
  BY Zenon DEF Eps, Control
<1>2. PICK m : m = wch_disable(s) /\ Down(s, m)
  BY DisableEffect, Zenon
<1>3. PICK k : k = wch_ep_disable(m, "out0") /\ Down(s, k)
  BY <1>1, <1>2, DownStays, Zenon
<1>4. wch_shutdown(s) = wch_ep_disable(k, "in0")
  BY <1>2, <1>3, Zenon DEF wch_shutdown
<1> QED BY <1>1, <1>3, <1>4, DownStays, Zenon
=============================================================================
