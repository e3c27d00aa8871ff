------------------------------ MODULE UdcBusInv ------------------------------
(***************************************************************************)
(* What the steps of the bus, the stack and the worker (UdcBus) do to the  *)
(* device record, and the inductive invariants of the whole device, stated *)
(* in these terms.                                                         *)
(***************************************************************************)
EXTENDS UdcWchInv

(***************************************************************************)
(* Clock and pins.                                                         *)
(***************************************************************************)

BoardRecord ==
  [pll_hz : Nat, hclk : Nat, sws_pll : BOOLEAN, hpre : BOOLEAN,
   release_sdi : BOOLEAN, usbpre : 1..3, sdi : {"reset", "swd", "disable"}]

Clock ==
  [board : BoardRecord, usbpre : 1..3, sdi : {"reset", "swd", "disable"},
   usb : BOOLEAN, afio : BOOLEAN, saved_usbpre : 1..3,
   saved_sdi : {"reset", "swd", "disable"}]

\* The chip as the boot left it.
AtBoot(c) == c.usbpre = c.board.usbpre /\ c.sdi = c.board.sdi /\ ~c.usb

\* The chip with USB running, and with what is needed to take it down again.
AtWork(c) ==
  /\ c.usb /\ c.usbpre * 48 = c.board.pll_hz
  /\ c.sdi = IF c.board.release_sdi THEN "disable" ELSE c.board.sdi
  /\ c.saved_usbpre = c.board.usbpre
  /\ c.board.release_sdi => c.saved_sdi = c.board.sdi

ClockInv ==
  /\ clk \in Clock /\ stack \in {"off", "init", "on"}
  /\ IF stack = "off" THEN AtBoot(clk) ELSE AtWork(clk)

(***************************************************************************)
(* The steps that change the device record directly, without a function of *)
(* the driver: what they do to it.                                         *)
(***************************************************************************)

SameEpsButUnheard(s, t) ==
  /\ t.ep = s.ep /\ t.ctl = s.ctl /\ t.q = s.q /\ t.in_length = s.in_length
  /\ t.skew = s.skew /\ t.refused = s.refused /\ t.done = s.done

SameBusButSie(s, t) ==
  /\ t.running = s.running /\ t.on = s.on /\ t.mode = s.mode
  /\ t.copying = s.copying /\ t.pending = s.pending /\ t.taken = s.taken

\* Only what the properties do not depend on.
Aside(s, t) == t \in Device /\ SameEps(s, t) /\ SameBus(s, t) /\ SameLatch(s, t)

\* The controller takes a token, gives one up, or raises a flag.
OnWire(s, t, sie, flags) ==
  /\ t \in Device /\ SameEps(s, t) /\ SameBusButSie(s, t)
  /\ t.sie = sie /\ t.fg = s.fg \cup flags /\ t.st = s.st

LatchedIs(s, t, flags, token) ==
  /\ t \in Device /\ SameEpsButUnheard(s, t) /\ SameBusButSie(s, t)
  /\ t.sie = "none" /\ t.fg = s.fg \cup flags /\ t.st = token
  /\ \A e \in Eps : t.unheard[e] <=> s.unheard[e] /\ e # token.ep

\* The request of a packet the host has taken: only the ghosts count it.
TakenBy(h, r) ==
  /\ r \in Requests /\ r.id = h.id /\ r.setup = h.setup /\ r.size = h.size
  /\ r.len = h.len /\ r.zlp = h.zlp /\ r.want = h.want /\ r.bad = h.bad

TakenIs(s, t, e) ==
  \/ t = s
  \/ s.q[e] # <<>> /\ \E r \in Requests : TakenBy(Head(s.q[e]), r) /\ Replaced(s, t, e, r)

UnheardIs(s, t, e) ==
  /\ t \in Device /\ SameEpsButUnheard(s, t) /\ SameBusButSie(s, t) /\ SameLatch(s, t)
  /\ t.sie = "none" /\ t.unheard[e] /\ \A g \in Eps \ {e} : t.unheard[g] = s.unheard[g]

CopiedIs(s, t) ==
  \E m : /\ Staged(s, m, "in0") /\ t \in Device /\ SameEps(m, t) /\ SameLatch(m, t)
         /\ SameBusButCopying(m, t) /\ ~t.copying

PutIs(s, t, e, r) ==
  /\ OneEp(s, t, e) /\ t.ep = s.ep /\ t.ctl = s.ctl /\ t.in_length = s.in_length
  /\ t.done = s.done /\ t.q[e] = Append(s.q[e], r)

HandedOver(s, t, o) ==
  /\ t \in Device /\ SameLatch(s, t) /\ ~t.pending /\ t.taken
  /\ t.running = s.running /\ t.on = s.on /\ t.sie = s.sie /\ t.mode = s.mode
  /\ t.copying = s.copying
  /\ t.ep = s.ep /\ t.ctl = s.ctl /\ t.q = s.q /\ t.in_length = s.in_length
  /\ t.skew = s.skew /\ t.unheard = s.unheard /\ t.refused = s.refused
  /\ t.done = s.done \cup {o}

(***************************************************************************)
(* The core of the invariant: what the device record always satisfies.     *)
(***************************************************************************)

\* What is latched and what is under way on the wire go together.
WireCore(s) ==
  /\ s.running <=> s.on
  /\ s.st.ep = "none" <=> "TRANSFER" \notin s.fg
  /\ "TRANSFER" \in s.fg => s.sie = "none"
  /\ s.sie # "none" => s.on

\* Between the check and the copy of wch_kick the request is still there.
CopySound(s) ==
  s.copying => /\ s.running /\ s.ep["in0"].enabled /\ ~s.ep["in0"].halted /\ ~s.ep["in0"].busy
               /\ s.q["in0"] # <<>> /\ ~Head(s.q["in0"]).setup

DevCore(s) ==
  /\ WireCore(s) /\ CopySound(s)
  /\ \A e \in Eps : EpSound(s, e)
  /\ ~s.running => \A e \in Eps : s.q[e] = <<>>

(***************************************************************************)
(* The state invariant every other one rests on, and what each action does *)
(* to the device record in a state that satisfies it.                      *)
(***************************************************************************)

Host ==
  [tog : [Eps -> 0..1], resend : [Eps -> BOOLEAN], conf : SUBSET Bulk,
   setup : BOOLEAN, suspended : BOOLEAN]

Work ==
  [queued : BOOLEAN, pc : {"idle", "handle", "suspend", "ack", "kick", "unmask"},
   flags : SUBSET Flag]

Spent == [req : 0..MaxReq, fault : Nat, bus : Nat]

\* The worker and the mutex: a worker past its reading of the flags finds the
\* driver running, and, until it acknowledges them, the flags it read.
Mutex ==
  /\ dev.running => stack = "on"
  /\ work.pc # "idle" => dev.running
  /\ work.pc = "handle" => work.flags \subseteq dev.fg
  /\ dev.copying => work.pc \in {"idle", "unmask"}
  /\ stack # "on" => ~dev.taken /\ ~dev.pending

Base ==
  /\ dev \in Device /\ work \in Work /\ host \in Host /\ spent \in Spent
  /\ stack \in {"off", "init", "on"}
  /\ DevCore(dev) /\ Mutex

\* What the calls do.
Enqueued(s, t, e, r) ==
  \E m : PutIs(s, m, e, r) /\ IF e = "in0" THEN CheckedIs(m, t) ELSE Kicked(m, t, e)

\* What the worker does.
ResetDone(s, t, flags) == \E m : AllReset(s, m) /\ Acked(m, t, flags)

Serviced(s, t) ==
  \E m : /\ IF s.st.ep = "setup" THEN Superseded(s, m) ELSE DataTransferred(s, m, s.st.ep)
         /\ Acked(m, t, {"TRANSFER"})

AllKicked(s, t) ==
  \E a, b, c : Kicked(s, a, "out0") /\ Kicked(a, b, "in1") /\ Kicked(b, c, "out2") /\ CheckedIs(c, t)

\* The request a transaction is about.
AboutHead(s, k, e) ==
  k \in Latch /\ k.ep = e /\ (s.q[e] # <<>> => k.id = Head(s.q[e]).id)

InDone(s, t, e) ==
  \E m : /\ TakenIs(s, m, e)
         /\ \/ \E k : AboutHead(s, k, e) /\ ~k.bad /\ LatchedIs(m, t, {"TRANSFER"}, k)
            \/ UnheardIs(m, t, e)

OutDone(s, t, e, flags) ==
  \E k : AboutHead(s, k, e) /\ (k.bad <=> "FIFO_OV" \in flags) /\ LatchedIs(s, t, flags, k)

SetupDone(s, t) ==
  \E k : k \in Latch /\ k.ep = "setup" /\ ~k.bad /\ LatchedIs(s, t, {"TRANSFER"}, k)

\* The outcome of an OUT transaction.
Out(e) ==
  \E len \in Packets, heard \in BOOLEAN, flags \in {{"TRANSFER"}, {"TRANSFER", "FIFO_OV"}} :
    (Fault \/ BusStep \/ UNCHANGED spent) /\ OutArrives(e, len, heard, flags)

Sound(t) == t \in Device /\ DevCore(t)

\* What every step on the wire leaves to the driver.
Wired(s, t) ==
  /\ t.running = s.running /\ t.copying = s.copying /\ t.pending = s.pending /\ t.taken = s.taken
  /\ s.fg \subseteq t.fg

\* A call of a running stack, the mutex free.
OnStack ==
  \/ \E e \in Eps : \/ ApiEpEnable(e) \/ ApiEpDisable(e) \/ ApiDequeue(e) \/ ApiHalt(e)
                    \/ ApiClearHalt(e)
  \/ \E e \in Eps, size \in Sizes, zlp \in BOOLEAN : ApiEnqueue(e, size, zlp)
  \/ ApiEnqueueSetup
  \/ \E a \in 0..1 : wch_address(a)

(***************************************************************************)
(* What a step of the specification does to the device record, as a        *)
(* relation between the record before and after it.                        *)
(***************************************************************************)

DidInit ==
  /\ stack = "off" /\ ~dev.copying /\ ~dev.running
  /\ dev' = dev \/ Prepared0(dev, dev')

DidEnable == stack = "init" /\ ~dev.copying /\ ~dev.running /\ Attached(dev, dev')

DidDown == ~dev.copying /\ Down(dev, dev')

DidEpEnable(e) ==
  ~dev.copying /\ stack = "on" /\ e \in Bulk /\ ~dev.ep[e].enabled /\ EpEnabled(dev, dev', e)

DidEpDisable(e) ==
  /\ ~dev.copying /\ stack = "on" /\ e \in Bulk
  /\ \/ SieFree(dev) /\ EpDisabled(dev, dev', e)
     \/ ~SieFree(dev) /\ RefusedIs(dev, dev', e)

DidDequeue(e) ==
  /\ ~dev.copying /\ stack = "on"
  /\ \/ SieFree(dev) /\ Dequeued(dev, dev', e)
     \/ ~SieFree(dev) /\ RefusedIs(dev, dev', e)

DidHalt(e) ==
  /\ ~dev.copying /\ stack = "on" /\ "halt" \in Ops
  /\ \/ SieFree(dev) /\ Halted(dev, dev', e)
     \/ ~SieFree(dev) /\ RefusedIs(dev, dev', e)

DidClearHalt(e) ==
  /\ ~dev.copying /\ stack = "on" /\ e \in Bulk
  /\ ~dev.ep[e].halted => "clear any" \in Ops
  /\ dev.sie # e /\ ~LatchedFor(dev, e) /\ HaltCleared(dev, dev', e)

DidEnqueue(e) ==
  /\ ~dev.copying /\ stack = "on" /\ dev.running /\ spent.req < MaxReq
  /\ e \in Control => dev.taken
  /\ \E r \in Requests : r.id = spent.req + 1 /\ ~r.setup /\ ~r.bad /\ Enqueued(dev, dev', e, r)

DidEnqueueSetup ==
  /\ ~dev.copying /\ stack = "on" /\ dev.running /\ spent.req < MaxReq
  /\ IF dev.pending
     THEN \E o \in Return : o.id = spent.req + 1 /\ o.clean /\ HandedOver(dev, dev', o)
     ELSE \E r \in Requests : r.id = spent.req + 1 /\ r.setup /\ ~r.bad /\ Enqueued(dev, dev', "out0", r)

DidAside == Aside(dev, dev')

DidCopy == dev.copying /\ CopiedIs(dev, dev')

DidReset == ~dev.copying /\ ResetDone(dev, dev', work.flags)

DidTransfer ==
  /\ ~dev.copying /\ work.pc = "handle" /\ work.flags \cap {"RESET", "FIFO_OV"} = {}
  /\ IF "TRANSFER" \in work.flags
     THEN "TRANSFER" \in dev.fg /\ dev.st.ep \in Eps \cup {"setup"} /\ Serviced(dev, dev')
     ELSE dev' = dev

DidSuspendAck == Acked(dev, dev', {"SUSPEND"})

DidKick == ~dev.copying /\ AllKicked(dev, dev')

DidToken(tk) ==
  /\ dev.on /\ dev.sie = "none" /\ "TRANSFER" \notin dev.fg
  /\ \/ tk = "setup"
     \/ tk \in Control /\ host.setup /\ dev.ctl[tk].r = "ACK"
     \/ tk \in Bulk /\ tk \in host.conf /\ tk \in dev.mode /\ dev.ctl[tk].r = "ACK"
  /\ OnWire(dev, dev', tk, {})

DidBus ==
  /\ Lost => dev.sie # "none" /\ OnWire(dev, dev', "none", {})
  /\ BusReset => dev.on /\ OnWire(dev, dev', "none", {"RESET"})
  /\ BusSuspend => dev.on /\ dev.sie = "none" /\ OnWire(dev, dev', "none", {"SUSPEND"})

DidIn(e) == dev.sie = e /\ IsIn(e) /\ InDone(dev, dev', e)

DidOut(e) ==
  /\ dev.sie = e /\ ~IsIn(e)
  /\ \E flags \in {{"TRANSFER"}, {"TRANSFER", "FIFO_OV"}} : OutDone(dev, dev', e, flags)

DidSetup == dev.sie = "setup" /\ SetupDone(dev, dev')

\* Every step is one of these: the action, and its effect on the record.
StepEffect ==
  \/ \E fault : ApiInit(fault) /\ DidInit
  \/ ApiEnable /\ DidEnable
  \/ (ApiDisable \/ ApiShutdown \/ WorkOverflow) /\ DidDown
  \/ \E e \in Eps : \/ ApiEpEnable(e) /\ DidEpEnable(e)
                    \/ ApiEpDisable(e) /\ DidEpDisable(e)
                    \/ ApiDequeue(e) /\ DidDequeue(e)
                    \/ ApiHalt(e) /\ DidHalt(e)
                    \/ ApiClearHalt(e) /\ DidClearHalt(e)
                    \/ InAcked(e) /\ DidIn(e)
                    \/ Out(e) /\ DidOut(e)
  \/ \E e \in Eps, size \in Sizes, zlp \in BOOLEAN : ApiEnqueue(e, size, zlp) /\ DidEnqueue(e)
  \/ ApiEnqueueSetup /\ DidEnqueueSetup
  \/ ((\E a \in 0..1 : wch_address(a)) \/ wch_isr \/ WorkSuspend \/ WorkUnmask) /\ DidAside
  \/ KickCopy /\ DidCopy
  \/ WorkRead \/ UNCHANGED vars
  \/ WorkReset /\ DidReset
  \/ WorkTransfer /\ DidTransfer
  \/ WorkSuspendAck /\ DidSuspendAck
  \/ WorkKick /\ DidKick
  \/ \E tk \in Eps \cup {"setup"} : Token(tk) /\ DidToken(tk)
  \/ (Lost \/ BusReset \/ BusSuspend) /\ DidBus
  \/ \E valid \in BOOLEAN : SetupArrives(valid) /\ DidSetup

\* The steps on the wire.
OnTheWire ==
  \/ \E tk \in Eps \cup {"setup"} : Token(tk) /\ DidToken(tk)
  \/ (Lost \/ BusReset \/ BusSuspend) /\ DidBus
  \/ \E e \in Eps : (InAcked(e) /\ DidIn(e)) \/ (Out(e) /\ DidOut(e))
  \/ \E valid \in BOOLEAN : SetupArrives(valid) /\ DidSetup

\* A call that ends, holds or clears what an endpoint does.
CalledOn(e) ==
  \/ ApiEpDisable(e) /\ DidEpDisable(e)
  \/ ApiDequeue(e) /\ DidDequeue(e)
  \/ ApiHalt(e) /\ DidHalt(e)
  \/ ApiClearHalt(e) /\ DidClearHalt(e)

(***************************************************************************)
(* The loans.                                                              *)
(***************************************************************************)

\* The books with one more request.
BooksOpen(s, t, n) == Books(s.q, s.done, n) => Books(t.q, t.done, n + 1)

BooksInv == Books(dev.q, dev.done, spent.req)

(***************************************************************************)
(* A SETUP that waits for the stack.                                       *)
(***************************************************************************)

\* While a SETUP waits, the control endpoints have nothing to say.
SetupSafe(s) ==
  s.pending => /\ ~s.taken
               /\ \A g \in Control : ~s.ep[g].halted /\ s.ctl[g].r = "NAK" /\ s.q[g] = <<>>

\* A step that keeps a waiting SETUP and stirs no control endpoint.
SetupKept(s, t) ==
  /\ t.pending = s.pending /\ t.taken = s.taken
  /\ s.pending => \A g \in Control :
       /\ t.ep[g].halted = s.ep[g].halted
       /\ t.ctl[g].r = s.ctl[g].r \/ t.ctl[g].r = "NAK"
       /\ t.q[g] = s.q[g] \/ t.q[g] = <<>>

SetupInv == SetupSafe(dev)

(***************************************************************************)
(* A completion and the request it is credited to.                         *)
(***************************************************************************)

\* No control transfer is under way: EP0 OUT acknowledges without a request.
Free(s) == ~s.taken /\ ~s.pending

\* Then the control endpoints hold setup requests only.
FreeSafe(s) == Free(s) => \A g \in Control : \A i \in DOMAIN s.q[g] : s.q[g][i].setup

\* The endpoint has a transfer the controller may answer for.
Held(s, e) == s.ep[e].busy \/ (e = "out0" /\ Free(s))

\* The controller answers tokens of the endpoint.
Answers(s, e) ==
  /\ s.ctl[e].r = "ACK"
  /\ e \in Bulk => e \in s.mode
  /\ e = "in0" => s.on

EpCredit(s, e) ==
  /\ Answers(s, e) => Held(s, e)
  /\ s.sie = e => Held(s, e)
  /\ LatchedFor(s, e) => IF s.ep[e].busy THEN Head(s.q[e]).id = s.st.id ELSE Held(s, e)

CreditSafe(s) == \A e \in Eps : EpCredit(s, e)

\* While a bus reset is latched the host has no configured endpoint and the
\* newest transaction can only be a SETUP; the worker that is about to consume
\* the reset therefore leaves behind at most a SETUP that came after it.
ResetInv ==
  /\ "RESET" \in dev.fg => /\ host.conf = {} /\ dev.sie \in {"none", "setup"}
                           /\ host.setup => dev.st.ep = "setup"
  /\ work.pc = "handle" /\ "RESET" \in dev.fg /\ "RESET" \notin work.flags /\ "TRANSFER" \in work.flags
       => ~host.setup
  /\ work.pc = "handle" /\ "RESET" \in work.flags /\ "TRANSFER" \in dev.fg \ work.flags
       => dev.st.ep = "setup"

\* A step of the driver raises no flag, starts no transaction and consumes no
\* latched SETUP.
ResetKept(s, t) ==
  "RESET" \in t.fg => /\ "RESET" \in s.fg /\ (t.sie = s.sie \/ t.sie = "none")
                      /\ s.st.ep = "setup" => t.st.ep = "setup"

CreditInv == CreditSafe(dev) /\ FreeSafe(dev)
=============================================================================
