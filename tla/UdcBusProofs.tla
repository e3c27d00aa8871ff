---------------------------- MODULE UdcBusProofs ----------------------------
(***************************************************************************)
(* What every action of the USBFS device driver (UdcBus) does to the       *)
(* device record, and the theorems that need no more: clock and pins, and  *)
(* type correctness.  For every set of boards, endpoints, operations,      *)
(* request sizes, packet lengths and bounds.                               *)
(***************************************************************************)
EXTENDS UdcWchProofs

(***************************************************************************)
(* Clock and pins.                                                         *)
(***************************************************************************)

\* However often the device is brought up, fails half way and is taken down,
\* whatever the board: clock, pins and divider are as the boot left them while
\* it is down, and right for USB while it is up (wch_prepare, wch_unprepare).
THEOREM BootState == Spec => []BootStateIsRestored
\* Bringing up either works, or fails and leaves the chip at boot.
<1>Prepare.
      ASSUME NEW c \in Clock, NEW fault, AtBoot(c)
      PROVE  /\ wch_prepare(c, fault) \in Clock
             /\ IF Prepared(c, fault) THEN AtWork(wch_prepare(c, fault))
                                      ELSE AtBoot(wch_prepare(c, fault))
  <2> USE <1>Prepare
  <2>1. PICK divided : divided = [c EXCEPT !.usb = TRUE, !.usbpre = c.board.pll_hz \div 48,
                                            !.saved_usbpre = c.usbpre]
    BY Zenon
  <2>2. CASE ~Supported(c.board)
    BY <2>2, Zenon DEF wch_prepare, Prepared
  <2>3. CASE Supported(c.board)
    <3>1. c.board.pll_hz \in {48, 96, 144}
      BY <2>3, Zenon DEF Supported
    <3>2. PICK k \in 1..3 : k * 48 = c.board.pll_hz /\ k = c.board.pll_hz \div 48
      BY <3>1
    <3>3. divided = [c EXCEPT !.usb = TRUE, !.usbpre = k, !.saved_usbpre = c.usbpre]
      BY <2>1, <3>2, Zenon
    <3>4. /\ divided \in Clock /\ divided.usb /\ divided.usbpre = k
          /\ divided.saved_usbpre = c.usbpre /\ divided.board = c.board
          /\ divided.sdi = c.sdi
      BY <3>3, Zenon DEF Clock
    <3>5. CASE Prepared(c, fault) /\ c.board.release_sdi
      <4>1. wch_prepare(c, fault)
              = [divided EXCEPT !.afio = TRUE, !.sdi = "disable", !.saved_sdi = c.sdi]
        BY <2>1, <3>5, Zenon DEF wch_prepare
      <4>2. PICK up : up = [divided EXCEPT !.afio = TRUE, !.sdi = "disable", !.saved_sdi = c.sdi]
        BY Zenon
      <4>3. /\ up \in Clock /\ up.usb /\ up.usbpre = k /\ up.saved_usbpre = c.usbpre
            /\ up.board = c.board /\ up.sdi = "disable" /\ up.saved_sdi = c.sdi
        BY <3>4, <4>2, Zenon DEF Clock
      <4> QED BY <3>2, <3>5, <4>1, <4>2, <4>3, Zenon DEF AtBoot, AtWork
    <3>6. CASE Prepared(c, fault) /\ ~c.board.release_sdi
      <4>1. wch_prepare(c, fault) = divided
        BY <2>1, <3>6, Zenon DEF wch_prepare
      <4> QED BY <3>2, <3>4, <3>6, <4>1, Zenon DEF AtBoot, AtWork
    <3>7. CASE ~Prepared(c, fault) /\ fault = "afio clock"
      <4>1. wch_prepare(c, fault) = Undone(divided)
        BY <2>1, <2>3, <3>7, Zenon DEF wch_prepare
      <4>2. PICK down : down = [divided EXCEPT !.usb = FALSE, !.usbpre = divided.saved_usbpre]
        BY Zenon
      <4>3. /\ down \in Clock /\ ~down.usb /\ down.usbpre = c.usbpre
            /\ down.board = c.board /\ down.sdi = c.sdi
        BY <3>4, <4>2, Zenon DEF Clock
      <4> QED BY <3>7, <4>1, <4>2, <4>3, Zenon DEF AtBoot, Undone
    <3>8. CASE ~Prepared(c, fault) /\ fault # "afio clock"
      BY <3>8, Zenon DEF wch_prepare
    <3> QED BY <3>5, <3>6, <3>7, <3>8, Zenon
  <2> QED BY <2>2, <2>3, Zenon
\* Taking down restores what bringing up found.
<1>Unprepare.
      ASSUME NEW c \in Clock, AtWork(c)
      PROVE  wch_unprepare(c) \in Clock /\ AtBoot(wch_unprepare(c))
  <2> USE <1>Unprepare
  <2>1. PICK pins \in {"reset", "swd", "disable"} :
          pins = IF c.board.release_sdi THEN c.saved_sdi ELSE c.sdi
    BY Zenon DEF Clock
  <2>2. PICK down : down = [c EXCEPT !.sdi = pins, !.usbpre = c.saved_usbpre, !.usb = FALSE]
    BY Zenon
  <2>3. wch_unprepare(c) = down
    BY <2>1, <2>2, Zenon DEF wch_unprepare
  <2>4. /\ down \in Clock /\ ~down.usb /\ down.usbpre = c.saved_usbpre
        /\ down.board = c.board /\ down.sdi = pins
    BY <2>1, <2>2, Zenon DEF Clock
  <2> QED BY <2>1, <2>3, <2>4, Zenon DEF AtBoot, AtWork
<1>1. Init => ClockInv
  <2> SUFFICES ASSUME Init PROVE ClockInv
    BY Zenon
  <2>1. PICK b \in Boards : clk = BootClock(b)
    BY Zenon DEF Init
  <2>2. b \in BoardRecord
    BY BoardsAssumption, Zenon DEF BoardRecord
  <2> QED BY <2>1, <2>2 DEF Init, ClockInv, BootClock, Clock, BoardRecord, AtBoot
<1>2. ClockInv /\ [Next]_vars => ClockInv'
  <2> SUFFICES ASSUME ClockInv, [Next]_vars PROVE ClockInv'
    BY Zenon
  <2>1. ASSUME NEW fault, ApiInit(fault) PROVE ClockInv'
    <3>1. AtBoot(clk) /\ clk \in Clock
      BY <2>1, Zenon DEF ApiInit, ClockInv
    <3>2. PICK up : up = wch_prepare(clk, fault)
      BY Zenon
    <3>3. up \in Clock /\ IF Prepared(clk, fault) THEN AtWork(up) ELSE AtBoot(up)
      BY <3>1, <3>2, <1>Prepare, Zenon
    <3>4. /\ stack' = IF Prepared(clk, fault) /\ fault \notin {"ep0 out", "ep0 in"}
                      THEN "init" ELSE "off"
          /\ clk' = IF Prepared(clk, fault) /\ stack' = "off" THEN wch_unprepare(up) ELSE up
      BY <2>1, <3>2, Zenon DEF ApiInit
    <3> QED BY <3>3, <3>4, <1>Unprepare, Zenon DEF ClockInv
  <2>2. CASE ApiShutdown
    BY <2>2, <1>Unprepare, Zenon DEF ApiShutdown, ClockInv
  <2>3. CASE ApiEnable
    BY <2>3, Zenon DEF ApiEnable, ClockInv
  <2>4. CASE ApiDisable
    BY <2>4, Zenon DEF ApiDisable, ClockInv
  <2>5. CASE UNCHANGED <<stack, clk>>
    BY <2>5, Zenon DEF ClockInv
  <2>6. \/ \E fault \in PrepareFaults \cup {"ep0 out", "ep0 in"} : ApiInit(fault)
        \/ ApiEnable \/ ApiDisable \/ ApiShutdown \/ UNCHANGED <<stack, clk>>
    BY ZenonT(60) DEF Next, vars, Api, ApiEpEnable, ApiEpDisable, ApiEnqueue, ApiEnqueueSetup,
       ApiDequeue, ApiHalt, ApiClearHalt, wch_address, KickCopy, wch_isr, wch_work,
       WorkRead, WorkReset, WorkOverflow, WorkTransfer, WorkSuspend, WorkSuspendAck,
       WorkKick, WorkUnmask, Transaction, Token, Lost, InAcked, OutAcked, OutUnheard,
       OutOverflow, OutArrives, SetupArrives, BusReset, BusSuspend
  <2> QED BY <2>1, <2>2, <2>3, <2>4, <2>5, <2>6, Zenon
<1>3. ClockInv => BootStateIsRestored
  BY Zenon DEF ClockInv, AtBoot, AtWork, BootStateIsRestored
<1> QED BY <1>1, <1>2, <1>3, PTL DEF Spec

(***************************************************************************)
(* The steps that change the device record directly, without a function of *)
(* the driver: what they do to it.                                         *)
(***************************************************************************)

\* The address, the interrupt mask and the suspend event are aside.
LEMMA AsideSteps ==
  ASSUME NEW s \in Device, NEW a \in Nat, NEW b \in BOOLEAN
  PROVE  /\ Aside(s, [s EXCEPT !.addr = a])
         /\ Aside(s, [s EXCEPT !.en = TRUE]) /\ Aside(s, [s EXCEPT !.en = FALSE])
         /\ Aside(s, [s EXCEPT !.suspended = b])
<1>1. Aside(s, [s EXCEPT !.addr = a])
  BY Zenon DEF Aside, Device, SameEps, SameBus, SameLatch
<1>2. Aside(s, [s EXCEPT !.en = TRUE])
  BY Zenon DEF Aside, Device, SameEps, SameBus, SameLatch
<1>3. Aside(s, [s EXCEPT !.en = FALSE])
  BY Zenon DEF Aside, Device, SameEps, SameBus, SameLatch
<1>4. Aside(s, [s EXCEPT !.suspended = b])
  <2>1. PICK t : t = [s EXCEPT !.suspended = b]
    BY Zenon
  <2>2. CASE b = TRUE
    <3>1. t = [s EXCEPT !.suspended = TRUE]
      BY <2>1, <2>2, Zenon
    <3>2. Aside(s, t)
      BY ONLY <3>1, s \in Device, Zenon DEF Aside, Device, SameEps, SameBus, SameLatch
    <3> QED BY <2>1, <3>2, Zenon
  <2>3. CASE b = FALSE
    <3>1. t = [s EXCEPT !.suspended = FALSE]
      BY <2>1, <2>3, Zenon
    <3>2. Aside(s, t)
      BY ONLY <3>1, s \in Device, ZenonT(60) DEF Aside, Device, SameEps, SameBus, SameLatch
    <3> QED BY <2>1, <3>2, Zenon
  <2> QED BY <2>2, <2>3, Zenon
<1> QED BY <1>1, <1>2, <1>3, <1>4, Zenon

\* The same, for the records the steps build.
LEMMA WireSteps ==
  ASSUME NEW s \in Device, NEW sie \in Eps \cup {"none", "setup"}
  PROVE  /\ OnWire(s, [s EXCEPT !.sie = sie], sie, {})
         /\ OnWire(s, [s EXCEPT !.fg = @ \cup {"RESET"}, !.sie = "none"], "none", {"RESET"})
         /\ OnWire(s, [s EXCEPT !.fg = @ \cup {"SUSPEND"}], s.sie, {"SUSPEND"})
<1>1. OnWire(s, [s EXCEPT !.sie = sie], sie, {})
  BY Zenon DEF OnWire, Device, SameEps, SameBusButSie
<1>2. OnWire(s, [s EXCEPT !.fg = @ \cup {"RESET"}, !.sie = "none"], "none", {"RESET"})
  <2>1. PICK fg \in SUBSET Flag : fg = s.fg \cup {"RESET"}
    BY Fields, Zenon DEF Flag
  <2>2. PICK t : t = [s EXCEPT !.fg = fg, !.sie = "none"]
    BY Zenon
  <2>3. t = [s EXCEPT !.fg = @ \cup {"RESET"}, !.sie = "none"]
    BY <2>1, <2>2, Zenon
  <2>4. OnWire(s, t, "none", {"RESET"})
    BY ONLY s \in Device, fg \in SUBSET Flag, <2>1, <2>2, ZenonT(60)
    DEF OnWire, Device, SameEps, SameBusButSie
  <2> QED BY <2>3, <2>4, Zenon
<1>3. OnWire(s, [s EXCEPT !.fg = @ \cup {"SUSPEND"}], s.sie, {"SUSPEND"})
  <2>1. PICK fg \in SUBSET Flag : fg = s.fg \cup {"SUSPEND"}
    BY Fields, Zenon DEF Flag
  <2>2. PICK t : t = [s EXCEPT !.fg = fg]
    BY Zenon
  <2>3. t = [s EXCEPT !.fg = @ \cup {"SUSPEND"}]
    BY <2>1, <2>2, Zenon
  <2>4. OnWire(s, t, s.sie, {"SUSPEND"})
    BY ONLY s \in Device, fg \in SUBSET Flag, <2>1, <2>2, ZenonT(60)
    DEF OnWire, Device, SameEps, SameBusButSie
  <2> QED BY <2>3, <2>4, Zenon
<1> QED BY <1>1, <1>2, <1>3, Zenon

\* The controller latches the outcome of a transaction.
LEMMA LatchEffect ==
  ASSUME NEW s \in Device, NEW flags \in SUBSET Flag, NEW token \in Latch
  PROVE  LatchedIs(s, Latched(s, flags, token), flags, token)
<1>1. PICK fg \in SUBSET Flag : fg = s.fg \cup flags
  BY Fields, Zenon
<1>2. PICK un : un = [e \in Eps |-> s.unheard[e] /\ e # token.ep]
  BY Zenon
<1>3. un \in [Eps -> BOOLEAN]
  BY <1>2, Zenon
<1>4. \A e \in Eps : un[e] <=> s.unheard[e] /\ e # token.ep
  BY <1>2, Zenon
<1>5. PICK t : t = [s EXCEPT !.sie = "none", !.fg = fg, !.st = token, !.unheard = un]
  BY Zenon
<1>6. Latched(s, flags, token) = t
  BY <1>1, <1>2, <1>5, Zenon DEF Latched
<1>7. /\ t \in Device /\ SameEpsButUnheard(s, t) /\ SameBusButSie(s, t)
      /\ t.sie = "none" /\ t.fg = fg /\ t.st = token /\ t.unheard = un
  BY ONLY s \in Device, fg \in SUBSET Flag, token \in Latch, <1>3, <1>5, ZenonT(60)
  DEF Device, SameEpsButUnheard, SameBusButSie
<1> QED BY <1>1, <1>4, <1>6, <1>7, Zenon DEF LatchedIs

\* The host takes an IN packet.
LEMMA TakenEffect ==
  ASSUME dev \in Device, NEW e \in Eps
  PROVE  TakenIs(dev, InTaken(e), e)
<1>1. CASE ~(host.tog[e] = dev.ctl[e].t /\ dev.q[e] # <<>>)
  BY <1>1, Zenon DEF InTaken, TakenIs
<1>2. CASE host.tog[e] = dev.ctl[e].t /\ dev.q[e] # <<>>
  <2>1. dev.q[e] \in Seq(Requests) /\ dev.in_length[e] \in 0..MPS
    BY Fields, Zenon
  <2>2. PICK h \in Requests : h = Head(dev.q[e]) /\ h = dev.q[e][1]
    BY <1>2, <2>1, First, Zenon
  <2>3. PICK sent \in Nat, pk \in Nat : sent = h.sent + dev.in_length[e] /\ pk = h.pk + 1
    <3>1. h.sent \in Nat /\ h.pk \in Nat /\ dev.in_length[e] \in Nat
      BY <2>1 DEF Requests, MPS
    <3> QED BY <3>1
  <2>4. PICK r : r = [h EXCEPT !.sent = sent, !.pk = pk]
    BY Zenon
  <2>5. TakenBy(h, r) /\ r \in Requests
    BY ONLY <2>4, h \in Requests, sent \in Nat, pk \in Nat, Zenon DEF Requests, TakenBy
  <2>6. PICK t : t = [dev EXCEPT !.q = [dev.q EXCEPT ![e] = [dev.q[e] EXCEPT ![1] = r]]]
    BY Zenon
  <2>7. InTaken(e) = t
    <3>1. Counted(h, dev.in_length[e]) = r
      <4>1. PICK r1 : r1 = [h EXCEPT !.sent = sent]
        BY Zenon
      <4>2. r1.pk = h.pk
        BY ONLY <4>1, h \in Requests, Zenon DEF Requests
      <4>3. r = [r1 EXCEPT !.pk = pk]
        BY <2>4, <4>1, Zenon
      <4>4. [h EXCEPT !.sent = @ + dev.in_length[e]] = r1
        BY <2>3, <4>1, Zenon
      <4> QED BY <2>3, <4>2, <4>3, <4>4, Zenon DEF Counted
    <3>2. InTaken(e) = [dev EXCEPT !.q[e][1] = r]
      BY <1>2, <2>2, <3>1, Zenon DEF InTaken
    <3> QED BY <3>2, <2>6, Zenon
  <2>8. Replaced(dev, t, e, r)
    BY <1>2, <2>5, <2>6, ReplaceEffect, Zenon
  <2> QED BY <1>2, <2>2, <2>5, <2>7, <2>8, Zenon DEF TakenIs
<1> QED BY <1>1, <1>2, Zenon

\* The acknowledgement of an IN packet is lost.
LEMMA UnheardEffect ==
  ASSUME NEW s \in Device, NEW e \in Eps
  PROVE  UnheardIs(s, [s EXCEPT !.sie = "none", !.unheard[e] = TRUE], e)
<1>1. PICK un \in [Eps -> BOOLEAN] : un = [s.unheard EXCEPT ![e] = TRUE]
  BY Fields, Zenon
<1>2. un[e] /\ \A g \in Eps \ {e} : un[g] = s.unheard[g]
  BY <1>1, Fields, Zenon
<1>3. PICK t : t = [s EXCEPT !.sie = "none", !.unheard = un]
  BY Zenon
<1>4. t = [s EXCEPT !.sie = "none", !.unheard[e] = TRUE]
  BY <1>1, <1>3, Zenon
<1>5. /\ t \in Device /\ SameEpsButUnheard(s, t) /\ SameBusButSie(s, t) /\ SameLatch(s, t)
      /\ t.sie = "none" /\ t.unheard = un
  BY ONLY s \in Device, un \in [Eps -> BOOLEAN], <1>3, Zenon
  DEF Device, SameEpsButUnheard, SameBusButSie, SameLatch
<1> QED BY <1>2, <1>4, <1>5, Zenon DEF UnheardIs

\* The copy into the packet buffer of EP0.
LEMMA CopyEffect ==
  ASSUME NEW s \in Device, s.q["in0"] # <<>>
  PROVE  CopiedIs(s, [Stage(s, "in0") EXCEPT !.copying = FALSE])
<1>1. "in0" \in Eps
  BY Zenon DEF Eps, Control
<1>2. PICK m : m = Stage(s, "in0") /\ Staged(s, m, "in0")
  BY <1>1, StageEffect, Zenon
<1>3. m \in Device
  BY <1>2, Zenon DEF Staged
<1>4. PICK t : t = [m EXCEPT !.copying = FALSE]
  BY Zenon
<1>5. t \in Device /\ SameEps(m, t) /\ SameLatch(m, t) /\ SameBusButCopying(m, t) /\ ~t.copying
  BY ONLY <1>3, <1>4, ZenonT(60) DEF Device, SameEps, SameLatch, SameBusButCopying
<1> QED BY <1>2, <1>4, <1>5, Zenon DEF CopiedIs

\* A request enters its queue.
LEMMA PutEffect ==
  ASSUME NEW s \in Device, NEW e \in Eps, NEW r \in Requests
  PROVE  PutIs(s, [s EXCEPT !.q[e] = Append(@, r)], e, r)
<1>1. PICK sq \in Seq(Requests) : sq = Append(s.q[e], r)
  <2>1. s.q[e] \in Seq(Requests)
    BY Fields, Zenon
  <2>2. Append(s.q[e], r) \in Seq(Requests)
    BY <2>1
  <2> QED BY <2>2, Zenon
<1>2. PICK q \in [Eps -> Seq(Requests)] : q = [s.q EXCEPT ![e] = sq]
  BY Fields, Zenon
<1>3. PICK t : t = [s EXCEPT !.q = q]
  BY Zenon
<1>4. t = [s EXCEPT !.q[e] = Append(@, r)]
  BY <1>1, <1>2, <1>3, Zenon
<1>5. /\ t \in Device /\ SameBus(s, t) /\ SameLatch(s, t) /\ t.ctl = s.ctl
      /\ t.ep = s.ep /\ t.q = q /\ t.in_length = s.in_length /\ t.done = s.done
      /\ t.skew = s.skew /\ t.unheard = s.unheard /\ t.refused = s.refused
  BY ONLY <1>3, s \in Device, q \in [Eps -> Seq(Requests)], Zenon DEF Device, SameBus, SameLatch
<1>6. q[e] = sq /\ \A g \in Eps \ {e} : q[g] = s.q[g]
  BY <1>2, Fields, Zenon
<1> QED BY <1>1, <1>4, <1>5, <1>6, Zenon DEF PutIs, OneEp, Local, SameMarks, SameSwitches

\* The SETUP kept for the stack is handed over.
LEMMA HandOverEffect ==
  ASSUME NEW s \in Device, NEW o \in Return
  PROVE  HandedOver(s, [s EXCEPT !.pending = FALSE, !.valid = FALSE, !.taken = TRUE,
                                 !.done = @ \cup {o}], o)
<1>1. PICK d \in SUBSET Return : d = s.done \cup {o}
  BY Fields, Zenon
<1>2. PICK t : t = [s EXCEPT !.pending = FALSE, !.valid = FALSE, !.taken = TRUE, !.done = d]
  BY Zenon
<1>3. t = [s EXCEPT !.pending = FALSE, !.valid = FALSE, !.taken = TRUE, !.done = @ \cup {o}]
  BY <1>1, <1>2, Zenon
<1>4. t \in Device
  BY ONLY <1>2, s \in Device, d \in SUBSET Return, ZenonT(60) DEF Device
<1>5. /\ SameLatch(s, t) /\ ~t.pending /\ t.taken
      /\ t.running = s.running /\ t.on = s.on /\ t.sie = s.sie /\ t.mode = s.mode
      /\ t.copying = s.copying
      /\ t.ep = s.ep /\ t.ctl = s.ctl /\ t.q = s.q /\ t.in_length = s.in_length
      /\ t.skew = s.skew /\ t.unheard = s.unheard /\ t.refused = s.refused /\ t.done = d
  BY ONLY <1>2, s \in Device, Zenon DEF Device, SameLatch
<1> QED BY <1>1, <1>3, <1>4, <1>5, Zenon DEF HandedOver

(***************************************************************************)
(* The core of the invariant: what the device record always satisfies.     *)
(***************************************************************************)

(***************************************************************************)
(* The state invariant every other one rests on, and what each action does *)
(* to the device record in a state that satisfies it.                      *)
(***************************************************************************)

\* udc_wch_init, with and without a failure.
LEMMA DoInit ==
  ASSUME Base, NEW fault, ApiInit(fault)
  PROVE  /\ stack = "off" /\ ~dev.copying /\ ~dev.running
         /\ dev' = dev \/ Prepared0(dev, dev')
<1>1. stack = "off" /\ ~dev.copying /\ ~dev.running
  BY Zenon DEF ApiInit, MutexFree, Base, Mutex
<1>2. \A g \in Eps : dev.q[g] = <<>>
  BY <1>1, Zenon DEF Base, DevCore
<1>3. dev \in Device
  BY Zenon DEF Base
<1>4. Prepared0(dev, wch_init(dev, fault))
  BY <1>2, <1>3, InitEffect, Zenon
<1>5. dev' = wch_init(dev, fault) \/ dev' = dev
  BY Zenon DEF ApiInit
<1> QED BY <1>1, <1>4, <1>5, Zenon

\* udc_wch_enable, udc_wch_disable, udc_wch_shutdown.
LEMMA DoEnable ==
  ASSUME Base, ApiEnable
  PROVE  stack = "init" /\ ~dev.copying /\ ~dev.running /\ Attached(dev, dev')
<1>1. stack = "init" /\ ~dev.copying /\ ~dev.running
  BY Zenon DEF ApiEnable, MutexFree, Base, Mutex
<1>2. Attached(dev, wch_enable(dev))
  BY EnableEffect, Zenon DEF Base
<1>3. dev' = wch_enable(dev)
  BY Zenon DEF ApiEnable
<1> QED BY <1>1, <1>2, <1>3, Zenon

\* The same, for the driver stopped.
LEMMA DoDown ==
  ASSUME Base, ApiDisable \/ ApiShutdown \/ WorkOverflow
  PROVE  ~dev.copying /\ Down(dev, dev')
<1>1. ~dev.copying
  BY Zenon DEF ApiDisable, ApiShutdown, WorkOverflow, Call, MutexFree, Base, Mutex
<1>2. Down(dev, wch_disable(dev)) /\ Down(dev, wch_shutdown(dev))
  BY DisableEffect, ShutdownEffect, Zenon DEF Base
<1>3. dev' = wch_disable(dev) \/ dev' = wch_shutdown(dev)
  BY Zenon DEF ApiDisable, ApiShutdown, WorkOverflow
<1> QED BY <1>1, <1>2, <1>3, Zenon

\* udc_wch_ep_enable.
LEMMA DoEpEnable ==
  ASSUME Base, NEW e \in Eps, ApiEpEnable(e)
  PROVE  ~dev.copying /\ stack = "on" /\ e \in Bulk /\ ~dev.ep[e].enabled /\ EpEnabled(dev, dev', e)
<1>1. ~dev.copying /\ stack = "on" /\ e \in Bulk /\ ~dev.ep[e].enabled
  BY Zenon DEF ApiEpEnable, MutexFree
<1>2. EpEnabled(dev, wch_ep_enable(dev, e), e)
  BY EpEnableEffect, Zenon DEF Base
<1>3. dev' = wch_ep_enable(dev, e)
  BY Zenon DEF ApiEpEnable
<1> QED BY <1>1, <1>2, <1>3, Zenon

\* udc_wch_ep_disable.
LEMMA DoEpDisable ==
  ASSUME Base, NEW e \in Eps, ApiEpDisable(e)
  PROVE  /\ ~dev.copying /\ stack = "on" /\ e \in Bulk
         /\ \/ SieFree(dev) /\ EpDisabled(dev, dev', e)
            \/ ~SieFree(dev) /\ RefusedIs(dev, dev', e)
<1>1. ~dev.copying /\ stack = "on" /\ e \in Bulk
  BY Zenon DEF ApiEpDisable, Call, MutexFree
<1>2. EpDisabled(dev, wch_ep_disable(dev, e), e) /\ RefusedIs(dev, Refused(dev, e), e)
  BY EpDisableEffect, RefusedEffect, Zenon DEF Base
<1>3. \/ SieFree(dev) /\ dev' = wch_ep_disable(dev, e)
      \/ ~SieFree(dev) /\ dev' = Refused(dev, e)
  BY Zenon DEF ApiEpDisable
<1> QED BY <1>1, <1>2, <1>3, Zenon

\* udc_wch_ep_dequeue.
LEMMA DoDequeue ==
  ASSUME Base, NEW e \in Eps, ApiDequeue(e)
  PROVE  /\ ~dev.copying /\ stack = "on"
         /\ \/ SieFree(dev) /\ Dequeued(dev, dev', e)
            \/ ~SieFree(dev) /\ RefusedIs(dev, dev', e)
<1>1. ~dev.copying /\ stack = "on"
  BY Zenon DEF ApiDequeue, Call, MutexFree
<1>2. Dequeued(dev, wch_dequeue(dev, e), e) /\ RefusedIs(dev, Refused(dev, e), e)
  BY DequeueEffect, RefusedEffect, Zenon DEF Base
<1>3. \/ SieFree(dev) /\ dev' = wch_dequeue(dev, e)
      \/ ~SieFree(dev) /\ dev' = Refused(dev, e)
  BY Zenon DEF ApiDequeue
<1> QED BY <1>1, <1>2, <1>3, Zenon

\* udc_wch_ep_set_halt.
LEMMA DoHalt ==
  ASSUME Base, NEW e \in Eps, ApiHalt(e)
  PROVE  /\ ~dev.copying /\ stack = "on" /\ "halt" \in Ops
         /\ \/ SieFree(dev) /\ Halted(dev, dev', e)
            \/ ~SieFree(dev) /\ RefusedIs(dev, dev', e)
<1>1. ~dev.copying /\ stack = "on" /\ "halt" \in Ops
  BY Zenon DEF ApiHalt, Call, MutexFree
<1>2. Halted(dev, wch_halt(dev, e), e) /\ RefusedIs(dev, Refused(dev, e), e)
  BY HaltEffect, RefusedEffect, Zenon DEF Base, DevCore
<1>3. \/ SieFree(dev) /\ dev' = wch_halt(dev, e)
      \/ ~SieFree(dev) /\ dev' = Refused(dev, e)
  BY Zenon DEF ApiHalt
<1> QED BY <1>1, <1>2, <1>3, Zenon

\* udc_wch_ep_clear_halt.
LEMMA DoClearHalt ==
  ASSUME Base, NEW e \in Eps, ApiClearHalt(e)
  PROVE  /\ ~dev.copying /\ stack = "on" /\ e \in Bulk
         /\ ~dev.ep[e].halted => "clear any" \in Ops
         /\ dev.sie # e /\ ~LatchedFor(dev, e) /\ HaltCleared(dev, dev', e)
<1>1. /\ ~dev.copying /\ stack = "on" /\ e \in Bulk
      /\ ~dev.ep[e].halted => "clear any" \in Ops
      /\ dev.sie # e /\ ~LatchedFor(dev, e)
  BY Zenon DEF ApiClearHalt, MutexFree, LatchedFor
<1>2. HaltCleared(dev, wch_clear_halt(dev, e), e)
  BY ClearHaltEffect, Zenon DEF Base
<1>3. dev' = wch_clear_halt(dev, e)
  BY Zenon DEF ApiClearHalt
<1> QED BY <1>1, <1>2, <1>3, Zenon

\* The request the stack hands over.
LEMMA RequestType ==
  ASSUME Base, spent.req < MaxReq, NEW setup \in BOOLEAN, NEW size \in Nat, NEW zlp \in BOOLEAN
  PROVE  /\ Request(setup, size, zlp) \in Requests
         /\ Request(setup, size, zlp).id = spent.req + 1
         /\ Request(setup, size, zlp).setup = setup /\ ~Request(setup, size, zlp).bad
<1>1. PICK n \in 1..MaxReq : n = spent.req + 1
  BY UdcConstants DEF Base, Spent
<1> QED BY <1>1, Zenon DEF Request, Requests

\* udc_wch_ep_enqueue of a data request.
LEMMA DoEnqueue ==
  ASSUME Base, NEW e \in Eps, NEW size \in Sizes, NEW zlp \in BOOLEAN, ApiEnqueue(e, size, zlp)
  PROVE  /\ ~dev.copying /\ stack = "on" /\ dev.running /\ spent.req < MaxReq
         /\ e \in Control => dev.taken
         /\ \E r \in Requests : /\ r.id = spent.req + 1 /\ ~r.setup /\ ~r.bad
                                /\ Enqueued(dev, dev', e, r)
<1>1. /\ ~dev.copying /\ stack = "on" /\ dev.running /\ spent.req < MaxReq
      /\ e \in Control => dev.taken
  BY Zenon DEF ApiEnqueue, MutexFree
<1>2. PICK r \in Requests : r = Request(FALSE, size, zlp) /\ r.id = spent.req + 1 /\ ~r.setup /\ ~r.bad
  <2>1. size \in Nat /\ FALSE \in BOOLEAN
    BY UdcConstants, Zenon
  <2> QED BY <1>1, <2>1, RequestType, Zenon
<1>3. PICK m : m = [dev EXCEPT !.q[e] = Append(@, r)]
  BY Zenon
<1>4. PutIs(dev, m, e, r)
  BY <1>3, PutEffect, Zenon DEF Base
<1>5. m \in Device
  BY <1>4, Zenon DEF PutIs, OneEp
<1>6. CheckedIs(m, KickChecked(m)) /\ Kicked(m, wch_kick(m, e), e)
  BY <1>5, CheckEffect, KickEffect, Zenon
<1>7. dev' = IF e = "in0" THEN KickChecked(m) ELSE wch_kick(m, e)
  BY <1>2, <1>3, Zenon DEF ApiEnqueue
<1>8. Enqueued(dev, dev', e, r)
  BY <1>4, <1>6, <1>7, Zenon DEF Enqueued
<1> QED BY <1>1, <1>2, <1>8, Zenon

\* udc_setup enqueue: handed over at once, or posted.
LEMMA DoEnqueueSetup ==
  ASSUME Base, ApiEnqueueSetup
  PROVE  /\ ~dev.copying /\ stack = "on" /\ dev.running /\ spent.req < MaxReq
         /\ IF dev.pending
            THEN \E o \in Return : o.id = spent.req + 1 /\ o.clean /\ HandedOver(dev, dev', o)
            ELSE \E r \in Requests : /\ r.id = spent.req + 1 /\ r.setup /\ ~r.bad
                                     /\ Enqueued(dev, dev', "out0", r)
<1>1. ~dev.copying /\ stack = "on" /\ dev.running /\ spent.req < MaxReq
  BY Zenon DEF ApiEnqueueSetup, Call, MutexFree
<1>2. PICK r \in Requests : r = Request(TRUE, 0, FALSE) /\ r.id = spent.req + 1 /\ r.setup /\ ~r.bad
  BY <1>1, RequestType, Zenon
<1>3. "out0" \in Eps /\ "out0" # "in0"
  BY Zenon DEF Eps, Control
<1>4. CASE dev.pending
  <2>1. PICK err \in Err : err = IF dev.valid THEN "OK" ELSE "EPROTO"
    BY Zenon DEF Err
  <2>2. PICK o \in Return : o = Outcome(dev, "out0", r, err) /\ o.id = r.id /\ (o.clean <=> ~r.bad)
    BY <1>3, OutcomeType, Zenon DEF Base
  <2>3. dev' = [dev EXCEPT !.pending = FALSE, !.valid = FALSE, !.taken = TRUE,
                           !.done = @ \cup {o}]
    BY <1>2, <1>4, <2>1, <2>2, Zenon DEF ApiEnqueueSetup
  <2>4. HandedOver(dev, dev', o)
    BY <2>3, HandOverEffect, Zenon DEF Base
  <2> QED BY <1>1, <1>2, <1>4, <2>2, <2>4, Zenon
<1>5. CASE ~dev.pending
  <2>1. PICK m : m = [dev EXCEPT !.q["out0"] = Append(@, r)]
    BY Zenon
  <2>2. PutIs(dev, m, "out0", r)
    BY <1>3, <2>1, PutEffect, Zenon DEF Base
  <2>3. m \in Device
    BY <2>2, Zenon DEF PutIs, OneEp
  <2>4. Kicked(m, wch_kick(m, "out0"), "out0")
    BY <1>3, <2>3, KickEffect, Zenon
  <2>5. dev' = wch_kick(m, "out0")
    BY <1>2, <1>5, <2>1, Zenon DEF ApiEnqueueSetup
  <2>6. Enqueued(dev, dev', "out0", r)
    BY <1>3, <2>2, <2>4, <2>5, Zenon DEF Enqueued
  <2> QED BY <1>1, <1>2, <1>5, <2>6, Zenon
<1> QED BY <1>4, <1>5, Zenon

\* Steps aside: the address, the interrupt mask, the suspend event.
LEMMA DoAside ==
  ASSUME Base, (\E a \in 0..1 : wch_address(a)) \/ wch_isr \/ WorkSuspend \/ WorkUnmask
  PROVE  Aside(dev, dev')
<1>1. \A a \in 0..1 : a \in Nat
  OBVIOUS
<1>2. dev \in Device /\ host.suspended \in BOOLEAN
  BY Zenon DEF Base, Host
<1>3. ASSUME NEW a \in 0..1, wch_address(a) PROVE Aside(dev, dev')
  <2>1. dev' = [dev EXCEPT !.addr = a]
    BY <1>3, Zenon DEF wch_address
  <2> QED BY <1>1, <1>2, <2>1, AsideSteps, Zenon
<1>4. CASE wch_isr
  <2>1. dev' = [dev EXCEPT !.en = FALSE]
    BY <1>4, Zenon DEF wch_isr
  <2> QED BY <1>2, <2>1, AsideSteps, Zenon
<1>5. CASE WorkUnmask
  <2>1. dev' = [dev EXCEPT !.en = TRUE]
    BY <1>5, Zenon DEF WorkUnmask
  <2> QED BY <1>2, <2>1, AsideSteps, Zenon
<1>6. CASE WorkSuspend
  <2>1. PICK b \in BOOLEAN : b = host.suspended
    BY <1>2, Zenon
  <2>2. dev' = [dev EXCEPT !.suspended = b]
    BY <1>6, <2>1, Zenon DEF WorkSuspend
  <2> QED BY <1>2, <2>2, AsideSteps, Zenon
<1> QED BY <1>3, <1>4, <1>5, <1>6, Zenon

\* The copy of wch_kick.
LEMMA DoCopy ==
  ASSUME Base, KickCopy
  PROVE  dev.copying /\ CopiedIs(dev, dev')
<1>1. dev.copying /\ dev.q["in0"] # <<>>
  BY Zenon DEF KickCopy, Base, DevCore, CopySound
<1>2. CopiedIs(dev, [Stage(dev, "in0") EXCEPT !.copying = FALSE])
  BY <1>1, CopyEffect, Zenon DEF Base
<1> QED BY <1>1, <1>2, Zenon DEF KickCopy

\* The worker handles a bus reset.
LEMMA DoReset ==
  ASSUME Base, WorkReset
  PROVE  ~dev.copying /\ ResetDone(dev, dev', work.flags)
<1>1. ~dev.copying
  BY Zenon DEF WorkReset, Base, Mutex
<1>2. PICK m : m = wch_reset(dev) /\ AllReset(dev, m)
  BY ResetEffect, Zenon DEF Base
<1>3. m \in Device
  BY <1>2, Zenon DEF AllReset
<1>4. PICK flags : flags = work.flags
  BY Zenon
<1>5. Acked(m, wch_ack(m, flags), flags)
  BY <1>3, AckEffect, Zenon
<1>6. dev' = wch_ack(m, flags)
  BY <1>2, <1>4, Zenon DEF WorkReset
<1> QED BY <1>1, <1>2, <1>4, <1>5, <1>6, Zenon DEF ResetDone

\* The worker handles a latched transaction, if it read one.
LEMMA DoTransfer ==
  ASSUME Base, WorkTransfer
  PROVE  /\ ~dev.copying /\ work.pc = "handle" /\ work.flags \cap {"RESET", "FIFO_OV"} = {}
         /\ IF "TRANSFER" \in work.flags
            THEN /\ "TRANSFER" \in dev.fg /\ dev.st.ep \in Eps \cup {"setup"}
                 /\ Serviced(dev, dev')
            ELSE dev' = dev
<1>1. ~dev.copying /\ work.pc = "handle" /\ work.flags \cap {"RESET", "FIFO_OV"} = {}
  BY Zenon DEF WorkTransfer, Base, Mutex
<1>2. CASE "TRANSFER" \notin work.flags
  BY <1>1, <1>2, Zenon DEF WorkTransfer
<1>3. CASE "TRANSFER" \in work.flags
  <2>1. "TRANSFER" \in dev.fg /\ dev.st.ep \in Eps \cup {"setup"}
    <3>1. "TRANSFER" \in dev.fg
      BY <1>1, <1>3, Zenon DEF Base, Mutex
    <3>2. dev.st.ep # "none" /\ dev.st \in Latch
      BY <3>1, Fields, Zenon DEF Base, DevCore, WireCore
    <3> QED BY <3>1, <3>2, Zenon DEF Latch
  <2>2. PICK m : m = wch_transfer(dev)
    BY Zenon
  <2>3. m \in Device /\ IF dev.st.ep = "setup" THEN Superseded(dev, m) ELSE DataTransferred(dev, m, dev.st.ep)
    <3>1. CASE dev.st.ep = "setup"
      <4>1. Superseded(dev, m)
        BY <2>2, <3>1, TransferSetupEffect, Zenon DEF Base, wch_transfer
      <4> QED BY <3>1, <4>1, Zenon DEF Superseded
    <3>2. CASE dev.st.ep # "setup"
      <4>1. PICK e \in Eps : e = dev.st.ep
        BY <2>1, <3>2, Zenon
      <4>2. DataTransferred(dev, m, e)
        BY <2>2, <4>1, DataTransferEffect, Zenon DEF Base, DevCore
      <4> QED BY <3>2, <4>1, <4>2, Zenon DEF DataTransferred, OneEp
    <3> QED BY <3>1, <3>2, Zenon
  <2>4. Acked(m, wch_ack(m, {"TRANSFER"}), {"TRANSFER"})
    BY <2>3, AckEffect, Zenon
  <2>5. dev' = wch_ack(m, {"TRANSFER"})
    BY <1>3, <2>2, Zenon DEF WorkTransfer
  <2> QED BY <1>1, <1>3, <2>1, <2>3, <2>4, <2>5, Zenon DEF Serviced
<1> QED BY <1>2, <1>3, Zenon

\* The worker acknowledges a suspend event, and restarts what waits.
LEMMA DoSuspendAck ==
  ASSUME Base, WorkSuspendAck
  PROVE  Acked(dev, dev', {"SUSPEND"})
<1>1. Acked(dev, wch_ack(dev, {"SUSPEND"}), {"SUSPEND"})
  BY AckEffect, Zenon DEF Base
<1> QED BY <1>1, Zenon DEF WorkSuspendAck

\* The same, for the kicks.
LEMMA DoKick ==
  ASSUME Base, WorkKick
  PROVE  ~dev.copying /\ AllKicked(dev, dev')
<1>1. ~dev.copying
  BY Zenon DEF WorkKick, Base, Mutex
<1>2. "out0" \in Eps /\ "in1" \in Eps /\ "out2" \in Eps
  BY Zenon DEF Eps, Control, Bulk
<1>0. \A s \in Device, e \in Eps : Kicked(s, wch_kick(s, e), e) /\ wch_kick(s, e) \in Device
  BY KickEffect, Zenon DEF Kicked, Staged
<1>3. PICK a : a = wch_kick(dev, "out0") /\ Kicked(dev, a, "out0") /\ a \in Device
  BY <1>0, <1>2, Zenon DEF Base
<1>4. PICK b : b = wch_kick(a, "in1") /\ Kicked(a, b, "in1") /\ b \in Device
  BY <1>0, <1>2, <1>3, Zenon
<1>5. PICK c : c = wch_kick(b, "out2") /\ Kicked(b, c, "out2") /\ c \in Device
  BY <1>0, <1>2, <1>4, Zenon
<1>6. CheckedIs(c, KickChecked(c))
  BY <1>5, CheckEffect, Zenon
<1>7. dev' = KickChecked(c)
  BY <1>3, <1>4, <1>5, Zenon DEF WorkKick
<1> QED BY <1>1, <1>3, <1>4, <1>5, <1>6, <1>7, Zenon DEF AllKicked

\* The controller takes a token, or the transaction fails.
LEMMA DoToken ==
  ASSUME Base, NEW tk \in Eps \cup {"setup"}, Token(tk)
  PROVE  /\ dev.on /\ dev.sie = "none" /\ "TRANSFER" \notin dev.fg
         /\ \/ tk = "setup"
            \/ tk \in Control /\ host.setup /\ dev.ctl[tk].r = "ACK"
            \/ tk \in Bulk /\ tk \in host.conf /\ tk \in dev.mode /\ dev.ctl[tk].r = "ACK"
         /\ OnWire(dev, dev', tk, {})
<1>1. OnWire(dev, [dev EXCEPT !.sie = tk], tk, {})
  BY WireSteps, Zenon DEF Base
<1> QED BY <1>1, Zenon DEF Token

\* The same, for the transaction that fails, and the bus events.
LEMMA DoBus ==
  ASSUME Base
  PROVE  /\ Lost => dev.sie # "none" /\ OnWire(dev, dev', "none", {})
         /\ BusReset => dev.on /\ OnWire(dev, dev', "none", {"RESET"})
         /\ BusSuspend => dev.on /\ dev.sie = "none" /\ OnWire(dev, dev', "none", {"SUSPEND"})
<1>1. "none" \in Eps \cup {"none", "setup"} /\ dev \in Device
  BY Zenon DEF Base
<1>2. /\ OnWire(dev, [dev EXCEPT !.sie = "none"], "none", {})
      /\ OnWire(dev, [dev EXCEPT !.fg = @ \cup {"RESET"}, !.sie = "none"], "none", {"RESET"})
      /\ OnWire(dev, [dev EXCEPT !.fg = @ \cup {"SUSPEND"}], dev.sie, {"SUSPEND"})
  BY <1>1, WireSteps, Zenon
<1>3. Lost => dev.sie # "none" /\ OnWire(dev, dev', "none", {})
  BY <1>2, Zenon DEF Lost
<1>4. BusReset => dev.on /\ OnWire(dev, dev', "none", {"RESET"})
  BY <1>2, Zenon DEF BusReset
<1>5. BusSuspend => dev.on /\ dev.sie = "none" /\ OnWire(dev, dev', "none", {"SUSPEND"})
  BY <1>2, Zenon DEF BusSuspend
<1> QED BY <1>3, <1>4, <1>5, Zenon

\* The number of the request at the head.
LEMMA HeadIdType ==
  ASSUME Base, NEW e \in Eps
  PROVE  HeadId(e) \in 0..MaxReq /\ (dev.q[e] # <<>> => HeadId(e) = Head(dev.q[e]).id)
<1>1. CASE dev.q[e] = <<>>
  BY <1>1, UdcConstants DEF HeadId
<1>2. CASE dev.q[e] # <<>>
  <2>1. dev.q[e] \in Seq(Requests)
    BY Fields, Zenon DEF Base
  <2>2. Head(dev.q[e]) \in Requests
    BY <1>2, <2>1, First, Zenon
  <2>3. Head(dev.q[e]).id \in 1..MaxReq
    BY <2>2, Zenon DEF Requests
  <2> QED BY <1>2, <2>3 DEF HeadId
<1> QED BY <1>1, <1>2, Zenon

\* An IN transaction ends.
LEMMA DoIn ==
  ASSUME Base, NEW e \in Eps, InAcked(e)
  PROVE  dev.sie = e /\ IsIn(e) /\ InDone(dev, dev', e)
<1>1. dev.sie = e /\ IsIn(e)
  BY Zenon DEF InAcked
<1>2. PICK m : m = InTaken(e) /\ TakenIs(dev, m, e)
  BY TakenEffect, Zenon DEF Base
<1>3. m \in Device
  BY <1>2, Zenon DEF TakenIs, Replaced, OneEp, Base
<1>4. PICK n \in 0..MaxReq : n = HeadId(e) /\ (dev.q[e] # <<>> => n = Head(dev.q[e]).id)
  BY HeadIdType, Zenon
<1>5. PICK k : k = [NoToken EXCEPT !.ep = e, !.ok = TRUE, !.id = n]
  BY Zenon
<1>6. k \in Latch /\ k.ep = e /\ k.id = n /\ ~k.bad
  BY <1>5, Zenon DEF NoToken, Latch
<1>7. CASE dev' = Latched(m, {"TRANSFER"}, k)
  <2>1. {"TRANSFER"} \in SUBSET Flag
    BY Zenon DEF Flag
  <2>2. LatchedIs(m, dev', {"TRANSFER"}, k)
    BY <1>3, <1>6, <1>7, <2>1, LatchEffect, Zenon
  <2> QED BY <1>1, <1>2, <1>4, <1>6, <2>2, Zenon DEF InDone, AboutHead
<1>8. CASE dev' = [m EXCEPT !.sie = "none", !.unheard[e] = TRUE]
  <2>1. UnheardIs(m, dev', e)
    BY <1>3, <1>8, UnheardEffect, Zenon
  <2> QED BY <1>1, <1>2, <2>1, Zenon DEF InDone
<1>9. \/ dev' = Latched(m, {"TRANSFER"}, k)
      \/ dev' = [m EXCEPT !.sie = "none", !.unheard[e] = TRUE]
  BY <1>2, <1>4, <1>5, Zenon DEF InAcked
<1> QED BY <1>7, <1>8, <1>9, Zenon

\* An OUT transaction ends.
LEMMA DoOut ==
  ASSUME Base, NEW e \in Eps, NEW len \in Packets, NEW heard \in BOOLEAN,
         NEW flags \in SUBSET Flag, OutArrives(e, len, heard, flags)
  PROVE  dev.sie = e /\ ~IsIn(e) /\ OutDone(dev, dev', e, flags)
<1>1. dev.sie = e /\ ~IsIn(e)
  BY Zenon DEF OutArrives, IsIn
<1>2. PICK n \in 0..MaxReq : n = HeadId(e) /\ (dev.q[e] # <<>> => n = Head(dev.q[e]).id)
  BY HeadIdType, Zenon
<1>3. PICK k : k = [ep |-> e, ok |-> host.tog[e] = dev.ctl[e].t, len |-> len, id |-> n,
                    fresh |-> ~host.resend[e], bad |-> "FIFO_OV" \in flags]
  BY Zenon
<1>4. k \in Latch /\ k.ep = e /\ k.id = n /\ (k.bad <=> "FIFO_OV" \in flags)
  <2>1. len \in Nat
    BY UdcConstants, Zenon
  <2>2. PICK ok \in BOOLEAN, fresh \in BOOLEAN, bad \in BOOLEAN :
          /\ ok = (host.tog[e] = dev.ctl[e].t) /\ fresh = ~host.resend[e]
          /\ bad = ("FIFO_OV" \in flags)
    <3>1. /\ (host.tog[e] = dev.ctl[e].t) \in BOOLEAN /\ (~host.resend[e]) \in BOOLEAN
          /\ ("FIFO_OV" \in flags) \in BOOLEAN
      OBVIOUS
    <3> WITNESS (host.tog[e] = dev.ctl[e].t) \in BOOLEAN, (~host.resend[e]) \in BOOLEAN,
                ("FIFO_OV" \in flags) \in BOOLEAN
    <3> QED BY Zenon
  <2>3. k = [ep |-> e, ok |-> ok, len |-> len, id |-> n, fresh |-> fresh, bad |-> bad]
    BY <1>3, <2>2, Zenon
  <2>4. k \in Latch /\ k.ep = e /\ k.id = n /\ k.bad = bad
    BY ONLY <2>1, <2>3, e \in Eps, ok \in BOOLEAN, n \in 0..MaxReq, fresh \in BOOLEAN,
            bad \in BOOLEAN, Zenon DEF Latch
  <2> QED BY <2>2, <2>4, Zenon
<1>5. dev' = Latched(dev, flags, k)
  BY <1>2, <1>3, Zenon DEF OutArrives
<1>6. LatchedIs(dev, dev', flags, k)
  BY <1>4, <1>5, LatchEffect, Zenon DEF Base
<1> QED BY <1>1, <1>2, <1>4, <1>6, Zenon DEF OutDone, AboutHead

\* A SETUP arrives.
LEMMA DoSetup ==
  ASSUME Base, NEW valid \in BOOLEAN, SetupArrives(valid)
  PROVE  dev.sie = "setup" /\ SetupDone(dev, dev')
<1>1. PICK k : k = [NoToken EXCEPT !.ep = "setup", !.ok = valid]
  BY Zenon
<1>2. k \in Latch /\ k.ep = "setup" /\ ~k.bad
  <2>1. k = [ep |-> "setup", ok |-> valid, len |-> 0, id |-> 0, fresh |-> FALSE, bad |-> FALSE]
    BY <1>1, Zenon DEF NoToken
  <2>2. 0 \in 0..MaxReq /\ 0 \in Nat /\ valid \in BOOLEAN
    BY UdcConstants
  <2> QED BY ONLY <2>1, <2>2, Zenon DEF Latch
<1>3. {"TRANSFER"} \in SUBSET Flag
  BY Zenon DEF Flag
<1>4. PICK m : m = Latched(dev, {"TRANSFER"}, k) /\ LatchedIs(dev, m, {"TRANSFER"}, k)
  BY <1>2, <1>3, LatchEffect, Zenon DEF Base
<1>5. dev' = [m EXCEPT !.packet0 = "setup"]
  BY <1>1, <1>4, Zenon DEF SetupArrives
<1>6. m \in Device
  BY <1>4, Zenon DEF LatchedIs
<1>7. PICK t : t = [m EXCEPT !.packet0 = "setup"]
  BY Zenon
<1>8. Aside(m, t)
  BY ONLY <1>6, <1>7, ZenonT(60) DEF Aside, Device, SameEps, SameBus, SameLatch
<1>9. LatchedIs(dev, t, {"TRANSFER"}, k)
  BY <1>4, <1>8, Zenon
  DEF LatchedIs, Aside, SameEps, SameBus, SameLatch, SameEpsButUnheard, SameBusButSie
<1> QED BY <1>2, <1>5, <1>7, <1>9, Zenon DEF SetupDone, SetupArrives

\* A step is one of the actions, or leaves everything as it is.
LEMMA Actions ==
  ASSUME [Next]_vars
  PROVE  \/ \E fault : ApiInit(fault)
         \/ ApiEnable \/ ApiDisable \/ ApiShutdown \/ WorkOverflow
         \/ \E e \in Eps : \/ ApiEpEnable(e) \/ ApiEpDisable(e) \/ ApiDequeue(e) \/ ApiHalt(e)
                           \/ ApiClearHalt(e) \/ InAcked(e) \/ Out(e)
         \/ \E e \in Eps, size \in Sizes, zlp \in BOOLEAN : ApiEnqueue(e, size, zlp)
         \/ ApiEnqueueSetup
         \/ \E a \in 0..1 : wch_address(a)
         \/ wch_isr \/ WorkSuspend \/ WorkUnmask \/ KickCopy
         \/ WorkRead \/ WorkReset \/ WorkTransfer \/ WorkSuspendAck \/ WorkKick
         \/ \E t \in Eps \cup {"setup"} : Token(t)
         \/ Lost \/ BusReset \/ BusSuspend
         \/ \E valid \in BOOLEAN : SetupArrives(valid)
         \/ UNCHANGED vars
<1>1. ASSUME NEW e \in Eps, NEW len \in Packets, OutAcked(e, len) \/ OutUnheard(e, len) \/ OutOverflow(e, len)
      PROVE  Out(e)
  BY <1>1, Zenon DEF Out, OutAcked, OutUnheard, OutOverflow
<1>2. ASSUME Transaction
      PROVE  \/ \E t \in Eps \cup {"setup"} : Token(t)
             \/ Lost \/ \E e \in Eps : InAcked(e) \/ Out(e)
             \/ \E valid \in BOOLEAN : SetupArrives(valid)
  BY <1>1, <1>2, Zenon DEF Transaction
<1> QED BY <1>2, Zenon DEF Next, Api, wch_work

\* An OUT step.
LEMMA DoOutAny ==
  ASSUME Base, NEW e \in Eps, Out(e)
  PROVE  /\ dev.sie = e /\ ~IsIn(e)
         /\ \E flags \in {{"TRANSFER"}, {"TRANSFER", "FIFO_OV"}} : OutDone(dev, dev', e, flags)
<1>1. PICK len \in Packets, heard \in BOOLEAN, flags \in {{"TRANSFER"}, {"TRANSFER", "FIFO_OV"}} :
        OutArrives(e, len, heard, flags)
  BY Zenon DEF Out
<1>2. flags \in SUBSET Flag
  BY Zenon DEF Flag
<1>3. dev.sie = e /\ ~IsIn(e) /\ OutDone(dev, dev', e, flags)
  BY <1>1, <1>2, DoOut, Zenon
<1> QED BY <1>3, Zenon

\* Every step is known by its effect on the device record.
LEMMA Effects ==
  ASSUME Base, [Next]_vars
  PROVE  StepEffect
<1>1. ASSUME NEW fault, ApiInit(fault) PROVE StepEffect
  BY <1>1, DoInit, Zenon DEF StepEffect, DidInit
<1>2. CASE ApiEnable
  BY <1>2, DoEnable, Zenon DEF StepEffect, DidEnable
<1>3. CASE ApiDisable \/ ApiShutdown \/ WorkOverflow
  BY <1>3, DoDown, Zenon DEF StepEffect, DidDown
<1>4. ASSUME NEW e \in Eps, ApiEpEnable(e) PROVE StepEffect
  <2>1. DidEpEnable(e)
    BY <1>4, DoEpEnable, Zenon DEF DidEpEnable
  <2> QED BY <1>4, <2>1, Zenon DEF StepEffect
<1>5. ASSUME NEW e \in Eps, ApiEpDisable(e) PROVE StepEffect
  <2>1. DidEpDisable(e)
    BY <1>5, DoEpDisable, Zenon DEF DidEpDisable
  <2> QED BY <1>5, <2>1, Zenon DEF StepEffect
<1>6. ASSUME NEW e \in Eps, ApiDequeue(e) PROVE StepEffect
  <2>1. DidDequeue(e)
    BY <1>6, DoDequeue, Zenon DEF DidDequeue
  <2> QED BY <1>6, <2>1, Zenon DEF StepEffect
<1>7. ASSUME NEW e \in Eps, ApiHalt(e) PROVE StepEffect
  <2>1. DidHalt(e)
    BY <1>7, DoHalt, Zenon DEF DidHalt
  <2> QED BY <1>7, <2>1, Zenon DEF StepEffect
<1>8. ASSUME NEW e \in Eps, ApiClearHalt(e) PROVE StepEffect
  <2>1. DidClearHalt(e)
    BY <1>8, DoClearHalt, Zenon DEF DidClearHalt
  <2> QED BY <1>8, <2>1, Zenon DEF StepEffect
<1>9. ASSUME NEW e \in Eps, InAcked(e) PROVE StepEffect
  <2>1. DidIn(e)
    BY <1>9, DoIn, Zenon DEF DidIn
  <2> QED BY <1>9, <2>1, Zenon DEF StepEffect
<1>10. ASSUME NEW e \in Eps, Out(e) PROVE StepEffect
  <2>1. DidOut(e)
    BY <1>10, DoOutAny, Zenon DEF DidOut
  <2> QED BY <1>10, <2>1, Zenon DEF StepEffect
<1>11. ASSUME NEW e \in Eps, NEW size \in Sizes, NEW zlp \in BOOLEAN, ApiEnqueue(e, size, zlp)
      PROVE  StepEffect
  <2>1. DidEnqueue(e)
    BY <1>11, DoEnqueue, Zenon DEF DidEnqueue
  <2> QED BY <1>11, <2>1, Zenon DEF StepEffect
<1>12. CASE ApiEnqueueSetup
  <2>1. DidEnqueueSetup
    BY <1>12, DoEnqueueSetup, Zenon DEF DidEnqueueSetup
  <2> QED BY <1>12, <2>1, Zenon DEF StepEffect
<1>13. CASE (\E a \in 0..1 : wch_address(a)) \/ wch_isr \/ WorkSuspend \/ WorkUnmask
  <2>1. DidAside
    BY <1>13, DoAside, Zenon DEF DidAside
  <2> QED BY <1>13, <2>1, Zenon DEF StepEffect
<1>14. CASE KickCopy
  <2>1. DidCopy
    BY <1>14, DoCopy, Zenon DEF DidCopy
  <2> QED BY <1>14, <2>1, Zenon DEF StepEffect
<1>15. CASE WorkReset
  <2>1. DidReset
    BY <1>15, DoReset, Zenon DEF DidReset
  <2> QED BY <1>15, <2>1, Zenon DEF StepEffect
<1>16. CASE WorkTransfer
  <2>1. DidTransfer
    BY <1>16, DoTransfer, Zenon DEF DidTransfer
  <2> QED BY <1>16, <2>1, Zenon DEF StepEffect
<1>17. CASE WorkSuspendAck
  <2>1. DidSuspendAck
    BY <1>17, DoSuspendAck, Zenon DEF DidSuspendAck
  <2> QED BY <1>17, <2>1, Zenon DEF StepEffect
<1>18. CASE WorkKick
  <2>1. DidKick
    BY <1>18, DoKick, Zenon DEF DidKick
  <2> QED BY <1>18, <2>1, Zenon DEF StepEffect
<1>19. ASSUME NEW tk \in Eps \cup {"setup"}, Token(tk) PROVE StepEffect
  <2>1. DidToken(tk)
    BY <1>19, DoToken, Zenon DEF DidToken
  <2> QED BY <1>19, <2>1, Zenon DEF StepEffect
<1>20. CASE Lost \/ BusReset \/ BusSuspend
  <2>1. DidBus
    BY DoBus, Zenon DEF DidBus
  <2> QED BY <1>20, <2>1, Zenon DEF StepEffect
<1>21. ASSUME NEW valid \in BOOLEAN, SetupArrives(valid) PROVE StepEffect
  <2>1. DidSetup
    BY <1>21, DoSetup, Zenon DEF DidSetup
  <2> QED BY <1>21, <2>1, Zenon DEF StepEffect
<1>22. CASE WorkRead \/ UNCHANGED vars
  BY <1>22, ZenonT(60) DEF StepEffect
<1> QED BY Actions, <1>1, <1>2, <1>3, <1>4, <1>5, <1>6, <1>7, <1>8, <1>9, <1>10, <1>11, <1>12,
           <1>13, <1>14, <1>15, <1>16, <1>17, <1>18, <1>19, <1>20, <1>21, <1>22, ZenonT(60)

\* Every register and field stays in its range, whatever the stack, the worker,
\* the controller and the host do in whatever order: in particular no packet
\* takes a request's remaining length below zero (wch_transfer).
THEOREM TypeCorrect == Spec => []TypeOK
<1>1. Init => Base
  BY BaseInit, Zenon
<1>2. Base /\ [Next]_vars => Base'
  BY BaseNext, Effects, Zenon
<1>3. Base => TypeOK
  <2> SUFFICES ASSUME Base PROVE TypeOK
    BY Zenon
  <2>1. /\ dev.fg \subseteq Flag /\ dev.ctl \in [Eps -> Slot] /\ dev.ep \in [Eps -> EpState]
        /\ dev.q \in [Eps -> Seq(Requests)] /\ dev.in_length \in [Eps -> 0..MPS]
        /\ dev.sie \in Eps \cup {"none", "setup"}
    BY Fields, Zenon DEF Base
  <2>2. \A e \in Eps : \A i \in DOMAIN dev.q[e] : dev.q[e][i] \in Requests
    <3> TAKE e \in Eps
    <3>1. dev.q[e] \in Seq(Requests)
      BY <2>1, Zenon
    <3> QED BY ONLY <3>1
  <2>3. work.pc \in {"idle", "handle", "suspend", "ack", "kick", "unmask"}
    BY Zenon DEF Base, Work
  <2> QED BY <2>1, <2>2, <2>3, Zenon DEF Base, TypeOK, Flag, Slot, EpState
<1> QED BY <1>1, <1>2, <1>3, PTL DEF Spec

\* Exactly one return per accepted request: it is in one queue or has come back
\* once, whatever completes or cancels it (wch_transfer, wch_dequeue, wch_reset,
\* wch_disable, a newer SETUP), and a stopped driver holds none.
THEOREM LoanSafety == Spec => []LoansConserved
<1> DEFINE Inv == Base /\ BooksInv
<1>1. Init => Inv
  <2> SUFFICES ASSUME Init PROVE Inv
    BY Zenon
  <2>1. Books(dev.q, dev.done, spent.req)
    BY DEF Init, Books
  <2> QED BY <2>1, BaseInit, Zenon DEF BooksInv
<1>2. Inv /\ [Next]_vars => Inv'
  BY BaseNext, BooksNext, Effects, Zenon
<1>3. Inv => LoansConserved
  <2> SUFFICES ASSUME Base, BooksInv PROVE LoansConserved
    BY Zenon
  <2>1. PICK n \in Nat : n = spent.req
    BY UdcConstants DEF Base, Spent
  <2>2. Books(dev.q, dev.done, n)
    BY <2>1, Zenon DEF BooksInv
  <2>3. Queued \cap Returned = {}
    BY <2>2 DEF Books, Queued, Returned
  <2>4. Queued \cup Returned = 1..n
    <3>1. Queued \cup Returned \subseteq 1..n
      BY <2>2 DEF Books, Queued, Returned
    <3>2. \A k \in 1..n : k \in Queued \cup Returned
      <4> TAKE k \in 1..n
      <4>1. CASE \E d \in dev.done : d.id = k
        BY <4>1, Zenon DEF Returned
      <4>2. ASSUME NEW e \in Eps, NEW i \in DOMAIN dev.q[e], dev.q[e][i].id = k
            PROVE  k \in Queued
        BY <4>2 DEF Queued
      <4> QED BY <2>2, <4>1, <4>2, Zenon DEF Books
    <3> QED BY <3>1, <3>2, Zenon
  <2>5. \A c, d \in dev.done : c.id = d.id => c = d
    BY <2>2, Zenon DEF Books
  <2>6. ~dev.running => Queued = {}
    <3> SUFFICES ASSUME ~dev.running PROVE Queued = {}
      BY Zenon
    <3>1. \A e \in Eps : dev.q[e] = <<>>
      BY Zenon DEF Base, DevCore
    <3>2. \A e \in Eps : DOMAIN dev.q[e] = {}
      BY <3>1
    <3> QED BY <3>2, Zenon DEF Queued
  <2> QED BY <2>1, <2>3, <2>4, <2>5, <2>6, Zenon DEF LoansConserved
<1> QED BY <1>1, <1>2, <1>3, PTL DEF Spec

\* While a SETUP waits for the stack, neither a stall nor data meant for the
\* control transfer it superseded reaches the host, however calls, worker and
\* controller interleave (wch_transfer, wch_halt).
THEOREM SetupSafety == Spec => []SetupSupersedes
<1> DEFINE Inv == Base /\ SetupInv
<1>1. Init => Inv
  <2> SUFFICES ASSUME Init PROVE Inv
    BY Zenon
  <2>1. SetupSafe(dev)
    BY Zenon DEF Init, SetupSafe
  <2> QED BY <2>1, BaseInit, Zenon DEF SetupInv
<1>2. Inv /\ [Next]_vars => Inv'
  BY BaseNext, SetupNext, Effects, Zenon
<1>3. Inv => SetupSupersedes
  BY Zenon DEF SetupInv, SetupSafe, SetupSupersedes
<1> QED BY <1>1, <1>2, <1>3, PTL DEF Spec

\* A completion the worker finds latched is credited to the request it is
\* about: cancelling a queue, a reset of the bus and a SETUP in between leave no
\* completion behind for the next request (wch_quiesce, wch_reset, wch_transfer).
THEOREM CreditSafety == Spec => []CreditsItsRequest
<1> DEFINE Inv == Base /\ ResetInv /\ CreditInv
<1>1. Init => Inv
  <2> SUFFICES ASSUME Init PROVE Inv
    BY Zenon
  <2>1. Base /\ ResetInv
    BY BaseInit, Zenon DEF Init, ResetInv
  <2>2. ASSUME NEW g \in Eps PROVE EpCredit(dev, g)
    <3>1. Answers(dev, g) => g = "out0"
      BY Zenon DEF Init, Answers, Eps, Control
    <3>2. dev.sie # g /\ ~LatchedFor(dev, g)
      BY Zenon DEF Init, LatchedFor, Eps, Control, Bulk
    <3> QED BY <3>1, <3>2, Zenon DEF Init, EpCredit, Held, Free
  <2>3. FreeSafe(dev)
    <3>1. \A g \in Control : dev.q[g] = <<>>
      BY Zenon DEF Init, Eps
    <3>2. DOMAIN <<>> = {}
      OBVIOUS
    <3> QED BY <3>1, <3>2, Zenon DEF FreeSafe
  <2> QED BY <2>1, <2>2, <2>3, Zenon DEF CreditInv, CreditSafe
<1>2. Inv /\ [Next]_vars => Inv'
  BY BaseNext, ResetNext, CreditNext, Effects, Zenon
<1>3. Inv => CreditsItsRequest
  BY Zenon DEF Base, DevCore, EpSound, CreditInv, CreditSafe, EpCredit, LatchedFor, CreditsItsRequest
<1> QED BY <1>1, <1>2, <1>3, PTL DEF Spec
=============================================================================
