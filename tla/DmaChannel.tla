----------------------------- MODULE DmaChannel -----------------------------
(***************************************************************************)
(* One channel of the WCH DMA driver (src/drivers/dma/dma_wch.c) as a      *)
(* value: the software record (struct dma_wch_channel) together with the   *)
(* channel's registers (CFGR bits, CNTR, PADDR, MADDR).  Every driver      *)
(* entry point is an operator from channel to channel, next to the code it *)
(* returns; the interrupt flags, which live in a register shared by eight  *)
(* channels, belong to the modules that use this one.                      *)
(***************************************************************************)
EXTENDS Integers

CONSTANT MaxBlock              \* DMA_WCH_MAX_BLOCK, UINT16_MAX in the driver

ASSUME MaxBlockAssumption == MaxBlock \in Nat \ {0}

States == {"UNCONFIGURED", "CONFIGURED", "RUNNING", "SUSPENDED"}
Widths == {1, 2, 4}
Flags  == {"HT", "TC", "TE"}

\* What a caller of dma_config() passes, reduced to what the driver tells
\* apart: `null' (a NULL configuration or block), `chained' (lines 159-162),
\* `burst' (a burst length that is neither 0 nor the width) and `fancy' (lines
\* 186-192) each stand for one group of rejected features.
ConfigRequest ==
  [null : BOOLEAN, chained : BOOLEAN, burst : BOOLEAN, fancy : BOOLEAN,
   width : Nat, destWidth : Nat, size : Nat, src : Nat, dst : Nat,
   srcInc : BOOLEAN, dstInc : BOOLEAN,
   dir : {"M2M", "M2P", "P2M", "other"}, cyclic : BOOLEAN,
   cb : BOOLEAN, half : BOOLEAN, errdis : BOOLEAN]

\* A request for one block of bytes with a callback, as the UART driver makes
\* them; size, addresses and direction are still to be filled in.
ByteRequest ==
  [null |-> FALSE, chained |-> FALSE, burst |-> FALSE, fancy |-> FALSE,
   width |-> 1, destWidth |-> 1, size |-> 0, src |-> 0, dst |-> 0,
   srcInc |-> FALSE, dstInc |-> FALSE, dir |-> "other", cyclic |-> FALSE,
   cb |-> TRUE, half |-> FALSE, errdis |-> FALSE]

\* What a caller of dma_reload() passes.
ReloadRequest == [src : Nat, dst : Nat, size : Nat]

Channel ==
  [state : States, cb : BOOLEAN, length : Nat, width : Widths \cup {0},
   errdis : BOOLEAN,                                         \* software
   en : BOOLEAN, mem2mem : BOOLEAN, dir : BOOLEAN, circ : BOOLEAN,
   minc : BOOLEAN, pinc : BOOLEAN, ie : SUBSET Flags,         \* CFGR
   cntr : 0 .. MaxBlock, paddr : Nat, maddr : Nat]

\* The channel dma_wch_init() leaves: CFGR = 0, software record zeroed.
ResetChannel ==
  [state |-> "UNCONFIGURED", cb |-> FALSE, length |-> 0, width |-> 0,
   errdis |-> FALSE,
   en |-> FALSE, mem2mem |-> FALSE, dir |-> FALSE, circ |-> FALSE,
   minc |-> FALSE, pinc |-> FALSE, ie |-> {},
   cntr |-> 0, paddr |-> 0, maddr |-> 0]

Busy(c) == c.state \in {"RUNNING", "SUSPENDED"}

-----------------------------------------------------------------------------
(* dma_config(): validation, then one interrupt-locked section.            *)

Misaligned(width, size, src, dst) ==
  \/ size = 0
  \/ size % width # 0
  \/ size \div width > MaxBlock
  \/ src % width # 0
  \/ dst % width # 0

ConfigResult(c, r) ==
  IF r.null THEN "EINVAL"
  ELSE IF r.chained \/ r.width \notin Widths \/ r.destWidth # r.width \/ r.burst
    THEN "ENOTSUP"
  ELSE IF Misaligned(r.width, r.size, r.src, r.dst) THEN "EINVAL"
  ELSE IF r.fancy \/ r.dir = "other" \/ (r.dir = "M2M" /\ r.cyclic) THEN "ENOTSUP"
  ELSE IF Busy(c) THEN "EBUSY"
  ELSE "OK"

\* Mutation: completion interrupts only when there is a callback.
Configured_QuietWithoutCallback(c, r) ==
  LET toPeripheral == r.dir = "M2P"
  IN [c EXCEPT !.state = "CONFIGURED", !.cb = r.cb, !.length = r.size,
               !.width = r.width, !.errdis = r.errdis, !.circ = r.cyclic,
               !.dir = toPeripheral,
               !.ie = IF r.cb THEN {"TE", "TC"} ELSE {"TE"},
               !.cntr = r.size \div r.width]

\* The channel after a dma_config() that returned OK.  Only memory to
\* peripheral sets CFGR.DIR, which makes the memory register the source; error
\* and completion interrupts are enabled with or without a callback.
Configured(c, r) ==
  LET toPeripheral == r.dir = "M2P"
  IN [state |-> "CONFIGURED", cb |-> r.cb, length |-> r.size, width |-> r.width,
      errdis |-> r.errdis,
      en |-> FALSE, mem2mem |-> r.dir = "M2M", dir |-> toPeripheral,
      circ |-> r.cyclic,
      minc |-> IF toPeripheral THEN r.srcInc ELSE r.dstInc,
      pinc |-> IF toPeripheral THEN r.dstInc ELSE r.srcInc,
      ie |-> {"TE", "TC"} \cup (IF r.cb /\ r.half THEN {"HT"} ELSE {}),
      cntr |-> r.size \div r.width,
      paddr |-> IF toPeripheral THEN r.dst ELSE r.src,
      maddr |-> IF toPeripheral THEN r.src ELSE r.dst]

-----------------------------------------------------------------------------
(* The other entry points.  Each result is computed in the order of the    *)
(* early returns of the function it models.                                *)

\* Mutation: reload() does not ask whether the channel is busy.
ReloadResult_IgnoresBusy(c, q) ==
  IF c.state = "UNCONFIGURED" THEN "EINVAL"
  ELSE IF Misaligned(c.width, q.size, q.src, q.dst) THEN "EINVAL"
  ELSE "OK"

ReloadResult(c, q) ==
  IF c.state = "UNCONFIGURED" THEN "EINVAL"
  ELSE IF Misaligned(c.width, q.size, q.src, q.dst) THEN "EINVAL"
  ELSE IF Busy(c) THEN "EBUSY"
  ELSE "OK"

\* Mutation: reload() keeps the length of the previous block.
Reloaded_KeepsLength(c, q) ==
  [c EXCEPT !.maddr = IF c.dir THEN q.src ELSE q.dst,
            !.paddr = IF c.dir THEN q.dst ELSE q.src,
            !.cntr = q.size \div c.width]

Reloaded(c, q) ==
  [c EXCEPT !.maddr = IF c.dir THEN q.src ELSE q.dst,
            !.paddr = IF c.dir THEN q.dst ELSE q.src,
            !.cntr = q.size \div c.width,
            !.length = q.size]

\* dma_start() on a RUNNING channel returns 0 without touching it.
StartResult(c) ==
  IF c.state = "RUNNING" THEN "OK"
  ELSE IF c.state # "CONFIGURED" \/ c.cntr = 0 THEN "EINVAL"
  ELSE "STARTED"

Started(c) == [c EXCEPT !.state = "RUNNING", !.en = TRUE]

\* Mutation: stop() forgets to clear CFGR.EN.
Stopped_KeepsEnable(c) ==
  [c EXCEPT !.state = IF @ = "UNCONFIGURED" THEN @ ELSE "CONFIGURED"]

Stopped(c) ==
  [c EXCEPT !.en = FALSE,
            !.state = IF @ = "UNCONFIGURED" THEN @ ELSE "CONFIGURED"]

Suspended(c) == [c EXCEPT !.en = FALSE, !.state = "SUSPENDED"]

Resumed(c) == [c EXCEPT !.en = TRUE, !.state = "RUNNING"]

\* Mutation: release turns the channel off and keeps the software record.
Released_KeepsRecord(c) ==
  [c EXCEPT !.en = FALSE, !.mem2mem = FALSE, !.dir = FALSE, !.circ = FALSE,
            !.minc = FALSE, !.pinc = FALSE, !.ie = {}]

\* chan_release() zeroes CFGR and the software record; CNTR and the address
\* registers keep their last values.
Released(c) ==
  [ResetChannel EXCEPT !.cntr = c.cntr, !.paddr = c.paddr, !.maddr = c.maddr]

\* get_status(): the counts are bytes; positions only exist in circular mode
\* and only for an incrementing side.
PendingLength(c) == c.cntr * c.width

Position(c) ==
  IF c.circ /\ c.length # 0 THEN (c.length - PendingLength(c)) % c.length ELSE 0

Status(c) ==
  [busy |-> Busy(c),
   dir |-> IF c.mem2mem THEN "M2M" ELSE IF c.dir THEN "M2P" ELSE "P2M",
   pending |-> PendingLength(c),
   read |-> IF (IF c.dir THEN c.minc ELSE c.pinc) THEN Position(c) ELSE 0,
   write |-> IF (IF c.dir THEN c.pinc ELSE c.minc) THEN Position(c) ELSE 0]

-----------------------------------------------------------------------------
(* The interrupt handler's decision on the flags it has read.  A transfer  *)
(* error outranks completion, completion outranks half completion.         *)

\* Mutation: the handler leaves a channel without callback alone.
IsrChannel_OnlyWithCallback(c, ip) ==
  IF Busy(c) /\ c.cb /\ ("TE" \in ip \/ ("TC" \in ip /\ ~c.circ))
    THEN [c EXCEPT !.en = FALSE, !.state = "CONFIGURED"]
    ELSE c

IsrChannel(c, ip) ==
  IF Busy(c) /\ ("TE" \in ip \/ ("TC" \in ip /\ ~c.circ))
    THEN [c EXCEPT !.en = FALSE, !.state = "CONFIGURED"]
    ELSE c

\* Mutation: half completion is reported although the block has ended.
IsrStatus_HalfFirst(c, ip) ==
  IF ~Busy(c) \/ ~c.cb THEN "none"
  ELSE IF "TE" \in ip THEN (IF c.errdis THEN "none" ELSE "EIO")
  ELSE IF "HT" \in ip /\ "HT" \in c.ie THEN "HALF"
  ELSE IF "TC" \in ip THEN "COMPLETE"
  ELSE "none"

IsrStatus(c, ip) ==
  IF ~Busy(c) \/ ~c.cb THEN "none"
  ELSE IF "TE" \in ip THEN (IF c.errdis THEN "none" ELSE "EIO")
  ELSE IF "TC" \in ip THEN (IF "TC" \in c.ie THEN "COMPLETE" ELSE "none")
  ELSE IF "HT" \in ip /\ "HT" \in c.ie THEN "HALF"
  ELSE "none"

-----------------------------------------------------------------------------
(* The DMA engine itself (external hardware): one element per request, the *)
(* half flag when half the block is left, completion at zero, CNTR         *)
(* reloaded in circular mode, EN cleared by a transfer error.              *)

Block(c) == c.length \div c.width

CanMove(c) == c.en /\ c.cntr > 0

Moved(c) ==
  [c EXCEPT !.cntr = IF c.cntr = 1 /\ c.circ THEN Block(c) ELSE c.cntr - 1]

MoveFlags(c) ==
  (IF c.cntr - 1 = Block(c) \div 2 THEN {"HT"} ELSE {})
    \cup (IF c.cntr = 1 THEN {"TC"} ELSE {})

Faulted(c) == [c EXCEPT !.en = FALSE]

-----------------------------------------------------------------------------
(* What is always true of a channel.                                       *)

\* What every operation keeps of one channel: a configured channel has a width
\* and a whole, non-empty number of elements, at most MaxBlock, of which no more
\* are left than there are, and its terminal events interrupt; the engine runs
\* only in state RUNNING.
ChannelInv(c) ==
  /\ c \in Channel
  /\ c.en => c.state = "RUNNING"
  /\ c.state # "UNCONFIGURED" =>
       /\ c.width \in Widths
       /\ c.length # 0
       /\ c.length % c.width = 0
       /\ Block(c) <= MaxBlock
       /\ c.cntr <= Block(c)
       /\ {"TC", "TE"} \subseteq c.ie

\* The UART configures its channels with ByteRequest and never suspends them:
\* bytes, one block, a callback, completion and error interrupts.
ByteChannel(c) ==
  /\ ChannelInv(c)
  /\ c.state # "SUSPENDED"
  /\ c.state # "UNCONFIGURED" =>
       /\ c.width = 1 /\ ~c.circ /\ c.cb /\ ~c.errdis
       /\ c.ie = {"TE", "TC"}
       /\ c.cntr <= c.length

\* The requests the UART makes: ByteRequest with a size, addresses and a direction.
ByteRequests ==
  {r \in ConfigRequest :
     /\ ~r.null /\ ~r.chained /\ ~r.burst /\ ~r.fancy
     /\ r.width = 1 /\ r.destWidth = 1 /\ r.size \in 1 .. MaxBlock
     /\ r.dir \in {"M2P", "P2M"} /\ ~r.cyclic /\ r.cb /\ ~r.half /\ ~r.errdis}

\* What the transfer code looks at: two channels that agree in it.
SameBlock(c, d) == c.cntr = d.cntr /\ c.length = d.length /\ c.maddr = d.maddr
=============================================================================
