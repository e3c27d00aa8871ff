-------------------------- MODULE DmaChannelProofs --------------------------
(***************************************************************************)
(* What the operators of DmaChannel keep of one channel, for every block   *)
(* limit and every request.  The proofs about the DMA driver and about     *)
(* both directions of the UART rest on these lemmas.                       *)
(***************************************************************************)
EXTENDS DmaChannel, TLAPS

\* Division by a width, which is all the arithmetic the block sizes need.
LEMMA WidthDivision ==
  ASSUME NEW w \in Widths, NEW n \in Nat
  PROVE  /\ n \div w \in Nat
         /\ (n \div w) * w <= n
         /\ n % w = 0 => n = (n \div w) * w
         /\ n % w = 0 /\ n # 0 => n \div w # 0
  BY DEF Widths

\* dma_wch_init() leaves a sound channel.
LEMMA ResetInv == ChannelInv(ResetChannel)
  BY MaxBlockAssumption DEF ChannelInv, ResetChannel, Channel, States, Flags

\* An accepted dma_config() leaves a sound channel, whatever was there before.
LEMMA ConfiguredInv ==
  ASSUME NEW c \in Channel, NEW r \in ConfigRequest, ConfigResult(c, r) = "OK"
  PROVE  ChannelInv(Configured(c, r))
<1>0. r.width \in Widths /\ ~Misaligned(r.width, r.size, r.src, r.dst)
  BY DEF ConfigResult
<1>1. /\ r.width \in Widths
      /\ r.size # 0 /\ r.size % r.width = 0 /\ ~(r.size \div r.width > MaxBlock)
  BY <1>0 DEF Misaligned
<1>2. r.size \div r.width \in 0 .. MaxBlock
  BY <1>1, WidthDivision, MaxBlockAssumption DEF ConfigRequest
<1>3. Configured(c, r) \in Channel
  BY <1>1, <1>2 DEF Configured, Channel, ConfigRequest, States, Flags
<1>4. /\ Configured(c, r).state = "CONFIGURED" /\ Configured(c, r).en = FALSE
      /\ Configured(c, r).width = r.width /\ Configured(c, r).length = r.size
      /\ Configured(c, r).cntr = r.size \div r.width
      /\ {"TC", "TE"} \subseteq Configured(c, r).ie
  BY DEF Configured
<1> QED
  BY <1>1, <1>2, <1>3, <1>4 DEF ChannelInv, Block

\* So does an accepted dma_reload().
LEMMA ReloadedInv ==
  ASSUME NEW c, ChannelInv(c), NEW q \in ReloadRequest, ReloadResult(c, q) = "OK"
  PROVE  ChannelInv(Reloaded(c, q))
<1>0. /\ c.state # "UNCONFIGURED" /\ ~Busy(c)
      /\ ~Misaligned(c.width, q.size, q.src, q.dst)
  BY DEF ReloadResult
<1>1. /\ c \in Channel /\ c.width \in Widths /\ c.state # "UNCONFIGURED" /\ ~c.en
      /\ q.size # 0 /\ q.size % c.width = 0 /\ ~(q.size \div c.width > MaxBlock)
  BY <1>0 DEF Misaligned, ChannelInv, Busy
<1>2. q.size \div c.width \in 0 .. MaxBlock
  BY <1>1, WidthDivision, MaxBlockAssumption DEF ReloadRequest
<1>3. Reloaded(c, q) \in Channel
  BY <1>1, <1>2, Zenon DEF Reloaded, Channel, ReloadRequest
<1>4. /\ Reloaded(c, q).state = c.state /\ Reloaded(c, q).en = c.en
      /\ Reloaded(c, q).width = c.width /\ Reloaded(c, q).length = q.size
      /\ Reloaded(c, q).cntr = q.size \div c.width
      /\ Reloaded(c, q).ie = c.ie
  BY <1>1 DEF Reloaded, Channel
<1> QED
  BY <1>1, <1>2, <1>3, <1>4 DEF ChannelInv, Block

\* dma_start() of a configured channel with elements left keeps it sound.
LEMMA StartedInv ==
  ASSUME NEW c, ChannelInv(c), StartResult(c) = "STARTED"
  PROVE  ChannelInv(Started(c))
  BY Zenon DEF ChannelInv, Started, StartResult, Channel, States, Block

\* dma_stop() leaves a sound channel, from whatever state.
LEMMA StoppedInv ==
  ASSUME NEW c, ChannelInv(c)
  PROVE  ChannelInv(Stopped(c))
  BY Zenon DEF ChannelInv, Stopped, Channel, States, Block

\* dma_suspend() of a running channel leaves a sound channel.
LEMMA SuspendedInv ==
  ASSUME NEW c, ChannelInv(c), c.state = "RUNNING"
  PROVE  ChannelInv(Suspended(c))
  BY Zenon DEF ChannelInv, Suspended, Channel, States, Block

\* dma_resume() of a suspended channel leaves a sound channel.
LEMMA ResumedInv ==
  ASSUME NEW c, ChannelInv(c), c.state = "SUSPENDED"
  PROVE  ChannelInv(Resumed(c))
  BY Zenon DEF ChannelInv, Resumed, Channel, States, Block

\* chan_release() leaves a sound, unconfigured channel.
LEMMA ReleasedInv ==
  ASSUME NEW c, ChannelInv(c)
  PROVE  ChannelInv(Released(c))
  BY Zenon DEF ChannelInv, Released, ResetChannel, Channel, States, Flags

\* What the handler does to its channel leaves it sound, whatever flags it read.
LEMMA IsrChannelInv ==
  ASSUME NEW c, ChannelInv(c), NEW ip
  PROVE  ChannelInv(IsrChannel(c, ip))
<1>1. c \in Channel /\ Block(c) = c.length \div c.width
  BY Zenon DEF ChannelInv, Block
<1>2. PICK d : d = [c EXCEPT !.en = FALSE, !.state = "CONFIGURED"]
  BY Zenon
<1>3. /\ d \in Channel /\ ~d.en /\ d.state = "CONFIGURED"
      /\ d.width = c.width /\ d.length = c.length /\ d.cntr = c.cntr /\ d.ie = c.ie
  BY ONLY <1>1, <1>2, Zenon DEF Channel, States
<1>4. Block(d) = Block(c)
  BY <1>3, Zenon DEF Block
<1>5. Busy(c) => c.state # "UNCONFIGURED"
  BY Zenon DEF ChannelInv, Busy
<1>6. IsrChannel(c, ip) = c \/ (Busy(c) /\ IsrChannel(c, ip) = d)
  BY <1>2, Zenon DEF IsrChannel
<1>7. Busy(c) => ChannelInv(d)
  BY <1>3, <1>4, <1>5, Zenon DEF ChannelInv
<1> QED
  BY <1>6, <1>7, Zenon

\* The engine moving one element leaves a sound channel.
LEMMA MovedInv ==
  ASSUME NEW c, ChannelInv(c), CanMove(c)
  PROVE  ChannelInv(Moved(c))
<1>1. /\ c \in Channel /\ c.state = "RUNNING" /\ c.width \in Widths
      /\ c.length \in Nat /\ c.length # 0 /\ c.length % c.width = 0
      /\ Block(c) <= MaxBlock /\ c.cntr <= Block(c) /\ c.cntr \in 1 .. MaxBlock
  BY DEF ChannelInv, CanMove, Channel
<1>2. Block(c) \in 1 .. MaxBlock
  BY <1>1, WidthDivision, MaxBlockAssumption DEF Block
<1>3. Moved(c).cntr \in 0 .. MaxBlock /\ Moved(c).cntr <= Block(c)
  BY <1>1, <1>2, MaxBlockAssumption DEF Moved, Channel
<1>4. Moved(c) = [c EXCEPT !.cntr = Moved(c).cntr]
  BY <1>1 DEF Moved, Channel
<1>5. Moved(c) \in Channel /\ Block(Moved(c)) = Block(c)
  BY <1>1, <1>3, <1>4 DEF Channel, Block
<1> QED
  BY <1>1, <1>3, <1>4, <1>5 DEF ChannelInv, Channel

\* A bus error leaves a sound channel.
LEMMA FaultedInv ==
  ASSUME NEW c, ChannelInv(c)
  PROVE  ChannelInv(Faulted(c))
  BY Zenon DEF ChannelInv, Faulted, Channel, Block

-----------------------------------------------------------------------------
(* A channel that only ever carries the UART's requests.                   *)

\* The channel dma_wch_init() leaves can carry the UART's requests.
LEMMA ByteReset == ByteChannel(ResetChannel)
  BY ResetInv DEF ByteChannel, ResetChannel

\* A channel that is not busy accepts the request and holds the whole block.
LEMMA ByteConfigured ==
  ASSUME NEW c, ByteChannel(c), NEW r \in ByteRequests, ~Busy(c)
  PROVE  /\ ConfigResult(c, r) = "OK"
         /\ ByteChannel(Configured(c, r))
         /\ Configured(c, r).state = "CONFIGURED" /\ ~Configured(c, r).en
         /\ Configured(c, r).cntr = r.size /\ Configured(c, r).length = r.size
         /\ Configured(c, r).maddr = IF r.dir = "M2P" THEN r.src ELSE r.dst
<1>1. /\ r \in ConfigRequest /\ r.width = 1 /\ r.size \in 1 .. MaxBlock
      /\ r.size \div 1 = r.size /\ r.size % 1 = 0 /\ r.src % 1 = 0 /\ r.dst % 1 = 0
  BY MaxBlockAssumption DEF ByteRequests, ConfigRequest
<1>2. ConfigResult(c, r) = "OK"
  BY <1>1, MaxBlockAssumption DEF ByteRequests, ConfigResult, Misaligned, Widths
<1>3. ChannelInv(Configured(c, r))
  BY <1>1, <1>2, ConfiguredInv DEF ByteChannel, ChannelInv
<1>4. /\ Configured(c, r).state = "CONFIGURED" /\ Configured(c, r).en = FALSE
      /\ Configured(c, r).cntr = r.size /\ Configured(c, r).length = r.size
      /\ Configured(c, r).maddr = IF r.dir = "M2P" THEN r.src ELSE r.dst
      /\ Configured(c, r).width = 1 /\ Configured(c, r).circ = r.cyclic
      /\ Configured(c, r).cb = r.cb /\ Configured(c, r).errdis = r.errdis
  BY <1>1 DEF Configured
<1>5. Configured(c, r).ie = {"TE", "TC"}
  BY DEF Configured, ByteRequests
<1> QED
  BY <1>1, <1>2, <1>3, <1>4, <1>5 DEF ByteChannel, ByteRequests

\* A configured channel with bytes left starts.
LEMMA ByteStarted ==
  ASSUME NEW c, ByteChannel(c), c.state = "CONFIGURED", c.cntr > 0
  PROVE  /\ StartResult(c) = "STARTED"
         /\ ByteChannel(Started(c))
         /\ Started(c).state = "RUNNING" /\ Started(c).en
         /\ SameBlock(Started(c), c)
<1>1. StartResult(c) = "STARTED"
  BY DEF StartResult, ByteChannel, ChannelInv, Channel
<1>2. ChannelInv(Started(c))
  BY <1>1, StartedInv DEF ByteChannel
<1> QED
  BY <1>1, <1>2 DEF ByteChannel, ChannelInv, Channel, Started, SameBlock

\* dma_stop() ends the transfer and keeps the count.
LEMMA ByteStopped ==
  ASSUME NEW c, ByteChannel(c)
  PROVE  /\ ByteChannel(Stopped(c))
         /\ ~Stopped(c).en /\ ~Busy(Stopped(c)) /\ Stopped(c).state # "RUNNING"
         /\ c.state # "UNCONFIGURED" => Stopped(c).state = "CONFIGURED"
         /\ SameBlock(Stopped(c), c)
<1>1. ChannelInv(Stopped(c))
  BY StoppedInv DEF ByteChannel
<1> QED
  BY <1>1 DEF ByteChannel, ChannelInv, Channel, Stopped, SameBlock, Busy

\* dma_get_status() counts bytes.
LEMMA BytesPending ==
  ASSUME NEW c, ByteChannel(c), c.state # "UNCONFIGURED"
  PROVE  PendingLength(c) = c.cntr
  BY DEF ByteChannel, ChannelInv, Channel, PendingLength

\* The DMA handler calls back for an error or the end of the block of a running
\* channel, which it has stopped then, and otherwise leaves the channel alone.
LEMMA ByteIsr ==
  ASSUME NEW c, ByteChannel(c), NEW fs
  PROVE  /\ ByteChannel(IsrChannel(c, fs)) /\ SameBlock(IsrChannel(c, fs), c)
         /\ IsrStatus(c, fs) \in {"none", "EIO", "COMPLETE"}
         /\ IsrStatus(c, fs) = "none" => IsrChannel(c, fs) = c
         /\ IsrStatus(c, fs) # "none" =>
              /\ c.state = "RUNNING"
              /\ IsrChannel(c, fs).state = "CONFIGURED" /\ ~IsrChannel(c, fs).en
         /\ IsrStatus(c, fs) = "COMPLETE" => "TC" \in fs /\ "TE" \notin fs
         /\ IsrStatus(c, fs) = "EIO" => "TE" \in fs
<1>1. ChannelInv(IsrChannel(c, fs))
  BY IsrChannelInv DEF ByteChannel
<1>2. \/ IsrChannel(c, fs) = c
      \/ /\ c.state = "RUNNING"
         /\ IsrChannel(c, fs) = [c EXCEPT !.en = FALSE, !.state = "CONFIGURED"]
  BY DEF IsrChannel, Busy, ByteChannel
<1>3. ByteChannel(IsrChannel(c, fs)) /\ SameBlock(IsrChannel(c, fs), c)
  <2>1. CASE IsrChannel(c, fs) = c
    BY <2>1, Zenon DEF SameBlock
  <2>2. CASE c.state = "RUNNING" /\ IsrChannel(c, fs) # c
    <3>1. c \in Channel
      BY Zenon DEF ByteChannel, ChannelInv
    <3>2. PICK d : d = IsrChannel(c, fs) /\ d = [c EXCEPT !.en = FALSE, !.state = "CONFIGURED"]
      BY <1>2, <2>2, Zenon
    <3>3. /\ d.state = "CONFIGURED" /\ d.width = c.width /\ d.circ = c.circ /\ d.cb = c.cb
          /\ d.errdis = c.errdis /\ d.ie = c.ie /\ d.cntr = c.cntr /\ d.length = c.length
          /\ d.maddr = c.maddr
      BY ONLY <3>1, <3>2, Zenon DEF Channel
    <3>4. ByteChannel(d)
      BY <1>1, <2>2, <3>2, <3>3, Zenon DEF ByteChannel
    <3> QED
      BY ONLY <3>2, <3>3, <3>4, Zenon DEF SameBlock
  <2> QED
    BY <1>2, <2>1, <2>2, Zenon
<1>4. CASE Busy(c)
  <2>1. /\ c.state = "RUNNING" /\ c.cb /\ ~c.circ /\ ~c.errdis /\ c.ie = {"TE", "TC"}
    BY <1>4 DEF Busy, ByteChannel
  <2> QED
    BY <1>3, <1>4, <2>1 DEF IsrStatus, IsrChannel, ByteChannel, ChannelInv, Channel
<1>5. CASE ~Busy(c)
  BY <1>3, <1>5 DEF IsrStatus, IsrChannel
<1> QED
  BY <1>4, <1>5

\* The engine moves one byte; the last one raises TC.
LEMMA ByteMoved ==
  ASSUME NEW c, ByteChannel(c), CanMove(c)
  PROVE  /\ ByteChannel(Moved(c))
         /\ c.state = "RUNNING" /\ Moved(c).state = "RUNNING" /\ Moved(c).en
         /\ c.cntr \in Nat \ {0} /\ Moved(c).cntr = c.cntr - 1
         /\ Moved(c).length = c.length /\ Moved(c).maddr = c.maddr
         /\ MoveFlags(c) \subseteq Flags \ {"TE"}
         /\ "TC" \in MoveFlags(c) <=> c.cntr = 1
<1>1. /\ ChannelInv(Moved(c)) /\ c \in Channel /\ c.en /\ c.state = "RUNNING"
      /\ ~c.circ /\ c.cntr \in Nat \ {0}
  BY MovedInv DEF ByteChannel, ChannelInv, CanMove, Channel
<1>2. Moved(c) = [c EXCEPT !.cntr = c.cntr - 1]
  BY <1>1 DEF Moved, Channel
<1>3. /\ MoveFlags(c) \subseteq Flags \ {"TE"}
      /\ "TC" \in MoveFlags(c) <=> c.cntr = 1
  BY <1>1 DEF MoveFlags, Flags
<1> QED
  BY <1>1, <1>2, <1>3 DEF ByteChannel, Channel

\* A bus error stops the engine and keeps the count.
LEMMA ByteFaulted ==
  ASSUME NEW c, ByteChannel(c)
  PROVE  /\ ByteChannel(Faulted(c)) /\ SameBlock(Faulted(c), c)
         /\ ~Faulted(c).en /\ Faulted(c).state = c.state
<1>1. ChannelInv(Faulted(c))
  BY FaultedInv DEF ByteChannel
<1> QED
  BY <1>1 DEF ByteChannel, ChannelInv, Channel, Faulted, SameBlock
=============================================================================
