---------------------------- MODULE DmaWchProofs ----------------------------
(***************************************************************************)
(* Proofs about the DMA driver (module DmaWch), for every set of channels, *)
(* every set of requests and every block limit.                            *)
(***************************************************************************)
EXTENDS DmaWch, DmaChannelProofs, TLAPS

-----------------------------------------------------------------------------
(* The flag registers.  Every channel has four bits of its own, so clearing *)
(* or raising flags of one channel leaves all others alone.                 *)

AllChannels == 0 .. (MaxChan - 1)
Registers == [Banks -> SUBSET (0 .. 31)]

Pos(ch, f) == IfOff(Index(ch)) + Bit(f)

\* The flag offsets are 0 .. 3.
LEMMA BitValues ==
  /\ Bit("GIF") = 0 /\ Bit("TC") = 1 /\ Bit("HT") = 2 /\ Bit("TE") = 3
  /\ \A f \in AIF : Bit(f) \in 0 .. 3
  /\ \A f \in Flags : f \in AIF /\ Bit(f) \in 1 .. 3
  /\ \A f, g \in AIF : Bit(f) = Bit(g) => f = g
<1>1. /\ Bit("GIF") = 0 /\ Bit("TC") = 1 /\ Bit("HT") = 2 /\ Bit("TE") = 3
  BY DEF Bit
<1> QED
  BY <1>1 DEF AIF, Flags

\* Every flag of every channel is a bit of a 32-bit register.
LEMMA BitPosition ==
  ASSUME NEW ch \in AllChannels, NEW f \in AIF
  PROVE  /\ Bank(ch) \in Banks /\ Index(ch) \in 0 .. 7
         /\ Bit(f) \in 0 .. 3
         /\ Pos(ch, f) = 4 * Index(ch) + Bit(f)
         /\ Pos(ch, f) \in 0 .. 31
         /\ Pos(ch, f) \div 4 = Index(ch)
<1>1. Bank(ch) \in Banks /\ Index(ch) \in 0 .. 7
  BY DEF AllChannels, MaxChan, MaxChanBase, Bank, Index, Banks
<1>2. Bit(f) \in 0 .. 3
  BY BitValues
<1>3. Pos(ch, f) = 4 * Index(ch) + Bit(f)
  BY DEF Pos, IfOff
<1> QED
  BY <1>1, <1>2, <1>3

\* No two flags share a bit.
LEMMA BitInjective ==
  ASSUME NEW a \in AllChannels, NEW b \in AllChannels, NEW f \in AIF, NEW g \in AIF,
         Bank(a) = Bank(b), Pos(a, f) = Pos(b, g)
  PROVE  a = b /\ f = g
<1>1. Index(a) = Index(b) /\ Bit(f) = Bit(g)
  BY BitPosition
<1>2. a = b
  BY <1>1 DEF AllChannels, MaxChan, MaxChanBase, Bank, Index
<1> QED
  BY <1>1, <1>2, BitValues

\* The effect of a write of flags fs of channel ch to its INTFCR, bit by bit.
LEMMA WriteBits ==
  ASSUME NEW reg \in Registers, NEW ch \in AllChannels, NEW fs \in SUBSET AIF,
         NEW a \in AllChannels, NEW f \in Flags
  PROVE  LET new == WriteINTFCR(reg, Bank(ch), Mask(ch, fs))
         IN /\ new \in Registers
            /\ Pos(a, f) \in new[Bank(a)] <=>
                 /\ Pos(a, f) \in reg[Bank(a)]
                 /\ ~(a = ch /\ (f \in fs \/ "GIF" \in fs))
<1> DEFINE bits == Mask(ch, fs)
           new == WriteINTFCR(reg, Bank(ch), bits)
<1>1. /\ Bank(ch) \in Banks /\ Bank(a) \in Banks
      /\ Pos(a, f) \in 0 .. 31 /\ Pos(a, f) \div 4 = Index(a)
      /\ "GIF" \in AIF /\ f \in AIF
  BY BitPosition, BitValues, Zenon DEF AIF
<1>2. new \in Registers
  BY <1>1 DEF WriteINTFCR, Registers
<1>3. CASE Bank(a) # Bank(ch)
  BY <1>1, <1>2, <1>3 DEF WriteINTFCR, Registers
<1>4. CASE Bank(a) = Bank(ch)
  <2>1. Pos(a, f) \in bits <=> a = ch /\ f \in fs
    BY <1>1, <1>4, BitInjective DEF Mask, Pos
  <2>2. 4 * Index(a) = Pos(a, "GIF")
    BY <1>1, BitPosition, BitValues
  <2>3. 4 * (Pos(a, f) \div 4) \in bits <=> a = ch /\ "GIF" \in fs
    BY <1>1, <1>4, <2>2, BitInjective DEF Mask, Pos
  <2>4. new[Bank(a)] = {b \in reg[Bank(a)] : b \notin bits /\ 4 * (b \div 4) \notin bits}
    BY <1>1, <1>4 DEF WriteINTFCR, Registers
  <2> QED
    BY <1>2, <2>1, <2>3, <2>4
<1> QED
  BY <1>3, <1>4

\* dma_wch_clear_flags() clears all flags of its channel and no other.
LEMMA ClearFlags ==
  ASSUME NEW reg \in Registers, NEW ch \in AllChannels, NEW a \in AllChannels
  PROVE  /\ dma_wch_clear_flags(reg, ch) \in Registers
         /\ dma_wch_get_ip(dma_wch_clear_flags(reg, ch), a)
              = IF a = ch THEN {} ELSE dma_wch_get_ip(reg, a)
<1>1. \A f \in Flags : LET new == WriteINTFCR(reg, Bank(ch), Mask(ch, AIF))
         IN /\ new \in Registers
            /\ Pos(a, f) \in new[Bank(a)] <=> Pos(a, f) \in reg[Bank(a)] /\ a # ch
  BY WriteBits DEF AIF
<1>2. "TC" \in Flags
  BY DEF Flags
<1> QED
  BY <1>1, <1>2 DEF dma_wch_clear_flags, dma_wch_get_ip, Pos

\* The handler clears exactly the flags it has read, of its channel only.
LEMMA ClearSnapshot ==
  ASSUME NEW reg \in Registers, NEW ch \in AllChannels, NEW a \in AllChannels,
         NEW ip \in SUBSET Flags
  PROVE  /\ IsrClear(reg, ch, ip) \in Registers
         /\ dma_wch_get_ip(IsrClear(reg, ch, ip), a)
              = IF a = ch THEN dma_wch_get_ip(reg, a) \ ip ELSE dma_wch_get_ip(reg, a)
<1>1. ip \in SUBSET AIF /\ "GIF" \notin ip /\ "TC" \in Flags
  BY DEF AIF, Flags
<1>2. \A f \in Flags : LET new == WriteINTFCR(reg, Bank(ch), Mask(ch, ip))
         IN /\ new \in Registers
            /\ Pos(a, f) \in new[Bank(a)] <=>
                 Pos(a, f) \in reg[Bank(a)] /\ ~(a = ch /\ f \in ip)
  BY <1>1, WriteBits
<1> QED
  BY <1>1, <1>2 DEF IsrClear, dma_wch_get_ip, Pos

SetFlags(reg, ch, fs) == [reg EXCEPT ![Bank(ch)] = @ \cup Mask(ch, fs)]

\* The engine sets exactly the flags it raises, of its channel only.
LEMMA RaiseFlags ==
  ASSUME NEW reg \in Registers, NEW ch \in AllChannels, NEW a \in AllChannels,
         NEW fs \in SUBSET Flags
  PROVE  /\ SetFlags(reg, ch, fs) \in Registers
         /\ dma_wch_get_ip(SetFlags(reg, ch, fs), a)
              = IF a = ch THEN dma_wch_get_ip(reg, a) \cup fs ELSE dma_wch_get_ip(reg, a)
<1> DEFINE new == [reg EXCEPT ![Bank(ch)] = @ \cup Mask(ch, fs)]
<1>1. fs \in SUBSET AIF /\ Flags \subseteq AIF
  BY DEF AIF
<1>2. Bank(ch) \in Banks /\ Bank(a) \in Banks
  BY BitPosition DEF AIF
<1>3. Mask(ch, fs) \subseteq 0 .. 31
  BY <1>1, BitPosition DEF Mask, Pos
<1>4. new \in Registers
  BY <1>2, <1>3 DEF Registers
<1>5. ASSUME NEW f \in Flags
      PROVE  Pos(a, f) \in new[Bank(a)] <=> Pos(a, f) \in reg[Bank(a)] \/ (a = ch /\ f \in fs)
  <2>1. CASE Bank(a) # Bank(ch)
    BY <1>2, <2>1 DEF Registers
  <2>2. CASE Bank(a) = Bank(ch)
    <3>1. Pos(a, f) \in Mask(ch, fs) <=> a = ch /\ f \in fs
      BY <1>1, <2>2, BitInjective DEF Mask, Pos
    <3> QED
      BY <1>2, <2>2, <3>1 DEF Registers
  <2> QED
    BY <2>1, <2>2
<1> QED
  BY <1>4, <1>5 DEF SetFlags, dma_wch_get_ip, Pos

-----------------------------------------------------------------------------
(* The inductive invariant: the type invariant and, for each channel, what  *)
(* is true of it, its flags and its interrupt.  The last two conjuncts      *)
(* before the one on free channels are needed for what callbacks are told.  *)

Attended(ch) ==
  LET ip == dma_wch_get_ip(intfr, ch)
  IN /\ ChannelInv(chan[ch])
     /\ ip \subseteq raised[ch]
     /\ raised[ch] \subseteq ip \cup Snapshot(ch)
     /\ (ip \ Snapshot(ch)) \cap {"TC", "TE"} # {} => ch \in pfic
     /\ Snapshot(ch) \subseteq raised[ch]
     /\ "TC" \in raised[ch] /\ ~chan[ch].circ => chan[ch].cntr = 0
     /\ ch \notin alloc => /\ chan[ch].state = "UNCONFIGURED"
                          /\ ~chan[ch].en
                          /\ ip = {}

Inv == TypeOK /\ \A ch \in Channels : Attended(ch)

\* The channels of the controller are among those the registers serve.
LEMMA ChannelRange == Channels \subseteq AllChannels
  BY ChannelsAssumption DEF AllChannels

\* A step that does not touch channel a keeps what is true of it.
LEMMA Untouched ==
  ASSUME NEW a \in Channels, Attended(a),
         chan'[a] = chan[a],
         dma_wch_get_ip(intfr', a) = dma_wch_get_ip(intfr, a),
         raised'[a] = raised[a],
         Snapshot(a)' = Snapshot(a),
         a \in pfic => a \in pfic',
         a \in alloc' <=> a \in alloc
  PROVE  Attended(a)'
  BY DEF Attended

\* dma_wch_init() establishes the invariant.
LEMMA InitInv == Init => Inv
<1> SUFFICES ASSUME Init PROVE Inv
  OBVIOUS
<1>1. TypeOK
  BY ResetInv DEF Init, TypeOK, ChannelInv, NoIsr, Statuses, MaxChan, Banks
<1>2. ASSUME NEW ch \in Channels PROVE Attended(ch)
  <2>1. Bank(ch) \in Banks
    BY DEF Bank, Banks
  <2>2. dma_wch_get_ip(intfr, ch) = {}
    BY <2>1 DEF Init, dma_wch_get_ip
  <2>3. chan[ch] = ResetChannel /\ raised[ch] = {} /\ alloc = {} /\ Snapshot(ch) = {}
    BY DEF Init, Snapshot, NoIsr
  <2> QED
    BY <2>2, <2>3, ResetInv DEF Attended, ResetChannel
<1> QED
  BY <1>1, <1>2 DEF Inv

\* An entry point that replaces channel ch by a sound channel c, outside the
\* handler's critical part.
LEMMA ReplaceInv ==
  ASSUME Inv, NEW ch \in Channels, NEW c, ChannelInv(c), Replace(ch, c),
         isr.at # "service", UNCHANGED <<pfic, isr>>,
         \/ ch \in alloc /\ alloc' = alloc
         \/ alloc' = alloc \ {ch} /\ c.state = "UNCONFIGURED" /\ ~c.en
  PROVE  Inv'
<1>1. /\ TypeOK /\ intfr \in Registers /\ ch \in AllChannels /\ Channels \subseteq AllChannels
      /\ chan \in [Channels -> Channel] /\ raised \in [Channels -> SUBSET Flags]
  BY ChannelRange DEF Inv, TypeOK, Registers
<1>2. TypeOK'
  <2>1. intfr' \in Registers
    BY <1>1, ClearFlags DEF Replace
  <2>2. chan' \in [Channels -> Channel] /\ raised' \in [Channels -> SUBSET Flags]
    BY <1>1 DEF Replace, ChannelInv
  <2> QED
    BY <1>1, <2>1, <2>2 DEF TypeOK, Registers
<1>3. ASSUME NEW a \in Channels PROVE Attended(a)'
  <2>1. Attended(a) /\ Snapshot(a)' = Snapshot(a) /\ Snapshot(a)' = {}
    BY DEF Inv, Snapshot
  <2>2. CASE a # ch
    <3>1. chan'[a] = chan[a] /\ raised'[a] = raised[a] /\ (a \in alloc' <=> a \in alloc)
      BY <1>1, <2>2 DEF Replace
    <3>2. dma_wch_get_ip(intfr', a) = dma_wch_get_ip(intfr, a)
      BY <1>1, <2>2, ClearFlags DEF Replace
    <3> QED
      BY <2>1, <3>1, <3>2, Untouched, Zenon
  <2>3. CASE a = ch
    <3>1. chan'[ch] = c /\ raised'[ch] = {}
      BY <1>1 DEF Replace
    <3>2. dma_wch_get_ip(intfr', ch) = {}
      BY <1>1, ClearFlags DEF Replace
    <3> QED
      BY <2>1, <2>3, <3>1, <3>2 DEF Attended
  <2> QED
    BY <2>2, <2>3
<1> QED
  BY <1>2, <1>3 DEF Inv

\* Suspend and resume replace a requested channel and leave its flags alone.
LEMMA SwitchInv ==
  ASSUME Inv, NEW ch \in Channels, NEW c, ChannelInv(c), ch \in alloc,
         c.cntr = chan[ch].cntr, c.circ = chan[ch].circ,
         chan' = [chan EXCEPT ![ch] = c],
         UNCHANGED <<intfr, pfic, isr, alloc, raised>>
  PROVE  Inv'
<1>1. TypeOK'
  BY DEF Inv, TypeOK, ChannelInv
<1>2. ASSUME NEW a \in Channels PROVE Attended(a)'
  <2>1. Attended(a) /\ Snapshot(a)' = Snapshot(a)
    BY DEF Inv, Snapshot
  <2>2. chan'[a] = IF a = ch THEN c ELSE chan[a]
    BY DEF Inv, TypeOK
  <2> QED
    BY <2>1, <2>2 DEF Attended
<1> QED
  BY <1>1, <1>2 DEF Inv

\* dma_request_channel() takes a quiet channel.
LEMMA RequestInv ==
  ASSUME Inv, NEW ch \in Channels, dma_request_channel(ch)
  PROVE  Inv'
<1>1. TypeOK'
  BY DEF Inv, TypeOK, dma_request_channel
<1>2. ASSUME NEW a \in Channels PROVE Attended(a)'
  BY DEF Inv, Attended, Snapshot, dma_request_channel
<1> QED
  BY <1>1, <1>2 DEF Inv

\* The handler reads the flags.
LEMMA EnterInv ==
  ASSUME Inv, NEW ch \in Channels, dma_wch_isr_enter(ch)
  PROVE  Inv'
<1>1. TypeOK /\ ch \in AllChannels
  BY ChannelRange DEF Inv
<1>2. TypeOK'
  BY <1>1 DEF TypeOK, dma_wch_isr_enter, dma_wch_get_ip, Statuses, AllChannels
<1>3. ASSUME NEW a \in Channels PROVE Attended(a)'
  <2>1. Attended(a) /\ Snapshot(a) = {}
    BY DEF Inv, Snapshot, dma_wch_isr_enter
  <2>2. CASE a # ch
    <3>1. Snapshot(a)' = {}
      BY <2>2 DEF Snapshot, dma_wch_isr_enter
    <3> QED
      BY <2>1, <2>2, <3>1, Untouched DEF dma_wch_isr_enter
  <2>3. CASE a = ch
    <3>1. Snapshot(ch)' = dma_wch_get_ip(intfr, ch)
      BY DEF Snapshot, dma_wch_isr_enter
    <3> QED
      BY <2>1, <2>3, <3>1 DEF Attended, dma_wch_isr_enter
  <2> QED
    BY <2>2, <2>3
<1> QED
  BY <1>2, <1>3 DEF Inv

\* The handler clears what it read, puts the channel right and calls back.
LEMMA ServiceInv ==
  ASSUME Inv, NEW ch \in Channels, dma_wch_isr_service(ch)
  PROVE  Inv'
<1>1. /\ TypeOK /\ intfr \in Registers /\ ch \in AllChannels /\ Channels \subseteq AllChannels
      /\ chan \in [Channels -> Channel] /\ raised \in [Channels -> SUBSET Flags]
      /\ isr.ip \in SUBSET Flags /\ isr.at = "service" /\ isr.ch = ch
  BY ChannelRange DEF Inv, TypeOK, Registers, dma_wch_isr_service
<1>2. ChannelInv(IsrChannel(chan[ch], isr.ip))
  BY IsrChannelInv DEF Inv, Attended
<1>3. IsrStatus(chan[ch], isr.ip) \in Statuses
  BY DEF IsrStatus, Statuses
<1>4. isr'.at # "service"
  BY DEF dma_wch_isr_service, NoIsr
<1>5. TypeOK'
  <2>1. intfr' \in Registers
    BY <1>1, ClearSnapshot DEF dma_wch_isr_service
  <2>2. chan' \in [Channels -> Channel] /\ raised' \in [Channels -> SUBSET Flags]
    BY <1>1, <1>2 DEF dma_wch_isr_service, ChannelInv
  <2>3. isr' \in [at : {"idle", "service", "callback"}, ch : 0 .. (MaxChan - 1),
                 ip : SUBSET Flags, status : Statuses]
    BY <1>1, <1>3 DEF dma_wch_isr_service, NoIsr, AllChannels, MaxChan, Statuses
  <2> QED
    BY <1>1, <1>4, <2>1, <2>2, <2>3 DEF TypeOK, Registers, dma_wch_isr_service
<1>6. ASSUME NEW a \in Channels PROVE Attended(a)'
  <2>1. Attended(a) /\ Snapshot(a)' = {}
    BY <1>4 DEF Inv, Snapshot
  <2>2. CASE a # ch
    <3>1. Snapshot(a) = {}
      BY <1>1, <2>2 DEF Snapshot
    <3>2. chan'[a] = chan[a] /\ raised'[a] = raised[a]
      BY <1>1, <2>2 DEF dma_wch_isr_service
    <3>3. dma_wch_get_ip(intfr', a) = dma_wch_get_ip(intfr, a)
      BY <1>1, <2>2, ClearSnapshot DEF dma_wch_isr_service
    <3> QED
      BY <2>1, <3>1, <3>2, <3>3, Untouched, SMTT(30) DEF dma_wch_isr_service
  <2>3. CASE a = ch
    <3>1. Snapshot(ch) = isr.ip
      BY <1>1 DEF Snapshot
    <3>2. chan'[ch] = IsrChannel(chan[ch], isr.ip) /\ raised'[ch] = raised[ch] \ isr.ip
      BY <1>1 DEF dma_wch_isr_service
    <3>3. dma_wch_get_ip(intfr', ch) = dma_wch_get_ip(intfr, ch) \ isr.ip
      BY <1>1, ClearSnapshot DEF dma_wch_isr_service
    <3>4. /\ chan[ch].state = "UNCONFIGURED" => chan'[ch] = chan[ch]
          /\ chan'[ch].cntr = chan[ch].cntr /\ chan'[ch].circ = chan[ch].circ
      BY <1>1, <3>2 DEF IsrChannel, Busy, Channel
    <3>5. pfic' = pfic /\ alloc' = alloc
      BY DEF dma_wch_isr_service
    <3> QED
      BY <1>2, <2>1, <2>3, <3>1, <3>2, <3>3, <3>4, <3>5 DEF Attended
  <2> QED
    BY <2>2, <2>3
<1> QED
  BY <1>5, <1>6 DEF Inv

\* The return from the callback keeps the invariant.
LEMMA ReturnInv ==
  ASSUME Inv, dma_wch_isr_return
  PROVE  Inv'
<1>1. TypeOK'
  BY DEF Inv, TypeOK, dma_wch_isr_return, NoIsr, MaxChan, Statuses
<1>2. ASSUME NEW a \in Channels PROVE Attended(a)'
  BY DEF Inv, Attended, Snapshot, dma_wch_isr_return, NoIsr
<1> QED
  BY <1>1, <1>2 DEF Inv

\* The engine changes a running channel and raises flags.
LEMMA EngineInv ==
  ASSUME Inv, NEW ch \in Channels, NEW c, ChannelInv(c), NEW fs \in SUBSET Flags,
         chan[ch].en, c.state = chan[ch].state,
         "TC" \in raised[ch] \cup fs /\ ~c.circ => c.cntr = 0,
         chan' = [chan EXCEPT ![ch] = c], Raise(ch, fs), UNCHANGED <<isr, alloc>>
  PROVE  Inv'
<1>1. /\ TypeOK /\ intfr \in Registers /\ ch \in AllChannels /\ Channels \subseteq AllChannels
      /\ chan \in [Channels -> Channel] /\ raised \in [Channels -> SUBSET Flags]
  BY ChannelRange DEF Inv, TypeOK, Registers
<1>2. /\ intfr' \in Registers
      /\ \A a \in Channels :
           dma_wch_get_ip(intfr', a)
             = IF a = ch THEN dma_wch_get_ip(intfr, a) \cup fs ELSE dma_wch_get_ip(intfr, a)
  <2>1. intfr' = SetFlags(intfr, ch, fs)
    BY DEF Raise, SetFlags
  <2> QED
    BY <1>1, <2>1, RaiseFlags
<1>3. /\ chan' \in [Channels -> Channel] /\ raised' \in [Channels -> SUBSET Flags]
      /\ pfic' \subseteq Channels /\ pfic \subseteq pfic'
  BY <1>1 DEF Raise, ChannelInv, TypeOK
<1>4. TypeOK'
  BY <1>1, <1>2, <1>3 DEF TypeOK, Registers
<1>5. ASSUME NEW a \in Channels PROVE Attended(a)'
  <2>1. Attended(a) /\ Snapshot(a)' = Snapshot(a)
    BY DEF Inv, Snapshot
  <2>2. CASE a # ch
    <3>1. chan'[a] = chan[a] /\ raised'[a] = raised[a]
      BY <1>1, <2>2 DEF Raise
    <3> QED
      BY <1>2, <1>3, <2>1, <2>2, <3>1, Untouched
  <2>3. CASE a = ch
    <3>1. chan'[ch] = c /\ raised'[ch] = raised[ch] \cup fs
      BY <1>1 DEF Raise
    <3>2. dma_wch_get_ip(intfr', ch) = dma_wch_get_ip(intfr, ch) \cup fs
      BY <1>2
    <3>3. {"TC", "TE"} \subseteq chan[ch].ie /\ ch \in alloc
      BY <2>1, <2>3 DEF Attended, ChannelInv
    <3>4. fs \cap {"TC", "TE"} # {} => ch \in pfic'
      BY <3>3 DEF Raise
    <3> QED
      BY <1>3, <2>1, <2>3, <3>1, <3>2, <3>3, <3>4 DEF Attended
  <2> QED
    BY <2>2, <2>3
<1> QED
  BY <1>4, <1>5 DEF Inv

-----------------------------------------------------------------------------
\* Every step of the driver, of its clients and of the engine keeps the
\* invariant.
LEMMA NextInv == Inv /\ [Next]_vars => Inv'
<1> SUFFICES ASSUME Inv, [Next]_vars PROVE Inv'
  OBVIOUS
<1>1. ASSUME NEW ch \in Channels, Call(ch) PROVE Inv'
  <2>0. ChannelInv(chan[ch]) /\ chan[ch] \in Channel
    BY DEF Inv, Attended, ChannelInv
  <2>1. CASE dma_request_channel(ch)
    BY <2>1, RequestInv
  <2>2. ASSUME NEW r \in Requests, dma_wch_config(ch, r) PROVE Inv'
    <3>1. ChannelInv(Configured(chan[ch], r))
      BY <2>0, <2>2, ConfiguredInv, RequestsAssumption DEF dma_wch_config
    <3> QED
      BY <2>2, <3>1, ReplaceInv DEF dma_wch_config, Callable
  <2>3. ASSUME NEW q \in Reloads, dma_wch_reload(ch, q) PROVE Inv'
    <3>1. ChannelInv(Reloaded(chan[ch], q))
      BY <2>0, <2>3, ReloadedInv, ReloadsAssumption DEF dma_wch_reload
    <3> QED
      BY <2>3, <3>1, ReplaceInv DEF dma_wch_reload, Callable
  <2>4. CASE dma_wch_start(ch)
    <3>1. ChannelInv(Started(chan[ch]))
      BY <2>0, <2>4, StartedInv DEF dma_wch_start
    <3> QED
      BY <2>4, <3>1, ReplaceInv DEF dma_wch_start, Callable
  <2>5. CASE dma_wch_stop(ch)
    <3>1. ChannelInv(Stopped(chan[ch]))
      BY <2>0, StoppedInv
    <3> QED
      BY <2>5, <3>1, ReplaceInv DEF dma_wch_stop, Callable
  <2>6. CASE dma_wch_suspend(ch)
    <3>1. ChannelInv(Suspended(chan[ch]))
      BY <2>0, <2>6, SuspendedInv DEF dma_wch_suspend
    <3>2. /\ Suspended(chan[ch]).cntr = chan[ch].cntr
          /\ Suspended(chan[ch]).circ = chan[ch].circ
      BY <2>0 DEF Suspended, Channel
    <3> QED
      BY <2>6, <3>1, <3>2, SwitchInv, Zenon DEF dma_wch_suspend, Callable
  <2>7. CASE dma_wch_resume(ch)
    <3>1. ChannelInv(Resumed(chan[ch]))
      BY <2>0, <2>7, ResumedInv DEF dma_wch_resume
    <3>2. Resumed(chan[ch]).cntr = chan[ch].cntr /\ Resumed(chan[ch]).circ = chan[ch].circ
      BY <2>0 DEF Resumed, Channel
    <3> QED
      BY <2>7, <3>1, <3>2, SwitchInv, Zenon DEF dma_wch_resume, Callable
  <2>8. CASE dma_wch_chan_release(ch)
    <3>1. ChannelInv(Released(chan[ch]))
      BY <2>0, ReleasedInv
    <3>2. Released(chan[ch]).state = "UNCONFIGURED" /\ ~Released(chan[ch]).en
      BY DEF Released, ResetChannel
    <3> QED
      BY <2>8, <3>1, <3>2, ReplaceInv DEF dma_wch_chan_release, Callable
  <2> QED
    BY <1>1, <2>1, <2>2, <2>3, <2>4, <2>5, <2>6, <2>7, <2>8 DEF Call
<1>2. ASSUME NEW ch \in Channels, EngineMove(ch) PROVE Inv'
  <2>1. ChannelInv(chan[ch]) /\ CanMove(chan[ch]) /\ chan[ch] \in Channel
    BY <1>2 DEF Inv, Attended, EngineMove, ChannelInv
  <2>2. ChannelInv(Moved(chan[ch])) /\ Moved(chan[ch]).state = chan[ch].state
    BY <2>1, MovedInv DEF Moved, Channel
  <2>3. MoveFlags(chan[ch]) \in SUBSET Flags /\ chan[ch].en
    BY <2>1 DEF MoveFlags, Flags, CanMove
  <2>4. ASSUME "TC" \in raised[ch] \cup MoveFlags(chan[ch]), ~Moved(chan[ch]).circ
        PROVE  Moved(chan[ch]).cntr = 0
    <3>1. Moved(chan[ch]).circ = chan[ch].circ /\ chan[ch].cntr > 0 /\ chan[ch].cntr \in Nat
      BY <2>1, MaxBlockAssumption DEF Moved, CanMove, Channel
    <3>2. "TC" \notin raised[ch]
      BY <2>4, <3>1 DEF Inv, Attended
    <3>3. chan[ch].cntr = 1
      BY <2>4, <3>2 DEF MoveFlags
    <3> QED
      BY <2>1, <2>4, <3>1, <3>3 DEF Moved, Channel
  <2> QED
    BY <1>2, <2>2, <2>3, <2>4, EngineInv, Zenon DEF EngineMove
<1>3. ASSUME NEW ch \in Channels, EngineError(ch) PROVE Inv'
  <2>1. ChannelInv(chan[ch]) /\ chan[ch].en /\ chan[ch] \in Channel
    BY <1>3 DEF Inv, Attended, EngineError, CanMove, ChannelInv
  <2>2. /\ ChannelInv(Faulted(chan[ch])) /\ Faulted(chan[ch]).state = chan[ch].state
        /\ Faulted(chan[ch]).cntr = chan[ch].cntr /\ Faulted(chan[ch]).circ = chan[ch].circ
    BY <2>1, FaultedInv DEF Faulted, Channel
  <2>3. {"TE"} \in SUBSET Flags
    BY DEF Flags
  <2>4. "TC" \in raised[ch] \cup {"TE"} /\ ~Faulted(chan[ch]).circ
          => Faulted(chan[ch]).cntr = 0
    BY <2>2 DEF Inv, Attended
  <2> QED
    BY <1>3, <2>1, <2>2, <2>3, <2>4, EngineInv, Zenon DEF EngineError
<1>4. CASE UNCHANGED vars
  BY <1>4 DEF vars, Inv, TypeOK, Attended, Snapshot
<1> QED
  BY <1>1, <1>2, <1>3, <1>4, EnterInv, ServiceInv, ReturnInv DEF Next

\* The invariant holds of every reachable state.
THEOREM Invariance == Spec => []Inv
  BY InitInv, NextInv, PTL DEF Spec

\* Type correctness, the bound of the flag registers included.
THEOREM TypeCorrect == Spec => []TypeOK
<1>1. Inv => TypeOK
  BY DEF Inv
<1> QED
  BY <1>1, Invariance, PTL

\* CFGR.EN is never set on a channel the driver takes for idle.
THEOREM NeverRunsUnattended == Spec => []EnabledOnlyWhileRunning
<1>1. Inv => EnabledOnlyWhileRunning
  BY DEF Inv, Attended, ChannelInv, EnabledOnlyWhileRunning
<1> QED
  BY <1>1, Invariance, PTL

\* No flag of an earlier transfer survives dma_wch_clear_flags().
THEOREM FlagsAreFresh == Spec => []NoStaleFlag
<1>1. Inv => NoStaleFlag
  BY DEF Inv, Attended, NoStaleFlag
<1> QED
  BY <1>1, Invariance, PTL

\* No event is lost between the engine and the handler.
THEOREM EventsAreKept == Spec => []NoLostEvent
<1>1. Inv => NoLostEvent
  BY DEF Inv, Attended, NoLostEvent
<1> QED
  BY <1>1, Invariance, PTL

\* An unread completion or error keeps its interrupt pending.
THEOREM TerminalEventsInterrupt == Spec => []TerminalFlagPends
<1>1. Inv => TerminalFlagPends
  BY DEF Inv, Attended, TerminalFlagPends
<1> QED
  BY <1>1, Invariance, PTL

\* chan_release() hands over a quiet channel, and it stays quiet until it is
\* requested.
THEOREM FreeChannelsAreQuiet == Spec => []FreeChannelIsQuiet
<1>1. Inv => FreeChannelIsQuiet
  BY DEF Inv, Attended, FreeChannelIsQuiet
<1> QED
  BY <1>1, Invariance, PTL

\* get_status() never reports more bytes than the block has, nor a position
\* outside it.
THEOREM StatusIsSound == Spec => []StatusWithinBlock
<1>1. ASSUME NEW c, ChannelInv(c), c.state # "UNCONFIGURED"
      PROVE  /\ Status(c).pending <= c.length
             /\ {Status(c).read, Status(c).write} \subseteq 0 .. (c.length - 1)
  <2>1. /\ c.width \in Widths /\ c.length \in Nat /\ c.length # 0
        /\ c.cntr \in Nat /\ c.cntr <= c.length \div c.width
    BY <1>1, MaxBlockAssumption DEF ChannelInv, Channel, Block
  <2>2. c.cntr * c.width \in Nat /\ c.cntr * c.width <= c.length
    BY <2>1, WidthDivision DEF Widths
  <2>3. Position(c) \in 0 .. (c.length - 1)
    BY <2>1, <2>2 DEF Position, PendingLength
  <2> QED
    BY <2>1, <2>2, <2>3 DEF PendingLength, Status
<1>2. Inv => StatusWithinBlock
  BY <1>1 DEF Inv, Attended, StatusWithinBlock
<1> QED
  BY <1>2, Invariance, PTL

-----------------------------------------------------------------------------
(* What steps never do.                                                     *)

Programme(c) == <<c.paddr, c.maddr, c.length>>

\* dma_config() and dma_reload() never rewrite the addresses or the length of a
\* channel in use.
THEOREM NeverReprogrammedInUse == Spec => ReprogrammedOnlyWhenOff
<1> DEFINE Allowed(ch) ==
      Programme(chan[ch]) # Programme(chan'[ch])
        => \/ ~chan[ch].en /\ ~Busy(chan[ch])
           \/ ch \notin alloc'
<1>1. ASSUME Inv, Next, NEW a \in Channels PROVE Allowed(a)
  <2> SUFFICES ASSUME chan'[a] # chan[a], Programme(chan[a]) # Programme(chan'[a])
               PROVE  \/ ~chan[a].en /\ ~Busy(chan[a])
                      \/ a \notin alloc'
    OBVIOUS
  <2>0. chan[a] \in Channel /\ ChannelInv(chan[a]) /\ chan \in [Channels -> Channel]
    BY <1>1, SMTT(30) DEF Inv, Attended, ChannelInv, TypeOK
  <2>1. PICK ch \in Channels : Call(ch) \/ dma_wch_isr_service(ch) \/ EngineMove(ch) \/ EngineError(ch)
    BY <1>1 DEF Next, dma_wch_isr_enter, dma_wch_isr_return
  <2>2. CASE dma_wch_isr_service(ch) \/ EngineMove(ch) \/ EngineError(ch)
    <3>1. chan'[a] \in {IsrChannel(chan[a], isr.ip), Moved(chan[a]), Faulted(chan[a])}
      BY <2>0, <2>2 DEF dma_wch_isr_service, EngineMove, EngineError
    <3> QED
      BY <2>0, <3>1, Zenon DEF IsrChannel, Moved, Faulted, Programme, Channel
  <2>3. CASE dma_wch_start(ch) \/ dma_wch_stop(ch) \/ dma_wch_suspend(ch) \/ dma_wch_resume(ch)
    <3>1. chan'[a] \in {Started(chan[a]), Stopped(chan[a]), Suspended(chan[a]), Resumed(chan[a])}
      BY <2>0, <2>3 DEF dma_wch_start, dma_wch_stop, dma_wch_suspend, dma_wch_resume, Replace
    <3> QED
      BY <2>0, <3>1, Zenon DEF Started, Stopped, Suspended, Resumed, Programme, Channel
  <2>4. CASE dma_wch_chan_release(ch)
    BY <2>0, <2>4 DEF dma_wch_chan_release, Replace
  <2>5. CASE \E r \in Requests : dma_wch_config(ch, r)
    BY <2>0, <2>5 DEF dma_wch_config, Replace, ConfigResult, Busy, ChannelInv
  <2>6. CASE \E q \in Reloads : dma_wch_reload(ch, q)
    BY <2>0, <2>6 DEF dma_wch_reload, Replace, ReloadResult, Busy, ChannelInv
  <2>7. CASE dma_request_channel(ch)
    BY <2>7 DEF dma_request_channel
  <2> QED
    BY <2>1, <2>2, <2>3, <2>4, <2>5, <2>6, <2>7 DEF Call
<1>2. Inv /\ [Next]_vars => [\A ch \in Channels : Allowed(ch)]_vars
  BY <1>1
<1>3. Spec => [][\A ch \in Channels : Allowed(ch)]_vars
  BY <1>2, Invariance, PTL DEF Spec
<1> QED
  BY <1>3 DEF ReprogrammedOnlyWhenOff, Programme

\* The client callback is only told what is true of the transfer.
THEOREM CallbacksAreTruthful == Spec => EventsAreGenuine
<1> DEFINE Genuine(ch) ==
      isr.at = "service" /\ isr'.at = "callback" /\ isr.ch = ch =>
         LET c == chan[ch] IN
           /\ isr'.status = "EIO" => "TE" \in raised[ch] /\ ~chan'[ch].en
           /\ isr'.status = "COMPLETE" =>
                /\ "TC" \in raised[ch] /\ "TE" \notin isr.ip
                /\ ~c.circ => c.cntr = 0 /\ chan'[ch].state = "CONFIGURED"
           /\ isr'.status = "HALF" =>
                "HT" \in raised[ch] /\ "TC" \notin isr.ip /\ "HT" \in c.ie
<1>1. ASSUME Inv, Next, NEW ch \in Channels PROVE Genuine(ch)
  <2> SUFFICES ASSUME isr.at = "service", isr'.at = "callback", isr.ch = ch
               PROVE  Genuine(ch)
    OBVIOUS
  <2>1. dma_wch_isr_service(ch)
    BY <1>1 DEF Next, Call, dma_request_channel, dma_wch_config, dma_wch_reload,
                dma_wch_start, dma_wch_stop, dma_wch_suspend, dma_wch_resume,
                dma_wch_chan_release, dma_wch_isr_enter, dma_wch_isr_service,
                dma_wch_isr_return, EngineMove, EngineError
  <2>2. /\ isr.ip \subseteq raised[ch]
        /\ "TC" \in raised[ch] /\ ~chan[ch].circ => chan[ch].cntr = 0
        /\ chan[ch] \in Channel
    BY <1>1 DEF Inv, Attended, Snapshot, ChannelInv
  <2>3. /\ isr'.status = IsrStatus(chan[ch], isr.ip)
        /\ chan'[ch] = IsrChannel(chan[ch], isr.ip)
    BY <1>1, <2>1 DEF dma_wch_isr_service, NoIsr, Inv, TypeOK
  <2> QED
    BY <2>2, <2>3 DEF IsrStatus, IsrChannel, Busy, Channel
<1>2. Inv /\ [Next]_vars => [\A ch \in Channels : Genuine(ch)]_vars
  BY <1>1
<1>3. Spec => [][\A ch \in Channels : Genuine(ch)]_vars
  BY <1>2, Invariance, PTL DEF Spec
<1> QED
  BY <1>3 DEF EventsAreGenuine
=============================================================================
