------------------------------- MODULE DmaWch -------------------------------
(***************************************************************************)
(* The WCH DMA driver (src/drivers/dma/dma_wch.c): all channels of one     *)
(* controller, the two interrupt-flag registers they share, Zephyr's       *)
(* channel allocation, the DMA engine, and the interrupt handler with the  *)
(* client callback it makes.                                               *)
(*                                                                         *)
(* The part has one core and every entry point does its work between       *)
(* irq_lock() and irq_unlock(), so an entry point is one action.  The      *)
(* engine does not stop for irq_lock(): the handler is therefore two       *)
(* actions, the read of the flags and the rest, and the engine may move    *)
(* elements and raise flags between them.  The callback runs inside the    *)
(* handler and may call any entry point on any channel.                    *)
(***************************************************************************)
EXTENDS DmaChannel

CONSTANTS Channels,        \* the channels the controller has
          Requests,        \* dma_config() arguments the clients use
          Reloads          \* dma_reload() arguments the clients use

MaxChan     == 11          \* DMA_WCH_MAX_CHAN
MaxChanBase == 8           \* DMA_WCH_MAX_CHAN_BASE

ASSUME ChannelsAssumption == Channels \subseteq 0 .. (MaxChan - 1) /\ Channels # {}
ASSUME RequestsAssumption == Requests \subseteq ConfigRequest
ASSUME ReloadsAssumption == Reloads \subseteq ReloadRequest

VARIABLES chan,            \* [Channels -> Channel]
          intfr,           \* the flag registers: bits set in each bank
          pfic,            \* channels whose interrupt is pending in the PFIC
          isr,             \* the handler in progress
          alloc,           \* Zephyr's bitmap of requested channels
          raised           \* history: events the engine raised in the current
                           \* transfer of a channel and not yet handled

vars == <<chan, intfr, pfic, isr, alloc, raised>>

Banks == {"base", "ext"}
Statuses == {"none", "EIO", "COMPLETE", "HALF"}

-----------------------------------------------------------------------------
(* The flag registers.  A channel owns four adjacent bits: the global flag *)
(* GIF, which reads as the disjunction of the others and which, written to *)
(* INTFCR, clears all four, then TC, HT and TE.                            *)

IfOff(i) == 4 * i                                     \* DMA_WCH_IF_OFF

Bit(f) == CASE f = "GIF" -> 0 [] f = "TC" -> 1 [] f = "HT" -> 2 [] f = "TE" -> 3

AIF == {"GIF"} \cup Flags                             \* DMA_WCH_AIF

\* Mutation: the extension register indexed by the channel number itself.
Index_NotRebased(ch) == ch

Bank(ch)  == IF ch >= MaxChanBase THEN "ext" ELSE "base"
Index(ch) == IF ch >= MaxChanBase THEN ch - MaxChanBase ELSE ch

Mask(ch, fs) == {IfOff(Index(ch)) + Bit(f) : f \in fs}

dma_wch_get_ip(reg, ch) == {f \in Flags : IfOff(Index(ch)) + Bit(f) \in reg[Bank(ch)]}

\* A write to INTFCR (external hardware).
WriteINTFCR(reg, bank, bits) ==
  [reg EXCEPT ![bank] = {b \in @ : b \notin bits /\ 4 * (b \div 4) \notin bits}]

\* Mutation: the half-completion flag is forgotten.
clear_flags_NotHalf(reg, ch) == WriteINTFCR(reg, Bank(ch), Mask(ch, {"TC", "TE"}))

dma_wch_clear_flags(reg, ch) == WriteINTFCR(reg, Bank(ch), Mask(ch, AIF))

\* The engine raises flags (external hardware); an enabled one also pends the
\* channel's interrupt.
Raise(ch, fs) ==
  /\ intfr' = [intfr EXCEPT ![Bank(ch)] = @ \cup Mask(ch, fs)]
  /\ pfic' = IF fs \cap chan[ch].ie # {} THEN pfic \cup {ch} ELSE pfic
  /\ raised' = [raised EXCEPT ![ch] = @ \cup fs]

-----------------------------------------------------------------------------
NoIsr == [at |-> "idle", ch |-> 0, ip |-> {}, status |-> "none"]

\* dma_wch_init(): every channel off, flags cleared, interrupts connected.
Init ==
  /\ chan = [ch \in Channels |-> ResetChannel]
  /\ intfr = [b \in Banks |-> {}]
  /\ pfic = {}
  /\ isr = NoIsr
  /\ alloc = {}
  /\ raised = [ch \in Channels |-> {}]

\* Code outside the handler runs when no handler is active; the callback runs
\* inside it.  Clients only use channels they have requested.
Callable(ch) == isr.at \in {"idle", "callback"} /\ ch \in alloc

\* An entry point that changes channel ch, clears its flags and so starts or
\* ends a transfer.
Replace(ch, c) ==
  /\ chan' = [chan EXCEPT ![ch] = c]
  /\ intfr' = dma_wch_clear_flags(intfr, ch)
  /\ raised' = [raised EXCEPT ![ch] = {}]

\* dma_request_channel(): Zephyr's bitmap under the driver's filter (external).
dma_request_channel(ch) ==
  /\ isr.at \in {"idle", "callback"}
  /\ ch \notin alloc
  /\ alloc' = alloc \cup {ch}
  /\ UNCHANGED <<chan, intfr, pfic, isr, raised>>

dma_wch_config(ch, r) ==
  /\ Callable(ch)
  /\ ConfigResult(chan[ch], r) = "OK"
  /\ Replace(ch, Configured(chan[ch], r))
  /\ UNCHANGED <<pfic, isr, alloc>>

dma_wch_reload(ch, q) ==
  /\ Callable(ch)
  /\ ReloadResult(chan[ch], q) = "OK"
  /\ Replace(ch, Reloaded(chan[ch], q))
  /\ UNCHANGED <<pfic, isr, alloc>>

dma_wch_start(ch) ==
  /\ Callable(ch)
  /\ StartResult(chan[ch]) = "STARTED"
  /\ Replace(ch, Started(chan[ch]))
  /\ UNCHANGED <<pfic, isr, alloc>>

dma_wch_stop(ch) ==
  /\ Callable(ch)
  /\ Replace(ch, Stopped(chan[ch]))
  /\ UNCHANGED <<pfic, isr, alloc>>

\* Neither suspend nor resume clears flags: a completion that raced with the
\* suspension is still serviced.
dma_wch_suspend(ch) ==
  /\ Callable(ch)
  /\ chan[ch].state = "RUNNING"
  /\ chan' = [chan EXCEPT ![ch] = Suspended(@)]
  /\ UNCHANGED <<intfr, pfic, isr, alloc, raised>>

dma_wch_resume(ch) ==
  /\ Callable(ch)
  /\ chan[ch].state = "SUSPENDED"
  /\ chan' = [chan EXCEPT ![ch] = Resumed(@)]
  /\ UNCHANGED <<intfr, pfic, isr, alloc, raised>>

\* dma_release_channel(): the driver's chan_release(), then the bitmap.
dma_wch_chan_release(ch) ==
  /\ Callable(ch)
  /\ Replace(ch, Released(chan[ch]))
  /\ alloc' = alloc \ {ch}
  /\ UNCHANGED <<pfic, isr>>

-----------------------------------------------------------------------------
\* dma_wch_isr(), up to the read of the flags.  The interrupt may be stale: a
\* call that cleared the flags does not withdraw it from the PFIC.
dma_wch_isr_enter(ch) ==
  /\ isr.at = "idle"
  /\ ch \in pfic
  /\ isr' = [at |-> "service", ch |-> ch, ip |-> dma_wch_get_ip(intfr, ch),
             status |-> "none"]
  /\ pfic' = pfic \ {ch}
  /\ UNCHANGED <<chan, intfr, alloc, raised>>

\* Mutation: the handler clears every flag of its channel.
IsrClear_Everything(reg, ch, ip) == WriteINTFCR(reg, Bank(ch), Mask(ch, AIF))

\* Only the flags that were read are cleared: others may have been raised since.
IsrClear(reg, ch, ip) == WriteINTFCR(reg, Bank(ch), Mask(ch, ip))

\* dma_wch_isr(), the rest: clear the flags that were read, put the channel
\* right, then call the client.  CFGR and the software record
\* cannot have changed since the read: interrupts are locked.
dma_wch_isr_service(ch) ==
  /\ isr.at = "service"
  /\ isr.ch = ch
  /\ intfr' = IsrClear(intfr, ch, isr.ip)
  /\ chan' = [chan EXCEPT ![ch] = IsrChannel(@, isr.ip)]
  /\ raised' = [raised EXCEPT ![ch] = @ \ isr.ip]
  /\ LET status == IsrStatus(chan[ch], isr.ip)
     IN isr' = IF status = "none" THEN NoIsr
               ELSE [at |-> "callback", ch |-> ch, ip |-> {}, status |-> status]
  /\ UNCHANGED <<pfic, alloc>>

\* The callback returns; the handler does nothing after it but unlock.
dma_wch_isr_return ==
  /\ isr.at = "callback"
  /\ isr' = NoIsr
  /\ UNCHANGED <<chan, intfr, pfic, alloc, raised>>

-----------------------------------------------------------------------------
\* The engine moves an element, or meets a bus error.
EngineMove(ch) ==
  /\ CanMove(chan[ch])
  /\ chan' = [chan EXCEPT ![ch] = Moved(@)]
  /\ Raise(ch, MoveFlags(chan[ch]))
  /\ UNCHANGED <<isr, alloc>>

EngineError(ch) ==
  /\ CanMove(chan[ch])
  /\ chan' = [chan EXCEPT ![ch] = Faulted(@)]
  /\ Raise(ch, {"TE"})
  /\ UNCHANGED <<isr, alloc>>

Call(ch) ==
  \/ dma_request_channel(ch)
  \/ \E r \in Requests : dma_wch_config(ch, r)
  \/ \E q \in Reloads : dma_wch_reload(ch, q)
  \/ dma_wch_start(ch)
  \/ dma_wch_stop(ch)
  \/ dma_wch_suspend(ch)
  \/ dma_wch_resume(ch)
  \/ dma_wch_chan_release(ch)

Next ==
  \/ \E ch \in Channels :
       \/ Call(ch)
       \/ dma_wch_isr_enter(ch)
       \/ dma_wch_isr_service(ch)
       \/ EngineMove(ch)
       \/ EngineError(ch)
  \/ dma_wch_isr_return

Spec == Init /\ [][Next]_vars

\* The handler runs to its end, its callback returns, and a pending interrupt
\* is taken in the end even if other channels' handlers run in between.
Fairness ==
  /\ WF_vars(dma_wch_isr_return)
  /\ \A ch \in Channels : /\ SF_vars(dma_wch_isr_enter(ch))
                          /\ WF_vars(dma_wch_isr_service(ch))

FairSpec == Spec /\ Fairness

-----------------------------------------------------------------------------
(* Properties.                                                             *)

\* The type invariant.  In particular no channel's flags lie beyond bit 31 of
\* its 32-bit flag register.
TypeOK ==
  /\ chan \in [Channels -> Channel]
  /\ intfr \in [Banks -> SUBSET (0 .. 31)]
  /\ pfic \subseteq Channels
  /\ isr \in [at : {"idle", "service", "callback"}, ch : 0 .. (MaxChan - 1),
              ip : SUBSET Flags, status : Statuses]
  /\ isr.at = "service" => isr.ch \in Channels
  /\ alloc \subseteq Channels
  /\ raised \in [Channels -> SUBSET Flags]

\* The engine never runs on a channel the driver takes for idle: whenever
\* CFGR.EN is set the software state is RUNNING, whatever mix of calls,
\* handler runs and bus errors led there.
EnabledOnlyWhileRunning ==
  \A ch \in Channels : chan[ch].en => chan[ch].state = "RUNNING"

\* A set interrupt flag was raised in the current transfer of its channel:
\* nothing of a transfer that was stopped, released or replaced survives in the
\* flag register to be taken for an event of the next one.
NoStaleFlag ==
  \A ch \in Channels : dma_wch_get_ip(intfr, ch) \subseteq raised[ch]

\* The flags the handler has read and is about to act on.
Snapshot(ch) == IF isr.at = "service" /\ isr.ch = ch THEN isr.ip ELSE {}

\* No event is lost: what the engine raised in the current transfer is in the
\* flag register or in the handler's snapshot until it is handled, although the
\* engine raises flags while the handler is clearing them and all channels of
\* a bank share one register.
NoLostEvent ==
  \A ch \in Channels : raised[ch] \subseteq dma_wch_get_ip(intfr, ch) \cup Snapshot(ch)

\* A completion or an error that nobody has read yet keeps the channel's
\* interrupt pending, so that the channel cannot stay RUNNING unattended.
TerminalFlagPends ==
  \A ch \in Channels :
    (dma_wch_get_ip(intfr, ch) \ Snapshot(ch)) \cap {"TC", "TE"} # {} => ch \in pfic

\* A channel that nobody owns is off, unconfigured and has no flag set: the
\* next owner inherits nothing from the previous one.
FreeChannelIsQuiet ==
  \A ch \in Channels \ alloc :
    /\ chan[ch].state = "UNCONFIGURED"
    /\ ~chan[ch].en
    /\ dma_wch_get_ip(intfr, ch) = {}

\* get_status() makes sense at any moment: no more is pending than the block
\* has, and a circular position lies inside the block.  The UART driver takes
\* length - pending as the number of bytes transferred.
StatusWithinBlock ==
  \A ch \in Channels :
    chan[ch].state # "UNCONFIGURED" =>
      LET s == Status(chan[ch]) IN
        /\ s.pending <= chan[ch].length
        /\ {s.read, s.write} \subseteq 0 .. (chan[ch].length - 1)

\* The address registers and the block length of a channel are only ever
\* rewritten while the channel is off and idle, or when it is released.
ReprogrammedOnlyWhenOff ==
  [][\A ch \in Channels :
       LET c == chan[ch] IN
         <<c.paddr, c.maddr, c.length>>
             # <<chan'[ch].paddr, chan'[ch].maddr, chan'[ch].length>>
           => \/ ~c.en /\ ~Busy(c)
              \/ ch \notin alloc']_vars

\* What the callback is told is true of the transfer it is told about: an
\* error or a completion of a single-block transfer leaves the channel off and
\* ready to be reprogrammed, completion means no element is left, and half
\* completion is never reported once the block has ended.
EventsAreGenuine ==
  [][\A ch \in Channels :
       isr.at = "service" /\ isr'.at = "callback" /\ isr.ch = ch =>
         LET c == chan[ch] IN
           /\ isr'.status = "EIO" => "TE" \in raised[ch] /\ ~chan'[ch].en
           /\ isr'.status = "COMPLETE" =>
                /\ "TC" \in raised[ch] /\ "TE" \notin isr.ip
                /\ ~c.circ => c.cntr = 0 /\ chan'[ch].state = "CONFIGURED"
           /\ isr'.status = "HALF" =>
                "HT" \in raised[ch] /\ "TC" \notin isr.ip /\ "HT" \in c.ie]_vars

\* Every completed or failed transfer is attended to, whatever the callback
\* policy: a terminal event is handled or the client ends the transfer, and a
\* channel whose transfer is over does not stay busy.
TerminalIsServiced ==
  \A ch \in Channels :
    /\ (raised[ch] \cap {"TC", "TE"} # {}) ~> (raised[ch] \cap {"TC", "TE"} = {})
    /\ (/\ Busy(chan[ch])
        /\ "TE" \in raised[ch] \/ ("TC" \in raised[ch] /\ ~chan[ch].circ)) ~> ~Busy(chan[ch])

=============================================================================
