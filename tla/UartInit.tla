------------------------------ MODULE UartInit ------------------------------
(***************************************************************************)
(* Bringing up the USART devices with DMA (usart_wch_init of               *)
(* drivers/serial/uart_wch_usart.c, usart_wch_tx_init of                   *)
(* uart_wch_tx_impl.h, wch_uart_brr of uart_wch_contract.h), beside other  *)
(* clients of the DMA controller.  Each init may fail at any of its steps. *)
(***************************************************************************)
EXTENDS Integers, FiniteSets

CONSTANTS Clocks,   \* rates the clock controller may report, in Hz
          Bauds,    \* values of current_speed
          BrrMax    \* UINT16_MAX

ASSUME InitConstants == Clocks \subseteq Nat /\ Bauds \subseteq Nat /\ BrrMax \in Nat

VARIABLES config,  \* per port: the device tree's speed and framing, the clock's rate
          port,    \* per port: its state and registers
          owner,   \* the DMA core's allocation of channels
          held     \* ghost: the channels the other clients were given

vars == <<config, port, owner, held>>

Ports == {"usart1", "usart2"}
Channels == 3..6

\* The fixed request mapping the build asserts (zero-based channels).
TxChannel == [usart1 |-> 3, usart2 |-> 6]
RxChannel == [usart1 |-> 4, usart2 |-> 5]

\* The calls that may fail; "none" is an init that gets through them.
Faults == {"none", "clock not ready", "dma not ready", "clock on", "rate", "pins"}

Reset == [state |-> "new", brr |-> 0, enabled |-> FALSE, reserved |-> FALSE, irq |-> FALSE]

Init ==
  /\ config \in [Ports -> [clock : Clocks, baud : Bauds, framing : {"8N1", "other"}]]
  /\ port = [p \in Ports |-> Reset]
  /\ owner = [c \in Channels |-> "none"]
  /\ held = {}

\* The divisor, or 0 for the errors -EINVAL and -ERANGE.
wch_uart_brr(clock, baud) ==
  LET divisor == (clock + baud \div 2) \div baud IN
  IF baud = 0 \/ clock = 0 THEN 0
  ELSE IF baud * 16 > clock \/ divisor > BrrMax THEN 0 ELSE divisor

\* The DMA core: a filter that names one channel gets that one, if it is free.
dma_request_channel(own, ch, client) ==
  IF own[ch] = "none" THEN [own EXCEPT ![ch] = client] ELSE own

dma_release_channel(own, ch) == [own EXCEPT ![ch] = "none"]

\* Mutation: the TX channel is kept when RX is taken.
tx_init_NoRollback(p) ==
  LET tx == dma_request_channel(owner, TxChannel[p], p)
      rx == dma_request_channel(tx, RxChannel[p], p)
  IN [own |-> rx, ok |-> tx # owner /\ rx # tx]

\* Both channels or neither; a refused request returns no channel to release.
usart_wch_tx_init(p) ==
  LET tx == dma_request_channel(owner, TxChannel[p], p)
      rx == dma_request_channel(tx, RxChannel[p], p)
  IN IF tx = owner THEN [own |-> owner, ok |-> FALSE]
     ELSE IF rx = tx THEN [own |-> dma_release_channel(tx, TxChannel[p]), ok |-> FALSE]
     ELSE [own |-> rx, ok |-> TRUE]

usart_wch_init(p, fault) ==
  LET brr == wch_uart_brr(config[p].clock, config[p].baud)
      early == config[p].framing # "8N1" \/ fault # "none" \/ brr = 0
      r == usart_wch_tx_init(p)
  IN
  /\ port[p].state = "new"
  /\ IF early \/ ~r.ok
     THEN port' = [port EXCEPT ![p].state = "failed"]
     ELSE port' = [port EXCEPT ![p] = [state |-> "ready", brr |-> brr, enabled |-> TRUE,
                                       reserved |-> TRUE, irq |-> TRUE]]
  /\ owner' = IF early THEN owner ELSE r.own
  /\ UNCHANGED <<config, held>>

\* Another driver takes a channel, by name or as the first free one, and
\* gives it back.
OtherRequests(ch) ==
  /\ owner[ch] = "none"
  /\ owner' = dma_request_channel(owner, ch, "other") /\ held' = held \cup {ch}
  /\ UNCHANGED <<config, port>>

OtherReleases(ch) ==
  /\ ch \in held
  /\ owner' = dma_release_channel(owner, ch) /\ held' = held \ {ch}
  /\ UNCHANGED <<config, port>>

Next ==
  \/ \E p \in Ports, fault \in Faults : usart_wch_init(p, fault)
  \/ \E ch \in Channels : OtherRequests(ch) \/ OtherReleases(ch)

Spec == Init /\ [][Next]_vars

Owned(client) == {ch \in Channels : owner[ch] = client}

\* Whoever comes first and wherever an init fails: a device that is ready owns
\* exactly its two channels and runs at the divisor nearest to its baud rate,
\* within the register's width; one that failed owns none (the TX channel is
\* given back when RX is taken) and was never enabled; and no init ever takes
\* or frees a channel another client holds.
InitIsAllOrNothing ==
  /\ Owned("other") = held
  /\ \A p \in Ports :
       LET c == config[p] IN
       IF port[p].state = "ready"
       THEN /\ port[p].enabled /\ Owned(p) = {TxChannel[p], RxChannel[p]}
            /\ port[p].brr \in 16..BrrMax
            /\ 2 * (port[p].brr * c.baud - c.clock) \in -c.baud..c.baud
       ELSE Owned(p) = {} /\ ~port[p].enabled
=============================================================================
