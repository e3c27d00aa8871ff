--------------------------- MODULE UartInitProofs ---------------------------
(***************************************************************************)
(* Proofs about bringing up the USART devices (module UartInit), for every *)
(* clock, every baud rate and every width of the divisor register.         *)
(***************************************************************************)
EXTENDS UartInit, TLAPS

\* The quotient of wch_uart_brr(), with its remainder.
LEMMA Quotient ==
  ASSUME NEW a \in Nat, NEW b \in Nat \ {0}
  PROVE  /\ a \div b \in Nat
         /\ (a \div b) * b <= a /\ a < (a \div b) * b + b
<1>1. a = b * (a \div b) + (a % b) /\ a % b \in 0 .. (b - 1) /\ a \div b \in Int
  OBVIOUS
<1>2. PICK q \in Int, r \in 0 .. (b - 1) : q = a \div b /\ a = b * q + r
  BY <1>1
<1>3. q * b = b * q
  BY <1>2
<1>4. q >= 0
  BY <1>2
<1>5. q \in Nat /\ q * b <= a /\ a < q * b + b
  BY <1>2, <1>3, <1>4
<1> QED
  BY <1>2, <1>5

\* wch_uart_brr(): the divisor is at least 16 and off by half a unit at most.
LEMMA NearestDivisor ==
  ASSUME NEW clock \in Nat, NEW baud \in Nat, wch_uart_brr(clock, baud) # 0
  PROVE  /\ wch_uart_brr(clock, baud) \in 16 .. BrrMax
         /\ 2 * (wch_uart_brr(clock, baud) * baud - clock) \in (-baud) .. baud
<1>1. /\ baud # 0 /\ baud * 16 <= clock
  BY DEF wch_uart_brr
<1>2. PICK h \in Nat : h = baud \div 2 /\ 2 * h <= baud /\ baud <= 2 * h + 1
  BY <1>1
<1>3. PICK d : d = (clock + h) \div baud
  OBVIOUS
<1>4. d \in Nat /\ d * baud <= clock + h /\ clock + h < d * baud + baud
  BY <1>1, <1>2, <1>3, Quotient
<1>5. wch_uart_brr(clock, baud) = d /\ d <= BrrMax
  BY <1>1, <1>2, <1>3, <1>4, InitConstants DEF wch_uart_brr
<1>6. PICK x \in Nat : x = d * baud
  BY <1>4
<1>7. 2 * (x - clock) \in (-baud) .. baud
  BY <1>2, <1>4, <1>6
<1>8. d >= 16
  <2> SUFFICES ASSUME d <= 15 PROVE FALSE
    BY <1>4
  <2>1. d * baud <= 15 * baud
    BY <1>1, <1>4
  <2> QED
    BY <1>1, <1>2, <1>4, <2>1
<1> QED
  BY <1>4, <1>5, <1>6, <1>7, <1>8, InitConstants

-----------------------------------------------------------------------------
(* The inductive invariant: the property itself, with the types.           *)

PortRecord ==
  [state : {"new", "failed", "ready"}, brr : Nat, enabled : BOOLEAN, reserved : BOOLEAN,
   irq : BOOLEAN]

InitType ==
  /\ config \in [Ports -> [clock : Clocks, baud : Bauds, framing : {"8N1", "other"}]]
  /\ port \in [Ports -> PortRecord]
  /\ owner \in [Channels -> Ports \cup {"none", "other"}]
  /\ held \subseteq Channels

InitInv == InitType /\ InitIsAllOrNothing

\* What the property says of one port.
PortInv(p) ==
  IF port[p].state = "ready"
  THEN /\ port[p].enabled /\ Owned(p) = {TxChannel[p], RxChannel[p]}
       /\ port[p].brr \in 16..BrrMax
       /\ 2 * (port[p].brr * config[p].baud - config[p].clock)
            \in (-config[p].baud)..config[p].baud
  ELSE Owned(p) = {} /\ ~port[p].enabled

\* Initialisation is all or nothing if it is for every port and the other clients keep what they hold.
LEMMA ByPort == InitIsAllOrNothing <=> Owned("other") = held /\ \A p \in Ports : PortInv(p)
  BY DEF InitIsAllOrNothing, PortInv

\* The channels of a port are two channels of the controller, its own.
LEMMA ChannelsOf ==
  /\ \A p \in Ports : TxChannel[p] \in Channels /\ RxChannel[p] \in Channels
                      /\ TxChannel[p] # RxChannel[p]
  /\ "none" \notin Ports /\ "other" \notin Ports
<1>1. /\ TxChannel["usart1"] = 3 /\ TxChannel["usart2"] = 6
      /\ RxChannel["usart1"] = 4 /\ RxChannel["usart2"] = 5
  BY DEF TxChannel, RxChannel
<1> QED
  BY <1>1 DEF Ports, Channels

\* usart_wch_tx_init(): both channels, which were free, or nothing changes.
LEMMA BothOrNeither ==
  ASSUME InitType, NEW p \in Ports
  PROVE  /\ usart_wch_tx_init(p).ok \in BOOLEAN
         /\ ~usart_wch_tx_init(p).ok => usart_wch_tx_init(p).own = owner
         /\ usart_wch_tx_init(p).ok =>
              /\ owner[TxChannel[p]] = "none" /\ owner[RxChannel[p]] = "none"
              /\ usart_wch_tx_init(p).own
                   = [owner EXCEPT ![TxChannel[p]] = p, ![RxChannel[p]] = p]
<1>1. PICK t \in Channels, r \in Channels : t = TxChannel[p] /\ r = RxChannel[p] /\ t # r
  BY ChannelsOf
<1>2. p # "none" /\ owner \in [Channels -> Ports \cup {"none", "other"}]
  BY ChannelsOf DEF InitType
<1>3. PICK tx : tx = dma_request_channel(owner, t, p)
  OBVIOUS
<1>4. PICK rx : rx = dma_request_channel(tx, r, p)
  OBVIOUS
<1>5. usart_wch_tx_init(p) =
        IF tx = owner THEN [own |-> owner, ok |-> FALSE]
        ELSE IF rx = tx THEN [own |-> dma_release_channel(tx, t), ok |-> FALSE]
        ELSE [own |-> rx, ok |-> TRUE]
  BY <1>1, <1>3, <1>4 DEF usart_wch_tx_init
<1>6. CASE owner[t] # "none"
  <2>1. tx = owner
    BY <1>3, <1>6 DEF dma_request_channel
  <2> QED
    BY <1>5, <2>1
<1>7. CASE owner[t] = "none" /\ owner[r] # "none"
  <2>1. tx = [owner EXCEPT ![t] = p] /\ tx # owner /\ tx[r] # "none" /\ rx = tx
    BY <1>1, <1>2, <1>3, <1>4, <1>7 DEF dma_request_channel
  <2>2. dma_release_channel(tx, t) = owner
    BY <1>2, <1>7, <2>1, Zenon DEF dma_release_channel
  <2> QED
    BY <1>5, <2>1, <2>2
<1>8. CASE owner[t] = "none" /\ owner[r] = "none"
  <2>1. tx = [owner EXCEPT ![t] = p] /\ tx # owner /\ tx[r] = "none"
    BY <1>1, <1>2, <1>3, <1>8 DEF dma_request_channel
  <2>2. rx = [tx EXCEPT ![r] = p] /\ rx # tx
    BY <1>2, <1>4, <2>1 DEF dma_request_channel
  <2>3. rx = [owner EXCEPT ![t] = p, ![r] = p]
    BY <2>1, <2>2
  <2> QED
    BY <1>1, <1>5, <1>8, <2>1, <2>2, <2>3
<1> QED
  BY <1>6, <1>7, <1>8

\* usart_wch_init(), wherever it fails.
LEMMA DeviceInit ==
  ASSUME InitInv, NEW p \in Ports, NEW fault \in Faults, usart_wch_init(p, fault)
  PROVE  InitInv'
<1>1. InitType /\ Owned("other") = held /\ \A q \in Ports : PortInv(q)
  BY ByPort DEF InitInv
<1>2. /\ port[p].state = "new" /\ UNCHANGED <<config, held>>
      /\ port \in [Ports -> PortRecord] /\ p # "none" /\ p # "other"
  BY <1>1, ChannelsOf DEF usart_wch_init, InitType
<1>3. PICK brr : brr = wch_uart_brr(config[p].clock, config[p].baud)
  OBVIOUS
<1>4. PICK r : r = usart_wch_tx_init(p)
  OBVIOUS
<1>5. PICK early \in BOOLEAN :
        early = (config[p].framing # "8N1" \/ fault # "none" \/ brr = 0)
  BY Zenon
<1>6. /\ early \/ ~r.ok => port' = [port EXCEPT ![p].state = "failed"]
      /\ ~early /\ r.ok =>
           port' = [port EXCEPT ![p] = [state |-> "ready", brr |-> brr, enabled |-> TRUE,
                                        reserved |-> TRUE, irq |-> TRUE]]
      /\ owner' = IF early THEN owner ELSE r.own
  BY <1>3, <1>4, <1>5, Zenon DEF usart_wch_init
<1>7. ASSUME early \/ ~r.ok PROVE InitInv'
  <2>1. owner' = owner
    BY <1>1, <1>4, <1>6, <1>7, BothOrNeither, Zenon
  <2>2. /\ port' \in [Ports -> PortRecord] /\ port'[p].state = "failed"
        /\ (port'[p].enabled <=> port[p].enabled)
        /\ \A q \in Ports \ {p} : port'[q] = port[q]
    BY <1>2, <1>6, <1>7 DEF PortRecord
  <2>3. InitType'
    BY <1>1, <1>2, <2>1, <2>2 DEF InitType
  <2>4. \A q \in Ports : Owned(q)' = Owned(q)
    BY <2>1 DEF Owned
  <2>5. Owned("other")' = held'
    BY <1>1, <1>2, <2>1 DEF Owned
  <2>6. \A q \in Ports : PortInv(q)'
    BY <1>1, <1>2, <2>2, <2>4 DEF PortInv
  <2> QED
    BY <2>3, <2>5, <2>6 DEF InitInv, InitIsAllOrNothing, PortInv
<1>8. ASSUME ~early, r.ok PROVE InitInv'
  <2>1. PICK t \in Channels, x \in Channels : t = TxChannel[p] /\ x = RxChannel[p] /\ t # x
    BY ChannelsOf
  <2>2. /\ owner[t] = "none" /\ owner[x] = "none" /\ owner' = [owner EXCEPT ![t] = p, ![x] = p]
    BY <1>1, <1>4, <1>6, <1>8, <2>1, BothOrNeither
  <2>3. /\ owner' \in [Channels -> Ports \cup {"none", "other"}]
        /\ owner'[t] = p /\ owner'[x] = p /\ \A c \in Channels \ {t, x} : owner'[c] = owner[c]
    BY <1>1, <2>1, <2>2 DEF InitType
  <2>4. /\ config[p].clock \in Nat /\ config[p].baud \in Nat /\ brr # 0
    BY <1>1, <1>5, <1>8, InitConstants, Zenon DEF InitType
  <2>5. /\ brr \in 16 .. BrrMax /\ BrrMax \in Nat
        /\ 2 * (brr * config[p].baud - config[p].clock) \in (-config[p].baud) .. config[p].baud
    BY <1>3, <2>4, NearestDivisor, InitConstants
  <2>6. brr \in Nat
    BY <2>5
  <2>7. /\ port' \in [Ports -> PortRecord] /\ port'[p].state = "ready" /\ port'[p].brr = brr
        /\ port'[p].enabled /\ \A q \in Ports \ {p} : port'[q] = port[q]
    <3>1. PICK r2 : r2 = [state |-> "ready", brr |-> brr, enabled |-> TRUE,
                          reserved |-> TRUE, irq |-> TRUE]
      BY Zenon
    <3>2. r2 \in PortRecord /\ r2.state = "ready" /\ r2.brr = brr /\ r2.enabled
      BY <2>6, <3>1 DEF PortRecord
    <3>3. port' = [port EXCEPT ![p] = r2]
      BY <1>6, <1>8, <3>1
    <3> QED
      BY <1>2, <3>2, <3>3
  <2>8. InitType'
    BY <1>1, <1>2, <2>3, <2>7 DEF InitType
  <2>9. Owned(p) = {}
    BY <1>1, <1>2 DEF PortInv
  <2>10. {c \in Channels : owner'[c] = p} = {t, x}
    <3>1. \A c \in Channels : owner[c] # p
      BY <2>9 DEF Owned
    <3> QED
      BY <2>1, <2>3, <3>1
  <2>11. \A q \in (Ports \cup {"other"}) \ {p} :
           {c \in Channels : owner'[c] = q} = {c \in Channels : owner[c] = q}
    BY <2>2, <2>3, ChannelsOf
  <2>12. PortInv(p)'
    BY <1>2, <2>1, <2>5, <2>7, <2>10 DEF PortInv, Owned
  <2>13. \A q \in Ports \ {p} : PortInv(q)'
    BY <1>1, <1>2, <2>7, <2>11 DEF PortInv, Owned
  <2>14. Owned("other")' = held'
    BY <1>1, <1>2, <2>11 DEF Owned
  <2> QED
    BY <2>8, <2>12, <2>13, <2>14 DEF InitInv, InitIsAllOrNothing, PortInv
<1> QED
  BY <1>7, <1>8

\* Another client of the controller takes a free channel, and gives back its own.
LEMMA OtherClient ==
  ASSUME InitInv, NEW ch \in Channels, OtherRequests(ch) \/ OtherReleases(ch)
  PROVE  InitInv'
<1>1. InitType /\ Owned("other") = held /\ \A q \in Ports : PortInv(q)
  BY ByPort DEF InitInv
<1>2. UNCHANGED <<config, port>>
  BY DEF OtherRequests, OtherReleases
<1>3. \/ owner[ch] = "none" /\ owner' = [owner EXCEPT ![ch] = "other"] /\ held' = held \cup {ch}
      \/ owner[ch] = "other" /\ owner' = [owner EXCEPT ![ch] = "none"] /\ held' = held \ {ch}
  <2>1. CASE OtherRequests(ch)
    BY <2>1 DEF OtherRequests, dma_request_channel
  <2>2. CASE OtherReleases(ch)
    BY <1>1, <2>2 DEF OtherReleases, dma_release_channel, Owned
  <2> QED
    BY <2>1, <2>2
<1>4. InitType'
  BY <1>1, <1>2, <1>3 DEF InitType
<1>5. Owned("other")' = held'
  BY <1>1, <1>3 DEF Owned, InitType
<1>6. \A q \in Ports : {c \in Channels : owner'[c] = q} = {c \in Channels : owner[c] = q}
  BY <1>1, <1>3, ChannelsOf DEF InitType
<1>7. \A q \in Ports : PortInv(q)'
  BY <1>1, <1>2, <1>6 DEF PortInv, Owned
<1> QED
  BY <1>4, <1>5, <1>7 DEF InitInv, InitIsAllOrNothing, PortInv

\* A device that is ready owns exactly its two channels and runs at the divisor
\* nearest to its baud rate, within the register; one whose usart_wch_init()
\* failed, at whichever step, owns none and was never enabled; and no init takes
\* or frees a channel of another client.
THEOREM AllOrNothing == Spec => []InitIsAllOrNothing
<1>1. Init => InitInv
  <2> SUFFICES ASSUME Init PROVE InitInv
    OBVIOUS
  <2>1. InitType
    BY DEF Init, InitType, Reset, PortRecord
  <2>2. \A c \in Channels : owner[c] = "none"
    BY DEF Init
  <2>3. \A q \in Ports \cup {"other"} : Owned(q) = {}
    BY <2>2, ChannelsOf DEF Owned
  <2>4. \A q \in Ports : port[q].state = "new" /\ ~port[q].enabled
    BY DEF Init, Reset
  <2>5. Owned("other") = held /\ \A q \in Ports : PortInv(q)
    BY <2>3, <2>4 DEF Init, PortInv
  <2> QED
    BY <2>1, <2>5, ByPort DEF InitInv
<1>2. InitInv /\ [Next]_vars => InitInv'
  <2> SUFFICES ASSUME InitInv, [Next]_vars PROVE InitInv'
    OBVIOUS
  <2>1. CASE UNCHANGED vars
    BY <2>1 DEF vars, InitInv, InitType, InitIsAllOrNothing, Owned
  <2> QED
    BY <2>1, DeviceInit, OtherClient DEF Next
<1>3. InitInv => InitIsAllOrNothing
  BY DEF InitInv
<1> QED
  BY <1>1, <1>2, <1>3, PTL DEF Spec
=============================================================================
