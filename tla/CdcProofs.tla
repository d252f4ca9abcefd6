------------------------------ MODULE CdcProofs ------------------------------
(* Theorems about module Cdc, for packets of any size and a queue of tokens of *)
(* any length: the host gets back what it sent, and what it has read of the    *)
(* configuration is what the device serves.                                    *)
EXTENDS Cdc, TLAPS, SequenceTheorems, FiniteSetTheorems, WellFoundedInduction

-----------------------------------------------------------------------------
(* The inductive invariant: where each packet is that the host waits for, and  *)
(* which descriptor each side will use next.                                   *)

Tokens == [tx : BOOLEAN, bank : Banks]
HostPackets == [id : Ids, len : Nat]

EndpointShape ==
  /\ ep \in [data0 : Banks, tx_next : Banks, tx_last : Banks, pending : {NoData},
             rx_handler : BOOLEAN]
  /\ endpt \subseteq {0, 1, 2}

DescriptorShape ==
  /\ bdt_rx \in [Banks -> [own : BOOLEAN, addr : Banks, count : Nat]]
  /\ bdt_tx \in [Banks -> [own : BOOLEAN, pid : {"none", "IN"}, toggle : Banks,
                           packet : {NoData} \cup [addr : Banks, len : Nat]]]
  /\ \A b \in Banks : bdt_tx[b].own => bdt_tx[b].packet \in [addr : Banks, len : Nat]
  /\ buffers \in [Banks -> Ids]

QueueShape ==
  /\ pc \in {"idle", "loop", "end"} /\ (pc # "idle" => stat # << >>)
  /\ rx_odd \in Banks /\ tx_odd \in Banks
  /\ stat \in Seq(Tokens) /\ Len(stat) <= FifoSize
  /\ usbrst \in BOOLEAN /\ irq \in {"on", "error", "off"}

HostShape ==
  /\ host \in [asks : {host.asks}, config : {host.config}, open : BOOLEAN,
               sent : Seq(HostPackets), next : Ids, toggle : Banks, due : HostPackets,
               got : HostPackets]
  /\ Len(host.sent) <= Window

Shape == EndpointShape /\ DescriptorShape /\ QueueShape /\ HostShape

\* Places in the queue of tokens of packets the host has sent, and those of them that the
\* handler has still to come to.
Received == {i \in DOMAIN stat : ~stat[i].tx}
Waiting == {i \in Received : ~(pc = "end" /\ i = 1)}

\* Two tokens of received packets are about different descriptors, which the driver keeps
\* until it has done with the token.
ReceiveInv ==
  /\ \A b \in Banks : bdt_rx[b].addr = b
  /\ \A i \in Received : ~bdt_rx[stat[i].bank].own
  /\ \A i, j \in Received : i < j => stat[i].bank = rx_odd /\ stat[j].bank = 1 - rx_odd

\* Packets the host waits for.
Pending == Len(host.sent)

\* Echoes on their way.
Echoes == IF ~bdt_tx[tx_odd].own THEN 0 ELSE IF bdt_tx[1 - tx_odd].own THEN 2 ELSE 1

\* The descriptor of the kth echo.
Carrier(k) == IF k = 1 THEN tx_odd ELSE 1 - tx_odd

\* The toggle and the descriptor's number are the same, on both sides.
TransmitInv ==
  /\ host.toggle = tx_odd
  /\ ep.tx_next = (IF Echoes = 1 THEN 1 - tx_odd ELSE tx_odd) /\ ep.data0 = ep.tx_next
  /\ \A b \in Banks : bdt_tx[b].own => bdt_tx[b].toggle = b
  /\ bdt_tx[1 - tx_odd].own => bdt_tx[tx_odd].own

\* The buffer of the kth packet that the host waits for.
Home(k) == IF k = Pending THEN 1 - rx_odd ELSE rx_odd

\* The handler still has to come to a packet in the buffer of descriptor b.
WaitsAt(b) == \E i \in Waiting : stat[i].bank = b

\* The kth packet the host waits for is in its buffer, with the length that the descriptor
\* of its echo or of its token says.
PacketAt(k) ==
  /\ buffers[Home(k)] = host.sent[k].id
  /\ k <= Echoes => /\ bdt_tx[Carrier(k)].packet.addr = Home(k)
                    /\ irq = "on" => bdt_tx[Carrier(k)].packet.len = host.sent[k].len
  /\ k > Echoes => (irq = "on" => bdt_rx[Home(k)].count = host.sent[k].len)

\* The first packets the host waits for are the echoes on their way, and the others have
\* tokens waiting.
PacketInv ==
  /\ Pending <= 2 /\ Echoes <= Pending
  /\ WaitsAt(1 - rx_odd) <=> Echoes < Pending
  /\ WaitsAt(rx_odd) <=> Echoes = 0 /\ Pending = 2
  /\ \A k \in 1 .. Pending : PacketAt(k)

\* Before SET_CONFIG nothing is under way, and after it the handler is in place.
OpenInv ==
  IF host.open THEN ep.rx_handler /\ ~usbrst
  ELSE /\ host.sent = << >> /\ stat = << >> /\ pc = "idle" /\ irq = "on"
       /\ host.toggle = 0 /\ host.got = NoPacket /\ host.due = NoPacket

IInv == Shape /\ ReceiveInv /\ TransmitInv /\ PacketInv /\ OpenInv /\ EchoInOrder

\* A packet of endpoint 0 is no longer than one of endpoint 2.
SmallPackets == EP0_BUFSIZE <= CDC_RX_SIZE

-----------------------------------------------------------------------------
(* The variables keep their shape.                                             *)

LEMMA TransmitterShape ==
  ASSUME Shape, NEW a \in Banks, NEW n \in Nat
  PROVE  LET t == usb_tx(Transmitter, [addr |-> a, len |-> n])
             u == usb_init_ep(Transmitter)
         IN  /\ t.ep = (IF bdt_tx[ep.tx_next].own THEN ep
                        ELSE [ep EXCEPT !.tx_next = 1 - @, !.data0 = 1 - @])
             /\ t.bdt = (IF bdt_tx[ep.tx_next].own THEN bdt_tx
                         ELSE [bdt_tx EXCEPT ![ep.tx_next] =
                                 [own |-> TRUE, pid |-> "none", toggle |-> ep.data0,
                                  packet |-> [addr |-> a, len |-> n]]])
             /\ u.ep = [ep EXCEPT !.tx_last = 1, !.tx_next = 0]
             /\ u.bdt = [b \in Banks |-> [own |-> FALSE, pid |-> "none", toggle |-> 0,
                                          packet |-> NoData]]
BY DEF Shape, EndpointShape, usb_tx, usb_init_ep, ep_clear_tx, Transmitter, Owned, Cleared,
   Finished, Banks

LEMMA ShapeInit == Init => Shape
BY CdcAssumption DEF Init, Shape, EndpointShape, DescriptorShape, QueueShape, HostShape,
   NewEndpoint, Banks, Cleared, Finished, NoData, Ids, Fresh, NoPacket, HostPackets, Tokens

LEMMA HeadToken ==
  ASSUME Shape, stat # << >>
  PROVE  Head(stat) \in Tokens /\ Head(stat).bank \in Banks /\ Head(stat).tx \in BOOLEAN
<1>1. stat \in Seq(Tokens)
  BY DEF Shape, QueueShape
<1>2. Head(stat) \in Tokens
  BY <1>1
<1>3. QED
  BY <1>2 DEF Tokens

\* The echo of a packet, in the terms of the variables.
LEMMA EchoStep ==
  ASSUME Shape, TokenOut, ep.rx_handler
  PROVE  LET d == bdt_rx[Head(stat).bank]
         IN  /\ stat # << >> /\ Head(stat) \in Tokens /\ ~Head(stat).tx /\ pc # "end" /\ pc' = "end"
             /\ d.addr \in Banks /\ d.count \in Nat
             /\ ep' = (IF bdt_tx[ep.tx_next].own THEN ep
                       ELSE [ep EXCEPT !.tx_next = 1 - @, !.data0 = 1 - @])
             /\ bdt_tx' = (IF bdt_tx[ep.tx_next].own THEN bdt_tx
                           ELSE [bdt_tx EXCEPT ![ep.tx_next] =
                                   [own |-> TRUE, pid |-> "none", toggle |-> ep.data0,
                                    packet |-> [addr |-> d.addr, len |-> d.count]]])
<1> DEFINE d == bdt_rx[Head(stat).bank]
<1>1. stat # << >> /\ Head(stat) \in Tokens /\ ~Head(stat).tx /\ pc # "end" /\ pc' = "end"
  BY DEF TokenOut, AtToken, Shape, QueueShape
<1>2. d.addr \in Banks /\ d.count \in Nat
  BY <1>1 DEF Shape, DescriptorShape, Tokens
<1> DEFINE t == usb_tx(Transmitter, [addr |-> d.addr, len |-> d.count])
<1>3. ep' = t.ep /\ bdt_tx' = t.bdt
  BY DEF TokenOut, Becomes, cdc_rx_handler
<1> HIDE DEF d
<1>4. /\ t.ep = (IF bdt_tx[ep.tx_next].own THEN ep
                 ELSE [ep EXCEPT !.tx_next = 1 - @, !.data0 = 1 - @])
      /\ t.bdt = (IF bdt_tx[ep.tx_next].own THEN bdt_tx
                  ELSE [bdt_tx EXCEPT ![ep.tx_next] =
                          [own |-> TRUE, pid |-> "none", toggle |-> ep.data0,
                           packet |-> [addr |-> d.addr, len |-> d.count]]])
  BY <1>2, TransmitterShape
<1> HIDE DEF t
<1>5. QED
  BY <1>1, <1>2, <1>3, <1>4 DEF d

\* What SET_CONFIG makes of endpoint 2.
LEMMA ConfigStep ==
  ASSUME Shape, usb_set_config
  PROVE  /\ ep' = [ep EXCEPT !.tx_last = 1, !.tx_next = 0, !.rx_handler = TRUE]
         /\ bdt_tx' = [b \in Banks |-> [own |-> FALSE, pid |-> "none", toggle |-> 0,
                                        packet |-> NoData]]
         /\ bdt_rx' = [b \in Banks |-> [own |-> TRUE, addr |-> b, count |-> 64]]
<1> DEFINE u == usb_init_ep(Transmitter)
<1>1. 0 \in Banks /\ 0 \in Nat
  BY DEF Banks
<1>2. /\ u.ep = [ep EXCEPT !.tx_last = 1, !.tx_next = 0]
      /\ u.bdt = [b \in Banks |-> [own |-> FALSE, pid |-> "none", toggle |-> 0,
                                   packet |-> NoData]]
  BY <1>1, TransmitterShape
<1>3. ep' = [u.ep EXCEPT !.rx_handler = TRUE] /\ bdt_tx' = u.bdt
  BY DEF usb_set_config, Becomes, usb_init_ep, ep_clear_tx, Transmitter
<1> HIDE DEF u
<1>4. bdt_rx' = [b \in Banks |-> [own |-> TRUE, addr |-> b, count |-> 64]]
  BY DEF usb_set_config, ReceiveInit, CDC_RX_SIZE
<1>5. QED
  BY <1>2, <1>3, <1>4 DEF Shape, EndpointShape

\* The packet the host sends, cut to n bytes in its buffer.
LEMMA SendStep ==
  ASSUME Shape, HostSends
  PROVE  \E size \in Nat : \E n \in Nat :
           /\ n <= size /\ (irq' = "on" => n = size)
           /\ irq' \in {"on", "error", "off"} /\ (irq' = "on" => irq = "on")
           /\ bdt_rx' = [bdt_rx EXCEPT ![rx_odd] =
                           [bdt_rx[rx_odd] EXCEPT !.own = FALSE, !.count = n]]
           /\ buffers' = [buffers EXCEPT ![bdt_rx[rx_odd].addr] = host.next]
           /\ host' = [host EXCEPT !.sent = Append(@, [id |-> host.next, len |-> size]),
                                   !.next = (@ + 1) % (Window + 1)]
           /\ n = MinOf(size, bdt_rx[rx_odd].count) /\ size \in PacketSizes
<1> PICK size \in PacketSizes :
      LET d == bdt_rx[rx_odd]
          n == MinOf(size, d.count)
      IN  /\ bdt_rx' = [bdt_rx EXCEPT ![rx_odd] = [d EXCEPT !.own = FALSE, !.count = n]]
          /\ buffers' = [buffers EXCEPT ![d.addr] = host.next]
          /\ irq' = IF n < size /\ irq = "on" THEN "error" ELSE irq
          /\ host' = [host EXCEPT !.sent = Append(@, [id |-> host.next, len |-> size]),
                                  !.next = (@ + 1) % (Window + 1)]
  BY DEF HostSends
<1>1. size \in Nat
  BY CdcAssumption DEF CDC_RX_SIZE
<1> DEFINE n == MinOf(size, bdt_rx[rx_odd].count)
<1>2. n \in Nat /\ n <= size
  BY <1>1 DEF MinOf, Shape, DescriptorShape, QueueShape
<1>3. irq' = IF n < size /\ irq = "on" THEN "error" ELSE irq
  OBVIOUS
<1> HIDE DEF n
<1>4. (irq' = "on" => n = size) /\ irq' \in {"on", "error", "off"} /\ (irq' = "on" => irq = "on")
  BY <1>1, <1>2, <1>3 DEF Shape, QueueShape
<1>5. QED
  BY <1>1, <1>2, <1>4 DEF n

LEMMA EndpointShapeStep ==
  ASSUME Shape, [Next]_vars
  PROVE  EndpointShape'
<1>0. /\ ep \in [data0 : Banks, tx_next : Banks, tx_last : Banks, pending : {NoData},
                 rx_handler : BOOLEAN]
      /\ endpt \subseteq {0, 1, 2}
  BY DEF Shape, EndpointShape
<1>1. CASE TokenOut
  <2>1. endpt' = endpt
    BY <1>1 DEF TokenOut
  <2>2. CASE ep.rx_handler
    <3>1. ep' = (IF bdt_tx[ep.tx_next].own THEN ep
                 ELSE [ep EXCEPT !.tx_next = 1 - @, !.data0 = 1 - @])
      BY <1>1, <2>2, EchoStep
    <3>2. 1 - ep.tx_next \in Banks /\ 1 - ep.data0 \in Banks
      BY <1>0 DEF Banks
    <3> QED
      BY <1>0, <2>1, <3>1, <3>2 DEF EndpointShape
  <2>3. CASE ~ep.rx_handler
    BY <1>0, <1>1, <2>3 DEF TokenOut, EndpointShape
  <2> QED
    BY <2>2, <2>3
<1>2. CASE TokenIn
  <2>1. Head(stat).bank \in Banks
    BY <1>2, HeadToken DEF TokenIn, AtToken
  <2> QED
    BY <1>0, <1>2, <2>1 DEF TokenIn, EndpointShape
<1>3. CASE usb_set_config
  <2>1. 0 \in Banks /\ 1 \in Banks
    BY DEF Banks
  <2> QED
    BY <1>0, <1>3, <2>1, ConfigStep DEF usb_set_config, EndpointShape
<1>4. CASE usb_reset
  BY <1>0, <1>4 DEF usb_reset, EndpointShape
<1>5. CASE UNCHANGED <<ep, endpt>>
  BY <1>0, <1>5 DEF EndpointShape
<1> QED
  BY <1>1, <1>2, <1>3, <1>4, <1>5
     DEF Next, USBOTG_IRQHandler, TokenDone, usb_error, HostAsks, HostSends, HostTakes, HostReset,
         vars

ReceiveDescriptors == [own : BOOLEAN, addr : Banks, count : Nat]
TransmitDescriptors == [own : BOOLEAN, pid : {"none", "IN"}, toggle : Banks,
                        packet : {NoData} \cup [addr : Banks, len : Nat]]

LEMMA ReceiveDescriptorSet ==
  ASSUME NEW d \in ReceiveDescriptors, NEW o \in BOOLEAN, NEW n \in Nat
  PROVE  [d EXCEPT !.own = o, !.count = n] \in ReceiveDescriptors
BY Zenon DEF ReceiveDescriptors

LEMMA DescriptorShapeStep ==
  ASSUME Shape, [Next]_vars
  PROVE  DescriptorShape'
<1>0. /\ bdt_rx \in [Banks -> ReceiveDescriptors]
      /\ bdt_tx \in [Banks -> TransmitDescriptors]
      /\ \A b \in Banks : bdt_tx[b].own => bdt_tx[b].packet \in [addr : Banks, len : Nat]
      /\ buffers \in [Banks -> Ids] /\ rx_odd \in Banks /\ tx_odd \in Banks
  BY DEF Shape, DescriptorShape, QueueShape, ReceiveDescriptors, TransmitDescriptors
<1> SUFFICES /\ bdt_rx' \in [Banks -> ReceiveDescriptors]
             /\ bdt_tx' \in [Banks -> TransmitDescriptors]
             /\ \A b \in Banks : bdt_tx'[b].own => bdt_tx'[b].packet \in [addr : Banks, len : Nat]
             /\ buffers' \in [Banks -> Ids]
  BY DEF DescriptorShape, ReceiveDescriptors, TransmitDescriptors
<1>1. CASE TokenOut
  <2>0. UNCHANGED <<bdt_rx, buffers>>
    BY <1>1 DEF TokenOut
  <2>1. CASE ep.rx_handler
    <3> DEFINE d == bdt_rx[Head(stat).bank]
               new == [own |-> TRUE, pid |-> "none", toggle |-> ep.data0,
                       packet |-> [addr |-> d.addr, len |-> d.count]]
    <3>1. d.addr \in Banks /\ d.count \in Nat
      BY <1>1, <2>1, EchoStep
    <3>2. bdt_tx' = (IF bdt_tx[ep.tx_next].own THEN bdt_tx
                     ELSE [bdt_tx EXCEPT ![ep.tx_next] = new])
      BY <1>1, <2>1, EchoStep
    <3>3. ep.data0 \in Banks
      BY DEF Shape, EndpointShape
    <3> HIDE DEF d
    <3>4. new \in TransmitDescriptors /\ new.packet \in [addr : Banks, len : Nat]
      BY <3>1, <3>3 DEF TransmitDescriptors
    <3> HIDE DEF new
    <3> QED
      BY <1>0, <2>0, <3>2, <3>4
  <2>2. CASE ~ep.rx_handler
    BY <1>0, <1>1, <2>0, <2>2 DEF TokenOut
  <2> QED
    BY <2>1, <2>2
<1>2. CASE TokenDone
  <2> DEFINE b == Head(stat).bank
             new == [bdt_rx[b] EXCEPT !.own = TRUE, !.count = EP0_BUFSIZE]
  <2>1. b \in Banks
    BY <1>2, HeadToken DEF TokenDone, Shape, QueueShape
  <2>2. new \in ReceiveDescriptors
    BY <1>0, <2>1, BufferAssumption, ReceiveDescriptorSet
  <2>3. bdt_rx' = IF Head(stat).tx THEN bdt_rx ELSE [bdt_rx EXCEPT ![b] = new]
    BY <1>2 DEF TokenDone
  <2>4. UNCHANGED <<bdt_tx, buffers>>
    BY <1>2 DEF TokenDone
  <2> HIDE DEF new, b
  <2> QED
    BY <1>0, <2>2, <2>3, <2>4
<1>3. CASE usb_set_config
  <2>1. buffers' = buffers
    BY <1>3 DEF usb_set_config
  <2>2. \A b \in Banks : [own |-> TRUE, addr |-> b, count |-> 64] \in ReceiveDescriptors
    BY DEF ReceiveDescriptors
  <2>3. [own |-> FALSE, pid |-> "none", toggle |-> 0, packet |-> NoData] \in TransmitDescriptors
    BY DEF TransmitDescriptors, Banks
  <2>4. bdt_rx' = [b \in Banks |-> [own |-> TRUE, addr |-> b, count |-> 64]]
    BY <1>3, ConfigStep
  <2>5. bdt_tx' = [b \in Banks |-> [own |-> FALSE, pid |-> "none", toggle |-> 0,
                                    packet |-> NoData]]
    BY <1>3, ConfigStep
  <2>6. bdt_rx' \in [Banks -> ReceiveDescriptors]
    BY <2>2, <2>4
  <2>7. bdt_tx' \in [Banks -> TransmitDescriptors] /\ \A b \in Banks : ~bdt_tx'[b].own
    BY <2>3, <2>5
  <2> QED
    BY <1>0, <2>1, <2>6, <2>7
<1>4. CASE HostSends
  <2>1. host.next \in Ids /\ bdt_tx' = bdt_tx
    BY <1>4 DEF HostSends, Shape, HostShape
  <2>2. PICK n \in Nat : /\ bdt_rx' = [bdt_rx EXCEPT ![rx_odd] =
                                       [bdt_rx[rx_odd] EXCEPT !.own = FALSE, !.count = n]]
                         /\ buffers' = [buffers EXCEPT ![bdt_rx[rx_odd].addr] = host.next]
    BY <1>4, SendStep
  <2>3. [bdt_rx[rx_odd] EXCEPT !.own = FALSE, !.count = n] \in ReceiveDescriptors
    BY <1>0, ReceiveDescriptorSet
  <2>4. bdt_rx' \in [Banks -> ReceiveDescriptors]
    BY <1>0, <2>2, <2>3
  <2>5. buffers' \in [Banks -> Ids]
    BY <1>0, <2>1, <2>2
  <2> QED
    BY <1>0, <2>1, <2>4, <2>5
<1>5. CASE HostTakes
  <2>1. bdt_tx' = [bdt_tx EXCEPT ![tx_odd] = Finished("IN", bdt_tx[tx_odd].packet)]
        /\ UNCHANGED <<bdt_rx, buffers>>
    BY <1>5 DEF HostTakes
  <2>2. /\ Finished("IN", bdt_tx[tx_odd].packet) \in TransmitDescriptors
        /\ ~Finished("IN", bdt_tx[tx_odd].packet).own
    BY <1>0 DEF Finished, TransmitDescriptors, Banks
  <2> QED
    BY <1>0, <2>1, <2>2
<1>6. CASE UNCHANGED <<bdt_rx, bdt_tx, buffers>>
  BY <1>0, <1>6
<1> QED
  BY <1>1, <1>2, <1>3, <1>4, <1>5, <1>6
     DEF Next, USBOTG_IRQHandler, TokenIn, usb_reset, usb_error, HostAsks, HostReset, vars

LEMMA QueueShapeStep ==
  ASSUME Shape, [Next]_vars
  PROVE  QueueShape'
<1> USE CdcAssumption DEF Shape, QueueShape
<1>1. CASE TokenOut \/ TokenIn
  BY <1>1 DEF TokenOut, TokenIn, AtToken, controller
<1>2. CASE TokenDone
  <2>1. Tail(stat) \in Seq(Tokens) /\ Len(Tail(stat)) <= FifoSize
    BY <1>2 DEF TokenDone
  <2> QED
    BY <1>2, <2>1 DEF TokenDone
<1>3. CASE HostSends
  <2>1. [tx |-> FALSE, bank |-> rx_odd] \in Tokens /\ Len(stat) < FifoSize
    BY <1>3 DEF HostSends, Tokens
  <2>2. stat' \in Seq(Tokens) /\ Len(stat') <= FifoSize /\ stat' # << >>
    BY <1>3, <2>1 DEF HostSends
  <2>3. irq' \in {"on", "error", "off"}
    BY <1>3, SendStep
  <2> QED
    BY <1>3, <2>2, <2>3 DEF HostSends, Banks
<1>4. CASE HostTakes
  <2>1. [tx |-> TRUE, bank |-> tx_odd] \in Tokens /\ Len(stat) < FifoSize
    BY <1>4 DEF HostTakes, Tokens
  <2>2. stat' \in Seq(Tokens) /\ Len(stat') <= FifoSize /\ stat' # << >>
    BY <1>4, <2>1 DEF HostTakes
  <2> QED
    BY <1>4, <2>2 DEF HostTakes, Banks
<1>5. CASE usb_reset
  <2>1. << >> \in Seq(Tokens) /\ Len(<< >>) = 0
    OBVIOUS
  <2> QED
    <3>1. /\ pc' = "idle" /\ rx_odd' = 0 /\ tx_odd' = 0 /\ stat' = << >> /\ usbrst' = FALSE
          /\ irq' = "on"
      BY <1>5 DEF usb_reset
    <3>2. stat' \in Seq(Tokens) /\ Len(stat') <= FifoSize
      BY <2>1, <3>1
    <3> QED
      BY <3>1, <3>2 DEF Banks
<1>6. CASE usb_error
  BY <1>6 DEF usb_error
<1>7. CASE HostReset
  BY <1>7 DEF HostReset
<1>8. CASE UNCHANGED <<pc, controller>>
  BY <1>8 DEF controller
<1> QED
  BY <1>1, <1>2, <1>3, <1>4, <1>5, <1>6, <1>7, <1>8
     DEF Next, USBOTG_IRQHandler, HostAsks, usb_set_config, vars

LEMMA HostShapeStep ==
  ASSUME Shape, [Next]_vars
  PROVE  HostShape'
<1> USE CdcAssumption DEF Shape, HostShape
<1>1. CASE HostAsks
  BY <1>1 DEF HostAsks
<1>2. CASE usb_set_config
  BY <1>2 DEF usb_set_config
<1>3. CASE HostSends
  <2> HIDE DEF Shape
  <2>1. PICK size \in Nat :
          host' = [host EXCEPT !.sent = Append(@, [id |-> host.next, len |-> size]),
                               !.next = (@ + 1) % (Window + 1)]
    BY <1>3, SendStep
  <2>2. [id |-> host.next, len |-> size] \in HostPackets
    BY DEF Shape, HostPackets
  <2>3. (host.next + 1) % (Window + 1) \in Ids
    BY DEF Shape, Ids
  <2>4. /\ Append(host.sent, [id |-> host.next, len |-> size]) \in Seq(HostPackets)
        /\ Len(Append(host.sent, [id |-> host.next, len |-> size])) <= Window
    BY <1>3, <2>2 DEF Shape, HostSends
  <2> QED
    BY <2>1, <2>3, <2>4 DEF Shape
<1>4. CASE HostTakes
  <2>1. CASE host' = host
    BY <2>1
  <2>2. CASE host' # host
    <3> DEFINE d == bdt_tx[tx_odd]
    <3>1. /\ host.sent # << >>
          /\ host' = [host EXCEPT !.sent = Tail(@), !.due = Head(host.sent),
                         !.got = [id |-> buffers[d.packet.addr], len |-> d.packet.len],
                         !.toggle = 1 - @]
      BY <1>4, <2>2 DEF HostTakes
    <3>2. d.packet \in [addr : Banks, len : Nat]
      BY <1>4 DEF HostTakes, DescriptorShape, QueueShape
    <3>3. [id |-> buffers[d.packet.addr], len |-> d.packet.len] \in HostPackets
      BY <3>2 DEF HostPackets, DescriptorShape
    <3>4. Tail(host.sent) \in Seq(HostPackets) /\ Len(Tail(host.sent)) <= Window
      BY <3>1
    <3>5. Head(host.sent) \in HostPackets /\ 1 - host.toggle \in Banks
      BY <3>1 DEF Banks
    <3> QED
      BY <3>1, <3>3, <3>4, <3>5
  <2> QED
    BY <2>1, <2>2
<1>5. CASE HostReset
  BY <1>5 DEF HostReset, Fresh, Banks, Ids, NoPacket, HostPackets
<1>6. CASE UNCHANGED host
  BY <1>6
<1> QED
  BY <1>1, <1>2, <1>3, <1>4, <1>5, <1>6
     DEF Next, USBOTG_IRQHandler, usb_reset, TokenOut, TokenIn, TokenDone, usb_error, vars

LEMMA ShapeStep == Shape /\ [Next]_vars => Shape'
BY EndpointShapeStep, DescriptorShapeStep, QueueShapeStep, HostShapeStep DEF Shape

-----------------------------------------------------------------------------
(* The queue of tokens.                                                        *)

LEMMA ReceivedToken ==
  ASSUME Shape, NEW i \in Received
  PROVE  i \in Nat /\ stat[i] \in Tokens /\ stat[i].bank \in Banks
<1>1. stat \in Seq(Tokens) /\ i \in DOMAIN stat
  BY DEF Shape, QueueShape, Received
<1>2. stat[i] \in Tokens /\ i \in Nat
  BY <1>1, ElementOfSeq
<1> QED
  BY <1>2 DEF Tokens

\* What a new token does.
LEMMA PushToken ==
  ASSUME Shape, NEW tx \in BOOLEAN, NEW bank \in Banks, UNCHANGED pc,
         stat' = Append(stat, [tx |-> tx, bank |-> bank])
  PROVE  /\ \A i \in DOMAIN stat : stat'[i] = stat[i] /\ i < Len(stat) + 1
         /\ stat'[Len(stat) + 1].bank = bank
         /\ Received' = Received \cup (IF tx THEN {} ELSE {Len(stat) + 1})
         /\ Waiting' = Waiting \cup (IF tx THEN {} ELSE {Len(stat) + 1})
<1> DEFINE n == Len(stat) t == [tx |-> tx, bank |-> bank]
<1>1. stat \in Seq(Tokens) /\ t \in Tokens /\ t.tx = tx /\ t.bank = bank
  BY DEF Shape, QueueShape, Tokens
<1> HIDE DEF t
<1>2. n \in Nat /\ DOMAIN stat = 1 .. n /\ DOMAIN stat' = 1 .. n + 1
  BY <1>1 DEF t
<1>3. \A i \in 1 .. n : stat'[i] = stat[i]
  BY <1>1 DEF t
<1>4. stat'[n + 1] = t
  BY <1>1 DEF t
<1>5. Received' = Received \cup (IF tx THEN {} ELSE {n + 1})
  BY <1>1, <1>2, <1>3, <1>4 DEF Received
<1>6. pc = "end" => n >= 1
  BY <1>1, <1>2 DEF Shape, QueueShape
<1>7. Waiting' = Waiting \cup (IF tx THEN {} ELSE {n + 1})
  BY <1>2, <1>5, <1>6 DEF Waiting
<1> HIDE DEF n
<1>8. \A i \in DOMAIN stat : stat'[i] = stat[i] /\ i < n + 1
  BY <1>2, <1>3
<1> QED
  BY <1>1, <1>4, <1>5, <1>7, <1>8 DEF n

\* What the end of a token does.
LEMMA PopToken ==
  ASSUME Shape, TokenDone
  PROVE  /\ \A i \in Received' : i \in Nat /\ i + 1 \in Received /\ i + 1 > 1 /\ stat'[i] = stat[i + 1]
         /\ \A b \in Banks : WaitsAt(b)' <=> WaitsAt(b)
         /\ stat # << >> /\ Head(stat) = stat[1] /\ 1 \in DOMAIN stat
         /\ ReceiveInv /\ ~Head(stat).tx =>
              \A b \in Banks : WaitsAt(b) => b # Head(stat).bank
<1> DEFINE n == Len(stat)
<1>1. stat \in Seq(Tokens) /\ stat # << >> /\ stat' = Tail(stat) /\ pc = "end" /\ pc' # "end"
  BY DEF Shape, QueueShape, TokenDone
<1>2. /\ n \in Nat \ {0} /\ DOMAIN stat = 1 .. n /\ DOMAIN stat' = 1 .. n - 1
      /\ Head(stat) = stat[1]
  BY <1>1
<1>3. \A i \in 1 .. n - 1 : stat'[i] = stat[i + 1]
  BY <1>1
<1> HIDE DEF n
<1>4. \A i \in Received' : i \in Nat /\ i + 1 \in Received /\ i + 1 > 1 /\ stat'[i] = stat[i + 1]
  BY <1>2, <1>3 DEF Received
<1>5. ASSUME NEW b \in Banks
      PROVE  WaitsAt(b)' <=> WaitsAt(b)
  <2>1. ASSUME WaitsAt(b)'
        PROVE  WaitsAt(b)
    <3>1. PICK i \in Waiting' : stat'[i].bank = b
      BY <2>1 DEF WaitsAt
    <3>2. i + 1 \in Waiting /\ stat[i + 1].bank = b
      BY <1>4, <3>1 DEF Waiting
    <3> QED
      BY <3>2 DEF WaitsAt
  <2>2. ASSUME WaitsAt(b)
        PROVE  WaitsAt(b)'
    <3>1. PICK i \in Waiting : stat[i].bank = b
      BY <2>2 DEF WaitsAt
    <3>2. i \in 1 .. n /\ i # 1 /\ ~stat[i].tx
      BY <1>1, <1>2, <3>1 DEF Waiting, Received
    <3>3. i - 1 \in 1 .. n - 1 /\ stat'[i - 1] = stat[i]
      BY <1>2, <1>3, <3>2
    <3>4. i - 1 \in Waiting'
      BY <1>1, <1>2, <3>2, <3>3 DEF Waiting, Received
    <3> QED
      BY <3>1, <3>3, <3>4 DEF WaitsAt
  <2> QED
    BY <2>1, <2>2
<1>6. ASSUME ReceiveInv, ~Head(stat).tx, NEW b \in Banks, WaitsAt(b)
      PROVE  b # Head(stat).bank
  <2>1. PICK i \in Waiting : stat[i].bank = b
    BY <1>6 DEF WaitsAt
  <2>2. i \in Received /\ 1 \in Received /\ 1 < i
    BY <1>1, <1>2, <1>6, <2>1 DEF Waiting, Received
  <2>3. stat[1].bank = rx_odd /\ b = 1 - rx_odd
    BY <1>6, <2>1, <2>2 DEF ReceiveInv
  <2> QED
    BY <1>2, <2>3 DEF Shape, QueueShape, Banks
<1>7. stat # << >> /\ Head(stat) = stat[1] /\ 1 \in DOMAIN stat
  BY <1>1, <1>2
<1>8. \A b \in Banks : WaitsAt(b)' <=> WaitsAt(b)
  BY <1>5
<1>9. ReceiveInv /\ ~Head(stat).tx => \A b \in Banks : WaitsAt(b) => b # Head(stat).bank
  BY <1>6
<1> QED
  BY <1>4, <1>7, <1>8, <1>9

\* The handler comes to the token of a received packet.
LEMMA HandleToken ==
  ASSUME Shape, ReceiveInv, TokenOut
  PROVE  /\ Received' = Received /\ 1 \in Waiting /\ stat[1] = Head(stat) /\ stat' = stat
         /\ \A b \in Banks : WaitsAt(b)' <=> WaitsAt(b) /\ b # Head(stat).bank
         /\ WaitsAt(Head(stat).bank) /\ (WaitsAt(rx_odd) => Head(stat).bank = rx_odd)
<1>1. stat \in Seq(Tokens) /\ stat # << >> /\ stat' = stat /\ pc # "end" /\ pc' = "end"
      /\ ~Head(stat).tx
  BY DEF Shape, QueueShape, TokenOut, AtToken, controller
<1>2. /\ Len(stat) \in Nat \ {0} /\ DOMAIN stat = 1 .. Len(stat) /\ Head(stat) = stat[1]
      /\ 1 \in DOMAIN stat
  BY <1>1
<1>3. Received' = Received /\ Waiting = Received /\ Waiting' = Received \ {1} /\ 1 \in Received
  BY <1>1, <1>2 DEF Received, Waiting
<1>4. ASSUME NEW i \in Received, i # 1
      PROVE  stat[i].bank # stat[1].bank
  <2>1. 1 < i /\ rx_odd \in Banks
    BY <1>2, <1>4 DEF Received, Shape, QueueShape
  <2>2. stat[1].bank = rx_odd /\ stat[i].bank = 1 - rx_odd
    BY <1>3, <2>1 DEF ReceiveInv
  <2> QED
    BY <2>1, <2>2 DEF Banks
<1>5. ASSUME NEW b \in Banks
      PROVE  WaitsAt(b)' <=> WaitsAt(b) /\ b # Head(stat).bank
  <2>1. ASSUME WaitsAt(b)'
        PROVE  WaitsAt(b) /\ b # Head(stat).bank
    <3>1. PICK i \in Waiting' : stat'[i].bank = b
      BY <2>1 DEF WaitsAt
    <3>2. i \in Waiting /\ i # 1 /\ stat[i].bank = b
      BY <1>1, <1>3, <3>1
    <3> QED
      BY <1>2, <1>3, <1>4, <3>2 DEF WaitsAt
  <2>2. ASSUME WaitsAt(b), b # Head(stat).bank
        PROVE  WaitsAt(b)'
    <3>1. PICK i \in Waiting : stat[i].bank = b
      BY <2>2 DEF WaitsAt
    <3>2. i \in Waiting' /\ stat'[i].bank = b
      BY <1>1, <1>2, <1>3, <2>2, <3>1
    <3> QED
      BY <3>2 DEF WaitsAt
  <2> QED
    BY <2>1, <2>2
<1>6. WaitsAt(Head(stat).bank)
  BY <1>2, <1>3 DEF WaitsAt
<1>7. ASSUME WaitsAt(rx_odd)
      PROVE  Head(stat).bank = rx_odd
  <2>1. PICK i \in Waiting : stat[i].bank = rx_odd
    BY <1>7 DEF WaitsAt
  <2>2. CASE i = 1
    BY <1>2, <2>1, <2>2
  <2>3. CASE i # 1
    <3>1. 1 < i
      BY <1>2, <1>3, <2>3 DEF Received
    <3> QED
      BY <1>2, <1>3, <3>1 DEF ReceiveInv
  <2> QED
    BY <2>2, <2>3
<1> QED
  BY <1>1, <1>2, <1>3, <1>5, <1>6, <1>7

\* The token of a packet the host has taken.
LEMMA HandleSent ==
  ASSUME Shape, TokenIn
  PROVE  Received' = Received /\ Waiting' = Waiting /\ stat' = stat
<1>1. stat \in Seq(Tokens) /\ stat # << >> /\ stat' = stat /\ pc # "end" /\ pc' = "end"
      /\ Head(stat).tx
  BY DEF Shape, QueueShape, TokenIn, AtToken, controller
<1>2. /\ Head(stat) = stat[1] /\ 1 \in DOMAIN stat
  BY <1>1
<1> QED
  BY <1>1, <1>2 DEF Received, Waiting

\* With an empty queue no packet waits.
LEMMA NoToken == stat = << >> => Received = {} /\ Waiting = {} /\ \A b \in Banks : ~WaitsAt(b)
BY DEF Received, Waiting, WaitsAt

-----------------------------------------------------------------------------
(* Each part of the invariant is kept by each action.                          *)

LEMMA ReceiveStep ==
  ASSUME IInv, [Next]_vars
  PROVE  ReceiveInv'
<1>0. Shape /\ ReceiveInv /\ OpenInv /\ rx_odd \in Banks /\ stat \in Seq(Tokens)
  BY DEF IInv, Shape, QueueShape
<1>1. CASE TokenOut
  BY <1>0, <1>1, HandleToken DEF TokenOut, controller, ReceiveInv
<1>2. CASE TokenIn
  BY <1>0, <1>2, HandleSent DEF TokenIn, controller, ReceiveInv
<1>3. CASE TokenDone
  <2> DEFINE b == Head(stat).bank
  <2>1. b \in Banks /\ bdt_rx \in [Banks -> ReceiveDescriptors]
    BY <1>0, <1>3, HeadToken, PopToken DEF Shape, DescriptorShape, ReceiveDescriptors
  <2>2. /\ rx_odd' = rx_odd
        /\ bdt_rx' = IF Head(stat).tx THEN bdt_rx
                     ELSE [bdt_rx EXCEPT ![b] = [@ EXCEPT !.own = TRUE, !.count = EP0_BUFSIZE]]
    BY <1>3 DEF TokenDone
  <2>3. \A c \in Banks : bdt_rx'[c].addr = c
    BY <1>0, <2>1, <2>2 DEF ReceiveInv, ReceiveDescriptors
  <2>4. ASSUME NEW i \in Received'
        PROVE  ~bdt_rx'[stat'[i].bank].own
    <3>1. i \in Nat /\ i + 1 \in Received /\ i + 1 > 1 /\ stat'[i] = stat[i + 1]
      BY <1>0, <1>3, PopToken
    <3>2. ~bdt_rx[stat[i + 1].bank].own /\ stat[i + 1].bank \in Banks
      BY <1>0, <3>1, ReceivedToken DEF ReceiveInv
    <3>3. ~Head(stat).tx => stat[i + 1].bank # b
      <4> SUFFICES ASSUME ~Head(stat).tx PROVE stat[i + 1].bank # b
        OBVIOUS
      <4>1. 1 \in Received /\ 1 < i + 1 /\ b = stat[1].bank
        BY <1>0, <1>3, <3>1, PopToken DEF Received
      <4>2. b = rx_odd /\ stat[i + 1].bank = 1 - rx_odd
        BY <1>0, <3>1, <4>1 DEF ReceiveInv
      <4> QED
        BY <1>0, <4>2 DEF Banks
    <3> HIDE DEF b
    <3> QED
      BY <2>1, <2>2, <3>1, <3>2, <3>3
  <2>5. ASSUME NEW i \in Received', NEW j \in Received', i < j
        PROVE  stat'[i].bank = rx_odd' /\ stat'[j].bank = 1 - rx_odd'
    <3>1. /\ i \in Nat /\ i + 1 \in Received /\ stat'[i] = stat[i + 1]
          /\ j \in Nat /\ j + 1 \in Received /\ stat'[j] = stat[j + 1]
      BY <1>0, <1>3, PopToken
    <3>2. i + 1 < j + 1
      BY <2>5, <3>1
    <3> QED
      BY <1>0, <2>2, <3>1, <3>2 DEF ReceiveInv
  <2> QED
    BY <2>3, <2>4, <2>5 DEF ReceiveInv
<1>4. CASE usb_set_config
  <2>1. stat = << >> /\ stat' = << >>
    BY <1>4 DEF usb_set_config, Quiet, controller
  <2>2. Received' = {}
    BY <2>1 DEF Received
  <2> QED
    BY <1>0, <1>4, <2>2, ConfigStep DEF ReceiveInv
<1>5. CASE HostSends
  <2>1. /\ stat' = Append(stat, [tx |-> FALSE, bank |-> rx_odd]) /\ rx_odd' = 1 - rx_odd
        /\ pc' = pc /\ bdt_rx[rx_odd].own
    BY <1>5 DEF HostSends
  <2>2. PICK n \in Nat : bdt_rx' = [bdt_rx EXCEPT ![rx_odd] =
                                     [bdt_rx[rx_odd] EXCEPT !.own = FALSE, !.count = n]]
    BY <1>0, <1>5, SendStep
  <2>3. bdt_rx \in [Banks -> ReceiveDescriptors]
    BY <1>0 DEF Shape, DescriptorShape, ReceiveDescriptors
  <2> DEFINE m == Len(stat) + 1
  <2>4. /\ \A i \in DOMAIN stat : stat'[i] = stat[i] /\ i < m
        /\ stat'[m].bank = rx_odd
        /\ Received' = Received \cup {m}
    BY <1>0, <2>1, PushToken
  <2> HIDE DEF m
  <2>5. ASSUME NEW i \in Received
        PROVE  stat'[i] = stat[i] /\ i < m /\ stat[i].bank = 1 - rx_odd /\ i \in Nat
    <3>1. ~bdt_rx[stat[i].bank].own /\ stat[i].bank \in Banks /\ i \in Nat
      BY <1>0, ReceivedToken DEF ReceiveInv
    <3> QED
      BY <1>0, <2>1, <2>4, <3>1 DEF Banks, Received
  <2>6. \A c \in Banks : bdt_rx'[c].addr = c
    BY <1>0, <2>2, <2>3 DEF ReceiveInv, ReceiveDescriptors
  <2>7. ~bdt_rx'[rx_odd].own /\ \A c \in Banks : c # rx_odd => bdt_rx'[c] = bdt_rx[c]
    BY <1>0, <2>2, <2>3 DEF ReceiveDescriptors
  <2>8. 1 - rx_odd \in Banks /\ 1 - rx_odd # rx_odd /\ 1 - (1 - rx_odd) = rx_odd
    BY <1>0 DEF Banks
  <2>9. ASSUME NEW i \in Received'
        PROVE  ~bdt_rx'[stat'[i].bank].own
    <3>1. CASE i = m
      BY <2>4, <2>7, <3>1
    <3>2. CASE i \in Received
      <4>1. ~bdt_rx[stat[i].bank].own
        BY <1>0, <3>2 DEF ReceiveInv
      <4> QED
        BY <2>5, <2>7, <2>8, <3>2, <4>1
    <3> QED
      BY <2>4, <3>1, <3>2
  <2>10. ASSUME NEW i \in Received', NEW j \in Received', i < j
         PROVE  stat'[i].bank = rx_odd' /\ stat'[j].bank = 1 - rx_odd'
    <3>1. CASE i \in Received /\ j \in Received
      <4>1. stat[i].bank = rx_odd
        BY <1>0, <2>10, <3>1 DEF ReceiveInv
      <4> QED
        BY <2>5, <2>8, <3>1, <4>1
    <3>2. CASE i \in Received /\ j = m
      BY <2>1, <2>4, <2>5, <2>8, <3>2
    <3>3. CASE i = m
      <4>1. m \in Nat
        BY <1>0 DEF m
      <4>2. ~(m < j)
        BY <2>4, <2>5, <4>1
      <4> QED
        BY <2>10, <3>3, <4>2
    <3> QED
      BY <2>4, <3>1, <3>2, <3>3
  <2> QED
    BY <2>6, <2>9, <2>10 DEF ReceiveInv
<1>6. CASE HostTakes
  <2>1. tx_odd \in Banks
    BY <1>0 DEF Shape, QueueShape
  <2>2. /\ \A i \in DOMAIN stat : stat'[i] = stat[i] /\ i < Len(stat) + 1
        /\ Received' = Received
    BY <1>0, <1>6, <2>1, PushToken DEF HostTakes
  <2>3. \A i \in Received : stat'[i] = stat[i]
    BY <2>2 DEF Received
  <2>4. UNCHANGED <<bdt_rx, rx_odd>>
    BY <1>6 DEF HostTakes
  <2> QED
    BY <1>0, <2>2, <2>3, <2>4 DEF ReceiveInv
<1>7. CASE usb_reset
  <2>1. Received' = {} /\ bdt_rx' = bdt_rx
    BY <1>7 DEF usb_reset, Received
  <2> QED
    BY <1>0, <2>1 DEF ReceiveInv
<1>8. CASE UNCHANGED <<bdt_rx, rx_odd, stat>>
  BY <1>0, <1>8 DEF ReceiveInv, Received
<1> QED
  BY <1>1, <1>2, <1>3, <1>4, <1>5, <1>6, <1>7, <1>8
     DEF Next, USBOTG_IRQHandler, usb_error, HostAsks, HostReset, vars, controller

\* The values the descriptors' numbers can have.
LEMMA Numbers ==
  ASSUME IInv
  PROVE  /\ rx_odd \in {0, 1} /\ tx_odd \in {0, 1} /\ ep.tx_next \in {0, 1}
         /\ Echoes \in 0 .. 2 /\ Pending \in 0 .. 2 /\ host.sent \in Seq(HostPackets)
         /\ Echoes = 0 <=> ~bdt_tx[tx_odd].own
         /\ Echoes = 2 <=> bdt_tx[1 - tx_odd].own
         /\ bdt_tx \in [Banks -> TransmitDescriptors] /\ bdt_rx \in [Banks -> ReceiveDescriptors]
<1>1. /\ rx_odd \in {0, 1} /\ tx_odd \in {0, 1} /\ ep.tx_next \in {0, 1}
      /\ host.sent \in Seq(HostPackets) /\ Pending <= 2
  BY DEF IInv, Shape, EndpointShape, QueueShape, HostShape, PacketInv, Banks, HostPackets
<1>2. Pending \in 0 .. 2
  <2>1. Pending \in Nat
    BY <1>1, LenProperties DEF Pending
  <2>2. Pending <= 2
    BY <1>1
  <2> QED
    BY <2>1, <2>2
<1>3. /\ Echoes \in 0 .. 2
      /\ Echoes = 0 <=> ~bdt_tx[tx_odd].own
      /\ Echoes = 2 <=> bdt_tx[1 - tx_odd].own
  BY DEF IInv, TransmitInv, Echoes
<1>4. bdt_tx \in [Banks -> TransmitDescriptors] /\ bdt_rx \in [Banks -> ReceiveDescriptors]
  BY DEF IInv, Shape, DescriptorShape, TransmitDescriptors, ReceiveDescriptors
<1> QED
  BY <1>1, <1>2, <1>3, <1>4

\* The echo goes in the next free descriptor, behind those on their way.
LEMMA EchoQueued ==
  ASSUME IInv, TokenOut
  PROVE  LET d == bdt_rx[Head(stat).bank]
         IN  /\ Echoes < Pending /\ ep.rx_handler
             /\ Head(stat).bank = Home(Echoes + 1) /\ ep.tx_next = Carrier(Echoes + 1)
             /\ d.addr = Home(Echoes + 1)
             /\ ep' = [ep EXCEPT !.tx_next = 1 - @, !.data0 = 1 - @]
             /\ bdt_tx' = [bdt_tx EXCEPT ![ep.tx_next] =
                             [own |-> TRUE, pid |-> "none", toggle |-> ep.tx_next,
                              packet |-> [addr |-> d.addr, len |-> d.count]]]
             /\ Echoes' = Echoes + 1
             /\ d.addr \in Banks /\ d.count \in Nat
<1>a. /\ rx_odd \in {0, 1} /\ tx_odd \in {0, 1} /\ ep.tx_next \in {0, 1}
      /\ Echoes \in 0 .. 2 /\ Pending \in 0 .. 2
      /\ Echoes = 0 <=> ~bdt_tx[tx_odd].own
      /\ Echoes = 2 <=> bdt_tx[1 - tx_odd].own
  BY Numbers
<1>c. /\ host.sent \in Seq(HostPackets)
      /\ bdt_tx \in [Banks -> TransmitDescriptors] /\ bdt_rx \in [Banks -> ReceiveDescriptors]
  BY Numbers
<1>b. Shape /\ ReceiveInv /\ TransmitInv /\ PacketInv /\ OpenInv /\ EchoInOrder
  BY DEF IInv
<1> USE <1>a
<1> DEFINE b == Head(stat).bank
<1>1. /\ 1 \in Waiting /\ stat # << >> /\ b \in Banks
      /\ WaitsAt(b) /\ (WaitsAt(rx_odd) => b = rx_odd)
  BY <1>b, HandleToken, HeadToken DEF TokenOut, AtToken
<1> HIDE DEF b
<1>2. ep.rx_handler
  BY <1>b, <1>1 DEF OpenInv
<1>3. Echoes < Pending
  BY <1>b, <1>1 DEF PacketInv, Banks
<1>4. b = Home(Echoes + 1)
  <2>1. CASE Echoes = 0 /\ Pending = 2
    BY <1>b, <1>1, <2>1 DEF PacketInv, Home
  <2>2. CASE ~(Echoes = 0 /\ Pending = 2)
    <3>1. b = 1 - rx_odd
      BY <1>b, <1>1, <2>2 DEF PacketInv, Banks
    <3>2. Echoes + 1 = Pending
      BY <1>3, <2>2
    <3> QED
      BY <3>1, <3>2 DEF Home
  <2> QED
    BY <2>1, <2>2
<1>5. /\ ep.tx_next = Carrier(Echoes + 1) /\ ep.data0 = ep.tx_next
      /\ ep.tx_next = (IF Echoes = 1 THEN 1 - tx_odd ELSE tx_odd)
  BY <1>b, <1>3 DEF TransmitInv, Carrier
<1>6. ~bdt_tx[ep.tx_next].own
  BY <1>3, <1>5
<1>7. bdt_rx[b].addr = b
  BY <1>b, <1>1 DEF ReceiveInv
<1> DEFINE d == bdt_rx[b]
           new == [own |-> TRUE, pid |-> "none", toggle |-> ep.data0,
                   packet |-> [addr |-> d.addr, len |-> d.count]]
<1>8. /\ d.addr \in Banks /\ d.count \in Nat
      /\ ep' = [ep EXCEPT !.tx_next = 1 - @, !.data0 = 1 - @]
      /\ bdt_tx' = [bdt_tx EXCEPT ![ep.tx_next] = new]
  BY <1>2, <1>6, <1>b, EchoStep DEF b
<1>9. Echoes' = Echoes + 1
  <2>1. tx_odd' = tx_odd
    BY DEF TokenOut, controller
  <2>2. new.own
    OBVIOUS
  <2> HIDE DEF new
  <2>3. /\ bdt_tx'[ep.tx_next].own
        /\ \A c \in Banks : c # ep.tx_next => bdt_tx'[c] = bdt_tx[c]
    BY <1>8, <1>c, <2>2 DEF Banks
  <2>4. CASE Echoes = 0
    BY <1>5, <2>1, <2>3, <2>4 DEF Echoes, Banks
  <2>5. CASE Echoes = 1
    BY <1>5, <2>1, <2>3, <2>5 DEF Echoes, Banks
  <2> QED
    BY <1>3, <2>4, <2>5
<1> QED
  BY <1>2, <1>3, <1>4, <1>5, <1>7, <1>8, <1>9 DEF b

\* The host takes the first of the echoes on their way.
LEMMA EchoTaken ==
  ASSUME IInv, HostTakes
  PROVE  LET d == bdt_tx[tx_odd]
         IN  /\ Echoes >= 1 /\ Echoes' = Echoes - 1 /\ host.open /\ host.sent # << >>
             /\ d.packet \in [addr : Banks, len : Nat]
             /\ host' = [host EXCEPT !.sent = Tail(@), !.due = Head(host.sent),
                            !.got = [id |-> buffers[d.packet.addr], len |-> d.packet.len],
                            !.toggle = 1 - @]
             /\ tx_odd' = 1 - tx_odd /\ ~bdt_tx'[tx_odd].own
             /\ bdt_tx'[1 - tx_odd] = bdt_tx[1 - tx_odd]
<1>a. /\ rx_odd \in {0, 1} /\ tx_odd \in {0, 1} /\ ep.tx_next \in {0, 1}
      /\ Echoes \in 0 .. 2 /\ Pending \in 0 .. 2
      /\ Echoes = 0 <=> ~bdt_tx[tx_odd].own
      /\ Echoes = 2 <=> bdt_tx[1 - tx_odd].own
  BY Numbers
<1>c. /\ host.sent \in Seq(HostPackets)
      /\ bdt_tx \in [Banks -> TransmitDescriptors] /\ bdt_rx \in [Banks -> ReceiveDescriptors]
  BY Numbers
<1>b. Shape /\ ReceiveInv /\ TransmitInv /\ PacketInv /\ OpenInv /\ EchoInOrder
  BY DEF IInv
<1> USE <1>a
<1> DEFINE d == bdt_tx[tx_odd]
<1>1. d.own /\ host.open /\ tx_odd' = 1 - tx_odd
      /\ bdt_tx' = [bdt_tx EXCEPT ![tx_odd] = Finished("IN", d.packet)]
  BY DEF HostTakes
<1>2. d.toggle = tx_odd /\ host.toggle = tx_odd /\ d.packet \in [addr : Banks, len : Nat]
  BY <1>b, <1>1 DEF TransmitInv, Shape, DescriptorShape, Banks
<1>3. Echoes >= 1 /\ host.sent # << >>
  <2>1. Echoes >= 1 /\ Pending >= 1
    BY <1>b, <1>1 DEF PacketInv
  <2> QED
    BY <2>1 DEF Pending
<1>4. host' = [host EXCEPT !.sent = Tail(@), !.due = Head(host.sent),
                 !.got = [id |-> buffers[d.packet.addr], len |-> d.packet.len],
                 !.toggle = 1 - @]
  BY <1>2, <1>3 DEF HostTakes
<1>5. ~bdt_tx'[tx_odd].own /\ bdt_tx'[1 - tx_odd] = bdt_tx[1 - tx_odd]
  <2>1. ~Finished("IN", d.packet).own
    BY DEF Finished
  <2> HIDE DEF d
  <2> QED
    BY <1>1, <1>c, <2>1 DEF Banks
<1>6. Echoes' = Echoes - 1
  BY <1>1, <1>3, <1>5 DEF Echoes
<1> QED
  BY <1>1, <1>2, <1>3, <1>4, <1>5, <1>6

LEMMA TransmitStep ==
  ASSUME IInv, [Next]_vars
  PROVE  TransmitInv'
<1>a. /\ rx_odd \in {0, 1} /\ tx_odd \in {0, 1} /\ ep.tx_next \in {0, 1}
      /\ Echoes \in 0 .. 2 /\ Pending \in 0 .. 2
      /\ Echoes = 0 <=> ~bdt_tx[tx_odd].own
      /\ Echoes = 2 <=> bdt_tx[1 - tx_odd].own
  BY Numbers
<1>c. /\ host.sent \in Seq(HostPackets)
      /\ bdt_tx \in [Banks -> TransmitDescriptors] /\ bdt_rx \in [Banks -> ReceiveDescriptors]
  BY Numbers
<1>b. Shape /\ ReceiveInv /\ TransmitInv /\ PacketInv /\ OpenInv /\ EchoInOrder
  BY DEF IInv
<1> USE <1>a
<1>0. TransmitInv /\ Shape /\ Echoes <= Pending
  BY <1>b DEF PacketInv
<1>1. CASE TokenOut
  <2> DEFINE new == [own |-> TRUE, pid |-> "none", toggle |-> ep.tx_next,
                     packet |-> [addr |-> bdt_rx[Head(stat).bank].addr,
                                 len |-> bdt_rx[Head(stat).bank].count]]
  <2>1. /\ ep' = [ep EXCEPT !.tx_next = 1 - @, !.data0 = 1 - @]
        /\ bdt_tx' = [bdt_tx EXCEPT ![ep.tx_next] = new]
        /\ Echoes' = Echoes + 1 /\ Echoes < Pending
        /\ bdt_rx[Head(stat).bank].addr \in Banks /\ bdt_rx[Head(stat).bank].count \in Nat
    BY <1>1, EchoQueued
  <2>2. new.toggle = ep.tx_next /\ new.packet \in [addr : Banks, len : Nat]
    BY <2>1
  <2> HIDE DEF new
  <2>3. ep \in [data0 : Banks, tx_next : Banks, tx_last : Banks, pending : {NoData},
                rx_handler : BOOLEAN]
    BY <1>0 DEF Shape, EndpointShape
  <2>4. ep'.tx_next = 1 - ep.tx_next /\ ep'.data0 = 1 - ep.data0
    BY <2>1, <2>3
  <2>5. host' = host /\ tx_odd' = tx_odd
    BY <1>1 DEF TokenOut, controller
  <2>6. ep'.tx_next = (IF Echoes' = 1 THEN 1 - tx_odd ELSE tx_odd) /\ ep'.data0 = ep'.tx_next
    BY <1>0, <2>1, <2>4 DEF TransmitInv
  <2>7. \A b \in Banks : bdt_tx'[b].own => bdt_tx'[b].toggle = b
    BY <1>0, <2>1, <2>2 DEF TransmitInv
  <2>8. bdt_tx'[1 - tx_odd].own => bdt_tx'[tx_odd].own
    BY <2>1, <2>5 DEF Echoes
  <2> QED
    BY <1>0, <2>5, <2>6, <2>7, <2>8 DEF TransmitInv
<1>2. CASE TokenIn
  <2>1. UNCHANGED <<bdt_tx, tx_odd, host>>
    BY <1>2 DEF TokenIn, controller
  <2>2. ep'.tx_next = ep.tx_next /\ ep'.data0 = ep.data0
    BY <1>0, <1>2 DEF TokenIn, Shape, EndpointShape
  <2> QED
    BY <1>0, <2>1, <2>2 DEF TransmitInv, Echoes
<1>3. CASE usb_set_config
  <2>1. tx_odd = 0 /\ Echoes = 0 /\ ep.data0 = 0
    <3>1. host.toggle = 0 /\ Pending = 0
      BY <1>3 DEF usb_set_config, Quiet, Pending
    <3> QED
      BY <1>0, <3>1 DEF TransmitInv
  <2>2. ep'.tx_next = 0 /\ ep'.data0 = 0
    BY <1>0, <1>3, <2>1, ConfigStep DEF Shape, EndpointShape
  <2>3. \A b \in Banks : ~bdt_tx'[b].own
    BY <1>0, <1>3, ConfigStep
  <2>4. tx_odd' = 0 /\ host'.toggle = host.toggle
    BY <1>0, <1>3, <2>1 DEF usb_set_config, controller, Shape, HostShape
  <2> QED
    BY <1>0, <2>1, <2>2, <2>3, <2>4 DEF TransmitInv, Echoes, Banks
<1>4. CASE HostTakes
  <2>1. ep' = ep /\ tx_odd' = 1 - tx_odd /\ Echoes' = Echoes - 1 /\ Echoes >= 1
        /\ ~bdt_tx'[tx_odd].own /\ bdt_tx'[1 - tx_odd] = bdt_tx[1 - tx_odd]
    BY <1>4, EchoTaken DEF HostTakes
  <2>2. host'.toggle = 1 - host.toggle
    BY <1>0, <1>4, EchoTaken DEF Shape, HostShape
  <2> QED
    BY <1>0, <2>1, <2>2 DEF TransmitInv, Banks
<1>5. CASE usb_reset
  <2>1. host.toggle = 0 /\ UNCHANGED <<ep, bdt_tx, host>> /\ tx_odd' = 0
    BY <1>b, <1>5 DEF usb_reset, OpenInv
  <2>2. tx_odd' = tx_odd
    BY <1>0, <2>1 DEF TransmitInv
  <2> QED
    BY <1>0, <2>1, <2>2 DEF TransmitInv, Echoes
<1>6. CASE UNCHANGED <<ep, bdt_tx, tx_odd>> /\ host'.toggle = host.toggle
  BY <1>0, <1>6 DEF TransmitInv, Echoes
<1>7. CASE HostSends \/ HostAsks \/ HostReset
  <2>1. UNCHANGED <<ep, bdt_tx, tx_odd>>
    BY <1>7 DEF HostSends, HostAsks, HostReset, controller
  <2>2. host'.toggle = host.toggle
    <3>1. CASE HostSends
      <4>1. PICK size \in Nat :
              host' = [host EXCEPT !.sent = Append(@, [id |-> host.next, len |-> size]),
                                   !.next = (@ + 1) % (Window + 1)]
        BY <1>0, <3>1, SendStep
      <4> QED
        BY <1>0, <4>1 DEF Shape, HostShape
    <3>2. CASE HostAsks
      BY <1>0, <3>2 DEF HostAsks, Shape, HostShape
    <3>3. CASE HostReset
      BY <3>3 DEF HostReset, Quiet, Fresh
    <3> QED
      BY <1>7, <3>1, <3>2, <3>3
  <2> QED
    BY <1>6, <2>1, <2>2
<1> QED
  BY <1>1, <1>2, <1>3, <1>4, <1>5, <1>6, <1>7
     DEF Next, USBOTG_IRQHandler, TokenDone, usb_error, vars, controller

\* A packet whose echo is not on its way has a token waiting.
LEMMA HomeWaits ==
  ASSUME IInv, NEW k \in 1 .. Pending
  PROVE  /\ Home(k) \in Banks /\ Carrier(k) \in Banks
         /\ k > Echoes => WaitsAt(Home(k))
<1>1. rx_odd \in {0, 1} /\ tx_odd \in {0, 1} /\ Echoes \in 0 .. 2 /\ Pending \in 0 .. 2
  BY Numbers
<1>2. PacketInv
  BY DEF IInv
<1>3. Home(k) \in Banks /\ Carrier(k) \in Banks
  BY <1>1 DEF Home, Carrier, Banks
<1>4. ASSUME k > Echoes
      PROVE  WaitsAt(Home(k))
  <2>1. CASE k = Pending
    BY <1>1, <1>2, <1>4, <2>1 DEF PacketInv, Home
  <2>2. CASE k # Pending
    <3>1. k = 1 /\ Echoes = 0 /\ Pending = 2
      BY <1>1, <1>4, <2>2
    <3> QED
      BY <1>2, <2>2, <3>1 DEF PacketInv, Home
  <2> QED
    BY <2>1, <2>2
<1> QED
  BY <1>3, <1>4

LEMMA PacketTokenOut ==
  ASSUME IInv, TokenOut
  PROVE  PacketInv'
<1>a. /\ rx_odd \in {0, 1} /\ tx_odd \in {0, 1} /\ Echoes \in 0 .. 2 /\ Pending \in 0 .. 2
  BY Numbers
<1>b. bdt_tx \in [Banks -> TransmitDescriptors]
  BY Numbers
<1> DEFINE d == bdt_rx[Head(stat).bank]
           new == [own |-> TRUE, pid |-> "none", toggle |-> ep.tx_next,
                   packet |-> [addr |-> d.addr, len |-> d.count]]
<1>1. /\ Echoes < Pending /\ Echoes' = Echoes + 1
      /\ Head(stat).bank = Home(Echoes + 1) /\ ep.tx_next = Carrier(Echoes + 1)
      /\ d.addr = Home(Echoes + 1)
      /\ bdt_tx' = [bdt_tx EXCEPT ![ep.tx_next] = new]
  BY EchoQueued
<1>2. UNCHANGED <<bdt_rx, buffers, rx_odd, tx_odd, irq, host>>
  BY DEF TokenOut, controller
<1>3. /\ Pending' = Pending /\ \A k \in 1 .. 2 : Home(k)' = Home(k) /\ Carrier(k)' = Carrier(k)
  BY <1>2 DEF Pending, Home, Carrier
<1>4. PacketInv /\ Shape /\ ReceiveInv
  BY DEF IInv
<1>5. \A b \in Banks : WaitsAt(b)' <=> WaitsAt(b) /\ b # Head(stat).bank
  BY <1>4, HandleToken
<1>6. /\ WaitsAt(1 - rx_odd)' <=> Echoes' < Pending'
      /\ WaitsAt(rx_odd)' <=> Echoes' = 0 /\ Pending' = 2
  BY <1>a, <1>1, <1>2, <1>3, <1>4, <1>5 DEF PacketInv, Home, Banks
<1>7. new.packet.addr = d.addr /\ new.packet.len = d.count
  OBVIOUS
<1> HIDE DEF d, new
<1>8. ASSUME NEW k \in 1 .. Pending
      PROVE  PacketAt(k)'
  <2>1. PacketAt(k) /\ Home(k)' = Home(k) /\ Carrier(k)' = Carrier(k) /\ Carrier(k) \in Banks
    BY <1>a, <1>3, <1>4, HomeWaits DEF PacketInv, PacketAt
  <2>2. CASE k = Echoes + 1
    <3>1. bdt_tx'[Carrier(k)].packet.addr = Home(k) /\ bdt_tx'[Carrier(k)].packet.len = d.count
      BY <1>b, <1>1, <1>7, <2>1, <2>2
    <3>2. irq = "on" => d.count = host.sent[k].len
      BY <1>a, <1>1, <2>1, <2>2 DEF PacketAt, d
    <3> QED
      BY <1>a, <1>1, <1>2, <2>1, <2>2, <3>1, <3>2 DEF PacketAt
  <2>3. CASE k # Echoes + 1
    <3>1. Carrier(k) # Carrier(Echoes + 1)
      BY <1>a, <1>1, <2>3 DEF Carrier
    <3>2. bdt_tx'[Carrier(k)] = bdt_tx[Carrier(k)]
      BY <1>b, <1>1, <2>1, <3>1
    <3>3. (k <= Echoes' <=> k <= Echoes) /\ (k > Echoes' <=> k > Echoes)
      BY <1>a, <1>1, <2>3
    <3> QED
      BY <1>2, <2>1, <3>2, <3>3 DEF PacketAt
  <2> QED
    BY <2>2, <2>3
<1>9. Pending' <= 2 /\ Echoes' <= Pending'
  BY <1>a, <1>1, <1>3
<1> QED
  BY <1>3, <1>6, <1>8, <1>9, <1>2 DEF PacketInv, PacketAt

LEMMA PacketSend ==
  ASSUME IInv, HostSends, Window <= 2
  PROVE  PacketInv'
<1>a. /\ rx_odd \in {0, 1} /\ tx_odd \in {0, 1} /\ Echoes \in 0 .. 2 /\ Pending \in 0 .. 2
  BY Numbers
<1>b. /\ host.sent \in Seq(HostPackets)
      /\ bdt_tx \in [Banks -> TransmitDescriptors] /\ bdt_rx \in [Banks -> ReceiveDescriptors]
  BY Numbers
<1>c. Shape /\ PacketInv /\ ReceiveInv
  BY DEF IInv
<1>1. /\ stat' = Append(stat, [tx |-> FALSE, bank |-> rx_odd]) /\ rx_odd' = 1 - rx_odd
      /\ UNCHANGED <<pc, tx_odd, bdt_tx>>
  BY DEF HostSends
<1>2. Pending \in 0 .. 1
  <2>1. Pending < Window
    BY DEF HostSends, Pending
  <2> QED
    BY <1>a, <2>1, CdcAssumption
<1>3. PICK size \in Nat, n \in Nat :
        /\ irq' = "on" => n = size /\ irq = "on"
        /\ bdt_rx' = [bdt_rx EXCEPT ![rx_odd] =
                        [bdt_rx[rx_odd] EXCEPT !.own = FALSE, !.count = n]]
        /\ buffers' = [buffers EXCEPT ![bdt_rx[rx_odd].addr] = host.next]
        /\ host' = [host EXCEPT !.sent = Append(@, [id |-> host.next, len |-> size]),
                                !.next = (@ + 1) % (Window + 1)]
  BY <1>c, SendStep
<1>4. buffers' = [buffers EXCEPT ![rx_odd] = host.next] /\ buffers \in [Banks -> Ids]
  BY <1>a, <1>c, <1>3 DEF ReceiveInv, Banks, Shape, DescriptorShape
<1> DEFINE p == [id |-> host.next, len |-> size]
<1>5. host'.sent = Append(host.sent, p)
  BY <1>3, <1>c DEF Shape, HostShape
<1>6. /\ Len(host'.sent) = Len(host.sent) + 1
      /\ \A k \in 1 .. Len(host.sent) : host'.sent[k] = host.sent[k]
      /\ host'.sent[Len(host.sent) + 1] = p
  <2>1. p \in HostPackets
    BY <1>c DEF Shape, HostShape, HostPackets
  <2> HIDE DEF p
  <2> QED
    BY <1>b, <1>5, <2>1
<1>7. /\ Pending' = Pending + 1 /\ Echoes' = Echoes
      /\ \A k \in 1 .. Pending : host'.sent[k] = host.sent[k]
      /\ host'.sent[Pending + 1] = p
  BY <1>1, <1>6 DEF Pending, Echoes
<1>8. /\ \A k \in {Pending + 1} : Home(k)' = rx_odd
      /\ \A k \in 1 .. Pending : Home(k)' = 1 - rx_odd /\ Home(k) = 1 - rx_odd /\ k = 1
      /\ \A k \in 1 .. 2 : Carrier(k)' = Carrier(k)
  BY <1>a, <1>1, <1>2, <1>7 DEF Home, Carrier
<1>9. /\ bdt_rx'[rx_odd].count = n /\ buffers'[rx_odd] = host.next
      /\ bdt_rx'[1 - rx_odd] = bdt_rx[1 - rx_odd] /\ buffers'[1 - rx_odd] = buffers[1 - rx_odd]
  BY <1>a, <1>b, <1>3, <1>4 DEF Banks, ReceiveDescriptors
<1>10. p.id = host.next /\ p.len = size
  OBVIOUS
<1> HIDE DEF p
<1>11. ASSUME NEW k \in 1 .. Pending + 1
       PROVE  PacketAt(k)'
  <2>1. CASE k = Pending + 1
    <3>1. Home(k)' = rx_odd /\ host'.sent[k] = p
      BY <1>7, <1>8, <2>1
    <3>2. k > Echoes /\ ~(k <= Echoes)
      BY <1>a, <1>c, <2>1 DEF PacketInv
    <3> QED
      BY <1>3, <1>7, <1>9, <1>10, <3>1, <3>2 DEF PacketAt
  <2>2. CASE k \in 1 .. Pending
    <3>1. PacketAt(k) /\ Home(k)' = 1 - rx_odd /\ Home(k) = 1 - rx_odd /\ host'.sent[k] = host.sent[k]
          /\ Carrier(k)' = Carrier(k)
      BY <1>c, <1>2, <1>7, <1>8, <2>2 DEF PacketInv
    <3> QED
      BY <1>1, <1>3, <1>7, <1>9, <3>1 DEF PacketAt
  <2> QED
    BY <1>2, <2>1, <2>2
<1>12. /\ WaitsAt(rx_odd)' <=> WaitsAt(1 - rx_odd)
       /\ WaitsAt(1 - rx_odd)'
  <2> DEFINE m == Len(stat) + 1
  <2>1. /\ \A i \in DOMAIN stat : stat'[i] = stat[i] /\ i < m
        /\ stat'[m].bank = rx_odd
        /\ Waiting' = Waiting \cup {m}
    BY <1>a, <1>c, <1>1, PushToken DEF Banks
  <2> HIDE DEF m
  <2>2. \A i \in Waiting : stat'[i] = stat[i]
    BY <2>1 DEF Waiting, Received
  <2>3. 1 - rx_odd # rx_odd /\ 1 - rx_odd' = rx_odd
    BY <1>a, <1>1
  <2>4. WaitsAt(1 - rx_odd)'
    BY <2>1, <2>3 DEF WaitsAt
  <2>5. WaitsAt(rx_odd)' <=> WaitsAt(1 - rx_odd)
    BY <1>1, <2>1, <2>2, <2>3 DEF WaitsAt
  <2> QED
    BY <2>4, <2>5
<1>13. /\ WaitsAt(1 - rx_odd)' <=> Echoes' < Pending'
       /\ WaitsAt(rx_odd)' <=> Echoes' = 0 /\ Pending' = 2
       /\ Pending' <= 2 /\ Echoes' <= Pending'
  BY <1>a, <1>c, <1>2, <1>7, <1>12 DEF PacketInv
<1> QED
  BY <1>7, <1>11, <1>13 DEF PacketInv

LEMMA PacketTake ==
  ASSUME IInv, HostTakes
  PROVE  PacketInv'
<1>a. /\ rx_odd \in {0, 1} /\ tx_odd \in {0, 1} /\ Echoes \in 0 .. 2 /\ Pending \in 0 .. 2
  BY Numbers
<1>b. /\ host.sent \in Seq(HostPackets)
      /\ bdt_tx \in [Banks -> TransmitDescriptors] /\ bdt_rx \in [Banks -> ReceiveDescriptors]
  BY Numbers
<1>c. Shape /\ PacketInv /\ ReceiveInv
  BY DEF IInv
<1>1. /\ Echoes >= 1 /\ Echoes' = Echoes - 1 /\ host.sent # << >>
      /\ tx_odd' = 1 - tx_odd /\ bdt_tx'[1 - tx_odd] = bdt_tx[1 - tx_odd]
      /\ UNCHANGED <<bdt_rx, buffers, rx_odd, pc, irq>>
      /\ stat' = Append(stat, [tx |-> TRUE, bank |-> tx_odd])
  BY EchoTaken DEF HostTakes
<1>2. host'.sent = Tail(host.sent)
  BY <1>c, EchoTaken DEF Shape, HostShape
<1>3. /\ Pending' = Pending - 1
      /\ \A k \in 1 .. Pending - 1 : host'.sent[k] = host.sent[k + 1]
  BY <1>b, <1>1, <1>2 DEF Pending
<1>4. \A k \in 1 .. Pending - 1 : k = 1 /\ Home(k)' = Home(k + 1) /\ Carrier(k)' = Carrier(k + 1)
                                /\ Carrier(k + 1) = 1 - tx_odd
  BY <1>a, <1>1, <1>3 DEF Home, Carrier
<1>5. ASSUME NEW k \in 1 .. Pending - 1
      PROVE  PacketAt(k)'
  <2>1. PacketAt(k + 1)
    BY <1>a, <1>c DEF PacketInv
  <2>2. (k <= Echoes' <=> k + 1 <= Echoes) /\ (k > Echoes' <=> k + 1 > Echoes)
    BY <1>a, <1>1
  <2> QED
    BY <1>1, <1>3, <1>4, <2>1, <2>2 DEF PacketAt
<1>6. \A b \in Banks : WaitsAt(b)' <=> WaitsAt(b)
  <2>1. (\A i \in DOMAIN stat : stat'[i] = stat[i]) /\ Waiting' = Waiting
    BY <1>a, <1>c, <1>1, PushToken DEF Banks
  <2>2. \A i \in Waiting : stat'[i] = stat[i]
    BY <2>1 DEF Waiting, Received
  <2> QED
    BY <2>1, <2>2 DEF WaitsAt
<1>7. /\ WaitsAt(1 - rx_odd)' <=> Echoes' < Pending'
      /\ WaitsAt(rx_odd)' <=> Echoes' = 0 /\ Pending' = 2
      /\ Pending' <= 2 /\ Echoes' <= Pending'
  BY <1>a, <1>c, <1>1, <1>3, <1>6 DEF PacketInv, Banks
<1> QED
  BY <1>3, <1>5, <1>7 DEF PacketInv

LEMMA PacketStep ==
  ASSUME IInv, [Next]_vars, Window <= 2
  PROVE  PacketInv'
<1>a. Shape /\ PacketInv /\ ReceiveInv /\ TransmitInv /\ OpenInv
  BY DEF IInv
<1>1. CASE TokenIn
  <2>1. UNCHANGED <<bdt_rx, bdt_tx, buffers, rx_odd, tx_odd, irq, host>>
    BY <1>1 DEF TokenIn, controller
  <2>2. Waiting' = Waiting /\ stat' = stat
    BY <1>a, <1>1, HandleSent
  <2> QED
    BY <1>a, <2>1, <2>2 DEF PacketInv, PacketAt, Pending, Echoes, Home, Carrier, WaitsAt
<1>2. CASE TokenDone
  <2>a. /\ rx_odd \in {0, 1} /\ Pending \in 0 .. 2 /\ bdt_rx \in [Banks -> ReceiveDescriptors]
    BY Numbers
  <2> DEFINE b == Head(stat).bank
  <2>1. UNCHANGED <<bdt_tx, buffers, rx_odd, tx_odd, irq, host>>
        /\ bdt_rx' = IF Head(stat).tx THEN bdt_rx
                     ELSE [bdt_rx EXCEPT ![b] = [@ EXCEPT !.own = TRUE, !.count = EP0_BUFSIZE]]
    BY <1>2 DEF TokenDone
  <2>2. /\ \A c \in Banks : WaitsAt(c)' <=> WaitsAt(c)
        /\ ~Head(stat).tx => \A c \in Banks : WaitsAt(c) => c # b
    BY <1>a, <1>2, PopToken
  <2>3. Pending' = Pending /\ Echoes' = Echoes
    BY <2>1 DEF Pending, Echoes
  <2>4. \A k \in 1 .. Pending : Home(k)' = Home(k) /\ Carrier(k)' = Carrier(k)
    BY <2>1, <2>3 DEF Home, Carrier
  <2> HIDE DEF b
  <2>5. ASSUME NEW k \in 1 .. Pending
        PROVE  PacketAt(k)'
    <3>1. PacketAt(k) /\ Home(k) \in Banks /\ (k > Echoes => WaitsAt(Home(k)))
      BY <1>a, HomeWaits DEF PacketInv
    <3>2. k > Echoes => bdt_rx'[Home(k)] = bdt_rx[Home(k)]
      BY <2>a, <2>1, <2>2, <3>1
    <3> QED
      BY <2>1, <2>3, <2>4, <3>1, <3>2 DEF PacketAt
  <2>6. 1 - rx_odd \in Banks /\ rx_odd \in Banks
    BY <2>a DEF Banks
  <2> QED
    BY <1>a, <2>1, <2>2, <2>3, <2>5, <2>6 DEF PacketInv
<1>3. CASE usb_set_config \/ usb_reset \/ HostReset
  <2>1. host'.sent = << >> /\ stat' = << >>
    BY <1>a, <1>3 DEF usb_set_config, usb_reset, HostReset, Quiet, OpenInv, Fresh, Shape, HostShape,
       controller
  <2>2. Pending' = 0 /\ \A c \in Banks : ~WaitsAt(c)'
    BY <2>1 DEF Pending, WaitsAt, Waiting, Received
  <2>3. Echoes' = 0
    <3>1. host.sent = << >>
      BY <1>a, <1>3 DEF usb_set_config, usb_reset, HostReset, Quiet, OpenInv
    <3>2. \A c \in Banks : ~bdt_tx[c].own
      <4>1. tx_odd \in {0, 1} /\ Pending = 0 /\ Echoes \in 0 .. 2
        BY <3>1, Numbers DEF Pending
      <4>2. Echoes = 0
        BY <1>a, <4>1 DEF PacketInv
      <4> QED
        BY <1>a, <4>1, <4>2 DEF Echoes, TransmitInv, Banks
    <3>3. tx_odd' \in Banks
      BY <1>a, ShapeStep DEF Shape, QueueShape
    <3>4. \A c \in Banks : ~bdt_tx'[c].own
      <4>1. CASE usb_set_config
        BY <1>a, <4>1, ConfigStep
      <4>2. CASE usb_reset \/ HostReset
        BY <3>2, <4>2 DEF usb_reset, HostReset
      <4> QED
        BY <1>3, <4>1, <4>2
    <3> QED
      BY <3>3, <3>4 DEF Echoes
  <2>4. rx_odd' \in Banks /\ 1 - rx_odd' \in Banks
    BY <1>a, ShapeStep DEF Shape, QueueShape, Banks
  <2> QED
    BY <2>2, <2>3, <2>4 DEF PacketInv
<1>4. CASE usb_error
  <2>1. UNCHANGED <<bdt_rx, bdt_tx, buffers, rx_odd, tx_odd, stat, pc, host>> /\ irq' = "off"
    BY <1>4 DEF usb_error
  <2> QED
    BY <1>a, <2>1 DEF PacketInv, PacketAt, Pending, Echoes, Home, Carrier, WaitsAt, Waiting, Received
<1>5. CASE HostAsks \/ UNCHANGED vars
  <2>1. UNCHANGED <<bdt_rx, bdt_tx, buffers, rx_odd, tx_odd, stat, pc, irq>>
    BY <1>5 DEF HostAsks, vars, controller
  <2>2. host'.sent = host.sent
    BY <1>a, <1>5 DEF HostAsks, vars, Shape, HostShape
  <2> QED
    BY <1>a, <2>1, <2>2
       DEF PacketInv, PacketAt, Pending, Echoes, Home, Carrier, WaitsAt, Waiting, Received
<1> QED
  BY <1>1, <1>2, <1>3, <1>4, <1>5, PacketTokenOut, PacketSend, PacketTake
     DEF Next, USBOTG_IRQHandler

\* In order: what the host takes is the first packet it waits for.
LEMMA OrderStep ==
  ASSUME IInv, [Next]_vars
  PROVE  EchoInOrder'
<1>a. Shape /\ PacketInv /\ OpenInv /\ EchoInOrder
  BY DEF IInv
<1>1. CASE HostTakes
  <2>a. Echoes \in 0 .. 2 /\ Pending \in 0 .. 2 /\ host.sent \in Seq(HostPackets)
    BY Numbers
  <2> DEFINE d == bdt_tx[tx_odd]
  <2>1. /\ Echoes >= 1 /\ host.sent # << >>
        /\ host' = [host EXCEPT !.sent = Tail(@), !.due = Head(host.sent),
                       !.got = [id |-> buffers[d.packet.addr], len |-> d.packet.len],
                       !.toggle = 1 - @]
    BY <1>1, EchoTaken
  <2>2. host'.due = host.sent[1] /\ host'.got = [id |-> buffers[d.packet.addr], len |-> d.packet.len]
    BY <1>a, <2>a, <2>1 DEF Shape, HostShape
  <2>3. 1 \in 1 .. Pending /\ 1 <= Echoes /\ Carrier(1) = tx_odd
    BY <1>a, <2>a, <2>1 DEF PacketInv, Carrier
  <2>4. PacketAt(1)
    BY <1>a, <2>3 DEF PacketInv
  <2>5. irq' = irq
    BY <1>1 DEF HostTakes
  <2> QED
    BY <2>2, <2>3, <2>4, <2>5 DEF PacketAt, EchoInOrder
<1>2. CASE HostReset
  BY <1>2 DEF HostReset, Fresh, NoPacket, EchoInOrder
<1>3. CASE usb_reset
  BY <1>a, <1>3 DEF usb_reset, OpenInv, NoPacket, EchoInOrder
<1>4. CASE ~HostTakes /\ ~HostReset /\ ~usb_reset
  <2>1. host'.got = host.got /\ host'.due = host.due
    <3>1. CASE host' = host
      BY <3>1
    <3>2. CASE HostAsks \/ usb_set_config
      BY <1>a, <3>2 DEF HostAsks, usb_set_config, Shape, HostShape
    <3>3. CASE HostSends
      <4>1. PICK size \in Nat :
              host' = [host EXCEPT !.sent = Append(@, [id |-> host.next, len |-> size]),
                                   !.next = (@ + 1) % (Window + 1)]
        BY <1>a, <3>3, SendStep
      <4> QED
        BY <1>a, <4>1 DEF Shape, HostShape
    <3> QED
      BY <1>4, <3>1, <3>2, <3>3
         DEF Next, USBOTG_IRQHandler, TokenOut, TokenIn, TokenDone, usb_error, vars
  <2>2. irq' = "on" => irq = "on"
    <3>1. CASE HostSends
      BY <1>a, <3>1, SendStep
    <3>2. CASE ~HostSends
      BY <1>4, <3>2
         DEF Next, USBOTG_IRQHandler, TokenOut, TokenIn, TokenDone, usb_error, vars, HostAsks,
             usb_set_config, controller
    <3> QED
      BY <3>1, <3>2
  <2> QED
    BY <1>a, <2>1, <2>2 DEF EchoInOrder
<1> QED
  BY <1>1, <1>2, <1>3, <1>4

LEMMA OpenStep ==
  ASSUME IInv, [Next]_vars
  PROVE  OpenInv'
<1>a. Shape /\ OpenInv
  BY DEF IInv
<1>b. ep \in [data0 : Banks, tx_next : Banks, tx_last : Banks, pending : {NoData},
             rx_handler : BOOLEAN]
  BY <1>a DEF Shape, EndpointShape
<1>1. CASE TokenOut
  <2>1. ep'.rx_handler = ep.rx_handler
    BY <1>1, <1>b, EchoQueued
  <2>2. host.open
    BY <1>a, <1>1 DEF TokenOut, AtToken, OpenInv
  <2> QED
    BY <1>a, <1>1, <2>1, <2>2 DEF TokenOut, controller, OpenInv
<1>2. CASE TokenIn
  BY <1>a, <1>b, <1>2 DEF TokenIn, AtToken, controller, OpenInv
<1>3. CASE TokenDone
  BY <1>a, <1>3 DEF TokenDone, OpenInv
<1>4. CASE usb_error
  BY <1>a, <1>4 DEF usb_error, OpenInv
<1>5. CASE HostAsks
  BY <1>a, <1>5 DEF HostAsks, OpenInv, controller, Shape, HostShape
<1>6. CASE usb_set_config
  <2>1. ep'.rx_handler
    BY <1>a, <1>b, <1>6, ConfigStep
  <2>2. host'.open /\ ~usbrst'
    BY <1>a, <1>6 DEF usb_set_config, Quiet, controller, Shape, HostShape
  <2> QED
    BY <2>1, <2>2 DEF OpenInv
<1>7. CASE HostSends
  <2>1. PICK size \in Nat :
          host' = [host EXCEPT !.sent = Append(@, [id |-> host.next, len |-> size]),
                               !.next = (@ + 1) % (Window + 1)]
    BY <1>a, <1>7, SendStep
  <2>2. host'.open = host.open
    BY <1>a, <2>1 DEF Shape, HostShape
  <2> QED
    BY <1>a, <1>7, <2>2 DEF HostSends, OpenInv
<1>8. CASE HostTakes
  <2>1. host'.open = host.open
    BY <1>a, <1>8, EchoTaken DEF Shape, HostShape
  <2> QED
    BY <1>a, <1>8, <2>1 DEF HostTakes, OpenInv
<1>9. CASE HostReset
  BY <1>a, <1>9 DEF HostReset, Quiet, Fresh, OpenInv
<1>10. CASE usb_reset
  BY <1>a, <1>10 DEF usb_reset, OpenInv
<1>11. CASE UNCHANGED vars
  BY <1>a, <1>11 DEF vars, controller, OpenInv
<1> QED
  BY <1>1, <1>2, <1>3, <1>4, <1>5, <1>6, <1>7, <1>8, <1>9, <1>10, <1>11
     DEF Next, USBOTG_IRQHandler

LEMMA InvariantInit == Init => IInv
<1> SUFFICES ASSUME Init PROVE IInv
  OBVIOUS
<1>1. Shape
  BY ShapeInit
<1>2. /\ ep.tx_next = 0 /\ ep.data0 = 0 /\ host.sent = << >> /\ host.toggle = 0 /\ tx_odd = 0
      /\ rx_odd = 0 /\ stat = << >> /\ pc = "idle" /\ irq = "on" /\ ~host.open
      /\ host.got = NoPacket /\ host.due = NoPacket
      /\ \A b \in Banks : bdt_rx[b].addr = b /\ ~bdt_tx[b].own
  BY DEF Init, NewEndpoint, Fresh, Cleared, Finished
<1>3. Pending = 0 /\ Echoes = 0 /\ Received = {} /\ Waiting = {}
  BY <1>2 DEF Pending, Echoes, Banks, Received, Waiting
<1>4. ReceiveInv
  BY <1>2, <1>3 DEF ReceiveInv
<1>5. TransmitInv
  BY <1>2, <1>3 DEF TransmitInv, Banks
<1>6. PacketInv
  BY <1>3 DEF PacketInv, WaitsAt
<1>7. OpenInv /\ EchoInOrder
  BY <1>2 DEF OpenInv, EchoInOrder
<1> QED
  BY <1>1, <1>4, <1>5, <1>6, <1>7 DEF IInv

LEMMA InvariantStep == IInv /\ [Next]_vars /\ Window <= 2 => IInv'
<1> SUFFICES ASSUME IInv, [Next]_vars, Window <= 2 PROVE IInv'
  OBVIOUS
<1>1. Shape'
  BY ShapeStep DEF IInv
<1> QED
  BY <1>1, ReceiveStep, TransmitStep, PacketStep, OpenStep, OrderStep DEF IInv

-----------------------------------------------------------------------------
(* The theorems.                                                               *)

\* A received packet is no longer than its buffer, and the host sends none that is.
CountInv == \A b \in Banks : bdt_rx[b].count <= CDC_RX_SIZE

LEMMA CountStep ==
  ASSUME Shape, CountInv, [Next]_vars, SmallPackets
  PROVE  CountInv'
<1>a. bdt_rx \in [Banks -> ReceiveDescriptors] /\ rx_odd \in Banks
  BY DEF Shape, DescriptorShape, QueueShape, ReceiveDescriptors
<1>1. CASE TokenDone
  <2> DEFINE b == Head(stat).bank
  <2>1. bdt_rx' = IF Head(stat).tx THEN bdt_rx
                  ELSE [bdt_rx EXCEPT ![b] = [@ EXCEPT !.own = TRUE, !.count = EP0_BUFSIZE]]
    BY <1>1 DEF TokenDone
  <2> HIDE DEF b
  <2> QED
    BY <1>a, <2>1 DEF CountInv, SmallPackets, ReceiveDescriptors
<1>2. CASE usb_set_config
  BY <1>2, ConfigStep DEF CountInv, CDC_RX_SIZE
<1>3. CASE HostSends
  <2>1. PICK size \in Nat, n \in Nat :
          /\ n <= size /\ size \in PacketSizes
          /\ bdt_rx' = [bdt_rx EXCEPT ![rx_odd] =
                          [bdt_rx[rx_odd] EXCEPT !.own = FALSE, !.count = n]]
    BY <1>3, SendStep
  <2>2. size \in 1 .. CDC_RX_SIZE /\ CDC_RX_SIZE = 64
    BY <2>1, CdcAssumption DEF CDC_RX_SIZE
  <2>3. n <= CDC_RX_SIZE
    BY <2>1, <2>2
  <2> QED
    BY <1>a, <2>1, <2>3 DEF CountInv, ReceiveDescriptors
<1>4. CASE bdt_rx' = bdt_rx
  BY <1>4 DEF CountInv
<1> QED
  BY <1>1, <1>2, <1>3, <1>4
     DEF Next, USBOTG_IRQHandler, usb_reset, TokenOut, TokenIn, usb_error, HostAsks, HostTakes,
         HostReset, vars

LEMMA TypeFromShape == Shape /\ CountInv => TypeOK
<1> SUFFICES ASSUME Shape, CountInv PROVE TypeOK
  OBVIOUS
<1>1. \A b \in Banks : bdt_rx[b].count \in 0 .. CDC_RX_SIZE
  <2> SUFFICES ASSUME NEW b \in Banks PROVE bdt_rx[b].count \in 0 .. CDC_RX_SIZE
    OBVIOUS
  <2>1. bdt_rx[b].count \in Nat
    BY DEF Shape, DescriptorShape
  <2> QED
    BY <2>1 DEF CountInv, CDC_RX_SIZE
<1> QED
  BY <1>1 DEF Shape, EndpointShape, DescriptorShape, QueueShape, HostShape, TypeOK, Banks

\* The variables keep their types (usb.c), however many packets the host sends ahead.
THEOREM TypeCorrect == SmallPackets => (Spec => []TypeOK)
<1> SUFFICES ASSUME SmallPackets PROVE Spec => []TypeOK
  OBVIOUS
<1>1. Init => Shape /\ CountInv
  <2>1. Init => CountInv
    BY DEF Init, CountInv, CDC_RX_SIZE
  <2> QED
    BY <2>1, ShapeInit
<1>2. Shape /\ CountInv /\ [Next]_vars => Shape' /\ CountInv'
  BY ShapeStep, CountStep
<1> QED
  BY <1>1, <1>2, TypeFromShape, PTL DEF Spec

\* The invariant of the echo path.
THEOREM Invariance == Window <= 2 => (Spec => []IInv)
<1> SUFFICES ASSUME Window <= 2 PROVE Spec => []IInv
  OBVIOUS
<1>1. IInv /\ [Next]_vars => IInv'
  BY InvariantStep
<1> QED
  BY <1>1, InvariantInit, PTL DEF Spec

\* The host gets its packets back in order, each with its own content, as long as it is at
\* most two packets ahead: cdc_rx_handler sends from the buffer it received in.
THEOREM EchoesInOrder == Window <= 2 => (Spec => []EchoInOrder)
<1> SUFFICES ASSUME Window <= 2 PROVE Spec => []EchoInOrder
  OBVIOUS
<1>1. Spec => []IInv
  BY Invariance
<1>2. IInv => EchoInOrder
  BY DEF IInv
<1> QED
  BY <1>1, <1>2, PTL

-----------------------------------------------------------------------------
(* What the device tells the host, from the widths of its structures.          *)

\* n steps of h from a.
Steps(n, S) == [1 .. n -> [S -> S]]
Iterates(f, n, S, a, h) ==
  f \in [0 .. n -> S] /\ f[0] = a /\ \A i \in 1 .. n : f[i] = h[i][f[i - 1]]

\* n steps can be made from any start: the recursive functions of module Descriptors exist.
LEMMA Iterated ==
  ASSUME NEW n \in Nat, NEW S, NEW a \in S, NEW h \in Steps(n, S)
  PROVE  \E f : Iterates(f, n, S, a, h)
<1> DEFINE Exists(k) == \E f \in [0 .. k -> S] : f[0] = a /\ \A i \in 1 .. k : f[i] = h[i][f[i - 1]]
           Missing == {k \in 0 .. n : ~Exists(k)}
           Less == OpToRel(<, Nat)
<1> SUFFICES ASSUME n \in Missing PROVE FALSE
  BY DEF Iterates
<1> USE DEF Steps
<1>1. PICK m \in Missing : \A k \in Missing : <<k, m>> \notin Less
  <2>1. IsWellFoundedOn(Less, Nat)
    BY NatLessThanWellFounded
  <2> HIDE DEF Exists
  <2>2. Missing \subseteq Nat /\ Missing # {}
    OBVIOUS
  <2> HIDE DEF Missing, Less
  <2> QED
    BY <2>1, <2>2, WFMin
<1>2. Exists(0)
  <2>1. [i \in 0 .. 0 |-> a] \in [0 .. 0 -> S]
    OBVIOUS
  <2> WITNESS [i \in 0 .. 0 |-> a] \in [0 .. 0 -> S]
  <2> QED
    OBVIOUS
<1>3. m \in 1 .. n
  <2> HIDE DEF Exists
  <2>1. m \in 0 .. n /\ m # 0
    BY <1>1, <1>2
  <2> QED
    BY <2>1
<1>4. Exists(m - 1)
  <2>1. <<m - 1, m>> \in Less /\ m - 1 \in 0 .. n
    BY <1>3 DEF OpToRel
  <2> HIDE DEF Exists
  <2> QED
    BY <1>1, <2>1
<1>5. PICK f \in [0 .. m - 1 -> S] : f[0] = a /\ \A i \in 1 .. m - 1 : f[i] = h[i][f[i - 1]]
  BY <1>4
<1> DEFINE g == [i \in 0 .. m |-> IF i = m THEN h[m][f[m - 1]] ELSE f[i]]
<1>6. h[m][f[m - 1]] \in S
  BY <1>3
<1>7. g \in [0 .. m -> S] /\ g[0] = a /\ \A i \in 1 .. m : g[i] = h[i][g[i - 1]]
  BY <1>3, <1>5, <1>6
<1>8. Exists(m)
  BY <1>7
<1> QED
  BY <1>1, <1>8

\* What Sums computes, for every sequence.
LEMMA SumsAre ==
  ASSUME NEW s \in Seq(Nat)
  PROVE  /\ Sums(s)[0] = 0
         /\ \A i \in 1 .. Len(s) : Sums(s)[i] = Sums(s)[i - 1] + s[i]
<1> DEFINE n == Len(s)
           h == [i \in 1 .. n |-> [x \in Nat |-> x + s[i]]]
<1>1. n \in Nat /\ h \in Steps(n, Nat)
  BY DEF Steps
<1>2. PICK f : Iterates(f, n, Nat, 0, h)
  <2> HIDE DEF n, h
  <2> QED
    BY <1>1, Iterated
<1>3. \A i \in 1 .. n : f[i] = f[i - 1] + s[i]
  <2> SUFFICES ASSUME NEW i \in 1 .. n PROVE f[i] = f[i - 1] + s[i]
    OBVIOUS
  <2>1. f[i] = h[i][f[i - 1]] /\ i - 1 \in 0 .. n /\ f \in [0 .. n -> Nat]
    <3> HIDE DEF h
    <3> QED
      BY <1>1, <1>2 DEF Iterates
  <2>2. f[i - 1] \in Nat
    BY <2>1
  <2> QED
    BY <2>1, <2>2
<1>4. f = [i \in 0 .. n |-> IF i = 0 THEN 0 ELSE f[i - 1] + s[i]]
  <2> HIDE DEF h
  <2> QED
    BY <1>1, <1>2, <1>3 DEF Iterates
<1> DEFINE sum == CHOOSE g : g = [i \in 0 .. n |-> IF i = 0 THEN 0 ELSE g[i - 1] + s[i]]
<1>5. sum = [i \in 0 .. n |-> IF i = 0 THEN 0 ELSE sum[i - 1] + s[i]]
  BY <1>4
<1>6. Sums(s) = sum
  BY DEF Sums
<1> HIDE DEF sum, n, h
<1>7. 0 \in 0 .. n /\ \A i \in 1 .. n : i \in 0 .. n /\ i # 0
  BY <1>1
<1>8. sum[0] = 0 /\ \A i \in 1 .. n : sum[i] = sum[i - 1] + s[i]
  BY <1>5, <1>7
<1> QED
  BY <1>6, <1>8 DEF n

\* The sizes of the packed structures (usb.h).
LEMMA DeviceSize == sizeof(USB_DEV_DSC) = 18
<1> DEFINE s == USB_DEV_DSC
<1>1. s \in Seq(Nat) /\ Len(s) = 14
  BY DEF USB_DEV_DSC
<1>2. \A i \in 1 .. 14 : s[i] = IF i \in {3, 8, 9, 10} THEN 2 ELSE 1
  BY DEF USB_DEV_DSC
<1> HIDE DEF s
<1>3. Sums(s)[0] = 0 /\ \A i \in 1 .. 14 : Sums(s)[i] = Sums(s)[i - 1] + s[i]
  BY <1>1, SumsAre
<1>4. sizeof(s) = 18
  BY <1>1, <1>2, <1>3, SMTT(60) DEF sizeof
<1> QED
  BY <1>4 DEF s

LEMMA ConfigurationSize == sizeof(USB_CFG_DSC) = 9
<1> DEFINE s == USB_CFG_DSC
<1>1. s \in Seq(Nat) /\ Len(s) = 8
  BY DEF USB_CFG_DSC
<1>2. \A i \in 1 .. 8 : s[i] = IF i \in {3} THEN 2 ELSE 1
  BY DEF USB_CFG_DSC
<1> HIDE DEF s
<1>3. Sums(s)[0] = 0 /\ \A i \in 1 .. 8 : Sums(s)[i] = Sums(s)[i - 1] + s[i]
  BY <1>1, SumsAre
<1>4. sizeof(s) = 9
  BY <1>1, <1>2, <1>3 DEF sizeof
<1> QED
  BY <1>4 DEF s

LEMMA InterfaceSize == sizeof(USB_INTF_DSC) = 9
<1> DEFINE s == USB_INTF_DSC
<1>1. s \in Seq(Nat) /\ Len(s) = 9
  BY DEF USB_INTF_DSC
<1>2. \A i \in 1 .. 9 : s[i] = 1
  BY DEF USB_INTF_DSC
<1> HIDE DEF s
<1>3. Sums(s)[0] = 0 /\ \A i \in 1 .. 9 : Sums(s)[i] = Sums(s)[i - 1] + s[i]
  BY <1>1, SumsAre
<1>4. sizeof(s) = 9
  BY <1>1, <1>2, <1>3 DEF sizeof
<1> QED
  BY <1>4 DEF s

LEMMA EndpointSize == sizeof(USB_EP_DSC) = 7
<1> DEFINE s == USB_EP_DSC
<1>1. s \in Seq(Nat) /\ Len(s) = 6
  BY DEF USB_EP_DSC
<1>2. \A i \in 1 .. 6 : s[i] = IF i \in {5} THEN 2 ELSE 1
  BY DEF USB_EP_DSC
<1> HIDE DEF s
<1>3. Sums(s)[0] = 0 /\ \A i \in 1 .. 6 : Sums(s)[i] = Sums(s)[i - 1] + s[i]
  BY <1>1, SumsAre
<1>4. sizeof(s) = 7
  BY <1>1, <1>2, <1>3 DEF sizeof
<1> QED
  BY <1>4 DEF s

LEMMA HeaderSize == sizeof(USB_CDC_HEADER_FN_DSC) = 5
<1> DEFINE s == USB_CDC_HEADER_FN_DSC
<1>1. s \in Seq(Nat) /\ Len(s) = 4
  BY DEF USB_CDC_HEADER_FN_DSC
<1>2. \A i \in 1 .. 4 : s[i] = IF i \in {4} THEN 2 ELSE 1
  BY DEF USB_CDC_HEADER_FN_DSC
<1> HIDE DEF s
<1>3. Sums(s)[0] = 0 /\ \A i \in 1 .. 4 : Sums(s)[i] = Sums(s)[i - 1] + s[i]
  BY <1>1, SumsAre
<1>4. sizeof(s) = 5
  BY <1>1, <1>2, <1>3 DEF sizeof
<1> QED
  BY <1>4 DEF s

LEMMA CallSize == sizeof(USB_CDC_CALL_MGT_FN_DSC) = 5
<1> DEFINE s == USB_CDC_CALL_MGT_FN_DSC
<1>1. s \in Seq(Nat) /\ Len(s) = 5
  BY DEF USB_CDC_CALL_MGT_FN_DSC
<1>2. \A i \in 1 .. 5 : s[i] = 1
  BY DEF USB_CDC_CALL_MGT_FN_DSC
<1> HIDE DEF s
<1>3. Sums(s)[0] = 0 /\ \A i \in 1 .. 5 : Sums(s)[i] = Sums(s)[i - 1] + s[i]
  BY <1>1, SumsAre
<1>4. sizeof(s) = 5
  BY <1>1, <1>2, <1>3 DEF sizeof
<1> QED
  BY <1>4 DEF s

LEMMA AcmSize == sizeof(USB_CDC_ACM_FN_DSC) = 4
<1> DEFINE s == USB_CDC_ACM_FN_DSC
<1>1. s \in Seq(Nat) /\ Len(s) = 4
  BY DEF USB_CDC_ACM_FN_DSC
<1>2. \A i \in 1 .. 4 : s[i] = 1
  BY DEF USB_CDC_ACM_FN_DSC
<1> HIDE DEF s
<1>3. Sums(s)[0] = 0 /\ \A i \in 1 .. 4 : Sums(s)[i] = Sums(s)[i - 1] + s[i]
  BY <1>1, SumsAre
<1>4. sizeof(s) = 4
  BY <1>1, <1>2, <1>3 DEF sizeof
<1> QED
  BY <1>4 DEF s

LEMMA UnionSize == sizeof(USB_CDC_UNION_FN_DSC) = 5
<1> DEFINE s == USB_CDC_UNION_FN_DSC
<1>1. s \in Seq(Nat) /\ Len(s) = 5
  BY DEF USB_CDC_UNION_FN_DSC
<1>2. \A i \in 1 .. 5 : s[i] = 1
  BY DEF USB_CDC_UNION_FN_DSC
<1> HIDE DEF s
<1>3. Sums(s)[0] = 0 /\ \A i \in 1 .. 5 : Sums(s)[i] = Sums(s)[i - 1] + s[i]
  BY <1>1, SumsAre
<1>4. sizeof(s) = 5
  BY <1>1, <1>2, <1>3 DEF sizeof
<1> QED
  BY <1>4 DEF s

\* The sizes of the parts of the configuration, and where they start and the last one ends.
Sizes == <<9, 9, 5, 5, 4, 5, 7, 9, 7, 7>>
Offsets == <<0, 9, 18, 23, 28, 32, 37, 44, 53, 60, 67>>

LEMMA OffsetsAre == Offset = Offsets
<1> DEFINE sizes == [i \in DOMAIN USB_CONFIG |-> sizeof(USB_CONFIG[i])]
<1>1. Len(USB_CONFIG) = 10 /\ DOMAIN USB_CONFIG = 1 .. 10
  BY DEF USB_CONFIG
<1>2. \A i \in 1 .. 10 : sizeof(USB_CONFIG[i]) = Sizes[i]
  BY ConfigurationSize, InterfaceSize, EndpointSize, HeaderSize, CallSize, AcmSize, UnionSize
     DEF USB_CONFIG, Sizes
<1>3. sizes = Sizes /\ Sizes \in Seq(Nat) /\ Len(Sizes) = 10
  <2>1. Sizes \in Seq(Nat) /\ Len(Sizes) = 10
    BY DEF Sizes
  <2>2. Sizes = [i \in 1 .. 10 |-> Sizes[i]]
    BY DEF Sizes
  <2> QED
    BY <1>1, <1>2, <2>1, <2>2
<1>4. /\ Sums(Sizes)[0] = 0
      /\ \A i \in 1 .. 10 : Sums(Sizes)[i] = Sums(Sizes)[i - 1] + Sizes[i]
  BY <1>3, SumsAre
<1>5. Offset = [i \in 1 .. 11 |-> Sums(Sizes)[i - 1]]
  <2> HIDE DEF sizes
  <2>1. Offset = [i \in 1 .. 11 |-> Sums(sizes)[i - 1]]
    BY <1>1 DEF Offset, sizes
  <2> QED
    BY <1>3, <2>1
<1>6. \A i \in 1 .. 11 : Sums(Sizes)[i - 1] = Offsets[i]
  BY <1>4 DEF Sizes, Offsets
<1>7. Offsets = [i \in 1 .. 11 |-> Offsets[i]]
  BY DEF Offsets
<1> QED
  BY <1>5, <1>6, <1>7

\* Every bLength is the size of its structure.
LEMMA LengthsAre ==
  \A i \in 1 .. 10 : config_descriptor[i].bLength = Sizes[i]
BY ConfigurationSize, InterfaceSize, EndpointSize, HeaderSize, CallSize, AcmSize, UnionSize
   DEF config_descriptor, Interface, Functional, ToDevice, ToHost, Sizes

\* The offsets a host comes to.
Places == {0, 9, 18, 23, 28, 32, 37, 44, 53, 60, 67}

\* From each part the host steps to the next one, and from the end nowhere.
LEMMA StepsToNext ==
  /\ \A i \in 1 .. 10 : Step(Offsets[i]) = Offsets[i + 1]
  /\ Step(67) = 67
<1>1. DOMAIN USB_CONFIG = 1 .. 10
  BY DEF USB_CONFIG
<1>2. \A i \in 1 .. 10 : StartsAt(Offsets[i]) = {i}
  BY <1>1, OffsetsAre DEF StartsAt, Offsets
<1>3. \A i \in 1 .. 10 : Step(Offsets[i]) = Offsets[i] + Sizes[i]
  BY <1>2, LengthsAre DEF Step
<1>4. \A i \in 1 .. 10 : Offsets[i] + Sizes[i] = Offsets[i + 1]
  BY DEF Offsets, Sizes
<1>5. StartsAt(67) = {}
  BY <1>1, OffsetsAre DEF StartsAt, Offsets
<1> QED
  BY <1>3, <1>4, <1>5 DEF Step

LEMMA WalkIs == Walk = Places
<1> DEFINE h == [k \in 1 .. 10 |-> [o \in Places |-> Step(o)]]
           walk == CHOOSE g : g = [k \in 0 .. 10 |-> IF k = 0 THEN 0 ELSE Step(g[k - 1])]
<1>1. \A o \in Places : Step(o) \in Places
  BY StepsToNext DEF Offsets, Places
<1>2. h \in Steps(10, Places) /\ 0 \in Places /\ 10 \in Nat
  BY <1>1 DEF Steps, Places
<1>3. PICK f : Iterates(f, 10, Places, 0, h)
  <2> HIDE DEF h
  <2> QED
    BY <1>2, Iterated
<1>4. /\ f \in [0 .. 10 -> Places] /\ f[0] = 0
      /\ \A k \in 1 .. 10 : f[k] = h[k][f[k - 1]]
  BY <1>3 DEF Iterates
<1>5. \A k \in 1 .. 10 : f[k] = Step(f[k - 1])
  <2> SUFFICES ASSUME NEW k \in 1 .. 10 PROVE f[k] = Step(f[k - 1])
    OBVIOUS
  <2>1. f[k - 1] \in Places
    BY <1>4
  <2> QED
    BY <1>4, <2>1
<1> HIDE DEF h
<1>6. f = [k \in 0 .. 10 |-> IF k = 0 THEN 0 ELSE Step(f[k - 1])]
  BY <1>4, <1>5
<1>7. walk = [k \in 0 .. 10 |-> IF k = 0 THEN 0 ELSE Step(walk[k - 1])]
  BY <1>6, ZenonT(60)
<1>8. Walk = {walk[k] : k \in 0 .. 10}
  BY DEF Walk, USB_CONFIG
<1> HIDE DEF walk
<1>9. walk[0] = 0 /\ \A k \in 1 .. 10 : walk[k] = Step(walk[k - 1])
  BY <1>7
<1>10. \A k \in 0 .. 10 : walk[k] = Offsets[k + 1]
  BY <1>9, StepsToNext DEF Offsets
<1> QED
  BY <1>8, <1>10 DEF Offsets, Places

\* The parts by type.
LEMMA TypesAre ==
  ASSUME NEW i \in 1 .. 10
  PROVE  /\ config_descriptor[i].bDscType = mINTERFACE <=> i \in {2, 8}
         /\ config_descriptor[i].bDscType = mENDPOINT <=> i \in {7, 9, 10}
         /\ config_descriptor[i].bDscType = CS_INTERFACE <=> i \in {3, 4, 5, 6}
BY DEF config_descriptor, Interface, Functional, ToDevice, ToHost, mINTERFACE, mENDPOINT,
   mCONFIGURATION, CS_INTERFACE

\* The host finds every part in the whole configuration.
LEMMA AllFound == Found(67) = 1 .. 10
<1>1. DOMAIN USB_CONFIG = 1 .. 10
  BY DEF USB_CONFIG
<1>2. \A i \in 1 .. 10 : Offsets[i] \in Places /\ Offsets[i] + Sizes[i] <= 67
  BY DEF Offsets, Places, Sizes
<1> QED
  BY <1>1, <1>2, OffsetsAre, LengthsAre, WalkIs DEF Found

LEMMA ByType ==
  /\ OfType(67, mINTERFACE) = {2, 8}
  /\ OfType(67, mENDPOINT) = {7, 9, 10}
  /\ OfType(67, CS_INTERFACE) = {3, 4, 5, 6}
BY AllFound, TypesAre DEF OfType

LEMMA EndpointsAre == EndpointsOf(67, 2) = {7} /\ EndpointsOf(67, 8) = {9, 10}
BY ByType DEF EndpointsOf

LEMMA Pair ==
  ASSUME NEW S, NEW a, NEW b, a # b, S = {a, b}
  PROVE  Cardinality(S) = 2
<1>1. Cardinality({a}) = 1 /\ IsFiniteSet({a})
  BY FS_Singleton
<1>2. Cardinality({a} \cup {b}) = 2
  BY <1>1, FS_AddElement
<1>3. {a} \cup {b} = S
  OBVIOUS
<1> QED
  BY <1>2, <1>3

\* The numbers and references in the interface descriptors.
LEMMA Interfaces ==
  /\ {config_descriptor[i].bIntfNum : i \in {2, 8}} = {0, 1}
  /\ config_descriptor[1].bNumIntf = 2
  /\ config_descriptor[2].bNumEPs = 1
  /\ config_descriptor[8].bNumEPs = 2
  /\ config_descriptor[1].wTotalLength = 67
  /\ \A i \in {3, 4, 5, 6} : config_descriptor[i].interfaces \subseteq {0, 1}
BY OffsetsAre DEF config_descriptor, Interface, Functional, CDC_STATUS_INTERFACE, CDC_DATA_INTERFACE,
   USB_CONFIG, Offsets

\* The numbers and sizes in the endpoint descriptors.
LEMMA Endpoints ==
  \A i \in {7, 9, 10} : /\ config_descriptor[i].number \in {1, 2}
                        /\ config_descriptor[i].wMaxPktSize <= CDC_RX_SIZE
BY DEF config_descriptor, ToDevice, ToHost, CDC_ACM_ENDPOINT, CDC_RX_ENDPOINT, CDC_TX_ENDPOINT,
   CDC_ACM_SIZE, CDC_RX_SIZE, CDC_TX_SIZE

\* The configuration agrees with itself, and with a device whose endpoints 1 and 2 are on.
LEMMA Described ==
  ASSUME host.config = 67, {1, 2} \subseteq endpt, ep.rx_handler
  PROVE  EndpointsServed
<1> DEFINE interfaces == OfType(67, mINTERFACE)
           numbers == {config_descriptor[i].bIntfNum : i \in interfaces}
<1>1. Cardinality({0, 1}) = 2 /\ Cardinality({7}) = 1 /\ Cardinality({9, 10}) = 2
  <2>1. Cardinality({0, 1}) = 2
    BY Pair
  <2>2. Cardinality({7}) = 1
    BY FS_Singleton
  <2>3. Cardinality({9, 10}) = 2
    <3> DEFINE S == {9, 10}
    <3>1. S = {9, 10} /\ 9 # 10
      OBVIOUS
    <3> HIDE DEF S
    <3>2. Cardinality(S) = 2
      BY <3>1, Pair, Zenon
    <3> QED
      BY <3>1, <3>2
  <2> QED
    BY <2>1, <2>2, <2>3
<1>2. interfaces = {2, 8} /\ numbers = {0, 1}
  BY ByType, Interfaces
<1>3. \A i \in interfaces : Cardinality(EndpointsOf(67, i)) = config_descriptor[i].bNumEPs
  <2>1. /\ Cardinality(EndpointsOf(67, 2)) = config_descriptor[2].bNumEPs
        /\ Cardinality(EndpointsOf(67, 8)) = config_descriptor[8].bNumEPs
    BY <1>1, EndpointsAre, Interfaces
  <2> HIDE DEF interfaces
  <2> QED
    BY <1>2, <2>1
<1>4. \A i \in OfType(67, CS_INTERFACE) : config_descriptor[i].interfaces \subseteq numbers
  BY <1>2, ByType, Interfaces
<1>5. \A i \in OfType(67, mENDPOINT) :
        LET d == config_descriptor[i]
        IN  d.number \in endpt /\ (~d.tx => ep.rx_handler /\ d.wMaxPktSize <= CDC_RX_SIZE)
  BY ByType, Endpoints
<1>6. 67 = config_descriptor[1].wTotalLength /\ Cardinality(numbers) = config_descriptor[1].bNumIntf
  BY <1>1, <1>2, Interfaces
<1> HIDE DEF interfaces, numbers
<1> QED
  BY <1>3, <1>4, <1>5, <1>6 DEF EndpointsServed, interfaces, numbers

-----------------------------------------------------------------------------
(* Enumeration, question by question.                                          *)

\* The answers to the questions for the device and the configuration.
LEMMA Answers ==
  /\ GetDescriptor(<<mDEVICE, 0>>, 18) = 18
  /\ GetDescriptor(<<mCONFIGURATION, 0>>, 9) = 9
  /\ GetDescriptor(<<mCONFIGURATION, 0>>, 67) = 67
<1>1. Entry(mDEVICE, 0, 18, device_descriptor) \in usb_descriptor_list
  BY DeviceSize DEF usb_descriptor_list
<1>2. Entry(mCONFIGURATION, 0, 67, config_descriptor[1]) \in usb_descriptor_list
  BY OffsetsAre DEF usb_descriptor_list, USB_CONFIG, Offsets
<1>3. \A p \in usb_descriptor_list :
        /\ p.wValue = <<mDEVICE, 0>> => p.length = 18
        /\ p.wValue = <<mCONFIGURATION, 0>> => p.length = 67
  BY DeviceSize, OffsetsAre DEF usb_descriptor_list, Entry, mDEVICE, mCONFIGURATION, mSTRING,
     USB_CONFIG, Offsets
<1>4. /\ Entry(mDEVICE, 0, 18, device_descriptor).wValue = <<mDEVICE, 0>>
      /\ Entry(mCONFIGURATION, 0, 67, config_descriptor[1]).wValue = <<mCONFIGURATION, 0>>
  BY DEF Entry
<1> QED
  BY <1>1, <1>2, <1>3, <1>4 DEF GetDescriptor, MinOf

\* The host's questions besides Header.
Device == Ask(mDEVICE, 0, 18)
Names == << Ask(mSTRING, 1, 255), Ask(mSTRING, 2, 255), Ask(mSTRING, 3, 255) >>
Whole == Ask(mCONFIGURATION, 0, 67)

\* The questions still to be asked, and what has been read of the configuration by then.
Enumerating ==
  \/ host.asks = << Device >> /\ host.config = 0
  \/ host.asks = << Names[1], Names[2], Names[3], Header >> /\ host.config = 0
  \/ host.asks = << Names[2], Names[3], Header >> /\ host.config = 0
  \/ host.asks = << Names[3], Header >> /\ host.config = 0
  \/ host.asks = << Header >> /\ host.config = 0
  \/ host.asks = << Whole >> /\ host.config = 9
  \/ host.asks = << >> /\ host.config = 67

\* After SET_CONFIG all questions have been asked, and both endpoints are on.
ConfiguredInv ==
  /\ Enumerating
  /\ host.open => host.asks = << >> /\ {1, 2} \subseteq endpt /\ ep.rx_handler

LEMMA HeaderIs == Header = Ask(mCONFIGURATION, 0, 9)
BY ConfigurationSize DEF Header

\* What each answer makes the host ask.
LEMMA Furthers ==
  /\ Further(Device, 18) = << Names[1], Names[2], Names[3], Header >>
  /\ \A i \in 1 .. 3 : \A n : Further(Names[i], n) = << >>
  /\ Further(Header, 9) = << Whole >>
  /\ Further(Whole, 67) = << >>
<1>1. Device.wValue[1] = mDEVICE /\ Device.wLength = 18 /\ mDEVICE = 1
  BY DEF Device, Ask, mDEVICE
<1>2. /\ Header.wValue[1] = 2 /\ Header.wLength = 9 /\ Whole.wValue[1] = 2 /\ Whole.wLength = 67
      /\ Header # Whole
  BY HeaderIs DEF Whole, Ask, mCONFIGURATION
<1>3. \A i \in 1 .. 3 : Names[i].wValue[1] = 3
  BY DEF Names, Ask, mSTRING
<1>4. config_descriptor[1].wTotalLength = 67
  BY Interfaces
<1>5. /\ device_descriptor.iMFR = 1 /\ device_descriptor.iProduct = 2
      /\ device_descriptor.iSerialNum = 3
  BY DEF device_descriptor
<1>6. Further(Device, 18) = << Names[1], Names[2], Names[3], Header >>
  <2>1. /\ Names[1] = Ask(mSTRING, device_descriptor.iMFR, 255)
        /\ Names[2] = Ask(mSTRING, device_descriptor.iProduct, 255)
        /\ Names[3] = Ask(mSTRING, device_descriptor.iSerialNum, 255)
    BY <1>5 DEF Names
  <2>2. Device.wValue[1] = mDEVICE /\ 18 = Device.wLength
    BY <1>1
  <2>3. Further(Device, 18) =
          << Ask(mSTRING, device_descriptor.iMFR, 255), Ask(mSTRING, device_descriptor.iProduct, 255),
             Ask(mSTRING, device_descriptor.iSerialNum, 255), Header >>
    <3>1. ~(Device = Header)
      BY <1>1, <1>2
    <3> QED
      BY <2>2, <3>1 DEF Further
  <2> QED
    BY <2>1, <2>3
<1>7. \A i \in 1 .. 3 : \A n : Further(Names[i], n) = << >>
  BY <1>1, <1>2, <1>3 DEF Further
<1>8. Further(Header, 9) = << Whole >>
  BY <1>1, <1>2, <1>4 DEF Further, Whole
<1>9. Further(Whole, 67) = << >>
  BY <1>1, <1>2 DEF Further
<1> QED
  BY <1>6, <1>7, <1>8, <1>9

\* What kind of question each of them is.
LEMMA Kinds ==
  /\ mCONFIGURATION = 2
  /\ Device.wValue[1] = 1
  /\ \A i \in 1 .. 3 : Names[i].wValue[1] = 3
  /\ Header.wValue[1] = 2 /\ Whole.wValue[1] = 2
  /\ Device.wValue = <<mDEVICE, 0>> /\ Device.wLength = 18
  /\ Header.wValue = <<mCONFIGURATION, 0>> /\ Header.wLength = 9
  /\ Whole.wValue = <<mCONFIGURATION, 0>> /\ Whole.wLength = 67
<1>1. \A i \in 1 .. 3 : Names[i].wValue[1] = 3
  BY DEF Names, Ask, mSTRING
<1> QED
  BY <1>1, HeaderIs DEF Device, Whole, Ask, mDEVICE, mCONFIGURATION

\* Short sequences.
LEMMA Lists ==
  /\ \A a : << a >> # << >> /\ Head(<< a >>) = a /\ Tail(<< a >>) = << >>
  /\ \A a, b : << a, b >> # << >> /\ Head(<< a, b >>) = a /\ Tail(<< a, b >>) = << b >>
  /\ \A a, b, c : /\ << a, b, c >> # << >>
                  /\ Head(<< a, b, c >>) = a /\ Tail(<< a, b, c >>) = << b, c >>
  /\ \A a, b, c, d : /\ << a, b, c, d >> # << >>
                     /\ Head(<< a, b, c, d >>) = a /\ Tail(<< a, b, c, d >>) = << b, c, d >>
OBVIOUS

LEMMA Appended ==
  /\ \A a : << a >> \o << >> = << a >> /\ << >> \o << a >> = << a >>
  /\ \A a, b : << a, b >> \o << >> = << a, b >>
  /\ \A a, b, c : << a, b, c >> \o << >> = << a, b, c >>
  /\ \A a, b, c, d : << >> \o << a, b, c, d >> = << a, b, c, d >>
  /\ << >> \o << >> = << >>
OBVIOUS

\* Each question leads to the next stage.
LEMMA Asked ==
  ASSUME Shape, ConfiguredInv, HostAsks
  PROVE  Enumerating' /\ host'.open = host.open /\ ~host.open
<1> DEFINE ask == Head(host.asks)
           n == GetDescriptor(ask.wValue, ask.wLength)
<1>1. /\ host.asks # << >>
      /\ host' = [host EXCEPT
           !.asks = Tail(@) \o Further(ask, n),
           !.config = IF ask.wValue[1] = mCONFIGURATION THEN n ELSE @]
  BY DEF HostAsks
<1>2. /\ host'.asks = Tail(host.asks) \o Further(ask, n)
      /\ host'.config = (IF ask.wValue[1] = mCONFIGURATION THEN n ELSE host.config)
      /\ host'.open = host.open
  <2> HIDE DEF ask, n
  <2> QED
    BY <1>1 DEF Shape, HostShape
<1>3. ~host.open
  BY <1>1 DEF ConfiguredInv
<1>4. CASE host.asks = << Device >> /\ host.config = 0
  <2>1. ask = Device /\ n = 18 /\ Tail(host.asks) = << >>
    BY <1>4, Lists, Kinds, Answers
  <2>2. host'.asks = << Names[1], Names[2], Names[3], Header >> /\ host'.config = 0
    BY <1>2, <1>4, <2>1, Furthers, Appended, Kinds
  <2> QED
    BY <1>2, <1>3, <2>2 DEF Enumerating
<1>5. CASE host.asks = << Names[1], Names[2], Names[3], Header >> /\ host.config = 0
  <2>1. ask = Names[1] /\ Tail(host.asks) = << Names[2], Names[3], Header >>
    BY <1>5, Lists
  <2>2. Further(Names[1], n) = << >> /\ Names[1].wValue[1] # mCONFIGURATION
    <3> HIDE DEF n
    <3> QED
      BY Furthers, Kinds
  <2> HIDE DEF ask, n
  <2>3. host'.asks = << Names[2], Names[3], Header >> /\ host'.config = 0
    BY <1>2, <1>5, <2>1, <2>2, Appended
  <2> QED
    BY <1>2, <1>3, <2>3 DEF Enumerating
<1>6. CASE host.asks = << Names[2], Names[3], Header >> /\ host.config = 0
  <2>1. ask = Names[2] /\ Tail(host.asks) = << Names[3], Header >>
    BY <1>6, Lists
  <2>2. Further(Names[2], n) = << >> /\ Names[2].wValue[1] # mCONFIGURATION
    <3> HIDE DEF n
    <3> QED
      BY Furthers, Kinds
  <2> HIDE DEF ask, n
  <2>3. host'.asks = << Names[3], Header >> /\ host'.config = 0
    BY <1>2, <1>6, <2>1, <2>2, Appended
  <2> QED
    BY <1>2, <1>3, <2>3 DEF Enumerating
<1>7. CASE host.asks = << Names[3], Header >> /\ host.config = 0
  <2>1. ask = Names[3] /\ Tail(host.asks) = << Header >>
    BY <1>7, Lists
  <2>2. Further(Names[3], n) = << >> /\ Names[3].wValue[1] # mCONFIGURATION
    <3> HIDE DEF n
    <3> QED
      BY Furthers, Kinds
  <2> HIDE DEF ask, n
  <2>3. host'.asks = << Header >> /\ host'.config = 0
    BY <1>2, <1>7, <2>1, <2>2, Appended
  <2> QED
    BY <1>2, <1>3, <2>3 DEF Enumerating
<1>8. CASE host.asks = << Header >> /\ host.config = 0
  <2>1. ask = Header /\ n = 9 /\ Tail(host.asks) = << >>
    BY <1>8, Lists, Kinds, Answers
  <2> HIDE DEF ask, n
  <2>2. host'.asks = << Whole >> /\ host'.config = 9
    BY <1>2, <2>1, Furthers, Appended, Kinds, ZenonT(60)
  <2> QED
    BY <1>2, <1>3, <2>2 DEF Enumerating
<1>9. CASE host.asks = << Whole >> /\ host.config = 9
  <2>1. ask = Whole /\ n = 67 /\ Tail(host.asks) = << >>
    BY <1>9, Lists, Kinds, Answers
  <2>2. host'.asks = << >> /\ host'.config = 67
    BY <1>2, <2>1, Furthers, Appended, Kinds
  <2> QED
    BY <1>2, <1>3, <2>2 DEF Enumerating
<1> QED
  BY <1>1, <1>4, <1>5, <1>6, <1>7, <1>8, <1>9, ZenonT(60) DEF ConfiguredInv, Enumerating

LEMMA ConfiguredStep ==
  ASSUME Shape, ConfiguredInv, [Next]_vars
  PROVE  ConfiguredInv'
<1>1. CASE HostAsks
  BY <1>1, Asked DEF ConfiguredInv
<1>2. CASE usb_set_config
  <2>1. /\ host.asks = << >> /\ endpt' = endpt \cup {1, 2}
        /\ host' = [host EXCEPT !.open = TRUE] /\ ep'.rx_handler
    BY <1>2, ConfigStep DEF usb_set_config, Shape, EndpointShape
  <2>2. host'.asks = host.asks /\ host'.config = host.config
    BY <2>1 DEF Shape, HostShape
  <2> QED
    BY <2>1, <2>2 DEF ConfiguredInv, Enumerating
<1>3. CASE HostReset
  <2>1. host' = Fresh
    BY <1>3 DEF HostReset
  <2>2. Ask(mDEVICE, 0, sizeof(USB_DEV_DSC)) = Device
    BY DeviceSize DEF Device
  <2>3. host'.asks = << Device >> /\ host'.config = 0 /\ ~host'.open
    BY <2>1, <2>2 DEF Fresh
  <2> QED
    BY <2>3 DEF ConfiguredInv, Enumerating
<1>4. ASSUME host'.asks = host.asks, host'.config = host.config, host'.open = host.open,
             endpt \subseteq endpt', ep.rx_handler => ep'.rx_handler
      PROVE  ConfiguredInv'
  BY <1>4 DEF ConfiguredInv, Enumerating
<1>5. CASE HostSends
  <2>1. PICK size \in Nat :
          host' = [host EXCEPT !.sent = Append(@, [id |-> host.next, len |-> size]),
                               !.next = (@ + 1) % (Window + 1)]
    BY <1>5, SendStep, ZenonT(60)
  <2>2. host'.asks = host.asks /\ host'.config = host.config /\ host'.open = host.open
    BY <2>1 DEF Shape, HostShape
  <2>3. UNCHANGED <<endpt, ep>>
    BY <1>5 DEF HostSends
  <2> QED
    BY <1>4, <2>2, <2>3
<1>6. CASE HostTakes
  <2>1. host'.asks = host.asks /\ host'.config = host.config /\ host'.open = host.open
    BY <1>6 DEF HostTakes, Shape, HostShape
  <2>2. UNCHANGED <<endpt, ep>>
    BY <1>6 DEF HostTakes
  <2> QED
    BY <1>4, <2>1, <2>2
<1>7. CASE TokenOut
  <2>1. UNCHANGED <<endpt, host>>
    BY <1>7 DEF TokenOut
  <2>2. ep.rx_handler => ep'.rx_handler
    BY <1>7, EchoStep DEF Shape, EndpointShape
  <2> QED
    BY <1>4, <2>1, <2>2
<1>8. CASE TokenIn
  <2>1. UNCHANGED <<endpt, host>>
    BY <1>8 DEF TokenIn
  <2>2. ep.rx_handler => ep'.rx_handler
    BY <1>8 DEF TokenIn, Shape, EndpointShape
  <2> QED
    BY <1>4, <2>1, <2>2
<1>9. CASE usb_reset
  BY <1>4, <1>9 DEF usb_reset
<1>10. CASE UNCHANGED <<ep, endpt, host>>
  BY <1>4, <1>10
<1> QED
  BY <1>1, <1>2, <1>3, <1>5, <1>6, <1>7, <1>8, <1>9, <1>10
     DEF Next, USBOTG_IRQHandler, TokenDone, usb_error, vars

LEMMA ConfiguredInit == Init => ConfiguredInv
<1> SUFFICES ASSUME Init PROVE ConfiguredInv
  OBVIOUS
<1>1. Ask(mDEVICE, 0, sizeof(USB_DEV_DSC)) = Device
  BY DeviceSize DEF Device
<1>2. host.asks = << Device >> /\ host.config = 0 /\ ~host.open
  BY <1>1 DEF Init, Fresh
<1> QED
  BY <1>2 DEF ConfiguredInv, Enumerating

\* The host configures a device only after it has read the whole of its configuration.
LEMMA OpenIsWhole == ConfiguredInv => EndpointsServed
<1> SUFFICES ASSUME ConfiguredInv, host.open PROVE EndpointsServed
  BY DEF EndpointsServed
<1>1. host.asks = << >> /\ {1, 2} \subseteq endpt /\ ep.rx_handler
  BY DEF ConfiguredInv
<1>2. host.config = 67
  BY <1>1, Lists DEF ConfiguredInv, Enumerating
<1> QED
  BY <1>1, <1>2, Described

\* A device that is configured serves what its descriptors announce (usb.c, usb.h): the host
\* has read the whole configuration, as many interfaces and endpoints are in it as announced,
\* only known interfaces are referred to, and every endpoint is on, with a handler if it
\* receives.
THEOREM ConfigurationServed == Spec => []EndpointsServed
<1>1. Init => Shape /\ ConfiguredInv
  BY ShapeInit, ConfiguredInit
<1>2. Shape /\ ConfiguredInv /\ [Next]_vars => Shape' /\ ConfiguredInv'
  BY ShapeStep, ConfiguredStep
<1> QED
  BY <1>1, <1>2, OpenIsWhole, PTL DEF Spec
=============================================================================
