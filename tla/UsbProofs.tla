------------------------------ MODULE UsbProofs ------------------------------
(* Theorems about module Usb, for packets and data of any length and a queue   *)
(* of tokens of any length.                                                    *)
EXTENDS Usb, TLAPS, SequenceTheorems

-----------------------------------------------------------------------------
(* The variables and their shape.                                              *)

Kinds == {"get", "address", "config", "line coding", "line state", "unknown"}
RequestSet == {r \in [kind : Kinds, id : {0, 1}, len : Nat, addr : Addresses] :
                 r.kind = "get" => r.len > 0}
DataSet == [id : {0, 1}, from : Nat, len : Nat]

Tokens == [tx : BOOLEAN, bank : Banks]
Endpoints == [data0 : {0, 1}, tx_next : Banks, tx_last : Banks, pending : DataSet,
              rx_handler : BOOLEAN]
TransmitDescriptors == [own : BOOLEAN, pid : {"none", "IN"}, toggle : {0, 1}, packet : DataSet]
ReceiveDescriptors == {d \in [own : BOOLEAN, pid : {"none", "SETUP", "OUT"}, toggle : {0, 1},
                              packet : DataSet \cup RequestSet] :
                         d.pid = "SETUP" => d.packet \in RequestSet}

\* The driver and its transmit descriptors.
Transmitters == [ep : Endpoints, bdt : [Banks -> TransmitDescriptors]]

DriverShape ==
  /\ Transmit \in Transmitters
  /\ device_state \in {"ADDRESS", "other"} /\ device_address \in Addresses

ReceiveShape == bdt_rx \in [Banks -> ReceiveDescriptors]

QueueShape ==
  /\ pc \in {"idle", "loop", "in", "end"} /\ (pc # "idle" => stat # << >>)
  /\ rx_odd \in Banks /\ tx_odd \in Banks
  /\ stat \in Seq(Tokens) /\ Len(stat) <= FifoSize
  /\ busy \in BOOLEAN /\ usbrst \in BOOLEAN /\ irq \in {"on", "error", "off"}
  /\ address \in Addresses /\ queued \in BOOLEAN

Requested == RequestSet \cup {NoRequest}
Phases == {"none", "data in", "data out", "status in", "status out"}
Hosts == [phase : Phases, request : Requested, got : Seq(DataSet), toggle : {0, 1},
          address : Addresses]
HostShape == host \in Hosts

Shape == DriverShape /\ ReceiveShape /\ QueueShape /\ HostShape

-----------------------------------------------------------------------------
(* The tokens of received packets.                                             *)

\* Tokens the handler has still to act on, and those of them that are requests.
Unhandled == {i \in DOMAIN stat : ~(i = 1 /\ pc = "end")}
Setups == {i \in Unhandled : ~stat[i].tx /\ bdt_rx[stat[i].bank].pid = "SETUP"}

\* The driver has the descriptors of received packets, two at most, until it is done with
\* their tokens.
ReceiveInv ==
  /\ \A i \in DOMAIN stat : ~stat[i].tx => ~bdt_rx[stat[i].bank].own
  /\ \A i, j \in DOMAIN stat :
       i # j /\ ~stat[i].tx /\ ~stat[j].tx => stat[i].bank # stat[j].bank

\* A request suspends the controller until the handler has come to it: its token is the
\* last of the queue.
SetupInv ==
  /\ pc = "in" => Head(stat).tx
  /\ \A i \in Setups : /\ i = Len(stat) /\ (busy \/ usbrst)
                       /\ bdt_rx[stat[i].bank].packet = host.request
  /\ busy => /\ Setups # {} /\ ~usbrst
             /\ host.phase = FirstPhase(host.request)
             /\ host.got = << >> /\ host.toggle = 1
  /\ usbrst => host.phase = "none" /\ host.address = 0

\* Which phases a request has.
PhaseInv ==
  /\ host.phase \in {"data in", "status out"} => host.request.kind = "get"
  /\ host.phase = "data out" => host.request.kind = "line coding"
  /\ host.phase = "status in" => host.request.kind # "get"

BaseInv == Shape /\ ReceiveInv /\ SetupInv /\ PhaseInv

-----------------------------------------------------------------------------
(* The address.                                                                *)

\* The token of the handshake that the host has seen.
Handshaken == stat # << >> /\ stat[Len(stat)].tx /\ Len(stat) = (IF pc = "end" THEN 2 ELSE 1)

\* SET_ADDRESS goes through four stages: the request waits; its answer waits; the host has
\* the answer, and with it the new address; the driver has seen that too.
AddressInv ==
  IF HandingOver
    THEN /\ ~usbrst
         /\ \/ Assigning /\ busy /\ device_state = "other" /\ address = host.address
            \/ /\ Assigning /\ ~busy /\ address = host.address
               /\ device_state = "ADDRESS" /\ device_address = host.request.addr
               /\ Unhandled = {}
               /\ host.toggle = 1 /\ \A b \in Banks : bdt_tx[b].own => bdt_tx[b].toggle = 1
            \/ /\ ~Assigning /\ Handshaken
               /\ device_state = "ADDRESS" /\ device_address = host.address
               /\ pc # "in" => bdt_tx[stat[Len(stat)].bank].pid = "IN"
            \/ /\ ~Assigning /\ Unhandled = {}
               /\ device_state = "other" /\ address = host.address
    ELSE device_state = "other" /\ (~usbrst => address = host.address)

-----------------------------------------------------------------------------
(* The data.                                                                   *)

\* Tokens of sent packets the handler has not done with.
Sent == {i \in Unhandled : stat[i].tx}

\* Length of the packets the host has got, when all are full.
Got == Len(host.got) * EP0_BUFSIZE

\* A transfer of data in whose tokens may be skipped.
Streaming == host.phase = "data in" /\ ~busy

\* The ith token is the last one of a sent packet, and the handler will not pass over it.
LastAt(i) ==
  /\ \A j \in Sent : j <= i
  /\ stat[i].bank = 1 - tx_odd
  /\ (i = 1 /\ pc = "in") \/ bdt_tx[1 - tx_odd].pid = "IN"

\* When all tokens are handled the driver knows which descriptor the controller sent last.
LastKnown == IF Sent = {} THEN ep.tx_last = 1 - tx_odd ELSE \E i \in Sent : LastAt(i)

\* No packet is sent while a received one waits for the handler, and the last one sent is
\* known but for a transfer whose tokens may have been passed over.
LastInv ==
  /\ \A i, j \in Unhandled : ~stat[i].tx /\ i < j => ~stat[j].tx
  /\ Streaming /\ ~queued => Len(stat) <= 1
  /\ ~(Streaming /\ queued) => LastKnown

\* What an abandoned transfer left in pending cannot make the driver pass over a token.
PendingInv ==
  ep.pending.len > 0 /\ ~Streaming => \A i, j \in Sent : i = j

\* The descriptor has the data from that place on.
Carries(d, toggle, from) ==
  /\ d.toggle = toggle /\ d.packet.id = host.request.id /\ d.packet.from = from
  /\ d.packet.len = MinOf(host.request.len - from, EP0_BUFSIZE)

\* Where the data begins behind the n packets under way.
Place(n) == MinOf(Got + n * EP0_BUFSIZE, host.request.len)

\* The host has got all packets but the last n; they are under way, and behind them comes
\* what is pending.
StreamAt(t, n) ==
  /\ Got < host.request.len
  /\ t.bdt[tx_odd].own <=> n > 0
  /\ t.bdt[1 - tx_odd].own <=> n = 2
  /\ n = 2 => Got + EP0_BUFSIZE < host.request.len
  /\ t.ep.tx_next = (IF n = 1 THEN 1 - tx_odd ELSE tx_odd)
  /\ t.ep.data0 = (IF n = 1 THEN 1 - host.toggle ELSE host.toggle)
  /\ t.ep.pending.id = host.request.id /\ t.ep.pending.from = Place(n)
  /\ t.ep.pending.len = host.request.len - Place(n)
  /\ n > 0 => Carries(t.bdt[tx_odd], host.toggle, Got)
  /\ n = 2 => Carries(t.bdt[1 - tx_odd], 1 - host.toggle, Got + EP0_BUFSIZE)

Stream(t) == \E n \in 0 .. 2 : StreamAt(t, n)

StreamInv == Streaming => Stream(Transmit) /\ \A i \in Unhandled : stat[i].tx

\* While the host waits for an empty packet nothing else is sent.
StatusInv ==
  host.phase \in {"data out", "status in"} /\ ~busy =>
    /\ host.got = << >> /\ host.toggle = 1
    /\ Sent = {}
    /\ \A b \in Banks : bdt_tx[b].own => bdt_tx[b].toggle = 1 /\ bdt_tx[b].packet.len = 0
    /\ host.phase = "data out" => Unhandled = {}
    /\ host.phase = "data out" \/ Unhandled # {} =>
         ep.data0 = 1 /\ \A b \in Banks : ~bdt_tx[b].own
    /\ \A i, j \in Unhandled : i = j

DataInv ==
  /\ ~usbrst => LastInv /\ PendingInv /\ StreamInv /\ StatusInv
  /\ DataInOrder

-----------------------------------------------------------------------------
(* The variables keep their shape.                                             *)

LEMMA TransmitterParts ==
  ASSUME NEW t \in Transmitters
  PROVE  /\ t = [ep |-> t.ep, bdt |-> t.bdt]
         /\ t.ep \in Endpoints /\ t.bdt \in [Banks -> TransmitDescriptors]
         /\ t.ep.tx_next \in Banks /\ t.ep.tx_last \in Banks /\ t.ep.data0 \in {0, 1}
         /\ t.ep.pending \in DataSet /\ t.ep.pending.len \in Nat /\ t.ep.pending.from \in Nat
BY DEF Transmitters, Endpoints, DataSet

LEMMA EndpointTx ==
  ASSUME NEW e \in Endpoints, NEW next \in Banks, NEW data0 \in {0, 1}
  PROVE  /\ [e EXCEPT !.tx_next = next, !.data0 = data0] \in Endpoints
         /\ [e EXCEPT !.tx_next = next, !.data0 = data0].pending = e.pending
         /\ [e EXCEPT !.tx_next = next, !.data0 = data0].tx_last = e.tx_last
         /\ [e EXCEPT !.data0 = data0] \in Endpoints
         /\ [e EXCEPT !.data0 = data0].pending = e.pending
         /\ [e EXCEPT !.data0 = data0].data0 = data0
BY DEF Endpoints

LEMMA EndpointCleared ==
  ASSUME NEW e \in Endpoints, NEW last \in Banks, NEW next \in Banks
  PROVE  LET f == [e EXCEPT !.tx_last = last, !.tx_next = next]
         IN  /\ f \in Endpoints /\ f.pending = e.pending /\ f.data0 = e.data0
             /\ f.tx_last = last /\ f.tx_next = next
BY DEF Endpoints

LEMMA EndpointPending ==
  ASSUME NEW e \in Endpoints, NEW q \in DataSet
  PROVE  LET f == [e EXCEPT !.pending = q]
         IN  /\ f \in Endpoints /\ f.pending = q /\ f.data0 = e.data0
             /\ f.tx_last = e.tx_last /\ f.tx_next = e.tx_next
BY DEF Endpoints

LEMMA EndpointHandler ==
  ASSUME NEW e \in Endpoints, NEW handler \in BOOLEAN
  PROVE  LET f == [e EXCEPT !.rx_handler = handler]
         IN  /\ f \in Endpoints /\ f.pending = e.pending /\ f.data0 = e.data0
             /\ f.tx_last = e.tx_last /\ f.tx_next = e.tx_next
BY DEF Endpoints

LEMMA EndpointLast ==
  ASSUME NEW e \in Endpoints, NEW last \in Banks
  PROVE  LET f == [e EXCEPT !.tx_last = last]
         IN  /\ f \in Endpoints /\ f.pending = e.pending /\ f.data0 = e.data0
             /\ f.tx_last = last /\ f.tx_next = e.tx_next
BY DEF Endpoints

\* The data of q from some place on.
Part(q, from, len) == [q EXCEPT !.from = from, !.len = len]

LEMMA DataUpdate ==
  ASSUME NEW q \in DataSet, NEW from \in Nat, NEW len \in Nat
  PROVE  Part(q, from, len) \in DataSet /\ Part(q, from, len).len = len
BY DEF DataSet, Part

LEMMA DescriptorTypes ==
  ASSUME NEW toggle \in {0, 1}, NEW p \in DataSet
  PROVE  /\ Owned(toggle, p) \in TransmitDescriptors
         /\ Finished("none", p) \in TransmitDescriptors
         /\ Finished("IN", p) \in TransmitDescriptors
BY DEF Owned, Finished, TransmitDescriptors

\* The packet goes into the next descriptor if that is the driver's.
LEMMA TxEffect ==
  ASSUME NEW t \in Transmitters, NEW p \in DataSet
  PROVE  /\ usb_tx(t, p) \in Transmitters
         /\ usb_tx(t, p).ep.pending = t.ep.pending
         /\ usb_tx(t, p).ep.tx_last = t.ep.tx_last
         /\ ~t.bdt[t.ep.tx_next].own =>
              usb_tx(t, p) = [ep |-> [t.ep EXCEPT !.tx_next = 1 - @, !.data0 = 1 - @],
                              bdt |-> [t.bdt EXCEPT ![t.ep.tx_next] = Owned(t.ep.data0, p)]]
<1>1. /\ t.ep \in Endpoints /\ t.bdt \in [Banks -> TransmitDescriptors]
      /\ t.ep.tx_next \in Banks /\ t.ep.data0 \in {0, 1}
  BY TransmitterParts
<1>2. CASE t.bdt[t.ep.tx_next].own
  BY <1>2 DEF usb_tx
<1>3. CASE ~t.bdt[t.ep.tx_next].own
  <2> DEFINE e == [t.ep EXCEPT !.tx_next = 1 - @, !.data0 = 1 - @]
             d == Owned(t.ep.data0, p)
  <2>1. usb_tx(t, p) = [ep |-> e, bdt |-> [t.bdt EXCEPT ![t.ep.tx_next] = d]]
    BY <1>3 DEF usb_tx
  <2>2. d \in TransmitDescriptors
    BY <1>1, DescriptorTypes
  <2>3. e \in Endpoints /\ e.pending = t.ep.pending /\ e.tx_last = t.ep.tx_last
    <3>1. 1 - t.ep.tx_next \in Banks /\ 1 - t.ep.data0 \in {0, 1}
      BY <1>1 DEF Banks
    <3>2. t.ep \in Endpoints
      BY <1>1
    <3> QED
      BY <3>1, <3>2, EndpointTx
  <2> HIDE DEF d, e
  <2>4. [t.bdt EXCEPT ![t.ep.tx_next] = d] \in [Banks -> TransmitDescriptors]
    BY <1>1, <2>2
  <2>5. [ep |-> e, bdt |-> [t.bdt EXCEPT ![t.ep.tx_next] = d]] \in Transmitters
    BY <2>3, <2>4 DEF Transmitters
  <2>6. /\ usb_tx(t, p) \in Transmitters
        /\ usb_tx(t, p).ep.pending = t.ep.pending
        /\ usb_tx(t, p).ep.tx_last = t.ep.tx_last
    BY <2>1, <2>3, <2>5
  <2>7. usb_tx(t, p) = [ep |-> [t.ep EXCEPT !.tx_next = 1 - @, !.data0 = 1 - @],
                        bdt |-> [t.bdt EXCEPT ![t.ep.tx_next] = Owned(t.ep.data0, p)]]
    BY <2>1 DEF d, e
  <2> QED
    BY <2>6, <2>7
<1> QED
  BY <1>2, <1>3

\* The packet the loop in usb_tx_handler queues.
NextPacket(t) == [t.ep.pending EXCEPT !.len = MinOf(t.ep.pending.len, EP0_BUFSIZE)]

LEMMA QueueEffect ==
  ASSUME NEW t \in Transmitters
  PROVE  /\ NextPacket(t) \in DataSet
         /\ QueueNext(t) \in Transmitters
         /\ QueueNext(t).ep.tx_last = t.ep.tx_last
         /\ QueueNext(t).ep.pending.len > 0 => t.ep.pending.len > 0
         /\ ~MoreToSend(t) => QueueNext(t) = t
         /\ MoreToSend(t) =>
              LET n == MinOf(t.ep.pending.len, EP0_BUFSIZE)
              IN  /\ QueueNext(t).bdt =
                       [t.bdt EXCEPT ![t.ep.tx_next] = Owned(t.ep.data0, NextPacket(t))]
                  /\ QueueNext(t).ep =
                       [t.ep EXCEPT !.tx_next = 1 - @, !.data0 = 1 - @,
                                    !.pending = [t.ep.pending EXCEPT !.from = @ + n,
                                                                     !.len = @ - n]]
<1> DEFINE q == t.ep.pending
           n == MinOf(q.len, EP0_BUFSIZE)
           rest == [q EXCEPT !.from = @ + n, !.len = @ - n]
<1>1. /\ t.ep \in Endpoints /\ t.bdt \in [Banks -> TransmitDescriptors]
      /\ q \in DataSet /\ q.len \in Nat /\ q.from \in Nat
  BY TransmitterParts
<1>2. n \in Nat /\ n <= q.len
  BY <1>1, BufferAssumption DEF MinOf
<1>3. NextPacket(t) = [q EXCEPT !.len = n]
  BY DEF NextPacket
<1> HIDE DEF n
<1>4. NextPacket(t) \in DataSet
  BY <1>1, <1>2, <1>3 DEF DataSet
<1>5. rest \in DataSet /\ rest.len <= q.len /\ rest.len \in Nat
  <2>1. q.from + n \in Nat /\ q.len - n \in Nat /\ q.len - n <= q.len
    BY <1>1, <1>2
  <2>2. q \in DataSet
    BY <1>1
  <2>3. rest = Part(q, q.from + n, q.len - n)
    BY DEF Part
  <2> HIDE DEF q
  <2>4. rest \in DataSet /\ rest.len = q.len - n
    BY <2>1, <2>2, <2>3, DataUpdate
  <2> QED
    BY <2>1, <2>4
<1>6. CASE ~MoreToSend(t)
  <2>1. QueueNext(t) = t
    BY <1>6 DEF QueueNext
  <2> QED
    BY <1>4, <1>6, <2>1
<1>7. CASE MoreToSend(t)
  <2> DEFINE u == usb_tx(t, NextPacket(t))
  <2>1. ~t.bdt[t.ep.tx_next].own /\ q.len > 0
    BY <1>7 DEF MoreToSend
  <2>2. QueueNext(t) = [u EXCEPT !.ep.pending = rest]
    BY <1>7, <1>3 DEF QueueNext, n
  <2>3. u \in Transmitters /\ u.ep.tx_last = t.ep.tx_last
    BY <1>4, TxEffect
  <2>4. u = [ep |-> [t.ep EXCEPT !.tx_next = 1 - @, !.data0 = 1 - @],
             bdt |-> [t.bdt EXCEPT ![t.ep.tx_next] = Owned(t.ep.data0, NextPacket(t))]]
    BY <1>4, <2>1, TxEffect
  <2> HIDE DEF u, rest
  <2>5. QueueNext(t) = [ep |-> [u.ep EXCEPT !.pending = rest], bdt |-> u.bdt]
    BY <2>2, <2>3, TransmitterParts
  <2>6. [u.ep EXCEPT !.pending = rest] \in Endpoints
    BY <1>5, <2>3, TransmitterParts DEF Endpoints
  <2>7. QueueNext(t) \in Transmitters
    BY <2>3, <2>5, <2>6, TransmitterParts DEF Transmitters
  <2>8. QueueNext(t).ep.tx_last = t.ep.tx_last
    BY <2>3, <2>5, TransmitterParts DEF Endpoints
  <2>9. QueueNext(t).bdt = [t.bdt EXCEPT ![t.ep.tx_next] = Owned(t.ep.data0, NextPacket(t))]
    BY <2>4, <2>5
  <2>10. u.ep = [t.ep EXCEPT !.tx_next = 1 - @, !.data0 = 1 - @]
    BY <2>4
  <2>11. QueueNext(t).ep = [t.ep EXCEPT !.tx_next = 1 - @, !.data0 = 1 - @, !.pending = rest]
    BY <1>1, <2>5, <2>10 DEF Endpoints
  <2> QED
    BY <1>4, <1>7, <2>1, <2>7, <2>8, <2>9, <2>11 DEF rest, n
<1> QED
  BY <1>6, <1>7

\* The endpoint cleared: by usb_reset, and by a request before its answer.
LEMMA ClearEffect ==
  ASSUME NEW t \in Transmitters, NEW last \in Banks
  PROVE  /\ ep_clear_tx(t, last) = [ep |-> [t.ep EXCEPT !.tx_last = last, !.tx_next = 1 - last],
                                    bdt |-> [b \in Banks |-> Cleared]]
         /\ ep_clear_tx(t, last) \in Transmitters
         /\ ep_clear_tx(t, last).ep.pending = t.ep.pending
         /\ ep_clear_tx(t, last).ep.data0 = t.ep.data0
         /\ ep_clear_tx(t, last).ep.tx_last = last
         /\ ep_clear_tx(t, last).ep.tx_next = 1 - last
<1> DEFINE e == [t.ep EXCEPT !.tx_last = last, !.tx_next = 1 - last]
           d == [b \in Banks |-> Cleared]
<1>1. ep_clear_tx(t, last) = [ep |-> e, bdt |-> d]
  BY DEF ep_clear_tx
<1>2. t.ep \in Endpoints /\ 1 - last \in Banks
  BY TransmitterParts DEF Banks
<1>3. e \in Endpoints
  BY <1>2, EndpointCleared
<1>4. e.pending = t.ep.pending /\ e.data0 = t.ep.data0 /\ e.tx_last = last /\ e.tx_next = 1 - last
  <2> DEFINE n == 1 - last
             g == t.ep
             f == [g EXCEPT !.tx_last = last, !.tx_next = n]
  <2>1. n \in Banks /\ g \in Endpoints
    BY <1>2
  <2> HIDE DEF n, g
  <2>2. f.pending = g.pending /\ f.data0 = g.data0 /\ f.tx_last = last /\ f.tx_next = n
    BY <2>1 DEF Endpoints
  <2> QED
    BY <2>2 DEF n, g
<1>5. Cleared \in TransmitDescriptors
  BY DEF Cleared, Finished, TransmitDescriptors, NoData, DataSet
<1>6. d \in [Banks -> TransmitDescriptors]
  BY <1>5
<1> HIDE DEF e, d
<1>7. [ep |-> e, bdt |-> d] \in Transmitters
  BY <1>3, <1>6 DEF Transmitters
<1>8. /\ ep_clear_tx(t, last) \in Transmitters
      /\ ep_clear_tx(t, last).ep = e
  BY <1>1, <1>7
<1>9. ep_clear_tx(t, last) = [ep |-> [t.ep EXCEPT !.tx_last = last, !.tx_next = 1 - last],
                              bdt |-> [b \in Banks |-> Cleared]]
  BY <1>1 DEF e, d
<1> QED
  BY <1>4, <1>8, <1>9

LEMMA AfterSetupEffect ==
  ASSUME Transmit \in Transmitters
  PROVE  /\ AfterSetup \in Transmitters
         /\ AfterSetup.bdt = [b \in Banks |-> Cleared]
         /\ AfterSetup.ep.pending = ep.pending /\ AfterSetup.ep.data0 = 1
         /\ AfterSetup.ep.tx_last = ep.tx_last /\ AfterSetup.ep.tx_next = 1 - ep.tx_last
<1> DEFINE e == [ep EXCEPT !.data0 = 1]
           t == [ep |-> e, bdt |-> bdt_tx]
<1>1. ep \in Endpoints /\ bdt_tx \in [Banks -> TransmitDescriptors] /\ ep.tx_last \in Banks
  BY TransmitterParts DEF Transmit
<1>2. e \in Endpoints /\ e.pending = ep.pending /\ e.data0 = 1
  BY <1>1 DEF Endpoints
<1>3. AfterSetup = ep_clear_tx(t, ep.tx_last)
  BY DEF AfterSetup, Transmit
<1> HIDE DEF e
<1>4. t \in Transmitters
  BY <1>1, <1>2 DEF Transmitters
<1>5. t.ep = e
  OBVIOUS
<1> HIDE DEF t
<1>6. /\ ep_clear_tx(t, ep.tx_last) = [ep |-> [t.ep EXCEPT !.tx_last = ep.tx_last,
                                                          !.tx_next = 1 - ep.tx_last],
                                       bdt |-> [b \in Banks |-> Cleared]]
      /\ ep_clear_tx(t, ep.tx_last) \in Transmitters
      /\ ep_clear_tx(t, ep.tx_last).ep.pending = t.ep.pending
      /\ ep_clear_tx(t, ep.tx_last).ep.data0 = t.ep.data0
      /\ ep_clear_tx(t, ep.tx_last).ep.tx_last = ep.tx_last
      /\ ep_clear_tx(t, ep.tx_last).ep.tx_next = 1 - ep.tx_last
  BY <1>1, <1>4, ClearEffect
<1> QED
  BY <1>2, <1>3, <1>5, <1>6

\* An empty packet.
LEMMA HandshakeEffect ==
  ASSUME NEW t \in Transmitters
  PROVE  /\ Handshake(t) \in Transmitters
         /\ Handshake(t).ep.pending = t.ep.pending
         /\ Handshake(t).ep.tx_last = t.ep.tx_last
         /\ \A b \in Banks : ~t.bdt[b].own /\ Handshake(t).bdt[b].own =>
                              /\ Handshake(t).bdt[b].toggle = t.ep.data0
                              /\ Handshake(t).bdt[b].packet = NoData
         /\ \A b \in Banks : t.bdt[b].own => Handshake(t).bdt[b] = t.bdt[b]
<1>1. NoData \in DataSet
  BY DEF NoData, DataSet
<1>2. /\ usb_tx(t, NoData) \in Transmitters
      /\ usb_tx(t, NoData).ep.pending = t.ep.pending
      /\ usb_tx(t, NoData).ep.tx_last = t.ep.tx_last
      /\ ~t.bdt[t.ep.tx_next].own =>
           usb_tx(t, NoData) = [ep |-> [t.ep EXCEPT !.tx_next = 1 - @, !.data0 = 1 - @],
                                bdt |-> [t.bdt EXCEPT ![t.ep.tx_next] = Owned(t.ep.data0, NoData)]]
  BY <1>1, TxEffect
<1>3. /\ t.ep.tx_next \in Banks /\ t.bdt \in [Banks -> TransmitDescriptors]
  BY TransmitterParts
<1>4. CASE t.bdt[t.ep.tx_next].own
  BY <1>2, <1>4 DEF Handshake, usb_tx
<1>5. CASE ~t.bdt[t.ep.tx_next].own
  <2>1. Handshake(t).bdt = [t.bdt EXCEPT ![t.ep.tx_next] = Owned(t.ep.data0, NoData)]
    BY <1>2, <1>5 DEF Handshake
  <2>2. Owned(t.ep.data0, NoData).toggle = t.ep.data0 /\ Owned(t.ep.data0, NoData).packet = NoData
    BY DEF Owned
  <2>3. Handshake(t).bdt[t.ep.tx_next] = Owned(t.ep.data0, NoData)
    BY <1>3, <2>1
  <2>4. \A b \in Banks : b # t.ep.tx_next => Handshake(t).bdt[b] = t.bdt[b]
    BY <1>3, <2>1
  <2> QED
    BY <1>2, <1>5, <2>2, <2>3, <2>4 DEF Handshake
<1> QED
  BY <1>4, <1>5

\* What a request queues for transmission.
DataOf(r) == [id |-> r.id, from |-> 0, len |-> r.len]
Filled(r) == [AfterSetup EXCEPT !.ep.pending = DataOf(r)]

LEMMA FilledEffect ==
  ASSUME Transmit \in Transmitters, NEW r \in RequestSet
  PROVE  /\ Filled(r) \in Transmitters
         /\ Filled(r).bdt = [b \in Banks |-> Cleared]
         /\ Filled(r).ep.pending = DataOf(r) /\ Filled(r).ep.data0 = 1
         /\ Filled(r).ep.tx_last = ep.tx_last /\ Filled(r).ep.tx_next = 1 - ep.tx_last
<1> DEFINE q == DataOf(r)
           e == [AfterSetup.ep EXCEPT !.pending = q]
<1>1. q \in DataSet
  BY DEF DataOf, DataSet, RequestSet
<1>2. AfterSetup \in Transmitters /\ AfterSetup.ep \in Endpoints
  BY AfterSetupEffect, TransmitterParts
<1> HIDE DEF q
<1>3. Filled(r) = [ep |-> e, bdt |-> AfterSetup.bdt]
  <2>1. AfterSetup = [ep |-> AfterSetup.ep, bdt |-> AfterSetup.bdt]
    BY <1>2, TransmitterParts
  <2> QED
    BY <2>1 DEF Filled, q
<1>4. e \in Endpoints
  BY <1>1, <1>2, EndpointPending
<1>5. /\ e.pending = q /\ e.data0 = AfterSetup.ep.data0
      /\ e.tx_last = AfterSetup.ep.tx_last /\ e.tx_next = AfterSetup.ep.tx_next
  BY <1>1, <1>2, EndpointPending
<1> HIDE DEF e
<1>6. Filled(r) \in Transmitters
  BY <1>2, <1>3, <1>4, TransmitterParts DEF Transmitters
<1> QED
  BY <1>3, <1>5, <1>6, AfterSetupEffect DEF q

LEMMA AnswerEffect ==
  ASSUME Transmit \in Transmitters, NEW r \in RequestSet
  PROVE  /\ Answer(r) \in Transmitters
         /\ Answer(r).ep.tx_last = ep.tx_last
         /\ r.kind = "get" => Answer(r) = QueueNext(QueueNext(Filled(r)))
         /\ r.kind # "get" =>
              /\ Answer(r).ep.pending = ep.pending
              /\ \A b \in Banks :
                   Answer(r).bdt[b].own => /\ Answer(r).bdt[b].toggle = 1
                                           /\ Answer(r).bdt[b].packet = NoData
         /\ r.kind = "line coding" =>
              Answer(r).ep.data0 = 1 /\ \A b \in Banks : ~Answer(r).bdt[b].own
<1> DEFINE t == AfterSetup
<1>1. /\ t \in Transmitters
      /\ t.ep.pending = ep.pending /\ t.ep.data0 = 1 /\ t.ep.tx_last = ep.tx_last
  BY AfterSetupEffect
<1>2. \A b \in Banks : ~t.bdt[b].own
  BY AfterSetupEffect DEF Cleared, Finished
<1> HIDE DEF t
<1>3. CASE r.kind = "get"
  <2>1. Answer(r) = QueueNext(QueueNext(Filled(r)))
    BY <1>3 DEF Answer, usb_queue_tx, Filled, DataOf
  <2>2. Filled(r) \in Transmitters /\ Filled(r).ep.tx_last = ep.tx_last
    BY FilledEffect
  <2>3. QueueNext(Filled(r)) \in Transmitters /\ QueueNext(Filled(r)).ep.tx_last = ep.tx_last
    BY <2>2, QueueEffect
  <2>4. /\ QueueNext(QueueNext(Filled(r))) \in Transmitters
        /\ QueueNext(QueueNext(Filled(r))).ep.tx_last = ep.tx_last
    BY <2>3, QueueEffect
  <2> QED
    BY <1>3, <2>1, <2>4
<1>4. CASE r.kind \in {"address", "config", "line state"}
  <2>1. Answer(r) = Handshake(t)
    BY <1>4 DEF Answer, t
  <2>2. /\ Handshake(t) \in Transmitters
        /\ Handshake(t).ep.pending = t.ep.pending
        /\ Handshake(t).ep.tx_last = t.ep.tx_last
        /\ \A b \in Banks : ~t.bdt[b].own /\ Handshake(t).bdt[b].own
                            => /\ Handshake(t).bdt[b].toggle = t.ep.data0
                               /\ Handshake(t).bdt[b].packet = NoData
    BY <1>1, HandshakeEffect
  <2> QED
    BY <1>1, <1>2, <1>4, <2>1, <2>2
<1>5. CASE r.kind = "line coding"
  <2> DEFINE e == [t.ep EXCEPT !.rx_handler = TRUE]
  <2>1. Answer(r) = [t EXCEPT !.ep.rx_handler = TRUE]
    BY <1>5 DEF Answer, t
  <2>2. t = [ep |-> t.ep, bdt |-> t.bdt] /\ t.ep \in Endpoints
    BY <1>1, TransmitterParts
  <2>3. e \in Endpoints
    BY <2>2, EndpointHandler
  <2>4. e.pending = t.ep.pending /\ e.data0 = t.ep.data0 /\ e.tx_last = t.ep.tx_last
    BY <2>2, EndpointHandler
  <2>5. Answer(r) = [ep |-> e, bdt |-> t.bdt]
    BY <2>1, <2>2
  <2> HIDE DEF e
  <2>6. Answer(r) \in Transmitters
    BY <1>1, <2>3, <2>5, TransmitterParts DEF Transmitters
  <2>7. Answer(r).ep = e /\ Answer(r).bdt = t.bdt
    BY <2>5
  <2> QED
    BY <1>1, <1>2, <1>5, <2>4, <2>6, <2>7
<1>6. CASE r.kind = "unknown"
  <2>1. Answer(r) = t
    BY <1>6 DEF Answer, t
  <2> QED
    BY <1>1, <1>2, <1>6, <2>1
<1>7. r.kind \in Kinds
  BY DEF RequestSet
<1> QED
  BY <1>3, <1>4, <1>5, <1>6, <1>7 DEF Kinds

-----------------------------------------------------------------------------
(* The steps keep the shape.                                                   *)

LEMMA HeadToken ==
  ASSUME Shape, stat # << >>
  PROVE  /\ Head(stat) = stat[1] /\ 1 \in DOMAIN stat /\ stat[1] \in Tokens
         /\ stat[1].bank \in Banks /\ stat[1].tx \in BOOLEAN
<1>1. stat \in Seq(Tokens)
  BY DEF Shape, QueueShape
<1>2. Head(stat) = stat[1] /\ stat[1] \in Tokens /\ 1 \in DOMAIN stat
  BY <1>1
<1> QED
  BY <1>2 DEF Tokens

\* What the descriptor of a token tells.
LEMMA TokenKinds ==
  ASSUME Shape, stat # << >>
  PROVE  /\ Descriptor.pid = "IN" => stat[1].tx
         /\ Descriptor.pid = "OUT" => ~stat[1].tx
         /\ Descriptor.pid = "SETUP" => /\ ~stat[1].tx /\ bdt_rx[stat[1].bank].pid = "SETUP"
                                        /\ Descriptor.packet = bdt_rx[stat[1].bank].packet
                                        /\ Descriptor.packet \in RequestSet
<1>1. Head(stat) = stat[1] /\ stat[1].bank \in Banks /\ stat[1].tx \in BOOLEAN
  BY HeadToken
<1>2. /\ bdt_tx \in [Banks -> TransmitDescriptors] /\ bdt_rx \in [Banks -> ReceiveDescriptors]
  BY TransmitterParts DEF Shape, DriverShape, ReceiveShape, Transmit
<1>3. CASE stat[1].tx
  <2>1. Descriptor = bdt_tx[stat[1].bank]
    BY <1>1, <1>3 DEF Descriptor
  <2>2. Descriptor.pid \in {"none", "IN"}
    BY <1>1, <1>2, <2>1 DEF TransmitDescriptors
  <2> QED
    BY <1>3, <2>2
<1>4. CASE ~stat[1].tx
  <2>1. Descriptor = bdt_rx[stat[1].bank]
    BY <1>1, <1>4 DEF Descriptor
  <2>2. Descriptor \in ReceiveDescriptors
    BY <1>1, <1>2, <2>1
  <2>3. /\ Descriptor.pid \in {"none", "SETUP", "OUT"}
        /\ Descriptor.pid = "SETUP" => Descriptor.packet \in RequestSet
    BY <2>2 DEF ReceiveDescriptors
  <2> QED
    BY <1>4, <2>1, <2>3
<1> QED
  BY <1>3, <1>4

LEMMA TransmitParts ==
  ASSUME Shape
  PROVE  /\ Transmit \in Transmitters /\ Transmit.ep = ep /\ Transmit.bdt = bdt_tx
         /\ ep \in Endpoints /\ bdt_tx \in [Banks -> TransmitDescriptors]
         /\ ep.tx_next \in Banks /\ ep.tx_last \in Banks /\ ep.data0 \in {0, 1}
         /\ ep.pending \in DataSet /\ ep.pending.len \in Nat /\ ep.pending.from \in Nat
BY TransmitterParts DEF Shape, DriverShape, Transmit

LEMMA BecomesTransmitter ==
  ASSUME NEW t \in Transmitters, Becomes(t)
  PROVE  Transmit' \in Transmitters
<1>1. Transmit' = [ep |-> t.ep, bdt |-> t.bdt]
  BY DEF Becomes, Transmit
<1> QED
  BY <1>1, TransmitterParts

\* The endpoint after a packet with OUT.
Accepted(t) == [t EXCEPT !.ep.rx_handler = FALSE]

LEMMA HandlerSet ==
  ASSUME NEW t \in Transmitters, NEW handler
  PROVE  [t EXCEPT !.ep.rx_handler = handler]
           = [ep |-> [t.ep EXCEPT !.rx_handler = handler], bdt |-> t.bdt]
<1>1. t = [ep |-> t.ep, bdt |-> t.bdt]
  BY TransmitterParts
<1> QED
  BY <1>1

LEMMA AcceptedEffect ==
  ASSUME NEW t \in Transmitters
  PROVE  /\ Accepted(t) \in Transmitters /\ Accepted(t).bdt = t.bdt
         /\ Accepted(t).ep.pending = t.ep.pending /\ Accepted(t).ep.tx_last = t.ep.tx_last
<1> DEFINE e == [t.ep EXCEPT !.rx_handler = FALSE]
<1>1. t.ep \in Endpoints /\ t.bdt \in [Banks -> TransmitDescriptors]
  BY TransmitterParts
<1>2. Accepted(t) = [ep |-> e, bdt |-> t.bdt]
  BY HandlerSet DEF Accepted
<1>3. e \in Endpoints /\ e.pending = t.ep.pending /\ e.tx_last = t.ep.tx_last
  BY <1>1, EndpointHandler
<1> HIDE DEF e
<1>4. Accepted(t) \in Transmitters /\ Accepted(t).bdt = t.bdt /\ Accepted(t).ep = e
  BY <1>1, <1>2, <1>3 DEF Transmitters
<1> QED
  BY <1>3, <1>4

LEMMA OutEffect ==
  ASSUME Shape, TokenOut, ep.rx_handler
  PROVE  /\ Transmit' \in Transmitters
         /\ ep'.pending = ep.pending /\ ep'.tx_last = ep.tx_last
         /\ \A b \in Banks : ~bdt_tx[b].own /\ bdt_tx'[b].own =>
                              bdt_tx'[b].toggle = ep.data0 /\ bdt_tx'[b].packet = NoData
<1> DEFINE t == Handshake(Transmit)
<1>1. /\ t \in Transmitters
      /\ t.ep.pending = Transmit.ep.pending
      /\ t.ep.tx_last = Transmit.ep.tx_last
      /\ \A b \in Banks : ~Transmit.bdt[b].own /\ t.bdt[b].own =>
                           t.bdt[b].toggle = Transmit.ep.data0 /\ t.bdt[b].packet = NoData
  BY TransmitParts, HandshakeEffect
<1>2. Becomes(Accepted(t))
  BY DEF TokenOut, Accepted
<1>3. Transmit.ep = ep /\ Transmit.bdt = bdt_tx
  BY TransmitParts
<1> HIDE DEF t
<1>4. /\ Accepted(t) \in Transmitters /\ Accepted(t).bdt = t.bdt
      /\ Accepted(t).ep.pending = t.ep.pending /\ Accepted(t).ep.tx_last = t.ep.tx_last
  BY <1>1, AcceptedEffect
<1>5. ep' = Accepted(t).ep /\ bdt_tx' = Accepted(t).bdt
  BY <1>2 DEF Becomes
<1>6. Transmit' \in Transmitters
  BY <1>2, <1>4, BecomesTransmitter
<1> QED
  BY <1>1, <1>3, <1>4, <1>5, <1>6

\* The packet the host takes.
LEMMA TakenEffect ==
  ASSUME Shape, HostIn
  PROVE  /\ bdt_tx' = [bdt_tx EXCEPT ![tx_odd] = Finished("IN", bdt_tx[tx_odd].packet)]
         /\ Transmit' \in Transmitters /\ ep' = ep
         /\ tx_odd \in Banks /\ bdt_tx[tx_odd].packet \in DataSet
<1>1. /\ bdt_tx' = [bdt_tx EXCEPT ![tx_odd] = Finished("IN", bdt_tx[tx_odd].packet)]
      /\ ep' = ep
  BY DEF HostIn, driver
<1>2. tx_odd \in Banks
  BY DEF Shape, QueueShape
<1>3. /\ Transmit \in Transmitters /\ ep \in Endpoints
      /\ bdt_tx \in [Banks -> TransmitDescriptors]
  BY TransmitParts
<1>4. bdt_tx[tx_odd].packet \in DataSet
  BY <1>2, <1>3 DEF TransmitDescriptors
<1>5. Finished("IN", bdt_tx[tx_odd].packet) \in TransmitDescriptors
  BY <1>4, DescriptorTypes
<1>6. bdt_tx' \in [Banks -> TransmitDescriptors]
  BY <1>1, <1>2, <1>3, <1>5
<1>7. Transmit' = [ep |-> ep', bdt |-> bdt_tx']
  BY DEF Transmit
<1> QED
  BY <1>1, <1>2, <1>3, <1>4, <1>6, <1>7 DEF Transmitters

LEMMA DriverShapeStep ==
  ASSUME Shape, [Next]_vars
  PROVE  DriverShape'
<1>0. /\ Transmit \in Transmitters
      /\ device_state \in {"ADDRESS", "other"} /\ device_address \in Addresses
  BY DEF Shape, DriverShape
<1>1. CASE usb_reset
  <2>1. usb_init_ep(Transmit) \in Transmitters
    <3>1. 1 \in Banks
      BY DEF Banks
    <3> QED
      BY <1>0, <3>1, ClearEffect DEF usb_init_ep
  <2>2. Becomes(usb_init_ep(Transmit)) /\ UNCHANGED <<device_state, device_address>>
    BY <1>1 DEF usb_reset
  <2> QED
    BY <1>0, <2>1, <2>2, BecomesTransmitter DEF DriverShape
<1>2. CASE TokenOut
  <2>1. UNCHANGED <<device_state, device_address>>
    BY <1>2 DEF TokenOut
  <2>2. CASE ep.rx_handler
    BY <1>0, <1>2, <2>1, <2>2, OutEffect DEF DriverShape
  <2>3. CASE ~ep.rx_handler
    BY <1>0, <1>2, <2>1, <2>3 DEF DriverShape, TokenOut, Transmit
  <2> QED
    BY <2>2, <2>3
<1>3. CASE usb_tx_handler
  <2>1. Becomes(QueueNext(Transmit)) /\ UNCHANGED <<device_state, device_address>>
    BY <1>3 DEF usb_tx_handler
  <2>2. QueueNext(Transmit) \in Transmitters
    BY <1>0, QueueEffect
  <2> QED
    BY <1>0, <2>1, <2>2, BecomesTransmitter DEF DriverShape
<1>4. CASE TokenInDone
  <2> DEFINE e == [ep EXCEPT !.tx_last = Head(stat).bank]
  <2>1. Head(stat).bank \in Banks /\ ep \in Endpoints
    BY <1>4, HeadToken, TransmitParts DEF TokenInDone, Shape, QueueShape
  <2>2. e \in Endpoints
    BY <2>1, EndpointLast
  <2>3. Transmit' = [ep |-> e, bdt |-> bdt_tx]
    BY <1>4 DEF TokenInDone, Transmit
  <2> HIDE DEF e
  <2>4. Transmit' \in Transmitters
    BY <2>2, <2>3, TransmitParts DEF Transmitters
  <2>5. device_state' \in {"ADDRESS", "other"} /\ device_address' \in Addresses
    BY <1>0, <1>4 DEF TokenInDone
  <2> QED
    BY <2>4, <2>5 DEF DriverShape
<1>5. CASE TokenSetup
  <2> DEFINE r == Descriptor.packet
  <2>1. Becomes(Answer(r)) /\ SetState(r)
    BY <1>5 DEF TokenSetup
  <2>2. r \in RequestSet
    BY <1>5, TokenKinds DEF TokenSetup, AtToken
  <2> HIDE DEF r
  <2>3. Answer(r) \in Transmitters
    BY <1>0, <2>2, AnswerEffect
  <2>4. Transmit' \in Transmitters
    BY <2>1, <2>3, BecomesTransmitter
  <2>5. r.addr \in Addresses
    BY <2>2 DEF RequestSet
  <2>6. device_state' \in {"ADDRESS", "other"} /\ device_address' \in Addresses
    BY <1>0, <2>1, <2>5 DEF SetState
  <2> QED
    BY <2>4, <2>6 DEF DriverShape
<1>6. CASE HostIn
  BY <1>0, <1>6, TakenEffect DEF HostIn, driver, DriverShape
<1>7. CASE UNCHANGED <<driver, bdt_tx>>
  BY <1>0, <1>7 DEF DriverShape, driver, Transmit
<1> QED
  BY <1>1, <1>2, <1>3, <1>4, <1>5, <1>6, <1>7
     DEF Next, USBOTG_IRQHandler, usb_handler, TokenIn, TokenSkipped, TokenDone, usb_error,
         HostSetup, HostOut, HostReset, BusError, vars

LEMMA HostParts ==
  ASSUME Shape
  PROVE  /\ host.phase \in Phases /\ host.request \in Requested
         /\ host.request.id \in {0, 1} /\ host.request.addr \in Addresses
         /\ host.got \in Seq(DataSet) /\ host.toggle \in {0, 1}
         /\ host.address \in Addresses
<1>1. /\ host.phase \in Phases /\ host.request \in Requested
      /\ host.got \in Seq(DataSet) /\ host.toggle \in {0, 1}
      /\ host.address \in Addresses
  BY DEF Shape, HostShape, Hosts
<1>2. \A r \in Requested : r.id \in {0, 1} /\ r.addr \in Addresses
  BY DEF Requested, RequestSet, NoRequest, Request, Addresses
<1> QED
  BY <1>1, <1>2

LEMMA NewRequest ==
  ASSUME Shape, NEW r \in Requests(1 - host.request.id)
  PROVE  r \in RequestSet /\ r.kind # "none"
<1>1. 1 - host.request.id \in {0, 1}
  BY HostParts
<1> DEFINE id == 1 - host.request.id
<1> HIDE DEF id
<1>2. \A len \in Lengths : Request("get", id, len, 0) \in RequestSet
  BY <1>1, UsbAssumption DEF RequestSet, Request, Kinds, Addresses, id
<1>3. \A a \in Addresses : Request("address", id, 0, a) \in RequestSet
  BY <1>1 DEF RequestSet, Request, Kinds, id
<1>4. \A kind \in {"config", "line coding", "line state", "unknown"} :
        Request(kind, id, 0, 0) \in RequestSet
  BY <1>1 DEF RequestSet, Request, Kinds, Addresses, id
<1>5. r \in RequestSet
  BY <1>2, <1>3, <1>4 DEF Requests, id
<1> QED
  BY <1>5 DEF RequestSet, Kinds

LEMMA ReceiveShapeStep ==
  ASSUME Shape, [Next]_vars
  PROVE  ReceiveShape'
<1>0. bdt_rx \in [Banks -> ReceiveDescriptors] /\ rx_odd \in Banks
  BY DEF Shape, ReceiveShape, QueueShape
<1>1. Armed \in ReceiveDescriptors
  BY DEF Armed, Owned, ReceiveDescriptors, NoData, DataSet
<1>2. CASE usb_reset
  BY <1>1, <1>2 DEF usb_reset, ReceiveShape
<1>3. CASE TokenDone
  <2>1. Head(stat).bank \in Banks
    BY <1>3, HeadToken DEF TokenDone, Shape, QueueShape
  <2>2. bdt_rx' = IF Head(stat).tx THEN bdt_rx ELSE [bdt_rx EXCEPT ![Head(stat).bank] = Armed]
    BY <1>3 DEF TokenDone
  <2> QED
    BY <1>0, <1>1, <2>1, <2>2 DEF ReceiveShape
<1>4. CASE HostSetup
  <2>1. PICK r \in Requests(1 - host.request.id) :
          bdt_rx' = [bdt_rx EXCEPT ![rx_odd] = Finished("SETUP", r)]
    BY <1>4 DEF HostSetup, ReceivePacket
  <2>2. r \in RequestSet
    BY NewRequest
  <2>3. Finished("SETUP", r) \in ReceiveDescriptors
    BY <2>2 DEF Finished, ReceiveDescriptors
  <2> QED
    BY <1>0, <2>1, <2>3 DEF ReceiveShape
<1>5. CASE HostOut
  <2>1. bdt_rx' = [bdt_rx EXCEPT ![rx_odd] = Finished("OUT", NoData)]
    BY <1>5 DEF HostOut, ReceivePacket
  <2>2. Finished("OUT", NoData) \in ReceiveDescriptors
    BY DEF Finished, ReceiveDescriptors, NoData, DataSet
  <2> QED
    BY <1>0, <2>1, <2>2 DEF ReceiveShape
<1>6. CASE UNCHANGED bdt_rx
  BY <1>0, <1>6 DEF ReceiveShape
<1> QED
  BY <1>2, <1>3, <1>4, <1>5, <1>6
     DEF Next, USBOTG_IRQHandler, usb_handler, TokenOut, TokenIn, usb_tx_handler, TokenInDone,
         TokenSetup, TokenSkipped, usb_error, HostIn, HostReset, BusError, vars

\* A token more.
LEMMA PushShape ==
  ASSUME Shape, NEW tx \in BOOLEAN, NEW bank \in Banks, Len(stat) < FifoSize,
         stat' = Append(stat, [tx |-> tx, bank |-> bank])
  PROVE  stat' \in Seq(Tokens) /\ Len(stat') <= FifoSize /\ stat' # << >>
<1>1. [tx |-> tx, bank |-> bank] \in Tokens /\ stat \in Seq(Tokens)
  BY DEF Tokens, Shape, QueueShape
<1> QED
  BY <1>1, UsbAssumption

LEMMA QueueShapeStep ==
  ASSUME Shape, [Next]_vars
  PROVE  QueueShape'
<1> USE UsbAssumption DEF Shape, QueueShape
<1>1. CASE usb_handler
  <2>1. CASE TokenDone
    <3>1. Tail(stat) \in Seq(Tokens) /\ Len(Tail(stat)) <= FifoSize
      BY <2>1 DEF TokenDone
    <3> QED
      BY <2>1, <3>1 DEF TokenDone
  <2>2. CASE TokenInDone
    BY <2>2 DEF TokenInDone, DriverShape
  <2>3. CASE TokenSetup
    BY <2>3 DEF TokenSetup, AtToken, SetState
  <2>4. CASE TokenOut \/ TokenIn \/ usb_tx_handler \/ TokenSkipped
    BY <2>4 DEF TokenOut, TokenIn, usb_tx_handler, TokenSkipped, AtToken, controller
  <2> QED
    BY <1>1, <2>1, <2>2, <2>3, <2>4 DEF usb_handler
<1>2. CASE usb_reset
  <2>1. << >> \in Seq(Tokens) /\ Len(<< >>) = 0
    OBVIOUS
  <2>2. /\ pc' = "idle" /\ rx_odd' = 0 /\ tx_odd' = 0 /\ stat' = << >> /\ usbrst' = FALSE
        /\ irq' = "on" /\ address' = 0 /\ UNCHANGED <<busy, queued>>
    BY <1>2 DEF usb_reset
  <2>3. stat' \in Seq(Tokens) /\ Len(stat') <= FifoSize
    BY <2>1, <2>2
  <2> QED
    BY <2>2, <2>3 DEF Banks, Addresses
<1>3. CASE usb_error \/ HostReset \/ BusError
  BY <1>3 DEF usb_error, HostReset, BusError
<1>4. CASE HostSetup
  <2>1. Len(stat) < FifoSize /\ stat' = Append(stat, [tx |-> FALSE, bank |-> rx_odd])
        /\ rx_odd' = 1 - rx_odd
    BY <1>4 DEF HostSetup, ReceivePacket, Reachable
  <2>2. stat' \in Seq(Tokens) /\ Len(stat') <= FifoSize /\ stat' # << >>
    BY <2>1, PushShape
  <2>3. UNCHANGED <<pc, tx_odd, usbrst, irq, address>> /\ busy' \in BOOLEAN /\ queued' \in BOOLEAN
    BY <1>4, <2>1 DEF HostSetup
  <2>4. rx_odd' \in Banks
    BY <2>1 DEF Banks
  <2> QED
    BY <2>2, <2>3, <2>4
<1>5. CASE HostOut
  <2>1. Len(stat) < FifoSize /\ stat' = Append(stat, [tx |-> FALSE, bank |-> rx_odd])
        /\ rx_odd' = 1 - rx_odd /\ queued' \in BOOLEAN
    BY <1>5 DEF HostOut, ReceivePacket, Reachable, Token
  <2>2. stat' \in Seq(Tokens) /\ Len(stat') <= FifoSize /\ stat' # << >>
    BY <2>1, PushShape
  <2>3. UNCHANGED <<pc, tx_odd, usbrst, irq, address>> /\ busy' \in BOOLEAN /\ queued' \in BOOLEAN
    BY <1>5, <2>1 DEF HostOut
  <2>4. rx_odd' \in Banks
    BY <2>1 DEF Banks
  <2> QED
    BY <2>2, <2>3, <2>4
<1>6. CASE HostIn
  <2>1. Len(stat) < FifoSize /\ stat' = Append(stat, [tx |-> TRUE, bank |-> tx_odd])
        /\ tx_odd' = 1 - tx_odd /\ queued' \in BOOLEAN
    BY <1>6 DEF HostIn, Reachable, Token
  <2>2. stat' \in Seq(Tokens) /\ Len(stat') <= FifoSize /\ stat' # << >>
    BY <2>1, PushShape
  <2>3. UNCHANGED <<pc, rx_odd, busy, usbrst, irq, address>>
    BY <1>6 DEF HostIn
  <2>4. tx_odd' \in Banks
    BY <2>1 DEF Banks
  <2> QED
    BY <2>1, <2>2, <2>3, <2>4
<1>7. CASE UNCHANGED vars
  BY <1>7 DEF vars, controller
<1> QED
  BY <1>1, <1>2, <1>3, <1>4, <1>5, <1>6, <1>7 DEF Next, USBOTG_IRQHandler

\* What the host does with a packet.
LEMMA AcceptEffect ==
  ASSUME Shape, HostIn, bdt_tx[tx_odd].toggle = host.toggle
  PROVE  LET d == bdt_tx[tx_odd]
             got == Append(host.got, d.packet)
             complete == /\ host.phase = "data in"
                         /\ \/ d.packet.len < EP0_BUFSIZE
                            \/ Len(got) * EP0_BUFSIZE >= host.request.len
         IN  /\ d.packet \in DataSet /\ got \in Seq(DataSet)
             /\ host' \in Hosts
             /\ host'.got = got /\ host'.toggle = 1 - host.toggle /\ host'.request = host.request
             /\ host'.phase = (IF host.phase = "status in" THEN "none"
                               ELSE IF complete THEN "status out" ELSE "data in")
             /\ host'.address = (IF Assigning THEN host.request.addr ELSE host.address)
<1> DEFINE d == bdt_tx[tx_odd]
           got == Append(host.got, d.packet)
           complete == /\ host.phase = "data in"
                       /\ \/ d.packet.len < EP0_BUFSIZE
                          \/ Len(got) * EP0_BUFSIZE >= host.request.len
           phase == IF host.phase = "status in" THEN "none"
                    ELSE IF complete THEN "status out" ELSE "data in"
           a == IF Assigning THEN host.request.addr ELSE host.address
<1>1. /\ host.phase \in {"data in", "status in"}
      /\ host' = [host EXCEPT !.got = got, !.toggle = 1 - @,
                     !.phase = CASE @ = "status in" -> "none"
                                 [] complete -> "status out"
                                 [] OTHER -> @,
                     !.address = a]
  BY DEF HostIn, Accept
<1>2. d.packet \in DataSet
  BY TakenEffect
<1>3. host \in Hosts /\ host.got \in Seq(DataSet) /\ host.toggle \in {0, 1} /\ a \in Addresses
  BY HostParts DEF Shape, HostShape
<1>4. got \in Seq(DataSet)
  BY <1>2, <1>3
<1>5. complete => host.phase = "data in"
  OBVIOUS
<1> HIDE DEF got, a, complete
<1>6. phase \in Phases
  BY DEF Phases
<1>7. phase = CASE host.phase = "status in" -> "none"
                [] complete -> "status out"
                [] OTHER -> host.phase
  BY <1>1, <1>5
<1> HIDE DEF phase
<1>8. host' = [host EXCEPT !.got = got, !.toggle = 1 - @, !.phase = phase, !.address = a]
  BY <1>1, <1>7
<1>9. 1 - host.toggle \in {0, 1}
  BY <1>3
<1>10. /\ host' \in Hosts
       /\ host'.got = got /\ host'.toggle = 1 - host.toggle /\ host'.request = host.request
       /\ host'.phase = phase /\ host'.address = a
  BY <1>3, <1>4, <1>6, <1>8, <1>9 DEF Hosts
<1> QED
  BY <1>1, <1>2, <1>4, <1>10 DEF got, a, complete, phase

LEMMA HostShapeStep ==
  ASSUME Shape, [Next]_vars
  PROVE  HostShape'
<1>0. host \in Hosts
  BY DEF Shape, HostShape
<1>1. CASE HostSetup
  <2>1. PICK r \in Requests(1 - host.request.id) :
          host' = [host EXCEPT !.phase = FirstPhase(r), !.request = r, !.got = << >>,
                               !.toggle = 1]
    BY <1>1 DEF HostSetup
  <2>2. r \in Requested
    BY NewRequest DEF Requested
  <2>3. FirstPhase(r) \in Phases /\ << >> \in Seq(DataSet)
    BY DEF FirstPhase, Phases
  <2> QED
    BY <1>0, <2>1, <2>2, <2>3 DEF HostShape, Hosts
<1>2. CASE HostOut
  <2> DEFINE phase == IF host.phase = "data out" THEN "status in" ELSE "none"
  <2>1. host' = [host EXCEPT !.phase = phase, !.got = << >>]
    BY <1>2 DEF HostOut
  <2>2. phase \in Phases /\ << >> \in Seq(DataSet)
    BY DEF Phases
  <2> HIDE DEF phase
  <2> QED
    BY <1>0, <2>1, <2>2 DEF HostShape, Hosts
<1>3. CASE HostIn
  <2>1. CASE bdt_tx[tx_odd].toggle # host.toggle
    BY <1>0, <1>3, <2>1 DEF HostIn, Accept, HostShape
  <2>2. CASE bdt_tx[tx_odd].toggle = host.toggle
    BY <1>3, <2>2, AcceptEffect DEF HostShape
  <2> QED
    BY <2>1, <2>2
<1>4. CASE HostReset
  <2>1. "none" \in Phases /\ 0 \in Addresses /\ << >> \in Seq(DataSet)
    BY DEF Phases, Addresses
  <2> QED
    BY <1>0, <1>4, <2>1 DEF HostReset, HostShape, Hosts
<1>5. CASE UNCHANGED host
  BY <1>0, <1>5 DEF HostShape
<1> QED
  BY <1>1, <1>2, <1>3, <1>4, <1>5
     DEF Next, USBOTG_IRQHandler, usb_handler, usb_reset, TokenOut, TokenIn, usb_tx_handler,
         TokenInDone, TokenSetup, TokenSkipped, TokenDone, usb_error, BusError, driver,
         controller, vars

LEMMA ShapeStep == Shape /\ [Next]_vars => Shape'
BY DriverShapeStep, ReceiveShapeStep, QueueShapeStep, HostShapeStep DEF Shape

LEMMA ShapeInit == Init => Shape
<1> SUFFICES ASSUME Init PROVE Shape
  OBVIOUS
<1>1. /\ NoData \in DataSet /\ Cleared \in TransmitDescriptors /\ Cleared \in ReceiveDescriptors
  BY DEF NoData, DataSet, Cleared, Finished, TransmitDescriptors, ReceiveDescriptors
<1>2. NewEndpoint \in Endpoints
  BY <1>1 DEF NewEndpoint, Endpoints, Banks
<1>3. Transmit \in Transmitters
  BY <1>1, <1>2 DEF Init, Transmit, Transmitters
<1>4. DriverShape /\ ReceiveShape
  BY <1>1, <1>3 DEF Init, DriverShape, ReceiveShape, Addresses
<1>5. stat \in Seq(Tokens) /\ Len(stat) <= FifoSize
  BY UsbAssumption DEF Init
<1>6. QueueShape
  BY <1>5 DEF Init, QueueShape, Banks, Addresses
<1>7. HostShape
  <2>1. NoRequest \in Requested /\ << >> \in Seq(DataSet)
    BY DEF Requested
  <2> QED
    BY <2>1 DEF Init, HostShape, Hosts, Phases, Addresses
<1> QED
  BY <1>4, <1>6, <1>7 DEF Shape

LEMMA ShapeTypes == Shape => TypeOK
<1> SUFFICES ASSUME Shape PROVE TypeOK
  OBVIOUS
<1>1. /\ ep \in Endpoints /\ ep.tx_next \in Banks /\ ep.tx_last \in Banks /\ ep.data0 \in {0, 1}
      /\ ep.pending.len \in Nat /\ ep.pending.from \in Nat
      /\ bdt_tx \in [Banks -> TransmitDescriptors] /\ bdt_rx \in [Banks -> ReceiveDescriptors]
  BY TransmitParts DEF Shape, ReceiveShape
<1>2. ep.rx_handler \in BOOLEAN
  BY <1>1 DEF Endpoints
<1>3. \A b \in Banks : /\ bdt_rx[b].pid \in {"none", "SETUP", "OUT"}
                       /\ bdt_tx[b].pid \in {"none", "IN"}
  BY <1>1 DEF TransmitDescriptors, ReceiveDescriptors
<1> QED
  BY <1>1, <1>2, <1>3 DEF TypeOK, Shape, DriverShape, QueueShape

\* Types of all variables, with no restriction on the host.
THEOREM TypeCorrect == Spec => []TypeOK
<1>1. Init => Shape
  BY ShapeInit
<1>2. Shape /\ [Next]_vars => Shape'
  BY ShapeStep
<1>3. Shape => TypeOK
  BY ShapeTypes
<1> QED
  BY <1>1, <1>2, <1>3, PTL DEF Spec

-----------------------------------------------------------------------------
(* The queue of tokens.                                                        *)

LEMMA QueueParts ==
  ASSUME Shape
  PROVE  /\ stat \in Seq(Tokens) /\ Len(stat) \in Nat /\ DOMAIN stat = 1 .. Len(stat)
         /\ \A i \in DOMAIN stat : /\ i \in Nat /\ stat[i] \in Tokens
                                   /\ stat[i].bank \in Banks /\ stat[i].tx \in BOOLEAN
         /\ pc # "idle" => Len(stat) >= 1 /\ 1 \in DOMAIN stat
         /\ Unhandled \subseteq DOMAIN stat
<1>1. stat \in Seq(Tokens) /\ (pc # "idle" => stat # << >>)
  BY DEF Shape, QueueShape
<1>2. Len(stat) \in Nat /\ DOMAIN stat = 1 .. Len(stat)
  BY <1>1
<1>3. ASSUME NEW i \in DOMAIN stat
      PROVE  i \in Nat /\ stat[i] \in Tokens /\ stat[i].bank \in Banks /\ stat[i].tx \in BOOLEAN
  <2>1. i \in Nat /\ stat[i] \in Tokens
    BY <1>1, <1>3, ElementOfSeq
  <2> QED
    BY <2>1 DEF Tokens
<1>4. pc # "idle" => Len(stat) >= 1 /\ 1 \in DOMAIN stat
  BY <1>1, <1>2
<1> QED
  BY <1>1, <1>2, <1>3, <1>4 DEF Unhandled

\* The controller puts a token behind the others.
LEMMA PushToken ==
  ASSUME Shape, NEW tx \in BOOLEAN, NEW bank \in Banks, UNCHANGED pc,
         stat' = Append(stat, [tx |-> tx, bank |-> bank])
  PROVE  /\ Len(stat') = Len(stat) + 1
         /\ DOMAIN stat' = DOMAIN stat \cup {Len(stat) + 1}
         /\ \A i \in DOMAIN stat : stat'[i] = stat[i] /\ i < Len(stat) + 1
         /\ stat'[Len(stat) + 1].tx = tx /\ stat'[Len(stat) + 1].bank = bank
         /\ Unhandled' = Unhandled \cup {Len(stat) + 1}
<1> DEFINE n == Len(stat)
           t == [tx |-> tx, bank |-> bank]
<1>1. /\ stat \in Seq(Tokens) /\ n \in Nat /\ DOMAIN stat = 1 .. n
      /\ pc # "idle" => n >= 1
  BY QueueParts
<1>2. t \in Tokens /\ t.tx = tx /\ t.bank = bank
  BY DEF Tokens
<1>3. stat' = Append(stat, t)
  OBVIOUS
<1> HIDE DEF t
<1>4. /\ Len(stat') = n + 1 /\ DOMAIN stat' = 1 .. n + 1 /\ stat'[n + 1] = t
      /\ \A i \in 1 .. n : stat'[i] = stat[i]
  BY <1>1, <1>2, <1>3
<1> HIDE DEF n
<1>5. 1 .. n + 1 = 1 .. n \cup {n + 1} /\ \A i \in 1 .. n : i < n + 1
  BY <1>1
<1>6. ~(n + 1 = 1 /\ pc = "end")
  BY <1>1
<1>7. Unhandled' = Unhandled \cup {n + 1}
  BY <1>1, <1>4, <1>5, <1>6 DEF Unhandled
<1> QED
  BY <1>1, <1>2, <1>4, <1>5, <1>7 DEF n

\* The handler is done with the first token.
LEMMA PopToken ==
  ASSUME Shape, TokenDone
  PROVE  /\ Len(stat) >= 1 /\ Len(stat') = Len(stat) - 1 /\ DOMAIN stat' = 1 .. Len(stat) - 1
         /\ pc' # "end" /\ pc' # "in" /\ Unhandled' = DOMAIN stat'
         /\ \A i \in DOMAIN stat' : /\ i \in Nat /\ i + 1 \in Unhandled /\ i + 1 # 1
                                    /\ stat'[i] = stat[i + 1]
         /\ \A i \in Unhandled : i - 1 \in DOMAIN stat' /\ stat'[i - 1] = stat[i] /\ i # 1
<1>1. /\ stat \in Seq(Tokens) /\ Len(stat) \in Nat /\ DOMAIN stat = 1 .. Len(stat)
      /\ pc # "idle" => Len(stat) >= 1
  BY QueueParts
<1>2. pc = "end" /\ stat' = Tail(stat) /\ pc' # "end" /\ pc' # "in"
  BY DEF TokenDone
<1>3. stat # << >>
  BY <1>1, <1>2
<1>4. /\ Len(stat') = Len(stat) - 1 /\ DOMAIN stat' = 1 .. Len(stat) - 1
      /\ \A i \in 1 .. Len(stat) - 1 : stat'[i] = stat[i + 1]
  BY <1>1, <1>2, <1>3
<1>5. Unhandled' = DOMAIN stat'
  BY <1>2 DEF Unhandled
<1> DEFINE n == Len(stat)
<1>6. n \in Nat /\ n >= 1 /\ DOMAIN stat = 1 .. n
  BY <1>1, <1>2
<1> HIDE DEF n
<1>7. Unhandled = 2 .. n
  BY <1>2, <1>6 DEF Unhandled
<1>8. \A i \in 1 .. n - 1 : i \in Nat /\ i + 1 \in 2 .. n /\ i + 1 # 1
  BY <1>6
<1>9. \A i \in 2 .. n : i - 1 \in 1 .. n - 1 /\ (i - 1) + 1 = i /\ i # 1
  BY <1>6
<1>10. \A i \in 2 .. n : stat'[i - 1] = stat[i]
  BY <1>4, <1>9 DEF n
<1> QED
  BY <1>2, <1>4, <1>5, <1>6, <1>7, <1>8, <1>9, <1>10 DEF n

\* The handler has acted on the first token.
LEMMA HandleToken ==
  ASSUME Shape, UNCHANGED stat, pc # "end"
  PROVE  /\ Unhandled = DOMAIN stat
         /\ pc' # "end" => Unhandled' = Unhandled
         /\ pc' = "end" => Unhandled' = Unhandled \ {1}
BY DEF Unhandled

-----------------------------------------------------------------------------
(* Requests and the tokens of received packets.                                *)

LEMMA ReceiveDescriptorParts ==
  ASSUME Shape
  PROVE  bdt_rx \in [Banks -> ReceiveDescriptors] /\ rx_odd \in Banks
BY DEF Shape, ReceiveShape, QueueShape

\* What the controller does with a packet it has received.
LEMMA ReceiveEffect ==
  ASSUME Shape, ReceiveInv, NEW pid \in {"SETUP", "OUT"}, NEW p, ReceivePacket(pid, p)
  PROVE  /\ bdt_rx' = [bdt_rx EXCEPT ![rx_odd] = Finished(pid, p)]
         /\ ~bdt_rx'[rx_odd].own /\ bdt_rx'[rx_odd].pid = pid /\ bdt_rx'[rx_odd].packet = p
         /\ \A b \in Banks : b # rx_odd => bdt_rx'[b] = bdt_rx[b]
         /\ \A i \in DOMAIN stat : ~stat[i].tx => stat[i].bank # rx_odd
         /\ ~usbrst /\ ~busy /\ host.address = address
<1>1. /\ bdt_rx' = [bdt_rx EXCEPT ![rx_odd] = Finished(pid, p)]
      /\ bdt_rx[rx_odd].own /\ ~usbrst /\ ~busy /\ host.address = address
  BY DEF ReceivePacket, Reachable
<1>2. bdt_rx \in [Banks -> ReceiveDescriptors] /\ rx_odd \in Banks
  BY ReceiveDescriptorParts
<1>3. bdt_rx'[rx_odd] = Finished(pid, p) /\ \A b \in Banks : b # rx_odd => bdt_rx'[b] = bdt_rx[b]
  BY <1>1, <1>2
<1>4. ~Finished(pid, p).own /\ Finished(pid, p).pid = pid /\ Finished(pid, p).packet = p
  BY DEF Finished
<1>5. \A i \in DOMAIN stat : ~stat[i].tx => stat[i].bank # rx_odd
  BY <1>1 DEF ReceiveInv
<1> QED
  BY <1>1, <1>3, <1>4, <1>5

\* What the driver does with the descriptor of a token it is done with.
LEMMA RearmEffect ==
  ASSUME Shape, ReceiveInv, TokenDone
  PROVE  \A i \in DOMAIN stat : i # 1 /\ ~stat[i].tx => bdt_rx'[stat[i].bank] = bdt_rx[stat[i].bank]
<1>1. /\ bdt_rx' = (IF Head(stat).tx THEN bdt_rx
                    ELSE [bdt_rx EXCEPT ![Head(stat).bank] = Armed])
      /\ Head(stat) = stat[1] /\ 1 \in DOMAIN stat /\ stat[1].bank \in Banks
  BY HeadToken DEF TokenDone, Shape, QueueShape
<1>2. ASSUME NEW i \in DOMAIN stat, i # 1, ~stat[i].tx
      PROVE  bdt_rx'[stat[i].bank] = bdt_rx[stat[i].bank]
  <2>1. stat[i].bank \in Banks /\ bdt_rx \in [Banks -> ReceiveDescriptors]
    BY QueueParts, ReceiveDescriptorParts
  <2>2. ~stat[1].tx => stat[i].bank # stat[1].bank
    BY <1>1, <1>2 DEF ReceiveInv
  <2> QED
    BY <1>1, <2>1, <2>2
<1> QED
  BY <1>2

LEMMA ReceiveStep == Shape /\ ReceiveInv /\ [Next]_vars => ReceiveInv'
<1> SUFFICES ASSUME Shape, ReceiveInv, [Next]_vars
             PROVE  ReceiveInv'
  OBVIOUS
<1>1. ASSUME NEW pid \in {"SETUP", "OUT"}, NEW p, ReceivePacket(pid, p), UNCHANGED pc,
             stat' = Append(stat, [tx |-> FALSE, bank |-> rx_odd])
      PROVE  ReceiveInv'
  <2>1. rx_odd \in Banks
    BY ReceiveDescriptorParts
  <2> DEFINE n == Len(stat)
  <2>2. /\ DOMAIN stat' = DOMAIN stat \cup {n + 1}
        /\ \A i \in DOMAIN stat : stat'[i] = stat[i] /\ i < n + 1
        /\ ~stat'[n + 1].tx /\ stat'[n + 1].bank = rx_odd
    BY <1>1, <2>1, PushToken
  <2>3. /\ ~bdt_rx'[rx_odd].own
        /\ \A b \in Banks : b # rx_odd => bdt_rx'[b] = bdt_rx[b]
        /\ \A i \in DOMAIN stat : ~stat[i].tx => stat[i].bank # rx_odd
    BY <1>1, ReceiveEffect
  <2>4. \A i \in DOMAIN stat : stat[i].bank \in Banks
    BY QueueParts
  <2> HIDE DEF n
  <2>5. \A i \in DOMAIN stat' : ~stat'[i].tx => ~bdt_rx'[stat'[i].bank].own
    BY <2>2, <2>3, <2>4 DEF ReceiveInv
  <2>6. \A i, j \in DOMAIN stat' :
          i # j /\ ~stat'[i].tx /\ ~stat'[j].tx => stat'[i].bank # stat'[j].bank
    BY <2>2, <2>3 DEF ReceiveInv
  <2> QED
    BY <2>5, <2>6 DEF ReceiveInv
<1>2. CASE HostSetup
  BY <1>1, <1>2 DEF HostSetup
<1>3. CASE HostOut
  BY <1>1, <1>3 DEF HostOut, Token
<1>4. CASE HostIn
  <2>1. /\ tx_odd \in Banks /\ UNCHANGED <<bdt_rx, pc>>
        /\ stat' = Append(stat, [tx |-> TRUE, bank |-> tx_odd])
    BY <1>4 DEF HostIn, Token, Shape, QueueShape
  <2> DEFINE n == Len(stat)
  <2>2. /\ DOMAIN stat' = DOMAIN stat \cup {n + 1}
        /\ \A i \in DOMAIN stat : stat'[i] = stat[i] /\ i < n + 1
        /\ stat'[n + 1].tx
    BY <2>1, PushToken
  <2> HIDE DEF n
  <2> QED
    BY <2>1, <2>2 DEF ReceiveInv
<1>5. CASE TokenDone
  <2>1. \A i \in DOMAIN stat' : /\ i + 1 \in Unhandled /\ i + 1 # 1
                                /\ stat'[i] = stat[i + 1] /\ i \in Nat
    BY <1>5, PopToken
  <2>2. Unhandled \subseteq DOMAIN stat
    BY QueueParts
  <2>3. \A i \in DOMAIN stat : i # 1 /\ ~stat[i].tx => bdt_rx'[stat[i].bank] = bdt_rx[stat[i].bank]
    BY <1>5, RearmEffect
  <2>4. \A i \in DOMAIN stat' : ~stat'[i].tx => ~bdt_rx'[stat'[i].bank].own
    BY <2>1, <2>2, <2>3 DEF ReceiveInv
  <2>5. ASSUME NEW i \in DOMAIN stat', NEW j \in DOMAIN stat',
               i # j, ~stat'[i].tx, ~stat'[j].tx
        PROVE  stat'[i].bank # stat'[j].bank
    <3>1. i + 1 # j + 1
      BY <2>1, <2>5
    <3> QED
      BY <2>1, <2>2, <2>5, <3>1 DEF ReceiveInv
  <2> QED
    BY <2>4, <2>5 DEF ReceiveInv
<1>6. CASE usb_reset
  <2>1. stat' = << >>
    BY <1>6 DEF usb_reset
  <2>2. DOMAIN stat' = {}
    BY <2>1
  <2> QED
    BY <2>2 DEF ReceiveInv
<1>7. CASE UNCHANGED <<bdt_rx, stat>>
  BY <1>7 DEF ReceiveInv
<1> QED
  BY <1>2, <1>3, <1>4, <1>5, <1>6, <1>7
     DEF Next, USBOTG_IRQHandler, usb_handler, TokenOut, TokenIn, usb_tx_handler, TokenInDone,
         TokenSetup, TokenSkipped, usb_error, HostReset, BusError, controller, vars

\* The steps of the handler at its token.
AtFirst == TokenOut \/ TokenIn \/ usb_tx_handler \/ TokenInDone \/ TokenSetup \/ TokenSkipped

LEMMA HandlerQueue ==
  ASSUME Shape, SetupInv, AtFirst
  PROVE  /\ UNCHANGED <<bdt_rx, stat, usbrst, rx_odd, tx_odd, host, queued>>
         /\ pc # "end" /\ stat # << >> /\ 1 \in DOMAIN stat /\ Head(stat) = stat[1]
         /\ Unhandled = DOMAIN stat
         /\ ~(TokenIn \/ usb_tx_handler) => pc' = "end" /\ Unhandled' = Unhandled \ {1}
         /\ TokenIn \/ usb_tx_handler => pc' = "in" /\ Unhandled' = Unhandled
         /\ usb_tx_handler \/ TokenInDone => pc = "in"
         /\ TokenIn \/ usb_tx_handler \/ TokenInDone => stat[1].tx
         /\ TokenOut \/ TokenSetup => ~stat[1].tx
         /\ TokenSetup => 1 \in Setups /\ ~busy'
         /\ ~TokenSetup => busy' = busy /\ 1 \notin Setups
<1>1. /\ UNCHANGED <<bdt_rx, stat, usbrst, rx_odd, tx_odd, host, queued>>
      /\ pc # "end" /\ stat # << >>
  BY DEF AtFirst, TokenOut, TokenIn, usb_tx_handler, TokenInDone, TokenSetup, TokenSkipped,
         AtToken, controller, Shape, QueueShape
<1>2. 1 \in DOMAIN stat /\ Head(stat) = stat[1]
  BY <1>1, HeadToken
<1>3. /\ Unhandled = DOMAIN stat
      /\ pc' # "end" => Unhandled' = Unhandled
      /\ pc' = "end" => Unhandled' = Unhandled \ {1}
  BY <1>1, HandleToken
<1>4. /\ Descriptor.pid = "IN" => stat[1].tx
      /\ Descriptor.pid = "OUT" => ~stat[1].tx
      /\ Descriptor.pid = "SETUP" => ~stat[1].tx /\ bdt_rx[stat[1].bank].pid = "SETUP"
  BY <1>1, TokenKinds
<1>5. ~stat[1].tx => Descriptor = bdt_rx[stat[1].bank]
  BY <1>2 DEF Descriptor
<1>6. CASE TokenOut
  BY <1>1, <1>2, <1>3, <1>4, <1>5, <1>6
     DEF TokenOut, TokenIn, usb_tx_handler, TokenInDone, TokenSetup, AtToken, Setups, controller
<1>7. CASE TokenIn
  BY <1>1, <1>2, <1>3, <1>4, <1>5, <1>7
     DEF TokenOut, TokenIn, usb_tx_handler, TokenInDone, TokenSetup, AtToken, Setups, controller
<1>8. CASE usb_tx_handler
  BY <1>1, <1>2, <1>3, <1>8
     DEF TokenOut, TokenIn, usb_tx_handler, TokenInDone, TokenSetup, AtToken, Setups, controller,
         SetupInv
<1>9. CASE TokenInDone
  BY <1>1, <1>2, <1>3, <1>9
     DEF TokenOut, TokenIn, usb_tx_handler, TokenInDone, TokenSetup, AtToken, Setups, controller,
         SetupInv
<1>10. CASE TokenSetup
  BY <1>1, <1>2, <1>3, <1>4, <1>10
     DEF TokenOut, TokenIn, usb_tx_handler, TokenInDone, TokenSetup, AtToken, Setups
<1>11. CASE TokenSkipped
  BY <1>1, <1>2, <1>3, <1>4, <1>5, <1>11
     DEF TokenOut, TokenIn, usb_tx_handler, TokenInDone, TokenSetup, TokenSkipped, AtToken,
         Setups, controller
<1> QED
  BY <1>6, <1>7, <1>8, <1>9, <1>10, <1>11 DEF AtFirst

LEMMA NoSetup == SetupInv /\ ~busy /\ ~usbrst => Setups = {}
BY DEF SetupInv

\* The request the handler comes to is the host's, and no token is behind its own.
LEMMA SetupEffect ==
  ASSUME Shape, SetupInv, TokenSetup
  PROVE  LET r == host.request
         IN  /\ r \in RequestSet /\ Len(stat) = 1 /\ Unhandled' = {}
             /\ Becomes(Answer(r)) /\ SetState(r) /\ pc' = "end" /\ ~stat[1].tx
             /\ UNCHANGED <<stat, host, rx_odd, tx_odd, usbrst, queued>> /\ ~busy'
             /\ ~usbrst => /\ host.phase = FirstPhase(r) /\ host.got = << >>
                           /\ host.toggle = 1 /\ busy
<1>1. /\ 1 \in Setups /\ Unhandled = DOMAIN stat /\ Unhandled' = Unhandled \ {1} /\ ~busy'
      /\ UNCHANGED <<stat, host, rx_odd, tx_odd, usbrst, queued>> /\ stat # << >> /\ pc' = "end"
  BY HandlerQueue DEF AtFirst
<1>2. /\ Len(stat) = 1 /\ (busy \/ usbrst) /\ ~stat[1].tx
      /\ bdt_rx[stat[1].bank].packet = host.request
  BY <1>1 DEF SetupInv, Setups
<1>3. /\ Descriptor.packet = bdt_rx[stat[1].bank].packet /\ Descriptor.packet \in RequestSet
      /\ Becomes(Answer(Descriptor.packet)) /\ SetState(Descriptor.packet)
  BY <1>1, TokenKinds DEF TokenSetup
<1>4. DOMAIN stat = {1}
  BY <1>2, QueueParts
<1>5. ~usbrst => /\ host.phase = FirstPhase(host.request) /\ host.got = << >>
                 /\ host.toggle = 1 /\ busy
  BY <1>2 DEF SetupInv
<1> QED
  BY <1>1, <1>2, <1>3, <1>4, <1>5

\* The head of the queue stays while the handler is at its token.
LEMMA PushHead ==
  ASSUME Shape, SetupInv, HostSetup \/ HostOut \/ HostIn
  PROVE  pc' = "in" => Head(stat').tx
<1> SUFFICES ASSUME pc' = "in" PROVE Head(stat').tx
  OBVIOUS
<1>1. PICK tx \in BOOLEAN, bank \in Banks :
        pc' = pc /\ stat' = Append(stat, [tx |-> tx, bank |-> bank])
  BY DEF HostSetup, HostOut, HostIn, Token, Shape, QueueShape
<1>2. pc = "in" /\ stat # << >> /\ Head(stat).tx
  BY <1>1 DEF Shape, QueueShape, SetupInv
<1>3. Head(stat) = stat[1] /\ 1 \in DOMAIN stat
  BY <1>2, HeadToken
<1>4. \A i \in DOMAIN stat : stat'[i] = stat[i]
  BY <1>1, PushToken
<1>5. Head(stat') = stat'[1]
  BY <1>1, QueueParts
<1> QED
  BY <1>2, <1>3, <1>4, <1>5

LEMMA SetupStep == Shape /\ ReceiveInv /\ SetupInv /\ [Next]_vars => SetupInv'
<1> SUFFICES ASSUME Shape, ReceiveInv, SetupInv, [Next]_vars
             PROVE  SetupInv'
  OBVIOUS
<1>1. CASE AtFirst
  <2>0. /\ UNCHANGED <<bdt_rx, stat, usbrst, host>> /\ Head(stat) = stat[1]
        /\ ~(TokenIn \/ usb_tx_handler) => pc' = "end" /\ Unhandled' = Unhandled \ {1}
        /\ TokenIn \/ usb_tx_handler => pc' = "in" /\ Unhandled' = Unhandled /\ stat[1].tx
        /\ TokenSetup => 1 \in Setups /\ ~busy'
        /\ ~TokenSetup => busy' = busy /\ 1 \notin Setups
    BY <1>1, HandlerQueue
  <2>1. pc' = "in" => Head(stat').tx
    BY <2>0
  <2>2. Setups' \subseteq Setups
    BY <2>0 DEF Setups
  <2>3. ~TokenSetup => Setups' = Setups
    BY <2>0 DEF Setups
  <2>4. CASE TokenSetup
    <3>1. Setups' = {} /\ ~busy'
      BY <2>0, <2>4, SetupEffect DEF Setups
    <3> QED
      BY <2>0, <2>1, <3>1 DEF SetupInv
  <2>5. CASE ~TokenSetup
    BY <2>0, <2>1, <2>3, <2>5 DEF SetupInv
  <2> QED
    BY <2>4, <2>5
<1>2. CASE TokenDone
  <2>0. UNCHANGED <<busy, usbrst, host>>
    BY <1>2 DEF TokenDone
  <2>1. /\ Len(stat') = Len(stat) - 1 /\ pc' # "end" /\ pc' # "in" /\ Unhandled' = DOMAIN stat'
        /\ \A i \in DOMAIN stat' : i + 1 \in Unhandled /\ i + 1 # 1 /\ stat'[i] = stat[i + 1] /\ i \in Nat
        /\ \A i \in Unhandled : i - 1 \in DOMAIN stat' /\ stat'[i - 1] = stat[i] /\ i # 1
    BY <1>2, PopToken
  <2>2. Unhandled \subseteq DOMAIN stat /\ Len(stat) \in Nat
    BY QueueParts
  <2>3. \A i \in DOMAIN stat : i # 1 /\ ~stat[i].tx => bdt_rx'[stat[i].bank] = bdt_rx[stat[i].bank]
    BY <1>2, RearmEffect
  <2>4. \A i \in Setups' : i + 1 \in Setups /\ i \in Nat /\ stat'[i] = stat[i + 1]
                           /\ bdt_rx'[stat[i + 1].bank] = bdt_rx[stat[i + 1].bank]
    BY <2>1, <2>2, <2>3 DEF Setups
  <2>5. \A i \in Setups : i - 1 \in Setups'
    BY <2>1, <2>2, <2>3 DEF Setups
  <2>6. \A i \in Setups' : i = Len(stat')
    BY <2>1, <2>2, <2>4 DEF SetupInv
  <2>7. \A i \in Setups' : /\ busy' \/ usbrst'
                           /\ bdt_rx'[stat'[i].bank].packet = host'.request
    BY <2>0, <2>4 DEF SetupInv
  <2> QED
    BY <2>0, <2>1, <2>5, <2>6, <2>7 DEF SetupInv
<1>3. CASE usb_reset
  <2>1. stat' = << >> /\ usbrst /\ ~usbrst' /\ busy' = busy /\ pc' = "idle"
    BY <1>3 DEF usb_reset
  <2>2. Setups' = {}
    BY <2>1 DEF Setups, Unhandled
  <2> QED
    BY <2>1, <2>2 DEF SetupInv
<1>4. CASE HostReset
  <2>1. /\ UNCHANGED <<bdt_rx, pc, stat>> /\ usbrst' /\ ~busy'
        /\ host' = [host EXCEPT !.phase = "none", !.got = << >>, !.address = 0]
    BY <1>4 DEF HostReset
  <2>2. host'.phase = "none" /\ host'.request = host.request /\ host'.address = 0
    BY <2>1 DEF Shape, HostShape, Hosts
  <2>3. Setups' = Setups
    BY <2>1 DEF Setups, Unhandled
  <2> QED
    BY <2>1, <2>2, <2>3 DEF SetupInv
<1>5. CASE HostSetup
  <2>1. PICK r \in Requests(1 - host.request.id) :
          /\ ReceivePacket("SETUP", r)
          /\ host' = [host EXCEPT !.phase = FirstPhase(r), !.request = r, !.got = << >>,
                                  !.toggle = 1]
    BY <1>5 DEF HostSetup
  <2>2. /\ UNCHANGED <<pc, usbrst>> /\ busy' /\ rx_odd \in Banks
        /\ stat' = Append(stat, [tx |-> FALSE, bank |-> rx_odd])
    BY <1>5, ReceiveDescriptorParts DEF HostSetup
  <2>3. /\ host'.phase = FirstPhase(r) /\ host'.request = r /\ host'.got = << >>
        /\ host'.toggle = 1
    BY <2>1 DEF Shape, HostShape, Hosts
  <2>4. /\ bdt_rx'[rx_odd].pid = "SETUP" /\ bdt_rx'[rx_odd].packet = r
        /\ \A b \in Banks : b # rx_odd => bdt_rx'[b] = bdt_rx[b]
        /\ \A i \in DOMAIN stat : ~stat[i].tx => stat[i].bank # rx_odd
        /\ ~usbrst /\ ~busy
    BY <2>1, ReceiveEffect
  <2> DEFINE n == Len(stat)
  <2>5. /\ Len(stat') = n + 1
        /\ DOMAIN stat' = DOMAIN stat \cup {n + 1}
        /\ \A i \in DOMAIN stat : stat'[i] = stat[i] /\ i < n + 1
        /\ ~stat'[n + 1].tx /\ stat'[n + 1].bank = rx_odd
        /\ Unhandled' = Unhandled \cup {n + 1}
    BY <2>2, PushToken
  <2>6. /\ Unhandled \subseteq DOMAIN stat /\ \A i \in DOMAIN stat : stat[i].bank \in Banks
        /\ pc # "idle" => 1 \in DOMAIN stat
    BY QueueParts
  <2> HIDE DEF n
  <2>7. Setups = {}
    BY <2>4, NoSetup
  <2>8. \A i \in Unhandled : i \notin Setups'
    BY <2>4, <2>5, <2>6, <2>7 DEF Setups
  <2>9. Setups' = {n + 1}
    BY <2>4, <2>5, <2>8 DEF Setups
  <2>10. pc' = "in" => Head(stat').tx
    BY <1>5, PushHead
  <2> QED
    BY <2>2, <2>3, <2>4, <2>5, <2>9, <2>10 DEF SetupInv
<1>6. CASE HostOut
  <2>1. ReceivePacket("OUT", NoData)
    BY <1>6 DEF HostOut
  <2>2. /\ UNCHANGED <<pc, busy, usbrst>> /\ rx_odd \in Banks
        /\ stat' = Append(stat, [tx |-> FALSE, bank |-> rx_odd])
    BY <1>6, ReceiveDescriptorParts DEF HostOut, Token
  <2>4. /\ bdt_rx'[rx_odd].pid = "OUT"
        /\ \A b \in Banks : b # rx_odd => bdt_rx'[b] = bdt_rx[b]
        /\ \A i \in DOMAIN stat : ~stat[i].tx => stat[i].bank # rx_odd
        /\ ~usbrst /\ ~busy
    BY <2>1, ReceiveEffect
  <2> DEFINE n == Len(stat)
  <2>5. /\ DOMAIN stat' = DOMAIN stat \cup {n + 1}
        /\ \A i \in DOMAIN stat : stat'[i] = stat[i] /\ i < n + 1
        /\ ~stat'[n + 1].tx /\ stat'[n + 1].bank = rx_odd
        /\ Unhandled' = Unhandled \cup {n + 1}
    BY <2>2, PushToken
  <2>6. Unhandled \subseteq DOMAIN stat /\ \A i \in DOMAIN stat : stat[i].bank \in Banks
    BY QueueParts
  <2> HIDE DEF n
  <2>7. Setups = {}
    BY <2>4, NoSetup
  <2>8. \A i \in Unhandled : i \notin Setups'
    BY <2>4, <2>5, <2>6, <2>7 DEF Setups
  <2>9. Setups' = {}
    BY <2>4, <2>5, <2>8 DEF Setups
  <2> QED
    BY <1>6, <2>2, <2>4, <2>9, PushHead DEF SetupInv
<1>7. CASE HostIn
  <2>1. /\ UNCHANGED <<pc, busy, usbrst, bdt_rx>> /\ tx_odd \in Banks /\ ~usbrst /\ ~busy
        /\ stat' = Append(stat, [tx |-> TRUE, bank |-> tx_odd])
    BY <1>7 DEF HostIn, Token, Reachable, Shape, QueueShape
  <2> DEFINE n == Len(stat)
  <2>2. /\ \A i \in DOMAIN stat : stat'[i] = stat[i] /\ i < n + 1
        /\ stat'[n + 1].tx
        /\ Unhandled' = Unhandled \cup {n + 1}
    BY <2>1, PushToken
  <2>3. Unhandled \subseteq DOMAIN stat
    BY QueueParts
  <2> HIDE DEF n
  <2>4. Setups' = Setups
    BY <2>1, <2>2, <2>3 DEF Setups
  <2>5. Setups = {}
    BY <2>1, NoSetup
  <2> QED
    BY <1>7, <2>1, <2>4, <2>5, PushHead DEF SetupInv
<1>8. CASE UNCHANGED <<bdt_rx, pc, stat, busy, usbrst, host>>
  <2>1. Setups' = Setups
    BY <1>8 DEF Setups, Unhandled
  <2> QED
    BY <1>8, <2>1 DEF SetupInv
<1> QED
  BY <1>1, <1>2, <1>3, <1>4, <1>5, <1>6, <1>7, <1>8
     DEF Next, USBOTG_IRQHandler, usb_handler, AtFirst, usb_error, BusError, controller, vars

LEMMA PhaseStep == Shape /\ SetupInv /\ PhaseInv /\ [Next]_vars => PhaseInv'
<1> SUFFICES ASSUME Shape, SetupInv, PhaseInv, [Next]_vars
             PROVE  PhaseInv'
  OBVIOUS
<1>1. CASE HostSetup
  <2>1. PICK r \in Requests(1 - host.request.id) :
          host' = [host EXCEPT !.phase = FirstPhase(r), !.request = r, !.got = << >>,
                               !.toggle = 1]
    BY <1>1 DEF HostSetup
  <2>2. host'.phase = FirstPhase(r) /\ host'.request = r
    BY <2>1 DEF Shape, HostShape, Hosts
  <2> QED
    BY <2>2 DEF PhaseInv, FirstPhase
<1>2. CASE HostOut
  <2>1. /\ host.phase \in {"status out", "data out"} /\ host'.request = host.request
        /\ host'.phase = (IF host.phase = "data out" THEN "status in" ELSE "none")
    BY <1>2 DEF HostOut, Shape, HostShape, Hosts
  <2> QED
    BY <2>1 DEF PhaseInv
<1>3. CASE HostIn
  <2>1. CASE bdt_tx[tx_odd].toggle # host.toggle
    BY <1>3, <2>1 DEF HostIn, Accept, PhaseInv
  <2>2. CASE bdt_tx[tx_odd].toggle = host.toggle
    <3>1. /\ host'.request = host.request
          /\ host'.phase \in {"none", "status out", "data in"}
          /\ host.phase = "status in" => host'.phase = "none"
      BY <1>3, <2>2, AcceptEffect
    <3>2. host.phase \in {"data in", "status in"}
      BY <1>3 DEF HostIn
    <3> QED
      BY <3>1, <3>2 DEF PhaseInv
  <2> QED
    BY <2>1, <2>2
<1>4. CASE HostReset
  <2>1. host'.phase = "none"
    BY <1>4 DEF HostReset, Shape, HostShape, Hosts
  <2> QED
    BY <2>1 DEF PhaseInv
<1>5. CASE UNCHANGED host
  BY <1>5 DEF PhaseInv
<1> QED
  BY <1>1, <1>2, <1>3, <1>4, <1>5
     DEF Next, USBOTG_IRQHandler, usb_handler, usb_reset, TokenOut, TokenIn, usb_tx_handler,
         TokenInDone, TokenSetup, TokenSkipped, TokenDone, usb_error, BusError, driver,
         controller, vars

LEMMA BaseStep == BaseInv /\ [Next]_vars => BaseInv'
BY ShapeStep, ReceiveStep, SetupStep, PhaseStep DEF BaseInv

LEMMA BaseInit == Init => BaseInv
<1> SUFFICES ASSUME Init PROVE BaseInv
  OBVIOUS
<1>1. DOMAIN stat = {} /\ Setups = {}
  BY DEF Init, Setups, Unhandled
<1> QED
  BY <1>1, ShapeInit DEF Init, BaseInv, ReceiveInv, SetupInv, PhaseInv

-----------------------------------------------------------------------------
(* The device has the address the host uses for it.                            *)

\* The handler's step at a token, in the four stages and outside of them.
LEMMA AddressHandler ==
  ASSUME BaseInv, AddressInv, AtFirst
  PROVE  AddressInv'
<1>0. Shape /\ SetupInv /\ PhaseInv
  BY DEF BaseInv
<1>1. /\ UNCHANGED <<stat, usbrst, host>>
      /\ pc # "end" /\ stat # << >> /\ 1 \in DOMAIN stat /\ Head(stat) = stat[1]
      /\ Unhandled = DOMAIN stat
      /\ ~(TokenIn \/ usb_tx_handler) => pc' = "end" /\ Unhandled' = Unhandled \ {1}
      /\ TokenIn \/ usb_tx_handler => pc' = "in" /\ Unhandled' = Unhandled
      /\ TokenIn \/ usb_tx_handler \/ TokenInDone => stat[1].tx
      /\ TokenOut \/ TokenSetup => ~stat[1].tx
      /\ TokenSetup => 1 \in Setups /\ ~busy'
      /\ ~TokenSetup => busy' = busy /\ 1 \notin Setups
  BY <1>0, HandlerQueue
<1>2. HandingOver' <=> HandingOver
  BY <1>1 DEF HandingOver, Assigning
<1>3. Assigning' <=> Assigning
  BY <1>1 DEF Assigning
<1>4. Len(stat) \in Nat /\ DOMAIN stat = 1 .. Len(stat)
  BY <1>0, QueueParts
<1>5. CASE TokenSetup
  <2>1. /\ Len(stat) = 1 /\ Unhandled' = {} /\ ~busy'
        /\ Becomes(Answer(host.request)) /\ SetState(host.request) /\ host.request \in RequestSet
        /\ ~usbrst => host.toggle = 1 /\ host.phase = FirstPhase(host.request) /\ busy
    BY <1>0, <1>5, SetupEffect
  <2>2. CASE host.request.kind = "address"
    <3>1. HandingOver /\ ~usbrst
      BY <1>1, <2>2 DEF HandingOver, AddressInv
    <3>2. host.phase = "status in"
      BY <2>1, <2>2, <3>1 DEF FirstPhase
    <3>3. Assigning /\ device_state = "other" /\ address = host.address
      BY <2>1, <2>2, <3>1, <3>2 DEF AddressInv, Assigning
    <3>4. /\ device_state' = "ADDRESS" /\ device_address' = host.request.addr
          /\ address' = address
      BY <2>1, <2>2 DEF SetState
    <3>5. \A b \in Banks : bdt_tx'[b].own => bdt_tx'[b].toggle = 1
      <4>1. \A b \in Banks : Answer(host.request).bdt[b].own =>
                              Answer(host.request).bdt[b].toggle = 1
        BY <1>0, <2>1, <2>2, TransmitParts, AnswerEffect
      <4> QED
        BY <2>1, <4>1 DEF Becomes
    <3> QED
      BY <1>1, <1>2, <1>3, <2>1, <3>1, <3>3, <3>4, <3>5 DEF AddressInv
  <2>3. CASE host.request.kind # "address"
    <3>1. ~HandingOver
      BY <2>3 DEF HandingOver, Assigning
    <3>2. device_state' = "other" /\ address' = address
      BY <2>1, <2>3, <3>1 DEF SetState, AddressInv
    <3> QED
      BY <1>1, <1>2, <3>1, <3>2 DEF AddressInv
  <2> QED
    BY <2>2, <2>3
<1>6. CASE TokenInDone
  <2>1. /\ device_state' = (IF device_state = "ADDRESS" THEN "other" ELSE device_state)
        /\ address' = (IF device_state = "ADDRESS" THEN device_address ELSE address)
        /\ UNCHANGED <<device_address, bdt_tx, busy>> /\ pc = "in" /\ pc' = "end"
    BY <1>6 DEF TokenInDone
  <2>2. CASE ~HandingOver
    BY <1>1, <1>2, <2>1, <2>2 DEF AddressInv
  <2>3. CASE HandingOver /\ Assigning /\ busy
    BY <1>1, <1>2, <1>3, <2>1, <2>3 DEF AddressInv
  <2>4. CASE HandingOver /\ Assigning /\ ~busy
    <3>1. Unhandled = {}
      BY <2>4 DEF AddressInv
    <3> QED
      BY <1>1, <3>1
  <2>5. CASE HandingOver /\ ~Assigning
    <3>1. Unhandled # {}
      BY <1>1
    <3>2. /\ ~usbrst /\ Handshaken /\ device_state = "ADDRESS" /\ device_address = host.address
      BY <2>5, <3>1 DEF AddressInv
    <3>3. Len(stat) = 1
      BY <2>1, <3>2 DEF Handshaken
    <3>4. Unhandled' = {}
      BY <1>1, <1>4, <1>6, <3>3, <2>1 DEF TokenIn, usb_tx_handler
    <3> QED
      BY <1>1, <1>2, <1>3, <2>1, <2>5, <3>2, <3>4 DEF AddressInv
  <2> QED
    BY <2>2, <2>3, <2>4, <2>5
<1>7. CASE ~TokenSetup /\ ~TokenInDone
  <2>1. UNCHANGED <<device_state, device_address, address>> /\ busy' = busy
    BY <1>1, <1>7 DEF AtFirst, TokenOut, TokenIn, usb_tx_handler, TokenSkipped, driver, controller
  <2>2. CASE ~HandingOver
    BY <1>1, <1>2, <2>1, <2>2 DEF AddressInv
  <2>3. CASE HandingOver /\ Assigning /\ busy
    BY <1>1, <1>2, <1>3, <2>1, <2>3 DEF AddressInv
  <2>4. CASE HandingOver /\ Assigning /\ ~busy
    <3>1. Unhandled = {}
      BY <2>4 DEF AddressInv
    <3> QED
      BY <1>1, <3>1
  <2>5. CASE HandingOver /\ ~Assigning
    <3>1. Unhandled # {}
      BY <1>1
    <3>2. /\ ~usbrst /\ Handshaken /\ device_state = "ADDRESS" /\ device_address = host.address
          /\ pc # "in" => bdt_tx[stat[Len(stat)].bank].pid = "IN"
      BY <2>5, <3>1 DEF AddressInv
    <3>3. Len(stat) = 1 /\ stat[1].tx
      BY <1>1, <3>2 DEF Handshaken
    <3>4. TokenIn \/ usb_tx_handler
      <4>1. ~TokenOut
        BY <1>1, <3>3
      <4>2. ~TokenSkipped
        <5> SUFFICES ASSUME TokenSkipped PROVE FALSE
          OBVIOUS
        <5>1. pc # "in" /\ Descriptor.pid = "none"
          BY DEF TokenSkipped, AtToken
        <5>2. Descriptor = bdt_tx[stat[1].bank]
          BY <1>1, <3>3 DEF Descriptor
        <5> QED
          BY <3>2, <3>3, <5>1, <5>2
      <4> QED
        BY <1>7, <4>1, <4>2 DEF AtFirst
    <3>5. Handshaken' /\ pc' = "in"
      BY <1>1, <3>2, <3>3, <3>4 DEF Handshaken
    <3> QED
      BY <1>1, <1>2, <1>3, <2>1, <2>5, <3>2, <3>5 DEF AddressInv
  <2> QED
    BY <2>2, <2>3, <2>4, <2>5
<1> QED
  BY <1>5, <1>6, <1>7

LEMMA AddressDone ==
  ASSUME BaseInv, AddressInv, TokenDone
  PROVE  AddressInv'
<1>0. Shape /\ SetupInv
  BY DEF BaseInv
<1>1. UNCHANGED <<driver, bdt_tx, busy, usbrst, address, host>> /\ pc = "end"
  BY DEF TokenDone
<1>2. /\ Len(stat) >= 1 /\ Len(stat') = Len(stat) - 1 /\ DOMAIN stat' = 1 .. Len(stat) - 1
      /\ pc' # "end" /\ pc' # "in" /\ Unhandled' = DOMAIN stat'
      /\ \A i \in DOMAIN stat' : i + 1 \in Unhandled /\ stat'[i] = stat[i + 1]
      /\ \A i \in Unhandled : i - 1 \in DOMAIN stat'
  BY <1>0, PopToken
<1>3. Len(stat) \in Nat /\ stat \in Seq(Tokens) /\ stat # << >>
  BY <1>0, <1>1, QueueParts
<1>4. Assigning' <=> Assigning
  BY <1>1 DEF Assigning
<1>5. Unhandled = {} => Unhandled' = {}
  BY <1>2
<1>6. CASE ~HandingOver
  <2>1. ~HandingOver'
    BY <1>1, <1>3, <1>4, <1>6 DEF HandingOver
  <2> QED
    BY <1>1, <1>6, <2>1 DEF AddressInv, driver
<1>7. CASE HandingOver /\ Assigning
  <2>1. HandingOver'
    BY <1>4, <1>7 DEF HandingOver
  <2> QED
    BY <1>1, <1>4, <1>5, <1>7, <2>1 DEF AddressInv, driver
<1>8. CASE HandingOver /\ ~Assigning /\ Unhandled = {} /\ device_state = "other"
  <2>1. /\ ~usbrst /\ address = host.address
    BY <1>8 DEF AddressInv
  <2>2. DOMAIN stat' = {}
    BY <1>2, <1>8
  <2>3. stat' = << >>
    BY <1>3, <2>2 DEF TokenDone
  <2>4. ~HandingOver'
    BY <1>4, <1>8, <2>3 DEF HandingOver
  <2> QED
    BY <1>1, <1>8, <2>1, <2>4 DEF AddressInv, driver
<1>9. CASE HandingOver /\ ~Assigning /\ ~(Unhandled = {} /\ device_state = "other")
  <2>1. /\ ~usbrst /\ Handshaken /\ device_state = "ADDRESS" /\ device_address = host.address
        /\ bdt_tx[stat[Len(stat)].bank].pid = "IN"
    BY <1>1, <1>9 DEF AddressInv
  <2>2. Len(stat) = 2 /\ stat[2].tx
    BY <1>1, <2>1 DEF Handshaken
  <2>3. Len(stat') = 1 /\ 1 \in DOMAIN stat'
    BY <1>2, <2>2
  <2>4. stat'[1] = stat[2] /\ stat' # << >>
    <3>1. stat'[1] = stat[1 + 1]
      BY <1>2, <2>3
    <3> QED
      BY <2>3, <3>1
  <2>5. Handshaken'
    BY <1>2, <2>2, <2>3, <2>4 DEF Handshaken
  <2>6. HandingOver'
    BY <1>1, <1>9, <2>4 DEF HandingOver, Assigning
  <2>7. bdt_tx'[stat'[Len(stat')].bank].pid = "IN"
    BY <1>1, <2>1, <2>2, <2>3, <2>4
  <2> QED
    BY <1>1, <1>4, <1>9, <2>1, <2>5, <2>6, <2>7 DEF AddressInv, driver
<1> QED
  BY <1>6, <1>7, <1>8, <1>9

LEMMA AddressStep ==
  ASSUME Orderly, BaseInv, AddressInv, [Next]_vars
  PROVE  AddressInv'
<1>0. Shape /\ SetupInv /\ PhaseInv /\ Shape'
  BY ShapeStep DEF BaseInv
<1>1. CASE AtFirst
  BY <1>1, AddressHandler
<1>2. CASE TokenDone
  BY <1>2, AddressDone
<1>3. CASE usb_reset
  <2>1. /\ usbrst /\ ~usbrst' /\ stat' = << >> /\ address' = 0
        /\ UNCHANGED <<device_state, host>>
    BY <1>3 DEF usb_reset
  <2>2. ~HandingOver /\ device_state = "other" /\ host.address = 0 /\ host.phase = "none"
    BY <1>0, <2>1 DEF AddressInv, SetupInv
  <2>3. ~HandingOver'
    BY <2>1, <2>2 DEF HandingOver, Assigning
  <2> QED
    BY <2>1, <2>2, <2>3 DEF AddressInv
<1>4. CASE HostReset
  <2>1. /\ ~HandingOver /\ usbrst' /\ UNCHANGED <<device_state, stat>>
        /\ host'.phase = "none" /\ host'.request = host.request
    BY <1>0, <1>4 DEF HostReset, driver, Shape, HostShape, Hosts
  <2>2. ~HandingOver'
    BY <2>1 DEF HandingOver, Assigning
  <2> QED
    BY <2>1, <2>2 DEF AddressInv
<1>5. CASE HostSetup
  <2>1. PICK r \in Requests(1 - host.request.id) :
          /\ ReceivePacket("SETUP", r)
          /\ host' = [host EXCEPT !.phase = FirstPhase(r), !.request = r, !.got = << >>,
                                  !.toggle = 1]
    BY <1>5 DEF HostSetup
  <2>2. /\ ~HandingOver /\ busy' /\ UNCHANGED <<device_state, address, usbrst>>
    BY <1>5 DEF HostSetup, driver
  <2>3. /\ host'.phase = FirstPhase(r) /\ host'.request = r /\ host'.address = host.address
    BY <1>0, <2>1 DEF Shape, HostShape, Hosts
  <2>4. ~usbrst /\ address = host.address
    BY <2>1 DEF ReceivePacket, Reachable
  <2>5. device_state = "other"
    BY <2>2 DEF AddressInv
  <2>6. HandingOver' => Assigning'
    BY <2>3 DEF HandingOver, Assigning, FirstPhase
  <2> QED
    BY <2>2, <2>3, <2>4, <2>5, <2>6 DEF AddressInv
<1>6. CASE HostOut
  <2>1. /\ host.phase \in {"status out", "data out"} /\ host'.request = host.request
        /\ host'.address = host.address /\ UNCHANGED <<device_state, address, usbrst>>
    BY <1>0, <1>6 DEF HostOut, driver, Shape, HostShape, Hosts
  <2>2. host.request.kind # "address"
    BY <1>0, <2>1 DEF PhaseInv
  <2>3. ~HandingOver /\ ~HandingOver'
    BY <2>1, <2>2 DEF HandingOver, Assigning
  <2> QED
    BY <2>1, <2>3 DEF AddressInv
<1>7. CASE HostIn
  <2>1. /\ UNCHANGED <<device_state, device_address, address, usbrst, busy, pc>>
        /\ ~usbrst /\ ~busy /\ bdt_tx[tx_odd].own /\ tx_odd \in Banks
        /\ host.phase \in {"data in", "status in"}
        /\ stat' = Append(stat, [tx |-> TRUE, bank |-> tx_odd])
    BY <1>0, <1>7 DEF HostIn, Reachable, Token, driver, Shape, QueueShape
  <2>2. CASE host.request.kind = "address"
    <3>1. Assigning /\ HandingOver /\ host.phase = "status in"
      BY <1>0, <2>1, <2>2 DEF Assigning, HandingOver, PhaseInv
    <3>2. /\ address = host.address
          /\ device_state = "ADDRESS" /\ device_address = host.request.addr
          /\ Unhandled = {}
          /\ host.toggle = 1 /\ \A b \in Banks : bdt_tx[b].own => bdt_tx[b].toggle = 1
      BY <2>1, <3>1 DEF AddressInv
    <3>3. bdt_tx[tx_odd].toggle = host.toggle
      BY <2>1, <3>2
    <3>4. /\ host'.phase = "none" /\ host'.address = host.request.addr
          /\ host'.request = host.request
      BY <1>0, <1>7, <3>1, <3>3, AcceptEffect
    <3>5. /\ Len(stat') = Len(stat) + 1 /\ stat'[Len(stat) + 1].tx
          /\ stat'[Len(stat) + 1].bank = tx_odd
      BY <1>0, <2>1, PushToken
    <3>6. /\ Len(stat) \in Nat /\ DOMAIN stat = 1 .. Len(stat)
          /\ pc # "idle" => Len(stat) >= 1
      BY <1>0, QueueParts
    <3>7. Len(stat) = (IF pc = "end" THEN 1 ELSE 0)
      <4>1. \A i \in DOMAIN stat : i = 1 /\ pc = "end"
        BY <3>2 DEF Unhandled
      <4> QED
        BY <3>6, <4>1
    <3>8. Len(stat') = (IF pc' = "end" THEN 2 ELSE 1) /\ stat' # << >>
      <4>1. Len(stat') = (IF pc' = "end" THEN 2 ELSE 1)
        <5>1. pc' = pc /\ Len(stat') = Len(stat) + 1
          BY <2>1, <3>5
        <5>2. CASE pc = "end"
          BY <3>7, <5>1, <5>2
        <5>3. CASE pc # "end"
          BY <3>7, <5>1, <5>3
        <5> QED
          BY <5>2, <5>3
      <4>2. stat' # << >>
        BY <1>0, <4>1 DEF Shape, QueueShape
      <4> QED
        BY <4>1, <4>2
    <3>9. Handshaken'
      BY <3>5, <3>8, <3>7, <3>6 DEF Handshaken
    <3>10. bdt_tx'[tx_odd].pid = "IN"
      BY <1>0, <1>7, <2>1, TransmitParts DEF HostIn, Finished
    <3>11. HandingOver' /\ ~Assigning'
      BY <2>2, <3>4, <3>8 DEF HandingOver, Assigning
    <3>12. bdt_tx'[stat'[Len(stat')].bank].pid = "IN"
      BY <3>5, <3>10
    <3> QED
      BY <2>1, <3>2, <3>4, <3>9, <3>11, <3>12 DEF AddressInv
  <2>3. CASE host.request.kind # "address"
    <3>1. host'.request = host.request /\ host'.address = host.address
      <4>1. CASE bdt_tx[tx_odd].toggle # host.toggle
        BY <1>7, <4>1 DEF HostIn, Accept
      <4>2. CASE bdt_tx[tx_odd].toggle = host.toggle
        BY <1>0, <1>7, <2>3, <4>2, AcceptEffect DEF Assigning
      <4> QED
        BY <4>1, <4>2
    <3>2. ~HandingOver /\ ~HandingOver'
      BY <2>3, <3>1 DEF HandingOver, Assigning
    <3> QED
      BY <2>1, <3>1, <3>2 DEF AddressInv
  <2> QED
    BY <2>2, <2>3
<1>8. CASE UNCHANGED <<device_state, device_address, bdt_tx, pc, stat, busy, usbrst, address, host>>
  <2>1. (HandingOver' <=> HandingOver) /\ (Assigning' <=> Assigning) /\ Unhandled' = Unhandled
        /\ (Handshaken' <=> Handshaken)
    BY <1>8 DEF HandingOver, Assigning, Unhandled, Handshaken
  <2> QED
    BY <1>8, <2>1 DEF AddressInv
<1> QED
  BY <1>1, <1>2, <1>3, <1>4, <1>5, <1>6, <1>7, <1>8
     DEF Next, USBOTG_IRQHandler, usb_handler, AtFirst, usb_error, BusError, driver, controller,
         vars

LEMMA AddressInit == Init => AddressInv
BY DEF Init, AddressInv, HandingOver, Assigning, NoRequest, Request

\* Between two tokens the device has the address that the host uses for it, when the host
\* leaves a SET_ADDRESS time to end: whatever else it gives up, and with any bus errors.
THEOREM AddressFollowed == Orderly => (Spec => []AddressAgreed)
<1> SUFFICES ASSUME Orderly
             PROVE  Spec => []AddressAgreed
  OBVIOUS
<1>1. Init => BaseInv /\ AddressInv
  BY BaseInit, AddressInit
<1>2. BaseInv /\ AddressInv /\ [Next]_vars => (BaseInv /\ AddressInv)'
  BY BaseStep, AddressStep
<1>3. BaseInv /\ AddressInv => AddressAgreed
  <2> SUFFICES ASSUME BaseInv, AddressInv, AllHandled
               PROVE  address = host.address
    BY DEF AddressAgreed
  <2>1. stat = << >> /\ ~usbrst
    BY DEF AllHandled
  <2>2. CASE ~HandingOver
    BY <2>1, <2>2 DEF AddressInv
  <2>3. CASE HandingOver
    <3>1. Assigning
      BY <2>1, <2>3 DEF HandingOver
    <3> QED
      BY <2>3, <3>1 DEF AddressInv
  <2> QED
    BY <2>2, <2>3
<1> QED
  BY <1>1, <1>2, <1>3, PTL DEF Spec

-----------------------------------------------------------------------------
(* Data comes in order.                                                        *)

LEMMA DataParts ==
  ASSUME Shape
  PROVE  /\ Got \in Nat /\ host.request.len \in Nat /\ EP0_BUFSIZE \in Nat /\ EP0_BUFSIZE > 0
         /\ tx_odd \in {0, 1} /\ host.toggle \in {0, 1} /\ host.request.id \in {0, 1}
<1>1. host.request \in Requested /\ host.got \in Seq(DataSet)
  BY HostParts
<1>2. \A r \in Requested : r.len \in Nat
  BY DEF Requested, RequestSet, NoRequest, Request
<1>3. Len(host.got) \in Nat /\ EP0_BUFSIZE \in Nat /\ EP0_BUFSIZE > 0
  BY <1>1, BufferAssumption
<1>4. Got \in Nat
  BY <1>3 DEF Got
<1> QED
  BY <1>1, <1>2, <1>3, <1>4, HostParts DEF Shape, QueueShape, Banks

LEMMA StreamQueue ==
  ASSUME Shape, NEW t \in Transmitters, Stream(t)
  PROVE  Stream(QueueNext(t))
<1> PICK n \in 0 .. 2 : StreamAt(t, n)
  BY DEF Stream
<1> DEFINE u == QueueNext(t)
           g == Got
           l == host.request.len
           q == EP0_BUFSIZE
           m == MinOf(t.ep.pending.len, q)
<1>1. /\ g \in Nat /\ l \in Nat /\ q \in Nat /\ q > 0
      /\ tx_odd \in {0, 1} /\ host.toggle \in {0, 1}
  BY DataParts
<1>2. /\ t.ep \in Endpoints /\ t.bdt \in [Banks -> TransmitDescriptors]
      /\ t.ep.tx_next \in Banks /\ t.ep.data0 \in {0, 1}
      /\ t.ep.pending \in DataSet /\ t.ep.pending.len \in Nat /\ t.ep.pending.from \in Nat
  BY TransmitterParts
<1>3. CASE ~MoreToSend(t)
  <2>1. u = t
    BY <1>3, QueueEffect
  <2> QED
    BY <2>1
<1>4. CASE MoreToSend(t)
  <2>1. t.ep.pending.len > 0 /\ ~t.bdt[t.ep.tx_next].own
    BY <1>4 DEF MoreToSend
  <2>2. /\ u.bdt = [t.bdt EXCEPT ![t.ep.tx_next] = Owned(t.ep.data0, NextPacket(t))]
        /\ u.ep = [t.ep EXCEPT !.tx_next = 1 - @, !.data0 = 1 - @,
                               !.pending = [t.ep.pending EXCEPT !.from = @ + m, !.len = @ - m]]
    BY <1>4, QueueEffect
  <2>3. NextPacket(t).id = t.ep.pending.id /\ NextPacket(t).from = t.ep.pending.from
        /\ NextPacket(t).len = m
    BY <1>2 DEF NextPacket, DataSet
  <2> HIDE DEF u, m
  <2>4. /\ u.ep.tx_next = 1 - t.ep.tx_next /\ u.ep.data0 = 1 - t.ep.data0
        /\ u.ep.pending.id = t.ep.pending.id
        /\ u.ep.pending.from = t.ep.pending.from + m
        /\ u.ep.pending.len = t.ep.pending.len - m
    BY <1>2, <2>2 DEF Endpoints, DataSet
  <2>5. /\ u.bdt[t.ep.tx_next].own /\ u.bdt[t.ep.tx_next].toggle = t.ep.data0
        /\ u.bdt[t.ep.tx_next].packet = NextPacket(t)
        /\ \A b \in Banks : b # t.ep.tx_next => u.bdt[b] = t.bdt[b]
    <3>1. u.bdt[t.ep.tx_next] = Owned(t.ep.data0, NextPacket(t))
      BY <1>2, <2>2
    <3> QED
      BY <1>2, <2>2, <3>1 DEF Owned
  <2> HIDE DEF g, l, q
  <2>z. g \in Nat /\ l \in Nat /\ q \in Nat /\ q > 0
    BY DataParts DEF g, l, q
  <2>6. CASE n = 0
    <3>1. /\ g < l /\ ~t.bdt[tx_odd].own /\ ~t.bdt[1 - tx_odd].own
          /\ t.ep.tx_next = tx_odd /\ t.ep.data0 = host.toggle
          /\ t.ep.pending.id = host.request.id /\ t.ep.pending.from = MinOf(g + 0 * q, l)
          /\ t.ep.pending.len = l - MinOf(g + 0 * q, l)
      BY <2>6 DEF StreamAt, Place, g, l, q
    <3>2. /\ MinOf(g + 0 * q, l) = g /\ MinOf(g + 1 * q, l) = g + MinOf(l - g, q)
          /\ l - g - MinOf(l - g, q) = l - MinOf(g + 1 * q, l)
      <4>1. g < l
        BY <3>1
      <4> QED
        BY <2>z, <4>1 DEF MinOf
    <3>3. m = MinOf(l - g, q)
      BY <3>1, <3>2 DEF m
    <3>4. u.ep.pending.from = MinOf(g + 1 * q, l) /\ u.ep.pending.len = l - MinOf(g + 1 * q, l)
      BY <2>4, <3>1, <3>2, <3>3
    <3>5. u.bdt[tx_odd].own /\ ~u.bdt[1 - tx_odd].own
      <4>1. 1 - tx_odd \in Banks /\ 1 - tx_odd # tx_odd
        BY <1>1 DEF Banks
      <4> QED
        BY <2>5, <3>1, <4>1
    <3>6. Carries(u.bdt[tx_odd], host.toggle, g)
      BY <2>3, <2>5, <3>1, <3>2, <3>3 DEF Carries, l, q
    <3>7. u.ep.tx_next = 1 - tx_odd /\ u.ep.data0 = 1 - host.toggle
          /\ u.ep.pending.id = host.request.id
      BY <2>4, <3>1
    <3>8. StreamAt(u, 1)
      BY <3>1, <3>4, <3>5, <3>6, <3>7 DEF StreamAt, Place, g, l, q
    <3> QED
      BY <3>8 DEF Stream, u
  <2>7. CASE n = 1
    <3>1. /\ g < l /\ t.bdt[tx_odd].own /\ ~t.bdt[1 - tx_odd].own
          /\ t.ep.tx_next = 1 - tx_odd /\ t.ep.data0 = 1 - host.toggle
          /\ t.ep.pending.id = host.request.id /\ t.ep.pending.from = MinOf(g + 1 * q, l)
          /\ t.ep.pending.len = l - MinOf(g + 1 * q, l)
          /\ Carries(t.bdt[tx_odd], host.toggle, g)
      BY <2>7 DEF StreamAt, Place, g, l, q
    <3>2. /\ g + q < l /\ MinOf(g + 1 * q, l) = g + q
          /\ MinOf(g + 2 * q, l) = g + q + MinOf(l - (g + q), q)
          /\ l - (g + q) - MinOf(l - (g + q), q) = l - MinOf(g + 2 * q, l)
      <4>1. g < l
        BY <3>1
      <4>2. l - MinOf(g + 1 * q, l) > 0
        BY <2>1, <3>1
      <4>3. g + q < l
        BY <2>z, <4>1, <4>2 DEF MinOf
      <4> QED
        BY <2>z, <4>1, <4>3 DEF MinOf
    <3>3. m = MinOf(l - (g + q), q)
      BY <3>1, <3>2 DEF m
    <3>4. u.ep.pending.from = MinOf(g + 2 * q, l) /\ u.ep.pending.len = l - MinOf(g + 2 * q, l)
      BY <2>4, <3>1, <3>2, <3>3
    <3>0. 1 - tx_odd \in Banks /\ 1 - tx_odd # tx_odd /\ tx_odd \in Banks
      BY <1>1 DEF Banks
    <3>5. u.bdt[tx_odd] = t.bdt[tx_odd] /\ u.bdt[1 - tx_odd].own
      BY <2>5, <3>0, <3>1
    <3>6. Carries(u.bdt[1 - tx_odd], 1 - host.toggle, g + q)
      BY <2>3, <2>5, <3>1, <3>2, <3>3 DEF Carries, l, q
    <3>7. u.ep.tx_next = tx_odd /\ u.ep.data0 = host.toggle /\ u.ep.pending.id = host.request.id
      BY <1>1, <2>4, <3>1
    <3>8. StreamAt(u, 2)
      BY <3>1, <3>2, <3>4, <3>5, <3>6, <3>7 DEF StreamAt, Place, g, l, q
    <3> QED
      BY <3>8 DEF Stream, u
  <2>8. CASE n = 2
    BY <2>1, <2>8 DEF StreamAt
  <2> QED
    BY <2>6, <2>7, <2>8
<1> QED
  BY <1>3, <1>4

\* The data a request has queued, before the first packet.
LEMMA StreamFilled ==
  ASSUME Shape, host.request \in RequestSet, host.request.kind = "get",
         host.got = << >>, host.toggle = 1, ep.tx_last = 1 - tx_odd
  PROVE  Stream(Filled(host.request))
<1> DEFINE t == Filled(host.request)
<1>1. /\ t.bdt = [b \in Banks |-> Cleared] /\ t.ep.pending = DataOf(host.request)
      /\ t.ep.data0 = 1 /\ t.ep.tx_next = 1 - ep.tx_last
  BY TransmitParts, FilledEffect
<1> HIDE DEF t
<1>2. /\ EP0_BUFSIZE \in Nat /\ EP0_BUFSIZE > 0 /\ tx_odd \in {0, 1}
      /\ host.request.len \in Nat /\ host.request.len > 0
  BY DataParts DEF RequestSet
<1>3. Got = 0
  BY <1>2 DEF Got
<1>4. Place(0) = 0
  <2>1. MinOf(0 + 0 * EP0_BUFSIZE, host.request.len) = 0
    BY <1>2 DEF MinOf
  <2> QED
    BY <1>3, <2>1 DEF Place
<1>5. \A b \in Banks : ~t.bdt[b].own
  BY <1>1 DEF Cleared, Finished
<1>6. ~t.bdt[tx_odd].own /\ ~t.bdt[1 - tx_odd].own
  BY <1>2, <1>5 DEF Banks
<1>7. t.ep.tx_next = tx_odd
  BY <1>1, <1>2
<1>8. /\ t.ep.pending.id = host.request.id /\ t.ep.pending.from = 0
      /\ t.ep.pending.len = host.request.len - 0
  BY <1>1, <1>2 DEF DataOf
<1>9. StreamAt(t, 0)
  BY <1>1, <1>2, <1>3, <1>4, <1>6, <1>7, <1>8 DEF StreamAt
<1> QED
  BY <1>9 DEF Stream, t

LEMMA SameNext ==
  ASSUME NEW i \in Nat, NEW j \in Nat, i + 1 = j + 1
  PROVE  i = j
OBVIOUS

LEMMA OnlyOne ==
  ASSUME NEW d, NEW s, s = Append(<< >>, d)
  PROVE  \A k \in DOMAIN s : s[k] = d
<1>1. << >> \in Seq({d})
  OBVIOUS
<1>2. s \in Seq({d}) /\ Len(s) = 1 /\ s[1] = d
  BY <1>1, AppendProperties
<1> QED
  BY <1>2

LEMMA StreamSame ==
  ASSUME UNCHANGED <<host, tx_odd>>, NEW t, Transmit' = t, Stream(t)
  PROVE  Stream(Transmit)'
<1>1. PICK n \in 0 .. 2 : StreamAt(t, n)
  BY DEF Stream
<1>2. Got' = Got /\ Place(n)' = Place(n)
  BY DEF Place, Got
<1>3. StreamAt(Transmit, n)'
  BY <1>1, <1>2 DEF StreamAt, Carries
<1> QED
  BY <1>3 DEF Stream

\* The handler's steps at a token but for SETUP.
LEMMA HandlerSent ==
  ASSUME Shape, SetupInv, AtFirst, ~TokenSetup
  PROVE  /\ busy' = busy /\ (Streaming' <=> Streaming) /\ Unhandled' \subseteq Unhandled
         /\ Sent' \subseteq Sent /\ Sent \ {1} \subseteq Sent'
         /\ ~stat[1].tx => Sent' = Sent
         /\ TokenIn \/ usb_tx_handler => Sent' = Sent
         /\ ~(TokenIn \/ usb_tx_handler) => Sent' = Sent \ {1}
         /\ usb_tx_handler \/ TokenInDone => 1 \in Sent
<1>1. /\ UNCHANGED <<stat, host>> /\ busy' = busy
      /\ Unhandled = DOMAIN stat /\ 1 \in DOMAIN stat
      /\ ~(TokenIn \/ usb_tx_handler) => Unhandled' = Unhandled \ {1}
      /\ TokenIn \/ usb_tx_handler => Unhandled' = Unhandled
      /\ TokenIn \/ usb_tx_handler \/ TokenInDone => stat[1].tx
  BY HandlerQueue
<1>2. Streaming' <=> Streaming
  BY <1>1 DEF Streaming
<1> QED
  BY <1>1, <1>2 DEF Sent

LEMMA LastHandler ==
  ASSUME Shape, SetupInv, LastInv, PendingInv, StreamInv, AtFirst, ~TokenSetup
  PROVE  LastInv'
<1>1. /\ UNCHANGED <<stat, host, tx_odd, queued>>
      /\ Unhandled = DOMAIN stat /\ 1 \in Unhandled /\ Head(stat) = stat[1]
  BY HandlerQueue
<1>2. /\ (Streaming' <=> Streaming) /\ Unhandled' \subseteq Unhandled /\ Sent' \subseteq Sent
      /\ Sent \ {1} \subseteq Sent'
  BY HandlerSent
<1>3. tx_odd \in {0, 1} /\ \A i \in Unhandled : i \in Nat
  BY QueueParts DEF Shape, QueueShape, Banks
<1>4. ~(Streaming /\ queued) => LastKnown'
  <2> SUFFICES ASSUME ~(Streaming /\ queued)
               PROVE  LastKnown'
    OBVIOUS
  <2>1. LastKnown
    BY DEF LastInv
  <2>2. ASSUME Sent = {}, ep'.tx_last = ep.tx_last
        PROVE  LastKnown'
    BY <1>1, <1>2, <2>1, <2>2 DEF LastKnown
  <2>3. ASSUME NEW i \in Sent, LastAt(i), i \in Sent', bdt_tx' = bdt_tx, i = 1 => pc' = "in"
        PROVE  LastKnown'
    <3>1. LastAt(i)'
      BY <1>1, <1>2, <2>3 DEF LastAt
    <3> QED
      BY <2>3, <3>1 DEF LastKnown
  <2>4. CASE TokenIn
    <3>1. Sent' = Sent /\ UNCHANGED <<ep, bdt_tx>> /\ pc' = "in"
      BY <2>4, HandlerSent DEF TokenIn, driver
    <3> QED
      BY <2>1, <2>2, <2>3, <3>1 DEF LastKnown
  <2>5. CASE usb_tx_handler
    <3>1. Sent' = Sent /\ 1 \in Sent /\ pc = "in" /\ pc' = "in" /\ MoreToSend(Transmit)
      BY <2>5, HandlerSent, HandlerQueue DEF usb_tx_handler
    <3>2. ep.pending.len > 0
      BY <3>1, TransmitParts DEF MoreToSend
    <3>3. \A i \in Sent : i = 1
      <4>1. CASE ~Streaming
        BY <3>1, <3>2, <4>1 DEF PendingInv
      <4>2. CASE Streaming
        <5>1. Len(stat) <= 1 /\ Len(stat) \in Nat /\ DOMAIN stat = 1 .. Len(stat)
          BY <4>2, QueueParts DEF LastInv
        <5>2. \A i \in DOMAIN stat : i = 1
          BY <5>1
        <5> QED
          BY <1>1, <5>2 DEF Sent
      <4> QED
        BY <4>1, <4>2
    <3>4. LastAt(1)
      BY <2>1, <3>1, <3>3 DEF LastKnown
    <3>5. LastAt(1)'
      BY <1>1, <3>1, <3>4 DEF LastAt
    <3> QED
      BY <3>1, <3>5 DEF LastKnown
  <2>6. CASE TokenInDone
    <3>1. /\ Sent' = Sent \ {1} /\ 1 \in Sent /\ bdt_tx' = bdt_tx
          /\ ep'.tx_last = stat[1].bank
      <4>1. ep' = [ep EXCEPT !.tx_last = stat[1].bank] /\ bdt_tx' = bdt_tx
        BY <1>1, <2>6 DEF TokenInDone
      <4>2. ep'.tx_last = stat[1].bank
        BY <4>1, TransmitParts, HeadToken, <1>1, EndpointLast
      <4> QED
        BY <2>6, <4>1, <4>2, HandlerSent, HandlerQueue DEF TokenIn, usb_tx_handler, AtToken,
             TokenInDone
    <3>2. PICK i \in Sent : LastAt(i)
      BY <2>1, <3>1 DEF LastKnown
    <3>3. CASE i = 1
      <4>1. \A j \in Sent : j = 1
        <5>1. \A j \in Sent : j <= 1 /\ j \in 1 .. Len(stat) /\ Len(stat) \in Nat
          BY <1>1, <3>2, <3>3, QueueParts DEF LastAt, Sent
        <5> QED
          BY <5>1
      <4>2. Sent' = {}
        BY <3>1, <4>1
      <4>3. ep'.tx_last = 1 - tx_odd'
        BY <1>1, <3>1, <3>2, <3>3 DEF LastAt
      <4> QED
        BY <4>2, <4>3 DEF LastKnown
    <3>4. CASE i # 1
      BY <2>3, <3>1, <3>2, <3>4
    <3> QED
      BY <3>3, <3>4
  <2>7. CASE TokenSkipped
    <3>1. /\ Descriptor.pid = "none" /\ UNCHANGED <<ep, bdt_tx>> /\ pc # "in"
      BY <2>7 DEF TokenSkipped, driver, AtToken
    <3>2. CASE Sent = {}
      BY <2>2, <3>1, <3>2
    <3>3. CASE Sent # {}
      <4>1. PICK i \in Sent : LastAt(i)
        BY <2>1, <3>3 DEF LastKnown
      <4>2. i # 1
        <5>1. SUFFICES ASSUME i = 1 PROVE FALSE
          OBVIOUS
        <5>2. stat[1].tx /\ stat[1].bank = 1 - tx_odd /\ bdt_tx[1 - tx_odd].pid = "IN"
          BY <3>1, <4>1, <5>1 DEF LastAt, Sent
        <5> QED
          BY <1>1, <3>1, <5>2 DEF Descriptor
      <4> QED
        BY <1>2, <2>3, <3>1, <4>1, <4>2
    <3> QED
      BY <3>2, <3>3
  <2>8. CASE TokenOut
    <3>1. ~stat[1].tx
      BY <2>8, HandlerQueue
    <3>2. Sent = {}
      <4>1. \A j \in Unhandled : 1 < j => ~stat[j].tx
        BY <1>1, <3>1 DEF LastInv
      <4>2. \A j \in Unhandled : j = 1 \/ 1 < j
        BY <1>1, QueueParts
      <4> QED
        BY <3>1, <4>1, <4>2 DEF Sent
    <3>3. ep'.tx_last = ep.tx_last
      BY <2>8, OutEffect DEF TokenOut
    <3> QED
      BY <2>2, <3>2, <3>3
  <2> QED
    BY <2>4, <2>5, <2>6, <2>7, <2>8 DEF AtFirst
<1> QED
  BY <1>1, <1>2, <1>4 DEF LastInv

LEMMA PendingHandler ==
  ASSUME Shape, SetupInv, PendingInv, AtFirst, ~TokenSetup
  PROVE  PendingInv'
<1>1. (Streaming' <=> Streaming) /\ Sent' \subseteq Sent
  BY HandlerSent
<1>2. ep'.pending.len > 0 => ep.pending.len > 0
  <2>1. CASE TokenIn \/ TokenSkipped
    BY <2>1 DEF TokenIn, TokenSkipped, driver
  <2>2. CASE usb_tx_handler
    <3>1. ep' = QueueNext(Transmit).ep
      BY <2>2 DEF usb_tx_handler, Becomes
    <3> QED
      BY <3>1, TransmitParts, QueueEffect
  <2>3. CASE TokenInDone
    <3>1. ep' = [ep EXCEPT !.tx_last = stat[1].bank] /\ stat # << >>
      BY <2>3, HandlerQueue DEF TokenInDone
    <3> QED
      BY <3>1, TransmitParts, HeadToken, EndpointLast
  <2>4. CASE TokenOut
    BY <2>4, OutEffect DEF TokenOut
  <2> QED
    BY <2>1, <2>2, <2>3, <2>4 DEF AtFirst
<1> QED
  BY <1>1, <1>2 DEF PendingInv

LEMMA StreamHandler ==
  ASSUME Shape, SetupInv, StreamInv, AtFirst, ~TokenSetup
  PROVE  StreamInv'
<1>1. /\ UNCHANGED <<stat, host, tx_odd>> /\ 1 \in Unhandled /\ stat # << >>
      /\ Head(stat) = stat[1] /\ TokenOut => ~stat[1].tx
  BY HandlerQueue
<1>2. (Streaming' <=> Streaming) /\ Unhandled' \subseteq Unhandled
  BY HandlerSent
<1> SUFFICES ASSUME Streaming
             PROVE  Stream(Transmit)'
  BY <1>1, <1>2 DEF StreamInv
<1>3. Stream(Transmit) /\ stat[1].tx
  BY <1>1 DEF StreamInv
<1>4. CASE TokenIn \/ TokenSkipped
  <2>1. Transmit' = Transmit
    BY <1>4 DEF TokenIn, TokenSkipped, driver, Transmit
  <2> QED
    BY <1>1, <1>3, <2>1, StreamSame
<1>5. CASE usb_tx_handler
  <2>1. ep' = QueueNext(Transmit).ep /\ bdt_tx' = QueueNext(Transmit).bdt
    BY <1>5 DEF usb_tx_handler, Becomes
  <2>2. QueueNext(Transmit) \in Transmitters
    BY TransmitParts, QueueEffect
  <2>3. Transmit' = QueueNext(Transmit)
    BY <2>1, <2>2, TransmitterParts DEF Transmit
  <2>4. Stream(QueueNext(Transmit))
    BY <1>3, TransmitParts, StreamQueue
  <2> QED
    BY <1>1, <2>3, <2>4, StreamSame
<1>6. CASE TokenInDone
  <2>1. ep' = [ep EXCEPT !.tx_last = stat[1].bank] /\ bdt_tx' = bdt_tx
    BY <1>1, <1>6 DEF TokenInDone
  <2>2. /\ ep'.pending = ep.pending /\ ep'.data0 = ep.data0 /\ ep'.tx_next = ep.tx_next
    BY <1>1, <2>1, TransmitParts, HeadToken, EndpointLast
  <2>3. PICK n \in 0 .. 2 : StreamAt(Transmit, n)
    BY <1>3 DEF Stream
  <2>4. Got' = Got /\ Place(n)' = Place(n)
    BY <1>1 DEF Place, Got
  <2>5. StreamAt(Transmit, n)'
    BY <1>1, <2>1, <2>2, <2>3, <2>4 DEF StreamAt, Carries, Transmit
  <2> QED
    BY <2>5 DEF Stream
<1> QED
  BY <1>1, <1>3, <1>4, <1>5, <1>6 DEF AtFirst

LEMMA StatusHandler ==
  ASSUME Shape, SetupInv, StatusInv, AtFirst, ~TokenSetup
  PROVE  StatusInv'
<1>1. /\ UNCHANGED <<stat, host, tx_odd>> /\ 1 \in Unhandled
      /\ ~(TokenIn \/ usb_tx_handler) => Unhandled' = Unhandled \ {1}
      /\ TokenIn \/ usb_tx_handler \/ TokenInDone => stat[1].tx
  BY HandlerQueue
<1>2. busy' = busy /\ Sent' \subseteq Sent
  BY HandlerSent
<1> SUFFICES ASSUME host.phase \in {"data out", "status in"}, ~busy
             PROVE  StatusInv'
  BY <1>1, <1>2 DEF StatusInv
<1>3. /\ host.got = << >> /\ host.toggle = 1 /\ Sent = {} /\ host.phase # "data out"
      /\ ep.data0 = 1 /\ \A b \in Banks : ~bdt_tx[b].own
      /\ \A i, j \in Unhandled : i = j
  BY <1>1 DEF StatusInv
<1>4. ~(TokenIn \/ usb_tx_handler \/ TokenInDone)
  BY <1>1, <1>3 DEF Sent
<1>5. Unhandled' = {} /\ Sent' = {}
  BY <1>1, <1>2, <1>3, <1>4
<1>6. \A b \in Banks : bdt_tx'[b].own => bdt_tx'[b].toggle = 1 /\ bdt_tx'[b].packet.len = 0
  <2>1. CASE TokenSkipped
    BY <1>3, <2>1 DEF TokenSkipped
  <2>2. CASE TokenOut
    <3>0. NoData.len = 0
      BY DEF NoData
    <3>1. CASE ep.rx_handler
      BY <1>3, <2>2, <3>0, <3>1, OutEffect
    <3>2. CASE ~ep.rx_handler
      BY <1>3, <2>2, <3>2 DEF TokenOut
    <3> QED
      BY <3>1, <3>2
  <2> QED
    BY <1>4, <2>1, <2>2 DEF AtFirst
<1> QED
  BY <1>1, <1>3, <1>5, <1>6 DEF StatusInv

\* SETUP: nothing of an earlier transfer is left in the descriptors or in the queue.
LEMMA DataSetup ==
  ASSUME BaseInv, ~usbrst, LastInv, TokenSetup
  PROVE  LastInv' /\ PendingInv' /\ StreamInv' /\ StatusInv'
<1> DEFINE r == host.request
<1>0. Shape /\ SetupInv /\ PhaseInv
  BY DEF BaseInv
<1>1. /\ r \in RequestSet /\ Len(stat) = 1 /\ Unhandled' = {}
      /\ Becomes(Answer(r)) /\ ~stat[1].tx
      /\ UNCHANGED <<stat, host, tx_odd>> /\ ~busy'
      /\ host.phase = FirstPhase(r) /\ host.got = << >> /\ host.toggle = 1 /\ busy
  BY <1>0, SetupEffect
<1>2. Sent = {}
  <2>1. \A i \in Unhandled : i = 1
    BY <1>0, <1>1, QueueParts
  <2> QED
    BY <1>1, <2>1 DEF Sent
<1>3. ep.tx_last = 1 - tx_odd
  BY <1>1, <1>2 DEF LastInv, LastKnown, Streaming
<1>4. Sent' = {}
  BY <1>1 DEF Sent
<1>5. ep' = Answer(r).ep /\ bdt_tx' = Answer(r).bdt
  BY <1>1 DEF Becomes
<1>6. Transmit \in Transmitters /\ Answer(r) \in Transmitters /\ Answer(r).ep.tx_last = ep.tx_last
  BY <1>0, <1>1, TransmitParts, AnswerEffect
<1>7. LastInv'
  <2>1. LastKnown'
    BY <1>1, <1>3, <1>4, <1>5, <1>6 DEF LastKnown
  <2>2. Len(stat') <= 1
    <3>1. stat' = stat /\ Len(stat) = 1
      BY <1>1
    <3> QED
      BY <3>1
  <2> QED
    BY <1>1, <2>1, <2>2 DEF LastInv
<1>8. PendingInv'
  BY <1>4 DEF PendingInv
<1>9. StreamInv'
  <2> SUFFICES ASSUME Streaming'
               PROVE  Stream(Transmit)'
    BY <1>1 DEF StreamInv
  <2>1. r.kind = "get"
    BY <1>0, <1>1 DEF Streaming, PhaseInv
  <2>2. Stream(Filled(r)) /\ Filled(r) \in Transmitters
    BY <1>0, <1>1, <1>3, <1>6, <2>1, StreamFilled, FilledEffect
  <2>3. Stream(QueueNext(Filled(r))) /\ QueueNext(Filled(r)) \in Transmitters
    BY <1>0, <2>2, StreamQueue, QueueEffect
  <2>4. Stream(QueueNext(QueueNext(Filled(r))))
    BY <1>0, <2>3, StreamQueue
  <2>5. Stream(Answer(r))
    <3>1. Answer(r) = QueueNext(QueueNext(Filled(r)))
      BY <1>1, <1>6, <2>1, AnswerEffect
    <3> QED
      BY <2>4, <3>1
  <2>6. Transmit' = Answer(r)
    BY <1>5, <1>6, TransmitterParts DEF Transmit
  <2> QED
    BY <1>1, <2>5, <2>6, StreamSame
<1>10. StatusInv'
  <2> SUFFICES ASSUME host.phase \in {"data out", "status in"}
               PROVE  StatusInv'
    BY <1>1 DEF StatusInv
  <2>1. r.kind # "get" /\ (host.phase = "data out" => r.kind = "line coding")
    BY <1>0 DEF PhaseInv
  <2>2. \A b \in Banks : bdt_tx'[b].own => bdt_tx'[b].toggle = 1 /\ bdt_tx'[b].packet.len = 0
    <3>1. \A b \in Banks :
            Answer(r).bdt[b].own => /\ Answer(r).bdt[b].toggle = 1
                                    /\ Answer(r).bdt[b].packet = NoData
      BY <1>1, <1>6, <2>1, AnswerEffect
    <3>2. NoData.len = 0
      BY DEF NoData
    <3> QED
      BY <1>5, <3>1, <3>2
  <2>3. host.phase = "data out" => ep'.data0 = 1 /\ \A b \in Banks : ~bdt_tx'[b].own
    <3>1. r.kind = "line coding" =>
            Answer(r).ep.data0 = 1 /\ \A b \in Banks : ~Answer(r).bdt[b].own
      BY <1>1, <1>6, AnswerEffect
    <3> QED
      BY <1>5, <2>1, <3>1
  <2> QED
    BY <1>1, <1>4, <2>2, <2>3 DEF StatusInv
<1> QED
  BY <1>7, <1>8, <1>9, <1>10

LEMMA DataDone ==
  ASSUME Shape, LastInv, PendingInv, StreamInv, StatusInv, TokenDone
  PROVE  LastInv' /\ PendingInv' /\ StreamInv' /\ StatusInv'
<1>1. /\ UNCHANGED <<ep, bdt_tx, tx_odd, host, busy, queued>> /\ pc = "end"
  BY DEF TokenDone, driver
<1>2. /\ Len(stat) \in Nat /\ Len(stat') = Len(stat) - 1 /\ Unhandled' = DOMAIN stat'
      /\ \A i \in DOMAIN stat' : i \in Nat /\ i + 1 \in Unhandled /\ stat'[i] = stat[i + 1]
      /\ \A i \in Unhandled : i - 1 \in DOMAIN stat' /\ stat'[i - 1] = stat[i] /\ i \in Nat
  BY QueueParts, PopToken
<1>3. /\ \A i \in Unhandled' : i \in Nat /\ i + 1 \in Unhandled /\ stat'[i] = stat[i + 1]
      /\ \A i \in Unhandled : i - 1 \in Unhandled' /\ stat'[i - 1] = stat[i] /\ i \in Nat
  BY <1>2
<1>4. /\ \A i \in Sent' : i \in Nat /\ i + 1 \in Sent
      /\ \A i \in Sent : i - 1 \in Sent' /\ i \in Nat
  BY <1>3 DEF Sent
<1>5. Streaming' <=> Streaming
  BY <1>1 DEF Streaming
<1>6. LastInv'
  <2>1. \A i, j \in Unhandled' : ~stat'[i].tx /\ i < j => ~stat'[j].tx
    <3> SUFFICES ASSUME NEW i \in Unhandled', NEW j \in Unhandled', ~stat'[i].tx, i < j
                 PROVE  ~stat'[j].tx
      OBVIOUS
    <3>1. /\ i + 1 \in Unhandled /\ j + 1 \in Unhandled /\ i + 1 < j + 1
          /\ stat'[i] = stat[i + 1] /\ stat'[j] = stat[j + 1]
      BY <1>3
    <3> QED
      BY <3>1 DEF LastInv
  <2>2. Streaming /\ ~queued => Len(stat') <= 1
    BY <1>2 DEF LastInv
  <2>3. LastKnown => LastKnown'
    <3> SUFFICES ASSUME LastKnown
                 PROVE  LastKnown'
      OBVIOUS
    <3>1. CASE Sent = {}
      <4>1. Sent' = {}
        BY <1>4, <3>1
      <4> QED
        BY <1>1, <3>1, <4>1 DEF LastKnown
    <3>2. CASE Sent # {}
      <4>1. PICK i \in Sent : LastAt(i)
        BY <3>2 DEF LastKnown
      <4>2. i - 1 \in Sent' /\ stat'[i - 1] = stat[i]
        BY <1>3, <1>4 DEF Sent
      <4>3. \A j \in Sent' : j <= i - 1
        <5>1. \A j \in Sent' : j \in Nat /\ j + 1 <= i
          BY <1>4, <4>1 DEF LastAt
        <5>2. i \in Nat
          BY <1>4
        <5> QED
          BY <5>1, <5>2
      <4>4. bdt_tx[1 - tx_odd].pid = "IN" /\ stat[i].bank = 1 - tx_odd
        BY <1>1, <4>1 DEF LastAt
      <4>5. LastAt(i - 1)'
        BY <1>1, <4>2, <4>3, <4>4 DEF LastAt
      <4> QED
        BY <4>2, <4>5 DEF LastKnown
    <3> QED
      BY <3>1, <3>2
  <2> QED
    BY <1>1, <1>5, <2>1, <2>2, <2>3 DEF LastInv
<1>7. PendingInv'
  <2> SUFFICES ASSUME ep.pending.len > 0, ~Streaming, NEW i \in Sent', NEW j \in Sent'
               PROVE  i = j
    BY <1>1, <1>5 DEF PendingInv
  <2>1. i + 1 = j + 1
    BY <1>4 DEF PendingInv
  <2> QED
    BY <1>4, <2>1
<1>8. StreamInv'
  <2> SUFFICES ASSUME Streaming
               PROVE  Stream(Transmit)' /\ \A i \in Unhandled' : stat'[i].tx
    BY <1>5 DEF StreamInv
  <2>1. Transmit' = Transmit /\ Stream(Transmit)
    BY <1>1 DEF Transmit, StreamInv
  <2>2. Stream(Transmit)'
    BY <1>1, <2>1, StreamSame
  <2> QED
    BY <1>3, <2>2 DEF StreamInv
<1>9. StatusInv'
  <2> SUFFICES ASSUME host.phase \in {"data out", "status in"}, ~busy
               PROVE  StatusInv'
    BY <1>1 DEF StatusInv
  <2>1. Sent' = {}
    BY <1>4 DEF StatusInv
  <2>2. Unhandled' # {} => Unhandled # {}
    BY <1>3
  <2>3. \A i, j \in Unhandled' : i = j
    <3> SUFFICES ASSUME NEW i \in Unhandled', NEW j \in Unhandled'
                 PROVE  i = j
      OBVIOUS
    <3>1. i + 1 = j + 1
      BY <1>3 DEF StatusInv
    <3>2. i \in Nat /\ j \in Nat
      BY <1>3
    <3> QED
      BY <3>1, <3>2, SameNext
  <2> QED
    BY <1>1, <2>1, <2>2, <2>3 DEF StatusInv
<1> QED
  BY <1>6, <1>7, <1>8, <1>9

\* A received packet is queued behind all that was sent.
LEMMA DataReceived ==
  ASSUME Shape, LastInv, PendingInv, UNCHANGED <<ep, bdt_tx, tx_odd, pc>>, Len(stat) < FifoSize,
         stat' = Append(stat, [tx |-> FALSE, bank |-> rx_odd]), ~Streaming',
         Streaming => ~queued
  PROVE  LastInv' /\ PendingInv' /\ Sent' = Sent
<1> DEFINE n == Len(stat) + 1
<1>1. rx_odd \in Banks /\ Len(stat) \in Nat /\ DOMAIN stat = 1 .. Len(stat)
      /\ Unhandled \subseteq DOMAIN stat
  BY QueueParts DEF Shape, QueueShape
<1>2. /\ DOMAIN stat' = DOMAIN stat \cup {n} /\ Unhandled' = Unhandled \cup {n}
      /\ \A i \in DOMAIN stat : stat'[i] = stat[i] /\ i < n
      /\ ~stat'[n].tx
  BY <1>1, PushToken
<1> HIDE DEF n
<1>3. Sent' = Sent
  BY <1>1, <1>2 DEF Sent
<1>4. LastKnown
  BY DEF LastInv
<1>5. LastKnown'
  <2>1. CASE Sent = {}
    BY <1>3, <1>4, <2>1 DEF LastKnown
  <2>2. CASE Sent # {}
    <3>1. PICK i \in Sent : LastAt(i)
      BY <1>4, <2>2 DEF LastKnown
    <3>2. stat'[i] = stat[i]
      BY <1>1, <1>2 DEF Sent
    <3>3. LastAt(i)'
      BY <1>3, <3>1, <3>2 DEF LastAt
    <3> QED
      BY <1>3, <3>3 DEF LastKnown
  <2> QED
    BY <2>1, <2>2
<1>6. \A i, j \in Unhandled' : ~stat'[i].tx /\ i < j => ~stat'[j].tx
  <2> SUFFICES ASSUME NEW i \in Unhandled', NEW j \in Unhandled', ~stat'[i].tx, i < j, j # n
               PROVE  ~stat'[j].tx
    BY <1>2
  <2>1. j \in Unhandled /\ j < n
    BY <1>1, <1>2
  <2>2. i # n
    BY <1>1, <2>1 DEF n
  <2>3. i \in Unhandled /\ stat'[i] = stat[i] /\ stat'[j] = stat[j]
    BY <1>1, <1>2, <2>1, <2>2
  <2> QED
    BY <2>1, <2>3 DEF LastInv
<1>7. PendingInv'
  <2> SUFFICES ASSUME ep.pending.len > 0, NEW i \in Sent, NEW j \in Sent
               PROVE  i = j
    BY <1>3 DEF PendingInv
  <2>1. CASE ~Streaming
    BY <2>1 DEF PendingInv
  <2>2. CASE Streaming
    <3>1. Len(stat) <= 1
      BY <2>2 DEF LastInv
    <3>2. i \in 1 .. Len(stat) /\ j \in 1 .. Len(stat)
      BY <1>1 DEF Sent
    <3> QED
      BY <1>1, <3>1, <3>2
  <2> QED
    BY <2>1, <2>2
<1> QED
  BY <1>3, <1>5, <1>6, <1>7 DEF LastInv

LEMMA DataNewTransfer ==
  ASSUME Patient, BaseInv, ~usbrst, LastInv, PendingInv, HostSetup
  PROVE  LastInv' /\ PendingInv' /\ StreamInv' /\ StatusInv' /\ DataInOrder'
<1>0. Shape
  BY DEF BaseInv
<1>1. /\ UNCHANGED <<ep, bdt_tx, tx_odd, pc>> /\ busy' /\ host'.got = << >>
      /\ stat' = Append(stat, [tx |-> FALSE, bank |-> rx_odd]) /\ Len(stat) < FifoSize
      /\ host.phase # "none" => ~queued
  BY <1>0 DEF HostSetup, driver, ReceivePacket, Reachable, Shape, HostShape, Hosts
<1>2. ~Streaming' /\ (Streaming => ~queued)
  BY <1>1 DEF Streaming
<1>3. LastInv' /\ PendingInv'
  BY <1>0, <1>1, <1>2, DataReceived
<1> QED
  BY <1>1, <1>2, <1>3 DEF StreamInv, StatusInv, DataInOrder

LEMMA DataStatus ==
  ASSUME BaseInv, LastInv, PendingInv, StatusInv, HostOut
  PROVE  LastInv' /\ PendingInv' /\ StreamInv' /\ StatusInv' /\ DataInOrder'
<1>0. Shape /\ host \in Hosts
  BY DEF BaseInv, Shape, HostShape
<1>1. /\ UNCHANGED <<ep, bdt_tx, tx_odd, pc, busy>> /\ ~busy /\ host'.got = << >>
      /\ stat' = Append(stat, [tx |-> FALSE, bank |-> rx_odd]) /\ Len(stat) < FifoSize
      /\ host.phase \in {"status out", "data out"} /\ host'.toggle = host.toggle
      /\ host'.phase = (IF host.phase = "data out" THEN "status in" ELSE "none")
  BY <1>0 DEF HostOut, Token, driver, ReceivePacket, Reachable, Hosts
<1>2. ~Streaming /\ ~Streaming'
  BY <1>1 DEF Streaming
<1>3. LastInv' /\ PendingInv' /\ Sent' = Sent
  BY <1>0, <1>1, <1>2, DataReceived
<1>4. StatusInv'
  <2> SUFFICES ASSUME host.phase = "data out"
               PROVE  StatusInv'
    BY <1>1 DEF StatusInv
  <2>1. /\ host.got = << >> /\ host.toggle = 1 /\ Sent = {} /\ Unhandled = {}
        /\ ep.data0 = 1 /\ \A b \in Banks : ~bdt_tx[b].own
    BY <1>1 DEF StatusInv
  <2>2. Unhandled' = {Len(stat) + 1}
    <3>1. rx_odd \in Banks
      BY <1>0 DEF Shape, QueueShape
    <3>2. Unhandled' = Unhandled \cup {Len(stat) + 1}
      BY <1>0, <1>1, <3>1, PushToken
    <3> QED
      BY <2>1, <3>2
  <2>3. \A b \in Banks : ~bdt_tx'[b].own
    BY <1>1, <2>1
  <2> QED
    BY <1>1, <1>3, <2>1, <2>2, <2>3 DEF StatusInv
<1>5. DataInOrder'
  <2>1. DOMAIN << >> = {}
    OBVIOUS
  <2>2. host'.got = << >>
    BY <1>1
  <2>3. DOMAIN host'.got = {}
    BY <2>1, <2>2, Zenon
  <2> QED
    BY <2>3 DEF DataInOrder
<1> QED
  BY <1>2, <1>3, <1>4, <1>5 DEF StreamInv

\* The controller sends the packet in its next descriptor.
LEMMA SentEffect ==
  ASSUME Shape, HostIn
  PROVE  /\ UNCHANGED <<ep, pc, busy, usbrst>> /\ ~busy /\ ~usbrst
         /\ bdt_tx[tx_odd].own /\ tx_odd' = 1 - tx_odd /\ tx_odd \in {0, 1}
         /\ ~bdt_tx'[tx_odd].own /\ bdt_tx'[tx_odd].pid = "IN"
         /\ bdt_tx'[1 - tx_odd] = bdt_tx[1 - tx_odd]
         /\ host.phase \in {"data in", "status in"}
         /\ (~queued' => stat = << >>)
         /\ Unhandled' = Unhandled \cup {Len(stat) + 1} /\ Len(stat') = Len(stat) + 1
         /\ Sent' = Sent \cup {Len(stat) + 1}
         /\ stat'[Len(stat) + 1].tx /\ stat'[Len(stat) + 1].bank = tx_odd
         /\ \A i \in Unhandled : stat'[i] = stat[i] /\ i < Len(stat) + 1 /\ i \in Nat
<1> DEFINE n == Len(stat) + 1
<1>1. /\ UNCHANGED <<ep, pc, busy, usbrst>> /\ ~busy /\ ~usbrst
      /\ bdt_tx[tx_odd].own /\ tx_odd' = 1 - tx_odd /\ tx_odd \in {0, 1}
      /\ host.phase \in {"data in", "status in"}
      /\ stat' = Append(stat, [tx |-> TRUE, bank |-> tx_odd])
      /\ queued' = (stat # << >> \/ queued)
      /\ bdt_tx' = [bdt_tx EXCEPT ![tx_odd] = Finished("IN", bdt_tx[tx_odd].packet)]
  BY DEF HostIn, Reachable, Token, driver, Shape, QueueShape, Banks
<1>2. bdt_tx \in [{0, 1} -> TransmitDescriptors]
  BY TransmitParts DEF Banks
<1>3. /\ ~bdt_tx'[tx_odd].own /\ bdt_tx'[tx_odd].pid = "IN"
      /\ bdt_tx'[1 - tx_odd] = bdt_tx[1 - tx_odd]
  <2>1. bdt_tx'[tx_odd] = Finished("IN", bdt_tx[tx_odd].packet)
    BY <1>1, <1>2
  <2>2. 1 - tx_odd # tx_odd /\ 1 - tx_odd \in {0, 1}
    <3>1. tx_odd \in {0, 1}
      BY <1>1
    <3> QED
      BY <3>1
  <2> QED
    BY <1>1, <1>2, <2>1, <2>2 DEF Finished
<1>4. /\ Len(stat') = n /\ Unhandled' = Unhandled \cup {n}
      /\ \A i \in DOMAIN stat : stat'[i] = stat[i] /\ i < n
      /\ stat'[n].tx /\ stat'[n].bank = tx_odd
  BY <1>1, PushToken DEF Banks
<1>5. \A i \in Unhandled : stat'[i] = stat[i] /\ i < n /\ i \in Nat
  BY <1>4, QueueParts
<1> HIDE DEF n
<1>6. Sent' = Sent \cup {n}
  BY <1>4, <1>5 DEF Sent
<1> QED
  BY <1>1, <1>3, <1>4, <1>5, <1>6 DEF n

LEMMA SentLast ==
  ASSUME Shape, HostIn, \A i \in Unhandled : stat[i].tx
  PROVE  LastInv'
<1> PICK n : n = Len(stat) + 1
  OBVIOUS
<1>1. /\ tx_odd' = 1 - tx_odd /\ tx_odd \in {0, 1} /\ bdt_tx'[tx_odd].pid = "IN"
      /\ (~queued' => stat = << >>)
      /\ Unhandled' = Unhandled \cup {n} /\ Sent' = Sent \cup {n} /\ Len(stat') = n
      /\ stat'[n].tx /\ stat'[n].bank = tx_odd
      /\ \A i \in Unhandled : stat'[i] = stat[i] /\ i < n /\ i \in Nat
  BY SentEffect
<1>2. n \in Nat
  BY QueueParts
<1>3. stat = << >> => n <= 1
  <2>1. stat = << >> => n = 1
    OBVIOUS
  <2> QED
    BY <2>1
<1>4. \A i \in Unhandled' : stat'[i].tx
  BY <1>1
<1>5. \A j \in Sent' : j <= n
  BY <1>1, <1>2 DEF Sent
<1>6. 1 - tx_odd' = tx_odd
  BY <1>1
<1>7. LastAt(n)'
  <2>1. bdt_tx'[1 - tx_odd'].pid = "IN" /\ stat'[n].bank = 1 - tx_odd'
    BY <1>1, <1>6
  <2> QED
    BY <1>5, <2>1 DEF LastAt
<1>8. LastKnown'
  BY <1>1, <1>7 DEF LastKnown
<1> QED
  BY <1>1, <1>3, <1>4, <1>8 DEF LastInv

\* The empty packet of a status phase.
LEMMA DataAcknowledged ==
  ASSUME BaseInv, StatusInv, DataInOrder, HostIn, ~Streaming
  PROVE  LastInv' /\ PendingInv' /\ StreamInv' /\ StatusInv' /\ DataInOrder'
<1> DEFINE d == bdt_tx[tx_odd]
<1>0. Shape /\ tx_odd \in Banks /\ host.phase = "status in" /\ host.request.kind # "get"
  <2>1. Shape /\ PhaseInv
    BY DEF BaseInv
  <2>2. host.phase = "status in"
    BY <2>1, SentEffect DEF Streaming
  <2> QED
    BY <2>1, <2>2 DEF PhaseInv, Shape, QueueShape
<1>1. /\ d.own /\ ~busy /\ Sent' = Sent \cup {Len(stat) + 1}
  BY <1>0, SentEffect
<1>2. /\ host.got = << >> /\ host.toggle = 1 /\ Sent = {} /\ d.toggle = 1 /\ d.packet.len = 0
      /\ Unhandled = {}
  BY <1>0, <1>1 DEF StatusInv
<1>3. LastInv'
  BY <1>0, <1>2, SentLast
<1>4. PendingInv'
  BY <1>1, <1>2 DEF PendingInv
<1>5. /\ host'.phase = "none" /\ host'.got = Append(host.got, d.packet)
      /\ host'.request = host.request
  BY <1>0, <1>2, AcceptEffect
<1>6. DataInOrder'
  <2>1. host'.got = Append(<< >>, d.packet)
    BY <1>2, <1>5, Zenon
  <2>2. \A k \in DOMAIN host'.got : host'.got[k] = d.packet
    BY <2>1, OnlyOne
  <2> QED
    BY <1>0, <1>2, <1>5, <2>2 DEF DataInOrder
<1> QED
  BY <1>3, <1>4, <1>5, <1>6 DEF StreamInv, Streaming, StatusInv

\* The arithmetic of one packet less: g bytes are behind, q fit in a packet, l in all.
LEMMA PlaceMoves ==
  ASSUME NEW g \in Nat, NEW l \in Nat, NEW q \in Nat, q > 0, g < l
  PROVE  /\ MinOf(g + 1 * q, l) = MinOf((g + q) + 0 * q, l)
         /\ MinOf(g + 2 * q, l) = MinOf((g + q) + 1 * q, l)
         /\ MinOf(l - g, q) < q \/ g + q >= l => MinOf(g + 1 * q, l) = l
         /\ MinOf(l - g, q) < q \/ g + q >= l => ~(g + q < l)
BY DEF MinOf

\* A packet of the data: the host takes it, and the next one is under way or is to come.
LEMMA DataTaken ==
  ASSUME BaseInv, StreamInv, DataInOrder, HostIn, Streaming
  PROVE  LastInv' /\ PendingInv' /\ StreamInv' /\ StatusInv' /\ DataInOrder'
<1> DEFINE d == bdt_tx[tx_odd]
           p == d.packet
           q == EP0_BUFSIZE
           l == host.request.len
           g == Got
<1>0. Shape /\ host.phase = "data in" /\ host.request.kind = "get" /\ tx_odd \in Banks
  BY DEF BaseInv, PhaseInv, Shape, QueueShape, Streaming
<1>1. /\ d.own /\ UNCHANGED <<ep, busy>> /\ ~busy /\ tx_odd' = 1 - tx_odd
      /\ tx_odd \in {0, 1} /\ ~bdt_tx'[tx_odd].own
      /\ bdt_tx'[1 - tx_odd] = bdt_tx[1 - tx_odd]
      /\ Unhandled' = Unhandled \cup {Len(stat) + 1}
      /\ stat'[Len(stat) + 1].tx /\ \A i \in Unhandled : stat'[i] = stat[i]
  BY <1>0, SentEffect
<1>2. Stream(Transmit) /\ \A i \in Unhandled : stat[i].tx
  BY DEF StreamInv
<1>3. LastInv'
  BY <1>0, <1>2, SentLast
<1>4. \A i \in Unhandled' : stat'[i].tx
  BY <1>1, <1>2
<1>5. PICK n \in 0 .. 2 : StreamAt(Transmit, n)
  BY <1>2 DEF Stream
<1>6. /\ g < l /\ n > 0 /\ (bdt_tx[1 - tx_odd].own <=> n = 2) /\ (n = 2 => g + q < l)
      /\ ep.tx_next = (IF n = 1 THEN 1 - tx_odd ELSE tx_odd)
      /\ ep.data0 = (IF n = 1 THEN 1 - host.toggle ELSE host.toggle)
      /\ ep.pending.id = host.request.id /\ ep.pending.from = Place(n)
      /\ ep.pending.len = l - Place(n)
      /\ d.toggle = host.toggle /\ p.id = host.request.id /\ p.from = g /\ p.len = MinOf(l - g, q)
      /\ n = 2 => Carries(bdt_tx[1 - tx_odd], 1 - host.toggle, g + q)
  BY <1>1, <1>5, TransmitParts, <1>0 DEF StreamAt, Carries
<1>7. /\ host'.got = Append(host.got, p) /\ p \in DataSet
      /\ host'.toggle = 1 - host.toggle /\ host'.request = host.request
      /\ host'.phase = (IF p.len < q \/ Len(host'.got) * q >= l THEN "status out" ELSE "data in")
  BY <1>0, <1>6, AcceptEffect
<1>8. /\ g \in Nat /\ l \in Nat /\ q \in Nat /\ q > 0 /\ host.toggle \in {0, 1}
      /\ host.got \in Seq(DataSet) /\ Len(host.got) \in Nat /\ g = Len(host.got) * q
  <2>1. host.got \in Seq(DataSet) /\ Len(host.got) \in Nat
    <3>1. host.got \in Seq(DataSet)
      BY <1>0, HostParts
    <3> QED
      BY <3>1, LenProperties
  <2>2. g = Len(host.got) * q
    BY DEF Got
  <2> QED
    BY <1>0, <2>1, <2>2, DataParts
<1> HIDE DEF p, q, l, g, d
<1>9. /\ host'.got \in Seq(DataSet) /\ Len(host'.got) = Len(host.got) + 1
      /\ \A k \in 1 .. Len(host.got) : host'.got[k] = host.got[k]
      /\ host'.got[Len(host.got) + 1] = p
  <2>1. host.got \in Seq(DataSet) /\ p \in DataSet /\ host'.got = Append(host.got, p)
    BY <1>7, <1>8
  <2> QED
    BY <2>1, AppendProperties
<1>10. Len(host'.got) * q = g + q
  <2>1. \A k, m \in Nat : (k + 1) * m = k * m + m
    OBVIOUS
  <2> QED
    BY <1>8, <1>9, <2>1
<1>11. DataInOrder'
  <2> SUFFICES ASSUME NEW k \in DOMAIN host'.got
               PROVE  host'.got[k].id = host.request.id /\ host'.got[k].from = (k - 1) * q
    BY <1>0, <1>7 DEF DataInOrder, q
  <2>1. CASE k \in DOMAIN host.got
    <3>1. host'.got[k] = host.got[k]
      BY <1>8, <1>9, <2>1
    <3> QED
      BY <1>0, <2>1, <3>1 DEF DataInOrder, q
  <2>2. CASE k \notin DOMAIN host.got
    <3>1. k = Len(host.got) + 1
      BY <1>8, <1>9, <2>2
    <3>2. k - 1 = Len(host.got)
      BY <1>8, <3>1
    <3> QED
      BY <1>6, <1>8, <1>9, <3>1, <3>2
  <2> QED
    BY <2>1, <2>2
<1>12. CASE p.len < q \/ g + q >= l
  <2>1. host'.phase = "status out"
    BY <1>7, <1>10, <1>12
  <2>2. MinOf(g + 1 * q, l) = l /\ ~(g + q < l)
    <3>1. g \in Nat /\ l \in Nat /\ q \in Nat /\ q > 0 /\ g < l
      BY <1>6, <1>8
    <3>2. MinOf(l - g, q) < q \/ g + q >= l
      BY <1>6, <1>12
    <3> QED
      BY <3>1, <3>2, PlaceMoves
  <2>3. n = 1
    BY <1>6, <2>2
  <2>4. Place(n) = l
    BY <2>2, <2>3 DEF Place, g, q, l
  <2>5. ep.pending.len = 0
    BY <1>6, <1>8, <2>4
  <2>6. PendingInv'
    BY <1>1, <2>5 DEF PendingInv
  <2> QED
    BY <1>3, <1>11, <2>1, <2>6 DEF StreamInv, Streaming, StatusInv
<1>13. CASE ~(p.len < q) /\ ~(g + q >= l)
  <2>1. host'.phase = "data in" /\ Streaming'
    BY <1>1, <1>7, <1>10, <1>13 DEF Streaming
  <2>2. Got' = g + q /\ g + q < l
    <3>1. Got' = g + q
      BY <1>10 DEF Got, q
    <3> QED
      BY <1>8, <1>13, <3>1
  <2>3. \A m \in {0, 1} : Place(m)' = MinOf((g + q) + m * q, l)
    BY <1>7, <2>2 DEF Place, q, l
  <2>4. 1 - tx_odd' = tx_odd /\ 1 - host'.toggle = host.toggle
    <3>1. tx_odd' = 1 - tx_odd /\ tx_odd \in {0, 1}
      BY <1>1
    <3>2. host'.toggle = 1 - host.toggle /\ host.toggle \in {0, 1}
      BY <1>7, <1>8
    <3>3. \A b \in {0, 1} : 1 - (1 - b) = b
      OBVIOUS
    <3> QED
      BY <3>1, <3>2, <3>3
  <2>5. CASE n = 1
    <3>1. Place(n) = MinOf(g + 1 * q, l)
      BY <2>5 DEF Place, g, q, l
    <3>2. Place(0)' = Place(n)
      BY <1>6, <1>8, <2>3, <3>1, PlaceMoves
    <3>3. /\ ~bdt_tx'[tx_odd'].own /\ ~bdt_tx'[1 - tx_odd'].own
          /\ ep'.tx_next = tx_odd' /\ ep'.data0 = host'.toggle
          /\ ep'.pending.id = host'.request.id /\ ep'.pending.from = Place(0)'
          /\ ep'.pending.len = host'.request.len - Place(0)'
          /\ Got' < host'.request.len
      <4>1. ~bdt_tx'[tx_odd'].own /\ ~bdt_tx'[1 - tx_odd'].own
        BY <1>1, <1>6, <2>4, <2>5
      <4>2. ep'.tx_next = tx_odd' /\ ep'.data0 = host'.toggle
        <5>1. ep' = ep /\ tx_odd' = 1 - tx_odd /\ host'.toggle = 1 - host.toggle
          BY <1>1, <1>7
        <5>2. ep.tx_next = 1 - tx_odd /\ ep.data0 = 1 - host.toggle
          BY <1>6, <2>5
        <5> QED
          BY <2>4, <5>1, <5>2
      <4>3. /\ ep'.pending.id = host'.request.id /\ ep'.pending.from = Place(0)'
            /\ ep'.pending.len = host'.request.len - Place(0)'
        BY <1>1, <1>6, <1>7, <3>2 DEF l
      <4>4. Got' < host'.request.len
        BY <1>7, <2>2 DEF l
      <4> QED
        BY <4>1, <4>2, <4>3, <4>4
    <3>4. StreamAt(Transmit, 0)'
      BY <3>3 DEF StreamAt, Transmit
    <3>5. Stream(Transmit)'
      BY <3>4 DEF Stream
    <3> QED
      BY <1>3, <1>4, <1>11, <2>1, <3>5 DEF StreamInv, PendingInv, StatusInv
  <2>6. CASE n = 2
    <3>1. Place(n) = MinOf(g + 2 * q, l)
      BY <2>6 DEF Place, g, q, l
    <3>2. Place(1)' = Place(n)
      BY <1>6, <1>8, <2>3, <3>1, PlaceMoves
    <3>3. Carries(bdt_tx[1 - tx_odd], 1 - host.toggle, g + q)
      BY <1>6, <2>6
    <3>4. Carries(bdt_tx[tx_odd], host.toggle, Got)'
      BY <1>1, <1>7, <2>2, <3>3 DEF Carries
    <3>5. /\ bdt_tx'[tx_odd'].own /\ ~bdt_tx'[1 - tx_odd'].own
          /\ ep'.tx_next = 1 - tx_odd' /\ ep'.data0 = 1 - host'.toggle
          /\ ep'.pending.id = host'.request.id /\ ep'.pending.from = Place(1)'
          /\ ep'.pending.len = host'.request.len - Place(1)'
          /\ Got' < host'.request.len
      <4>1. bdt_tx'[tx_odd'].own /\ ~bdt_tx'[1 - tx_odd'].own
        BY <1>1, <1>6, <2>4, <2>6
      <4>2. ep'.tx_next = 1 - tx_odd' /\ ep'.data0 = 1 - host'.toggle
        <5>1. ep' = ep /\ tx_odd' = 1 - tx_odd /\ host'.toggle = 1 - host.toggle
          BY <1>1, <1>7
        <5>2. ep.tx_next = tx_odd /\ ep.data0 = host.toggle
          BY <1>6, <2>6
        <5> QED
          BY <2>4, <5>1, <5>2
      <4>3. /\ ep'.pending.id = host'.request.id /\ ep'.pending.from = Place(1)'
            /\ ep'.pending.len = host'.request.len - Place(1)'
        BY <1>1, <1>6, <1>7, <3>2 DEF l
      <4>4. Got' < host'.request.len
        BY <1>7, <2>2 DEF l
      <4> QED
        BY <4>1, <4>2, <4>3, <4>4
    <3>6. StreamAt(Transmit, 1)'
      BY <3>4, <3>5 DEF StreamAt, Transmit
    <3>7. Stream(Transmit)'
      BY <3>6 DEF Stream
    <3> QED
      BY <1>3, <1>4, <1>11, <2>1, <3>7 DEF StreamInv, PendingInv, StatusInv
  <2> QED
    BY <1>6, <2>5, <2>6
<1> QED
  BY <1>12, <1>13

LEMMA DataHandler ==
  ASSUME BaseInv, DataInv, AtFirst
  PROVE  DataInv'
<1>0. Shape /\ SetupInv /\ UNCHANGED <<host, usbrst>>
  BY HandlerQueue DEF BaseInv
<1>1. DataInOrder'
  BY <1>0 DEF DataInv, DataInOrder
<1>2. CASE usbrst
  BY <1>0, <1>1, <1>2 DEF DataInv
<1>3. CASE ~usbrst
  <2>1. LastInv /\ PendingInv /\ StreamInv /\ StatusInv
    BY <1>3 DEF DataInv
  <2>2. CASE TokenSetup
    BY <1>1, <1>3, <2>1, <2>2, DataSetup DEF DataInv
  <2>3. CASE ~TokenSetup
    BY <1>0, <1>1, <2>1, <2>3, LastHandler, PendingHandler, StreamHandler, StatusHandler
       DEF DataInv
  <2> QED
    BY <2>2, <2>3
<1> QED
  BY <1>2, <1>3

LEMMA DataReset ==
  ASSUME BaseInv, DataInv, usb_reset
  PROVE  DataInv'
<1>1. Shape /\ host.phase = "none" /\ usbrst
  BY DEF BaseInv, SetupInv, usb_reset
<1>2. /\ UNCHANGED host /\ stat' = << >> /\ tx_odd' = 0 /\ Becomes(usb_init_ep(Transmit))
  BY DEF usb_reset
<1>3. ep'.tx_last = 1
  <2>1. ep' = usb_init_ep(Transmit).ep
    BY <1>2 DEF Becomes
  <2> QED
    BY <1>1, <2>1, TransmitParts, ClearEffect DEF usb_init_ep, Banks
<1>4. Unhandled' = {} /\ Sent' = {}
  <2>1. Unhandled' = {}
    BY <1>2 DEF Unhandled
  <2> QED
    BY <2>1 DEF Sent
<1>5. ~Streaming'
  BY <1>1, <1>2 DEF Streaming
<1>6. LastInv'
  <2>1. LastKnown'
    BY <1>2, <1>3, <1>4 DEF LastKnown
  <2> QED
    BY <1>4, <1>5, <2>1 DEF LastInv
<1>7. PendingInv' /\ StreamInv' /\ StatusInv'
  BY <1>1, <1>2, <1>4, <1>5 DEF PendingInv, StreamInv, StatusInv
<1>8. DataInOrder'
  BY <1>2 DEF DataInv, DataInOrder
<1> QED
  BY <1>6, <1>7, <1>8 DEF DataInv

LEMMA DataStep ==
  ASSUME Patient, BaseInv, DataInv, [Next]_vars
  PROVE  DataInv'
<1>0. Shape /\ DataInOrder
  BY DEF BaseInv, DataInv
<1>1. CASE AtFirst
  BY <1>1, DataHandler
<1>2. CASE TokenDone
  <2>1. DataInOrder' /\ usbrst' = usbrst
    BY <1>0, <1>2 DEF TokenDone, DataInOrder
  <2>2. CASE usbrst
    BY <2>1, <2>2 DEF DataInv
  <2>3. CASE ~usbrst
    BY <1>0, <1>2, <2>1, <2>3, DataDone DEF DataInv
  <2> QED
    BY <2>2, <2>3
<1>3. CASE usb_reset
  BY <1>3, DataReset
<1>4. CASE HostReset
  <2>1. usbrst' /\ host'.got = << >>
    BY <1>0, <1>4 DEF HostReset, Shape, HostShape, Hosts
  <2>2. DataInOrder'
    BY <2>1 DEF DataInOrder
  <2> QED
    BY <2>1, <2>2 DEF DataInv
<1>5. CASE HostSetup
  <2>1. ~usbrst
    BY <1>5 DEF HostSetup, ReceivePacket, Reachable
  <2> QED
    BY <1>5, <2>1, DataNewTransfer DEF DataInv
<1>6. CASE HostOut
  <2>1. ~usbrst
    BY <1>6 DEF HostOut, ReceivePacket, Reachable
  <2> QED
    BY <1>6, <2>1, DataStatus DEF DataInv
<1>7. CASE HostIn
  <2>1. ~usbrst
    BY <1>7 DEF HostIn, Reachable
  <2>2. CASE Streaming
    BY <1>7, <2>1, <2>2, DataTaken DEF DataInv
  <2>3. CASE ~Streaming
    BY <1>7, <2>1, <2>3, DataAcknowledged DEF DataInv
  <2> QED
    BY <2>2, <2>3
<1>8. CASE UNCHANGED <<ep, bdt_tx, tx_odd, pc, stat, busy, usbrst, host, queued>>
  <2>1. /\ Unhandled' = Unhandled /\ Sent' = Sent /\ (Streaming' <=> Streaming)
        /\ Transmit' = Transmit
    BY <1>8 DEF Unhandled, Sent, Streaming, Transmit
  <2>2. \A i : LastAt(i)' <=> LastAt(i)
    BY <1>8, <2>1 DEF LastAt
  <2>3. LastKnown' <=> LastKnown
    BY <1>8, <2>1, <2>2 DEF LastKnown
  <2>4. LastInv => LastInv'
    BY <1>8, <2>1, <2>3 DEF LastInv
  <2>5. PendingInv => PendingInv'
    BY <1>8, <2>1 DEF PendingInv
  <2>6. StreamInv => StreamInv'
    <3>1. Stream(Transmit) => Stream(Transmit)'
      BY <1>8, <2>1, StreamSame
    <3> QED
      BY <1>8, <2>1, <3>1 DEF StreamInv
  <2>7. StatusInv => StatusInv'
    BY <1>8, <2>1 DEF StatusInv
  <2>8. DataInOrder'
    BY <1>0, <1>8 DEF DataInOrder
  <2> QED
    BY <1>8, <2>4, <2>5, <2>6, <2>7, <2>8 DEF DataInv
<1> QED
  BY <1>1, <1>2, <1>3, <1>4, <1>5, <1>6, <1>7, <1>8
     DEF Next, USBOTG_IRQHandler, usb_handler, AtFirst, usb_error, BusError, driver, controller,
         vars

LEMMA DataInit == Init => DataInv
<1> SUFFICES ASSUME Init
             PROVE  DataInv
  OBVIOUS
<1>1. usbrst /\ host.got = << >>
  BY DEF Init
<1> QED
  BY <1>1 DEF DataInv, DataInOrder

\* The host gets the packets of its own control read once each and in order (usb_queue_tx and
\* usb_tx_handler with two descriptors, the toggle and what is pending), and an empty packet
\* for the status, with any number of tokens waiting for the handler, if it gives up no
\* transfer whose tokens have waited for each other.
THEOREM DataOrdered == Patient => (Spec => []DataInOrder)
<1> SUFFICES ASSUME Patient
             PROVE  Spec => []DataInOrder
  OBVIOUS
<1>1. Init => BaseInv /\ DataInv
  BY BaseInit, DataInit
<1>2. BaseInv /\ DataInv /\ [Next]_vars => (BaseInv /\ DataInv)'
  BY BaseStep, DataStep
<1>3. BaseInv /\ DataInv => DataInOrder
  BY DEF DataInv
<1> QED
  BY <1>1, <1>2, <1>3, PTL DEF Spec
=============================================================================
