---------------------------------- MODULE Cdc ----------------------------------
(* usb.c: what the control endpoint sets up.  The host enumerates the device,  *)
(* configures it and then uses endpoint 2, where the driver echoes each packet *)
(* from the buffer it was received in, without a copy.  A control transfer is  *)
(* one step here: how its packets move is module Usb.                          *)
(*                                                                             *)
(* The host does not reset or configure again while packets are under way, or  *)
(* after an odd number of echoes: data0 and the bank in use outlive both.      *)
EXTENDS Descriptors

CONSTANTS
  FifoSize,     \* tokens the controller queues
  Window,       \* packets the host sends ahead of their echoes
  PacketSizes   \* bytes in a packet of the host's

ASSUME CdcAssumption == /\ FifoSize \in Nat \ {0} /\ Window \in Nat \ {0}
                        /\ PacketSizes \subseteq 1 .. CDC_RX_SIZE

VARIABLES
  ep,             \* endpoints[2]
  endpt,          \* the endpoints enabled in USB0_ENDPT
  bdt_rx, bdt_tx, \* the descriptors of endpoint 2
  buffers,        \* ep2_rx_buffers: the packet last received in each
  pc,             \* the handler: "idle", "loop", "end"
  rx_odd, tx_odd, \* the descriptors the controller uses next
  stat,           \* queue of tokens: what USB0_STAT shows first
  usbrst,         \* reset flag in USB0_ISTAT
  irq,            \* "on"; "error": error flag in USB0_ISTAT; "off": USB0_INTEN = 0
  host

controller == <<rx_odd, tx_odd, stat, usbrst, irq>>
vars == <<ep, endpt, bdt_rx, bdt_tx, buffers, pc, controller, host>>

Ids == 0 .. Window
NoPacket == [id |-> 0, len |-> 0]

Transmitter == [ep |-> ep, bdt |-> bdt_tx]
Becomes(t) == ep' = t.ep /\ bdt_tx' = t.bdt

-----------------------------------------------------------------------------
(* The interrupt handler.                                                      *)

\* Of endpoint 2 a bus reset changes only the descriptors the controller uses next.
usb_reset ==
  /\ pc = "idle" /\ usbrst /\ irq # "off"
  /\ endpt' = endpt \cup {0}
  /\ rx_odd' = 0 /\ tx_odd' = 0 /\ stat' = << >> /\ usbrst' = FALSE /\ irq' = "on"
  /\ UNCHANGED <<ep, bdt_rx, bdt_tx, buffers, pc, host>>

AtToken == stat # << >> /\ (pc = "loop" \/ (pc = "idle" /\ ~usbrst /\ irq # "off"))

\* Mutant: the handler is called once, as the one of SET_LINE_CODING is.
BugOnce(t, addr, count) ==
  [usb_tx(t, [addr |-> addr, len |-> count]) EXCEPT !.ep.rx_handler = FALSE]

cdc_rx_handler(t, addr, count) == usb_tx(t, [addr |-> addr, len |-> count])

TokenOut ==
  /\ AtToken /\ ~Head(stat).tx /\ pc' = "end"
  /\ LET d == bdt_rx[Head(stat).bank]
     IN  IF ep.rx_handler THEN Becomes(cdc_rx_handler(Transmitter, d.addr, d.count))
         ELSE UNCHANGED <<ep, bdt_tx>>
  /\ UNCHANGED <<endpt, bdt_rx, buffers, controller, host>>

\* pending_len is 0.  The token of a descriptor filled again is skipped.
TokenIn ==
  /\ AtToken /\ Head(stat).tx /\ pc' = "end"
  /\ ep' = IF bdt_tx[Head(stat).bank].pid = "IN" THEN [ep EXCEPT !.tx_last = Head(stat).bank]
           ELSE ep
  /\ UNCHANGED <<endpt, bdt_rx, bdt_tx, buffers, controller, host>>

\* Mutant: the flags are not read again.
BugNoFlags ==
  /\ pc = "end"
  /\ LET b == Head(stat).bank
     IN  bdt_rx' = IF Head(stat).tx THEN bdt_rx
                   ELSE [bdt_rx EXCEPT ![b] = [@ EXCEPT !.own = TRUE, !.count = EP0_BUFSIZE]]
  /\ stat' = Tail(stat) /\ pc' = "loop"
  /\ UNCHANGED <<ep, endpt, bdt_tx, buffers, rx_odd, tx_odd, usbrst, irq, host>>

TokenDone ==
  /\ pc = "end"
  /\ LET b == Head(stat).bank
     IN  bdt_rx' = IF Head(stat).tx THEN bdt_rx
                   ELSE [bdt_rx EXCEPT ![b] = [@ EXCEPT !.own = TRUE, !.count = EP0_BUFSIZE]]
  /\ stat' = Tail(stat) /\ pc' = IF stat' = << >> THEN "idle" ELSE "loop"
  /\ UNCHANGED <<ep, endpt, bdt_tx, buffers, rx_odd, tx_odd, usbrst, irq, host>>

usb_error ==
  /\ pc = "idle" /\ stat = << >> /\ ~usbrst /\ irq = "error"
  /\ irq' = "off"
  /\ UNCHANGED <<ep, endpt, bdt_rx, bdt_tx, buffers, pc, rx_odd, tx_odd, stat, usbrst, host>>

USBOTG_IRQHandler == usb_reset \/ TokenOut \/ TokenIn \/ TokenDone \/ usb_error

-----------------------------------------------------------------------------
(* Enumeration.                                                                *)

Ask(type, index, wLength) == [wValue |-> <<type, index>>, wLength |-> wLength]

Header == Ask(mCONFIGURATION, 0, sizeof(USB_CFG_DSC))

\* What an answer of n bytes makes the host ask further: the strings the device
\* names, then the configuration, its first descriptor before the whole of it.
Further(ask, n) ==
  CASE ask.wValue[1] = mDEVICE /\ n = ask.wLength ->
         << Ask(mSTRING, device_descriptor.iMFR, 255),
            Ask(mSTRING, device_descriptor.iProduct, 255),
            Ask(mSTRING, device_descriptor.iSerialNum, 255), Header >>
    [] ask = Header /\ n = ask.wLength ->
         << Ask(mCONFIGURATION, 0, config_descriptor[1].wTotalLength) >>
    [] OTHER -> << >>

\* A request the driver does not know gets no answer, and the host asks nothing more.
HostAsks ==
  /\ ~usbrst /\ irq # "off" /\ host.asks # << >>
  /\ LET ask == Head(host.asks)
         n == GetDescriptor(ask.wValue, ask.wLength)
     IN  /\ Implemented(ask.wValue)
         /\ host' = [host EXCEPT
              !.asks = Tail(@) \o Further(ask, n),
              !.config = IF ask.wValue[1] = mCONFIGURATION THEN n ELSE @]
  /\ UNCHANGED <<ep, endpt, bdt_rx, bdt_tx, buffers, pc, controller>>

\* Nothing is under way, and the echoes so far are even in number.
Quiet == /\ host.sent = << >> /\ stat = << >> /\ pc = "idle" /\ ~usbrst /\ irq = "on"
         /\ host.toggle = 0

\* Mutant: both descriptors have the first buffer.
BugOneBuffer == [b \in Banks |-> [own |-> TRUE, addr |-> 0, count |-> CDC_RX_SIZE]]

\* What usb_init_ep makes of the receive descriptors.
ReceiveInit == [b \in Banks |-> [own |-> TRUE, addr |-> b, count |-> CDC_RX_SIZE]]

\* SET_CONFIG.
usb_set_config ==
  /\ Quiet /\ host.asks = << >> /\ Complete(host.config)
  /\ LET t == usb_init_ep(Transmitter)
     IN  Becomes([t EXCEPT !.ep.rx_handler = TRUE])
  /\ bdt_rx' = ReceiveInit
  /\ endpt' = endpt \cup {1, 2}
  /\ host' = [host EXCEPT !.open = TRUE]
  /\ UNCHANGED <<buffers, pc, controller>>

-----------------------------------------------------------------------------
(* The host, once it has configured the device.                                *)

\* A packet longer than the descriptor's count is cut, and is a DMA error.
HostSends ==
  /\ host.open /\ ~usbrst /\ Len(host.sent) < Window /\ Len(stat) < FifoSize
  /\ bdt_rx[rx_odd].own
  /\ \E size \in PacketSizes :
       LET d == bdt_rx[rx_odd]
           n == MinOf(size, d.count)
       IN  /\ bdt_rx' = [bdt_rx EXCEPT ![rx_odd] = [d EXCEPT !.own = FALSE, !.count = n]]
           /\ buffers' = [buffers EXCEPT ![d.addr] = host.next]
           /\ irq' = IF n < size /\ irq = "on" THEN "error" ELSE irq
           /\ host' = [host EXCEPT !.sent = Append(@, [id |-> host.next, len |-> size]),
                                   !.next = (@ + 1) % (Window + 1)]
  /\ stat' = Append(stat, [tx |-> FALSE, bank |-> rx_odd])
  /\ rx_odd' = 1 - rx_odd
  /\ UNCHANGED <<ep, endpt, bdt_tx, pc, tx_odd, usbrst>>

\* The host takes what the buffer holds now, or drops it as one it already has.
HostTakes ==
  /\ host.open /\ ~usbrst /\ Len(stat) < FifoSize /\ bdt_tx[tx_odd].own
  /\ LET d == bdt_tx[tx_odd]
     IN  host' = IF d.toggle # host.toggle \/ host.sent = << >> THEN host
                 ELSE [host EXCEPT !.sent = Tail(@), !.due = Head(host.sent),
                         !.got = [id |-> buffers[d.packet.addr], len |-> d.packet.len],
                         !.toggle = 1 - @]
  /\ bdt_tx' = [bdt_tx EXCEPT ![tx_odd] = Finished("IN", @.packet)]
  /\ stat' = Append(stat, [tx |-> TRUE, bank |-> tx_odd])
  /\ tx_odd' = 1 - tx_odd
  /\ UNCHANGED <<ep, endpt, bdt_rx, buffers, pc, rx_odd, usbrst, irq>>

Fresh == [asks |-> << Ask(mDEVICE, 0, sizeof(USB_DEV_DSC)) >>, config |-> 0, open |-> FALSE,
          sent |-> << >>, next |-> 0, toggle |-> 0, due |-> NoPacket, got |-> NoPacket]

HostReset ==
  /\ Quiet /\ host.open
  /\ usbrst' = TRUE /\ host' = Fresh
  /\ UNCHANGED <<ep, endpt, bdt_rx, bdt_tx, buffers, pc, rx_odd, tx_odd, stat, irq>>

-----------------------------------------------------------------------------
\* The state usb_init leaves: the host resets the bus.
Init ==
  /\ ep = NewEndpoint /\ endpt = {}
  /\ bdt_rx = [b \in Banks |-> [own |-> FALSE, addr |-> b, count |-> 0]]
  /\ bdt_tx = [b \in Banks |-> Cleared]
  /\ buffers = [b \in Banks |-> 0] /\ pc = "idle"
  /\ rx_odd = 0 /\ tx_odd = 0 /\ stat = << >> /\ usbrst = TRUE /\ irq = "on"
  /\ host = Fresh

Next == USBOTG_IRQHandler \/ HostAsks \/ usb_set_config \/ HostSends \/ HostTakes \/ HostReset

\* The handler runs when it is called; the host enumerates and configures a new
\* device, and asks for echoes again and again.
Fairness == /\ WF_vars(USBOTG_IRQHandler) /\ WF_vars(HostAsks)
            /\ WF_vars(~host.open /\ usb_set_config) /\ WF_vars(HostTakes)

Spec == Init /\ [][Next]_vars /\ Fairness

-----------------------------------------------------------------------------
TypeOK ==
  /\ ep.data0 \in {0, 1} /\ ep.tx_next \in Banks /\ ep.tx_last \in Banks
  /\ ep.rx_handler \in BOOLEAN /\ endpt \subseteq {0, 1, 2}
  /\ \A b \in Banks : /\ bdt_rx[b].addr \in Banks /\ bdt_rx[b].count \in 0 .. CDC_RX_SIZE
                      /\ bdt_tx[b].pid \in {"none", "IN"} /\ buffers[b] \in Ids
  /\ pc \in {"idle", "loop", "end"} /\ (pc # "idle" => stat # << >>)
  /\ rx_odd \in Banks /\ tx_odd \in Banks /\ Len(stat) <= FifoSize
  /\ usbrst \in BOOLEAN /\ irq \in {"on", "error", "off"}
  /\ Len(host.sent) <= Window

\* The host gets its packets back in order, each with its own content: the buffer an
\* echo is sent from ("a buffer race") is not received into before the echo has left,
\* as long as the host is at most two packets ahead.  Only a packet that has made an
\* error may come back shorter.
EchoInOrder == /\ host.got.id = host.due.id
               /\ irq = "on" => host.got.len = host.due.len

\* A packet comes back, unless a packet too long has made the driver deaf.
EchoEnds ==
  \A id \in Ids :
    host.sent # << >> /\ host.sent[1].id = id
      ~> host.sent = << >> \/ host.sent[1].id # id \/ irq = "off"

\* What the host has read of the configuration agrees with itself and with what
\* usb_set_config did: as many interfaces and endpoints as announced, only known
\* interfaces referred to, and every endpoint enabled, with a handler and buffers of
\* its size if it receives.
EndpointsServed ==
  host.open =>
    LET n == host.config
        interfaces == OfType(n, mINTERFACE)
        numbers == {config_descriptor[i].bIntfNum : i \in interfaces}
    IN  /\ n = config_descriptor[1].wTotalLength
        /\ Cardinality(numbers) = config_descriptor[1].bNumIntf
        /\ \A i \in interfaces : Cardinality(EndpointsOf(n, i)) = config_descriptor[i].bNumEPs
        /\ \A i \in OfType(n, CS_INTERFACE) : config_descriptor[i].interfaces \subseteq numbers
        /\ \A i \in OfType(n, mENDPOINT) :
             LET d == config_descriptor[i]
             IN  /\ d.number \in endpt
                 /\ ~d.tx => ep.rx_handler /\ d.wMaxPktSize <= CDC_RX_SIZE

\* Every question of the enumeration is answered, and the device is configured.
HostConfigures == ~host.open ~> host.open
=============================================================================
