--------------------------------- MODULE Usb ---------------------------------
(* usb.c: the control endpoint of the USB device.  Three actors: the host,     *)
(* which makes control transfers and may give one up; the controller, which    *)
(* moves packets through the buffer descriptors it owns, two for each          *)
(* direction, used in turn, and queues a token for each; the interrupt         *)
(* handler, which takes the tokens from that queue.  The steps of the handler  *)
(* are the points where the controller can do something in between.            *)
(*                                                                             *)
(* A packet is the request it belongs to, its place in the data and its        *)
(* length.  What SET_CONFIG does to endpoint 2 is in module Cdc.               *)
EXTENDS Endpoint

CONSTANTS
  Lengths,      \* lengths of the data the host asks for
  FifoSize,     \* tokens the controller queues
  Patient,      \* the host gives up no transfer whose tokens were queued
  Orderly,      \* the host neither resets nor gives up in a SET_ADDRESS
  Errors        \* packets may be damaged on the bus

ASSUME UsbAssumption ==
  /\ FifoSize \in Nat \ {0}
  /\ Lengths \subseteq Nat \ {0}
  /\ Patient \in BOOLEAN /\ Orderly \in BOOLEAN
  /\ Errors \in BOOLEAN

VARIABLES
  ep,             \* endpoints[0]: data0, tx_next, tx_last, pending, rx_handler
  device_state,   \* "ADDRESS" or "other": no other value is ever tested
  device_address,
  bdt_rx, bdt_tx, \* the buffer descriptors
  pc,             \* the handler: "idle", "loop", "in", "end"
  rx_odd, tx_odd, \* the descriptors the controller uses next
  stat,           \* queue of tokens: what USB0_STAT shows first
  busy,           \* TXSUSPENDTOKENBUSY
  usbrst,         \* reset flag in USB0_ISTAT
  irq,            \* "on"; "error": error flag in USB0_ISTAT; "off": USB0_INTEN = 0
  address,        \* USB0_ADDR
  host,           \* the transfer the host is in
  queued          \* history: tokens of this transfer waited for each other

driver == <<ep, device_state, device_address>>
controller == <<rx_odd, tx_odd, stat, busy, usbrst, irq, address>>
vars == <<driver, bdt_rx, bdt_tx, pc, controller, host, queued>>

Addresses == {0, 1}
Request(kind, id, len, addr) == [kind |-> kind, id |-> id, len |-> len, addr |-> addr]
NoRequest == Request("none", 0, 0, 0)

-----------------------------------------------------------------------------
Transmit == [ep |-> ep, bdt |-> bdt_tx]
Becomes(t) == ep' = t.ep /\ bdt_tx' = t.bdt

-----------------------------------------------------------------------------
(* The interrupt handler.                                                      *)

\* usb_reset keeps device_state and the rest of the endpoint.
usb_reset ==
  /\ pc = "idle" /\ usbrst /\ irq # "off"
  /\ Becomes(usb_init_ep(Transmit))
  /\ bdt_rx' = [b \in Banks |-> Armed]
  /\ rx_odd' = 0 /\ tx_odd' = 0
  /\ stat' = << >> /\ usbrst' = FALSE /\ irq' = "on" /\ address' = 0
  /\ UNCHANGED <<device_state, device_address, pc, busy, host, queued>>

\* The handler is at the token USB0_STAT shows: in the loop it does not look at
\* the reset flag again.
AtToken == stat # << >> /\ (pc = "loop" \/ (pc = "idle" /\ ~usbrst /\ irq # "off"))

Descriptor == IF Head(stat).tx THEN bdt_tx[Head(stat).bank] ELSE bdt_rx[Head(stat).bank]

TokenOut ==
  /\ AtToken /\ Descriptor.pid = "OUT" /\ pc' = "end"
  /\ IF ep.rx_handler
       THEN LET t == Handshake(Transmit) IN Becomes([t EXCEPT !.ep.rx_handler = FALSE])
       ELSE UNCHANGED <<ep, bdt_tx>>
  /\ UNCHANGED <<device_state, device_address, bdt_rx, controller, host, queued>>

TokenIn ==
  /\ AtToken /\ Descriptor.pid = "IN" /\ pc' = "in"
  /\ UNCHANGED <<driver, bdt_rx, bdt_tx, controller, host, queued>>

usb_tx_handler ==
  /\ pc = "in" /\ MoreToSend(Transmit)
  /\ Becomes(QueueNext(Transmit))
  /\ UNCHANGED <<device_state, device_address, bdt_rx, pc, controller, host, queued>>

\* The loop of usb_tx_handler ends, and the token with it.
TokenInDone ==
  /\ pc = "in" /\ ~MoreToSend(Transmit) /\ pc' = "end"
  /\ IF device_state = "ADDRESS"
       THEN address' = device_address /\ device_state' = "other"
       ELSE UNCHANGED <<address, device_state>>
  /\ ep' = [ep EXCEPT !.tx_last = Head(stat).bank]
  /\ UNCHANGED <<device_address, bdt_rx, bdt_tx, rx_odd, tx_odd, stat, busy, usbrst, irq,
                 host, queued>>

\* SETUP clears what is queued for transmission; the answer begins with DATA1.
AfterSetup == ep_clear_tx([Transmit EXCEPT !.ep.data0 = 1], ep.tx_last)

\* Mutant: the descriptors are not cleared.
BugNoClear(r) ==
  LET t == [Transmit EXCEPT !.ep.data0 = 1]
  IN  CASE r.kind = "get" -> usb_queue_tx(t, [id |-> r.id, from |-> 0, len |-> r.len])
        [] r.kind \in {"address", "config", "line state"} -> Handshake(t)
        [] r.kind = "line coding" -> [t EXCEPT !.ep.rx_handler = TRUE]
        [] OTHER -> t

\* usb_setup_device, usb_setup_interface and usb_setup_endpoint.  A request they
\* do not know gets no answer.
Answer(r) ==
  LET t == AfterSetup
  IN  CASE r.kind = "get" -> usb_queue_tx(t, [id |-> r.id, from |-> 0, len |-> r.len])
        [] r.kind \in {"address", "config", "line state"} -> Handshake(t)
        [] r.kind = "line coding" -> [t EXCEPT !.ep.rx_handler = TRUE]
        [] OTHER -> t

\* Mutant: the address is in force before the handshake.
BugAtOnce(r) ==
  IF r.kind = "address"
    THEN device_state' = "other" /\ device_address' = r.addr /\ address' = r.addr
    ELSE UNCHANGED <<device_state, device_address, address>>

\* The state SET_ADDRESS and SET_CONFIG leave.
SetState(r) ==
  /\ device_state' = CASE r.kind = "address" -> "ADDRESS"
                       [] r.kind = "config" -> "other"
                       [] OTHER -> device_state
  /\ device_address' = IF r.kind = "address" THEN r.addr ELSE device_address
  /\ UNCHANGED address

TokenSetup ==
  /\ AtToken /\ Descriptor.pid = "SETUP" /\ pc' = "end"
  /\ Becomes(Answer(Descriptor.packet))
  /\ SetState(Descriptor.packet)
  /\ busy' = FALSE
  /\ UNCHANGED <<bdt_rx, rx_odd, tx_odd, stat, usbrst, irq, host, queued>>

\* The handler gave the descriptor away before it came to its token.
TokenSkipped ==
  /\ AtToken /\ Descriptor.pid = "none" /\ pc' = "end"
  /\ UNCHANGED <<driver, bdt_rx, bdt_tx, controller, host, queued>>


\* A receive descriptor goes back to the controller; the token is cleared, and the
\* flags are read again.
TokenDone ==
  /\ pc = "end"
  /\ bdt_rx' = IF Head(stat).tx THEN bdt_rx ELSE [bdt_rx EXCEPT ![Head(stat).bank] = Armed]
  /\ stat' = Tail(stat) /\ pc' = IF stat' = << >> THEN "idle" ELSE "loop"
  /\ UNCHANGED <<driver, bdt_tx, rx_odd, tx_odd, busy, usbrst, irq, address, host, queued>>

usb_handler == \/ TokenOut \/ TokenIn \/ usb_tx_handler \/ TokenInDone
               \/ TokenSetup \/ TokenSkipped \/ TokenDone

\* The tokens are handled, and the error flag is set: USB0_INTEN = 0, and the handler
\* is never called again.  (EPSTALL is never set, so the branch for STALL is not taken.)
usb_error ==
  /\ pc = "idle" /\ stat = << >> /\ irq = "error"
  /\ irq' = "off"
  /\ UNCHANGED <<driver, bdt_rx, bdt_tx, pc, rx_odd, tx_odd, stat, busy, usbrst, address,
                 host, queued>>

USBOTG_IRQHandler == usb_reset \/ usb_handler \/ usb_error

-----------------------------------------------------------------------------
(* The controller and the host.  A token the controller cannot take it answers *)
(* with NAK, and the host repeats it.                                          *)

Reachable == ~usbrst /\ ~busy /\ host.address = address /\ Len(stat) < FifoSize

Token(tx, bank) ==
  /\ stat' = Append(stat, [tx |-> tx, bank |-> bank])
  /\ queued' = (stat # << >> \/ queued)

ReceivePacket(pid, packet) ==
  /\ Reachable /\ bdt_rx[rx_odd].own
  /\ bdt_rx' = [bdt_rx EXCEPT ![rx_odd] = Finished(pid, packet)]
  /\ rx_odd' = 1 - rx_odd

Requests(id) ==
  {Request("get", id, len, 0) : len \in Lengths}
    \cup {Request("address", id, 0, a) : a \in Addresses}
    \cup {Request(kind, id, 0, 0) : kind \in {"config", "line coding", "line state", "unknown"}}

FirstPhase(r) == CASE r.kind = "get" -> "data in"
                   [] r.kind = "line coding" -> "data out"
                   [] OTHER -> "status in"

\* The host is in a SET_ADDRESS.
Assigning == host.request.kind = "address" /\ host.phase # "none"

\* The same, or the device has the time to take the address over.
HandingOver == Assigning \/ (host.request.kind = "address" /\ stat # << >>)

\* A transfer begins, after the last one or in place of it.
HostSetup ==
  /\ ~(Orderly /\ HandingOver)
  /\ host.phase # "none" => ~(Patient /\ queued)
  /\ \E r \in Requests(1 - host.request.id) :
       /\ ReceivePacket("SETUP", r)
       /\ host' = [host EXCEPT !.phase = FirstPhase(r), !.request = r, !.got = << >>,
                               !.toggle = 1]
  /\ stat' = Append(stat, [tx |-> FALSE, bank |-> rx_odd])
  /\ queued' = FALSE
  /\ busy' = TRUE
  /\ UNCHANGED <<driver, bdt_tx, pc, tx_odd, usbrst, irq, address>>

HostOut ==
  /\ host.phase \in {"status out", "data out"}
  /\ ReceivePacket("OUT", NoData)
  /\ Token(FALSE, rx_odd)
  /\ host' = [host EXCEPT !.phase = IF @ = "data out" THEN "status in" ELSE "none",
                          !.got = << >>]
  /\ UNCHANGED <<driver, bdt_tx, pc, tx_odd, busy, usbrst, irq, address>>

\* The host drops a packet with the wrong toggle as one it already has.  The data ends
\* with a packet that is not full, or with the length the host has asked for.
Accept(d) ==
  IF d.toggle # host.toggle THEN UNCHANGED host
  ELSE LET got == Append(host.got, d.packet)
           complete == /\ host.phase = "data in"
                       /\ \/ d.packet.len < EP0_BUFSIZE
                          \/ Len(got) * EP0_BUFSIZE >= host.request.len
       IN  host' = [host EXCEPT
             !.got = got, !.toggle = 1 - @,
             !.phase = CASE @ = "status in" -> "none"
                         [] complete -> "status out"
                         [] OTHER -> @,
             !.address = IF Assigning THEN host.request.addr ELSE @]

HostIn ==
  /\ host.phase \in {"data in", "status in"}
  /\ Reachable /\ bdt_tx[tx_odd].own
  /\ Accept(bdt_tx[tx_odd])
  /\ bdt_tx' = [bdt_tx EXCEPT ![tx_odd] = Finished("IN", @.packet)]
  /\ tx_odd' = 1 - tx_odd
  /\ Token(TRUE, tx_odd)
  /\ UNCHANGED <<driver, bdt_rx, pc, rx_odd, busy, usbrst, irq, address>>

\* The bus is reset; the host starts over at address 0.
HostReset ==
  /\ ~usbrst /\ ~(Orderly /\ HandingOver)
  /\ usbrst' = TRUE /\ busy' = FALSE
  /\ host' = [host EXCEPT !.phase = "none", !.got = << >>, !.address = 0]
  /\ queued' = FALSE
  /\ UNCHANGED <<driver, bdt_rx, bdt_tx, pc, rx_odd, tx_odd, stat, irq, address>>

\* A packet is damaged on the bus; the host sends it again.
BusError ==
  /\ Errors /\ irq = "on" /\ ~usbrst /\ host.phase # "none"
  /\ irq' = "error"
  /\ UNCHANGED <<driver, bdt_rx, bdt_tx, pc, rx_odd, tx_odd, stat, busy, usbrst, address,
                 host, queued>>

-----------------------------------------------------------------------------
\* usb_init has enabled the reset interrupt, and the host resets the bus.
Init ==
  /\ ep = NewEndpoint
  /\ device_state = "other" /\ device_address = 0
  /\ bdt_rx = [b \in Banks |-> Cleared] /\ bdt_tx = [b \in Banks |-> Cleared]
  /\ pc = "idle"
  /\ rx_odd = 0 /\ tx_odd = 0 /\ stat = << >> /\ busy = FALSE /\ usbrst = TRUE
  /\ irq = "on" /\ address = 0
  /\ host = [phase |-> "none", request |-> NoRequest, got |-> << >>, toggle |-> 1,
             address |-> 0]
  /\ queued = FALSE

Next == USBOTG_IRQHandler \/ HostSetup \/ HostOut \/ HostIn \/ HostReset
        \/ BusError

Spec == Init /\ [][Next]_vars

\* The handler runs when it is called, and a host in a transfer repeats its tokens.
Fairness == WF_vars(USBOTG_IRQHandler) /\ WF_vars(HostOut) /\ WF_vars(HostIn)

FairSpec == Spec /\ Fairness

-----------------------------------------------------------------------------
TypeOK ==
  /\ ep.data0 \in {0, 1} /\ ep.tx_next \in Banks /\ ep.tx_last \in Banks
  /\ ep.pending.len \in Nat /\ ep.pending.from \in Nat /\ ep.rx_handler \in BOOLEAN
  /\ device_state \in {"ADDRESS", "other"} /\ device_address \in Addresses
  /\ \A b \in Banks : /\ bdt_rx[b].pid \in {"none", "SETUP", "OUT"}
                      /\ bdt_tx[b].pid \in {"none", "IN"}
  /\ pc \in {"idle", "loop", "in", "end"} /\ (pc # "idle" => stat # << >>)
  /\ rx_odd \in Banks /\ tx_odd \in Banks /\ Len(stat) <= FifoSize
  /\ busy \in BOOLEAN /\ usbrst \in BOOLEAN /\ irq \in {"on", "error", "off"}
  /\ address \in Addresses

AllHandled == pc = "idle" /\ stat = << >> /\ ~usbrst

\* The host gets the data of its own request, every packet once and in order, and
\* an empty packet for the status, whatever an earlier transfer left in the
\* descriptors, in pending and in the toggle.
DataInOrder ==
  \A k \in DOMAIN host.got :
    IF host.request.kind = "get"
      THEN /\ host.got[k].id = host.request.id
           /\ host.got[k].from = (k - 1) * EP0_BUFSIZE
      ELSE host.got[k].len = 0

\* Between two tokens the device has the address the host uses for it.
AddressAgreed == AllHandled => address = host.address


\* "Save even/odd of last buffer sent": with every token handled tx_last is the
\* descriptor the controller sent last.
LastBufferSaved == AllHandled => ep.tx_last = 1 - tx_odd
=============================================================================
