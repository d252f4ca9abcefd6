------------------------------- MODULE Endpoint -------------------------------
(* usb.c: an endpoint of the driver and its two transmit descriptors.  The     *)
(* functions take and return a record t of both: t.ep is the endpoint_t and    *)
(* t.bdt the descriptors.  Modules Usb and Cdc are two uses of them.           *)
EXTENDS Integers, Sequences

CONSTANT EP0_BUFSIZE    \* bytes in a packet of endpoint 0

ASSUME BufferAssumption == EP0_BUFSIZE \in Nat \ {0}

Banks == {0, 1}
NoData == [id |-> 0, from |-> 0, len |-> 0]

\* Mutant: a packet is always full.
BugFull(a, b) == b

MinOf(a, b) == IF a < b THEN a ELSE b

\* A descriptor of the controller's; one it has finished with, and the token.
Owned(toggle, packet) == [own |-> TRUE, pid |-> "none", toggle |-> toggle, packet |-> packet]
Finished(pid, packet) == [own |-> FALSE, pid |-> pid, toggle |-> 0, packet |-> packet]
Cleared == Finished("none", NoData)
Armed == Owned(0, NoData)

NewEndpoint == [data0 |-> 0, tx_next |-> 0, tx_last |-> 0, pending |-> NoData,
                rx_handler |-> FALSE]

ep_clear_tx(t, last) ==
  [ep |-> [t.ep EXCEPT !.tx_last = last, !.tx_next = 1 - last],
   bdt |-> [b \in Banks |-> Cleared]]

\* The transmit side of usb_init_ep.
usb_init_ep(t) == ep_clear_tx(t, 1)

\* Nothing happens when the next descriptor is the controller's: the caller is told
\* by the result 0.
usb_tx(t, packet) ==
  IF t.bdt[t.ep.tx_next].own THEN t
  ELSE [ep |-> [t.ep EXCEPT !.tx_next = 1 - @, !.data0 = 1 - @],
        bdt |-> [t.bdt EXCEPT ![t.ep.tx_next] = Owned(t.ep.data0, packet)]]

Handshake(t) == usb_tx(t, NoData)

\* The loop in usb_tx_handler makes another turn that queues a packet.
MoreToSend(t) == t.ep.pending.len > 0 /\ ~t.bdt[t.ep.tx_next].own

QueueNext(t) ==
  LET n == MinOf(t.ep.pending.len, EP0_BUFSIZE)
      p == t.ep.pending
  IN  IF MoreToSend(t)
        THEN [usb_tx(t, [p EXCEPT !.len = n]) EXCEPT
                !.ep.pending = [p EXCEPT !.from = @ + n, !.len = @ - n]]
        ELSE t

\* With both descriptors free and the controller suspended the loop ends after
\* two packets.
usb_queue_tx(t, data) == QueueNext(QueueNext([t EXCEPT !.ep.pending = data]))
=============================================================================
