-------------------------------- MODULE Fifo --------------------------------
(* What the driver promises of each direction of the serial line: a bounded *)
(* first-in first-out channel between the program and the wire.             *)
EXTENDS Naturals, Sequences

CONSTANTS Bytes, Capacity

VARIABLES queue,        \* bytes accepted and not delivered yet
          delivered     \* every byte delivered, oldest first

Init == queue = << >> /\ delivered = << >>

Accept(b) == /\ Len(queue) < Capacity
             /\ queue' = Append(queue, b)
             /\ UNCHANGED delivered

Deliver == /\ queue # << >>
           /\ delivered' = Append(delivered, Head(queue))
           /\ queue' = Tail(queue)

Next == Deliver \/ \E b \in Bytes : Accept(b)

Spec == Init /\ [][Next]_<<queue, delivered>>
=============================================================================
