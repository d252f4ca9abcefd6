-------------------------------- MODULE Ring --------------------------------
(* ring.c: the circular buffers between the UART driver and its interrupt   *)
(* handler.  The operators here are the whole operations, as the interrupt  *)
(* handler runs them; module Uart takes the put and the get of the main     *)
(* program apart, one memory access at a time.                              *)
(*                                                                          *)
(* A stored byte is represented by its number in the stream (the first byte *)
(* is 1), so a byte that is lost, repeated or read too early shows as a     *)
(* wrong number.  0 is the content of a slot nothing was stored in.         *)
EXTENDS Integers, Sequences

CONSTANT Size           \* what buf_reset is given: BUFLEN, 128 in uart.c

ASSUME SizeAssumption == Size \in Nat /\ Size >= 2

Slots == 0 .. Size - 1

\* An index is Size between its increment and the wrap that follows.
Rings == [head : 0 .. Size, tail : 0 .. Size, data : [Slots -> Nat]]

buf_reset == [head |-> 0, tail |-> 0, data |-> [i \in Slots |-> 0]]

\* The distance from one index to another, the way buf_len computes it.
Distance(from, to) == IF to < from THEN to - from + Size ELSE to - from

buf_len(buf) == Distance(buf.head, buf.tail)

\* Mutant: the buffer may be filled to its last slot.
BugNoGap(buf) == buf_len(buf) = Size

buf_isfull(buf) == buf_len(buf) = Size - 1

buf_isempty(buf) == buf.head = buf.tail

Wrap(index) == IF index = Size THEN 0 ELSE index

\* One field stored, the others left alone.
StoreHead(buf, index) == [head |-> index, tail |-> buf.tail, data |-> buf.data]
StoreTail(buf, index) == [head |-> buf.head, tail |-> index, data |-> buf.data]
StoreData(buf, index, val) == [head |-> buf.head, tail |-> buf.tail,
                               data |-> [buf.data EXCEPT ![index] = val]]

buf_get_byte(buf) == [item |-> buf.data[buf.head],
                      rest |-> StoreHead(buf, Wrap(buf.head + 1))]

buf_put_byte(buf, val) ==
  StoreTail(StoreData(buf, buf.tail, val), Wrap(buf.tail + 1))

\* What the buffer holds, oldest byte first.
Contents(buf) ==
  [i \in 1 .. Distance(Wrap(buf.head), Wrap(buf.tail)) |->
     buf.data[(Wrap(buf.head) + i - 1) % Size]]
=============================================================================
