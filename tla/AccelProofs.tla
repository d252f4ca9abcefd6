----------------------------- MODULE AccelProofs -----------------------------
(* Theorems about module Accel, for any number of samples, a sensor that       *)
(* answers or none, and any CTRL_REG1: what the driver does on the bus, and    *)
(* what it reads.                                                              *)
EXTENDS Accel, TLAPS, SequenceTheorems

-----------------------------------------------------------------------------
(* The inductive invariant: each position in a transaction fixes the state of  *)
(* the controller and of the bus.                                              *)

\* The next operation of the transaction is its nth.
AtRead(n) == script = SubSeq(mma8451_read, n, 14)
AtWrite(n) == script = SubSeq(mma8451_write, n, 8)

\* A sensor that is not there does not follow.
Seen(b) == IF present \/ b \in {"idle", "address"} THEN b ELSE "unanswered"

\* Where the sensor is before each operation.
ReadBus == << "idle", "address", "address", "register", "register", "data", "address",
              "address", "sending", "sending", "sending", "sending", "released", "idle" >>
WriteBus == << "idle", "address", "address", "register", "register", "data", "data", "data",
               "idle" >>

Still(b) == transfer = "none" /\ ~iicif /\ bus = Seen(b)

\* A transfer runs, or it has ended and the program does not know yet.
Moving(kind, from, to) == \/ transfer = kind /\ ~iicif /\ bus = Seen(from)
                          \/ transfer = "none" /\ iicif /\ bus = Seen(to)

Addressed == present => pointer = addr

\* What a read returns.
Answer(byte) ==
  /\ ~present => byte = None
  /\ present => byte = Content(addr, byte[3])
  /\ present /\ call = "init" => byte[3] = ctrl0
  /\ present /\ call = "axis" /\ MsbFirst =>
       IF phase = 1 THEN byte[3] = latch /\ latch # -1 ELSE byte[3] = msb[3]

\* The low byte that belongs to the high byte is still held.
Held == present /\ MsbFirst /\ call = "axis" /\ phase = 2 => msb[3] = latch /\ latch # -1

Reading(n) ==
  /\ mst <=> n \in 2 .. 13
  /\ tx <=> n \in 2 .. 9
  /\ n \in 11 .. 12 => txak
  /\ IF n \in {3, 5, 8, 12}
       THEN Moving(IF n = 12 THEN "receive" ELSE "send", ReadBus[n], ReadBus[n + 1])
       ELSE Still(ReadBus[n])
  /\ n = 3 => d = Slave(I2C_WRITE)
  /\ n = 5 => d = RegisterNumber(addr)
  /\ n = 8 => d = Slave(I2C_READ)
  /\ (n = 5 /\ iicif) \/ n \in 6 .. 11 \/ (n = 12 /\ ~iicif) => Addressed
  /\ IF (n = 12 /\ iicif) \/ n \in 13 .. 14 THEN Answer(d) ELSE Held

Writing(n) ==
  /\ mst <=> n \in 2 .. 8
  /\ tx <=> n \in 2 .. 8
  /\ IF n \in {3, 5, 7} THEN Moving("send", WriteBus[n], WriteBus[n + 1])
                        ELSE Still(WriteBus[n])
  /\ n = 3 => d = Slave(I2C_WRITE)
  /\ n = 5 => d = RegisterNumber(addr)
  /\ n = 7 => d = Value(value)
  /\ (n = 5 /\ iicif) \/ n \in 6 .. 7 => Addressed
  /\ present => ctrl = IF (n = 7 /\ iicif) \/ n = 8 THEN value ELSE ctrl0

\* The program is between two transactions.
Resting == ~mst /\ ~tx /\ Still("idle")

WriteCall == call = "init" /\ phase = 2

BusInv ==
  \/ /\ script = << >> /\ Resting
     /\ WriteCall /\ present => ctrl = value
     /\ call = "axis" \/ (call = "init" /\ phase = 1) => Answer(result)
  \/ \E n \in 1 .. 14 :
       AtRead(n) /\ Reading(n) /\ call \in {"init", "axis"} /\ ~WriteCall
  \/ \E n \in 1 .. 8 : AtWrite(n) /\ Writing(n) /\ WriteCall

\* What the callers have done so far.
CallInv ==
  /\ call = "reset" \/ (call = "init" /\ phase = 1) => ctrl = ctrl0
  /\ call \in {"reset", "init"} => addr = CTRL_REG1 /\ msb = None
  /\ WriteCall /\ present => value = Activated(ctrl0)
  /\ call \in {"idle", "axis"} /\ present => ctrl = Activated(ctrl0)
  /\ call = "axis" => addr = reg + (IF phase = 1 THEN FirstRead ELSE 1 - FirstRead)
  /\ call = "axis" /\ phase = 2 /\ MsbFirst /\ present => msb = Content(reg, msb[3])
  /\ call = "idle" /\ MsbFirst => OneSample

Types ==
  /\ call \in {"reset", "idle", "init", "axis"} /\ phase \in 1 .. 2
  /\ reg \in Axes /\ addr \in Registers /\ value \in 0 .. 3
  /\ mst \in BOOLEAN /\ tx \in BOOLEAN /\ txak \in BOOLEAN /\ iicif \in BOOLEAN
  /\ pointer \in Registers /\ ctrl \in 0 .. 3 /\ ctrl0 \in 0 .. 3 /\ present \in BOOLEAN
  /\ sample \in 0 .. MaxSample /\ latch \in -1 .. MaxSample

IInv == Types /\ BusInv /\ CallInv

-----------------------------------------------------------------------------
(* The transactions as sequences of operations.                                *)

OpNames == {"start", "slave_w", "slave_r", "wait", "number", "value", "restart", "set_rx",
            "nack", "dummy", "stop", "take"}

LEMMA Transactions ==
  /\ mma8451_read \in Seq(OpNames) /\ Len(mma8451_read) = 14
  /\ mma8451_write \in Seq(OpNames) /\ Len(mma8451_write) = 8
BY DEF mma8451_read, mma8451_write, OpNames

\* A transaction that begins is at its first operation; one that ends has none left.
LEMMA Beginnings ==
  /\ mma8451_read = SubSeq(mma8451_read, 1, 14)
  /\ mma8451_write = SubSeq(mma8451_write, 1, 8)
  /\ SubSeq(mma8451_read, 15, 14) = << >>
  /\ SubSeq(mma8451_write, 9, 8) = << >>
BY Transactions, SubSeqFull, SubSeqEmpty

\* The next operation is the one at this position, and the position moves by one.
LEMMA OpOfSuffix ==
  ASSUME NEW t \in Seq(OpNames), NEW n \in 1 .. Len(t), script = SubSeq(t, n, Len(t))
  PROVE  /\ script # << >> /\ Head(script) = t[n]
         /\ Tail(script) = SubSeq(t, n + 1, Len(t))
<1>1. Len(t) \in Nat /\ \A i \in n .. Len(t) : t[i] \in OpNames
  OBVIOUS
<1>2. Len(script) = Len(t) - n + 1
  BY <1>1, SubSeqProperties
<1>3. Len(script) # 0
  BY <1>1, <1>2
<1>4. script # << >>
  BY <1>3, EmptySeq
<1> QED BY <1>4, HeadTailOfSubSeq

LEMMA ReadOp ==
  ASSUME NEW n \in 1 .. 14, AtRead(n)
  PROVE  /\ script # << >> /\ Head(script) = mma8451_read[n]
         /\ Tail(script) = SubSeq(mma8451_read, n + 1, 14)
BY OpOfSuffix, Transactions DEF AtRead

LEMMA WriteOp ==
  ASSUME NEW n \in 1 .. 8, AtWrite(n)
  PROVE  /\ script # << >> /\ Head(script) = mma8451_write[n]
         /\ Tail(script) = SubSeq(mma8451_write, n + 1, 8)
BY OpOfSuffix, Transactions DEF AtWrite

\* Which operation is where.
LEMMA ReadPositions ==
  ASSUME NEW n \in 1 .. 14
  PROVE  /\ mma8451_read[n] = "start" <=> n = 1
         /\ mma8451_read[n] = "slave_w" <=> n = 2
         /\ mma8451_read[n] = "wait" <=> n \in {3, 5, 8, 12}
         /\ mma8451_read[n] = "number" <=> n = 4
         /\ mma8451_read[n] = "restart" <=> n = 6
         /\ mma8451_read[n] = "slave_r" <=> n = 7
         /\ mma8451_read[n] = "set_rx" <=> n = 9
         /\ mma8451_read[n] = "nack" <=> n = 10
         /\ mma8451_read[n] = "dummy" <=> n = 11
         /\ mma8451_read[n] = "stop" <=> n = 13
         /\ mma8451_read[n] = "take" <=> n = 14
         /\ mma8451_read[n] # "value"
BY DEF mma8451_read

LEMMA WritePositions ==
  ASSUME NEW n \in 1 .. 8
  PROVE  /\ mma8451_write[n] = "start" <=> n = 1
         /\ mma8451_write[n] = "slave_w" <=> n = 2
         /\ mma8451_write[n] = "wait" <=> n \in {3, 5, 7}
         /\ mma8451_write[n] = "number" <=> n = 4
         /\ mma8451_write[n] = "value" <=> n = 6
         /\ mma8451_write[n] = "stop" <=> n = 8
         /\ mma8451_write[n] \notin {"restart", "slave_r", "set_rx", "nack", "dummy", "take"}
BY DEF mma8451_write

-----------------------------------------------------------------------------
(* The operations of the program.                                              *)

\* An operation is made at its place in one of the two transactions.
LEMMA OpCases ==
  ASSUME BusInv, NEW name \in OpNames, Op(name)
  PROVE  \/ \E n \in 1 .. 14 :
              /\ mma8451_read[n] = name /\ Reading(n) /\ call \in {"init", "axis"} /\ ~WriteCall
              /\ script' = SubSeq(mma8451_read, n + 1, 14)
         \/ \E n \in 1 .. 8 :
              /\ mma8451_write[n] = name /\ Writing(n) /\ WriteCall
              /\ script' = SubSeq(mma8451_write, n + 1, 8)
<1>1. script # << >> /\ Head(script) = name /\ script' = Tail(script)
  BY DEF Op
<1>2. CASE \E n \in 1 .. 14 :
             AtRead(n) /\ Reading(n) /\ call \in {"init", "axis"} /\ ~WriteCall
  BY <1>1, <1>2, ReadOp
<1>3. CASE \E n \in 1 .. 8 : AtWrite(n) /\ Writing(n) /\ WriteCall
  BY <1>1, <1>3, WriteOp
<1> QED BY <1>1, <1>2, <1>3 DEF BusInv

LEMMA ReadGoesOn ==
  ASSUME NEW n \in 1 .. 13, script' = SubSeq(mma8451_read, n + 1, 14), Reading(n + 1)',
         call \in {"init", "axis"}, ~WriteCall, UNCHANGED <<call, phase>>
  PROVE  BusInv'
<1>1. n + 1 \in 1 .. 14 /\ AtRead(n + 1)'
  BY DEF AtRead
<1>2. (call \in {"init", "axis"})' /\ (~WriteCall)'
  BY DEF WriteCall
<1>3. \E m \in 1 .. 14 :
        AtRead(m)' /\ Reading(m)' /\ (call \in {"init", "axis"})' /\ (~WriteCall)'
  BY <1>1, <1>2
<1> QED BY <1>3 DEF BusInv

LEMMA WriteGoesOn ==
  ASSUME NEW n \in 1 .. 7, script' = SubSeq(mma8451_write, n + 1, 8), Writing(n + 1)',
         WriteCall, UNCHANGED <<call, phase>>
  PROVE  BusInv'
<1>1. n + 1 \in 1 .. 8 /\ AtWrite(n + 1)'
  BY DEF AtWrite
<1>2. WriteCall'
  BY DEF WriteCall
<1>3. \E m \in 1 .. 8 : AtWrite(m)' /\ Writing(m)' /\ WriteCall'
  BY <1>1, <1>2
<1> QED BY <1>3 DEF BusInv

\* What the callers know does not change in an operation.
LEMMA CallKept ==
  ASSUME CallInv, UNCHANGED <<call, phase, reg, addr, value, msb, lsb, ctrl, fixed>>
  PROVE  CallInv'
BY DEF CallInv, WriteCall, OneSample, fixed

LEMMA StartStep == IInv /\ i2c_start => IInv'
<1> SUFFICES ASSUME IInv, i2c_start PROVE IInv'
  OBVIOUS
<1>1. /\ Op("start") /\ mst' = TRUE /\ tx' = TRUE
      /\ bus' = IF mst THEN bus ELSE "address"
      /\ UNCHANGED <<program, txak, iicif, transfer, d, pointer, ctrl, sample, latch, fixed>>
  BY DEF i2c_start
<1>2. Types' /\ CallInv'
  BY <1>1, CallKept DEF IInv, Types, program, fixed
<1>3. CASE \E n \in 1 .. 14 :
             /\ mma8451_read[n] = "start" /\ Reading(n) /\ call \in {"init", "axis"} /\ ~WriteCall
             /\ script' = SubSeq(mma8451_read, n + 1, 14)
  <2>1. /\ Reading(1) /\ call \in {"init", "axis"} /\ ~WriteCall
        /\ script' = SubSeq(mma8451_read, 1 + 1, 14)
    BY <1>3, ReadPositions
  <2>2. Reading(1 + 1)'
    BY <1>1, <2>1 DEF Reading, Still, Seen, ReadBus, Held, program, fixed
  <2>3. UNCHANGED <<call, phase>>
    BY <1>1 DEF program
  <2> QED BY <2>1, <2>2, <2>3, <1>2, ReadGoesOn DEF IInv
<1>4. CASE \E n \in 1 .. 8 :
             /\ mma8451_write[n] = "start" /\ Writing(n) /\ WriteCall
             /\ script' = SubSeq(mma8451_write, n + 1, 8)
  <2>1. Writing(1) /\ WriteCall /\ script' = SubSeq(mma8451_write, 1 + 1, 8)
    BY <1>4, WritePositions
  <2>2. Writing(1 + 1)'
    BY <1>1, <2>1 DEF Writing, Still, Seen, WriteBus, program, fixed
  <2>3. UNCHANGED <<call, phase>>
    BY <1>1 DEF program
  <2> QED BY <2>1, <2>2, <2>3, <1>2, WriteGoesOn DEF IInv
<1> QED BY <1>1, <1>3, <1>4, OpCases DEF OpNames, IInv

LEMMA RestartStep == IInv /\ i2c_repeated_start => IInv'
<1> SUFFICES ASSUME IInv, i2c_repeated_start PROVE IInv'
  OBVIOUS
<1>1. /\ Op("restart") /\ bus' = IF mst THEN "address" ELSE bus
      /\ UNCHANGED <<program, controller, pointer, ctrl, sample, latch, fixed>>
  BY DEF i2c_repeated_start
<1>2. Types' /\ CallInv'
  BY <1>1, CallKept DEF IInv, Types, program, controller, fixed
<1>3. /\ Reading(6) /\ call \in {"init", "axis"} /\ ~WriteCall
      /\ script' = SubSeq(mma8451_read, 6 + 1, 14)
  BY <1>1, OpCases, ReadPositions, WritePositions DEF OpNames, IInv
<1>4. Reading(6 + 1)'
  BY <1>1, <1>3 DEF Reading, Still, Seen, ReadBus, Held, Addressed, program, controller, fixed
<1>5. UNCHANGED <<call, phase>>
  BY <1>1 DEF program
<1> QED BY <1>2, <1>3, <1>4, <1>5, ReadGoesOn DEF IInv

\* A byte that is sent leaves what the callers know alone; in transmit mode it starts a
\* transfer.
LEMMA SendStep == IInv /\ i2c_write => IInv'
<1> SUFFICES ASSUME IInv, i2c_write PROVE IInv'
  OBVIOUS
<1>1. ASSUME NEW name, NEW byte, Send(name, byte)
      PROVE  /\ Op(name) /\ d' = byte
             /\ transfer' = IF mst /\ tx THEN "send" ELSE transfer
             /\ UNCHANGED <<program, mst, tx, txak, iicif, sensor, fixed>>
             /\ UNCHANGED <<call, phase>>
             /\ Types' /\ CallInv'
  <2>1. UNCHANGED <<program, mst, tx, txak, iicif, sensor, fixed>>
    BY <1>1 DEF Send
  <2>2. Types' /\ CallInv'
    BY <2>1, CallKept DEF IInv, Types, program, sensor, fixed
  <2> QED BY <1>1, <2>1, <2>2 DEF Send, program
<1>2. CASE Send("slave_w", Slave(I2C_WRITE))
  <2> DEFINE byte == Slave(I2C_WRITE)
  <2>0. /\ Op("slave_w") /\ d' = byte
        /\ transfer' = IF mst /\ tx THEN "send" ELSE transfer
        /\ UNCHANGED <<program, mst, tx, txak, iicif, sensor, fixed>>
    BY <1>1, <1>2
  <2>1. CASE \E n \in 1 .. 14 :
               /\ mma8451_read[n] = "slave_w" /\ Reading(n) /\ call \in {"init", "axis"}
               /\ ~WriteCall /\ script' = SubSeq(mma8451_read, n + 1, 14)
    <3>1. /\ Reading(2) /\ call \in {"init", "axis"} /\ ~WriteCall
          /\ script' = SubSeq(mma8451_read, 2 + 1, 14)
      BY <2>1, ReadPositions
    <3>2. Reading(2 + 1)'
      BY <2>0, <3>1
         DEF Reading, Still, Moving, Seen, ReadBus, Held, program, sensor, fixed
    <3> QED BY <1>1, <1>2, <3>1, <3>2, ReadGoesOn DEF IInv
  <2>2. CASE \E n \in 1 .. 8 :
               /\ mma8451_write[n] = "slave_w" /\ Writing(n) /\ WriteCall
               /\ script' = SubSeq(mma8451_write, n + 1, 8)
    <3>1. Writing(2) /\ WriteCall /\ script' = SubSeq(mma8451_write, 2 + 1, 8)
      BY <2>2, WritePositions
    <3>2. Writing(2 + 1)'
      BY <2>0, <3>1 DEF Writing, Still, Moving, Seen, WriteBus, program, sensor, fixed
    <3> QED BY <1>1, <1>2, <3>1, <3>2, WriteGoesOn DEF IInv
  <2> QED BY <1>1, <1>2, <2>1, <2>2, OpCases DEF OpNames, IInv
<1>3. CASE Send("slave_r", Slave(I2C_READ))
  <2> DEFINE byte == Slave(I2C_READ)
  <2>0. /\ Op("slave_r") /\ d' = byte
        /\ transfer' = IF mst /\ tx THEN "send" ELSE transfer
        /\ UNCHANGED <<program, mst, tx, txak, iicif, sensor, fixed>>
    BY <1>1, <1>3
  <2>1. /\ Reading(7) /\ call \in {"init", "axis"} /\ ~WriteCall
        /\ script' = SubSeq(mma8451_read, 7 + 1, 14)
    BY <1>1, <1>3, OpCases, ReadPositions, WritePositions DEF OpNames, IInv
  <2>2. Reading(7 + 1)'
    BY <2>0, <2>1
       DEF Reading, Still, Moving, Seen, ReadBus, Held, Addressed, program, sensor, fixed
  <2> QED BY <1>1, <1>3, <2>1, <2>2, ReadGoesOn DEF IInv
<1>4. CASE Send("number", RegisterNumber(addr))
  <2> DEFINE byte == RegisterNumber(addr)
  <2>0. /\ Op("number") /\ d' = byte
        /\ transfer' = IF mst /\ tx THEN "send" ELSE transfer
        /\ UNCHANGED <<program, mst, tx, txak, iicif, sensor, fixed>>
    BY <1>1, <1>4
  <2>1. CASE \E n \in 1 .. 14 :
               /\ mma8451_read[n] = "number" /\ Reading(n) /\ call \in {"init", "axis"}
               /\ ~WriteCall /\ script' = SubSeq(mma8451_read, n + 1, 14)
    <3>1. /\ Reading(4) /\ call \in {"init", "axis"} /\ ~WriteCall
          /\ script' = SubSeq(mma8451_read, 4 + 1, 14)
      BY <2>1, ReadPositions
    <3>2. Reading(4 + 1)'
      BY <2>0, <3>1
         DEF Reading, Still, Moving, Seen, ReadBus, Held, RegisterNumber, program, sensor, fixed
    <3> QED BY <1>1, <1>4, <3>1, <3>2, ReadGoesOn DEF IInv
  <2>2. CASE \E n \in 1 .. 8 :
               /\ mma8451_write[n] = "number" /\ Writing(n) /\ WriteCall
               /\ script' = SubSeq(mma8451_write, n + 1, 8)
    <3>1. Writing(4) /\ WriteCall /\ script' = SubSeq(mma8451_write, 4 + 1, 8)
      BY <2>2, WritePositions
    <3>2. Writing(4 + 1)'
      BY <2>0, <3>1
         DEF Writing, Still, Moving, Seen, WriteBus, RegisterNumber, program, sensor, fixed
    <3> QED BY <1>1, <1>4, <3>1, <3>2, WriteGoesOn DEF IInv
  <2> QED BY <1>1, <1>4, <2>1, <2>2, OpCases DEF OpNames, IInv
<1>5. CASE Send("value", Value(value))
  <2> DEFINE byte == Value(value)
  <2>0. /\ Op("value") /\ d' = byte
        /\ transfer' = IF mst /\ tx THEN "send" ELSE transfer
        /\ UNCHANGED <<program, mst, tx, txak, iicif, sensor, fixed>>
    BY <1>1, <1>5
  <2>1. Writing(6) /\ WriteCall /\ script' = SubSeq(mma8451_write, 6 + 1, 8)
    BY <1>1, <1>5, OpCases, ReadPositions, WritePositions DEF OpNames, IInv
  <2>2. Writing(6 + 1)'
    BY <2>0, <2>1
       DEF Writing, Still, Moving, Seen, WriteBus, Addressed, Value, program, sensor, fixed
  <2> QED BY <1>1, <1>5, <2>1, <2>2, WriteGoesOn DEF IInv
<1> QED BY <1>2, <1>3, <1>4, <1>5 DEF i2c_write

\* The wait ends when the transfer has.
LEMMA WaitStep == IInv /\ i2c_wait => IInv'
<1> SUFFICES ASSUME IInv, i2c_wait PROVE IInv'
  OBVIOUS
<1>1. /\ Op("wait") /\ iicif /\ ~iicif' /\ iicif' = FALSE
      /\ UNCHANGED <<program, mst, tx, txak, transfer, d, sensor, fixed>>
      /\ UNCHANGED <<call, phase>>
  BY DEF i2c_wait, program
<1>2. Types' /\ CallInv'
  BY <1>1, CallKept DEF IInv, Types, program, sensor, fixed
<1>3. CASE \E n \in 1 .. 14 :
             /\ mma8451_read[n] = "wait" /\ Reading(n) /\ call \in {"init", "axis"} /\ ~WriteCall
             /\ script' = SubSeq(mma8451_read, n + 1, 14)
  <2>1. PICK n \in 1 .. 14 :
          /\ n \in {3, 5, 8, 12}
          /\ Reading(n) /\ call \in {"init", "axis"} /\ ~WriteCall
          /\ script' = SubSeq(mma8451_read, n + 1, 14)
    BY <1>3, ReadPositions
  <2>2. CASE n = 3
    <3>1. Reading(3 + 1)'
      BY <1>1, <2>1, <2>2
         DEF Reading, Still, Moving, Seen, ReadBus, Held, program, sensor, fixed
    <3> QED BY <1>1, <1>2, <2>1, <2>2, <3>1, ReadGoesOn DEF IInv
  <2>3. CASE n = 5
    <3>1. Reading(5 + 1)'
      BY <1>1, <2>1, <2>3
         DEF Reading, Still, Moving, Seen, ReadBus, Held, Addressed, program, sensor, fixed
    <3> QED BY <1>1, <1>2, <2>1, <2>3, <3>1, ReadGoesOn DEF IInv
  <2>4. CASE n = 8
    <3>1. Reading(8 + 1)'
      BY <1>1, <2>1, <2>4
         DEF Reading, Still, Moving, Seen, ReadBus, Held, Addressed, program, sensor, fixed
    <3> QED BY <1>1, <1>2, <2>1, <2>4, <3>1, ReadGoesOn DEF IInv
  <2>5. CASE n = 12
    <3>1. Reading(12 + 1)'
      BY <1>1, <2>1, <2>5
         DEF Reading, Still, Moving, Seen, ReadBus, Answer, program, sensor, fixed
    <3> QED BY <1>1, <1>2, <2>1, <2>5, <3>1, ReadGoesOn DEF IInv
  <2> QED BY <2>1, <2>2, <2>3, <2>4, <2>5
<1>4. CASE \E n \in 1 .. 8 :
             /\ mma8451_write[n] = "wait" /\ Writing(n) /\ WriteCall
             /\ script' = SubSeq(mma8451_write, n + 1, 8)
  <2>1. PICK n \in {3, 5, 7} :
          Writing(n) /\ WriteCall /\ script' = SubSeq(mma8451_write, n + 1, 8)
    BY <1>4, WritePositions
  <2>2. CASE n = 3
    <3>1. Writing(3 + 1)'
      BY <1>1, <2>1, <2>2 DEF Writing, Still, Moving, Seen, WriteBus, program, sensor, fixed
    <3> QED BY <1>1, <1>2, <2>1, <2>2, <3>1, WriteGoesOn DEF IInv
  <2>3. CASE n = 5
    <3>1. Writing(5 + 1)'
      BY <1>1, <2>1, <2>3
         DEF Writing, Still, Moving, Seen, WriteBus, Addressed, program, sensor, fixed
    <3> QED BY <1>1, <1>2, <2>1, <2>3, <3>1, WriteGoesOn DEF IInv
  <2>4. CASE n = 7
    <3>1. Writing(7 + 1)'
      BY <1>1, <2>1, <2>4 DEF Writing, Still, Moving, Seen, WriteBus, program, sensor, fixed
    <3> QED BY <1>1, <1>2, <2>1, <2>4, <3>1, WriteGoesOn DEF IInv
  <2> QED BY <2>2, <2>3, <2>4
<1> QED BY <1>1, <1>3, <1>4, OpCases DEF OpNames, IInv

LEMMA SetRxStep == IInv /\ i2c_set_rx => IInv'
<1> SUFFICES ASSUME IInv, i2c_set_rx PROVE IInv'
  OBVIOUS
<1>1. /\ Op("set_rx") /\ tx' = FALSE
      /\ UNCHANGED <<program, mst, txak, iicif, transfer, d, sensor, fixed>>
  BY DEF i2c_set_rx
<1>2. Types' /\ CallInv'
  BY <1>1, CallKept DEF IInv, Types, program, sensor, fixed
<1>3. /\ Reading(9) /\ call \in {"init", "axis"} /\ ~WriteCall
      /\ script' = SubSeq(mma8451_read, 9 + 1, 14)
  BY <1>1, OpCases, ReadPositions, WritePositions DEF OpNames, IInv
<1>4. Reading(9 + 1)'
  BY <1>1, <1>3 DEF Reading, Still, Seen, ReadBus, Held, Addressed, program, sensor, fixed
<1>5. UNCHANGED <<call, phase>>
  BY <1>1 DEF program
<1> QED BY <1>2, <1>3, <1>4, <1>5, ReadGoesOn DEF IInv

LEMMA NackStep == IInv /\ i2c_give_nack => IInv'
<1> SUFFICES ASSUME IInv, i2c_give_nack PROVE IInv'
  OBVIOUS
<1>1. /\ Op("nack") /\ txak' = TRUE
      /\ UNCHANGED <<program, mst, tx, iicif, transfer, d, sensor, fixed>>
  BY DEF i2c_give_nack
<1>2. Types' /\ CallInv'
  BY <1>1, CallKept DEF IInv, Types, program, sensor, fixed
<1>3. /\ Reading(10) /\ call \in {"init", "axis"} /\ ~WriteCall
      /\ script' = SubSeq(mma8451_read, 10 + 1, 14)
  BY <1>1, OpCases, ReadPositions, WritePositions DEF OpNames, IInv
<1>4. Reading(10 + 1)'
  BY <1>1, <1>3 DEF Reading, Still, Seen, ReadBus, Held, Addressed, program, sensor, fixed
<1>5. UNCHANGED <<call, phase>>
  BY <1>1 DEF program
<1> QED BY <1>2, <1>3, <1>4, <1>5, ReadGoesOn DEF IInv

\* The load that starts the transfer of the byte.
LEMMA DummyStep == IInv /\ DummyRead => IInv'
<1> SUFFICES ASSUME IInv, DummyRead PROVE IInv'
  OBVIOUS
<1>1. /\ Op("dummy") /\ transfer' = IF mst /\ ~tx THEN "receive" ELSE transfer
      /\ UNCHANGED <<program, mst, tx, txak, iicif, d, sensor, fixed>>
  BY DEF DummyRead, i2c_read
<1>2. Types' /\ CallInv'
  BY <1>1, CallKept DEF IInv, Types, program, sensor, fixed
<1>3. /\ Reading(11) /\ call \in {"init", "axis"} /\ ~WriteCall
      /\ script' = SubSeq(mma8451_read, 11 + 1, 14)
  BY <1>1, OpCases, ReadPositions, WritePositions DEF OpNames, IInv
<1>4. Reading(11 + 1)'
  BY <1>1, <1>3 DEF Reading, Still, Moving, Seen, ReadBus, Held, Addressed, program, sensor, fixed
<1>5. UNCHANGED <<call, phase>>
  BY <1>1 DEF program
<1> QED BY <1>2, <1>3, <1>4, <1>5, ReadGoesOn DEF IInv

\* The load that takes the byte comes after the stop, and starts no transfer.
LEMMA TakeStep == IInv /\ TakeByte => IInv'
<1> SUFFICES ASSUME IInv, TakeByte PROVE IInv'
  OBVIOUS
<1>1. /\ Op("take") /\ transfer' = IF mst /\ ~tx THEN "receive" ELSE transfer
      /\ result' = d
      /\ UNCHANGED <<call, phase, reg, addr, value, msb, lsb, mst, tx, txak, iicif, d, sensor,
                     fixed>>
  BY DEF TakeByte, i2c_read
<1>2. Types' /\ CallInv'
  BY <1>1, CallKept DEF IInv, Types, sensor, fixed
<1>3. /\ Reading(14) /\ call \in {"init", "axis"} /\ ~WriteCall
      /\ script' = SubSeq(mma8451_read, 14 + 1, 14)
  BY <1>1, OpCases, ReadPositions, WritePositions DEF OpNames, IInv
<1>4. script' = << >>
  BY <1>3, Beginnings
<1>5. Resting'
  BY <1>1, <1>3 DEF Reading, ReadBus, Resting, Still, Seen, sensor, fixed
<1>6. Answer(result)' /\ (~WriteCall)'
  BY <1>1, <1>3 DEF Reading, Answer, WriteCall, sensor, fixed
<1> QED BY <1>2, <1>4, <1>5, <1>6 DEF IInv, BusInv

\* The stop finds the bus free: the last transfer has ended, and the sensor has released
\* the data line.
LEMMA StopStep == IInv /\ i2c_stop => IInv'
<1> SUFFICES ASSUME IInv, i2c_stop PROVE IInv'
  OBVIOUS
<1>1. /\ Op("stop") /\ mst' = FALSE /\ tx' = FALSE
      /\ mst /\ bus # "sending" /\ transfer = "none" => bus' = "idle"
      /\ UNCHANGED <<program, txak, iicif, transfer, d, pointer, ctrl, sample, latch, fixed>>
      /\ UNCHANGED <<call, phase>>
  BY DEF i2c_stop, program
<1>2. Types' /\ CallInv'
  BY <1>1, CallKept DEF IInv, Types, program, fixed
<1>3. CASE \E n \in 1 .. 14 :
             /\ mma8451_read[n] = "stop" /\ Reading(n) /\ call \in {"init", "axis"} /\ ~WriteCall
             /\ script' = SubSeq(mma8451_read, n + 1, 14)
  <2>1. /\ Reading(13) /\ call \in {"init", "axis"} /\ ~WriteCall
        /\ script' = SubSeq(mma8451_read, 13 + 1, 14)
    BY <1>3, ReadPositions
  <2>2. Reading(13 + 1)'
    BY <1>1, <2>1 DEF Reading, Still, Seen, ReadBus, Answer, program, fixed
  <2> QED BY <1>1, <1>2, <2>1, <2>2, ReadGoesOn DEF IInv
<1>4. CASE \E n \in 1 .. 8 :
             /\ mma8451_write[n] = "stop" /\ Writing(n) /\ WriteCall
             /\ script' = SubSeq(mma8451_write, n + 1, 8)
  <2>1. Writing(8) /\ WriteCall /\ script' = SubSeq(mma8451_write, 8 + 1, 8)
    BY <1>4, WritePositions
  <2>2. script' = << >>
    BY <2>1, Beginnings
  <2>3. Resting'
    BY <1>1, <2>1 DEF Writing, WriteBus, Resting, Still, Seen, fixed
  <2>4. (present => ctrl = value)'
    BY <1>1, <2>1 DEF Writing, program, fixed
  <2>5. WriteCall'
    BY <1>1, <2>1 DEF WriteCall
  <2> QED BY <1>2, <2>2, <2>3, <2>4, <2>5 DEF IInv, BusInv, WriteCall
<1> QED BY <1>1, <1>3, <1>4, OpCases DEF OpNames, IInv

-----------------------------------------------------------------------------
(* The bus controller and the sensor.                                          *)

LEMMA ReadStays ==
  ASSUME NEW n \in 1 .. 14, AtRead(n), Reading(n)', call \in {"init", "axis"}, ~WriteCall,
         UNCHANGED <<script, call, phase>>
  PROVE  BusInv'
<1>1. AtRead(n)' /\ (call \in {"init", "axis"})' /\ (~WriteCall)'
  BY DEF AtRead, WriteCall
<1>2. \E m \in 1 .. 14 :
        AtRead(m)' /\ Reading(m)' /\ (call \in {"init", "axis"})' /\ (~WriteCall)'
  BY <1>1
<1> QED BY <1>2 DEF BusInv

LEMMA WriteStays ==
  ASSUME NEW n \in 1 .. 8, AtWrite(n), Writing(n)', WriteCall, UNCHANGED <<script, call, phase>>
  PROVE  BusInv'
<1>1. AtWrite(n)' /\ WriteCall'
  BY DEF AtWrite, WriteCall
<1>2. \E m \in 1 .. 8 : AtWrite(m)' /\ Writing(m)' /\ WriteCall'
  BY <1>1
<1> QED BY <1>2 DEF BusInv

\* A byte is sent only where the transaction waits for that.
LEMMA SentStep == IInv /\ Sent => IInv'
<1> SUFFICES ASSUME IInv, Sent PROVE IInv'
  OBVIOUS
<1>1. /\ transfer = "send" /\ transfer' = "none" /\ iicif' = TRUE
      /\ UNCHANGED <<program, script, mst, tx, txak, d, sample, latch, fixed>>
      /\ UNCHANGED <<script, call, phase>>
  BY DEF Sent, program
<1>2. /\ bus = "address" =>
           /\ bus' = CASE ~present -> "unanswered"
                       [] present /\ d = Slave(I2C_WRITE) -> "register"
                       [] present /\ d = Slave(I2C_READ) -> "sending"
                       [] OTHER -> "unanswered"
           /\ UNCHANGED <<pointer, ctrl>>
      /\ bus = "register" => bus' = "data" /\ pointer' = d[2] /\ ctrl' = ctrl
      /\ bus = "data" => /\ ctrl' = IF pointer = CTRL_REG1 THEN d[3] ELSE ctrl
                         /\ UNCHANGED <<bus, pointer>>
      /\ bus = "unanswered" => UNCHANGED <<bus, pointer, ctrl>>
  BY DEF Sent
<1>3. Slave(I2C_WRITE) # Slave(I2C_READ)
  BY DEF Slave, I2C_WRITE, I2C_READ
<1>4. ASSUME pointer' \in Registers, ctrl' = ctrl PROVE Types' /\ CallInv'
  BY <1>1, <1>4, CallKept DEF IInv, Types, program, fixed
<1>5. CASE \E n \in 1 .. 14 :
             AtRead(n) /\ Reading(n) /\ call \in {"init", "axis"} /\ ~WriteCall
  <2>1. PICK n \in 1 .. 14 :
          AtRead(n) /\ Reading(n) /\ call \in {"init", "axis"} /\ ~WriteCall
    BY <1>5
  <2>2. n \in {3, 5, 8}
    BY <1>1, <2>1 DEF Reading, Still, Moving
  <2>3. CASE n = 3
    <3>1. Reading(3)
      BY <2>1, <2>3
    <3>2. bus = "address" /\ d = Slave(I2C_WRITE) /\ Held
      BY <1>1, <3>1 DEF Reading, Moving, Seen, ReadBus
    <3>3. bus' = (IF present THEN "register" ELSE "unanswered") /\ UNCHANGED <<pointer, ctrl>>
      BY <1>2, <1>3, <3>2
    <3>4. Reading(3)'
      BY <1>1, <3>1, <3>2, <3>3 DEF Reading, Moving, Seen, ReadBus, Held, program, fixed
    <3>5. Types' /\ CallInv'
      BY <1>4, <3>3 DEF IInv, Types
    <3> QED BY <1>1, <2>1, <2>3, <3>4, <3>5, ReadStays DEF IInv
  <2>4. CASE n = 5
    <3>1. Reading(5)
      BY <2>1, <2>4
    <3>2. bus = (IF present THEN "register" ELSE "unanswered") /\ d[2] = addr /\ Held
      BY <1>1, <3>1 DEF Reading, Moving, Seen, ReadBus, RegisterNumber
    <3>3. /\ ctrl' = ctrl /\ pointer' \in Registers
          /\ bus' = IF present THEN "data" ELSE "unanswered"
          /\ present => pointer' = addr
      BY <1>2, <3>2 DEF IInv, Types
    <3>4. Reading(5)'
      BY <1>1, <3>1, <3>2, <3>3
         DEF Reading, Moving, Seen, ReadBus, Held, Addressed, program, fixed
    <3>5. Types' /\ CallInv'
      BY <1>4, <3>3
    <3> QED BY <1>1, <2>1, <2>4, <3>4, <3>5, ReadStays DEF IInv
  <2>5. CASE n = 8
    <3>1. Reading(8)
      BY <2>1, <2>5
    <3>2. bus = "address" /\ d = Slave(I2C_READ) /\ Held /\ Addressed
      BY <1>1, <3>1 DEF Reading, Moving, Seen, ReadBus
    <3>3. bus' = (IF present THEN "sending" ELSE "unanswered") /\ UNCHANGED <<pointer, ctrl>>
      BY <1>2, <1>3, <3>2
    <3>4. Reading(8)'
      BY <1>1, <3>1, <3>2, <3>3
         DEF Reading, Moving, Seen, ReadBus, Held, Addressed, program, fixed
    <3>5. Types' /\ CallInv'
      BY <1>4, <3>3 DEF IInv, Types
    <3> QED BY <1>1, <2>1, <2>5, <3>4, <3>5, ReadStays DEF IInv
  <2> QED BY <2>2, <2>3, <2>4, <2>5
<1>6. CASE \E n \in 1 .. 8 : AtWrite(n) /\ Writing(n) /\ WriteCall
  <2>1. PICK n \in 1 .. 8 : AtWrite(n) /\ Writing(n) /\ WriteCall
    BY <1>6
  <2>2. n \in {3, 5, 7}
    BY <1>1, <2>1 DEF Writing, Still, Moving
  <2>3. CASE n = 3
    <3>1. Writing(3)
      BY <2>1, <2>3
    <3>2. bus = "address" /\ d = Slave(I2C_WRITE)
      BY <1>1, <3>1 DEF Writing, Moving, Seen, WriteBus
    <3>3. bus' = (IF present THEN "register" ELSE "unanswered") /\ UNCHANGED <<pointer, ctrl>>
      BY <1>2, <1>3, <3>2
    <3>4. Writing(3)'
      BY <1>1, <3>1, <3>2, <3>3 DEF Writing, Moving, Seen, WriteBus, program, fixed
    <3>5. Types' /\ CallInv'
      BY <1>4, <3>3 DEF IInv, Types
    <3> QED BY <1>1, <2>1, <2>3, <3>4, <3>5, WriteStays DEF IInv
  <2>4. CASE n = 5
    <3>1. Writing(5)
      BY <2>1, <2>4
    <3>2. bus = (IF present THEN "register" ELSE "unanswered") /\ d[2] = addr
      BY <1>1, <3>1 DEF Writing, Moving, Seen, WriteBus, RegisterNumber
    <3>3. /\ ctrl' = ctrl /\ pointer' \in Registers
          /\ bus' = IF present THEN "data" ELSE "unanswered"
          /\ present => pointer' = addr
      BY <1>2, <3>2 DEF IInv, Types
    <3>4. Writing(5)'
      BY <1>1, <3>1, <3>2, <3>3 DEF Writing, Moving, Seen, WriteBus, Addressed, program, fixed
    <3>5. Types' /\ CallInv'
      BY <1>4, <3>3
    <3> QED BY <1>1, <2>1, <2>4, <3>4, <3>5, WriteStays DEF IInv
  <2>5. CASE n = 7
    <3>1. Writing(7)
      BY <2>1, <2>5
    <3>2. /\ bus = (IF present THEN "data" ELSE "unanswered") /\ d[3] = value
          /\ present => pointer = CTRL_REG1
      BY <1>1, <2>1, <3>1
         DEF Writing, Moving, Seen, WriteBus, Value, Addressed, IInv, CallInv, WriteCall
    <3>3. ctrl' = (IF present THEN value ELSE ctrl) /\ UNCHANGED <<bus, pointer>>
      BY <1>2, <3>2
    <3>4. Writing(7)'
      BY <1>1, <3>1, <3>2, <3>3 DEF Writing, Moving, Seen, WriteBus, Addressed, program, fixed
    <3>5. Types'
      BY <1>1, <3>3 DEF IInv, Types, program, fixed
    <3>6. CallInv'
      BY <1>1, <2>1 DEF IInv, CallInv, WriteCall, program, fixed
    <3> QED BY <1>1, <2>1, <2>5, <3>4, <3>5, <3>6, WriteStays DEF IInv
  <2> QED BY <2>2, <2>3, <2>4, <2>5
<1> QED BY <1>1, <1>5, <1>6 DEF IInv, BusInv, Resting, Still

\* A byte is received only for the dummy read: it is refused, and it is the register's.
LEMMA ReceivedStep == IInv /\ Received => IInv'
<1> SUFFICES ASSUME IInv, Received PROVE IInv'
  OBVIOUS
<1>1. /\ transfer = "receive" /\ transfer' = "none" /\ iicif' = TRUE
      /\ UNCHANGED <<program, script, mst, tx, txak, ctrl, sample, fixed>>
      /\ UNCHANGED <<script, call, phase>>
  BY DEF Received, program
<1>2. PICK n \in 1 .. 14 :
        AtRead(n) /\ Reading(n) /\ call \in {"init", "axis"} /\ ~WriteCall
  BY <1>1 DEF IInv, BusInv, Resting, Still, Writing, Moving
<1>3. n = 12
  BY <1>1, <1>2 DEF Reading, Still, Moving
<1>4. Reading(12) /\ ~iicif /\ bus = Seen("sending") /\ Addressed /\ Held /\ txak
  BY <1>1, <1>2, <1>3 DEF Reading, Moving, ReadBus
<1>5. ASSUME present PROVE Reading(12)' /\ pointer' \in Registers /\ latch' \in -1 .. MaxSample
  <2>1. /\ pointer = CTRL_REG1 => d' = Content(pointer, ctrl)
        /\ pointer # CTRL_REG1 /\ pointer \in Lsb /\ latch # -1 => d' = Content(pointer, latch)
        /\ pointer # CTRL_REG1 /\ ~(pointer \in Lsb /\ latch # -1) => d' = Content(pointer, sample)
        /\ latch' = IF pointer \in Msb THEN sample ELSE -1
        /\ pointer' = Next14(pointer)
        /\ bus' = "released"
    <3>1. bus = "sending" /\ txak
      BY <1>4, <1>5 DEF Seen
    <3>2. /\ d' = CASE pointer = CTRL_REG1 -> Content(pointer, ctrl)
                    [] pointer \in Lsb /\ latch # -1 -> Content(pointer, latch)
                    [] OTHER -> Content(pointer, sample)
          /\ latch' = IF pointer \in Msb THEN sample ELSE -1
          /\ pointer' = Next14(pointer)
          /\ bus' = IF txak THEN "released" ELSE "sending"
      BY <3>1 DEF Received
    <3>3. CASE pointer = CTRL_REG1
      <4>1. pointer \notin Lsb
        BY <3>3 DEF CTRL_REG1, Lsb, Axes
      <4> QED BY <3>1, <3>2, <3>3, <4>1
    <3>4. CASE pointer # CTRL_REG1 /\ pointer \in Lsb /\ latch # -1
      BY <3>1, <3>2, <3>4
    <3>5. CASE pointer # CTRL_REG1 /\ ~(pointer \in Lsb /\ latch # -1)
      BY <3>1, <3>2, <3>5
    <3> QED BY <3>3, <3>4, <3>5
  <2>2. pointer = addr
    BY <1>4, <1>5 DEF Addressed
  <2>3. /\ call' = call /\ phase' = phase /\ addr' = addr /\ msb' = msb /\ ctrl0' = ctrl0
        /\ present' = present
    BY <1>1 DEF program, fixed
  <2>4. PICK v : d' = Content(addr, v)
    BY <2>1, <2>2
  <2>5. d' = Content(addr, d'[3])
    BY <2>4 DEF Content
  <2>6. call = "init" => d'[3] = ctrl0
    <3>1. SUFFICES ASSUME call = "init" PROVE d'[3] = ctrl0
      OBVIOUS
    <3>2. addr = CTRL_REG1 /\ ctrl = ctrl0
      BY <1>2, <3>1 DEF IInv, CallInv, WriteCall, Types
    <3>3. d' = Content(addr, ctrl0)
      BY <2>1, <2>2, <3>2
    <3> QED BY <3>3 DEF Content
  <2>7. call = "axis" /\ MsbFirst /\ phase = 1 => d'[3] = latch' /\ latch' # -1
    <3>1. SUFFICES ASSUME call = "axis", MsbFirst, phase = 1
                   PROVE  d'[3] = latch' /\ latch' # -1
      OBVIOUS
    <3>2. addr \in Axes
      BY <3>1 DEF IInv, CallInv, FirstRead, Types, Axes
    <3>3. addr # CTRL_REG1 /\ addr \notin Lsb /\ addr \in Msb
      BY <3>2 DEF CTRL_REG1, Lsb, Msb, Axes
    <3>4. d' = Content(addr, sample) /\ latch' = sample /\ sample # -1
      BY <2>1, <2>2, <3>3 DEF IInv, Types
    <3> QED BY <3>4 DEF Content
  <2>8. call = "axis" /\ MsbFirst /\ phase # 1 => d'[3] = msb[3]
    <3>1. SUFFICES ASSUME call = "axis", MsbFirst, phase # 1 PROVE d'[3] = msb[3]
      OBVIOUS
    <3>2. phase = 2 /\ addr = reg + 1 /\ reg \in Axes
      BY <3>1 DEF IInv, CallInv, FirstRead, Types, Axes
    <3>3. addr # CTRL_REG1 /\ addr \in Lsb
      BY <3>2 DEF CTRL_REG1, Lsb, Axes
    <3>4. msb[3] = latch /\ latch # -1
      BY <1>4, <1>5, <3>1, <3>2 DEF Held
    <3>5. d' = Content(addr, msb[3])
      BY <2>1, <2>2, <3>3, <3>4
    <3> QED BY <3>5 DEF Content
  <2>9. Answer(d)'
    BY <1>5, <2>3, <2>5, <2>6, <2>7, <2>8 DEF Answer
  <2>10. Reading(12)'
    <3>1. /\ mst /\ ~tx /\ txak
          /\ mst' = mst /\ tx' = tx /\ txak' = txak
      BY <1>1, <1>4 DEF Reading
    <3>2. transfer' = "none" /\ iicif' /\ bus' = Seen("released")'
      BY <1>1, <1>5, <2>1, <2>3 DEF Seen
    <3> QED BY <2>9, <3>1, <3>2 DEF Reading, Moving, ReadBus
  <2>11. pointer' \in Registers /\ latch' \in -1 .. MaxSample
    BY <2>1, <2>2, AccelAssumption DEF Next14, IInv, Types
  <2> QED BY <2>10, <2>11
<1>6. ASSUME ~present PROVE Reading(12)' /\ pointer' \in Registers /\ latch' \in -1 .. MaxSample
  <2>1. d' = None /\ UNCHANGED <<latch, pointer, bus, present>>
    BY <1>1, <1>4, <1>6 DEF Received, Seen, fixed
  <2>2. Answer(d)'
    BY <1>6, <2>1 DEF Answer
  <2>3. Reading(12)'
    BY <1>1, <1>4, <1>6, <2>1, <2>2 DEF Reading, Moving, Seen, ReadBus
  <2> QED BY <2>1, <2>3 DEF IInv, Types
<1>7. Types' /\ CallInv'
  BY <1>1, <1>5, <1>6, CallKept DEF IInv, Types, program, fixed
<1> QED BY <1>1, <1>2, <1>3, <1>5, <1>6, <1>7, ReadStays DEF IInv

LEMMA SampleStep == IInv /\ NewSample => IInv'
<1> SUFFICES ASSUME IInv, NewSample PROVE IInv'
  OBVIOUS
<1>1. /\ sample < MaxSample /\ sample' = sample + 1
      /\ UNCHANGED <<program, script, controller, bus, pointer, ctrl, latch, fixed>>
  BY DEF NewSample
<1>2. Types' /\ CallInv'
  BY <1>1, CallKept, AccelAssumption DEF IInv, Types, program, controller, fixed
<1>3. BusInv'
  BY <1>1 DEF IInv, BusInv, AtRead, AtWrite, Reading, Writing, Resting, Still, Moving, Seen,
              Addressed, Answer, Held, WriteCall, program, controller, fixed
<1> QED BY <1>2, <1>3 DEF IInv
-----------------------------------------------------------------------------
(* The callers.                                                                *)

\* Between two transactions the bus is at rest.
LEMMA AtRest ==
  ASSUME IInv, script = << >>
  PROVE  /\ Resting
         /\ WriteCall /\ present => ctrl = value
         /\ call = "axis" \/ (call = "init" /\ phase = 1) => Answer(result)
BY ReadOp, WriteOp DEF IInv, BusInv

LEMMA ReadBegins ==
  ASSUME Resting, script' = mma8451_read, UNCHANGED <<controller, sensor, fixed>>, Held',
         call' \in {"init", "axis"}, ~WriteCall'
  PROVE  BusInv'
<1>1. AtRead(1)'
  BY Beginnings DEF AtRead
<1>2. Reading(1)'
  BY DEF Resting, Reading, ReadBus, Still, Seen, controller, sensor, fixed
<1>3. \E n \in 1 .. 14 :
        AtRead(n)' /\ Reading(n)' /\ (call \in {"init", "axis"})' /\ (~WriteCall)'
  BY <1>1, <1>2
<1> QED BY <1>3 DEF BusInv

LEMMA WriteBegins ==
  ASSUME Resting, script' = mma8451_write, UNCHANGED <<controller, sensor, fixed>>, WriteCall',
         present => ctrl = ctrl0
  PROVE  BusInv'
<1>1. AtWrite(1)'
  BY Beginnings DEF AtWrite
<1>2. Writing(1)'
  BY DEF Resting, Writing, WriteBus, Still, Seen, controller, sensor, fixed
<1>3. \E n \in 1 .. 8 : AtWrite(n)' /\ Writing(n)' /\ WriteCall'
  BY <1>1, <1>2
<1> QED BY <1>3 DEF BusInv

LEMMA InitCallStep == IInv /\ accel_init => IInv'
<1> SUFFICES ASSUME IInv, accel_init PROVE IInv'
  OBVIOUS
<1> USE DEF Transaction
<1>1. CASE /\ call = "reset" /\ Transaction(mma8451_read, CTRL_REG1)
           /\ call' = "init" /\ phase' = 1
           /\ UNCHANGED <<reg, value, result, msb, lsb, controller, sensor, fixed>>
  <2>1. Types'
    BY <1>1 DEF IInv, Types, Registers, controller, sensor, fixed
  <2>2. CallInv'
    BY <1>1 DEF IInv, CallInv, WriteCall, sensor, fixed
  <2>3. Held' /\ ~WriteCall' /\ call' \in {"init", "axis"}
    BY <1>1 DEF Held, WriteCall
  <2>4. BusInv'
    BY <1>1, <2>3, AtRest, ReadBegins
  <2> QED BY <2>1, <2>2, <2>4 DEF IInv
<1>2. CASE /\ call = "init" /\ phase = 1 /\ Transaction(mma8451_write, CTRL_REG1)
           /\ value' = Activated(result[3])
           /\ phase' = 2
           /\ UNCHANGED <<call, reg, result, msb, lsb, controller, sensor, fixed>>
  <2>1. Answer(result) /\ Resting
    BY <1>2, AtRest
  <2>2. result[3] = IF present THEN ctrl0 ELSE 0
    BY <1>2, <2>1 DEF Answer, None
  <2>3. result[3] \in 0 .. 3
    BY <2>2 DEF IInv, Types
  <2>4. value' \in 0 .. 3 /\ (present => value' = Activated(ctrl0))
    BY <1>2, <2>2, <2>3 DEF Activated
  <2>5. Types'
    BY <1>2, <2>4 DEF IInv, Types, Registers, controller, sensor, fixed
  <2>6. WriteCall' /\ ctrl = ctrl0
    BY <1>2 DEF WriteCall, IInv, CallInv
  <2>7. CallInv'
    BY <1>2, <2>4 DEF IInv, CallInv, WriteCall, sensor, fixed
  <2>8. BusInv'
    BY <1>2, <2>1, <2>6, WriteBegins
  <2> QED BY <2>5, <2>7, <2>8 DEF IInv
<1>3. CASE /\ call = "init" /\ phase = 2 /\ script = << >>
           /\ call' = "idle"
           /\ UNCHANGED <<phase, script, reg, addr, value, result, msb, lsb, controller, sensor,
                          fixed>>
  <2>1. Resting /\ (present => ctrl = value)
    BY <1>3, AtRest DEF WriteCall
  <2>2. Types'
    BY <1>3 DEF IInv, Types, controller, sensor, fixed
  <2>3. msb = None /\ (present => ctrl = Activated(ctrl0))
    BY <1>3, <2>1 DEF IInv, CallInv, WriteCall
  <2>4. CallInv'
    BY <1>3, <2>3 DEF CallInv, WriteCall, OneSample, sensor, fixed
  <2>5. BusInv'
    BY <1>3, <2>1 DEF BusInv, Resting, Still, Seen, WriteCall, controller, sensor, fixed
  <2> QED BY <2>2, <2>4, <2>5 DEF IInv
<1> QED BY <1>1, <1>2, <1>3 DEF accel_init

LEMMA AxisCallStep == IInv /\ _read_reg14 => IInv'
<1> SUFFICES ASSUME IInv, _read_reg14 PROVE IInv'
  OBVIOUS
<1> USE DEF Transaction
<1>0. FirstRead \in {0, 1} /\ (MsbFirst => FirstRead = 0)
  BY DEF FirstRead
<1>1. CASE /\ call = "idle"
           /\ \E r \in Axes : reg' = r /\ Transaction(mma8451_read, r + FirstRead)
           /\ call' = "axis" /\ phase' = 1
           /\ msb' = None /\ lsb' = None
           /\ UNCHANGED <<value, result, controller, sensor, fixed>>
  <2>1. reg' \in Axes /\ addr' = reg' + FirstRead /\ script = << >> /\ script' = mma8451_read
    BY <1>1
  <2>2. addr' \in Registers
    BY <1>0, <2>1 DEF Registers, Msb, Lsb, Axes
  <2>3. Types'
    BY <1>1, <2>1, <2>2 DEF IInv, Types, controller, sensor, fixed
  <2>4. CallInv'
    BY <1>1, <2>1 DEF IInv, CallInv, WriteCall, sensor, fixed
  <2>5. Held' /\ ~WriteCall' /\ call' \in {"init", "axis"}
    BY <1>1 DEF Held, WriteCall
  <2>6. BusInv'
    BY <1>1, <2>1, <2>5, AtRest, ReadBegins
  <2> QED BY <2>3, <2>4, <2>6 DEF IInv
<1>2. CASE /\ call = "axis" /\ phase = 1
           /\ Transaction(mma8451_read, reg + 1 - FirstRead)
           /\ phase' = 2
           /\ IF FirstRead = 0 THEN msb' = result /\ UNCHANGED lsb
                               ELSE lsb' = result /\ UNCHANGED msb
           /\ UNCHANGED <<call, reg, value, result, controller, sensor, fixed>>
  <2>1. Answer(result) /\ Resting
    BY <1>2, AtRest
  <2>2. addr' = reg + (1 - FirstRead) /\ addr' \in Registers
    BY <1>0, <1>2 DEF IInv, Types, Registers, Msb, Lsb, Axes
  <2>3. Types'
    BY <1>2, <2>2 DEF IInv, Types, controller, sensor, fixed
  <2>4. MsbFirst => msb' = result /\ addr = reg
    BY <1>0, <1>2 DEF IInv, CallInv, Types, Axes
  <2>5. MsbFirst /\ present => msb' = Content(reg, msb'[3]) /\ msb'[3] = latch /\ latch # -1
    BY <1>2, <2>1, <2>4 DEF Answer
  <2>6. CallInv'
    BY <1>2, <2>2, <2>5 DEF IInv, CallInv, WriteCall, sensor, fixed
  <2>7. Held' /\ ~WriteCall' /\ call' \in {"init", "axis"}
    BY <1>2, <2>5 DEF Held, WriteCall, sensor, fixed
  <2>8. BusInv'
    BY <1>2, <2>1, <2>7, ReadBegins
  <2> QED BY <2>3, <2>6, <2>8 DEF IInv
<1>3. CASE /\ call = "axis" /\ phase = 2 /\ script = << >>
           /\ call' = "idle"
           /\ IF FirstRead = 0 THEN lsb' = result /\ UNCHANGED msb
                               ELSE msb' = result /\ UNCHANGED lsb
           /\ UNCHANGED <<phase, script, reg, addr, value, result, controller, sensor, fixed>>
  <2>1. Answer(result) /\ Resting
    BY <1>3, AtRest
  <2>2. Types'
    BY <1>3 DEF IInv, Types, controller, sensor, fixed
  <2>3. /\ MsbFirst /\ present => msb' = msb /\ msb = Content(reg, msb[3])
        /\ MsbFirst /\ present => lsb' = result /\ addr = reg + 1
    BY <1>0, <1>3 DEF IInv, CallInv, Types, Axes
  <2>4. MsbFirst /\ present => lsb' = Content(reg + 1, msb[3])
    BY <1>3, <2>1, <2>3 DEF Answer
  <2>5. MsbFirst => OneSample'
    BY <1>3, <2>3, <2>4 DEF OneSample, fixed
  <2>6. CallInv'
    BY <1>3, <2>5 DEF IInv, CallInv, WriteCall, sensor, fixed
  <2>7. BusInv'
    BY <1>3, <2>1 DEF BusInv, Resting, Still, Seen, WriteCall, controller, sensor, fixed
  <2> QED BY <2>2, <2>6, <2>7 DEF IInv
<1> QED BY <1>1, <1>2, <1>3 DEF _read_reg14

-----------------------------------------------------------------------------
LEMMA InitInv == Init => IInv
<1> SUFFICES ASSUME Init PROVE IInv
  OBVIOUS
<1>1. Types
  <2>1. sample \in 0 .. MaxSample /\ latch \in -1 .. MaxSample
    BY AccelAssumption DEF Init
  <2>2. reg \in Axes /\ addr \in Registers /\ pointer \in Registers
    BY DEF Init, Axes, Registers
  <2>3. /\ mst \in BOOLEAN /\ tx \in BOOLEAN /\ txak \in BOOLEAN /\ iicif \in BOOLEAN
        /\ present \in BOOLEAN
    BY DEF Init
  <2>4. /\ call \in {"reset", "idle", "init", "axis"} /\ phase \in 1 .. 2
        /\ value \in 0 .. 3 /\ ctrl \in 0 .. 3 /\ ctrl0 \in 0 .. 3
    BY DEF Init
  <2> QED BY <2>1, <2>2, <2>3, <2>4 DEF Types
<1>2. BusInv
  BY DEF Init, BusInv, Resting, Still, Seen, WriteCall
<1>3. CallInv
  BY DEF Init, CallInv, WriteCall
<1> QED BY <1>1, <1>2, <1>3 DEF IInv

LEMMA StutterStep == IInv /\ UNCHANGED vars => IInv'
BY DEF IInv, Types, BusInv, CallInv, AtRead, AtWrite, Reading, Writing, Resting, Still, Moving,
       Seen, Addressed, Answer, Held, WriteCall, OneSample, vars, program, controller, sensor,
       fixed

\* The inductive invariant holds of every behaviour.
THEOREM Invariance == Spec => []IInv
<1>1. IInv /\ [Next]_vars => IInv'
  BY StartStep, RestartStep, SendStep, WaitStep, SetRxStep, NackStep, DummyStep, TakeStep,
     StopStep, SentStep, ReceivedStep, SampleStep, InitCallStep, AxisCallStep, StutterStep
     DEF Next, Operation
<1> QED BY InitInv, <1>1, PTL DEF Spec
-----------------------------------------------------------------------------
(* The theorems.                                                               *)

LEMMA SomeTransaction ==
  ASSUME BusInv
  PROVE  \E t \in {mma8451_read, mma8451_write} :
           \E n \in 1 .. Len(t) + 1 : script = SubSeq(t, n, Len(t))
<1>1. CASE \E n \in 1 .. 15 : script = SubSeq(mma8451_read, n, 14)
  <2>1. Len(mma8451_read) = 14 /\ 1 .. Len(mma8451_read) + 1 = 1 .. 15
    BY Transactions
  <2> QED BY <1>1, <2>1, Zenon
<1>2. CASE \E n \in 1 .. 9 : script = SubSeq(mma8451_write, n, 8)
  <2>1. Len(mma8451_write) = 8 /\ 1 .. Len(mma8451_write) + 1 = 1 .. 9
    BY Transactions
  <2> QED BY <1>2, <2>1, Zenon
<1>3. 15 \in 1 .. 15 /\ 1 .. 14 \subseteq 1 .. 15 /\ 1 .. 8 \subseteq 1 .. 9
  OBVIOUS
<1>4. CASE script = << >>
  BY <1>1, <1>3, <1>4, Beginnings, Zenon
<1>5. CASE \E n \in 1 .. 14 : AtRead(n)
  BY <1>1, <1>3, <1>5, Zenon DEF AtRead
<1>6. CASE \E n \in 1 .. 8 : AtWrite(n)
  BY <1>2, <1>3, <1>6, Zenon DEF AtWrite
<1> QED BY <1>4, <1>5, <1>6 DEF BusInv

LEMMA BusRanges ==
  ASSUME BusInv
  PROVE  /\ transfer \in {"none", "send", "receive"}
         /\ bus \in {"idle", "address", "register", "data", "sending", "released",
                     "unanswered", "stuck"}
<1>1. \A n \in 1 .. 14 : ReadBus[n] \in {"idle", "address", "register", "data", "sending",
                                         "released"}
  BY DEF ReadBus
<1>2. \A n \in 1 .. 9 : WriteBus[n] \in {"idle", "address", "register", "data"}
  BY DEF WriteBus
<1>3. CASE script = << >> /\ Resting
  BY <1>3 DEF Resting, Still, Seen
<1>4. ASSUME NEW n \in 1 .. 14, Reading(n)
      PROVE  transfer \in {"none", "send", "receive"}
  BY <1>4 DEF Reading, Moving, Still
<1>5. ASSUME NEW n \in 1 .. 14, Reading(n)
      PROVE  bus \in {"idle", "address", "register", "data", "sending", "released",
                      "unanswered", "stuck"}
  <2>1. n \in {3, 5, 8, 12} => n + 1 \in 1 .. 14
    OBVIOUS
  <2>2. bus = Seen(ReadBus[n]) \/ (n + 1 \in 1 .. 14 /\ bus = Seen(ReadBus[n + 1]))
    BY <1>5, <2>1 DEF Reading, Moving, Still
  <2> QED BY <1>1, <2>2 DEF Seen
<1>6. ASSUME NEW n \in 1 .. 8, Writing(n)
      PROVE  /\ transfer \in {"none", "send", "receive"}
             /\ bus \in {"idle", "address", "register", "data", "sending", "released",
                         "unanswered", "stuck"}
  <2>1. bus = Seen(WriteBus[n]) \/ bus = Seen(WriteBus[n + 1])
    BY <1>6 DEF Writing, Moving, Still
  <2>2. transfer \in {"none", "send", "receive"}
    BY <1>6 DEF Writing, Moving, Still
  <2> QED BY <1>2, <2>1, <2>2 DEF Seen
<1> QED BY <1>3, <1>4, <1>5, <1>6 DEF BusInv

\* At every moment: each transaction leaves the bus free and the controller at rest,
\* whether or not a sensor answers; mma8451_read returns the content of the register it
\* was asked for; accel_init sets ACTIVE and changes no other bit of CTRL_REG1.  It is
\* what TLC checks with two samples, for any number of them and both orders of the reads.
THEOREM DriverIsCorrect == Spec => []Inv
<1>1. ASSUME IInv PROVE Inv
  <2>1. TypeOK
    BY <1>1, SomeTransaction, BusRanges DEF IInv, Types, TypeOK
  <2>2. BusReleased
    BY <1>1, AtRest DEF BusReleased, Resting, Still, Seen
  <2>3. ReadsItsRegister
    <3>1. SUFFICES ASSUME present, call = "axis", script = << >>
                   PROVE  result[1] = "content" /\ result[2] = addr
      BY DEF ReadsItsRegister
    <3>2. result = Content(addr, result[3])
      BY <1>1, <3>1, AtRest DEF Answer
    <3> QED BY <3>2 DEF Content
  <2>4. ActivatesOnly
    BY <1>1 DEF IInv, CallInv, ActivatesOnly, Activated
  <2> QED BY <2>1, <2>2, <2>3, <2>4 DEF Inv
<1> QED BY Invariance, <1>1, PTL

\* When the compiler makes the two reads of _read_reg14 in the order they are written, the
\* two bytes it combines are of the axis that was asked for and of one sample of it,
\* however many samples the sensor takes meanwhile.
THEOREM SampleIsWhole == MsbFirst => (Spec => []OneSample)
<1> SUFFICES ASSUME MsbFirst PROVE Spec => []OneSample
  OBVIOUS
<1>1. IInv => OneSample
  BY DEF IInv, CallInv, OneSample
<1> QED BY Invariance, <1>1, PTL
=============================================================================
