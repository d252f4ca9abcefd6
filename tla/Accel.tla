-------------------------------- MODULE Accel --------------------------------
(* accel8451.c: the accelerometer on the I2C bus.  mma8451_read and            *)
(* mma8451_write are the sequences of bus operations their bodies make; each   *)
(* operation is an action, and so is each thing the bus controller and the     *)
(* sensor do by themselves.                                                    *)
(*                                                                             *)
(* A byte is a triple: what it is, the register it belongs to, its value.  The *)
(* value of a measurement is the number of the sample it was taken from.       *)
EXTENDS Integers, Sequences

CONSTANTS MsbFirst,     \* C leaves the order of the two reads in _read_reg14
                        \* open; GCC makes the left one first: TRUE
          MaxSample     \* bound: samples the sensor takes

ASSUME AccelAssumption == MsbFirst \in BOOLEAN /\ MaxSample \in Nat

VARIABLES
  call,         \* what the program is in: "reset", "idle", "init", "axis"
  phase,        \* which transaction of it: 1 or 2
  script,       \* the operations left of the current transaction
  reg,          \* argument of _read_reg14
  addr, value,  \* arguments of the current transaction
  result,       \* what the last mma8451_read returned
  msb, lsb,     \* the two bytes _read_reg14 combines
  mst, tx, txak, \* MST, TX and TXAK in I2C0_C1
  iicif,        \* interrupt flag in I2C0_S
  transfer,     \* "none", "send" or "receive"
  d,            \* I2C0_D
  bus,          \* where the sensor is in the protocol
  pointer,      \* the sensor's register pointer
  ctrl,         \* its CTRL_REG1: bit 0 is ACTIVE, bit 1 all the others
  ctrl0,        \* history: CTRL_REG1 before accel_init
  present,      \* the sensor answers to its address
  sample,       \* number of the latest sample
  latch         \* the sample whose LSBs the sensor holds, or -1

program == <<call, phase, reg, addr, value, result, msb, lsb>>
controller == <<mst, tx, txak, iicif, transfer, d>>
sensor == <<bus, pointer, ctrl, sample, latch>>
fixed == <<ctrl0, present>>
vars == <<program, script, controller, sensor, fixed>>

CTRL_REG1 == 42
Axes == {1, 3, 5}
Msb == Axes
Lsb == {r + 1 : r \in Axes}
Registers == Msb \cup Lsb \cup {CTRL_REG1}

None == <<"none", 0, 0>>
Slave(direction) == <<"slave", 0, direction>>
I2C_READ == 1
I2C_WRITE == 0
RegisterNumber(r) == <<"number", r, 0>>
Value(v) == <<"value", 0, v>>
Content(r, v) == <<"content", r, v>>

-----------------------------------------------------------------------------
(* The transactions.                                                           *)

\* Mutant: the byte is acknowledged.
BugAck ==
  << "start", "slave_w", "wait", "number", "wait", "restart", "slave_r", "wait",
     "set_rx", "dummy", "wait", "stop", "take" >>

mma8451_read ==
  << "start", "slave_w", "wait", "number", "wait", "restart", "slave_r", "wait",
     "set_rx", "nack", "dummy", "wait", "stop", "take" >>

\* Mutant: one wait more than there are transfers.
BugWaitAgain ==
  << "start", "slave_w", "wait", "number", "wait", "value", "wait", "wait", "stop" >>

mma8451_write ==
  << "start", "slave_w", "wait", "number", "wait", "value", "wait", "stop" >>

Op(name) == script # << >> /\ Head(script) = name /\ script' = Tail(script)

i2c_start ==
  /\ Op("start")
  /\ mst' = TRUE /\ tx' = TRUE
  /\ bus' = IF mst THEN bus ELSE "address"
  /\ UNCHANGED <<program, txak, iicif, transfer, d, pointer, ctrl, sample, latch, fixed>>

i2c_repeated_start ==
  /\ Op("restart")
  /\ bus' = IF mst THEN "address" ELSE bus
  /\ UNCHANGED <<program, controller, pointer, ctrl, sample, latch, fixed>>

\* i2c_write up to its wait: in transmit mode a store to D sends the byte.
Send(name, byte) ==
  /\ Op(name)
  /\ d' = byte
  /\ transfer' = IF mst /\ tx THEN "send" ELSE transfer
  /\ UNCHANGED <<program, mst, tx, txak, iicif, sensor, fixed>>

i2c_write == \/ Send("slave_w", Slave(I2C_WRITE))
             \/ Send("slave_r", Slave(I2C_READ))
             \/ Send("number", RegisterNumber(addr))
             \/ Send("value", Value(value))

i2c_wait ==
  /\ Op("wait") /\ iicif
  /\ iicif' = FALSE
  /\ UNCHANGED <<program, mst, tx, txak, transfer, d, sensor, fixed>>

i2c_set_rx ==
  /\ Op("set_rx")
  /\ tx' = FALSE
  /\ UNCHANGED <<program, mst, txak, iicif, transfer, d, sensor, fixed>>

i2c_give_nack ==
  /\ Op("nack")
  /\ txak' = TRUE
  /\ UNCHANGED <<program, mst, tx, iicif, transfer, d, sensor, fixed>>

\* A load from D: a master in receive mode starts to receive the next byte.
i2c_read(name) ==
  /\ Op(name)
  /\ transfer' = IF mst /\ ~tx THEN "receive" ELSE transfer
  /\ UNCHANGED <<mst, tx, txak, iicif, d, sensor, fixed>>

DummyRead == i2c_read("dummy") /\ UNCHANGED program

TakeByte ==
  /\ i2c_read("take")
  /\ result' = d
  /\ UNCHANGED <<call, phase, reg, addr, value, msb, lsb>>

\* The sensor holds the data line while it is sending: no stop is seen then.
i2c_stop ==
  /\ Op("stop")
  /\ mst' = FALSE /\ tx' = FALSE
  /\ bus' = CASE ~mst -> bus
              [] mst /\ (bus = "sending" \/ transfer # "none") -> "stuck"
              [] OTHER -> "idle"
  /\ UNCHANGED <<program, txak, iicif, transfer, d, pointer, ctrl, sample, latch, fixed>>

-----------------------------------------------------------------------------
(* The callers.                                                                *)

\* A transaction begins when the last one has made all its operations.
Transaction(kind, register) ==
  script = << >> /\ script' = kind /\ addr' = register

\* tmp | 0x01
Activated(v) == IF v % 2 = 0 THEN v + 1 ELSE v

accel_init ==
  \/ /\ call = "reset" /\ Transaction(mma8451_read, CTRL_REG1)
     /\ call' = "init" /\ phase' = 1
     /\ UNCHANGED <<reg, value, result, msb, lsb, controller, sensor, fixed>>
  \/ /\ call = "init" /\ phase = 1 /\ Transaction(mma8451_write, CTRL_REG1)
     /\ value' = Activated(result[3])
     /\ phase' = 2
     /\ UNCHANGED <<call, reg, result, msb, lsb, controller, sensor, fixed>>
  \/ /\ call = "init" /\ phase = 2 /\ script = << >>
     /\ call' = "idle"
     /\ UNCHANGED <<phase, script, reg, addr, value, result, msb, lsb, controller,
                    sensor, fixed>>

\* Mutant: the reads in the other order.
BugOtherOrder == IF MsbFirst THEN 1 ELSE 0

\* The distance of the register read first from the high byte's.
FirstRead == IF MsbFirst THEN 0 ELSE 1

\* accel_x, accel_y and accel_z.
_read_reg14 ==
  \/ /\ call = "idle"
     /\ \E r \in Axes : reg' = r /\ Transaction(mma8451_read, r + FirstRead)
     /\ call' = "axis" /\ phase' = 1
     /\ msb' = None /\ lsb' = None
     /\ UNCHANGED <<value, result, controller, sensor, fixed>>
  \/ /\ call = "axis" /\ phase = 1
     /\ Transaction(mma8451_read, reg + 1 - FirstRead)
     /\ phase' = 2
     /\ IF FirstRead = 0 THEN msb' = result /\ UNCHANGED lsb
                         ELSE lsb' = result /\ UNCHANGED msb
     /\ UNCHANGED <<call, reg, value, result, controller, sensor, fixed>>
  \/ /\ call = "axis" /\ phase = 2 /\ script = << >>
     /\ call' = "idle"
     /\ IF FirstRead = 0 THEN lsb' = result /\ UNCHANGED msb
                         ELSE msb' = result /\ UNCHANGED lsb
     /\ UNCHANGED <<phase, script, reg, addr, value, result, controller, sensor,
                    fixed>>

-----------------------------------------------------------------------------
(* The bus controller and the sensor.                                          *)

Next14(r) == IF r + 1 \in Registers THEN r + 1 ELSE r

\* The sensor takes a byte.
Sent ==
  /\ transfer = "send"
  /\ transfer' = "none" /\ iicif' = TRUE
  /\ CASE bus = "address" ->
            /\ bus' = CASE ~present -> "unanswered"
                        [] present /\ d = Slave(I2C_WRITE) -> "register"
                        [] present /\ d = Slave(I2C_READ) -> "sending"
                        [] OTHER -> "unanswered"
            /\ UNCHANGED <<pointer, ctrl>>
       [] bus = "register" ->
            /\ bus' = "data" /\ pointer' = d[2]
            /\ UNCHANGED ctrl
       [] bus = "data" ->
            /\ ctrl' = IF pointer = CTRL_REG1 THEN d[3] ELSE ctrl
            /\ UNCHANGED <<bus, pointer>>
       [] OTHER -> UNCHANGED <<bus, pointer, ctrl>>
  /\ UNCHANGED <<program, script, mst, tx, txak, d, sample, latch, fixed>>

\* The sensor gives a byte.  Reading the high byte of a measurement holds the low
\* byte of the same sample; without that the low byte is the latest one.
Received ==
  /\ transfer = "receive"
  /\ transfer' = "none" /\ iicif' = TRUE
  /\ IF bus = "sending"
       THEN /\ d' = CASE pointer = CTRL_REG1 -> Content(pointer, ctrl)
                      [] pointer \in Lsb /\ latch # -1 -> Content(pointer, latch)
                      [] OTHER -> Content(pointer, sample)
            /\ latch' = IF pointer \in Msb THEN sample ELSE -1
            /\ pointer' = Next14(pointer)
            /\ bus' = IF txak THEN "released" ELSE "sending"
       ELSE d' = None /\ UNCHANGED <<latch, pointer, bus>>
  /\ UNCHANGED <<program, script, mst, tx, txak, ctrl, sample, fixed>>

\* An active sensor measures.
NewSample ==
  /\ ctrl % 2 = 1 /\ sample < MaxSample
  /\ sample' = sample + 1
  /\ UNCHANGED <<program, script, controller, bus, pointer, ctrl, latch, fixed>>

-----------------------------------------------------------------------------
Init ==
  /\ call = "reset" /\ phase = 1 /\ script = << >>
  /\ reg = 1 /\ addr = CTRL_REG1 /\ value = 0
  /\ result = None /\ msb = None /\ lsb = None
  /\ mst = FALSE /\ tx = FALSE /\ txak = FALSE /\ iicif = FALSE
  /\ transfer = "none" /\ d = None
  /\ bus = "idle" /\ pointer = CTRL_REG1
  /\ ctrl \in 0 .. 3 /\ ctrl0 = ctrl /\ present \in BOOLEAN
  /\ sample = 0 /\ latch = -1

Operation == \/ i2c_start \/ i2c_repeated_start \/ i2c_write \/ i2c_wait
             \/ i2c_set_rx \/ i2c_give_nack \/ DummyRead \/ TakeByte \/ i2c_stop

Next == \/ Operation \/ accel_init \/ _read_reg14
        \/ Sent \/ Received \/ NewSample

Spec == Init /\ [][Next]_vars

\* The processor runs a call once it is made, and a transfer ends.
Fairness == /\ WF_vars(Operation) /\ WF_vars(accel_init)
            /\ WF_vars(call = "axis" /\ _read_reg14)
            /\ WF_vars(Sent) /\ WF_vars(Received)

FairSpec == Spec /\ Fairness

-----------------------------------------------------------------------------
TypeOK ==
  /\ call \in {"reset", "idle", "init", "axis"} /\ phase \in 1 .. 2
  /\ \E t \in {mma8451_read, mma8451_write} :
       \E n \in 1 .. Len(t) + 1 : script = SubSeq(t, n, Len(t))
  /\ reg \in Axes /\ addr \in Registers /\ value \in 0 .. 3
  /\ mst \in BOOLEAN /\ tx \in BOOLEAN /\ txak \in BOOLEAN /\ iicif \in BOOLEAN
  /\ transfer \in {"none", "send", "receive"}
  /\ bus \in {"idle", "address", "register", "data", "sending", "released",
              "unanswered", "stuck"}
  /\ pointer \in Registers /\ ctrl \in 0 .. 3 /\ present \in BOOLEAN
  /\ sample \in 0 .. MaxSample /\ latch \in -1 .. MaxSample

\* Between two transactions the bus is free and the controller is at rest: the
\* byte is refused before the stop, the stop comes before the last load of D, and
\* so that load does not clock another byte out of the sensor.  This holds
\* whether or not a sensor answers.
BusReleased ==
  script = << >> => bus = "idle" /\ transfer = "none" /\ ~iicif /\ ~mst

\* mma8451_read returns the content of the register it was asked for, and not
\* what the dummy read found in the data register.
ReadsItsRegister ==
  present /\ call = "axis" /\ script = << >> =>
    result[1] = "content" /\ result[2] = addr

\* The two bytes _read_reg14 combines belong to one sample of one axis, however
\* many samples the sensor takes in between.
OneSample ==
  present /\ call = "idle" /\ msb # None =>
    msb = Content(reg, msb[3]) /\ lsb = Content(reg + 1, msb[3])

\* accel_init sets ACTIVE and keeps every other bit of CTRL_REG1.
ActivatesOnly ==
  present /\ call \in {"idle", "axis"} =>
    ctrl = IF ctrl0 % 2 = 0 THEN ctrl0 + 1 ELSE ctrl0

\* What holds at every moment: the types, the bus at rest between transactions, the
\* register asked for, and the other bits of CTRL_REG1.
Inv == TypeOK /\ BusReleased /\ ReadsItsRegister /\ ActivatesOnly

\* The unbounded wait for IICIF always has a transfer to wait for: every call
\* returns, also when no sensor answers.
CallsReturn == call \in {"init", "axis"} ~> call = "idle"
=============================================================================
