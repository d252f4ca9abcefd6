--------------------------------- MODULE Spi ---------------------------------
(* spi.c: a polled SPI master whose hardware has one byte of transmit buffer   *)
(* before the shifter and one byte of receive buffer behind it.                *)
(*                                                                             *)
(* spi_write, spi_single and spi_read are the sequences of accesses their      *)
(* bodies make.  A byte is the call it belongs to and its place in the call    *)
(* (the address is 0); the byte the other side answers while it is clocked out *)
(* goes by the same name.                                                      *)
EXTENDS Integers, Sequences

CONSTANTS MaxSize,      \* bound: bytes per call
          ByteSteps     \* accesses the program makes, interrupts included,
                        \* while one byte is clocked out

ASSUME SpiAssumption == MaxSize \in Nat /\ ByteSteps \in Nat

VARIABLES
  script,       \* accesses left of the current call
  call,         \* number of the call, modulo 3
  count,        \* bytes the call has stored in SPI0_D
  results,      \* bytes it returns
  buffer,       \* transmit buffer, or None: SPTEF
  shifter,      \* byte being clocked out, or None
  received,     \* receive buffer, or None: SPRF is clear
  last,         \* what a load of SPI0_D finds when SPRF is clear
  age           \* accesses made since the shifter took its byte

vars == <<script, call, count, results, buffer, shifter, received, last, age>>

None == <<3, 0>>

-----------------------------------------------------------------------------
(* The functions of the driver.  "cts" is spiCTS and "dr" spiDR; "put" stores  *)
(* the next byte, "drop" loads one that is not wanted, "take" one that is.     *)

Repeat(part, n) ==
  [k \in 1 .. n * Len(part) |-> part[((k - 1) % Len(part)) + 1]]

spi_write(size) == << "cts", "put" >> \o Repeat(<< "cts", "put" >>, size) \o << "cts" >>

\* Mutants: the receive buffer is not cleared; the data byte is not queued.
BugNoClear == << "cts", "put", "cts", "put", "dr", "drop", "dr", "take" >>
BugNoData == << "cts", "put", "cts", "drop", "dr", "drop", "dr", "take" >>

spi_single ==
  << "cts", "put", "cts", "drop", "put", "dr", "drop", "dr", "take" >>

spi_read(size) ==
  << "cts", "put", "cts", "drop", "put", "dr", "drop", "put" >>
    \o Repeat(<< "dr", "take", "put" >>, size)

Call ==
  /\ script = << >>
  /\ \/ \E size \in 0 .. MaxSize : script' = spi_write(size)
     \/ script' = spi_single
     \/ \E size \in 0 .. MaxSize : script' = spi_read(size)
  /\ call' = (call + 1) % 3 /\ count' = 0 /\ results' = << >>
  /\ UNCHANGED <<buffer, shifter, received, last, age>>

Access(name) == script # << >> /\ Head(script) = name /\ script' = Tail(script)

Older == age' = IF age < ByteSteps THEN age + 1 ELSE age

spiCTS ==
  /\ Access("cts") /\ buffer = None
  /\ Older
  /\ UNCHANGED <<call, count, results, buffer, shifter, received, last>>

spiDR ==
  /\ Access("dr") /\ received # None
  /\ Older
  /\ UNCHANGED <<call, count, results, buffer, shifter, received, last>>

\* An idle shifter takes the byte at once; a full buffer ignores it.
Put ==
  /\ Access("put")
  /\ count' = count + 1
  /\ IF shifter = None
       THEN shifter' = <<call, count>> /\ age' = 0 /\ UNCHANGED buffer
       ELSE /\ buffer' = IF buffer = None THEN <<call, count>> ELSE buffer
            /\ Older /\ UNCHANGED shifter
  /\ UNCHANGED <<call, results, received, last>>

Load == /\ received' = None
        /\ last' = IF received = None THEN last ELSE received
        /\ Older
        /\ UNCHANGED <<call, count, buffer, shifter>>

Drop == Access("drop") /\ Load /\ UNCHANGED results

Take == Access("take") /\ Load /\ results' = Append(results, last')

-----------------------------------------------------------------------------
(* The hardware.                                                               *)

\* The program cannot go on before the shifter is done.
Polling ==
  script # << >> => CASE Head(script) = "cts" -> buffer # None
                      [] Head(script) = "dr" -> received = None
                      [] OTHER -> FALSE

\* A byte is out and its answer in.  An answer nobody has made room for is lost.
ShiftDone ==
  /\ shifter # None
  /\ age >= ByteSteps \/ Polling
  /\ received' = IF received = None THEN shifter ELSE received
  /\ shifter' = buffer /\ buffer' = None /\ age' = 0
  /\ UNCHANGED <<script, call, count, results, last>>

-----------------------------------------------------------------------------
Init ==
  /\ script = << >> /\ call = 0 /\ count = 0 /\ results = << >>
  /\ buffer = None /\ shifter = None /\ received = None /\ last = None /\ age = 0

Program == spiCTS \/ spiDR \/ Put \/ Drop \/ Take

Next == Call \/ Program \/ ShiftDone

Spec == Init /\ [][Next]_vars

FairSpec == Spec /\ WF_vars(Program) /\ WF_vars(ShiftDone)

-----------------------------------------------------------------------------
Bytes == (0 .. 2) \X (0 .. MaxSize + 3)

TypeOK ==
  /\ call \in 0 .. 2 /\ count \in 0 .. MaxSize + 3
  /\ results \in Seq(Bytes) /\ Len(results) <= MaxSize + 1
  /\ buffer \in Bytes \cup {None} /\ shifter \in Bytes \cup {None}
  /\ received \in Bytes \cup {None} /\ last \in Bytes \cup {None}
  /\ age \in 0 .. ByteSteps

\* spi_single and spi_read return the answers to the bytes behind the address, in
\* order: what earlier calls left in the shifter and in both buffers is never
\* taken for one of them.
AnswersMatch == \A k \in DOMAIN results : results[k] = <<call, k>>

\* No byte is stored while the transmit buffer is full, also where spi_read stores
\* without testing SPTEF.
PutHasRoom == script # << >> /\ Head(script) = "put" => buffer = None

\* What holds at every moment: the types, the right answers, and room for what is
\* stored.
Inv == TypeOK /\ AnswersMatch /\ PutHasRoom

\* No call hangs in spiDR: an answer is never lost that the call still waits for.
CallsReturn == script # << >> ~> script = << >>
=============================================================================
