-------------------------------- MODULE Uart --------------------------------
(* uart.c with ring.c: the interrupt-driven serial driver.                  *)
(*                                                                          *)
(* Three actors share the two rings and the register UART0_C2:              *)
(*   - the program, in uart_write, uart_read or uart_write_err.  Each of    *)
(*     its steps is one access to memory that the handler also uses, so     *)
(*     the handler can run between any two of them;                         *)
(*   - UART0_IRQHandler.  It runs to its end once entered (every interrupt  *)
(*     has the same priority), and the program makes no step while the      *)
(*     interrupt is requested and not masked;                               *)
(*   - the UART itself: transmit data register and shifter, receive data    *)
(*     register.                                                            *)
EXTENDS Ring

CONSTANTS
  IndexFirst,   \* C leaves open whether data[tail++] = val stores the index
                \* or the data first, and whether data[head++] is read before
                \* the index is stored.  GCC stores the index first: TRUE.
  SlowWire,     \* TRUE: at most one character ends on each line during one
                \* ring operation (20 instructions against 4000 cycles)
  MaxTx, MaxRx, MaxErr, \* bounds: bytes written, received, written by
                        \* uart_write_err
  MaxLen,               \* bound: bytes per call
  MaxSent               \* bound: bytes the handler gives the transmitter

ASSUME UartAssumption == /\ IndexFirst \in BOOLEAN /\ SlowWire \in BOOLEAN
                         /\ MaxTx \in Nat /\ MaxRx \in Nat /\ MaxErr \in Nat
                         /\ MaxLen \in Nat /\ MaxSent \in Nat

VARIABLES
  tx, rx,       \* the rings
  c2,           \* interrupts enabled in UART0_C2
  primask,      \* interrupts disabled in the processor
  tdre,         \* transmit data register empty
  shifting,     \* a character is leaving the transmitter
  rdr,          \* receive data register; 0: RDRF is clear
  pc,           \* the next step of the program
  todo,         \* bytes left of the current call
  slot,         \* index loaded by the ring operation in progress
  item,         \* byte loaded by buf_get_byte
  saved,        \* UART0_C2 as loaded by a read-modify-write
  ticked,       \* lines a character ended on since the operation began
  written,      \* number of bytes published in tx
  arrived,      \* number of bytes received
  errs,         \* number of bytes sent by uart_write_err
  sent,         \* bytes the handler stored in UART0_D, in order
  got           \* bytes returned by uart_read, in order

program == <<pc, todo, slot, item, saved>>
uart == <<tdre, shifting, rdr>>
history == <<written, arrived, errs, sent, got>>
vars == <<tx, rx, c2, primask, uart, program, ticked, history>>

WriteSteps == {"w_data", "w_tail", "w_wrap", "w_load", "w_store"}
ReadSteps == {"r_data", "r_head", "r_wrap", "r_load", "r_store"}
ErrSteps == {"e_wait", "e_store", "e_enable"}
PCs == WriteSteps \cup ReadSteps \cup ErrSteps
         \cup {"idle", "w_wait", "r_wait", "e_disable"}

\* The program is between the test of a ring and the end of the UART0_C2
\* update that follows the put or the get.
InOperation == pc \in WriteSteps \cup ReadSteps

-----------------------------------------------------------------------------
(* The state uart_init leaves.                                              *)

uart_init ==
  /\ tx = buf_reset /\ rx = buf_reset
  /\ c2 = {"RIE"} /\ primask = FALSE
  /\ tdre = TRUE /\ shifting = FALSE /\ rdr = 0
  /\ pc = "idle" /\ todo = 0 /\ slot = 0 /\ item = 0 /\ saved = {}
  /\ ticked = {}
  /\ written = 0 /\ arrived = 0 /\ errs = 0
  /\ sent = << >> /\ got = << >>

-----------------------------------------------------------------------------
(* The interrupt.                                                           *)

IrqPending == /\ ~primask
              /\ \/ "TIE" \in c2 /\ tdre
                 \/ "RIE" \in c2 /\ rdr # 0

\* A store to UART0_D: an idle shifter takes the character at once.
StoreD == tdre' = ~shifting /\ shifting' = TRUE

\* Mutant: the handler does not look whether there is something to send.
BugSendAnyway == tdre

Sending == tdre /\ ~buf_isempty(tx)

\* Mutant: the handler does not look whether there is room.
BugReceiveAnyway == rdr # 0

Receiving == rdr # 0 /\ ~buf_isfull(rx)

Transmit ==
  IF Sending
    THEN /\ tx' = buf_get_byte(tx).rest
         /\ sent' = Append(sent, buf_get_byte(tx).item)
         /\ StoreD
    ELSE UNCHANGED <<tx, sent, tdre, shifting>>

Receive ==
  IF Receiving
    THEN rx' = buf_put_byte(rx, rdr) /\ rdr' = 0
    ELSE UNCHANGED <<rx, rdr>>

\* Mutant: the handler disables the transmit interrupt after every byte.
BugDisableAfterByte ==
  /\ IrqPending
  /\ Transmit
  /\ Receive
  /\ c2' = {i \in c2 : /\ i = "TIE" => ~Sending
                       /\ i = "RIE" => ~(Receiving /\ buf_isfull(rx'))}
  /\ UNCHANGED <<primask, program, ticked, written, arrived, errs, got>>

UART0_IRQHandler ==
  /\ IrqPending
  /\ Transmit
  /\ Receive
  /\ c2' = {i \in c2 : /\ i = "TIE" => ~(Sending /\ buf_isempty(tx'))
                       /\ i = "RIE" => ~(Receiving /\ buf_isfull(rx'))}
  /\ UNCHANGED <<primask, program, ticked, written, arrived, errs, got>>

-----------------------------------------------------------------------------
(* The wire.                                                                *)

\* The handler is entered again and again with nothing it can do: no program
\* step ends this.
TransmitStorm == ~primask /\ "TIE" \in c2 /\ tdre /\ buf_isempty(tx)

ReceiveStorm == ~primask /\ "RIE" \in c2 /\ rdr # 0 /\ buf_isfull(rx)

Storm == TransmitStorm \/ ReceiveStorm

Tick(line) == /\ SlowWire /\ ~Storm => line \notin ticked
              /\ ticked' = IF InOperation THEN ticked \cup {line} ELSE {}

\* A character has left the shifter; the data register, if it holds one,
\* fills it again.
ShiftDone ==
  /\ shifting /\ Len(sent) < MaxSent
  /\ Tick("tx")
  /\ shifting' = ~tdre /\ tdre' = TRUE
  /\ UNCHANGED <<tx, rx, c2, primask, rdr, program, history>>

\* A character is complete in the receiver.  One that completes while RDRF is
\* set is dropped by the hardware, and is not counted.
CharacterArrives ==
  /\ arrived < MaxRx /\ rdr = 0
  /\ Tick("rx")
  /\ arrived' = arrived + 1 /\ rdr' = arrived + 1
  /\ UNCHANGED <<tx, rx, c2, primask, tdre, shifting, program,
                 written, errs, sent, got>>

-----------------------------------------------------------------------------
(* The program: uart_write.                                                 *)

Step(from, to) == /\ ~IrqPending
                  /\ pc = from /\ pc' = to

\* _write and _read reach the driver with these lengths.
Lengths == 1 .. MaxLen

Call(entry) == \E len \in Lengths : Step("idle", entry) /\ todo' = len

CallWrite ==
  /\ Call("w_wait") /\ written + todo' <= MaxTx
  /\ UNCHANGED <<tx, rx, c2, primask, uart, slot, item, saved, ticked, history>>

\* Mutant: uart_write does not wait for room.
BugNoWait ==
  /\ Step("w_wait", IF IndexFirst THEN "w_tail" ELSE "w_data")
  /\ slot' = tx.tail /\ ticked' = {}
  /\ UNCHANGED <<tx, rx, c2, primask, uart, todo, item, saved, history>>

\* The spin ends; buf_put_byte loads the index.
WriteNotFull ==
  /\ Step("w_wait", IF IndexFirst THEN "w_tail" ELSE "w_data")
  /\ ~buf_isfull(tx)
  /\ slot' = tx.tail /\ ticked' = {}
  /\ UNCHANGED <<tx, rx, c2, primask, uart, todo, item, saved, history>>

\* data[tail] = val, before or after the index is stored.
PutData ==
  /\ Step("w_data", IF IndexFirst THEN "w_wrap" ELSE "w_tail")
  /\ tx' = StoreData(tx, slot, IF IndexFirst THEN written ELSE written + 1)
  /\ UNCHANGED <<rx, c2, primask, uart, todo, slot, item, saved, ticked, history>>

\* tail++: from here on the handler counts the byte.
PutIndex ==
  /\ Step("w_tail", IF IndexFirst THEN "w_data" ELSE "w_wrap")
  /\ tx' = StoreTail(tx, slot + 1)
  /\ written' = written + 1
  /\ UNCHANGED <<rx, c2, primask, uart, todo, slot, item, saved, ticked,
                 arrived, errs, sent, got>>

PutWrap ==
  /\ Step("w_wrap", "w_load")
  /\ tx' = StoreTail(tx, Wrap(tx.tail))
  /\ UNCHANGED <<rx, c2, primask, uart, todo, slot, item, saved, ticked, history>>

\* UART0_C2 |= mask: a load, then a store of the loaded value and the mask.
LoadC2(from, to) ==
  /\ Step(from, to)
  /\ saved' = c2
  /\ UNCHANGED <<tx, rx, c2, primask, uart, todo, slot, item, ticked, history>>

\* The store, and the end of the loop's iteration.
StoreC2(from, again, mask) ==
  /\ Step(from, IF todo = 1 THEN "idle" ELSE again)
  /\ c2' = saved \cup mask
  /\ todo' = todo - 1 /\ ticked' = {}
  /\ UNCHANGED <<tx, rx, primask, uart, slot, item, saved, history>>

WriteLoadC2 == LoadC2("w_load", "w_store")

\* Mutant: uart_write does not enable the transmit interrupt.
BugNoEnable == StoreC2("w_store", "w_wait", {})

WriteStoreC2 == StoreC2("w_store", "w_wait", {"TIE"})

uart_write == \/ CallWrite \/ WriteNotFull \/ PutData \/ PutIndex \/ PutWrap
              \/ WriteLoadC2 \/ WriteStoreC2

-----------------------------------------------------------------------------
(* The program: uart_read.                                                  *)

CallRead ==
  /\ Call("r_wait")
  /\ UNCHANGED <<tx, rx, c2, primask, uart, slot, item, saved, ticked, history>>

\* The spin ends; buf_get_byte loads the index.
ReadNotEmpty ==
  /\ Step("r_wait", IF IndexFirst THEN "r_head" ELSE "r_data")
  /\ ~buf_isempty(rx)
  /\ slot' = rx.head /\ ticked' = {}
  /\ UNCHANGED <<tx, rx, c2, primask, uart, todo, item, saved, history>>

\* item = data[head], before or after the index is stored.
GetData ==
  /\ Step("r_data", IF IndexFirst THEN "r_wrap" ELSE "r_head")
  /\ item' = rx.data[slot]
  /\ UNCHANGED <<tx, rx, c2, primask, uart, todo, slot, saved, ticked, history>>

\* head++: from here on the handler may use the slot again.
GetIndex ==
  /\ Step("r_head", IF IndexFirst THEN "r_data" ELSE "r_wrap")
  /\ rx' = StoreHead(rx, slot + 1)
  /\ UNCHANGED <<tx, c2, primask, uart, todo, slot, item, saved, ticked, history>>

\* Mutant: the wrap of the head is missing.
BugNoWrap ==
  /\ Step("r_wrap", "r_load")
  /\ got' = Append(got, item)
  /\ UNCHANGED <<tx, rx, c2, primask, uart, todo, slot, item, saved, ticked,
                 written, arrived, errs, sent>>

\* The wrap, and the store of the byte in the caller's buffer.
GetWrap ==
  /\ Step("r_wrap", "r_load")
  /\ rx' = StoreHead(rx, Wrap(rx.head))
  /\ got' = Append(got, item)
  /\ UNCHANGED <<tx, c2, primask, uart, todo, slot, item, saved, ticked,
                 written, arrived, errs, sent>>

ReadLoadC2 == LoadC2("r_load", "r_store")

\* Mutant: uart_read does not enable the receive interrupt again.
BugNoReenable == StoreC2("r_store", "r_wait", {})

ReadStoreC2 == StoreC2("r_store", "r_wait", {"RIE"})

uart_read == \/ CallRead \/ ReadNotEmpty \/ GetData \/ GetIndex \/ GetWrap
             \/ ReadLoadC2 \/ ReadStoreC2

-----------------------------------------------------------------------------
(* The program: uart_write_err, for stderr.                                 *)

CallErr ==
  /\ Call("e_disable") /\ errs + todo' <= MaxErr
  /\ UNCHANGED <<tx, rx, c2, primask, uart, slot, item, saved, ticked, history>>

DisableIrq ==
  /\ Step("e_disable", "e_wait")
  /\ primask' = TRUE
  /\ UNCHANGED <<tx, rx, c2, uart, todo, slot, item, saved, ticked, history>>

\* Mutant: uart_write_err does not poll TDRE.
BugNoPoll ==
  /\ Step("e_wait", "e_store")
  /\ UNCHANGED <<tx, rx, c2, primask, uart, todo, slot, item, saved, ticked, history>>

ErrRegisterEmpty ==
  /\ Step("e_wait", "e_store")
  /\ tdre
  /\ UNCHANGED <<tx, rx, c2, primask, uart, todo, slot, item, saved, ticked, history>>

ErrStore ==
  /\ Step("e_store", IF todo = 1 THEN "e_enable" ELSE "e_wait")
  /\ StoreD
  /\ todo' = todo - 1 /\ errs' = errs + 1
  /\ UNCHANGED <<tx, rx, c2, primask, rdr, slot, item, saved, ticked,
                 written, arrived, sent, got>>

EnableIrq ==
  /\ Step("e_enable", "idle")
  /\ primask' = FALSE
  /\ UNCHANGED <<tx, rx, c2, uart, todo, slot, item, saved, ticked, history>>

uart_write_err == \/ CallErr \/ DisableIrq \/ ErrRegisterEmpty \/ ErrStore
                  \/ EnableIrq

-----------------------------------------------------------------------------
Init == uart_init

Next == \/ UART0_IRQHandler \/ ShiftDone \/ CharacterArrives
        \/ uart_write \/ uart_read \/ uart_write_err

Spec == Init /\ [][Next]_vars

\* The processor runs, and takes interrupts, while there is something to run;
\* a character that is being sent ends.  Nothing obliges the program to make
\* another call, or the other side to send.
Return == uart_write \/ uart_read \/ uart_write_err

Fairness == /\ WF_vars(pc # "idle" /\ Return)
            /\ WF_vars(UART0_IRQHandler)
            /\ WF_vars(ShiftDone)

FairSpec == Spec /\ Fairness

-----------------------------------------------------------------------------
(* Safety.                                                                  *)

TypeOK ==
  /\ tx \in Rings /\ rx \in Rings
  /\ c2 \subseteq {"TIE", "RIE"} /\ saved \subseteq {"TIE", "RIE"}
  /\ primask \in BOOLEAN /\ tdre \in BOOLEAN /\ shifting \in BOOLEAN
  /\ rdr \in Nat /\ item \in Nat
  /\ pc \in PCs /\ todo \in Nat /\ slot \in Slots
  /\ ticked \subseteq {"tx", "rx"}
  /\ written \in Nat /\ arrived \in Nat /\ errs \in Nat
  /\ sent \in Seq(Nat) /\ got \in Seq(Nat)

\* The program has published a byte and has not set TIE for it yet.
Publishing == pc \in WriteSteps

\* The program has freed a slot and has not set RIE for it yet.
Freeing == pc \in ReadSteps

\* No wakeup is lost on the transmit side: while bytes wait in the ring the
\* transmit interrupt is enabled, whatever the handler cleared between the
\* load and the store of UART0_C2 in uart_write and in uart_read.
NoLostTransmitEnable ==
  ~buf_isempty(tx) /\ ~Publishing => "TIE" \in c2

\* No wakeup is lost on the receive side: while the ring has room the receive
\* interrupt is enabled, although the handler disables it when the ring fills
\* and both uart_write and uart_read rewrite UART0_C2.
NoLostReceiveEnable ==
  ~buf_isfull(rx) /\ ~Freeing => "RIE" \in c2

\* uart_read returns every byte the handler accepted, once and in order, also
\* when buf_get_byte stores the index before it reads the slot and the handler
\* refills the ring between the two: the slot buf_isfull keeps free is the one
\* still being read.
RxInOrder == \A i \in DOMAIN got : got[i] = i

\* Neither the handler nor uart_write_err, which share the data register,
\* stores a byte in it before the previous one has left.
DataRegisterFree ==
  [][sent' # sent \/ errs' # errs => tdre]_vars

-----------------------------------------------------------------------------
(* Liveness.                                                                *)

\* A call of uart_write returns, unless the processor is locked in the handler.
WriteReturns ==
  pc \in WriteSteps \cup {"w_wait"} ~> pc = "idle" \/ Storm

\* A call of uart_read that waits gets a byte that has arrived, unless the
\* processor is locked in the handler.
ReadReturns ==
  pc = "r_wait" /\ rdr # 0 ~> pc \in ReadSteps \/ Storm

\* Neither caller spins for ever on a ring the handler can change.
CallsReturn == WriteReturns /\ ReadReturns

-----------------------------------------------------------------------------
(* What the comments of UART0_IRQHandler say, and what happens.             *)

\* "If it leaves the buffer empty, disable the transmit interrupt" and "If the
\* buffer is full, disable the receive interrupt": the handler is not called again
\* and again with nothing it can do.
DisabledWhenIdle == ~Storm

\* "data in the transmit buffer, send it": a byte the handler sends is one that
\* uart_write has stored.
SentWasStored == \A i \in DOMAIN sent : sent[i] = i
=============================================================================
