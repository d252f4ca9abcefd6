-------------------------------- MODULE Console --------------------------------
(* usb.c over uart.c: USBOTG_IRQHandler prints with iprintf, and _write brings *)
(* the line to uart_write, which was written for the program: here it runs     *)
(* inside a handler, and UART0_IRQHandler, of the same priority, cannot run    *)
(* before it is over.  The steps of that uart_write are the ones of module     *)
(* Uart; what the handler interrupted is kept in outer.                        *)
(*                                                                             *)
(* The handler comes between two ring operations of the program: inside one,   *)
(* two callers would be in buf_put_byte at once, against which nothing in the  *)
(* code protects the ring.                                                     *)
EXTENDS MCUart

CONSTANT MaxPrint   \* bound: bytes in a line the handler prints

ASSUME ConsoleAssumption == MaxPrint \in Nat

VARIABLES
  outer,  \* what the USB handler interrupted, or None
  fits    \* history: the line being printed fitted into the ring

None == << >>
consoleVars == <<vars, outer, fits>>

Printing == outer # None

\* Mutant: the handler of the UART may interrupt the one of the USB.
BugNested(len) ==
  /\ outer' = program /\ fits' = (len <= Size - 1 - buf_len(tx))
  /\ pc' = "w_wait" /\ todo' = len
  /\ UNCHANGED <<tx, rx, c2, primask, uart, slot, item, saved, ticked, history>>

\* The handler is entered and calls uart_write: no other handler, and nothing of the
\* program, runs meanwhile.
BeginPrint(len) ==
  /\ outer' = program /\ fits' = (len <= Size - 1 - buf_len(tx))
  /\ pc' = "w_wait" /\ todo' = len /\ primask' = TRUE
  /\ UNCHANGED <<tx, rx, c2, uart, slot, item, saved, ticked, history>>

CallPrint ==
  /\ ~Printing /\ ~primask /\ ~IrqPending
  /\ pc \in {"idle", "w_wait", "r_wait"}
  /\ \E len \in 1 .. MaxPrint : written + todo + len <= MaxTx /\ BeginPrint(len)

\* uart_write has returned, and the handler ends.
EndPrint ==
  /\ Printing /\ pc = "idle"
  /\ outer' = None /\ primask' = FALSE
  /\ pc' = outer[1] /\ todo' = outer[2] /\ slot' = outer[3] /\ item' = outer[4]
  /\ saved' = outer[5]
  /\ UNCHANGED <<tx, rx, c2, uart, ticked, history, fits>>

\* The program makes no call of its own while the handler runs.
Program == (Printing => pc # "idle") /\ Return

ConsoleInit == Init /\ outer = None /\ fits = FALSE

ConsoleNext ==
  \/ (Program \/ UART0_IRQHandler \/ ShiftDone \/ CharacterArrives) /\ UNCHANGED <<outer, fits>>
  \/ CallPrint
  \/ EndPrint

ConsoleSpec ==
  /\ ConsoleInit /\ [][ConsoleNext]_consoleVars
  /\ WF_consoleVars(pc # "idle" /\ Return /\ UNCHANGED <<outer, fits>>)
  /\ WF_consoleVars(UART0_IRQHandler /\ UNCHANGED <<outer, fits>>)
  /\ WF_consoleVars(ShiftDone /\ UNCHANGED <<outer, fits>>)
  /\ WF_consoleVars(EndPrint)

-----------------------------------------------------------------------------
\* A print for which the ring has room returns.  ("Spin wait while full" in uart_write
\* ends only by the handler of the UART, which cannot run here.)
PrintReturns == Printing /\ fits ~> ~Printing

\* And only such a print does: with one byte too many in the ring the processor stays
\* in the two handlers' priority for good.
HangsWithoutRoom == [][Printing /\ ~Printing' => fits]_consoleVars

\* A print leaves no byte behind without the interrupt that sends it, whatever call of
\* the program it came into, and unless it hangs: every byte put in the ring leaves it.
AllSentOrHung ==
  \A n \in 1 .. MaxTx : written >= n ~> Len(sent) >= n \/ (Printing /\ ~fits)

=============================================================================
