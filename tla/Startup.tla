------------------------------- MODULE Startup -------------------------------
(* _startup.c, delay.c and the initialisation functions of the drivers: what   *)
(* happens from reset to main, what the initialisation calls do to the         *)
(* registers the drivers share, and how the program stops when it fails.       *)
(*                                                                             *)
(* A function is the sequence of its register accesses.  An access to a        *)
(* peripheral whose clock SIM_SCGC4..6 keep off is a hard fault.  The clock    *)
(* generator, the timer, interrupts and the reset button act between any two.  *)
EXTENDS Registers, Sequences

CONSTANTS
  WordBits,    \* bits of the pattern fault() rotates
  DataWords,   \* words in .data
  Calls,       \* the initialisation functions main calls, and delay
  BaudRates,   \* what uart_init is given
  MaxMishaps   \* bound: how often the button is pressed or the program fails

Functions == {"uart_init", "accel_init", "touch_init", "spi_init", "usb_init", "delay"}

ASSUME StartupAssumption == /\ WordBits \in 1 .. 32 /\ DataWords \in Nat /\ MaxMishaps \in Nat
                            /\ BaudRates \subseteq Nat \ {0} /\ Calls \subseteq Functions

VARIABLES
  todo,      \* accesses left of the functions being executed
  task,      \* "boot", "main" or "fault"
  level,     \* priority of execution: "thread", "irq", "hard"
  ram,       \* words of .data; 0 stands for .bss
  regs,      \* the registers
  cause,     \* history: how the current failure began
  called,    \* history: initialisation functions main has called to their end
  baud,      \* history: what uart_init was given
  mishaps    \* history: how often the button was pressed or the program failed

cpu == <<todo, task, level>>
history == <<cause, called, baud, mishaps>>
vars == <<cpu, ram, regs, history>>

-----------------------------------------------------------------------------
(* Accesses.                                                                   *)

Step(do, of, reg, bits, until) == [do |-> do, of |-> of, reg |-> reg, bits |-> bits, until |-> until]
Set(of, reg, bits) == Step("=", of, reg, bits, {})
Or(of, reg, bits) == Step("|=", of, reg, bits, {})
AndNot(of, reg, bits) == Step("&=~", of, reg, bits, {})
\* Loads the register until the bits of mask are those of value.
Until(of, reg, mask, value) == Step("while", of, reg, mask, value)
Load(of, reg) == Until(of, reg, {}, {})
Other(do, bits) == Step(do, "", "", bits, {})

Mux(n) == Put(PORT_PCR.MUX, n)
Has(word, field) == word \cap field # {}

enable_irq(n) == <<Or("NVIC", "ICPR", {n - 16}), Or("NVIC", "ISER", {n - 16})>>

RGB_LED(red, green, blue) ==
  <<Set("TPM2", "C0V", Word(red)), Set("TPM2", "C1V", Word(green)), Set("TPM0", "C1V", Word(blue))>>

delay(length_ms) ==
  <<Or("SIM", "SCGC5", SIM_SCGC5.LPTMR), Set("LPTMR0", "CSR", {}),
    Set("LPTMR0", "CMR", Word(length_ms)),
    Set("LPTMR0", "PSR", Put(LPTMR_PSR.PCS, 1) \cup LPTMR_PSR.PBYP),
    Set("LPTMR0", "CSR", LPTMR_CSR.TEN),
    Until("LPTMR0", "CSR", LPTMR_CSR.TCF, LPTMR_CSR.TCF), Set("LPTMR0", "CSR", {})>>

-----------------------------------------------------------------------------
(* From reset to main.                                                         *)

\* Mutants: the dividers stay as they were; the switch to the PLL does not wait.
BugUndivided == {}

CoreDividers == Put(SIM_CLKDIV1.OUTDIV1, 1) \cup Put(SIM_CLKDIV1.OUTDIV4, 1)

BugNoWait == <<>>

UntilExternal == <<Until("MCG", "S", MCG_S.IREFST, {}), Until("MCG", "S", MCG_S.CLKST, Word(8))>>

\* The one store that selects TPMSRC is two steps: before it the field is 0, and the first
\* of them changes nothing.
init_clocks ==
  <<Or("SIM", "SCGC5", SIM_SCGC5.PORTA),
    Set("SIM", "CLKDIV1", CoreDividers),
    AndNot("SIM", "SOPT1", Put(SIM_SOPT1.OSC32KSEL, 3)),
    Or("SIM", "SOPT2", SIM_SOPT2.PLLFLLSEL),
    AndNot("SIM", "SOPT2", Put(SIM_SOPT2.TPMSRC, 2)), Or("SIM", "SOPT2", Put(SIM_SOPT2.TPMSRC, 1)),
    AndNot("PORTA", 18, PORT_PCR.ISF \cup Mux(7)), AndNot("PORTA", 19, PORT_PCR.ISF \cup Mux(7)),
    Set("OSC0", "CR", {}),
    Set("MCG", "C2", Put(MCG_C2.RANGE0, 2) \cup MCG_C2.EREFS0),
    Set("MCG", "C1", Put(MCG_C1.CLKS, 2) \cup Put(MCG_C1.FRDIV, 3)),
    AndNot("MCG", "C4", MCG_C4.DMX32 \cup Put(MCG_C4.DRST_DRS, 3)),
    Set("MCG", "C5", Put(MCG_C5.PRDIV0, 1)),
    Set("MCG", "C6", {})>>
  \o UntilExternal
  \o <<Set("MCG", "C6", MCG_C6.PLLS), Until("MCG", "S", MCG_S.LOCK0, MCG_S.LOCK0),
       Set("MCG", "C1", Put(MCG_C1.FRDIV, 3)), Until("MCG", "S", MCG_S.CLKST, Word(12))>>

\* Mutant: the clock of the red and green pins is left off.
BugLedPorts == SIM_SCGC5.PORTD

LedPorts == SIM_SCGC5.PORTB \cup SIM_SCGC5.PORTD

init_led_io ==
  LET pwm == TPM_CnSC.MSB \cup TPM_CnSC.ELSA
      on == Put(TPM_SC.CMOD, 1) \cup Put(TPM_SC.PS, 0)
  IN  <<Or("SIM", "SCGC5", LedPorts), Or("SIM", "SCGC6", SIM_SCGC6.TPM0 \cup SIM_SCGC6.TPM2),
        Or("SIM", "SOPT2", Put(SIM_SOPT2.TPMSRC, 1)),
        Set("PORTB", 18, Mux(3)), Set("PORTB", 19, Mux(3)), Set("PORTD", 1, Mux(4))>>
      \o RGB_LED(0, 0, 0)
      \o <<Set("TPM0", "MOD", Word(99)), Set("TPM0", "C1SC", pwm), Set("TPM2", "MOD", Word(99)),
           Set("TPM2", "C0SC", pwm), Set("TPM2", "C1SC", pwm), Set("TPM2", "SC", on),
           Set("TPM0", "SC", on)>>

\* Mutants: .data is not copied; the watchdog is left on.
BugCopy == <<>>

CopyData == [i \in 1 .. DataWords |-> Other("copy", {i})]

BugWatchdog == Load("SIM", "COPC")

StopWatchdog == Set("SIM", "COPC", {})

\* _start is the C library's: it clears .bss and calls main.
_start == <<Other("clear", {}), Other("main", {})>>

_reset_init == <<StopWatchdog>> \o CopyData \o init_clocks \o init_led_io \o _start

-----------------------------------------------------------------------------
(* The drivers' initialisation.                                                *)

uart_init(baud_rate) ==
  LET divisor == Word(3000000 \div baud_rate) \cap 0 .. 15
      shifted == {b - 8 : b \in divisor \cap 8 .. 15}
  IN  <<Or("SIM", "SCGC5", SIM_SCGC5.PORTA), Or("SIM", "SCGC4", SIM_SCGC4.UART0),
        AndNot("SIM", "SOPT2", SIM_SOPT2.UART0SRC), Or("SIM", "SOPT2", Put(SIM_SOPT2.UART0SRC, 1)),
        Set("PORTA", 1, Mux(2)), Set("PORTA", 2, Mux(2)),
        Set("UART0", "C2", {}), Set("UART0", "C1", {}), Set("UART0", "C3", {}), Set("UART0", "S2", {}),
        Set("UART0", "C4", Put(UARTLP_C4.OSR, 15)),
        Set("UART0", "BDH", shifted \cap UARTLP_BDH.SBR),
        Set("UART0", "BDL", divisor \cap UARTLP_BDL.SBR),
        Set("UART0", "C2", UARTLP_C2.RE \cup UARTLP_C2.TE \cup UART_C2.RIE)>>
      \o enable_irq(INT.UART0)

i2c_init ==
  <<Or("SIM", "SCGC5", SIM_SCGC5.PORTE), Or("SIM", "SCGC4", SIM_SCGC4.I2C0),
    Set("PORTE", 24, Mux(5)), Set("PORTE", 25, Mux(5)),
    Set("I2C0", "F", Word(20)), Set("I2C0", "C1", I2C_C1.IICEN)>>

\* The baseline scans are in module Touch.
touch_init ==
  <<Or("SIM", "SCGC5", SIM_SCGC5.TSI),
    Or("TSI0", "GENCS", TSI_GENCS.ESOR \cup Put(TSI_GENCS.REFCHRG, 4) \cup Put(TSI_GENCS.EXTCHRG, 7)
         \cup Put(TSI_GENCS.PS, 4) \cup Put(TSI_GENCS.NSCN, 11) \cup TSI_GENCS.TSIIEN \cup TSI_GENCS.STPE),
    Or("TSI0", "GENCS", TSI_GENCS.TSIEN),
    Set("PORTB", 16, Mux(0)), Set("PORTB", 17, Mux(0))>> \o enable_irq(INT.TSI0)

\* Mutant: the clock comes out at the pin that the comment rules out.
BugClockPin == Set("PORTD", 1, Mux(2))

ClockPin == Set("PORTC", 5, Mux(2))

spi_init ==
  <<Or("SIM", "SCGC5", SIM_SCGC5.PORTD), Or("SIM", "SCGC5", SIM_SCGC5.PORTC),
    Or("SIM", "SCGC4", SIM_SCGC4.SPI0),
    Set("PORTD", 0, Mux(2)), ClockPin, Set("PORTD", 2, Mux(2)), Set("PORTD", 3, Mux(2)),
    Set("SPI0", "C1", Word(82)), Set("SPI0", "C2", Word(16)), Set("SPI0", "BR", Word(4))>>

\* What the device then tells the host is in module Descriptors.
usb_init ==
  <<Or("SIM", "SOPT2", SIM_SOPT2.USBSRC), Or("SIM", "SCGC4", SIM_SCGC4.USBOTG),
    Or("USB0", "USBTRC0", USB_USBTRC0.USBRESET),
    Until("USB0", "USBTRC0", USB_USBTRC0.USBRESET, {}),
    Set("USB0", "ISTAT", Word(255)), Set("USB0", "INTEN", USB_INTEN.USBRSTEN),
    Set("USB0", "USBCTRL", {}), Set("USB0", "CONTROL", USB_CONTROL.DPPULLUPNONOTG),
    Or("USB0", "USBTRC0", Word(64)), Set("USB0", "CTL", USB_CTL.USBENSOFEN)>>
  \o enable_irq(INT.USB0)

Body(f, rate) ==
  CASE f = "uart_init" -> uart_init(rate)
    [] f = "accel_init" -> i2c_init
    [] f = "touch_init" -> touch_init
    [] f = "spi_init" -> spi_init
    [] f = "usb_init" -> usb_init
    [] f = "delay" -> delay(100)

-----------------------------------------------------------------------------
(* Exceptions and failure.                                                     *)

\* Handlers that no file of the program defines are aliases of Default_Handler.
InterruptVector(n) ==
  CASE n = 3 -> "HardFault_Handler"
    [] n = 28 -> "UART0_IRQHandler"
    [] n = 40 -> "USBOTG_IRQHandler"
    [] n = 42 -> "TSI0_IRQHandler"
    [] OTHER -> "Default_Handler"

Pattern(x) == Word(x) \cap 0 .. (WordBits - 1)
fault(pattern) == <<Other("fault", pattern)>>

Default_Handler == fault(Pattern(254))

\* What is printed is two characters.
uart_write_err ==
  LET character == <<Until("UART0", "S1", UART_S1.TDRE, UART_S1.TDRE), Set("UART0", "D", {})>>
  IN  character \o character

HardFault_Handler == uart_write_err \o fault(Pattern(1016))

_kill == fault(Pattern(254))

\* The handlers that do not return.
Handler(name) == IF name = "HardFault_Handler" THEN HardFault_Handler ELSE Default_Handler

\* Mutant: what leaves the word on the right is lost.
BugShift(pattern) == {b - 1 : b \in pattern \ {0}}

Rotate(pattern) == {(b + WordBits - 1) % WordBits : b \in pattern}

-----------------------------------------------------------------------------
(* Reset.                                                                      *)

\* _cfm: NV_FOPT = 0xFF selects the fast start, in which OUTDIV1 is 0.
ResetDividers == Put(SIM_CLKDIV1.OUTDIV4, 1)

ResetRegisters ==
  LET zero == [m \in DOMAIN Instances |-> [r \in DOMAIN Instances[m] |-> {}]]
  IN  [zero EXCEPT
         !["SIM"] = [@ EXCEPT !["SOPT1"] = SIM_SOPT1.USBREGEN, !["CLKDIV1"] = ResetDividers,
                              !["SCGC6"] = SIM_SCGC6.FTF,
                              !["COPC"] = SIM_COPC.COPT],
         !["MCG"] = [@ EXCEPT !["C1"] = MCG_C1.IREFS, !["C2"] = MCG_C2.LOCRE0,
                              !["C4"] = MCG_C4.SCFTRIM, !["S"] = MCG_S.IREFST],
         !["UART0"] = [@ EXCEPT !["S1"] = UARTLP_S1.TDRE \cup UARTLP_S1.TC, !["BDL"] = Word(4),
                                !["C4"] = Word(15)]]

Restart ==
  /\ todo' = _reset_init /\ task' = "boot" /\ level' = "thread"
  /\ regs' = ResetRegisters
  /\ cause' = "none" /\ called' = {} /\ baud' = 0
  /\ UNCHANGED ram

Init ==
  /\ todo = _reset_init /\ task = "boot" /\ level = "thread"
  /\ ram = [i \in 0 .. DataWords |-> "garbage"]
  /\ regs = ResetRegisters
  /\ cause = "none" /\ called = {} /\ baud = 0 /\ mishaps = 0

-----------------------------------------------------------------------------
(* The processor.                                                              *)

Gate ==
  [PORTA |-> <<"SCGC5", SIM_SCGC5.PORTA>>, PORTB |-> <<"SCGC5", SIM_SCGC5.PORTB>>,
   PORTC |-> <<"SCGC5", SIM_SCGC5.PORTC>>, PORTD |-> <<"SCGC5", SIM_SCGC5.PORTD>>,
   PORTE |-> <<"SCGC5", SIM_SCGC5.PORTE>>, LPTMR0 |-> <<"SCGC5", SIM_SCGC5.LPTMR>>,
   TSI0 |-> <<"SCGC5", SIM_SCGC5.TSI>>, TPM0 |-> <<"SCGC6", SIM_SCGC6.TPM0>>,
   TPM2 |-> <<"SCGC6", SIM_SCGC6.TPM2>>, I2C0 |-> <<"SCGC4", SIM_SCGC4.I2C0>>,
   SPI0 |-> <<"SCGC4", SIM_SCGC4.SPI0>>, UART0 |-> <<"SCGC4", SIM_SCGC4.UART0>>,
   USB0 |-> <<"SCGC4", SIM_SCGC4.USBOTG>>]

Clocked(m) == m \in DOMAIN Gate => Gate[m][2] \subseteq regs["SIM"][Gate[m][1]]

NextIs(do) == todo # <<>> /\ Head(todo).do = do
Accesses == {"=", "|=", "&=~", "while"}

\* A store in the data register empties TDRE; the pending bits are gone once cleared.
Stored(m, r, word) ==
  LET kept == [regs EXCEPT ![m][r] = word \cap Instances[m][r]]
  IN  CASE m = "UART0" /\ r = "D" -> [kept EXCEPT !["UART0"]["S1"] = @ \ UARTLP_S1.TDRE]
        [] m = "NVIC" /\ r = "ICPR" -> [kept EXCEPT !["NVIC"]["ICPR"] = {}]
        [] OTHER -> kept

Store(do, word) ==
  /\ NextIs(do) /\ Clocked(Head(todo).of)
  /\ regs' = Stored(Head(todo).of, Head(todo).reg, word)
  /\ todo' = Tail(todo)
  /\ UNCHANGED <<task, level, ram, history>>

Old == regs[Head(todo).of][Head(todo).reg]

Assign == Store("=", Head(todo).bits)
SetBits == Store("|=", Old \cup Head(todo).bits)
ClearBits == Store("&=~", Old \ Head(todo).bits)

LoopEnds ==
  /\ NextIs("while") /\ Clocked(Head(todo).of)
  /\ Old \cap Head(todo).bits = Head(todo).until
  /\ todo' = Tail(todo)
  /\ UNCHANGED <<task, level, ram, regs, history>>

CopyWord ==
  /\ NextIs("copy")
  /\ ram' = [i \in DOMAIN ram |-> IF i \in Head(todo).bits THEN "initial" ELSE ram[i]]
  /\ todo' = Tail(todo)
  /\ UNCHANGED <<task, level, regs, history>>

ClearBss ==
  /\ NextIs("clear")
  /\ ram' = [ram EXCEPT ![0] = "initial"]
  /\ todo' = Tail(todo)
  /\ UNCHANGED <<task, level, regs, history>>

\* main changes the variables as it likes.
EnterMain ==
  /\ NextIs("main")
  /\ task' = "main" /\ todo' = Tail(todo)
  /\ ram' = [i \in DOMAIN ram |-> "garbage"]
  /\ UNCHANGED <<level, regs, history>>

\* main calls the functions in any order.
Call(f) ==
  /\ task = "main" /\ todo = <<>> /\ f \notin called
  /\ IF f = "uart_init" THEN baud' \in BaudRates ELSE UNCHANGED baud
  /\ todo' = Body(f, baud') \o <<Step("done", "", f, {}, {})>>
  /\ UNCHANGED <<task, level, ram, regs, cause, called, mishaps>>

Done ==
  /\ NextIs("done")
  /\ called' = called \cup {Head(todo).reg} /\ todo' = Tail(todo)
  /\ UNCHANGED <<task, level, ram, regs, cause, baud, mishaps>>

\* uart_write waits for room in a full ring, in a handler that holds off the handler
\* which could make room.
Spin == NextIs("spin") /\ UNCHANGED vars

\* main prints and reads: uart_write and uart_read enable their interrupt (module Uart).
UseConsole ==
  /\ task = "main" /\ todo = <<>> /\ "uart_init" \in called
  /\ \E enabled \in {UART_C2.TIE, UART_C2.RIE} :
       regs' = [regs EXCEPT !["UART0"]["C2"] = @ \cup enabled]
  /\ UNCHANGED <<cpu, ram, history>>

\* A turn of the loop in fault: show the lowest bit, rotate, delay, again.
FaultTurn ==
  /\ NextIs("fault")
  /\ LET pattern == Head(todo).bits
     IN  todo' = RGB_LED(IF 0 \in pattern THEN 100 ELSE 0, 0, 0) \o delay(100) \o fault(Rotate(pattern))
  /\ task' = "fault"
  /\ UNCHANGED <<level, ram, regs, history>>

-----------------------------------------------------------------------------
(* Exceptions.                                                                 *)

First(c) == IF cause = "none" THEN c ELSE cause

Take(n, c, to) ==
  /\ todo' = Handler(InterruptVector(n)) \o todo
  /\ level' = to
  /\ cause' = IF Handler(InterruptVector(n)) \in {Default_Handler, HardFault_Handler}
                THEN First(c) ELSE cause
  /\ UNCHANGED <<task, ram, called, baud>>

\* A hard fault in the handler of hard faults locks the core up, which resets it.
BusFault ==
  /\ todo # <<>> /\ Head(todo).do \in Accesses /\ ~Clocked(Head(todo).of)
  /\ IF level = "hard" THEN Restart ELSE Take(INT.Hard_Fault, "bus", "hard") /\ UNCHANGED regs
  /\ UNCHANGED mishaps

\* Bound: the program fails before .bss is cleared or between two calls of main.
ErrorPoint == level = "thread" /\ task # "fault" /\ (todo = <<>> \/ NextIs("clear"))

\* The program fails: a hard fault, a system call, or abort, which calls _kill.
ProgramError(n) ==
  /\ ErrorPoint /\ mishaps < MaxMishaps /\ mishaps' = mishaps + 1
  /\ Take(n, "program", IF n = INT.Hard_Fault THEN "hard" ELSE "irq")
  /\ UNCHANGED regs

Abort ==
  /\ ErrorPoint /\ mishaps < MaxMishaps /\ mishaps' = mishaps + 1
  /\ todo' = _kill \o todo /\ cause' = First("program")
  /\ UNCHANGED <<task, level, ram, regs, called, baud>>

\* The handlers of the drivers, which return with these registers if the clock of the
\* device is on.
Returns(m, new) ==
  IF Clocked(m) THEN regs' = new /\ UNCHANGED <<cpu, ram, cause, called, baud>>
                ELSE Take(INT.Hard_Fault, "bus", "hard") /\ UNCHANGED regs

\* A byte may be waiting and the transmit ring empty without it, a character may have
\* come and fill the receive ring: what the rings hold is in module Uart.
UART0_IRQHandler ==
  \E sent, emptied, filled \in BOOLEAN :
    /\ sent => Has(regs["UART0"]["S1"], UARTLP_S1.TDRE)
    /\ emptied => sent
    /\ Returns("UART0", [regs EXCEPT
         !["UART0"]["S1"] = IF sent THEN @ \ UARTLP_S1.TDRE ELSE @,
         !["UART0"]["C2"] = @ \ ((IF emptied THEN UART_C2.TIE ELSE {})
                                  \cup (IF filled THEN UART_C2.RIE ELSE {}))])

\* The channel scanned is in module Touch; the settings in GENCS are written back.
TSI0_IRQHandler ==
  Returns("TSI0", [regs EXCEPT !["TSI0"]["GENCS"] = @ \ TSI_GENCS.EOSF])

usb_reset ==
  Returns("USB0", [regs EXCEPT
    !["USB0"]["CTL"] = @ \cup USB_CTL.ODDRST,
    !["USB0"]["INTEN"] = USB_INTEN.TOKDNEEN \cup USB_INTEN.ERROREN \cup USB_INTEN.USBRSTEN
                           \cup USB_INTEN.STALLEN])

\* iprintf ends in uart_write: a hard fault if UART0 is off, and if the ring gets full,
\* there is no end.
iprintf(before, after) ==
  IF ~Clocked("UART0") THEN Take(INT.Hard_Fault, "bus", "hard") /\ regs' = before
  ELSE LET Enabling(f) == [f EXCEPT !["UART0"]["C2"] = @ \cup UART_C2.TIE]
       IN  /\ \/ regs' = Enabling(after) /\ UNCHANGED <<todo, level>>
              \/ /\ regs' \in {before, Enabling(before)}
                 /\ todo' = <<Other("spin", {})>> \o todo /\ level' = "irq"
           /\ UNCHANGED <<task, ram, cause, called, baud>>

\* The tokens queued, each of which may print or not; a SETUP among them clears
\* TXSUSPENDTOKENBUSY.  Then perhaps the error, which ends all USB interrupts.
usb_handler ==
  /\ Has(regs["USB0"]["INTEN"], USB_INTEN.TOKDNEEN)
  /\ \E ctl \in {regs["USB0"]["CTL"], USB_CTL.USBENSOFEN} :
       LET handled == [regs EXCEPT !["USB0"]["CTL"] = ctl]
       IN  \/ Returns("USB0", handled)
           \/ Clocked("USB0") /\ iprintf(handled, handled)
           \/ Clocked("USB0") /\ iprintf(handled, [handled EXCEPT !["USB0"]["INTEN"] = {}])

USBOTG_IRQHandler == usb_reset \/ usb_handler

\* A driver's device asks for the interrupt.
Requested(n) ==
  CASE n = INT.UART0 -> \/ Has(regs["UART0"]["C2"], UARTLP_C2.RIE)
                        \/ /\ Has(regs["UART0"]["C2"], UARTLP_C2.TIE)
                           /\ Has(regs["UART0"]["S1"], UARTLP_S1.TDRE)
    [] n = INT.USB0 -> regs["USB0"]["INTEN"] # {}
    [] n = INT.TSI0 -> TSI_GENCS.TSIIEN \subseteq regs["TSI0"]["GENCS"]

Interrupt(n) ==
  /\ level = "thread" /\ n - 16 \in regs["NVIC"]["ISER"] /\ Requested(n)
  /\ CASE InterruptVector(n) = "UART0_IRQHandler" -> UART0_IRQHandler
       [] InterruptVector(n) = "USBOTG_IRQHandler" -> USBOTG_IRQHandler
       [] InterruptVector(n) = "TSI0_IRQHandler" -> TSI0_IRQHandler
       [] OTHER -> Take(n, "stray", "irq") /\ UNCHANGED regs
  /\ UNCHANGED mishaps

ResetButton == mishaps < MaxMishaps /\ mishaps' = mishaps + 1 /\ Restart

WatchdogBites ==
  /\ Has(regs["SIM"]["COPC"], SIM_COPC.COPT)
  /\ Restart /\ UNCHANGED mishaps

-----------------------------------------------------------------------------
(* The hardware.                                                               *)

Becomes(m, r, on, off) ==
  /\ regs' = [regs EXCEPT ![m][r] = (@ \cup on) \ off]
  /\ UNCHANGED <<cpu, ram, history>>

Mcg(r) == regs["MCG"][r]

External == ~Has(Mcg("C1"), MCG_C1.IREFS)
OscillatorOn == Has(Mcg("S"), MCG_S.OSCINIT0)

OscillatorStarts ==
  /\ Has(Mcg("C2"), MCG_C2.EREFS0) /\ External /\ ~OscillatorOn
  /\ Becomes("MCG", "S", MCG_S.OSCINIT0, {})

ReferenceFollows ==
  /\ Has(Mcg("S"), MCG_S.IREFST) /\ External /\ OscillatorOn
  /\ Becomes("MCG", "S", {}, MCG_S.IREFST)

PllLocks ==
  /\ Has(Mcg("C6"), MCG_C6.PLLS) /\ OscillatorOn /\ ~Has(Mcg("S"), MCG_S.LOCK0)
  /\ Becomes("MCG", "S", MCG_S.LOCK0 \cup MCG_S.PLLST, {})

\* CLKST that CLKS and PLLS ask for: 0 FLL, 1 slow clock, 2 external, 3 PLL.
Selected ==
  LET clks == Get(Mcg("C1"), MCG_C1.CLKS)
  IN  IF clks = 0 /\ Has(Mcg("C6"), MCG_C6.PLLS) THEN 3 ELSE clks

ClockFollows ==
  /\ Get(Mcg("S"), MCG_S.CLKST) # Selected
  /\ Selected = 2 => OscillatorOn
  /\ Selected = 3 => Has(Mcg("S"), MCG_S.LOCK0)
  /\ regs' = [regs EXCEPT !["MCG"]["S"] = (@ \ MCG_S.CLKST) \cup Put(MCG_S.CLKST, Selected)]
  /\ UNCHANGED <<cpu, ram, history>>

TimerEnds ==
  /\ regs["LPTMR0"]["CSR"] = LPTMR_CSR.TEN
  /\ Becomes("LPTMR0", "CSR", LPTMR_CSR.TCF, {})

\* The transmitter takes the character only when it is on.
CharacterSent ==
  /\ Has(regs["UART0"]["C2"], UARTLP_C2.TE) /\ ~Has(regs["UART0"]["S1"], UARTLP_S1.TDRE)
  /\ Becomes("UART0", "S1", UARTLP_S1.TDRE, {})

UsbResetEnds ==
  /\ Has(regs["USB0"]["USBTRC0"], USB_USBTRC0.USBRESET)
  /\ Becomes("USB0", "USBTRC0", {}, USB_USBTRC0.USBRESET)

Hardware == \/ OscillatorStarts \/ ReferenceFollows \/ PllLocks \/ ClockFollows
            \/ TimerEnds \/ CharacterSent \/ UsbResetEnds

-----------------------------------------------------------------------------

Run == \/ Assign \/ SetBits \/ ClearBits \/ LoopEnds \/ CopyWord \/ ClearBss \/ EnterMain
       \/ Done \/ FaultTurn \/ BusFault

Next == \/ Run \/ Spin \/ UseConsole \/ Hardware \/ Abort \/ ResetButton \/ WatchdogBites
        \/ \E f \in Calls : Call(f)
        \/ \E n \in {INT.Hard_Fault, INT.SVCall} : ProgramError(n)
        \/ \E n \in {INT.UART0, INT.USB0, INT.TSI0} : Interrupt(n)

\* Interrupts, which may repeat for ever and whose handler may spin, promise nothing to the
\* code they interrupt: the processor runs where none can come.
Undisturbed == level # "thread" \/ regs["NVIC"]["ISER"] = {}

Fairness == /\ WF_vars(Undisturbed /\ Run)
            /\ WF_vars(OscillatorStarts) /\ WF_vars(ReferenceFollows) /\ WF_vars(PllLocks)
            /\ WF_vars(ClockFollows) /\ WF_vars(TimerEnds) /\ WF_vars(CharacterSent)
            /\ WF_vars(UsbResetEnds)

Spec == Init /\ [][Next]_vars /\ Fairness

-----------------------------------------------------------------------------
(* Properties.                                                                 *)

\* Types of the variables; a register holds bits it has, and so does fault's pattern.
TypeOK ==
  /\ task \in {"boot", "main", "fault"} /\ level \in {"thread", "irq", "hard"}
  /\ ram \in [0 .. DataWords -> {"garbage", "initial"}]
  /\ DOMAIN regs = DOMAIN Instances
  /\ \A m \in DOMAIN Instances : /\ DOMAIN regs[m] = DOMAIN Instances[m]
                                 /\ \A r \in DOMAIN regs[m] : regs[m][r] \subseteq Instances[m][r]
  /\ \A i \in DOMAIN todo : todo[i].do = "fault" => todo[i].bits \subseteq 0 .. WordBits - 1
  /\ cause \in {"none", "bus", "stray", "program"}
  /\ called \subseteq Functions /\ baud \in BaudRates \cup {0} /\ mishaps \in 0 .. MaxMishaps

\* Frequencies in Hz.  The board has a crystal of 8 MHz, the chip a slow clock.
Crystal == 8000000
SlowClock == 32768

FllReference ==
  IF Has(Mcg("S"), MCG_S.IREFST) THEN SlowClock
  ELSE Crystal \div (2 ^ Get(Mcg("C1"), MCG_C1.FRDIV)
                     * (IF Has(Mcg("C2"), MCG_C2.RANGE0) THEN 32 ELSE 1))
MCGFLLCLK == FllReference * 640 * (1 + Get(Mcg("C4"), MCG_C4.DRST_DRS))
PllReference == Crystal \div (1 + Get(Mcg("C5"), MCG_C5.PRDIV0))
MCGPLLCLK == PllReference * (24 + Get(Mcg("C6"), MCG_C6.VDIV0))

MCGOUTCLK == <<MCGFLLCLK, SlowClock, Crystal, MCGPLLCLK>>[1 + Get(Mcg("S"), MCG_S.CLKST)]
CoreClock == MCGOUTCLK \div (1 + Get(regs["SIM"]["CLKDIV1"], SIM_CLKDIV1.OUTDIV1))
BusClock == CoreClock \div (1 + Get(regs["SIM"]["CLKDIV1"], SIM_CLKDIV1.OUTDIV4))

\* The clock that SOPT2 offers to UART0, TPM and USB.
PeripheralClock ==
  IF Has(regs["SIM"]["SOPT2"], SIM_SOPT2.PLLFLLSEL) THEN MCGPLLCLK \div 2 ELSE MCGFLLCLK

\* From reset on, in whatever order clock generator and processor act, core and bus
\* never run faster than the chip allows, and the references of FLL and PLL stay in
\* their ranges (init_clocks).
ClocksInLimits ==
  /\ CoreClock <= 48000000 /\ BusClock <= 24000000
  /\ Has(Mcg("S"), MCG_S.PLLST) => 2000000 <= PllReference /\ PllReference <= 4000000
  /\ ~Has(Mcg("S"), MCG_S.PLLST) => 31250 <= FllReference /\ FllReference <= 39063

\* The clock generator is where its control registers want it.
Settled ==
  /\ Has(Mcg("S"), MCG_S.IREFST) = Has(Mcg("C1"), MCG_C1.IREFS)
  /\ Get(Mcg("S"), MCG_S.CLKST) = Selected
  /\ Has(Mcg("C6"), MCG_C6.PLLS) => Has(Mcg("S"), MCG_S.LOCK0)

Request == <<Has(Mcg("C1"), MCG_C1.IREFS), Selected, Has(Mcg("C6"), MCG_C6.PLLS)>>

\* "Mode progression: FEI (reset) -> FBE -> PBE -> PEE": each mode is asked for only
\* when the one before has been reached, and main starts in PEE at 48 MHz.
ModesInOrder ==
  [][/\ Request' # Request /\ task' = task /\ todo' # _reset_init => Settled
     /\ task = "boot" /\ task' = "main" => Settled /\ CoreClock = 48000000]_vars

Enabled(n) == n - 16 \in regs["NVIC"]["ISER"]

\* Every interrupt that is enabled has its handler in the table, and every access is to a
\* peripheral whose clock is on, with one exception: the USB handler prints, and main
\* may have called usb_init without calling uart_init before.
NoOwnFailure ==
  /\ cause # "stray"
  /\ cause = "bus" => Enabled(INT.USB0) /\ ~Clocked("UART0")

MuxOf(port, pin) == Get(regs[port][pin], PORT_PCR.MUX)
Near(rate, wanted) == 40 * rate \in 39 * wanted .. 41 * wanted

\* After main has called initialisation functions in any order, each function's
\* pins, clocks and registers are still as it needs them, and so are the LEDs.  Only
\* RIE and TIE of UART0 and ODDRST of USB0 are the handlers' to change.
DriversConfigured ==
  task = "main" /\ todo = <<>> =>
    /\ MuxOf("PORTB", 18) = 3 /\ MuxOf("PORTB", 19) = 3 /\ MuxOf("PORTD", 1) = 4
    /\ \A t \in {"TPM0", "TPM2"} : Get(regs[t]["SC"], TPM_SC.CMOD) = 1
    /\ Get(regs["SIM"]["SOPT2"], SIM_SOPT2.TPMSRC) = 1
    /\ "uart_init" \in called =>
         /\ MuxOf("PORTA", 1) = 2 /\ MuxOf("PORTA", 2) = 2 /\ Enabled(INT.UART0)
         /\ Get(regs["SIM"]["SOPT2"], SIM_SOPT2.UART0SRC) = 1
         /\ regs["UART0"]["C2"] \ (UART_C2.RIE \cup UART_C2.TIE) = UARTLP_C2.RE \cup UARTLP_C2.TE
         /\ LET sbr == 256 * Get(regs["UART0"]["BDH"], UARTLP_BDH.SBR)
                         + Get(regs["UART0"]["BDL"], UARTLP_BDL.SBR)
                osr == 1 + Get(regs["UART0"]["C4"], UARTLP_C4.OSR)
            IN  Near(PeripheralClock \div (osr * sbr), baud)
    /\ "accel_init" \in called =>     \* ICR 20 divides by 80; at most 400 kHz
         /\ MuxOf("PORTE", 24) = 5 /\ MuxOf("PORTE", 25) = 5
         /\ regs["I2C0"]["C1"] = I2C_C1.IICEN
         /\ Get(regs["I2C0"]["F"], I2C_F.ICR) = 20 /\ BusClock \div 80 <= 400000
    /\ "touch_init" \in called =>
         /\ MuxOf("PORTB", 16) = 0 /\ MuxOf("PORTB", 17) = 0 /\ Enabled(INT.TSI0)
         /\ TSI_GENCS.TSIEN \cup TSI_GENCS.TSIIEN \cup TSI_GENCS.ESOR \subseteq regs["TSI0"]["GENCS"]
    /\ "spi_init" \in called =>
         /\ \A pin \in {0, 2, 3} : MuxOf("PORTD", pin) = 2
         /\ MuxOf("PORTC", 5) = 2
         /\ regs["SPI0"]["C1"] = SPI_C1.SPE \cup SPI_C1.MSTR \cup SPI_C1.SSOE
         /\ regs["SPI0"]["C2"] = SPI_C2.MODFEN
         /\ (1 + Get(regs["SPI0"]["BR"], SPI_BR.SPPR)) * 2 ^ (1 + Get(regs["SPI0"]["BR"], SPI_BR.SPR)) = 32
    /\ "usb_init" \in called =>
         /\ Has(regs["SIM"]["SOPT2"], SIM_SOPT2.USBSRC) /\ PeripheralClock = 48000000
         /\ Enabled(INT.USB0) /\ regs["USB0"]["CTL"] \ USB_CTL.ODDRST = USB_CTL.USBENSOFEN
         /\ USB_CONTROL.DPPULLUPNONOTG = regs["USB0"]["CONTROL"]

\* main finds .data with its initial values and .bss zero, also after a restart that
\* keeps what the program had left in memory (tests.c asserts both).
MainStartsClean == [][task = "boot" /\ task' = "main" => \A i \in DOMAIN ram : ram[i] = "initial"]_vars

\* What holds at every moment, start-up and program together: the types, and that no
\* failure is the drivers' own.
Inv == TypeOK /\ NoOwnFailure

\* Start-up ends in main, unless the program fails first.
BootReachesMain == task = "boot" ~> task = "main" \/ cause = "program"

Lit == regs["TPM2"]["C0V"] # {}

\* A failure blinks the LED for ever: it is lit again and again and dark again and again,
\* until the button is pressed.  That needs a handler of faults that can print, and
\* outside of exceptions, after abort, that no driver has enabled an interrupt.
FaultIsShown ==
  \A m \in 0 .. MaxMishaps :
    LET failed == /\ cause = "program" /\ mishaps = m /\ Undisturbed /\ ~NextIs("spin")
                  /\ level = "hard" => "uart_init" \in called
    IN  (failed ~> Lit \/ mishaps > m) /\ (failed ~> ~Lit \/ mishaps > m)
=============================================================================
