---------------------------- MODULE StartupProofs ----------------------------
(* Theorems about module Startup, for every pattern width, length of .data, set *)
(* of baud rates and number of mishaps.                                        *)
EXTENDS Startup, FiniteSetTheorems, TLAPS

-----------------------------------------------------------------------------
(* The inductive invariant.                                                    *)

GateRegisters == {"SCGC4", "SCGC5", "SCGC6"}

\* Every access is to a register the peripheral has, and no clock or interrupt is switched off.
WellFormed(s) ==
  /\ s.do \in Accesses => s.of \in DOMAIN Instances /\ s.reg \in DOMAIN Instances[s.of]
  /\ s.do \in {"=", "&=~"} /\ s.of = "SIM" => s.reg \notin GateRegisters
  /\ s.do \in {"=", "&=~"} => s.of # "NVIC"
  /\ s.do = "fault" => s.bits \subseteq 0 .. WordBits - 1
  /\ s.do = "done" => s.reg \in Functions

Names == {""} \cup Functions \cup UNION {DOMAIN Instances[m] : m \in DOMAIN Instances}

Kinds == Accesses \cup {"copy", "clear", "main", "spin", "done", "fault"}
Places == {""} \cup DOMAIN Instances
Records == [do : Kinds, of : Places, reg : Names, bits : SUBSET Int, until : SUBSET Int]

Steps == {s \in Records : WellFormed(s)}
AccessSteps == {s \in Steps : s.do \in Accesses}

\* A word for every register, of bits the register has.
Registered(f) ==
  /\ f = [m \in DOMAIN Instances |-> [r \in DOMAIN Instances[m] |-> f[m][r]]]
  /\ \A m \in DOMAIN Instances : \A r \in DOMAIN Instances[m] : f[m][r] \subseteq Instances[m][r]

TypeInv == TypeOK /\ Registered(regs) /\ todo \in Seq(Steps)

-----------------------------------------------------------------------------
(* The registers.                                                              *)

LEMMA InstanceNames ==
  /\ DOMAIN Instances = {"SIM", "MCG", "OSC0", "NVIC", "PORTA", "PORTB", "PORTC", "PORTD",
                         "PORTE", "TPM0", "TPM2", "LPTMR0", "TSI0", "I2C0", "SPI0", "UART0",
                         "USB0"}
  /\ DOMAIN Instances["SIM"] = {"SOPT1", "SOPT2", "SCGC4", "SCGC5", "SCGC6", "CLKDIV1", "COPC"}
  /\ DOMAIN Instances["MCG"] = {"C1", "C2", "C3", "C4", "C5", "C6", "S"}
  /\ DOMAIN Instances["OSC0"] = {"CR"}
  /\ DOMAIN Instances["NVIC"] = {"ISER", "ICPR"}
  /\ \A port \in {"PORTA", "PORTB", "PORTC", "PORTD", "PORTE"} :
       DOMAIN Instances[port] = {0, 1, 2, 3, 5, 16, 17, 18, 19, 24, 25}
  /\ \A t \in {"TPM0", "TPM2"} :
       DOMAIN Instances[t] = {"SC", "MOD", "C0SC", "C0V", "C1SC", "C1V"}
  /\ DOMAIN Instances["LPTMR0"] = {"CSR", "PSR", "CMR"}
  /\ DOMAIN Instances["TSI0"] = {"GENCS", "DATA"}
  /\ DOMAIN Instances["I2C0"] = {"F", "C1", "S", "D"}
  /\ DOMAIN Instances["SPI0"] = {"C1", "C2", "BR", "S", "D"}
  /\ DOMAIN Instances["UART0"] = {"BDH", "BDL", "C1", "C2", "S1", "S2", "C3", "D", "C4"}
  /\ DOMAIN Instances["USB0"] = {"ISTAT", "INTEN", "CTL", "USBCTRL", "CONTROL", "USBTRC0"}
BY DEF Instances, SIM, MCG, OSC0, NVIC, PORTA, PORTB, PORTC, PORTD, PORTE, TPM0, TPM2, LPTMR0,
       TSI0, I2C0, SPI0, UART0, USB0, SIM_MemMap, MCG_MemMap, NVIC_MemMap, PORT_MemMap,
       TPM_MemMap, LPTMR_MemMap, TSI_MemMap, I2C_MemMap, SPI_MemMap, UARTLP_MemMap,
       USB_MemMap, Wide, Byte

Bytewise == {"MCG", "OSC0", "I2C0", "SPI0", "UART0", "USB0"}

LEMMA InstanceBits ==
  \A m \in DOMAIN Instances : \A r \in DOMAIN Instances[m] :
    Instances[m][r] = IF m \in Bytewise THEN 0 .. 7 ELSE 0 .. 31
<1>1. /\ \A n \in {"SIM", "NVIC", "TPM0", "TPM2", "LPTMR0", "TSI0"} :
           \A r \in DOMAIN Instances[n] : Instances[n][r] = 0 .. 31
      /\ \A n \in {"PORTA", "PORTB", "PORTC", "PORTD", "PORTE"} :
           \A r \in DOMAIN Instances[n] : Instances[n][r] = 0 .. 31
  BY DEF Instances, SIM, NVIC, PORTA, PORTB, PORTC, PORTD, PORTE, TPM0, TPM2, LPTMR0, TSI0,
         SIM_MemMap, NVIC_MemMap, PORT_MemMap, TPM_MemMap, LPTMR_MemMap, TSI_MemMap, Wide
<1>2. \A n \in Bytewise : \A r \in DOMAIN Instances[n] : Instances[n][r] = 0 .. 7
  BY DEF Bytewise, Instances, MCG, OSC0, I2C0, SPI0, UART0, USB0, MCG_MemMap, I2C_MemMap,
         SPI_MemMap, UARTLP_MemMap, USB_MemMap, Byte
<1>3. SUFFICES ASSUME NEW m \in DOMAIN Instances, m \notin Bytewise
               PROVE  \A r \in DOMAIN Instances[m] : Instances[m][r] = 0 .. 31
  BY <1>2
<1>4. m \in {"SIM", "NVIC", "TPM0", "TPM2", "LPTMR0", "TSI0", "PORTA", "PORTB", "PORTC",
              "PORTD", "PORTE"}
  BY <1>3, InstanceNames DEF Bytewise
<1> QED
  BY <1>1, <1>4

LEMMA PutType ==
  ASSUME NEW field, NEW x
  PROVE  /\ Put(field, x) \subseteq field
         /\ Word(x) \subseteq 0 .. 30 /\ Mux(x) \subseteq 8 .. 10
         /\ Word(x) \in SUBSET Int /\ Mux(x) \in SUBSET Int
BY DEF Put, Word, Mux, PORT_PCR

Write(f, m, r, w) == [f EXCEPT ![m][r] = w]

\* A store in one register leaves the others as they are.
LEMMA RegisterStored ==
  ASSUME NEW f, Registered(f), NEW m \in DOMAIN Instances, NEW r \in DOMAIN Instances[m],
         NEW w, w \subseteq Instances[m][r]
  PROVE  /\ Registered(Write(f, m, r, w)) /\ Write(f, m, r, w)[m][r] = w
         /\ \A n \in DOMAIN Instances : \A q \in DOMAIN Instances[n] :
              n # m \/ q # r => Write(f, m, r, w)[n][q] = f[n][q]
BY DEF Registered, Write

-----------------------------------------------------------------------------
(* The functions as sequences of steps.                                        *)

LEMMA StepType ==
  ASSUME NEW do \in Kinds, NEW of \in Places, NEW reg \in Names, NEW bits \in SUBSET Int,
         NEW until \in SUBSET Int, WellFormed(Step(do, of, reg, bits, until))
  PROVE  Step(do, of, reg, bits, until) \in Steps
<1>1. Step(do, of, reg, bits, until) \in Records
  BY DEF Step, Records
<1> QED
  BY <1>1 DEF Steps

LEMMA AccessIsStep == AccessSteps \subseteq Steps /\ Seq(AccessSteps) \subseteq Seq(Steps)
<1>1. AccessSteps \subseteq Steps
  BY DEF AccessSteps
<1> QED
  BY <1>1

LEMMA SetStep ==
  ASSUME NEW of \in DOMAIN Instances, NEW reg \in DOMAIN Instances[of], NEW bits \in SUBSET Int,
         of = "SIM" => reg \notin GateRegisters, of # "NVIC"
  PROVE  Set(of, reg, bits) \in AccessSteps /\ AndNot(of, reg, bits) \in AccessSteps
<1>1. reg \in Names /\ of \in Places /\ {"=", "&=~"} \subseteq Kinds
  BY DEF Names, Places, Kinds, Accesses
<1>2. \A do \in {"=", "&=~"} : WellFormed(Step(do, of, reg, bits, {}))
  BY DEF Step, WellFormed
<1> QED
  BY <1>1, <1>2, StepType DEF Set, AndNot, AccessSteps, Accesses, Step

LEMMA OrStep ==
  ASSUME NEW of \in DOMAIN Instances, NEW reg \in DOMAIN Instances[of], NEW bits \in SUBSET Int
  PROVE  Or(of, reg, bits) \in AccessSteps
<1>1. reg \in Names /\ of \in Places /\ "|=" \in Kinds
  BY DEF Names, Places, Kinds, Accesses
<1>2. WellFormed(Step("|=", of, reg, bits, {}))
  BY DEF Step, WellFormed
<1> QED
  BY <1>1, <1>2, StepType DEF Or, AccessSteps, Accesses, Step

LEMMA UntilStep ==
  ASSUME NEW of \in DOMAIN Instances, NEW reg \in DOMAIN Instances[of], NEW mask \in SUBSET Int,
         NEW value \in SUBSET Int
  PROVE  Until(of, reg, mask, value) \in AccessSteps /\ Load(of, reg) \in AccessSteps
<1>1. reg \in Names /\ of \in Places /\ "while" \in Kinds
  BY DEF Names, Places, Kinds, Accesses
<1>2. \A u, v \in SUBSET Int : WellFormed(Step("while", of, reg, u, v))
  BY DEF Step, WellFormed
<1> QED
  BY <1>1, <1>2, StepType DEF Until, Load, AccessSteps, Accesses, Step

LEMMA OtherStep ==
  ASSUME NEW do \in {"copy", "clear", "main", "spin", "fault"}, NEW bits \in SUBSET Int,
         do = "fault" => bits \subseteq 0 .. WordBits - 1
  PROVE  Other(do, bits) \in Steps
<1>1. "" \in Names /\ "" \in Places /\ do \in Kinds
  BY DEF Names, Places, Kinds
<1>2. WellFormed(Step(do, "", "", bits, {}))
  BY DEF Step, WellFormed, Accesses
<1> QED
  BY <1>1, <1>2, StepType DEF Other

LEMMA DoneStep ==
  ASSUME NEW f \in Functions
  PROVE  Step("done", "", f, {}, {}) \in Steps
<1>1. f \in Names /\ "" \in Places /\ "done" \in Kinds
  BY DEF Names, Places, Kinds
<1>2. WellFormed(Step("done", "", f, {}, {}))
  BY DEF Step, WellFormed, Accesses
<1> QED
  BY <1>1, <1>2, StepType

LEMMA Gates ==
  \A bits \in SUBSET Int : /\ \A reg \in GateRegisters \cup {"SOPT1", "SOPT2"} : Or("SIM", reg, bits) \in AccessSteps
                          /\ \A reg \in {"SOPT1", "SOPT2", "CLKDIV1", "COPC"} :
                               Set("SIM", reg, bits) \in AccessSteps /\ AndNot("SIM", reg, bits) \in AccessSteps
BY SetStep, OrStep, InstanceNames DEF GateRegisters

LEMMA Interrupts ==
  \A n \in Int : enable_irq(n) \in Seq(AccessSteps)
<1>1. \A b \in Int : Or("NVIC", "ICPR", {b}) \in AccessSteps /\ Or("NVIC", "ISER", {b}) \in AccessSteps
  BY OrStep, InstanceNames
<1> QED
  BY <1>1 DEF enable_irq

LEMMA UartType == \A rate : uart_init(rate) \in Seq(AccessSteps)
<1> SUFFICES ASSUME NEW rate PROVE uart_init(rate) \in Seq(AccessSteps)
  OBVIOUS
<1>1. \A bits \in SUBSET Int : Set("PORTA", 1, bits) \in AccessSteps /\ Set("PORTA", 2, bits) \in AccessSteps
  BY SetStep, InstanceNames
<1>2. \A bits \in SUBSET Int, reg \in {"C1", "C2", "C3", "C4", "S2", "BDH", "BDL"} :
        Set("UART0", reg, bits) \in AccessSteps
  BY SetStep, InstanceNames
<1>3. /\ SIM_SCGC5.PORTA \in SUBSET Int /\ SIM_SCGC4.UART0 \in SUBSET Int
      /\ SIM_SOPT2.UART0SRC \in SUBSET Int /\ UARTLP_C4.OSR \in SUBSET Int
      /\ UARTLP_BDH.SBR \in SUBSET Int /\ UARTLP_BDL.SBR \in SUBSET Int
      /\ UARTLP_C2.RE \cup UARTLP_C2.TE \cup UART_C2.RIE \in SUBSET Int
  BY DEF SIM_SCGC5, SIM_SCGC4, SIM_SOPT2, UARTLP_C4, UARTLP_BDH, UARTLP_BDL, UARTLP_C2, UART_C2
<1>4. INT.UART0 \in Int
  BY DEF INT
<1> QED
  BY <1>1, <1>2, <1>3, <1>4, Gates, Interrupts, PutType DEF uart_init, GateRegisters

LEMMA I2cType == i2c_init \in Seq(AccessSteps)
<1>1. \A bits \in SUBSET Int :
        /\ \A pin \in {24, 25} : Set("PORTE", pin, bits) \in AccessSteps
        /\ \A reg \in {"F", "C1"} : Set("I2C0", reg, bits) \in AccessSteps
  BY SetStep, InstanceNames
<1>2. SIM_SCGC5.PORTE \in SUBSET Int /\ SIM_SCGC4.I2C0 \in SUBSET Int /\ I2C_C1.IICEN \in SUBSET Int
  BY DEF SIM_SCGC5, SIM_SCGC4, I2C_C1
<1> QED
  BY <1>1, <1>2, Gates, PutType DEF i2c_init, GateRegisters

LEMMA TouchType == touch_init \in Seq(AccessSteps)
<1> DEFINE word == TSI_GENCS.ESOR \cup Put(TSI_GENCS.REFCHRG, 4) \cup Put(TSI_GENCS.EXTCHRG, 7)
                     \cup Put(TSI_GENCS.PS, 4) \cup Put(TSI_GENCS.NSCN, 11) \cup TSI_GENCS.TSIIEN
                     \cup TSI_GENCS.STPE
<1> DEFINE scan == <<Or("SIM", "SCGC5", SIM_SCGC5.TSI), Or("TSI0", "GENCS", word),
                     Or("TSI0", "GENCS", TSI_GENCS.TSIEN), Set("PORTB", 16, Mux(0)),
                     Set("PORTB", 17, Mux(0))>>
<1>1. \A bits \in SUBSET Int : /\ Or("TSI0", "GENCS", bits) \in AccessSteps
                              /\ Set("PORTB", 16, bits) \in AccessSteps /\ Set("PORTB", 17, bits) \in AccessSteps
  BY SetStep, OrStep, InstanceNames
<1>2. SIM_SCGC5.TSI \in SUBSET Int /\ TSI_GENCS.TSIEN \in SUBSET Int /\ word \in SUBSET Int
  BY PutType DEF SIM_SCGC5, TSI_GENCS
<1>3. touch_init = scan \o enable_irq(INT.TSI0)
  BY DEF touch_init
<1>4. scan \in Seq(AccessSteps)
  <2> HIDE DEF word
  <2>1. Or("SIM", "SCGC5", SIM_SCGC5.TSI) \in AccessSteps
    BY <1>2, Gates DEF GateRegisters
  <2>2. Mux(0) \in SUBSET Int
    BY PutType
  <2> QED
    BY <1>1, <1>2, <2>1, <2>2
<1>5. enable_irq(INT.TSI0) \in Seq(AccessSteps)
  BY Interrupts DEF INT
<1> HIDE DEF scan
<1> QED
  BY <1>3, <1>4, <1>5

LEMMA SpiType == spi_init \in Seq(AccessSteps)
<1>1. \A bits \in SUBSET Int :
        /\ \A pin \in {0, 2, 3} : Set("PORTD", pin, bits) \in AccessSteps
        /\ Set("PORTC", 5, bits) \in AccessSteps
        /\ \A reg \in {"C1", "C2", "BR"} : Set("SPI0", reg, bits) \in AccessSteps
  BY SetStep, InstanceNames
<1>2. SIM_SCGC5.PORTD \in SUBSET Int /\ SIM_SCGC5.PORTC \in SUBSET Int /\ SIM_SCGC4.SPI0 \in SUBSET Int
  BY DEF SIM_SCGC5, SIM_SCGC4
<1>3. /\ Or("SIM", "SCGC5", SIM_SCGC5.PORTD) \in AccessSteps /\ Or("SIM", "SCGC5", SIM_SCGC5.PORTC) \in AccessSteps
      /\ Or("SIM", "SCGC4", SIM_SCGC4.SPI0) \in AccessSteps
  BY <1>2, Gates DEF GateRegisters
<1>4. Mux(2) \in SUBSET Int /\ \A n \in {4, 16, 82} : Word(n) \in SUBSET Int
  BY PutType
<1>5. /\ \A pin \in {0, 2, 3} : Set("PORTD", pin, Mux(2)) \in AccessSteps
      /\ ClockPin \in AccessSteps
  BY <1>1, <1>4 DEF ClockPin
<1>6. Set("SPI0", "C1", Word(82)) \in AccessSteps /\ Set("SPI0", "C2", Word(16)) \in AccessSteps
      /\ Set("SPI0", "BR", Word(4)) \in AccessSteps
  BY <1>1, <1>4
<1> QED
  BY <1>3, <1>5, <1>6 DEF spi_init

LEMMA UsbType == usb_init \in Seq(AccessSteps)
<1>1. \A bits, value \in SUBSET Int :
        /\ \A reg \in {"ISTAT", "INTEN", "CTL", "USBCTRL", "CONTROL"} : Set("USB0", reg, bits) \in AccessSteps
        /\ Or("USB0", "USBTRC0", bits) \in AccessSteps /\ Until("USB0", "USBTRC0", bits, value) \in AccessSteps
  BY SetStep, OrStep, UntilStep, InstanceNames
<1>2. /\ SIM_SOPT2.USBSRC \in SUBSET Int /\ SIM_SCGC4.USBOTG \in SUBSET Int
      /\ USB_USBTRC0.USBRESET \in SUBSET Int /\ USB_INTEN.USBRSTEN \in SUBSET Int
      /\ USB_CONTROL.DPPULLUPNONOTG \in SUBSET Int /\ USB_CTL.USBENSOFEN \in SUBSET Int
  BY DEF SIM_SOPT2, SIM_SCGC4, USB_USBTRC0, USB_INTEN, USB_CONTROL, USB_CTL
<1>3. INT.USB0 \in Int
  BY DEF INT
<1>4. /\ Or("SIM", "SOPT2", SIM_SOPT2.USBSRC) \in AccessSteps
      /\ Or("SIM", "SCGC4", SIM_SCGC4.USBOTG) \in AccessSteps
  BY <1>2, Gates DEF GateRegisters
<1>5. /\ Until("USB0", "USBTRC0", USB_USBTRC0.USBRESET, {}) \in AccessSteps
      /\ Or("USB0", "USBTRC0", USB_USBTRC0.USBRESET) \in AccessSteps
      /\ Or("USB0", "USBTRC0", Word(64)) \in AccessSteps
  BY <1>1, <1>2, PutType
<1>6. /\ Set("USB0", "ISTAT", Word(255)) \in AccessSteps /\ Set("USB0", "INTEN", USB_INTEN.USBRSTEN) \in AccessSteps
      /\ Set("USB0", "USBCTRL", {}) \in AccessSteps
      /\ Set("USB0", "CONTROL", USB_CONTROL.DPPULLUPNONOTG) \in AccessSteps
      /\ Set("USB0", "CTL", USB_CTL.USBENSOFEN) \in AccessSteps
  BY <1>1, <1>2, PutType
<1> QED
  BY <1>3, <1>4, <1>5, <1>6, Interrupts, SMTT(60) DEF usb_init

LEMMA LedType == \A red, green, blue : RGB_LED(red, green, blue) \in Seq(AccessSteps)
BY SetStep, InstanceNames, PutType DEF RGB_LED

LEMMA DelayType == \A n : delay(n) \in Seq(AccessSteps)
<1> SUFFICES ASSUME NEW n PROVE delay(n) \in Seq(AccessSteps)
  OBVIOUS
<1>1. \A bits, value \in SUBSET Int :
        /\ \A reg \in {"CSR", "PSR", "CMR"} : Set("LPTMR0", reg, bits) \in AccessSteps
        /\ Until("LPTMR0", "CSR", bits, value) \in AccessSteps
  BY SetStep, UntilStep, InstanceNames
<1>2. /\ SIM_SCGC5.LPTMR \in SUBSET Int /\ LPTMR_CSR.TEN \in SUBSET Int /\ LPTMR_CSR.TCF \in SUBSET Int
      /\ Put(LPTMR_PSR.PCS, 1) \cup LPTMR_PSR.PBYP \in SUBSET Int
  BY PutType DEF SIM_SCGC5, LPTMR_CSR, LPTMR_PSR
<1> QED
  BY <1>1, <1>2, Gates, PutType DEF delay, GateRegisters

LEMMA ClocksType == init_clocks \in Seq(AccessSteps)
<1>1. \A bits, value \in SUBSET Int :
        /\ \A reg \in {"C1", "C2", "C5", "C6"} : Set("MCG", reg, bits) \in AccessSteps
        /\ AndNot("MCG", "C4", bits) \in AccessSteps /\ Until("MCG", "S", bits, value) \in AccessSteps
        /\ \A pin \in {18, 19} : AndNot("PORTA", pin, bits) \in AccessSteps
        /\ Set("OSC0", "CR", bits) \in AccessSteps
  BY SetStep, UntilStep, InstanceNames
<1>2. /\ SIM_SCGC5.PORTA \in SUBSET Int /\ CoreDividers \in SUBSET Int
      /\ Put(SIM_SOPT1.OSC32KSEL, 3) \in SUBSET Int /\ SIM_SOPT2.PLLFLLSEL \in SUBSET Int
      /\ Put(SIM_SOPT2.TPMSRC, 2) \in SUBSET Int /\ Put(SIM_SOPT2.TPMSRC, 1) \in SUBSET Int
      /\ PORT_PCR.ISF \cup Mux(7) \in SUBSET Int
  BY PutType DEF SIM_SCGC5, CoreDividers, SIM_CLKDIV1, SIM_SOPT1, SIM_SOPT2, PORT_PCR
<1>3. /\ Put(MCG_C2.RANGE0, 2) \cup MCG_C2.EREFS0 \in SUBSET Int
      /\ Put(MCG_C1.CLKS, 2) \cup Put(MCG_C1.FRDIV, 3) \in SUBSET Int
      /\ Put(MCG_C1.FRDIV, 3) \in SUBSET Int /\ Put(MCG_C5.PRDIV0, 1) \in SUBSET Int
      /\ MCG_C4.DMX32 \cup Put(MCG_C4.DRST_DRS, 3) \in SUBSET Int
      /\ MCG_C6.PLLS \in SUBSET Int /\ MCG_S.IREFST \in SUBSET Int
      /\ MCG_S.CLKST \in SUBSET Int /\ MCG_S.LOCK0 \in SUBSET Int
  BY PutType DEF MCG_C1, MCG_C2, MCG_C4, MCG_C5, MCG_C6, MCG_S
<1>4. <<Or("SIM", "SCGC5", SIM_SCGC5.PORTA), Set("SIM", "CLKDIV1", CoreDividers),
        AndNot("SIM", "SOPT1", Put(SIM_SOPT1.OSC32KSEL, 3)), Or("SIM", "SOPT2", SIM_SOPT2.PLLFLLSEL),
        AndNot("SIM", "SOPT2", Put(SIM_SOPT2.TPMSRC, 2)),
        Or("SIM", "SOPT2", Put(SIM_SOPT2.TPMSRC, 1))>> \in Seq(AccessSteps)
  BY <1>2, Gates DEF GateRegisters
<1>5. <<AndNot("PORTA", 18, PORT_PCR.ISF \cup Mux(7)), AndNot("PORTA", 19, PORT_PCR.ISF \cup Mux(7)),
        Set("OSC0", "CR", {})>> \in Seq(AccessSteps)
  BY <1>1, <1>2
<1>6. <<Set("MCG", "C2", Put(MCG_C2.RANGE0, 2) \cup MCG_C2.EREFS0),
        Set("MCG", "C1", Put(MCG_C1.CLKS, 2) \cup Put(MCG_C1.FRDIV, 3)),
        AndNot("MCG", "C4", MCG_C4.DMX32 \cup Put(MCG_C4.DRST_DRS, 3)),
        Set("MCG", "C5", Put(MCG_C5.PRDIV0, 1)), Set("MCG", "C6", {})>> \in Seq(AccessSteps)
  BY <1>1, <1>3
<1>7. UntilExternal \in Seq(AccessSteps)
  <2>1. /\ Until("MCG", "S", MCG_S.IREFST, {}) \in AccessSteps
        /\ Until("MCG", "S", MCG_S.CLKST, Word(8)) \in AccessSteps
    BY <1>1, <1>3, PutType
  <2> QED
    BY <2>1 DEF UntilExternal
<1>8. <<Set("MCG", "C6", MCG_C6.PLLS), Until("MCG", "S", MCG_S.LOCK0, MCG_S.LOCK0),
        Set("MCG", "C1", Put(MCG_C1.FRDIV, 3)), Until("MCG", "S", MCG_S.CLKST, Word(12))>> \in Seq(AccessSteps)
  <2>1. /\ Until("MCG", "S", MCG_S.LOCK0, MCG_S.LOCK0) \in AccessSteps
        /\ Until("MCG", "S", MCG_S.CLKST, Word(12)) \in AccessSteps
    BY <1>1, <1>3, PutType
  <2>2. Set("MCG", "C6", MCG_C6.PLLS) \in AccessSteps /\ Set("MCG", "C1", Put(MCG_C1.FRDIV, 3)) \in AccessSteps
    BY <1>1, <1>3
  <2> QED
    BY <2>1, <2>2
<1> QED
  BY <1>4, <1>5, <1>6, <1>7, <1>8 DEF init_clocks

LEMMA LedIoType == init_led_io \in Seq(AccessSteps)
<1>1. \A bits \in SUBSET Int :
        /\ \A pin \in {18, 19} : Set("PORTB", pin, bits) \in AccessSteps
        /\ Set("PORTD", 1, bits) \in AccessSteps
        /\ \A t \in {"TPM0", "TPM2"} : \A reg \in {"SC", "MOD", "C0SC", "C1SC"} : Set(t, reg, bits) \in AccessSteps
  BY SetStep, InstanceNames
<1>2. /\ LedPorts \in SUBSET Int /\ SIM_SCGC6.TPM0 \cup SIM_SCGC6.TPM2 \in SUBSET Int
      /\ Put(SIM_SOPT2.TPMSRC, 1) \in SUBSET Int /\ TPM_CnSC.MSB \cup TPM_CnSC.ELSA \in SUBSET Int
      /\ Put(TPM_SC.CMOD, 1) \cup Put(TPM_SC.PS, 0) \in SUBSET Int
  BY PutType DEF LedPorts, SIM_SCGC5, SIM_SCGC6, SIM_SOPT2, TPM_CnSC, TPM_SC
<1>3. RGB_LED(0, 0, 0) \in Seq(AccessSteps)
  BY LedType
<1> QED
  BY <1>1, <1>2, <1>3, Gates, PutType DEF init_led_io, GateRegisters

LEMMA WriteErrType == uart_write_err \in Seq(AccessSteps)
BY SetStep, UntilStep, InstanceNames, SMTT(60) DEF uart_write_err, GateRegisters, UART_S1

LEMMA ResetType == _reset_init \in Seq(Steps)
<1>1. CopyData \in Seq(Steps)
  BY OtherStep, StartupAssumption DEF CopyData
<1>2. StopWatchdog \in Steps
  BY Gates, AccessIsStep DEF StopWatchdog
<1>3. _start \in Seq(Steps)
  BY OtherStep DEF _start
<1> QED
  BY <1>1, <1>2, <1>3, ClocksType, LedIoType, AccessIsStep DEF _reset_init

LEMMA BodyType == \A f \in Functions : \A rate : Body(f, rate) \in Seq(AccessSteps)
BY UartType, I2cType, TouchType, SpiType, UsbType, DelayType DEF Body, Functions

LEMMA FaultType == \A pattern \in SUBSET (0 .. WordBits - 1) : fault(pattern) \in Seq(Steps)
BY OtherStep, StartupAssumption DEF fault

LEMMA PatternType == \A x : Pattern(x) \in SUBSET (0 .. WordBits - 1)
BY DEF Pattern

LEMMA HandlerType ==
  /\ \A name : Handler(name) \in Seq(Steps)
  /\ _kill \in Seq(Steps)
<1>1. Default_Handler \in Seq(Steps) /\ HardFault_Handler \in Seq(Steps) /\ _kill \in Seq(Steps)
  BY FaultType, PatternType, WriteErrType, AccessIsStep DEF Default_Handler, HardFault_Handler, _kill
<1> QED
  BY <1>1 DEF Handler

\* What a turn of the loop in fault is made of.
Turn(red, pattern) == RGB_LED(red, 0, 0) \o delay(100) \o fault(Rotate(pattern))

LEMMA TurnType ==
  \A red : \A pattern \in SUBSET (0 .. WordBits - 1) : Turn(red, pattern) \in Seq(Steps)
<1> SUFFICES ASSUME NEW red, NEW pattern \in SUBSET (0 .. WordBits - 1)
             PROVE  Turn(red, pattern) \in Seq(Steps)
  OBVIOUS
<1>1. Rotate(pattern) \in SUBSET (0 .. WordBits - 1)
  BY StartupAssumption DEF Rotate
<1> QED
  BY <1>1, FaultType, LedType, DelayType, AccessIsStep DEF Turn

-----------------------------------------------------------------------------
(* The types.                                                                  *)

\* What the registers hold after reset, those of the reset that are not zero by name.
ResetWord(m, r) ==
  CASE m = "SIM" /\ r = "SOPT1" -> {31}
    [] m = "SIM" /\ r = "CLKDIV1" -> {16}
    [] m = "SIM" /\ r = "SCGC6" -> {0}
    [] m = "SIM" /\ r = "COPC" -> {2, 3}
    [] m = "MCG" /\ r = "C1" -> {2}
    [] m = "MCG" /\ r = "C2" -> {7}
    [] m = "MCG" /\ r = "C4" -> {0}
    [] m = "MCG" /\ r = "S" -> {4}
    [] m = "UART0" /\ r = "S1" -> {6, 7}
    [] m = "UART0" /\ r = "BDL" -> {2}
    [] m = "UART0" /\ r = "C4" -> {0, 1, 2, 3}
    [] OTHER -> {}

Two(n) == 2 ^ n

LEMMA Powers ==
  /\ Two(0) = 1 /\ Two(1) = 2 /\ Two(2) = 4 /\ Two(3) = 8 /\ Two(4) = 16 /\ Two(5) = 32
  /\ Two(6) = 64 /\ Two(7) = 128 /\ Two(8) = 256 /\ Two(9) = 512 /\ Two(10) = 1024
  /\ Two(11) = 2048 /\ Two(12) = 4096 /\ Two(13) = 8192 /\ Two(14) = 16384 /\ Two(15) = 32768
  /\ Two(16) = 65536 /\ Two(17) = 131072 /\ Two(18) = 262144 /\ Two(19) = 524288
  /\ Two(20) = 1048576 /\ Two(21) = 2097152 /\ Two(22) = 4194304 /\ Two(23) = 8388608
  /\ Two(24) = 16777216 /\ Two(25) = 33554432 /\ Two(26) = 67108864 /\ Two(27) = 134217728
  /\ Two(28) = 268435456 /\ Two(29) = 536870912 /\ Two(30) = 1073741824
BY DEF Two

LEMMA LowestBit ==
  /\ Lowest(0 .. 30) = 0 /\ Lowest(0 .. 7) = 0 /\ Lowest(0 .. 5) = 0 /\ Lowest(0 .. 4) = 0
  /\ Lowest(0 .. 3) = 0 /\ Lowest(0 .. 2) = 0 /\ Lowest(2 .. 3) = 2 /\ Lowest(3 .. 4) = 3
  /\ Lowest(3 .. 5) = 3 /\ Lowest(4 .. 5) = 4 /\ Lowest(4 .. 6) = 4 /\ Lowest(5 .. 6) = 5
  /\ Lowest(6 .. 7) = 6 /\ Lowest(8 .. 10) = 8 /\ Lowest(16 .. 18) = 16 /\ Lowest(18 .. 19) = 18
  /\ Lowest(24 .. 25) = 24 /\ Lowest(26 .. 27) = 26 /\ Lowest(28 .. 31) = 28
BY DEF Lowest

LEMMA WordBit == \A x, c : c \in Word(x) <=> c \in 0 .. 30 /\ (x \div Two(c)) % 2 = 1
<1>1. \A c \in 0 .. 30 : c - 0 = c
  OBVIOUS
<1> QED
  BY <1>1, LowestBit DEF Put, Word, Two

LEMMA ResetValues == Word(4) = {2} /\ Word(15) = {0, 1, 2, 3} /\ ResetDividers = {16}
<1>1. \A c : c \in Word(4) <=> c = 2
  BY WordBit, Powers
<1>2. \A c : c \in Word(15) <=> c \in 0 .. 3
  BY WordBit, Powers
<1>3. \A c : c \in ResetDividers <=> c \in 16 .. 18 /\ (1 \div Two(c - 16)) % 2 = 1
  BY LowestBit DEF ResetDividers, SIM_CLKDIV1, Put, Two
<1>4. \A c : c \in ResetDividers <=> c = 16
  BY <1>3, Powers
<1> QED
  BY <1>1, <1>2, <1>4

LEMMA ResetWords ==
  /\ Registered(ResetRegisters)
  /\ \A m \in DOMAIN Instances : \A r \in DOMAIN Instances[m] :
       ResetRegisters[m][r] = ResetWord(m, r)
<1> DEFINE zero == [m \in DOMAIN Instances |-> [r \in DOMAIN Instances[m] |-> {}]]
<1> DEFINE sim == [zero["SIM"] EXCEPT !["SOPT1"] = SIM_SOPT1.USBREGEN, !["CLKDIV1"] = ResetDividers,
                                      !["SCGC6"] = SIM_SCGC6.FTF, !["COPC"] = SIM_COPC.COPT]
<1> DEFINE mcg == [zero["MCG"] EXCEPT !["C1"] = MCG_C1.IREFS, !["C2"] = MCG_C2.LOCRE0,
                                      !["C4"] = MCG_C4.SCFTRIM, !["S"] = MCG_S.IREFST]
<1> DEFINE uart == [zero["UART0"] EXCEPT !["S1"] = UARTLP_S1.TDRE \cup UARTLP_S1.TC,
                                         !["BDL"] = Word(4), !["C4"] = Word(15)]
<1>1. ResetRegisters = [zero EXCEPT !["SIM"] = sim, !["MCG"] = mcg, !["UART0"] = uart]
  BY DEF ResetRegisters
<1>2. \A r \in DOMAIN Instances["SIM"] : sim[r] = ResetWord("SIM", r)
  <2>1. /\ ResetDividers = {16} /\ SIM_SOPT1.USBREGEN = {31} /\ SIM_SCGC6.FTF = {0}
        /\ SIM_COPC.COPT = {2, 3}
    BY ResetValues DEF SIM_SOPT1, SIM_SCGC6, SIM_COPC
  <2>2. /\ sim["SOPT1"] = {31} /\ sim["CLKDIV1"] = {16} /\ sim["SCGC6"] = {0} /\ sim["COPC"] = {2, 3}
        /\ sim["SOPT2"] = {} /\ sim["SCGC4"] = {} /\ sim["SCGC5"] = {}
    BY <2>1, InstanceNames
  <2> QED
    BY <2>2, InstanceNames, ZenonT(60) DEF ResetWord
<1>3. \A r \in DOMAIN Instances["MCG"] : mcg[r] = ResetWord("MCG", r)
  BY InstanceNames, ZenonT(60) DEF ResetWord, MCG_C1, MCG_C2, MCG_C4, MCG_S
<1>4. \A r \in DOMAIN Instances["UART0"] : uart[r] = ResetWord("UART0", r)
  BY ResetValues, InstanceNames, ZenonT(60) DEF ResetWord, UARTLP_S1
<1>5. /\ sim = [r \in DOMAIN Instances["SIM"] |-> sim[r]]
      /\ mcg = [r \in DOMAIN Instances["MCG"] |-> mcg[r]]
      /\ uart = [r \in DOMAIN Instances["UART0"] |-> uart[r]]
  BY InstanceNames, ZenonT(60)
<1> HIDE DEF sim, mcg, uart
<1>6. \A m \in DOMAIN Instances : \A r \in DOMAIN Instances[m] :
       ResetRegisters[m][r] = ResetWord(m, r)
  <2> SUFFICES ASSUME NEW m \in DOMAIN Instances, NEW r \in DOMAIN Instances[m]
               PROVE  ResetRegisters[m][r] = ResetWord(m, r)
    OBVIOUS
  <2>1. CASE m \in {"SIM", "MCG", "UART0"}
    BY <1>1, <1>2, <1>3, <1>4, <2>1
  <2>2. CASE m \notin {"SIM", "MCG", "UART0"}
    <3>1. ResetWord(m, r) = {}
      BY <2>2 DEF ResetWord
    <3> QED
      BY <1>1, <2>2, <3>1
  <2> QED
    BY <2>1, <2>2
<1>7. \A m \in DOMAIN Instances : \A r \in DOMAIN Instances[m] :
       ResetWord(m, r) \subseteq Instances[m][r]
  BY InstanceBits, InstanceNames DEF ResetWord, Bytewise
<1>8. ResetRegisters = [m \in DOMAIN Instances |->
                         [r \in DOMAIN Instances[m] |-> ResetRegisters[m][r]]]
  <2>1. DOMAIN ResetRegisters = DOMAIN Instances
    BY <1>1
  <2>2. ResetRegisters = [m \in DOMAIN Instances |-> ResetRegisters[m]]
    BY <1>1
  <2>3. ASSUME NEW m \in DOMAIN Instances
        PROVE  ResetRegisters[m] = [r \in DOMAIN Instances[m] |-> ResetRegisters[m][r]]
    <3>1. CASE m \in {"SIM", "MCG", "UART0"}
      <4>1. /\ ResetRegisters["SIM"] = sim /\ ResetRegisters["MCG"] = mcg
            /\ ResetRegisters["UART0"] = uart
        BY <1>1, InstanceNames
      <4> QED
        BY <1>5, <3>1, <4>1
    <3>2. CASE m \notin {"SIM", "MCG", "UART0"}
      <4>1. ResetRegisters[m] = [r \in DOMAIN Instances[m] |-> {}]
        BY <1>1, <3>2
      <4> QED
        BY <4>1
    <3> QED
      BY <3>1, <3>2
  <2> HIDE DEF zero
  <2> QED
    BY <2>2, <2>3
<1> QED
  BY <1>6, <1>7, <1>8 DEF Registered

\* The registers that change without a store, or otherwise than the store says.
Volatile(m, r) == \/ m = "MCG" /\ r = "S"
                  \/ m = "LPTMR0" /\ r = "CSR"
                  \/ m = "UART0" /\ r = "S1"
                  \/ m = "USB0" /\ r = "USBTRC0"
                  \/ m = "NVIC" /\ r = "ICPR"

LEMMA StoredWords ==
  ASSUME Registered(regs), NEW m \in DOMAIN Instances, NEW r \in DOMAIN Instances[m], NEW word
  PROVE  /\ Registered(Stored(m, r, word))
         /\ ~Volatile(m, r) => Stored(m, r, word)[m][r] = word \cap Instances[m][r]
         /\ \A n \in DOMAIN Instances : \A q \in DOMAIN Instances[n] :
              (n # m \/ q # r) /\ (n # "UART0" \/ q # "S1") => Stored(m, r, word)[n][q] = regs[n][q]
<1> DEFINE kept == Write(regs, m, r, word \cap Instances[m][r])
<1>1. /\ Registered(kept) /\ kept[m][r] = word \cap Instances[m][r]
      /\ \A n \in DOMAIN Instances : \A q \in DOMAIN Instances[n] :
           n # m \/ q # r => kept[n][q] = regs[n][q]
  BY RegisterStored
<1>2. Stored(m, r, word) =
        CASE m = "UART0" /\ r = "D" -> Write(kept, "UART0", "S1", kept["UART0"]["S1"] \ UARTLP_S1.TDRE)
          [] m = "NVIC" /\ r = "ICPR" -> Write(kept, "NVIC", "ICPR", {})
          [] OTHER -> kept
  BY DEF Stored, Write
<1> HIDE DEF kept
<1>3. CASE m = "UART0" /\ r = "D"
  <2>1. "UART0" \in DOMAIN Instances /\ "S1" \in DOMAIN Instances["UART0"]
    BY InstanceNames
  <2>2. kept["UART0"]["S1"] \ UARTLP_S1.TDRE \subseteq Instances["UART0"]["S1"]
    BY <1>1, <2>1 DEF Registered
  <2> DEFINE g == Write(kept, "UART0", "S1", kept["UART0"]["S1"] \ UARTLP_S1.TDRE)
  <2>3. /\ Registered(g)
        /\ \A n \in DOMAIN Instances : \A q \in DOMAIN Instances[n] :
             n # "UART0" \/ q # "S1" => g[n][q] = kept[n][q]
    BY <1>1, <2>1, <2>2, RegisterStored
  <2>4. Stored(m, r, word) = g
    BY <1>2, <1>3
  <2> HIDE DEF g
  <2> QED
    BY <1>1, <1>3, <2>3, <2>4
<1>4. CASE m = "NVIC" /\ r = "ICPR"
  <2> DEFINE g == Write(kept, "NVIC", "ICPR", {})
  <2>1. /\ Registered(g)
        /\ \A n \in DOMAIN Instances : \A q \in DOMAIN Instances[n] :
             n # "NVIC" \/ q # "ICPR" => g[n][q] = kept[n][q]
    BY <1>1, <1>4, RegisterStored
  <2>2. Stored(m, r, word) = g
    BY <1>2, <1>4
  <2> HIDE DEF g
  <2> QED
    BY <1>1, <1>4, <2>1, <2>2 DEF Volatile
<1>5. CASE ~(m = "UART0" /\ r = "D") /\ ~(m = "NVIC" /\ r = "ICPR")
  BY <1>1, <1>2, <1>5
<1> QED
  BY <1>3, <1>4, <1>5

LEMMA HeadType ==
  ASSUME todo \in Seq(Steps), todo # <<>>
  PROVE  /\ Head(todo) \in Steps /\ WellFormed(Head(todo)) /\ Tail(todo) \in Seq(Steps)
         /\ Head(todo) = todo[1] /\ Len(todo) \in Nat \ {0} /\ Len(Tail(todo)) = Len(todo) - 1
         /\ \A i \in 1 .. Len(todo) - 1 : Tail(todo)[i] = todo[i + 1]
BY DEF Steps

\* A register after a step of the hardware.
LEMMA BecomesWords ==
  ASSUME Registered(regs), NEW m \in DOMAIN Instances, NEW r \in DOMAIN Instances[m],
         NEW on, NEW off, on \subseteq Instances[m][r], Becomes(m, r, on, off)
  PROVE  /\ Registered(regs') /\ regs'[m][r] = (regs[m][r] \cup on) \ off
         /\ \A n \in DOMAIN Instances : \A q \in DOMAIN Instances[n] :
              n # m \/ q # r => regs'[n][q] = regs[n][q]
<1>1. (regs[m][r] \cup on) \ off \subseteq Instances[m][r]
  BY DEF Registered
<1>2. regs' = Write(regs, m, r, (regs[m][r] \cup on) \ off)
  BY DEF Becomes, Write
<1> QED
  BY <1>1, <1>2, RegisterStored

LEMMA HardwareWords ==
  ASSUME Registered(regs), Hardware
  PROVE  /\ Registered(regs')
         /\ \A n \in DOMAIN Instances : \A q \in DOMAIN Instances[n] :
              ~Volatile(n, q) => regs'[n][q] = regs[n][q]
         /\ UNCHANGED <<cpu, ram, history>>
<1>1. /\ MCG_S.OSCINIT0 \subseteq Instances["MCG"]["S"] /\ MCG_S.CLKST \subseteq Instances["MCG"]["S"]
      /\ MCG_S.LOCK0 \cup MCG_S.PLLST \subseteq Instances["MCG"]["S"]
      /\ LPTMR_CSR.TCF \subseteq Instances["LPTMR0"]["CSR"]
      /\ UARTLP_S1.TDRE \subseteq Instances["UART0"]["S1"]
  BY InstanceNames, InstanceBits DEF Bytewise, MCG_S, LPTMR_CSR, UARTLP_S1
<1>2. /\ "MCG" \in DOMAIN Instances /\ "S" \in DOMAIN Instances["MCG"]
      /\ "LPTMR0" \in DOMAIN Instances /\ "CSR" \in DOMAIN Instances["LPTMR0"]
      /\ "UART0" \in DOMAIN Instances /\ "S1" \in DOMAIN Instances["UART0"]
      /\ "USB0" \in DOMAIN Instances /\ "USBTRC0" \in DOMAIN Instances["USB0"]
  BY InstanceNames
<1>3. ASSUME NEW m \in DOMAIN Instances, NEW r \in DOMAIN Instances[m], Volatile(m, r), NEW on,
             NEW off, on \subseteq Instances[m][r], Becomes(m, r, on, off)
      PROVE  /\ Registered(regs')
             /\ \A n \in DOMAIN Instances : \A q \in DOMAIN Instances[n] :
                  ~Volatile(n, q) => regs'[n][q] = regs[n][q]
             /\ UNCHANGED <<cpu, ram, history>>
  <2>1. UNCHANGED <<cpu, ram, history>>
    BY <1>3 DEF Becomes
  <2> QED
    BY <1>3, <2>1, BecomesWords
<1>4. CASE OscillatorStarts \/ ReferenceFollows \/ PllLocks
  BY <1>1, <1>2, <1>3, <1>4 DEF OscillatorStarts, ReferenceFollows, PllLocks, Volatile
<1>5. CASE TimerEnds \/ CharacterSent \/ UsbResetEnds
  BY <1>1, <1>2, <1>3, <1>5 DEF TimerEnds, CharacterSent, UsbResetEnds, Volatile
<1>6. CASE ClockFollows
  <2> DEFINE w == (regs["MCG"]["S"] \ MCG_S.CLKST) \cup Put(MCG_S.CLKST, Selected)
  <2>1. w \subseteq Instances["MCG"]["S"]
    BY <1>1, <1>2, PutType DEF Registered
  <2>2. regs' = Write(regs, "MCG", "S", w) /\ UNCHANGED <<cpu, ram, history>>
    BY <1>6 DEF ClockFollows, Write
  <2> HIDE DEF w
  <2> QED
    BY <1>2, <2>1, <2>2, RegisterStored DEF Volatile
<1> QED
  BY <1>4, <1>5, <1>6 DEF Hardware

\* A store of the processor.
LEMMA StoreWords ==
  ASSUME Registered(regs), todo \in Seq(Steps), NEW do \in Accesses, NEW word, Store(do, word)
  PROVE  /\ Head(todo).of \in DOMAIN Instances /\ Head(todo).reg \in DOMAIN Instances[Head(todo).of]
         /\ Registered(regs') /\ todo' = Tail(todo)
         /\ ~Volatile(Head(todo).of, Head(todo).reg) =>
              regs'[Head(todo).of][Head(todo).reg] = word \cap Instances[Head(todo).of][Head(todo).reg]
         /\ \A n \in DOMAIN Instances : \A q \in DOMAIN Instances[n] :
              (n # Head(todo).of \/ q # Head(todo).reg) /\ (n # "UART0" \/ q # "S1") =>
                regs'[n][q] = regs[n][q]
<1>1. todo # <<>> /\ Head(todo).do \in Accesses
  BY DEF Store, NextIs
<1>2. Head(todo).of \in DOMAIN Instances /\ Head(todo).reg \in DOMAIN Instances[Head(todo).of]
  BY <1>1, HeadType DEF WellFormed
<1>3. regs' = Stored(Head(todo).of, Head(todo).reg, word) /\ todo' = Tail(todo)
  BY DEF Store
<1> QED
  BY <1>2, <1>3, StoredWords

-----------------------------------------------------------------------------
(* What the handlers of the drivers, and main when it prints and reads, do to  *)
(* the registers.                                                              *)

\* The devices that may interrupt, by the bits of their interrupts.
Devices == {12, 24, 26}
Device(b) == CASE b = 12 -> "UART0" [] b = 24 -> "USB0" [] OTHER -> "TSI0"

Attended(m, r) == \/ m = "UART0" /\ r \in {"C2", "S1"}
                  \/ m = "USB0" /\ r \in {"CTL", "INTEN"}
                  \/ m = "TSI0" /\ r = "GENCS"

\* From f to g only TIE and RIE in UART0's C2, its S1, ODDRST and TXSUSPENDTOKENBUSY in
\* USB0's CTL, its INTEN and EOSF in TSI0's GENCS may have changed.
Serviced(f, g) ==
  /\ Registered(g)
  /\ \A n \in DOMAIN Instances : \A q \in DOMAIN Instances[n] : ~Attended(n, q) => g[n][q] = f[n][q]
  /\ g["UART0"]["C2"] \ {5, 7} = f["UART0"]["C2"] \ {5, 7}
  /\ g["USB0"]["CTL"] \ {1} \in {f["USB0"]["CTL"] \ {1}, {0}}
  /\ g["TSI0"]["GENCS"] \ {2} = f["TSI0"]["GENCS"] \ {2}

LEMMA ServicedSelf == \A f : Registered(f) => Serviced(f, f)
BY DEF Serviced

LEMMA ServicedType == \A f, g : Serviced(f, g) => Registered(g)
BY DEF Serviced

LEMMA ServicedTwice == \A f, g, h : Serviced(f, g) /\ Serviced(g, h) => Serviced(f, h)
<1> SUFFICES ASSUME NEW f, NEW g, NEW h, Serviced(f, g), Serviced(g, h) PROVE Serviced(f, h)
  OBVIOUS
<1>1. \A n \in DOMAIN Instances : \A q \in DOMAIN Instances[n] :
        ~Attended(n, q) => h[n][q] = f[n][q]
  BY ZenonT(60) DEF Serviced
<1> QED
  BY <1>1 DEF Serviced

LEMMA AttendedNames ==
  /\ "UART0" \in DOMAIN Instances /\ "USB0" \in DOMAIN Instances /\ "TSI0" \in DOMAIN Instances
  /\ \A r \in {"C2", "S1"} : r \in DOMAIN Instances["UART0"] /\ Instances["UART0"][r] = 0 .. 7
  /\ \A r \in {"CTL", "INTEN"} : r \in DOMAIN Instances["USB0"] /\ Instances["USB0"][r] = 0 .. 7
  /\ "GENCS" \in DOMAIN Instances["TSI0"] /\ Instances["TSI0"]["GENCS"] = 0 .. 31
BY InstanceNames, InstanceBits DEF Bytewise

\* One register at a time.
LEMMA ServicedWrite ==
  ASSUME NEW f, Registered(f), NEW w
  PROVE  /\ w \subseteq 0 .. 7 => Serviced(f, Write(f, "UART0", "S1", w))
         /\ w \subseteq 0 .. 7 => Serviced(f, Write(f, "USB0", "INTEN", w))
         /\ w \subseteq 0 .. 7 /\ w \ {5, 7} = f["UART0"]["C2"] \ {5, 7} =>
              Serviced(f, Write(f, "UART0", "C2", w))
         /\ w \subseteq 0 .. 7 /\ w \ {1} \in {f["USB0"]["CTL"] \ {1}, {0}} =>
              Serviced(f, Write(f, "USB0", "CTL", w))
         /\ w \subseteq 0 .. 31 /\ w \ {2} = f["TSI0"]["GENCS"] \ {2} =>
              Serviced(f, Write(f, "TSI0", "GENCS", w))
<1>1. ASSUME NEW m \in DOMAIN Instances, NEW r \in DOMAIN Instances[m], Attended(m, r),
             w \subseteq Instances[m][r]
      PROVE  /\ Registered(Write(f, m, r, w)) /\ Write(f, m, r, w)[m][r] = w
             /\ \A n \in DOMAIN Instances : \A q \in DOMAIN Instances[n] :
                  n # m \/ q # r => Write(f, m, r, w)[n][q] = f[n][q]
             /\ \A n \in DOMAIN Instances : \A q \in DOMAIN Instances[n] :
                  ~Attended(n, q) => Write(f, m, r, w)[n][q] = f[n][q]
  BY <1>1, RegisterStored
<1>2. w \subseteq 0 .. 7 => Serviced(f, Write(f, "UART0", "S1", w))
  BY <1>1, AttendedNames DEF Serviced, Attended
<1>3. w \subseteq 0 .. 7 => Serviced(f, Write(f, "USB0", "INTEN", w))
  BY <1>1, AttendedNames DEF Serviced, Attended
<1>4. w \subseteq 0 .. 7 /\ w \ {5, 7} = f["UART0"]["C2"] \ {5, 7} =>
        Serviced(f, Write(f, "UART0", "C2", w))
  BY <1>1, AttendedNames DEF Serviced, Attended
<1>5. w \subseteq 0 .. 7 /\ w \ {1} \in {f["USB0"]["CTL"] \ {1}, {0}} =>
        Serviced(f, Write(f, "USB0", "CTL", w))
  BY <1>1, AttendedNames DEF Serviced, Attended
<1>6. w \subseteq 0 .. 31 /\ w \ {2} = f["TSI0"]["GENCS"] \ {2} =>
        Serviced(f, Write(f, "TSI0", "GENCS", w))
  BY <1>1, AttendedNames DEF Serviced, Attended
<1> QED
  BY <1>2, <1>3, <1>4, <1>5, <1>6

\* An access of a handler to m, whose clock is off.
Strikes(m) == ~Clocked(m) /\ Take(INT.Hard_Fault, "bus", "hard")

\* How a handler ends: it returns, it spins, or it fails.
Ends(n) ==
  \/ UNCHANGED <<todo, level, cause>>
  \/ todo' = <<Other("spin", {})>> \o todo /\ level' = "irq" /\ cause' = cause
  \/ Strikes(Device(n - 16))
  \/ n = INT.USB0 /\ Strikes("UART0")

LEMMA ReturnsServiced ==
  ASSUME Registered(regs), NEW n \in {INT.UART0, INT.USB0, INT.TSI0}, NEW new,
         Returns(Device(n - 16), new), Serviced(regs, new)
  PROVE  Serviced(regs, regs') /\ UNCHANGED <<task, ram, called, baud>> /\ Ends(n)
<1>1. CASE Clocked(Device(n - 16))
  BY <1>1 DEF Returns, Ends, cpu
<1>2. CASE ~Clocked(Device(n - 16))
  BY <1>2, ServicedSelf DEF Returns, Ends, Strikes, Take
<1> QED
  BY <1>1, <1>2

LEMMA UartServiced ==
  ASSUME Registered(regs), UART0_IRQHandler
  PROVE  Serviced(regs, regs') /\ UNCHANGED <<task, ram, called, baud>> /\ Ends(INT.UART0)
<1> DEFINE New(sent, emptied, filled) == [regs EXCEPT
         !["UART0"]["S1"] = IF sent THEN @ \ UARTLP_S1.TDRE ELSE @,
         !["UART0"]["C2"] = @ \ ((IF emptied THEN UART_C2.TIE ELSE {})
                                  \cup (IF filled THEN UART_C2.RIE ELSE {}))]
<1>1. PICK sent, emptied, filled \in BOOLEAN : Returns("UART0", New(sent, emptied, filled))
  BY DEF UART0_IRQHandler
<1> DEFINE s1 == IF sent THEN regs["UART0"]["S1"] \ UARTLP_S1.TDRE ELSE regs["UART0"]["S1"]
<1> DEFINE c2 == regs["UART0"]["C2"] \ ((IF emptied THEN UART_C2.TIE ELSE {})
                                   \cup (IF filled THEN UART_C2.RIE ELSE {}))
<1> DEFINE f == Write(regs, "UART0", "S1", s1)
<1> DEFINE g == Write(f, "UART0", "C2", c2)
<1>2. regs["UART0"]["S1"] \subseteq 0 .. 7 /\ regs["UART0"]["C2"] \subseteq 0 .. 7
  BY AttendedNames DEF Registered
<1>3. s1 \subseteq 0 .. 7 /\ c2 \subseteq 0 .. 7 /\ c2 \ {5, 7} = regs["UART0"]["C2"] \ {5, 7}
  BY <1>2 DEF UART_C2
<1>4. New(sent, emptied, filled) = g
  BY DEF Write
<1> HIDE DEF s1, c2, New
<1>5. s1 \subseteq Instances["UART0"]["S1"]
  BY <1>3, AttendedNames
<1>6. Registered(f) /\ f["UART0"]["C2"] = regs["UART0"]["C2"]
  BY <1>5, RegisterStored, AttendedNames
<1>7. Serviced(regs, f)
  BY <1>3, ServicedWrite
<1>8. Serviced(regs, g)
  BY <1>3, <1>6, <1>7, ServicedWrite, ServicedTwice
<1>9. Device(INT.UART0 - 16) = "UART0"
  BY DEF INT, Device
<1> QED
  BY <1>1, <1>4, <1>8, <1>9, ReturnsServiced

LEMMA TsiServiced ==
  ASSUME Registered(regs), TSI0_IRQHandler
  PROVE  Serviced(regs, regs') /\ UNCHANGED <<task, ram, called, baud>> /\ Ends(INT.TSI0)
<1> DEFINE w == regs["TSI0"]["GENCS"] \ TSI_GENCS.EOSF
<1>1. Returns("TSI0", Write(regs, "TSI0", "GENCS", w))
  BY DEF TSI0_IRQHandler, Write
<1>2. w \subseteq 0 .. 31 /\ w \ {2} = regs["TSI0"]["GENCS"] \ {2}
  BY AttendedNames DEF Registered, TSI_GENCS
<1> HIDE DEF w
<1>3. Serviced(regs, Write(regs, "TSI0", "GENCS", w))
  BY <1>2, ServicedWrite
<1>4. Device(INT.TSI0 - 16) = "TSI0"
  BY DEF INT, Device
<1> QED
  BY <1>1, <1>3, <1>4, ReturnsServiced

LEMMA ResetServiced ==
  ASSUME Registered(regs), usb_reset
  PROVE  Serviced(regs, regs') /\ UNCHANGED <<task, ram, called, baud>> /\ Ends(INT.USB0)
<1> DEFINE ctl == regs["USB0"]["CTL"] \cup USB_CTL.ODDRST
<1> DEFINE on == USB_INTEN.TOKDNEEN \cup USB_INTEN.ERROREN \cup USB_INTEN.USBRSTEN \cup USB_INTEN.STALLEN
<1> DEFINE f == Write(regs, "USB0", "CTL", ctl)
<1> DEFINE g == Write(f, "USB0", "INTEN", on)
<1>1. Returns("USB0", g)
  BY DEF usb_reset, Write
<1>2. ctl \subseteq 0 .. 7 /\ on \subseteq 0 .. 7 /\ ctl \ {1} = regs["USB0"]["CTL"] \ {1}
  BY AttendedNames DEF Registered, USB_CTL, USB_INTEN
<1> HIDE DEF ctl, on
<1>3. Serviced(regs, f)
  BY <1>2, ServicedWrite
<1> HIDE DEF f
<1>4. Serviced(f, g)
  BY <1>2, <1>3, ServicedType, ServicedWrite
<1>5. Serviced(regs, g)
  BY <1>3, <1>4, ServicedTwice
<1>6. Device(INT.USB0 - 16) = "USB0"
  BY DEF INT, Device
<1> QED
  BY <1>1, <1>5, <1>6, ReturnsServiced

\* uart_write and uart_read enable their interrupt.
LEMMA EnabledServiced ==
  \A f : \A on \in SUBSET {5, 7} :
    Registered(f) => Serviced(f, [f EXCEPT !["UART0"]["C2"] = @ \cup on])
<1> SUFFICES ASSUME NEW f, NEW on \in SUBSET {5, 7}, Registered(f)
             PROVE  Serviced(f, [f EXCEPT !["UART0"]["C2"] = @ \cup on])
  OBVIOUS
<1> DEFINE w == f["UART0"]["C2"] \cup on
<1>1. [f EXCEPT !["UART0"]["C2"] = @ \cup on] = Write(f, "UART0", "C2", w)
  BY DEF Write
<1>2. w \subseteq 0 .. 7 /\ w \ {5, 7} = f["UART0"]["C2"] \ {5, 7}
  BY AttendedNames DEF Registered
<1> HIDE DEF w
<1>3. Serviced(f, Write(f, "UART0", "C2", w))
  BY <1>2, ServicedWrite
<1> QED
  BY <1>1, <1>3

LEMMA PrintServiced ==
  ASSUME Registered(regs), NEW before, NEW after, Serviced(regs, before), Serviced(regs, after),
         iprintf(before, after)
  PROVE  Serviced(regs, regs') /\ UNCHANGED <<task, ram, called, baud>> /\ Ends(INT.USB0)
<1> DEFINE Enabling(f) == [f EXCEPT !["UART0"]["C2"] = @ \cup UART_C2.TIE]
<1>1. \A f : Serviced(regs, f) => Serviced(regs, Enabling(f))
  <2>1. UART_C2.TIE \in SUBSET {5, 7}
    BY DEF UART_C2
  <2> QED
    BY <2>1, EnabledServiced, ServicedType, ServicedTwice
<1>2. CASE ~Clocked("UART0")
  BY <1>2 DEF iprintf, Ends, Strikes, Take
<1>3. CASE Clocked("UART0")
  <2>1. /\ \/ regs' = Enabling(after) /\ UNCHANGED <<todo, level>>
           \/ /\ regs' \in {before, Enabling(before)}
              /\ todo' = <<Other("spin", {})>> \o todo /\ level' = "irq"
        /\ UNCHANGED <<task, ram, cause, called, baud>>
    BY <1>3 DEF iprintf
  <2> HIDE DEF Enabling
  <2> QED
    BY <1>1, <2>1 DEF Ends
<1> QED
  BY <1>2, <1>3

LEMMA UsbServiced ==
  ASSUME Registered(regs), USBOTG_IRQHandler
  PROVE  Serviced(regs, regs') /\ UNCHANGED <<task, ram, called, baud>> /\ Ends(INT.USB0)
<1>1. CASE usb_reset
  BY <1>1, ResetServiced
<1>2. CASE usb_handler
  <2>1. PICK ctl \in {regs["USB0"]["CTL"], USB_CTL.USBENSOFEN} :
          LET handled == [regs EXCEPT !["USB0"]["CTL"] = ctl]
          IN  \/ Returns("USB0", handled)
              \/ Clocked("USB0") /\ iprintf(handled, handled)
              \/ Clocked("USB0") /\ iprintf(handled, [handled EXCEPT !["USB0"]["INTEN"] = {}])
    BY <1>2 DEF usb_handler
  <2> DEFINE handled == Write(regs, "USB0", "CTL", ctl)
  <2> DEFINE ended == Write(handled, "USB0", "INTEN", {})
  <2>2. \/ Returns("USB0", handled) \/ iprintf(handled, handled) \/ iprintf(handled, ended)
    BY <2>1 DEF Write
  <2>3. ctl \subseteq 0 .. 7 /\ ctl \ {1} \in {regs["USB0"]["CTL"] \ {1}, {0}}
    BY <2>1, AttendedNames DEF Registered, USB_CTL
  <2>4. Serviced(regs, handled)
    BY <2>3, ServicedWrite
  <2> HIDE DEF handled
  <2>5. Serviced(regs, ended)
    BY <2>4, ServicedType, ServicedWrite, ServicedTwice
  <2> HIDE DEF ended
  <2>6. Device(INT.USB0 - 16) = "USB0"
    BY DEF INT, Device
  <2> QED
    BY <2>2, <2>4, <2>5, <2>6, ReturnsServiced, PrintServiced
<1> QED
  BY <1>1, <1>2 DEF USBOTG_IRQHandler

LEMMA InterruptServiced ==
  ASSUME Registered(regs), NEW n \in {INT.UART0, INT.USB0, INT.TSI0}, Interrupt(n)
  PROVE  /\ Serviced(regs, regs') /\ UNCHANGED <<task, ram, called, baud, mishaps>> /\ Ends(n)
         /\ n - 16 \in Devices /\ n - 16 \in regs["NVIC"]["ISER"] /\ level = "thread"
<1>1. n - 16 \in Devices /\ n - 16 \in regs["NVIC"]["ISER"] /\ level = "thread" /\ mishaps' = mishaps
  BY DEF Interrupt, Devices, INT
<1>2. \/ n = INT.UART0 /\ UART0_IRQHandler
      \/ n = INT.USB0 /\ USBOTG_IRQHandler
      \/ n = INT.TSI0 /\ TSI0_IRQHandler
  BY DEF Interrupt, InterruptVector, INT
<1> QED
  BY <1>1, <1>2, UartServiced, UsbServiced, TsiServiced

LEMMA ConsoleServiced ==
  ASSUME Registered(regs), UseConsole
  PROVE  Serviced(regs, regs') /\ UNCHANGED <<cpu, ram, history>>
<1>1. UART_C2.TIE \in SUBSET {5, 7} /\ UART_C2.RIE \in SUBSET {5, 7}
  BY DEF UART_C2
<1>2. PICK on \in SUBSET {5, 7} : regs' = [regs EXCEPT !["UART0"]["C2"] = @ \cup on]
  BY <1>1 DEF UseConsole
<1>3. Serviced(regs, regs')
  BY <1>2, EnabledServiced
<1> QED
  BY <1>3 DEF UseConsole

-----------------------------------------------------------------------------
(* Every step keeps the types.                                                 *)

LEMMA TypeStep == TypeInv /\ [Next]_vars => TypeInv'
<1> SUFFICES ASSUME TypeInv, [Next]_vars PROVE TypeInv'
  OBVIOUS
<1> DEFINE Regs == /\ DOMAIN regs = DOMAIN Instances
                   /\ \A m \in DOMAIN Instances :
                        /\ DOMAIN regs[m] = DOMAIN Instances[m]
                        /\ \A r \in DOMAIN regs[m] : regs[m][r] \subseteq Instances[m][r]
<1> DEFINE Rest == /\ task \in {"boot", "main", "fault"} /\ level \in {"thread", "irq", "hard"}
                   /\ ram \in [0 .. DataWords -> {"garbage", "initial"}]
                   /\ cause \in {"none", "bus", "stray", "program"}
                   /\ called \subseteq Functions /\ baud \in BaudRates \cup {0}
                   /\ mishaps \in 0 .. MaxMishaps
<1> DEFINE Pattern0 == \A i \in DOMAIN todo : todo[i].do = "fault" => todo[i].bits \subseteq 0 .. WordBits - 1
<1>1. TypeOK <=> Rest /\ Regs /\ Pattern0
  BY DEF TypeOK
<1>2. TypeOK' <=> Rest' /\ Regs' /\ Pattern0'
  BY DEF TypeOK
<1>3. Registered(regs) /\ todo \in Seq(Steps) /\ Rest
  BY <1>1 DEF TypeInv
<1>4. Registered(regs') => Regs'
  BY DEF Registered
<1>5. todo' \in Seq(Steps) => Pattern0'
  BY DEF Steps, WellFormed
<1> HIDE DEF Regs, Pattern0
<1>6. SUFFICES Registered(regs') /\ todo' \in Seq(Steps) /\ Rest'
  BY <1>2, <1>4, <1>5 DEF TypeInv
<1>7. CASE Assign \/ SetBits \/ ClearBits
  <2>1. PICK do \in Accesses : \E word : Store(do, word)
    BY <1>7 DEF Assign, SetBits, ClearBits, Accesses
  <2>2. PICK word : Store(do, word)
    BY <2>1
  <2>3. todo # <<>> /\ UNCHANGED <<task, level, ram, history>>
    BY <2>2 DEF Store, NextIs
  <2>4. Rest'
    BY <1>3, <2>3 DEF history
  <2> QED
    BY <1>3, <2>2, <2>3, <2>4, StoreWords, HeadType
<1>8. CASE LoopEnds \/ CopyWord \/ ClearBss \/ EnterMain \/ Done
  <2>1. todo # <<>> /\ todo' = Tail(todo) /\ regs' = regs
    BY <1>8 DEF LoopEnds, CopyWord, ClearBss, EnterMain, Done, NextIs, history
  <2>2. Rest'
    <3>1. CASE LoopEnds
      BY <1>3, <3>1 DEF LoopEnds, history
    <3>2. CASE CopyWord
      BY <1>3, <3>2 DEF CopyWord, history
    <3>3. CASE ClearBss
      BY <1>3, <3>3, StartupAssumption DEF ClearBss, history
    <3>4. CASE EnterMain
      BY <1>3, <3>4 DEF EnterMain, history
    <3>5. CASE Done
      BY <1>3, <2>1, <3>5, HeadType DEF Done, NextIs, WellFormed
    <3> QED
      BY <1>8, <3>1, <3>2, <3>3, <3>4, <3>5
  <2> QED
    BY <1>3, <2>1, <2>2, HeadType
<1>9. CASE FaultTurn
  <2>1. Head(todo).bits \in SUBSET (0 .. WordBits - 1)
    BY <1>3, <1>9, HeadType DEF FaultTurn, NextIs, WellFormed
  <2>2. todo' \in Seq(Steps)
    BY <1>9, <2>1, TurnType DEF FaultTurn, Turn
  <2> QED
    BY <1>3, <1>9, <2>2 DEF FaultTurn, history
<1>10. ASSUME Restart PROVE Registered(regs') /\ todo' \in Seq(Steps)
                           /\ (mishaps' \in 0 .. MaxMishaps => Rest')
  BY <1>3, <1>10, ResetType, ResetWords DEF Restart
<1>11. ASSUME NEW n, NEW c \in {"bus", "stray", "program"}, NEW to \in {"irq", "hard"}, Take(n, c, to)
       PROVE  todo' \in Seq(Steps) /\ (mishaps' \in 0 .. MaxMishaps => Rest')
  BY <1>3, <1>11, HandlerType DEF Take, First
<1>12. CASE BusFault
  <2>1. mishaps' \in 0 .. MaxMishaps
    BY <1>3, <1>12 DEF BusFault
  <2>2. Restart \/ (Take(INT.Hard_Fault, "bus", "hard") /\ UNCHANGED regs)
    BY <1>12 DEF BusFault
  <2> QED
    BY <1>3, <1>10, <1>11, <2>1, <2>2
<1>13. CASE Hardware
  <2>1. UNCHANGED <<cpu, ram, history>>
    BY <1>3, <1>13, HardwareWords
  <2>2. Rest'
    BY <1>3, <2>1 DEF cpu, history
  <2> QED
    BY <1>3, <1>13, <2>1, <2>2, HardwareWords DEF cpu
<1>14. CASE Abort
  BY <1>3, <1>14, HandlerType, StartupAssumption DEF Abort, First
<1>15. CASE ResetButton
  BY <1>3, <1>10, <1>15, StartupAssumption DEF ResetButton
<1>16. CASE WatchdogBites
  BY <1>3, <1>10, <1>16 DEF WatchdogBites
<1>17. ASSUME NEW f \in Functions, Call(f) PROVE Registered(regs') /\ todo' \in Seq(Steps) /\ Rest'
  <2>1. Body(f, baud') \in Seq(Steps) /\ Step("done", "", f, {}, {}) \in Steps
    BY BodyType, DoneStep, AccessIsStep
  <2>2. todo' \in Seq(Steps)
    <3>1. \A s \in Seq(Steps), d \in Steps : s \o <<d>> \in Seq(Steps)
      OBVIOUS
    <3>2. todo' = Body(f, baud') \o <<Step("done", "", f, {}, {})>>
      BY <1>17 DEF Call
    <3> QED
      BY <2>1, <3>1, <3>2, Zenon
  <2>3. baud' \in BaudRates \cup {0}
    BY <1>3, <1>17 DEF Call
  <2> QED
    BY <1>3, <1>17, <2>2, <2>3 DEF Call
<1>18. ASSUME NEW n \in {INT.Hard_Fault, INT.SVCall}, ProgramError(n)
       PROVE  Registered(regs') /\ todo' \in Seq(Steps) /\ Rest'
  <2>1. mishaps' \in 0 .. MaxMishaps
    BY <1>3, <1>18, StartupAssumption DEF ProgramError
  <2>2. (\E to \in {"irq", "hard"} : Take(n, "program", to)) /\ UNCHANGED regs
    BY <1>18 DEF ProgramError
  <2> QED
    BY <1>3, <1>11, <2>1, <2>2
<1>19. ASSUME NEW n \in {INT.UART0, INT.USB0, INT.TSI0}, Interrupt(n)
       PROVE  Registered(regs') /\ todo' \in Seq(Steps) /\ Rest'
  <2>1. /\ Registered(regs') /\ UNCHANGED <<task, ram, called, baud, mishaps>> /\ Ends(n)
    BY <1>3, <1>19, InterruptServiced, ServicedType
  <2>2. CASE UNCHANGED <<todo, level, cause>>
    BY <1>3, <2>1, <2>2
  <2>3. CASE todo' = <<Other("spin", {})>> \o todo /\ level' = "irq" /\ cause' = cause
    <3>1. <<Other("spin", {})>> \in Seq(Steps)
      BY OtherStep
    <3> QED
      BY <1>3, <2>1, <2>3, <3>1
  <2>4. CASE \E m \in {"UART0", Device(n - 16)} : Strikes(m)
    BY <1>3, <1>11, <2>1, <2>4 DEF Strikes
  <2> QED
    BY <2>1, <2>2, <2>3, <2>4 DEF Ends
<1>20. CASE UseConsole
  <2>1. Registered(regs') /\ UNCHANGED <<cpu, ram, history>>
    BY <1>3, <1>20, ConsoleServiced, ServicedType
  <2> QED
    BY <1>3, <2>1 DEF cpu, history
<1>21. CASE UNCHANGED vars
  BY <1>3, <1>21 DEF vars, cpu, history
<1>22. Calls \subseteq Functions /\ (Spin => UNCHANGED vars)
  BY StartupAssumption DEF Spin
<1> QED
  BY <1>7, <1>8, <1>9, <1>12, <1>13, <1>14, <1>15, <1>16, <1>17, <1>18, <1>19, <1>20, <1>21, <1>22
     DEF Next, Run

LEMMA TypeInvariant == Spec => []TypeInv
<1>1. Init => TypeInv
  <2> SUFFICES ASSUME Init PROVE TypeInv
    OBVIOUS
  <2>1. todo \in Seq(Steps) /\ Registered(regs)
    BY ResetType, ResetWords DEF Init
  <2>2. TypeOK
    BY <2>1, StartupAssumption DEF Init, TypeOK, Registered, Steps, WellFormed
  <2> QED
    BY <2>1, <2>2 DEF TypeInv
<1> QED
  BY <1>1, TypeStep, PTL DEF Spec

-----------------------------------------------------------------------------
(* The order of the steps.                                                     *)

\* The sequence u is s followed by t.
Joined(u, s, t) == /\ Len(u) = Len(s) + Len(t)
                   /\ \A i \in 1 .. Len(s) : u[i] = s[i]
                   /\ \A i \in 1 .. Len(t) : u[Len(s) + i] = t[i]

LEMMA Appended ==
  \A S : \A s, t \in Seq(S) : s \o t \in Seq(S) /\ Joined(s \o t, s, t)
BY DEF Joined

LEMMA Element ==
  \A S : \A s \in Seq(S) : Len(s) \in Nat /\ DOMAIN s = 1 .. Len(s) /\ \A i \in 1 .. Len(s) : s[i] \in S
OBVIOUS

\* The accesses of _reset_init after the copy of .data.
BoardSteps == init_clocks \o init_led_io

LEMMA BoardType == BoardSteps \in Seq(AccessSteps) /\ Len(BoardSteps) = 36
<1>1. Len(init_clocks) = 20
  BY DEF init_clocks, UntilExternal
<1>2. Len(init_led_io) = 16
  BY DEF init_led_io, RGB_LED
<1>3. BoardSteps \in Seq(AccessSteps) /\ Joined(BoardSteps, init_clocks, init_led_io)
  BY Appended, ClocksType, LedIoType DEF BoardSteps
<1> QED
  BY <1>1, <1>2, <1>3 DEF Joined

LEMMA ResetShape ==
  /\ _reset_init \in Seq(Steps) /\ Len(_reset_init) = DataWords + 39
  /\ _reset_init[1] = StopWatchdog
  /\ \A w \in 1 .. DataWords : _reset_init[1 + w] = Other("copy", {w})
  /\ \A i \in 1 .. 36 : _reset_init[DataWords + 1 + i] = BoardSteps[i]
  /\ _reset_init[DataWords + 38] = Other("clear", {})
  /\ _reset_init[DataWords + 39] = Other("main", {})
<1> DEFINE first == <<StopWatchdog>> \o CopyData
<1>1. CopyData \in Seq(Steps) /\ Len(CopyData) = DataWords
      /\ \A w \in 1 .. DataWords : CopyData[w] = Other("copy", {w})
  BY OtherStep, StartupAssumption DEF CopyData
<1>2. StopWatchdog \in Steps
  BY Gates, AccessIsStep DEF StopWatchdog
<1>3. /\ first \in Seq(Steps) /\ Len(first) = DataWords + 1 /\ first[1] = StopWatchdog
      /\ \A w \in 1 .. DataWords : first[1 + w] = CopyData[w]
  BY <1>1, <1>2, StartupAssumption
<1>4. _start \in Seq(Steps) /\ Len(_start) = 2 /\ _start[1] = Other("clear", {}) /\ _start[2] = Other("main", {})
  BY OtherStep DEF _start
<1>5. BoardSteps \in Seq(Steps) /\ Len(BoardSteps) = 36
  BY BoardType, AccessIsStep
<1>6. _reset_init = first \o BoardSteps \o _start
  <2>1. init_clocks \in Seq(Steps) /\ init_led_io \in Seq(Steps)
    BY ClocksType, LedIoType, AccessIsStep
  <2> HIDE DEF first
  <2>2. _reset_init = first \o init_clocks \o init_led_io \o _start
    BY DEF _reset_init, first
  <2>3. first \o init_clocks \o init_led_io = first \o BoardSteps
    BY <1>3, <2>1, SMTT(60) DEF BoardSteps
  <2> QED
    BY <2>2, <2>3
<1> HIDE DEF first
<1> DEFINE whole == first \o BoardSteps
<1>7. whole \in Seq(Steps) /\ Joined(whole, first, BoardSteps)
  BY <1>3, <1>5, Appended
<1> HIDE DEF whole
<1>8. _reset_init = whole \o _start
  BY <1>6 DEF whole
<1>9. _reset_init \in Seq(Steps) /\ Joined(_reset_init, whole, _start)
  BY <1>4, <1>7, <1>8, Appended
<1>10. DataWords \in Nat
  BY StartupAssumption
<1>11. Len(whole) = DataWords + 37 /\ Len(_start) = 2 /\ Len(first) = DataWords + 1 /\ Len(BoardSteps) = 36
  BY <1>3, <1>4, <1>5, <1>7, <1>10 DEF Joined
<1>12. _reset_init[DataWords + 38] = _start[1] /\ _reset_init[DataWords + 39] = _start[2]
  BY <1>9, <1>10, <1>11 DEF Joined
<1>13. \A i \in 1 .. 36 : _reset_init[DataWords + 1 + i] = BoardSteps[i]
  <2>1. \A i \in 1 .. 36 : DataWords + 1 + i \in 1 .. Len(whole)
    BY <1>10, <1>11
  <2>2. \A i \in 1 .. 36 : whole[DataWords + 1 + i] = BoardSteps[i]
    BY <1>7, <1>11 DEF Joined
  <2> QED
    BY <1>9, <2>1, <2>2 DEF Joined
<1>14. \A i \in 1 .. DataWords + 1 : _reset_init[i] = first[i]
  BY <1>7, <1>9, <1>10, <1>11 DEF Joined
<1>15. Len(_reset_init) = DataWords + 39
  BY <1>9, <1>10, <1>11 DEF Joined
<1>16. /\ _reset_init[1] = StopWatchdog
       /\ \A w \in 1 .. DataWords : _reset_init[1 + w] = Other("copy", {w})
  <2>1. 1 \in 1 .. DataWords + 1 /\ \A w \in 1 .. DataWords : 1 + w \in 1 .. DataWords + 1
    BY <1>10
  <2> QED
    BY <1>1, <1>3, <1>14, <2>1
<1> QED
  BY <1>4, <1>9, <1>12, <1>13, <1>15, <1>16

LEMMA StepFields ==
  \A do, of, reg, bits, until :
    LET s == Step(do, of, reg, bits, until)
    IN  s.do = do /\ s.of = of /\ s.reg = reg /\ s.bits = bits /\ s.until = until
BY DEF Step

\* The steps that handlers put before those of the program.
Quiet(s) == \/ s.do \in {"while", "spin", "fault"} /\ s.of # "MCG"
            \/ s.do = "=" /\ s.of = "UART0" /\ s.reg = "D"

LEMMA HandlerSteps ==
  /\ \A name : \A i \in DOMAIN Handler(name) : Quiet(Handler(name)[i])
  /\ \A i \in DOMAIN _kill : Quiet(_kill[i])
<1>1. \A i \in DOMAIN uart_write_err : Quiet(uart_write_err[i])
  BY DEF uart_write_err, Quiet, Until, Set, Step
<1>2. \A x : \A i \in DOMAIN fault(x) : Quiet(fault(x)[i])
  <2>1. \A x : Quiet(Other("fault", x))
    BY DEF Other, Step, Quiet
  <2> QED
    BY <2>1 DEF fault
<1>3. \A i \in DOMAIN HardFault_Handler : Quiet(HardFault_Handler[i])
  BY <1>1, <1>2, WriteErrType, FaultType, PatternType, AccessIsStep DEF HardFault_Handler
<1>4. \A i \in DOMAIN Default_Handler : Quiet(Default_Handler[i])
  BY <1>2 DEF Default_Handler
<1>5. \A i \in DOMAIN _kill : Quiet(_kill[i])
  BY <1>2 DEF _kill
<1> QED
  BY <1>3, <1>4, <1>5 DEF Handler

LEMMA TurnSteps ==
  \A red : \A pattern \in SUBSET (0 .. WordBits - 1) :
    \A i \in DOMAIN Turn(red, pattern) :
      Turn(red, pattern)[i] \in AccessSteps \/ Turn(red, pattern)[i].do = "fault"
<1> SUFFICES ASSUME NEW red, NEW pattern \in SUBSET (0 .. WordBits - 1)
             PROVE  \A i \in DOMAIN Turn(red, pattern) :
                      Turn(red, pattern)[i] \in AccessSteps \/ Turn(red, pattern)[i].do = "fault"
  OBVIOUS
<1>1. Rotate(pattern) \in SUBSET (0 .. WordBits - 1)
  BY StartupAssumption DEF Rotate
<1>2. fault(Rotate(pattern)) \in Seq(Steps) /\ \A i \in DOMAIN fault(Rotate(pattern)) : fault(Rotate(pattern))[i].do = "fault"
  <2>1. \A x : Other("fault", x).do = "fault"
    BY DEF Other, Step
  <2> QED
    BY <1>1, <2>1, FaultType DEF fault
<1>3. /\ RGB_LED(red, 0, 0) \in Seq(AccessSteps) /\ RGB_LED(red, 0, 0) \in Seq(Steps)
      /\ delay(100) \in Seq(AccessSteps) /\ delay(100) \in Seq(Steps)
  BY LedType, DelayType, AccessIsStep
<1> QED
  BY <1>2, <1>3 DEF Turn

\* An initialisation function and its end.
Script(f, rate) == Body(f, rate) \o <<Step("done", "", f, {}, {})>>

LEMMA ScriptShape ==
  ASSUME NEW f \in Functions, NEW rate
  PROVE  /\ Script(f, rate) \in Seq(Steps) /\ Len(Body(f, rate)) \in Nat
         /\ Len(Script(f, rate)) = Len(Body(f, rate)) + 1
         /\ DOMAIN Script(f, rate) = 1 .. Len(Body(f, rate)) + 1
         /\ \A i \in 1 .. Len(Body(f, rate)) : /\ Script(f, rate)[i] = Body(f, rate)[i]
                                               /\ Body(f, rate)[i] \in AccessSteps
         /\ Script(f, rate)[Len(Body(f, rate)) + 1] = Step("done", "", f, {}, {})
<1> DEFINE end == Step("done", "", f, {}, {})
<1> DEFINE b == Body(f, rate)
<1>1. b \in Seq(AccessSteps)
  BY BodyType
<1>2. end \in Steps
  BY DoneStep
<1>3. Script(f, rate) = b \o <<end>>
  BY DEF Script
<1> HIDE DEF end, b
<1>4. <<end>> \in Seq(Steps) /\ Len(<<end>>) = 1 /\ <<end>>[1] = end
  BY <1>2
<1>5. b \in Seq(Steps)
  BY <1>1, AccessIsStep, Zenon
<1>6. Script(f, rate) \in Seq(Steps) /\ Joined(Script(f, rate), b, <<end>>)
  BY <1>3, <1>4, <1>5, Appended
<1>7. Len(b) \in Nat /\ \A i \in 1 .. Len(b) : b[i] \in AccessSteps
  BY <1>1, Element
<1>8. Len(Script(f, rate)) = Len(b) + 1 /\ Script(f, rate)[Len(b) + 1] = end
  BY <1>4, <1>6, <1>7 DEF Joined
<1>9. DOMAIN Script(f, rate) = 1 .. Len(b) + 1
  BY <1>6, <1>8, Element
<1> QED
  BY <1>6, <1>7, <1>8, <1>9 DEF Joined, b, end

\* What an exception, a driver's handler or the console does to the program: the steps of
\* a handler that does not return come first.
Pushes == /\ \E h \in Seq(Steps) : (\A i \in DOMAIN h : Quiet(h[i])) /\ todo' = h \o todo
          /\ UNCHANGED <<task, ram, called, baud>> /\ Serviced(regs, regs')

LEMMA StepCases ==
  ASSUME TypeInv, [Next]_vars
  PROVE  \/ Assign \/ SetBits \/ ClearBits
         \/ LoopEnds \/ CopyWord \/ ClearBss \/ EnterMain \/ Done
         \/ FaultTurn \/ Pushes \/ Restart \/ Hardware \/ UNCHANGED vars
         \/ \E f \in Functions : Call(f)
<1>1. Registered(regs) /\ Serviced(regs, regs) /\ todo \in Seq(Steps)
  BY ServicedSelf DEF TypeInv
<1>2. ASSUME NEW n, NEW c, NEW to, Take(n, c, to), Serviced(regs, regs')
      PROVE  Pushes
  <2>1. Handler(InterruptVector(n)) \in Seq(Steps)
        /\ \A i \in DOMAIN Handler(InterruptVector(n)) : Quiet(Handler(InterruptVector(n))[i])
    BY HandlerType, HandlerSteps
  <2> QED
    BY <1>2, <2>1 DEF Take, Pushes
<1>3. CASE Abort
  BY <1>1, <1>3, HandlerType, HandlerSteps DEF Abort, Pushes
<1>4. CASE BusFault
  BY <1>1, <1>2, <1>4 DEF BusFault
<1>5. ASSUME NEW n \in {INT.Hard_Fault, INT.SVCall}, ProgramError(n) PROVE Pushes
  BY <1>1, <1>2, <1>5 DEF ProgramError
<1>6. ASSUME Serviced(regs, regs'), UNCHANGED <<todo, task, ram, called, baud>> PROVE Pushes
  <2>1. <<>> \in Seq(Steps) /\ (\A i \in DOMAIN <<>> : Quiet(<<>>[i])) /\ todo' = <<>> \o todo
    BY <1>1, <1>6
  <2> QED
    BY <1>6, <2>1 DEF Pushes
<1>7. ASSUME NEW n \in {INT.UART0, INT.USB0, INT.TSI0}, Interrupt(n) PROVE Pushes
  <2>1. Serviced(regs, regs') /\ UNCHANGED <<task, ram, called, baud>> /\ Ends(n)
    BY <1>1, <1>7, InterruptServiced
  <2>2. CASE todo' = <<Other("spin", {})>> \o todo
    <3> DEFINE s == Other("spin", {})
    <3>1. s \in Steps
      BY OtherStep
    <3>2. Quiet(s)
      BY DEF Quiet, Other, Step
    <3> HIDE DEF s
    <3>3. <<s>> \in Seq(Steps) /\ \A i \in DOMAIN <<s>> : Quiet(<<s>>[i])
      BY <3>1, <3>2
    <3> QED
      BY <2>1, <2>2, <3>3 DEF Pushes, s
  <2> QED
    BY <1>2, <1>6, <2>1, <2>2 DEF Ends, Strikes
<1>8. UseConsole => Pushes
  BY <1>1, <1>6, ConsoleServiced DEF cpu, history
<1>9. CASE ResetButton \/ WatchdogBites
  BY <1>9 DEF ResetButton, WatchdogBites
<1>10. Calls \subseteq Functions /\ (Spin => UNCHANGED vars)
  BY StartupAssumption DEF Spin
<1> QED
  BY <1>3, <1>4, <1>5, <1>7, <1>8, <1>9, <1>10 DEF Next, Run

\* Start-up's own steps are there only in start-up and an initialisation function's end
\* only in main, main and the end come last, and nothing that .data or .bss needs is missing.
Order ==
  \A i \in DOMAIN todo :
    /\ todo[i].do \in {"copy", "clear", "main"} => task = "boot"
    /\ todo[i].do = "done" => task = "main"
    /\ todo[i].do \in {"main", "done"} => i = Len(todo)

Copied(s, i, w) == \E j \in 1 .. i - 1 : \/ s[j].do = "copy" /\ w \in s[j].bits
                                         \/ s[j].do = "clear" /\ w = 0

Clean ==
  \A i \in DOMAIN todo : todo[i].do = "main" =>
    \A w \in 0 .. DataWords : ram[w] = "initial" \/ Copied(todo, i, w)

\* The parts of _reset_init, by the indices of their steps.
LEMMA ResetParts ==
  \A i \in DOMAIN _reset_init :
    \/ i = 1 \/ i = DataWords + 38 \/ i = DataWords + 39
    \/ \E w \in 1 .. DataWords : i = 1 + w
    \/ \E j \in 1 .. 36 : i = DataWords + 1 + j
<1> SUFFICES ASSUME NEW i \in DOMAIN _reset_init
             PROVE  \/ i = 1 \/ i = DataWords + 38 \/ i = DataWords + 39
                    \/ \E w \in 1 .. DataWords : i = 1 + w
                    \/ \E j \in 1 .. 36 : i = DataWords + 1 + j
  OBVIOUS
<1>1. DataWords \in Nat /\ i \in 1 .. DataWords + 39
  BY ResetShape, StartupAssumption
<1>2. i \in 2 .. DataWords + 1 => \E w \in 1 .. DataWords : i = 1 + w
  <2> SUFFICES ASSUME i \in 2 .. DataWords + 1 PROVE i - 1 \in 1 .. DataWords /\ i = 1 + (i - 1)
    OBVIOUS
  <2> QED
    BY <1>1
<1>3. i \in DataWords + 2 .. DataWords + 37 => \E j \in 1 .. 36 : i = DataWords + 1 + j
  <2> SUFFICES ASSUME i \in DataWords + 2 .. DataWords + 37
               PROVE  i - DataWords - 1 \in 1 .. 36 /\ i = DataWords + 1 + (i - DataWords - 1)
    OBVIOUS
  <2> QED
    BY <1>1
<1> QED
  BY <1>1, <1>2, <1>3

LEMMA ResetSteps ==
  \A i \in DOMAIN _reset_init :
    /\ _reset_init[i].do \notin {"done", "fault"}
    /\ _reset_init[i].do = "main" => i = Len(_reset_init)
<1> SUFFICES ASSUME NEW i \in DOMAIN _reset_init
             PROVE  \/ _reset_init[i].do \in Accesses \cup {"copy", "clear"}
                    \/ i = Len(_reset_init) /\ _reset_init[i].do = "main"
  BY DEF Accesses
<1>1. /\ StopWatchdog.do = "=" /\ \A do, bits : Other(do, bits).do = do
  BY DEF StopWatchdog, Set, Other, Step
<1>2. CASE \E j \in 1 .. 36 : i = DataWords + 1 + j
  <2>1. PICK j \in 1 .. 36 : _reset_init[i] = BoardSteps[j]
    BY <1>2, ResetShape
  <2>2. BoardSteps[j] \in AccessSteps
    BY BoardType, Element
  <2> QED
    BY <2>1, <2>2 DEF AccessSteps
<1>3. CASE \E w \in 1 .. DataWords : i = 1 + w
  <2>1. PICK w \in 1 .. DataWords : _reset_init[i] = Other("copy", {w})
    BY <1>3, ResetShape
  <2> QED
    BY <1>1, <2>1
<1>4. CASE i = 1 \/ i = DataWords + 38
  <2>1. _reset_init[1].do = "=" /\ _reset_init[DataWords + 38].do = "clear"
    BY <1>1, ResetShape
  <2> QED
    BY <1>4, <2>1 DEF Accesses
<1>5. CASE i = DataWords + 39
  BY <1>1, <1>5, ResetShape, ZenonT(60)
<1> QED
  BY <1>2, <1>3, <1>4, <1>5, ResetParts

LEMMA ResetCopies == \A w \in 0 .. DataWords : Copied(_reset_init, DataWords + 39, w)
<1> SUFFICES ASSUME NEW w \in 0 .. DataWords
             PROVE  Copied(_reset_init, DataWords + 39, w)
  OBVIOUS
<1>1. DataWords \in Nat
  BY StartupAssumption
<1>2. \A do, bits : Other(do, bits).do = do /\ Other(do, bits).bits = bits
  BY DEF Other, Step
<1>3. CASE w = 0
  <2>1. DataWords + 38 \in 1 .. DataWords + 39 - 1
    BY <1>1
  <2>2. _reset_init[DataWords + 38] = Other("clear", {})
    BY ResetShape
  <2>3. _reset_init[DataWords + 38].do = "clear"
    BY <1>2, <2>2
  <2> QED
    BY <1>1, <1>3, <2>1, <2>3 DEF Copied
<1>4. CASE w # 0
  <2>1. w \in 1 .. DataWords /\ 1 + w \in 1 .. DataWords + 39 - 1
    BY <1>1, <1>4
  <2>2. _reset_init[1 + w] = Other("copy", {w})
    BY <2>1, ResetShape
  <2>3. _reset_init[1 + w].do = "copy" /\ w \in _reset_init[1 + w].bits
    BY <1>2, <2>2
  <2> QED
    BY <1>1, <2>1, <2>3 DEF Copied
<1> QED
  BY <1>3, <1>4

LEMMA OrderStep == TypeInv /\ Order /\ [Next]_vars => Order'
<1> SUFFICES ASSUME TypeInv, Order, [Next]_vars PROVE Order'
  OBVIOUS
<1>1. todo \in Seq(Steps)
  BY DEF TypeInv
<1>2. ASSUME todo # <<>>, todo' = Tail(todo), task' = task \/ Head(todo).do = "main"
      PROVE  Order'
  <2>1. CASE Head(todo).do = "main"
    <3>1. Len(todo) = 1
      BY <1>1, <1>2, <2>1, HeadType DEF Order
    <3>2. todo' \in Seq(Steps) /\ Len(todo') = 0
      BY <1>1, <1>2, <3>1, HeadType
    <3> QED
      BY <3>2 DEF Order
  <2>2. CASE Head(todo).do # "main"
    <3>1. /\ \A i \in DOMAIN todo' : i + 1 \in DOMAIN todo /\ todo'[i] = todo[i + 1]
          /\ Len(todo') = Len(todo) - 1 /\ task' = task
      BY <1>1, <1>2, <2>2, HeadType
    <3> QED
      BY <1>1, <3>1 DEF Order
  <2> QED
    BY <2>1, <2>2
<1>3. CASE Assign \/ SetBits \/ ClearBits
  BY <1>2, <1>3 DEF Assign, SetBits, ClearBits, Store, NextIs
<1>4. CASE LoopEnds \/ CopyWord \/ ClearBss \/ EnterMain \/ Done
  BY <1>2, <1>4 DEF LoopEnds, CopyWord, ClearBss, EnterMain, Done, NextIs
<1>5. CASE FaultTurn
  <2>1. Head(todo).bits \in SUBSET (0 .. WordBits - 1)
    BY <1>1, <1>5, HeadType DEF FaultTurn, NextIs, WellFormed
  <2>2. \A i \in DOMAIN todo' : todo'[i] \in AccessSteps \/ todo'[i].do = "fault"
    BY <1>5, <2>1, TurnSteps, SMTT(60) DEF FaultTurn, Turn
  <2> QED
    BY <2>2 DEF Order, AccessSteps, Accesses
<1>6. CASE Pushes
  <2>1. PICK h \in Seq(Steps) : (\A i \in DOMAIN h : Quiet(h[i])) /\ todo' = h \o todo
    BY <1>6 DEF Pushes
  <2>2. Joined(todo', h, todo) /\ todo' \in Seq(Steps) /\ task' = task
    BY <1>1, <1>6, <2>1, Appended DEF Pushes
  <2>3. ASSUME NEW i \in DOMAIN todo'
        PROVE  \/ Quiet(todo'[i])
               \/ \E j \in DOMAIN todo : /\ todo'[i] = todo[j]
                                         /\ j = Len(todo) => i = Len(todo')
    <3>1. CASE i <= Len(h)
      BY <2>1, <2>2, <3>1 DEF Joined
    <3>2. CASE i > Len(h)
      <4>1. i - Len(h) \in DOMAIN todo /\ todo'[i] = todo[i - Len(h)] /\ i - Len(h) = Len(todo) => i = Len(todo')
        BY <1>1, <2>1, <2>2, <3>2, SMTT(60) DEF Joined
      <4>2. i - Len(h) \in DOMAIN todo /\ todo'[i] = todo[i - Len(h)]
        BY <1>1, <2>1, <2>2, <3>2 DEF Joined
      <4> QED
        BY <4>1, <4>2
    <3> QED
      BY <1>1, <2>1, <2>2, <3>1, <3>2
  <2> QED
    BY <2>2, <2>3 DEF Order, Quiet
<1>7. CASE Restart
  BY <1>7, ResetSteps DEF Restart, Order
<1>8. CASE Hardware
  <2>1. todo' = todo /\ task' = task
    BY <1>8, HardwareWords DEF TypeInv, cpu
  <2> QED
    BY <2>1 DEF Order
<1>9. CASE UNCHANGED vars
  BY <1>9 DEF Order, vars, cpu
<1>10. ASSUME NEW f \in Functions, Call(f) PROVE Order'
  <2>1. PICK rate : todo' = Script(f, rate) /\ task' = "main"
    BY <1>10 DEF Call, Script
  <2>2. \A i \in DOMAIN Script(f, rate) : i \in 1 .. Len(Body(f, rate)) \/ i = Len(Body(f, rate)) + 1
    <3>1. DOMAIN Script(f, rate) = 1 .. Len(Body(f, rate)) + 1 /\ Len(Body(f, rate)) \in Nat
      BY ScriptShape
    <3> QED
      BY <3>1
  <2>3. Step("done", "", f, {}, {}).do = "done"
    BY DEF Step
  <2>4. \A i \in DOMAIN todo' :
          todo'[i] \in AccessSteps \/ (i = Len(todo') /\ todo'[i].do = "done")
    BY <2>1, <2>2, <2>3, ScriptShape
  <2> QED
    BY <2>1, <2>4 DEF Order, AccessSteps, Accesses
<1> QED
  BY <1>3, <1>4, <1>5, <1>6, <1>7, <1>8, <1>9, <1>10, StepCases

LEMMA CleanStep == TypeInv /\ Order /\ Clean /\ [Next]_vars => Clean'
<1> SUFFICES ASSUME TypeInv, Order, Clean, [Next]_vars PROVE Clean'
  OBVIOUS
<1>1. todo \in Seq(Steps)
  BY DEF TypeInv
<1>2. ASSUME todo # <<>>, todo' = Tail(todo),
             \A w \in 0 .. DataWords :
               \/ ram'[w] = "initial"
               \/ /\ ram[w] # "initial"
                  /\ Head(todo).do = "copy" => w \notin Head(todo).bits
                  /\ Head(todo).do = "clear" => w # 0
      PROVE  Clean'
  <2>1. /\ \A i \in DOMAIN todo' : i \in 1 .. Len(todo) - 1 /\ todo'[i] = todo[i + 1]
                                   /\ i + 1 \in DOMAIN todo
        /\ Head(todo) = todo[1]
    BY <1>1, <1>2, HeadType
  <2> SUFFICES ASSUME NEW i \in DOMAIN todo', todo'[i].do = "main", NEW w \in 0 .. DataWords,
                      ram'[w] # "initial"
               PROVE  Copied(todo', i, w)
    BY DEF Clean, Copied
  <2>2. Copied(todo, i + 1, w)
    BY <1>2, <2>1 DEF Clean
  <2>3. PICK j \in 1 .. i : \/ todo[j].do = "copy" /\ w \in todo[j].bits
                            \/ todo[j].do = "clear" /\ w = 0
    BY <2>1, <2>2 DEF Copied
  <2>4. j # 1
    BY <1>2, <2>1, <2>3
  <2>5. j - 1 \in 1 .. i - 1 /\ j - 1 \in 1 .. Len(todo) - 1 /\ todo'[j - 1] = todo[j]
    BY <1>1, <1>2, <2>1, <2>4, HeadType
  <2> QED
    BY <2>3, <2>5 DEF Copied
<1>3. CASE Assign \/ SetBits \/ ClearBits
  BY <1>2, <1>3 DEF Assign, SetBits, ClearBits, Store, NextIs
<1>4. CASE LoopEnds \/ Done
  BY <1>2, <1>4 DEF LoopEnds, Done, NextIs
<1>5. CASE CopyWord
  <2>1. \A w \in 0 .. DataWords : ram'[w] = IF w \in Head(todo).bits THEN "initial" ELSE ram[w]
    BY <1>5 DEF CopyWord, TypeInv, TypeOK
  <2> QED
    BY <1>2, <1>5, <2>1 DEF CopyWord, NextIs
<1>6. CASE ClearBss
  <2>1. \A w \in 0 .. DataWords : ram'[w] = IF w = 0 THEN "initial" ELSE ram[w]
    BY <1>6 DEF ClearBss, TypeInv, TypeOK
  <2> QED
    BY <1>2, <1>6, <2>1 DEF ClearBss, NextIs
<1>7. CASE EnterMain
  <2>1. Len(todo) = 1
    BY <1>1, <1>7, HeadType DEF Order, EnterMain, NextIs
  <2>2. todo' \in Seq(Steps) /\ Len(todo') = 0
    BY <1>1, <1>7, <2>1, HeadType DEF EnterMain, NextIs
  <2> QED
    BY <2>2 DEF Clean
<1>8. ASSUME \A i \in DOMAIN todo' : todo'[i].do # "main"
      PROVE  Clean'
  BY <1>8 DEF Clean
<1>9. CASE FaultTurn
  <2>1. Head(todo).bits \in SUBSET (0 .. WordBits - 1)
    BY <1>1, <1>9, HeadType DEF FaultTurn, NextIs, WellFormed
  <2>2. \A i \in DOMAIN todo' : todo'[i] \in AccessSteps \/ todo'[i].do = "fault"
    BY <1>9, <2>1, TurnSteps, SMTT(60) DEF FaultTurn, Turn
  <2> QED
    BY <1>8, <2>2 DEF AccessSteps, Accesses
<1>10. CASE Pushes
  <2>1. PICK h \in Seq(Steps) : (\A i \in DOMAIN h : Quiet(h[i])) /\ todo' = h \o todo
    BY <1>10 DEF Pushes
  <2>2. Joined(todo', h, todo) /\ todo' \in Seq(Steps) /\ ram' = ram
    BY <1>1, <1>10, <2>1, Appended DEF Pushes
  <2>3. /\ Len(h) \in Nat /\ DOMAIN h = 1 .. Len(h) /\ Len(todo) \in Nat /\ DOMAIN todo = 1 .. Len(todo)
        /\ DOMAIN todo' = 1 .. Len(h) + Len(todo)
    BY <1>1, <2>1, <2>2, Element DEF Joined
  <2> SUFFICES ASSUME NEW i \in DOMAIN todo', todo'[i].do = "main", NEW w \in 0 .. DataWords,
                      ram[w] # "initial"
               PROVE  Copied(todo', i, w)
    BY <2>2 DEF Clean, Copied
  <2>4. i > Len(h)
    BY <2>1, <2>2, <2>3, SMTT(60) DEF Joined, Quiet
  <2>5. i - Len(h) \in DOMAIN todo /\ Len(h) + (i - Len(h)) = i
    BY <2>3, <2>4
  <2>6. todo[i - Len(h)].do = "main"
    BY <2>2, <2>3, <2>5 DEF Joined
  <2>7. PICK j \in 1 .. i - Len(h) - 1 : \/ todo[j].do = "copy" /\ w \in todo[j].bits
                                         \/ todo[j].do = "clear" /\ w = 0
    BY <2>5, <2>6 DEF Clean, Copied
  <2>8. Len(h) + j \in 1 .. i - 1 /\ todo'[Len(h) + j] = todo[j]
    BY <2>2, <2>3, <2>5, <2>7, SMTT(60) DEF Joined
  <2> QED
    BY <2>7, <2>8 DEF Copied
<1>11. CASE Restart
  <2>1. Order'
    BY OrderStep
  <2>2. todo' = _reset_init
    BY <1>11 DEF Restart
  <2> QED
    BY <2>1, <2>2, ResetShape, ResetCopies, ZenonT(60) DEF Clean, Order
<1>12. CASE Hardware
  <2>1. todo' = todo /\ ram' = ram
    BY <1>12, HardwareWords DEF TypeInv, cpu
  <2> QED
    BY <2>1 DEF Clean, Copied
<1>13. CASE UNCHANGED vars
  BY <1>13 DEF Clean, Copied, vars, cpu
<1>14. ASSUME NEW f \in Functions, Call(f) PROVE Clean'
  <2>1. Order' /\ task' = "main"
    BY <1>14, OrderStep DEF Call
  <2> QED
    BY <2>1 DEF Clean, Order
<1> QED
  BY <1>3, <1>4, <1>5, <1>6, <1>7, <1>9, <1>10, <1>11, <1>12, <1>13, <1>14, StepCases

LEMMA OrderInvariant == Spec => [](TypeInv /\ Order /\ Clean)
<1>1. Init => Order /\ Clean
  BY ResetShape, ResetSteps, ResetCopies, ZenonT(60) DEF Init, Order, Clean
<1> QED
  BY <1>1, OrderStep, CleanStep, TypeInvariant, PTL DEF Spec

\* main finds .data and .bss initialised, whatever happened before.
THEOREM StartsClean == Spec => MainStartsClean
<1> DEFINE Entry == task = "boot" /\ task' = "main" => \A i \in DOMAIN ram : ram[i] = "initial"
<1>1. TypeInv /\ Order /\ Clean /\ [Next]_vars => [Entry]_vars
  <2> SUFFICES ASSUME TypeInv, Order, Clean, [Next]_vars, task = "boot", task' = "main",
                      NEW w \in DOMAIN ram
               PROVE  ram[w] = "initial"
    OBVIOUS
  <2>1. EnterMain
    BY StepCases, HardwareWords DEF TypeInv, Assign, SetBits, ClearBits, Store, LoopEnds, CopyWord,
       ClearBss, Done, FaultTurn, Pushes, Restart, vars, cpu, Call
  <2>2. todo \in Seq(Steps) /\ todo # <<>> /\ todo[1].do = "main" /\ w \in 0 .. DataWords
    BY <2>1, HeadType DEF TypeInv, TypeOK, EnterMain, NextIs
  <2>3. 1 \in DOMAIN todo /\ ~Copied(todo, 1, w)
    BY <2>2 DEF Copied
  <2> QED
    BY <2>2, <2>3 DEF Clean
<1> QED
  BY <1>1, OrderInvariant, PTL DEF Spec, MainStartsClean

-----------------------------------------------------------------------------
(* Settings: what the bits of mask in a register are to be, which stores make  *)
(* them so and which keep them so.                                             *)

Setting(of, reg, mask, value) == [of |-> of, reg |-> reg, mask |-> mask, value |-> value]

Holds(f, k) == f[k.of][k.reg] \cap k.mask = k.value

Keeps(s, k) ==
  s.of = k.of /\ s.reg = k.reg =>
    /\ s.do = "=" => s.bits \cap k.mask = k.value
    /\ s.do = "|=" => s.bits \cap k.mask \subseteq k.value
    /\ s.do = "&=~" => s.bits \cap k.value = {}

Makes(s, k) ==
  /\ s.of = k.of /\ s.reg = k.reg
  /\ \/ s.do = "=" /\ s.bits \cap k.mask = k.value
     \/ s.do = "|=" /\ k.mask \subseteq s.bits /\ k.value = k.mask
     \/ s.do = "&=~" /\ k.mask \subseteq s.bits /\ k.value = {}

\* A step of s before the i-th makes the setting, and the steps between keep it.
Provided(s, i, k) ==
  \E j \in 1 .. i - 1 : Makes(s[j], k) /\ \A l \in j + 1 .. i - 1 : Keeps(s[l], k)

\* The setting will hold when the processor comes to the i-th step of s.
Promised(f, s, i, k) ==
  Provided(s, i, k) \/ (Holds(f, k) /\ \A j \in 1 .. i - 1 : Keeps(s[j], k))

\* What the handlers and the console leave of a register they change.
Spared(k) ==
  \/ k.of = "UART0" /\ k.reg = "C2" /\ k.mask \cap {5, 7} = {}
  \/ k.of = "USB0" /\ k.reg = "CTL" /\ 1 \notin k.mask /\ {0} \cap k.mask = k.value
  \/ k.of = "TSI0" /\ k.reg = "GENCS" /\ 2 \notin k.mask

\* A setting that only the stores of the drivers' initialisation change.
Stable(k) ==
  /\ ~Attended(k.of, k.reg) \/ Spared(k)
  /\ k.of \in DOMAIN Instances /\ k.reg \in DOMAIN Instances[k.of] /\ ~Volatile(k.of, k.reg)
  /\ k.of # "UART0" \/ k.reg # "D"
  /\ k.mask \subseteq Instances[k.of][k.reg] /\ k.value \subseteq k.mask

LEMMA ServicedHolds ==
  \A f, g, k : Stable(k) /\ Serviced(f, g) => (Holds(f, k) => Holds(g, k))
<1> SUFFICES ASSUME NEW f, NEW g, NEW k, Stable(k), Serviced(f, g), Holds(f, k) PROVE Holds(g, k)
  OBVIOUS
<1>1. k.of \in DOMAIN Instances /\ k.reg \in DOMAIN Instances[k.of]
  BY DEF Stable
<1>2. CASE ~Attended(k.of, k.reg)
  BY <1>1, <1>2 DEF Serviced, Holds
<1>3. CASE Spared(k)
  <2>1. CASE k.of = "UART0" /\ k.reg = "C2" /\ k.mask \cap {5, 7} = {}
    BY <2>1 DEF Serviced, Holds
  <2>2. CASE k.of = "USB0" /\ k.reg = "CTL" /\ 1 \notin k.mask /\ {0} \cap k.mask = k.value
    BY <2>2 DEF Serviced, Holds
  <2>3. CASE k.of = "TSI0" /\ k.reg = "GENCS" /\ 2 \notin k.mask
    BY <2>3 DEF Serviced, Holds
  <2> QED
    BY <1>3, <2>1, <2>2, <2>3 DEF Spared
<1> QED
  BY <1>2, <1>3 DEF Stable

\* What a store leaves in its register, which held old.
Outcome(s, old) == IF s.do = "=" THEN s.bits ELSE IF s.do = "|=" THEN old \cup s.bits ELSE old \ s.bits

LEMMA StoreOutcome ==
  ASSUME Registered(regs), todo \in Seq(Steps), Assign \/ SetBits \/ ClearBits
  PROVE  LET m == todo[1].of
             r == todo[1].reg
         IN  /\ todo # <<>> /\ todo' = Tail(todo) /\ Head(todo) = todo[1]
             /\ todo[1].do \in {"=", "|=", "&=~"}
             /\ m \in DOMAIN Instances /\ r \in DOMAIN Instances[m]
             /\ ~Volatile(m, r) => regs'[m][r] = Outcome(todo[1], regs[m][r]) \cap Instances[m][r]
             /\ \A n \in DOMAIN Instances : \A q \in DOMAIN Instances[n] :
                  (n # m \/ q # r) /\ (n # "UART0" \/ q # "S1") => regs'[n][q] = regs[n][q]
<1> DEFINE old == regs[todo[1].of][todo[1].reg]
<1>1. todo # <<>> /\ Head(todo) = todo[1]
  <2>1. todo # <<>>
    BY DEF Assign, SetBits, ClearBits, Store, NextIs
  <2> QED
    BY <2>1, HeadType
<1>2. PICK do \in {"=", "|=", "&=~"} :
        Store(do, IF do = "=" THEN todo[1].bits ELSE IF do = "|=" THEN old \cup todo[1].bits
                  ELSE old \ todo[1].bits)
  BY <1>1 DEF Assign, SetBits, ClearBits, Old
<1>3. todo[1].do = do
  BY <1>1, <1>2 DEF Store, NextIs
<1>4. Store(do, Outcome(todo[1], old)) /\ do \in Accesses
  BY <1>2, <1>3 DEF Outcome, Accesses
<1> QED
  BY <1>1, <1>3, <1>4, StoreWords

LEMMA StoreMakes ==
  ASSUME Registered(regs), todo \in Seq(Steps), Assign \/ SetBits \/ ClearBits, NEW k, Stable(k)
  PROVE  /\ todo # <<>> /\ todo' = Tail(todo)
         /\ Makes(todo[1], k) => Holds(regs', k)
         /\ Holds(regs, k) /\ Keeps(todo[1], k) => Holds(regs', k)
<1> DEFINE m == todo[1].of
<1> DEFINE r == todo[1].reg
<1> DEFINE old == regs[m][r]
<1> DEFINE word == Outcome(todo[1], old)
<1>1. todo # <<>> /\ todo' = Tail(todo) /\ todo[1].do \in {"=", "|=", "&=~"}
  BY StoreOutcome
<1>2. /\ m \in DOMAIN Instances /\ r \in DOMAIN Instances[m]
      /\ ~Volatile(m, r) => regs'[m][r] = word \cap Instances[m][r]
      /\ \A n \in DOMAIN Instances : \A q \in DOMAIN Instances[n] :
           (n # m \/ q # r) /\ (n # "UART0" \/ q # "S1") => regs'[n][q] = regs[n][q]
  BY StoreOutcome
<1>3. CASE k.of # m \/ k.reg # r
  <2>1. regs'[k.of][k.reg] = regs[k.of][k.reg]
    BY <1>2, <1>3 DEF Stable, Volatile
  <2> QED
    BY <1>1, <1>3, <2>1 DEF Makes, Holds
<1>4. CASE k.of = m /\ k.reg = r
  <2>1. regs'[m][r] = word \cap Instances[m][r]
    BY <1>2, <1>4 DEF Stable
  <2>2. k.mask \subseteq Instances[m][r] /\ k.value \subseteq k.mask
    BY <1>4 DEF Stable
  <2>3. Makes(todo[1], k) => word \cap k.mask = k.value
    BY <1>1, <2>2 DEF Makes, Outcome
  <2>4. old \cap k.mask = k.value /\ Keeps(todo[1], k) => word \cap k.mask = k.value
    BY <1>1, <1>4, <2>2 DEF Keeps, Outcome
  <2> HIDE DEF word
  <2>5. word \cap k.mask = k.value => Holds(regs', k)
    BY <1>4, <2>1, <2>2 DEF Holds
  <2> QED
    BY <1>1, <1>4, <2>3, <2>4, <2>5 DEF Holds
<1> QED
  BY <1>3, <1>4

LEMMA PopPromised ==
  ASSUME NEW f, NEW g, NEW s \in Seq(Steps), s # <<>>, NEW k, NEW i \in 1 .. Len(s),
         Promised(f, s, i + 1, k), Makes(s[1], k) => Holds(g, k),
         Holds(f, k) /\ Keeps(s[1], k) => Holds(g, k)
  PROVE  Promised(g, Tail(s), i, k)
<1>1. Len(s) \in Nat /\ i + 1 - 1 = i /\ \A j \in 1 .. i - 1 : Tail(s)[j] = s[j + 1] /\ j + 1 \in 2 .. i
  OBVIOUS
<1>2. CASE Provided(s, i + 1, k)
  <2>1. PICK j \in 1 .. i : Makes(s[j], k) /\ \A l \in j + 1 .. i : Keeps(s[l], k)
    BY <1>1, <1>2 DEF Provided
  <2>2. CASE j = 1
    <3>1. \A l \in 1 .. i - 1 : Keeps(Tail(s)[l], k)
      BY <1>1, <2>1, <2>2
    <3> QED
      BY <2>1, <2>2, <3>1 DEF Promised
  <2>3. CASE j > 1
    <3>1. j - 1 \in 1 .. i - 1 /\ Tail(s)[j - 1] = s[j]
      BY <1>1, <2>3
    <3>2. \A l \in j - 1 + 1 .. i - 1 : Keeps(Tail(s)[l], k)
      BY <1>1, <2>1, <2>3
    <3> QED
      BY <2>1, <3>1, <3>2 DEF Promised, Provided
  <2> QED
    BY <2>1, <2>2, <2>3
<1>3. CASE Holds(f, k) /\ \A j \in 1 .. i + 1 - 1 : Keeps(s[j], k)
  <2>1. 1 \in 1 .. i /\ \A j \in 1 .. i : Keeps(s[j], k)
    BY <1>1, <1>3
  <2>2. \A l \in 1 .. i - 1 : Keeps(Tail(s)[l], k)
    BY <1>1, <2>1
  <2> QED
    BY <1>3, <2>1, <2>2 DEF Promised
<1> QED
  BY <1>2, <1>3 DEF Promised

LEMMA PushPromised ==
  ASSUME NEW f, NEW u, NEW h \in Seq(Steps), NEW s \in Seq(Steps), Joined(u, h, s), NEW k,
         \A j \in 1 .. Len(h) : Keeps(h[j], k), NEW i \in 1 .. Len(s) + 1,
         Promised(f, s, i, k)
  PROVE  Promised(f, u, Len(h) + i, k)
<1>1. /\ Len(h) \in Nat /\ Len(s) \in Nat
      /\ \A j \in 1 .. Len(h) : u[j] = h[j]
      /\ \A j \in 1 .. Len(s) : u[Len(h) + j] = s[j]
  BY DEF Joined
<1>2. CASE Provided(s, i, k)
  <2>1. PICK j \in 1 .. i - 1 : Makes(s[j], k) /\ \A l \in j + 1 .. i - 1 : Keeps(s[l], k)
    BY <1>2 DEF Provided
  <2>2. Len(h) + j \in 1 .. Len(h) + i - 1 /\ Makes(u[Len(h) + j], k)
    <3>1. j \in 1 .. Len(s) /\ Len(h) + j \in 1 .. Len(h) + i - 1
      BY <1>1, <2>1
    <3> QED
      BY <1>1, <2>1, <3>1
  <2>3. ASSUME NEW l \in Len(h) + j + 1 .. Len(h) + i - 1 PROVE Keeps(u[l], k)
    <3>1. l - Len(h) \in j + 1 .. i - 1 /\ l - Len(h) \in 1 .. Len(s) /\ Len(h) + (l - Len(h)) = l
      BY <1>1, <2>1
    <3> QED
      BY <1>1, <2>1, <3>1
  <2> QED
    BY <2>2, <2>3 DEF Promised, Provided
<1>3. CASE Holds(f, k) /\ \A j \in 1 .. i - 1 : Keeps(s[j], k)
  <2>1. ASSUME NEW l \in 1 .. Len(h) + i - 1 PROVE Keeps(u[l], k)
    <3>1. CASE l \in 1 .. Len(h)
      BY <1>1, <3>1
    <3>2. CASE l > Len(h)
      <4>1. l - Len(h) \in 1 .. i - 1 /\ l - Len(h) \in 1 .. Len(s) /\ Len(h) + (l - Len(h)) = l
        BY <1>1, <3>2
      <4> QED
        BY <1>1, <1>3, <4>1
    <3> QED
      BY <1>1, <3>1, <3>2
  <2> QED
    BY <1>3, <2>1 DEF Promised
<1> QED
  BY <1>2, <1>3 DEF Promised

LEMMA QuietKeeps == ASSUME NEW s, Quiet(s), NEW k, Stable(k) PROVE Keeps(s, k)
BY DEF Quiet, Keeps, Stable

-----------------------------------------------------------------------------
(* The clocks of the peripherals.                                              *)

\* The clock of a peripheral is on.
Power(m) == Setting("SIM", Gate[m][1], Gate[m][2], Gate[m][2])


\* The step needs the clock of m: it accesses m, it lets m interrupt, or what follows
\* relies on it (touch_init takes the clock of its pins from init_led_io).
Requires(s, m) ==
  \/ s.do \in Accesses /\ s.of = m
  \/ s.do = "|=" /\ s.of = "NVIC" /\ s.reg = "ISER" /\ \E b \in s.bits \cap Devices : Device(b) = m
  \/ s.do = "main" /\ m = "PORTB"

\* The steps of s switch on what they need.
Supplied(s) ==
  \A i \in DOMAIN s : \A m \in DOMAIN Gate :
    Requires(s[i], m) => \E j \in 1 .. i - 1 : Makes(s[j], Power(m))

LEMMA GateNames ==
  DOMAIN Gate = {"PORTA", "PORTB", "PORTC", "PORTD", "PORTE", "LPTMR0", "TSI0", "TPM0", "TPM2",
                 "I2C0", "SPI0", "UART0", "USB0"}
BY DEF Gate

LEMMA PowerFields ==
  /\ \A m : /\ Power(m).of = "SIM" /\ Power(m).reg = Gate[m][1] /\ Power(m).mask = Gate[m][2]
            /\ Power(m).value = Gate[m][2]
  /\ \A m \in DOMAIN Gate : Gate[m][1] \in GateRegisters /\ Gate[m][2] \subseteq 0 .. 31
<1>1. \A m : /\ Power(m).of = "SIM" /\ Power(m).reg = Gate[m][1] /\ Power(m).mask = Gate[m][2]
            /\ Power(m).value = Gate[m][2]
  BY DEF Power, Setting
<1>2. \A m \in DOMAIN Gate : Gate[m][1] \in GateRegisters /\ Gate[m][2] \subseteq 0 .. 31
  BY DEF Gate, GateRegisters, SIM_SCGC4, SIM_SCGC5, SIM_SCGC6
<1> QED
  BY <1>1, <1>2

LEMMA PowerStable ==
  \A m \in DOMAIN Gate : /\ Stable(Power(m))
                         /\ Clocked(m) <=> Holds(regs, Power(m))
                         /\ \A s \in Steps : Keeps(s, Power(m))
<1> SUFFICES ASSUME NEW m \in DOMAIN Gate
             PROVE  /\ Stable(Power(m)) /\ (Clocked(m) <=> Holds(regs, Power(m)))
                    /\ \A s \in Steps : Keeps(s, Power(m))
  OBVIOUS
<1>1. \A r \in GateRegisters : "SIM" \in DOMAIN Instances /\ r \in DOMAIN Instances["SIM"]
                               /\ Instances["SIM"][r] = 0 .. 31
  BY InstanceNames, InstanceBits DEF GateRegisters, Bytewise
<1>2. Stable(Power(m))
  BY <1>1, PowerFields DEF Stable, Volatile, Attended
<1>3. Clocked(m) <=> Holds(regs, Power(m))
  BY PowerFields DEF Clocked, Holds
<1>4. \A s \in Steps : Keeps(s, Power(m))
  BY PowerFields DEF Keeps, Steps, WellFormed
<1> QED
  BY <1>2, <1>3, <1>4

\* Steps that begin with switching on what the others need.
Opens(s, n, M) ==
  /\ \A m \in M : \E j \in 1 .. n : Makes(s[j], Power(m))
  /\ \A i \in DOMAIN s : \A m \in DOMAIN Gate : Requires(s[i], m) => m \in M /\ i \in Nat /\ i > n

LEMMA Opening == \A s, M : \A n \in Nat : Opens(s, n, M) => Supplied(s)
BY DEF Opens, Supplied

LEMMA SuppliedJoined ==
  ASSUME NEW s \in Seq(Steps), NEW t \in Seq(Steps), Supplied(s), Supplied(t)
  PROVE  Supplied(s \o t)
<1>1. s \o t \in Seq(Steps) /\ Joined(s \o t, s, t)
  BY Appended
<1> DEFINE u == s \o t
<1>2. /\ Len(s) \in Nat /\ Len(t) \in Nat /\ DOMAIN s = 1 .. Len(s) /\ DOMAIN t = 1 .. Len(t)
      /\ DOMAIN u = 1 .. Len(s) + Len(t)
      /\ \A j \in 1 .. Len(s) : u[j] = s[j]
      /\ \A j \in 1 .. Len(t) : u[Len(s) + j] = t[j]
  BY <1>1, Element DEF Joined
<1> HIDE DEF u
<1> SUFFICES ASSUME NEW i \in DOMAIN u, NEW m \in DOMAIN Gate, Requires(u[i], m)
             PROVE  \E j \in 1 .. i - 1 : Makes(u[j], Power(m))
  BY DEF Supplied, u
<1>3. CASE i \in 1 .. Len(s)
  <2>1. PICK j \in 1 .. i - 1 : Makes(s[j], Power(m))
    BY <1>2, <1>3 DEF Supplied
  <2>2. u[j] = s[j]
    BY <1>2, <1>3
  <2> QED
    BY <2>1, <2>2
<1>4. CASE i > Len(s)
  <2>1. i - Len(s) \in 1 .. Len(t) /\ Len(s) + (i - Len(s)) = i
    BY <1>2, <1>4
  <2>2. PICK j \in 1 .. i - Len(s) - 1 : Makes(t[j], Power(m))
    BY <1>2, <2>1 DEF Supplied
  <2>3. Len(s) + j \in 1 .. i - 1 /\ u[Len(s) + j] = t[j]
    BY <1>2, <2>1, <2>2
  <2> QED
    BY <2>2, <2>3
<1> QED
  BY <1>2, <1>3, <1>4

LEMMA OrMakes ==
  \A m \in DOMAIN Gate : \A bits : Gate[m][2] \subseteq bits => Makes(Or("SIM", Gate[m][1], bits), Power(m))
BY PowerFields, StepFields DEF Makes, Or

LEMMA UartSupplied == \A rate : Supplied(uart_init(rate))
<1> SUFFICES ASSUME NEW rate PROVE Supplied(uart_init(rate))
  OBVIOUS
<1> DEFINE s == uart_init(rate)
<1>1. /\ s[1] = Or("SIM", "SCGC5", SIM_SCGC5.PORTA) /\ s[2] = Or("SIM", "SCGC4", SIM_SCGC4.UART0)
      /\ DOMAIN s = 1 .. 16
  BY DEF uart_init, enable_irq
<1>2. \A i \in 1 .. 16 : /\ s[i].of \in {"SIM", "PORTA", "UART0", "NVIC"} /\ (i <= 2 => s[i].of = "SIM")
                         /\ s[i].of = "NVIC" => s[i].bits = {12}
                         /\ s[i].do # "main"
  BY DEF uart_init, enable_irq, INT, Set, Or, AndNot, Step
<1> HIDE DEF s
<1>3. \A m \in {"PORTA", "UART0"} : \E j \in 1 .. 2 : Makes(s[j], Power(m))
  <2>1. /\ Gate["PORTA"][1] = "SCGC5" /\ Gate["PORTA"][2] = SIM_SCGC5.PORTA
        /\ Gate["UART0"][1] = "SCGC4" /\ Gate["UART0"][2] = SIM_SCGC4.UART0
    BY DEF Gate
  <2> QED
    BY <1>1, <2>1, OrMakes, GateNames
<1>4. \A i \in DOMAIN s : \A m \in DOMAIN Gate :
        Requires(s[i], m) => m \in {"PORTA", "UART0"} /\ i \in Nat /\ i > 2
  BY <1>1, <1>2, GateNames DEF Requires, Devices, Device
<1>5. Opens(s, 2, {"PORTA", "UART0"})
  BY <1>3, <1>4 DEF Opens
<1> QED
  BY <1>5, Opening DEF s

LEMMA I2cSupplied == Supplied(i2c_init)
<1> DEFINE s == i2c_init
<1>1. /\ s[1] = Or("SIM", "SCGC5", SIM_SCGC5.PORTE) /\ s[2] = Or("SIM", "SCGC4", SIM_SCGC4.I2C0)
      /\ DOMAIN s = 1 .. 6
  BY DEF i2c_init
<1>2. \A i \in 1 .. 6 : /\ s[i].of \in {"SIM", "PORTE", "I2C0"} /\ (i <= 2 => s[i].of = "SIM")
                        /\ s[i].do # "main"
  BY DEF i2c_init, Set, Or, Step
<1> HIDE DEF s
<1>3. \A m \in {"PORTE", "I2C0"} : \E j \in 1 .. 2 : Makes(s[j], Power(m))
  <2>1. /\ Gate["PORTE"][1] = "SCGC5" /\ Gate["PORTE"][2] = SIM_SCGC5.PORTE
        /\ Gate["I2C0"][1] = "SCGC4" /\ Gate["I2C0"][2] = SIM_SCGC4.I2C0
    BY DEF Gate
  <2> QED
    BY <1>1, <2>1, OrMakes, GateNames
<1>4. \A i \in DOMAIN s : \A m \in DOMAIN Gate :
        Requires(s[i], m) => m \in {"PORTE", "I2C0"} /\ i \in Nat /\ i > 2
  BY <1>1, <1>2, GateNames DEF Requires
<1>5. Opens(s, 2, {"PORTE", "I2C0"})
  BY <1>3, <1>4 DEF Opens
<1> QED
  BY <1>5, Opening DEF s

LEMMA SpiSupplied == Supplied(spi_init)
<1> DEFINE s == spi_init
<1>1. /\ s[1] = Or("SIM", "SCGC5", SIM_SCGC5.PORTD) /\ s[2] = Or("SIM", "SCGC5", SIM_SCGC5.PORTC)
      /\ s[3] = Or("SIM", "SCGC4", SIM_SCGC4.SPI0) /\ DOMAIN s = 1 .. 10
  BY DEF spi_init
<1>2. \A i \in 1 .. 10 : /\ s[i].of \in {"SIM", "PORTC", "PORTD", "SPI0"} /\ (i <= 3 => s[i].of = "SIM")
                         /\ s[i].do # "main"
  BY DEF spi_init, ClockPin, Set, Or, Step
<1> HIDE DEF s
<1>3. \A m \in {"PORTC", "PORTD", "SPI0"} : \E j \in 1 .. 3 : Makes(s[j], Power(m))
  <2>1. /\ Gate["PORTC"][1] = "SCGC5" /\ Gate["PORTC"][2] = SIM_SCGC5.PORTC
        /\ Gate["PORTD"][1] = "SCGC5" /\ Gate["PORTD"][2] = SIM_SCGC5.PORTD
        /\ Gate["SPI0"][1] = "SCGC4" /\ Gate["SPI0"][2] = SIM_SCGC4.SPI0
    BY DEF Gate
  <2> QED
    BY <1>1, <2>1, OrMakes, GateNames
<1>4. \A i \in DOMAIN s : \A m \in DOMAIN Gate :
        Requires(s[i], m) => m \in {"PORTC", "PORTD", "SPI0"} /\ i \in Nat /\ i > 3
  BY <1>1, <1>2, GateNames DEF Requires
<1>5. Opens(s, 3, {"PORTC", "PORTD", "SPI0"})
  BY <1>3, <1>4 DEF Opens
<1> QED
  BY <1>5, Opening DEF s

LEMMA UsbSupplied == Supplied(usb_init)
<1> DEFINE s == usb_init
<1>1. s[2] = Or("SIM", "SCGC4", SIM_SCGC4.USBOTG) /\ DOMAIN s = 1 .. 12
  BY DEF usb_init, enable_irq
<1>2. \A i \in 1 .. 12 : /\ s[i].of \in {"SIM", "USB0", "NVIC"} /\ (i <= 2 => s[i].of = "SIM")
                         /\ s[i].of = "NVIC" => s[i].bits = {24}
                         /\ s[i].do # "main"
  BY DEF usb_init, enable_irq, INT, Set, Or, Until, Step
<1> HIDE DEF s
<1>3. \A m \in {"USB0"} : \E j \in 1 .. 2 : Makes(s[j], Power(m))
  <2>1. Gate["USB0"][1] = "SCGC4" /\ Gate["USB0"][2] = SIM_SCGC4.USBOTG
    BY DEF Gate
  <2> QED
    BY <1>1, <2>1, OrMakes, GateNames
<1>4. \A i \in DOMAIN s : \A m \in DOMAIN Gate :
        Requires(s[i], m) => m \in {"USB0"} /\ i \in Nat /\ i > 2
  BY <1>1, <1>2, GateNames DEF Requires, Devices, Device
<1>5. Opens(s, 2, {"USB0"})
  BY <1>3, <1>4 DEF Opens
<1> QED
  BY <1>5, Opening DEF s

LEMMA DelaySupplied == \A n : Supplied(delay(n))
<1> SUFFICES ASSUME NEW n PROVE Supplied(delay(n))
  OBVIOUS
<1> DEFINE s == delay(n)
<1>1. s[1] = Or("SIM", "SCGC5", SIM_SCGC5.LPTMR) /\ DOMAIN s = 1 .. 7
  BY DEF delay
<1>2. \A i \in 1 .. 7 : /\ s[i].of \in {"SIM", "LPTMR0"} /\ (i <= 1 => s[i].of = "SIM")
                        /\ s[i].do # "main"
  BY DEF delay, Set, Or, Until, Step
<1> HIDE DEF s
<1>3. \A m \in {"LPTMR0"} : \E j \in 1 .. 1 : Makes(s[j], Power(m))
  <2>1. Gate["LPTMR0"][1] = "SCGC5" /\ Gate["LPTMR0"][2] = SIM_SCGC5.LPTMR
    BY DEF Gate
  <2> QED
    BY <1>1, <2>1, OrMakes, GateNames
<1>4. \A i \in DOMAIN s : \A m \in DOMAIN Gate :
        Requires(s[i], m) => m \in {"LPTMR0"} /\ i \in Nat /\ i > 1
  BY <1>1, <1>2, GateNames DEF Requires
<1>5. Opens(s, 1, {"LPTMR0"})
  BY <1>3, <1>4 DEF Opens
<1> QED
  BY <1>5, Opening DEF s

LEMMA ClocksSupplied == Supplied(init_clocks)
<1> DEFINE s == init_clocks
<1>1. s[1] = Or("SIM", "SCGC5", SIM_SCGC5.PORTA) /\ DOMAIN s = 1 .. 20
  BY DEF init_clocks, UntilExternal
<1>2. \A i \in 1 .. 20 : /\ s[i].of \in {"SIM", "PORTA", "OSC0", "MCG"} /\ (i <= 1 => s[i].of = "SIM")
                         /\ s[i].do # "main"
  BY DEF init_clocks, UntilExternal, Set, Or, AndNot, Until, Step
<1> HIDE DEF s
<1>3. \A m \in {"PORTA"} : \E j \in 1 .. 1 : Makes(s[j], Power(m))
  <2>1. Gate["PORTA"][1] = "SCGC5" /\ Gate["PORTA"][2] = SIM_SCGC5.PORTA
    BY DEF Gate
  <2> QED
    BY <1>1, <2>1, OrMakes, GateNames
<1>4. \A i \in DOMAIN s : \A m \in DOMAIN Gate :
        Requires(s[i], m) => m \in {"PORTA"} /\ i \in Nat /\ i > 1
  BY <1>1, <1>2, GateNames DEF Requires
<1>5. Opens(s, 1, {"PORTA"})
  BY <1>3, <1>4 DEF Opens
<1> QED
  BY <1>5, Opening DEF s

LEMMA LedIoSupplied ==
  /\ Supplied(init_led_io) /\ DOMAIN init_led_io = 1 .. 16
  /\ \E j \in 1 .. 16 : Makes(init_led_io[j], Power("PORTB"))
<1> DEFINE s == init_led_io
<1>1. /\ s[1] = Or("SIM", "SCGC5", LedPorts) /\ s[2] = Or("SIM", "SCGC6", SIM_SCGC6.TPM0 \cup SIM_SCGC6.TPM2)
      /\ DOMAIN s = 1 .. 16
  BY DEF init_led_io, RGB_LED
<1>2. \A i \in 1 .. 16 : /\ s[i].of \in {"SIM", "PORTB", "PORTD", "TPM0", "TPM2"} /\ (i <= 2 => s[i].of = "SIM")
                         /\ s[i].do # "main"
  BY DEF init_led_io, RGB_LED, Set, Or, Step
<1> HIDE DEF s
<1>3. \A m \in {"PORTB", "PORTD", "TPM0", "TPM2"} : \E j \in 1 .. 2 : Makes(s[j], Power(m))
  <2>1. /\ \A m \in {"PORTB", "PORTD"} : Gate[m][1] = "SCGC5" /\ Gate[m][2] \subseteq LedPorts
        /\ \A m \in {"TPM0", "TPM2"} : /\ Gate[m][1] = "SCGC6"
                                       /\ Gate[m][2] \subseteq SIM_SCGC6.TPM0 \cup SIM_SCGC6.TPM2
    BY DEF Gate, LedPorts
  <2>2. \A m \in {"PORTB", "PORTD"} : Makes(s[1], Power(m))
    BY <1>1, <2>1, OrMakes, GateNames
  <2>3. \A m \in {"TPM0", "TPM2"} : Makes(s[2], Power(m))
    BY <1>1, <2>1, OrMakes, GateNames
  <2> QED
    BY <2>2, <2>3
<1>4. \A i \in DOMAIN s : \A m \in DOMAIN Gate :
        Requires(s[i], m) => m \in {"PORTB", "PORTD", "TPM0", "TPM2"} /\ i \in Nat /\ i > 2
  BY <1>1, <1>2, GateNames DEF Requires
<1>5. Opens(s, 2, {"PORTB", "PORTD", "TPM0", "TPM2"})
  BY <1>3, <1>4 DEF Opens
<1> QED
  BY <1>1, <1>3, <1>5, Opening DEF s

\* What touch_init does not switch on itself is the clock of its pins.
LEMMA TouchSupplied ==
  \A i \in DOMAIN touch_init : \A m \in DOMAIN Gate : Requires(touch_init[i], m) =>
    m = "PORTB" \/ \E j \in 1 .. i - 1 : Makes(touch_init[j], Power(m))
<1> DEFINE s == touch_init
<1>1. s[1] = Or("SIM", "SCGC5", SIM_SCGC5.TSI) /\ DOMAIN s = 1 .. 7
  BY DEF touch_init, enable_irq
<1>2. \A i \in 1 .. 7 : /\ s[i].of \in {"SIM", "TSI0", "PORTB", "NVIC"} /\ (i <= 1 => s[i].of = "SIM")
                        /\ s[i].of = "NVIC" => s[i].bits = {26}
                        /\ s[i].do # "main"
  BY DEF touch_init, enable_irq, INT, Set, Or, Step
<1> HIDE DEF s
<1>3. Makes(s[1], Power("TSI0"))
  <2>1. Gate["TSI0"][1] = "SCGC5" /\ Gate["TSI0"][2] = SIM_SCGC5.TSI
    BY DEF Gate
  <2> QED
    BY <1>1, <2>1, OrMakes, GateNames
<1>4. \A i \in DOMAIN s : \A m \in DOMAIN Gate :
        Requires(s[i], m) => m \in {"TSI0", "PORTB"} /\ i \in Nat /\ i > 1
  BY <1>1, <1>2, GateNames DEF Requires, Devices, Device
<1>5. \A i \in DOMAIN s : \A m \in DOMAIN Gate : Requires(s[i], m) =>
        m = "PORTB" \/ \E j \in 1 .. i - 1 : Makes(s[j], Power(m))
  BY <1>3, <1>4
<1> QED
  BY <1>5 DEF s

LEMMA ScriptSupplied ==
  ASSUME NEW f \in Functions, NEW rate
  PROVE  \A i \in DOMAIN Script(f, rate) : \A m \in DOMAIN Gate : Requires(Script(f, rate)[i], m) =>
           m = "PORTB" \/ \E j \in 1 .. i - 1 : Makes(Script(f, rate)[j], Power(m))
<1> DEFINE b == Body(f, rate)
<1> DEFINE s == Script(f, rate)
<1>1. \A i \in DOMAIN b : \A m \in DOMAIN Gate : Requires(b[i], m) =>
        m = "PORTB" \/ \E j \in 1 .. i - 1 : Makes(b[j], Power(m))
  <2>1. f = "touch_init" \/ Supplied(b)
    BY UartSupplied, I2cSupplied, SpiSupplied, UsbSupplied, DelaySupplied DEF Body, Functions
  <2>2. f = "touch_init" => b = touch_init
    BY DEF Body
  <2> QED
    BY <2>1, <2>2, TouchSupplied DEF Supplied
<1>2. b \in Seq(AccessSteps)
  BY BodyType
<1>3. /\ Len(b) \in Nat /\ DOMAIN s = 1 .. Len(b) + 1
      /\ \A i \in 1 .. Len(b) : s[i] = b[i]
      /\ s[Len(b) + 1] = Step("done", "", f, {}, {})
  BY ScriptShape
<1>4. DOMAIN b = 1 .. Len(b)
  BY <1>2, Element
<1>5. \A m : ~Requires(Step("done", "", f, {}, {}), m)
  BY DEF Requires, Step, Accesses
<1> HIDE DEF b, s
<1> SUFFICES ASSUME NEW i \in DOMAIN s, NEW m \in DOMAIN Gate, Requires(s[i], m), m # "PORTB"
             PROVE  \E j \in 1 .. i - 1 : Makes(s[j], Power(m))
  BY DEF s
<1>6. i \in 1 .. Len(b) /\ s[i] = b[i]
  <2>1. i # Len(b) + 1
    BY <1>3, <1>5
  <2>2. Len(b) \in Nat /\ i \in 1 .. Len(b) + 1
    BY <1>3
  <2>3. i \in 1 .. Len(b)
    BY <2>1, <2>2
  <2> QED
    BY <1>3, <2>3
<1>7. PICK j \in 1 .. i - 1 : Makes(b[j], Power(m))
  BY <1>1, <1>4, <1>6
<1>8. j \in 1 .. Len(b)
  <2>1. Len(b) \in Nat
    BY <1>3
  <2> QED
    BY <1>6, <1>7, <2>1
<1> QED
  BY <1>3, <1>7, <1>8

LEMMA BoardSupplied ==
  /\ Supplied(BoardSteps) /\ DOMAIN BoardSteps = 1 .. 36
  /\ \E j \in 1 .. 36 : Makes(BoardSteps[j], Power("PORTB"))
<1>1. init_clocks \in Seq(Steps) /\ init_led_io \in Seq(Steps)
  BY ClocksType, LedIoType, AccessIsStep
<1>2. Supplied(BoardSteps)
  BY <1>1, ClocksSupplied, LedIoSupplied, SuppliedJoined DEF BoardSteps
<1>3. DOMAIN BoardSteps = 1 .. 36
  BY BoardType, Element
<1>4. Joined(BoardSteps, init_clocks, init_led_io)
  BY <1>1, Appended DEF BoardSteps
<1>5. Len(init_clocks) = 20 /\ Len(init_led_io) = 16
  BY DEF init_clocks, UntilExternal, init_led_io, RGB_LED
<1>6. PICK j \in 1 .. 16 : Makes(init_led_io[j], Power("PORTB"))
  BY LedIoSupplied
<1>7. BoardSteps[20 + j] = init_led_io[j] /\ 20 + j \in 1 .. 36
  BY <1>4, <1>5 DEF Joined
<1> QED
  BY <1>2, <1>3, <1>6, <1>7

LEMMA ResetSupplied == Supplied(_reset_init)
<1> DEFINE s == _reset_init
<1>1. DataWords \in Nat /\ DOMAIN s = 1 .. DataWords + 39
  BY ResetShape, Element, StartupAssumption
<1>2. \A m \in DOMAIN Gate : /\ ~Requires(StopWatchdog, m)
                             /\ \A w : ~Requires(Other("copy", w), m)
                             /\ ~Requires(Other("clear", {}), m)
                             /\ Requires(Other("main", {}), m) => m = "PORTB"
  BY GateNames DEF Requires, StopWatchdog, Set, Other, Step, Accesses
<1>3. \A m \in DOMAIN Gate : ~Requires(s[1], m) /\ ~Requires(s[DataWords + 38], m)
  BY <1>2, ResetShape
<1>4. \A w \in 1 .. DataWords : \A m \in DOMAIN Gate : ~Requires(s[1 + w], m)
  BY <1>2, ResetShape, ZenonT(60)
<1>5. \A m \in DOMAIN Gate : Requires(s[DataWords + 39], m) => m = "PORTB"
  BY <1>2, ResetShape
<1>6. \A i \in 1 .. 36 : s[DataWords + 1 + i] = BoardSteps[i]
  BY ResetShape
<1> HIDE DEF s
<1> SUFFICES ASSUME NEW i \in DOMAIN s, NEW m \in DOMAIN Gate, Requires(s[i], m)
             PROVE  \E j \in 1 .. i - 1 : Makes(s[j], Power(m))
  BY DEF Supplied, s
<1>7. CASE \E b \in 1 .. 36 : i = DataWords + 1 + b
  <2>1. PICK b \in 1 .. 36 : i = DataWords + 1 + b
    BY <1>7
  <2>2. s[i] = BoardSteps[b]
    BY <1>6, <2>1
  <2>3. PICK j \in 1 .. b - 1 : Makes(BoardSteps[j], Power(m))
    BY <2>2, BoardSupplied DEF Supplied
  <2>4. DataWords + 1 + j \in 1 .. i - 1 /\ j \in 1 .. 36
    <3>1. DataWords \in Nat
      BY <1>1
    <3> QED
      BY <2>1, <3>1
  <2> QED
    BY <1>6, <2>3, <2>4
<1>8. CASE i = DataWords + 39
  <2>1. m = "PORTB"
    BY <1>5, <1>8
  <2>2. PICK j \in 1 .. 36 : Makes(BoardSteps[j], Power("PORTB"))
    BY BoardSupplied
  <2>3. DataWords + 1 + j \in 1 .. i - 1
    BY <1>1, <1>8, <2>2
  <2> QED
    BY <1>6, <2>1, <2>2, <2>3
<1>9. CASE \E w \in 1 .. DataWords : i = 1 + w
  BY <1>4, <1>9
<1>10. i # 1 /\ i # DataWords + 38
  BY <1>3
<1> QED
  BY <1>7, <1>8, <1>9, <1>10, ResetParts DEF s

\* As long as nothing has failed, every clock will be on when it is needed, and the
\* devices that may interrupt have theirs.
PoweredNow ==
  /\ \A i \in DOMAIN todo :
       /\ todo[i].do # "fault"
       /\ \A m \in DOMAIN Gate : Requires(todo[i], m) => Promised(regs, todo, i, Power(m))
  /\ \A b \in Devices : b \in regs["NVIC"]["ISER"] => Holds(regs, Power(Device(b)))
  /\ task = "main" => Holds(regs, Power("PORTB"))

\* The USB handler has printed with the clock of UART0 off: the handler of hard faults is
\* about to touch UART0 as well, which resets the processor.
Struck == /\ level = "hard" /\ todo # <<>> /\ Head(todo).do = "while" /\ Head(todo).of = "UART0"
          /\ Enabled(INT.USB0) /\ ~Clocked("UART0")

Powered == \/ cause = "none" /\ PoweredNow
           \/ cause = "program"
           \/ cause = "bus" /\ Struck

LEMMA ClockedSame ==
  ASSUME \A r \in GateRegisters : regs'["SIM"][r] = regs["SIM"][r]
  PROVE  \A m \in DOMAIN Gate : Clocked(m)' <=> Clocked(m)
BY PowerFields DEF Clocked

LEMMA ServicedPowers ==
  ASSUME Serviced(regs, regs')
  PROVE  /\ regs'["NVIC"]["ISER"] = regs["NVIC"]["ISER"]
         /\ \A m \in DOMAIN Gate : Clocked(m)' <=> Clocked(m)
         /\ \A m \in DOMAIN Gate : Holds(regs, Power(m)) => Holds(regs', Power(m))
         /\ \A s, i : \A m \in DOMAIN Gate :
              Promised(regs, s, i, Power(m)) => Promised(regs', s, i, Power(m))
<1>1. \A m \in DOMAIN Gate : Holds(regs, Power(m)) => Holds(regs', Power(m))
  BY PowerStable, ServicedHolds
<1>2. \A s, i : \A m \in DOMAIN Gate :
        Promised(regs, s, i, Power(m)) => Promised(regs', s, i, Power(m))
  BY <1>1 DEF Promised
<1>3. /\ regs'["NVIC"]["ISER"] = regs["NVIC"]["ISER"]
      /\ \A r \in GateRegisters : regs'["SIM"][r] = regs["SIM"][r]
  BY InstanceNames DEF Serviced, Attended, GateRegisters
<1> QED
  BY <1>1, <1>2, <1>3, ClockedSame

LEMMA MadeIsPromised ==
  ASSUME NEW s \in Seq(Steps), NEW i \in DOMAIN s, NEW m \in DOMAIN Gate, NEW j \in 1 .. i - 1,
         Makes(s[j], Power(m)), NEW f
  PROVE  Promised(f, s, i, Power(m))
<1>1. \A l \in j + 1 .. i - 1 : s[l] \in Steps
  OBVIOUS
<1>2. \A l \in j + 1 .. i - 1 : Keeps(s[l], Power(m))
  BY <1>1, PowerStable
<1> QED
  BY <1>2 DEF Promised, Provided

LEMMA HeldIsPromised ==
  ASSUME NEW s \in Seq(Steps), NEW i \in DOMAIN s, NEW m \in DOMAIN Gate, NEW f, Holds(f, Power(m))
  PROVE  Promised(f, s, i, Power(m))
<1>1. \A l \in 1 .. i - 1 : s[l] \in Steps
  OBVIOUS
<1> QED
  BY <1>1, PowerStable DEF Promised

LEMMA FirstPromised ==
  ASSUME NEW f, NEW s, NEW k, Promised(f, s, 1, k)
  PROVE  Holds(f, k)
BY DEF Promised, Provided

\* The step that is executed leaves what was promised to the others.
LEMMA PopPowered ==
  ASSUME TypeInv, PoweredNow, todo # <<>>, todo' = Tail(todo),
         \A k : Stable(k) => /\ Makes(todo[1], k) => Holds(regs', k)
                             /\ Holds(regs, k) /\ Keeps(todo[1], k) => Holds(regs', k)
  PROVE  \A i \in DOMAIN todo' :
           /\ todo'[i].do # "fault"
           /\ \A m \in DOMAIN Gate : Requires(todo'[i], m) => Promised(regs', todo', i, Power(m))
<1>1. todo \in Seq(Steps)
  BY DEF TypeInv
<1> SUFFICES ASSUME NEW i \in DOMAIN todo'
             PROVE  /\ todo'[i].do # "fault"
                    /\ \A m \in DOMAIN Gate : Requires(todo'[i], m) => Promised(regs', todo', i, Power(m))
  OBVIOUS
<1>2. i \in 1 .. Len(todo) - 1 /\ todo'[i] = todo[i + 1] /\ i + 1 \in DOMAIN todo
  BY <1>1, HeadType
<1>3. todo'[i].do # "fault"
  BY <1>2 DEF PoweredNow
<1>4. ASSUME NEW m \in DOMAIN Gate, Requires(todo'[i], m) PROVE Promised(regs', todo', i, Power(m))
  <2>1. Promised(regs, todo, i + 1, Power(m))
    BY <1>2, <1>4 DEF PoweredNow
  <2>2. Stable(Power(m))
    BY PowerStable
  <2> QED
    BY <1>1, <1>2, <2>1, <2>2, PopPromised
<1> QED
  BY <1>3, <1>4

LEMMA StorePowered ==
  ASSUME TypeInv, Powered, Assign \/ SetBits \/ ClearBits
  PROVE  Powered'
<1>1. todo \in Seq(Steps) /\ Registered(regs)
  BY DEF TypeInv
<1>2. cause' = cause /\ task' = task /\ ~Struck
  BY DEF Assign, SetBits, ClearBits, Store, NextIs, history, Struck
<1> SUFFICES ASSUME PoweredNow, cause = "none" PROVE PoweredNow'
  BY <1>2 DEF Powered
<1>3. \A k : Stable(k) => /\ todo # <<>> /\ todo' = Tail(todo)
                          /\ Makes(todo[1], k) => Holds(regs', k)
                          /\ Holds(regs, k) /\ Keeps(todo[1], k) => Holds(regs', k)
  BY <1>1, StoreMakes
<1>4. Stable(Power("PORTB")) /\ \A b \in Devices : Device(b) \in DOMAIN Gate
  BY PowerStable, GateNames DEF Device
<1>5. todo # <<>> /\ todo' = Tail(todo) /\ todo[1] \in Steps /\ Head(todo) = todo[1] /\ 1 \in DOMAIN todo
  BY <1>1, <1>3, <1>4, HeadType
<1>6. \A m \in DOMAIN Gate : Holds(regs, Power(m)) => Holds(regs', Power(m))
  BY <1>3, <1>5, PowerStable
<1>7. ASSUME NEW b \in Devices, b \in regs'["NVIC"]["ISER"] PROVE Holds(regs', Power(Device(b)))
  <2>1. CASE b \in regs["NVIC"]["ISER"]
    BY <1>4, <1>6, <2>1 DEF PoweredNow
  <2>2. CASE b \notin regs["NVIC"]["ISER"]
    <3>1. todo[1].do = "|=" /\ todo[1].of = "NVIC" /\ todo[1].reg = "ISER" /\ b \in todo[1].bits
      <4>1. WellFormed(todo[1]) /\ "NVIC" \in DOMAIN Instances /\ "ISER" \in DOMAIN Instances["NVIC"]
        BY <1>1, <1>5, HeadType, InstanceNames
      <4>2. PICK do \in {"=", "|=", "&=~"} : \E w :
              Store(do, w) /\ (do = "|=" => w = Old \cup todo[1].bits)
        BY <1>5 DEF Assign, SetBits, ClearBits
      <4>3. PICK w : Store(do, w) /\ (do = "|=" => w = Old \cup todo[1].bits)
        BY <4>2
      <4>4. todo[1].do = do /\ do \in Accesses
        BY <1>5, <4>3 DEF Store, NextIs, Accesses
      <4>5. todo[1].of = "NVIC" /\ todo[1].reg = "ISER"
        BY <1>1, <1>5, <2>2, <4>1, <4>3, <4>4, <1>7, StoreWords
      <4>6. do = "|="
        BY <4>1, <4>4, <4>5 DEF WellFormed
      <4>7. regs'["NVIC"]["ISER"] = w \cap Instances["NVIC"]["ISER"]
        BY <1>1, <1>5, <4>3, <4>4, <4>5, StoreWords DEF Volatile
      <4> QED
        BY <1>5, <1>7, <2>2, <4>3, <4>4, <4>5, <4>6, <4>7 DEF Old
    <3>2. Requires(todo[1], Device(b))
      BY <3>1 DEF Requires
    <3>3. Promised(regs, todo, 1, Power(Device(b)))
      BY <1>4, <1>5, <3>2 DEF PoweredNow
    <3>4. Holds(regs, Power(Device(b)))
      BY <3>3, FirstPromised
    <3> QED
      BY <1>4, <1>6, <3>4
  <2> QED
    BY <2>1, <2>2
<1>8. task' = "main" => Holds(regs', Power("PORTB"))
  BY <1>2, <1>6, GateNames DEF PoweredNow
<1> QED
  BY <1>3, <1>5, <1>7, <1>8, PopPowered DEF PoweredNow

LEMMA PopsPowered ==
  ASSUME TypeInv, Powered, LoopEnds \/ CopyWord \/ ClearBss \/ EnterMain \/ Done
  PROVE  Powered'
<1>1. /\ todo # <<>> /\ todo' = Tail(todo) /\ UNCHANGED <<regs, cause>>
      /\ Head(todo).do \in {"while", "copy", "clear", "main", "done"}
      /\ task' = task \/ (Head(todo).do = "main" /\ task' = "main")
      /\ ~Struck
  BY DEF LoopEnds, CopyWord, ClearBss, EnterMain, Done, NextIs, history, Struck
<1>2. todo \in Seq(Steps)
  BY DEF TypeInv
<1>3. Head(todo) = todo[1] /\ 1 \in DOMAIN todo
  BY <1>1, <1>2, HeadType
<1> SUFFICES ASSUME PoweredNow, cause = "none" PROVE PoweredNow'
  BY <1>1 DEF Powered
<1>4. \A k : ~Makes(todo[1], k)
  BY <1>1, <1>3 DEF Makes
<1>5. task' = "main" => Holds(regs', Power("PORTB"))
  <2>1. CASE Head(todo).do = "main"
    <3>1. Requires(todo[1], "PORTB") /\ "PORTB" \in DOMAIN Gate
      BY <1>3, <2>1, GateNames DEF Requires
    <3>2. Promised(regs, todo, 1, Power("PORTB"))
      BY <1>3, <3>1 DEF PoweredNow
    <3> QED
      BY <1>1, <3>2, FirstPromised
  <2>2. CASE task' = task
    BY <1>1, <2>2 DEF PoweredNow
  <2> QED
    BY <1>1, <2>1, <2>2
<1>6. \A i \in DOMAIN todo' :
           /\ todo'[i].do # "fault"
           /\ \A m \in DOMAIN Gate : Requires(todo'[i], m) => Promised(regs', todo', i, Power(m))
  BY <1>1, <1>4, PopPowered
<1> QED
  BY <1>1, <1>5, <1>6 DEF PoweredNow

LEMMA HandlerShape ==
  /\ HardFault_Handler \in Seq(Steps) /\ HardFault_Handler # <<>>
  /\ Head(HardFault_Handler).do = "while" /\ Head(HardFault_Handler).of = "UART0"
<1>1. HardFault_Handler \in Seq(Steps)
  BY HandlerType DEF Handler
<1>2. Len(HardFault_Handler) = 5 /\ HardFault_Handler[1] = Until("UART0", "S1", UART_S1.TDRE, UART_S1.TDRE)
  BY DEF HardFault_Handler, uart_write_err, fault
<1>3. HardFault_Handler # <<>> /\ Head(HardFault_Handler) = HardFault_Handler[1]
  BY <1>1, <1>2
<1> QED
  BY <1>1, <1>2, <1>3 DEF Until, Step

LEMMA PushPowered ==
  ASSUME TypeInv, PoweredNow, NEW h \in Seq(Steps), todo' = h \o todo, task' = task,
         Serviced(regs, regs'),
         \A i \in DOMAIN h : /\ Quiet(h[i]) /\ h[i].do # "fault"
                             /\ \A m \in DOMAIN Gate : Requires(h[i], m) => Holds(regs, Power(m))
  PROVE  PoweredNow'
<1>1. todo \in Seq(Steps)
  BY DEF TypeInv
<1>2. todo' \in Seq(Steps) /\ Joined(todo', h, todo)
  BY <1>1, Appended
<1>3. /\ Len(h) \in Nat /\ Len(todo) \in Nat /\ DOMAIN h = 1 .. Len(h) /\ DOMAIN todo = 1 .. Len(todo)
      /\ DOMAIN todo' = 1 .. Len(h) + Len(todo)
  BY <1>1, <1>2, Element DEF Joined
<1>4. ASSUME NEW i \in DOMAIN todo'
      PROVE  /\ todo'[i].do # "fault"
             /\ \A m \in DOMAIN Gate : Requires(todo'[i], m) => Promised(regs, todo', i, Power(m))
  <2>1. CASE i \in 1 .. Len(h)
    <3>1. todo'[i] = h[i]
      BY <1>2, <2>1 DEF Joined
    <3>2. \A m \in DOMAIN Gate : Requires(h[i], m) => Holds(regs, Power(m))
      BY <1>3, <2>1
    <3> QED
      BY <1>2, <1>3, <2>1, <3>1, <3>2, HeldIsPromised
  <2>2. CASE i > Len(h)
    <3>1. i - Len(h) \in 1 .. Len(todo) /\ Len(h) + (i - Len(h)) = i
      BY <1>3, <2>2
    <3>2. todo'[i] = todo[i - Len(h)]
      BY <1>2, <3>1 DEF Joined
    <3>3. \A m \in DOMAIN Gate : \A j \in 1 .. Len(h) : Keeps(h[j], Power(m))
      BY <1>3, QuietKeeps, PowerStable
    <3>4. ASSUME NEW m \in DOMAIN Gate, Requires(todo'[i], m) PROVE Promised(regs, todo', i, Power(m))
      <4>1. Promised(regs, todo, i - Len(h), Power(m))
        BY <1>3, <3>1, <3>2, <3>4 DEF PoweredNow
      <4>2. i - Len(h) \in 1 .. Len(todo) + 1
        BY <1>3, <3>1
      <4> QED
        BY <1>1, <1>2, <3>1, <3>3, <4>1, <4>2, PushPromised
    <3> QED
      BY <1>3, <3>1, <3>2, <3>4 DEF PoweredNow
  <2> QED
    BY <1>3, <2>1, <2>2
<1> QED
  BY <1>4, ServicedPowers, GateNames DEF PoweredNow, Device

\* The handlers of the devices find the clock of their device on, but the USB handler may
\* find that of UART0 off.
LEMMA InterruptPowered ==
  ASSUME TypeInv, Powered, NEW n \in {INT.UART0, INT.USB0, INT.TSI0}, Interrupt(n)
  PROVE  Powered'
<1>1. /\ Serviced(regs, regs') /\ task' = task /\ Ends(n)
      /\ n - 16 \in Devices /\ n - 16 \in regs["NVIC"]["ISER"] /\ level = "thread"
  BY InterruptServiced DEF TypeInv
<1>2. todo \in Seq(Steps) /\ ~Struck
  BY <1>1 DEF TypeInv, Struck
<1>3. CASE cause = "program"
  <2>1. cause' = "program"
    BY <1>1, <1>3 DEF Ends, Strikes, Take, First
  <2> QED
    BY <2>1 DEF Powered
<1> SUFFICES ASSUME PoweredNow, cause = "none" PROVE Powered'
  BY <1>2, <1>3 DEF Powered
<1>4. Device(n - 16) \in DOMAIN Gate /\ Holds(regs, Power(Device(n - 16)))
  BY <1>1, GateNames DEF PoweredNow, Device
<1>5. ~Strikes(Device(n - 16))
  BY <1>4, PowerStable DEF Strikes
<1>6. CASE UNCHANGED <<todo, level, cause>>
  <2>1. <<>> \in Seq(Steps) /\ DOMAIN <<>> = {} /\ todo' = <<>> \o todo
    BY <1>2, <1>6
  <2>2. PoweredNow'
    BY <1>1, <2>1, PushPowered
  <2> QED
    BY <1>6, <2>2 DEF Powered
<1>7. CASE todo' = <<Other("spin", {})>> \o todo /\ cause' = cause
  <2> DEFINE h == <<Other("spin", {})>>
  <2>1. Other("spin", {}) \in Steps
    BY OtherStep
  <2>2. Other("spin", {}).do = "spin" /\ Quiet(Other("spin", {}))
    BY DEF Other, Step, Quiet
  <2>3. h \in Seq(Steps) /\ \A i \in DOMAIN h : Quiet(h[i]) /\ h[i].do = "spin"
    BY <2>1, <2>2
  <2>4. \A i \in DOMAIN h : \A m : ~Requires(h[i], m)
    BY <2>3 DEF Requires, Accesses
  <2> HIDE DEF h
  <2>5. PoweredNow'
    BY <1>1, <1>7, <2>3, <2>4, PushPowered DEF h
  <2> QED
    BY <1>7, <2>5 DEF Powered
<1>8. CASE n = INT.USB0 /\ Strikes("UART0")
  <2>1. /\ todo' = HardFault_Handler \o todo /\ level' = "hard" /\ cause' = "bus"
    BY <1>8 DEF Strikes, Take, Handler, InterruptVector, INT, First
  <2>2. HardFault_Handler \in Seq(Steps) /\ HardFault_Handler # <<>>
        /\ Head(HardFault_Handler).do = "while" /\ Head(HardFault_Handler).of = "UART0"
    BY HandlerShape
  <2>3. todo' # <<>> /\ Head(todo') = Head(HardFault_Handler)
    BY <1>2, <2>1, <2>2
  <2>4. Enabled(INT.USB0)' /\ ~Clocked("UART0")'
    BY <1>1, <1>8, ServicedPowers, GateNames DEF Enabled, Strikes, INT
  <2> QED
    BY <2>1, <2>2, <2>3, <2>4 DEF Powered, Struck
<1> QED
  BY <1>1, <1>5, <1>6, <1>7, <1>8 DEF Ends

\* What main prints and reads changes no clock.
LEMMA ConsolePowered ==
  ASSUME TypeInv, Powered, UseConsole
  PROVE  Powered'
<1>1. Serviced(regs, regs') /\ UNCHANGED <<cpu, ram, history>>
  BY ConsoleServiced DEF TypeInv
<1>2. todo = <<>>
  BY DEF UseConsole
<1> SUFFICES ASSUME PoweredNow, cause = "none" PROVE PoweredNow'
  BY <1>1, <1>2 DEF Powered, Struck, cpu, history
<1>3. <<>> \in Seq(Steps) /\ DOMAIN <<>> = {} /\ todo' = <<>> \o todo /\ task' = task
  BY <1>1, <1>2 DEF cpu
<1> QED
  BY <1>1, <1>3, PushPowered

LEMMA ResetPowered ==
  /\ \A i \in DOMAIN _reset_init :
       /\ _reset_init[i].do # "fault"
       /\ \A m \in DOMAIN Gate : Requires(_reset_init[i], m) =>
            Promised(ResetRegisters, _reset_init, i, Power(m))
  /\ ResetRegisters["NVIC"]["ISER"] = {}
<1>1. ResetRegisters["NVIC"]["ISER"] = {}
  BY ResetWords, InstanceNames DEF ResetWord
<1>2. \A i \in DOMAIN _reset_init : \A m \in DOMAIN Gate :
        Requires(_reset_init[i], m) => Promised(ResetRegisters, _reset_init, i, Power(m))
  BY ResetSupplied, ResetType, MadeIsPromised DEF Supplied
<1> QED
  BY <1>1, <1>2, ResetSteps

LEMMA RestartPowered == Restart => Powered'
<1> SUFFICES ASSUME Restart PROVE PoweredNow'
  BY DEF Powered, Restart
<1>1. todo' = _reset_init /\ regs' = ResetRegisters /\ task' = "boot"
  BY DEF Restart
<1> QED
  BY <1>1, ResetPowered DEF PoweredNow

LEMMA CallPowered ==
  ASSUME TypeInv, Powered, NEW f \in Functions, Call(f)
  PROVE  Powered'
<1>1. PICK rate : todo' = Script(f, rate)
  BY DEF Call, Script
<1>2. UNCHANGED <<regs, cause, task>> /\ task = "main" /\ ~Struck
  BY DEF Call, Struck
<1> SUFFICES ASSUME PoweredNow, cause = "none" PROVE PoweredNow'
  BY <1>2 DEF Powered
<1>3. Holds(regs, Power("PORTB")) /\ "PORTB" \in DOMAIN Gate
  BY <1>2, GateNames DEF PoweredNow
<1>4. Script(f, rate) \in Seq(Steps)
  BY ScriptShape
<1>5. \A i \in DOMAIN Script(f, rate) : Script(f, rate)[i].do # "fault"
  <2>1. DOMAIN Script(f, rate) = 1 .. Len(Body(f, rate)) + 1 /\ Len(Body(f, rate)) \in Nat
    BY ScriptShape
  <2>2. Script(f, rate)[Len(Body(f, rate)) + 1].do = "done"
    <3>1. Step("done", "", f, {}, {}).do = "done"
      BY DEF Step
    <3> QED
      BY <3>1, ScriptShape
  <2>3. \A i \in 1 .. Len(Body(f, rate)) : Script(f, rate)[i].do \in Accesses
    BY ScriptShape DEF AccessSteps
  <2> QED
    BY <2>1, <2>2, <2>3 DEF Accesses
<1>6. \A i \in DOMAIN Script(f, rate) : \A m \in DOMAIN Gate :
        Requires(Script(f, rate)[i], m) => Promised(regs, Script(f, rate), i, Power(m))
  BY <1>3, <1>4, ScriptSupplied, MadeIsPromised, HeldIsPromised
<1> QED
  BY <1>1, <1>2, <1>5, <1>6 DEF PoweredNow

\* The program's steps need no clock that is off before something has failed.
LEMMA NoBusFault == TypeInv /\ Powered /\ BusFault => cause # "none"
<1> SUFFICES ASSUME TypeInv, PoweredNow, BusFault PROVE FALSE
  BY DEF Powered
<1>1. /\ todo \in Seq(Steps) /\ todo # <<>> /\ Head(todo).do \in Accesses /\ ~Clocked(Head(todo).of)
  BY DEF TypeInv, BusFault
<1>2. Head(todo) = todo[1] /\ 1 \in DOMAIN todo
  BY <1>1, HeadType
<1> DEFINE m == todo[1].of
<1>3. m \in DOMAIN Gate
  BY <1>1, <1>2 DEF Clocked
<1>4. Requires(todo[1], m)
  BY <1>1, <1>2 DEF Requires
<1>5. Promised(regs, todo, 1, Power(m))
  BY <1>2, <1>3, <1>4 DEF PoweredNow
<1> QED
  BY <1>1, <1>2, <1>3, <1>5, FirstPromised, PowerStable

LEMMA PoweredStep == TypeInv /\ Powered /\ [Next]_vars => Powered'
<1> SUFFICES ASSUME TypeInv, Powered, [Next]_vars PROVE Powered'
  OBVIOUS
<1>1. CASE Assign \/ SetBits \/ ClearBits
  BY <1>1, StorePowered
<1>2. CASE LoopEnds \/ CopyWord \/ ClearBss \/ EnterMain \/ Done
  BY <1>2, PopsPowered
<1>3. CASE FaultTurn
  <2>1. todo \in Seq(Steps) /\ todo # <<>> /\ Head(todo).do = "fault" /\ cause' = cause /\ ~Struck
    BY <1>3 DEF TypeInv, FaultTurn, NextIs, history, Struck
  <2>2. 1 \in DOMAIN todo /\ todo[1].do = "fault"
    BY <2>1, HeadType
  <2>3. cause # "none"
    BY <2>2 DEF Powered, PoweredNow
  <2> QED
    BY <2>1, <2>3 DEF Powered
<1>4. CASE BusFault
  <2>1. cause = "program" \/ Struck
    BY <1>4, NoBusFault DEF Powered
  <2>2. Restart \/ cause' = "program"
    BY <1>4, <2>1 DEF BusFault, Take, First, Struck
  <2> QED
    BY <2>2, RestartPowered DEF Powered
<1>5. CASE Hardware
  <2>1. /\ UNCHANGED <<todo, task, cause>>
        /\ \A n \in DOMAIN Instances : \A q \in DOMAIN Instances[n] :
             ~Volatile(n, q) => regs'[n][q] = regs[n][q]
    BY <1>5, HardwareWords DEF TypeInv, cpu, history
  <2>6. Struck => Struck'
    <3>1. regs'["NVIC"]["ISER"] = regs["NVIC"]["ISER"] /\ level' = level
      BY <1>5, <2>1, HardwareWords, InstanceNames DEF TypeInv, Volatile, cpu
    <3>2. \A r \in GateRegisters : regs'["SIM"][r] = regs["SIM"][r]
      BY <2>1, InstanceNames DEF Volatile, GateRegisters
    <3> QED
      BY <2>1, <3>1, <3>2, ClockedSame, GateNames DEF Struck, Enabled
  <2> SUFFICES ASSUME PoweredNow, cause = "none" PROVE PoweredNow'
    BY <2>1, <2>6 DEF Powered
  <2>2. \A m \in DOMAIN Gate : Holds(regs, Power(m)) <=> Holds(regs', Power(m))
    BY <2>1, PowerStable DEF Stable, Holds
  <2>3. regs'["NVIC"]["ISER"] = regs["NVIC"]["ISER"]
    BY <2>1, InstanceNames DEF Volatile
  <2>4. "PORTB" \in DOMAIN Gate /\ \A b \in Devices : Device(b) \in DOMAIN Gate
    BY GateNames DEF Device
  <2>5. \A s, i : \A m \in DOMAIN Gate : Promised(regs, s, i, Power(m)) => Promised(regs', s, i, Power(m))
    BY <2>2 DEF Promised
  <2> QED
    BY <2>1, <2>2, <2>3, <2>4, <2>5 DEF PoweredNow
<1>6. CASE Abort
  BY <1>6 DEF Abort, ErrorPoint, First, Powered, Struck
<1>7. CASE ResetButton \/ WatchdogBites
  BY <1>7, RestartPowered DEF ResetButton, WatchdogBites
<1>8. ASSUME NEW f \in Functions, Call(f) PROVE Powered'
  BY <1>8, CallPowered
<1>9. ASSUME NEW n \in {INT.Hard_Fault, INT.SVCall}, ProgramError(n) PROVE Powered'
  <2>1. Handler(InterruptVector(n)) \in {Default_Handler, HardFault_Handler}
    BY DEF INT, InterruptVector, Handler
  <2> QED
    BY <1>9, <2>1 DEF ProgramError, ErrorPoint, Take, First, Powered, Struck
<1>10. ASSUME NEW n \in {INT.UART0, INT.USB0, INT.TSI0}, Interrupt(n) PROVE Powered'
  BY <1>10, InterruptPowered
<1>11. CASE UNCHANGED vars
  BY <1>11 DEF vars, cpu, history, Powered, PoweredNow, Struck, Enabled, Clocked
<1>12. Calls \subseteq Functions /\ (Spin => UNCHANGED vars) /\ (UseConsole => Powered')
  BY StartupAssumption, ConsolePowered DEF Spin
<1> QED
  BY <1>1, <1>2, <1>3, <1>4, <1>5, <1>6, <1>7, <1>8, <1>9, <1>10, <1>11, <1>12 DEF Next, Run

LEMMA PoweredInvariant == Spec => [](TypeInv /\ Powered)
<1>1. Init => Powered
  <2> SUFFICES ASSUME Init PROVE PoweredNow
    BY DEF Powered, Init
  <2>1. todo = _reset_init /\ regs = ResetRegisters /\ task = "boot"
    BY DEF Init
  <2> QED
    BY <2>1, ResetPowered DEF PoweredNow
<1> QED
  BY <1>1, PoweredStep, TypeInvariant, PTL DEF Spec

\* At every moment, start-up and program together: the variables have their types, every
\* interrupt finds its handler and every access its clock on, in whatever order main calls
\* the functions, and after every restart.  The one exception is the print of the USB
\* handler when main has called usb_init and the clock of UART0 is off.
THEOREM Safe == Spec => []Inv
<1>1. TypeInv /\ Powered => Inv
  BY DEF TypeInv, Powered, Inv, NoOwnFailure, Struck
<1> QED
  BY <1>1, PoweredInvariant, PTL

-----------------------------------------------------------------------------
(* The number in a field.                                                      *)

LEMMA LowestIs == \A b, k \in Nat : Lowest(b .. b + k) = b
<1> SUFFICES ASSUME NEW b \in Nat, NEW k \in Nat PROVE Lowest(b .. b + k) = b
  OBVIOUS
<1>1. b \in b .. b + k /\ \A c \in b .. b + k : b <= c
  OBVIOUS
<1>2. \A a \in b .. b + k : (\A c \in b .. b + k : a <= c) => a = b
  OBVIOUS
<1> QED
  BY <1>1, <1>2 DEF Lowest

\* The i-th bit of the field is the i-th digit of the number.
LEMMA PutBit ==
  \A b, k \in Nat : \A x, c :
    c \in Put(b .. b + k, x) <=> c \in b .. b + k /\ (x \div Two(c - b)) % 2 = 1
BY LowestIs DEF Put, Two

Digit(x, i) == (x \div Two(i)) % 2

LEMMA TwoType == \A i \in 0 .. 7 : Two(i) \in Nat \ {0}
<1> TAKE i \in 0 .. 7
<1>1. i = 0 \/ i = 1 \/ i = 2 \/ i = 3 \/ i = 4 \/ i = 5 \/ i = 6 \/ i = 7
  OBVIOUS
<1> QED
  BY <1>1, Powers

LEMMA DigitType == \A x \in Nat, i \in 0 .. 7 : Digit(x, i) \in 0 .. 1
<1>1. \A x \in Nat, n \in Nat \ {0} : x \div n \in Int
  OBVIOUS
<1>2. \A x \in Int : x % 2 \in 0 .. 1
  OBVIOUS
<1> QED
  BY <1>1, <1>2, TwoType DEF Digit

\* Numbers of at most eight digits are equal if their digits are.
Half(x) == x \div 2
Last(x) == x % 2
Shifts(x) == <<x, x \div 2, x \div 4, x \div 8, x \div 16, x \div 32, x \div 64, x \div 128>>

LEMMA Halves == \A x, y \in Nat : Half(x) = Half(y) /\ Last(x) = Last(y) => x = y
BY DEF Half, Last

LEMMA ShiftsAre ==
  ASSUME NEW x \in 0 .. 255
  PROVE  LET X == Shifts(x)
         IN  /\ X[1] = x /\ Last(X[8]) = X[8]
             /\ \A k \in 1 .. 8 : X[k] \in Nat
             /\ \A k \in 1 .. 7 : Half(X[k]) = X[k + 1]
BY DEF Half, Last, Shifts

LEMMA EightDigits ==
  ASSUME NEW x \in 0 .. 255, NEW y \in 0 .. 255, x % 2 = y % 2, (x \div 2) % 2 = (y \div 2) % 2,
         (x \div 4) % 2 = (y \div 4) % 2, (x \div 8) % 2 = (y \div 8) % 2,
         (x \div 16) % 2 = (y \div 16) % 2, (x \div 32) % 2 = (y \div 32) % 2,
         (x \div 64) % 2 = (y \div 64) % 2, (x \div 128) % 2 = (y \div 128) % 2
  PROVE  x = y
<1> DEFINE X == Shifts(x)
           Y == Shifts(y)
<1>1. /\ Last(x) = Last(y) /\ Last(x \div 2) = Last(y \div 2) /\ Last(x \div 4) = Last(y \div 4)
      /\ Last(x \div 8) = Last(y \div 8) /\ Last(x \div 16) = Last(y \div 16)
      /\ Last(x \div 32) = Last(y \div 32) /\ Last(x \div 64) = Last(y \div 64)
      /\ Last(x \div 128) = Last(y \div 128)
  BY Zenon DEF Last
<1>2. \A k \in 1 .. 8 : Last(X[k]) = Last(Y[k])
  BY <1>1, SMT DEF Shifts
<1>3. /\ X[1] = x /\ Last(X[8]) = X[8]
      /\ \A k \in 1 .. 8 : X[k] \in Nat
      /\ \A k \in 1 .. 7 : Half(X[k]) = X[k + 1]
  BY ShiftsAre, Zenon
<1>4. /\ Y[1] = y /\ Last(Y[8]) = Y[8]
      /\ \A k \in 1 .. 8 : Y[k] \in Nat
      /\ \A k \in 1 .. 7 : Half(Y[k]) = Y[k + 1]
  BY ShiftsAre, Zenon
<1> HIDE DEF X, Y
<1>5. \A k \in 1 .. 7 : X[k + 1] = Y[k + 1] => X[k] = Y[k]
  BY <1>2, <1>3, <1>4, Halves
<1>6. X[8] = Y[8]
  BY <1>2, <1>3, <1>4
<1> QED
  BY <1>3, <1>4, <1>5, <1>6

SameDigits(x, y) == \A i \in 0 .. 7 : Digit(x, i) = Digit(y, i)

LEMMA DigitIs ==
  ASSUME NEW x \in 0 .. 255
  PROVE  /\ Digit(x, 0) = x % 2 /\ Digit(x, 1) = (x \div 2) % 2 /\ Digit(x, 2) = (x \div 4) % 2
         /\ Digit(x, 3) = (x \div 8) % 2 /\ Digit(x, 4) = (x \div 16) % 2
         /\ Digit(x, 5) = (x \div 32) % 2 /\ Digit(x, 6) = (x \div 64) % 2
         /\ Digit(x, 7) = (x \div 128) % 2
<1>1. x \div 1 = x
  OBVIOUS
<1>2. /\ Two(0) = 1 /\ Two(1) = 2 /\ Two(2) = 4 /\ Two(3) = 8 /\ Two(4) = 16 /\ Two(5) = 32
      /\ Two(6) = 64 /\ Two(7) = 128
  BY Powers
<1> QED
  BY <1>1, <1>2 DEF Digit

LEMMA Digits ==
  ASSUME NEW x \in 0 .. 255, NEW y \in 0 .. 255, SameDigits(x, y)
  PROVE  x = y
<1> DEFINE Bit(z, m) == (z \div m) % 2
<1> DEFINE Bits(z) == /\ Digit(z, 0) = z % 2 /\ Digit(z, 1) = Bit(z, 2) /\ Digit(z, 2) = Bit(z, 4)
                      /\ Digit(z, 3) = Bit(z, 8) /\ Digit(z, 4) = Bit(z, 16)
                      /\ Digit(z, 5) = Bit(z, 32) /\ Digit(z, 6) = Bit(z, 64)
                      /\ Digit(z, 7) = Bit(z, 128)
<1>1. /\ Digit(x, 0) = Digit(y, 0) /\ Digit(x, 1) = Digit(y, 1) /\ Digit(x, 2) = Digit(y, 2)
      /\ Digit(x, 3) = Digit(y, 3) /\ Digit(x, 4) = Digit(y, 4) /\ Digit(x, 5) = Digit(y, 5)
      /\ Digit(x, 6) = Digit(y, 6) /\ Digit(x, 7) = Digit(y, 7)
  BY DEF SameDigits
<1>2. ASSUME NEW z \in 0 .. 255 PROVE Bits(z)
  BY DigitIs, ZenonT(60)
<1>3. /\ x % 2 = y % 2 /\ Bit(x, 2) = Bit(y, 2) /\ Bit(x, 4) = Bit(y, 4) /\ Bit(x, 8) = Bit(y, 8)
      /\ Bit(x, 16) = Bit(y, 16) /\ Bit(x, 32) = Bit(y, 32) /\ Bit(x, 64) = Bit(y, 64)
      /\ Bit(x, 128) = Bit(y, 128)
  <2>1. Bits(x) /\ Bits(y)
    <3> HIDE DEF Bits
    <3> QED
      BY <1>2
  <2> HIDE DEF Bit
  <2> QED
    BY <1>1, <2>1
<1> QED
  BY <1>3, EightDigits, ZenonT(60)

\* Digits above the number's width are 0.
LEMMA HighDigits ==
  ASSUME NEW k \in 0 .. 7, NEW x \in 0 .. Two(k + 1) - 1
  PROVE  x \in 0 .. 255 /\ \A i \in k + 1 .. 7 : Digit(x, i) = 0
<1>1. k \in {0, 1, 2, 3, 4, 5, 6, 7}
  OBVIOUS
<1>2. Two(k + 1) \in {2, 4, 8, 16, 32, 64, 128, 256} /\ x \in 0 .. 255
  BY <1>1, Powers
<1>3. ASSUME NEW i \in k + 1 .. 7 PROVE x < Two(i) /\ Two(i) \in Nat
  <2>1. i \in {1, 2, 3, 4, 5, 6, 7}
    OBVIOUS
  <2>2. Two(k + 1) <= Two(i)
    BY <1>1, <2>1, Powers
  <2> QED
    BY <1>2, <2>1, <2>2, Powers
<1>4. \A y, z \in Nat : y < z => y \div z = 0
  OBVIOUS
<1> QED
  BY <1>2, <1>3, <1>4 DEF Digit

\* A field has the number whose digits its bits are.
LEMMA GetIs ==
  ASSUME NEW b \in Nat, NEW k \in 0 .. 7, NEW w, NEW x \in 0 .. Two(k + 1) - 1,
         w \cap (b .. b + k) = Put(b .. b + k, x)
  PROVE  Get(w, b .. b + k) = x
<1> DEFINE field == b .. b + k
<1>1. 2 ^ Cardinality(field) = Two(k + 1)
  <2>1. Cardinality(field) = k + 1
    BY FS_Interval
  <2> QED
    BY <2>1 DEF Two
<1>2. ASSUME NEW y \in 0 .. Two(k + 1) - 1, Put(field, y) = Put(field, x) PROVE y = x
  <2>1. ASSUME NEW i \in 0 .. 7 PROVE Digit(x, i) = Digit(y, i)
    <3>1. CASE i <= k
      <4>1. b + i \in field /\ b + i - b = i
        BY <3>1
      <4>2. Digit(x, i) = 1 <=> Digit(y, i) = 1
        <5>1. b \in Nat /\ k \in Nat
          OBVIOUS
        <5>2. \A z, c : c \in Put(field, z) <=> c \in field /\ Digit(z, c - b) = 1
          BY <5>1, PutBit, Zenon DEF Digit
        <5>3. b + i \in Put(field, x) <=> b + i \in Put(field, y)
          BY <1>2
        <5>4. \A z : b + i \in Put(field, z) <=> Digit(z, i) = 1
          <6> HIDE DEF field
          <6> QED
            BY <4>1, <5>2
        <5> QED
          BY <5>3, <5>4, Zenon
      <4>3. x \in Nat /\ y \in Nat
        BY HighDigits
      <4> QED
        BY <4>2, <4>3, DigitType
    <3>2. CASE i > k
      BY <3>2, HighDigits
    <3> QED
      BY <3>1, <3>2
  <2>2. x \in 0 .. 255 /\ y \in 0 .. 255
    BY HighDigits
  <2> QED
    BY <2>1, <2>2, Digits, ZenonT(60) DEF SameDigits
<1>3. x \in 0 .. 2 ^ Cardinality(field) - 1 /\ Put(field, x) = w \cap field
  BY <1>1
<1>4. \A y \in 0 .. 2 ^ Cardinality(field) - 1 : Put(field, y) = w \cap field => y = x
  BY <1>1, <1>2
<1> QED
  BY <1>3, <1>4 DEF Get

\* The same for a field from bit b to bit t.
LEMMA GetField ==
  ASSUME NEW b \in Nat, NEW t \in Nat, b <= t, t <= b + 7, NEW w, NEW x \in 0 .. Two(t - b + 1) - 1,
         w \cap (b .. t) = Put(b .. t, x)
  PROVE  Get(w, b .. t) = x
<1>1. t - b \in 0 .. 7 /\ b + (t - b) = t
  OBVIOUS
<1>2. w \cap (b .. b + (t - b)) = Put(b .. b + (t - b), x)
  BY <1>1
<1>3. Get(w, b .. b + (t - b)) = x
  BY <1>1, <1>2, GetIs
<1> QED
  BY <1>1, <1>3

LEMMA SmallDigits ==
  \A i \in 0 .. 7 : /\ Digit(0, i) = 0 /\ (Digit(1, i) = 1 <=> i = 0) /\ (Digit(2, i) = 1 <=> i = 1)
                    /\ (Digit(3, i) = 1 <=> i = 0 \/ i = 1) /\ (Digit(4, i) = 1 <=> i = 2)
                    /\ (Digit(5, i) = 1 <=> i = 0 \/ i = 2)
<1> TAKE i \in 0 .. 7
<1>1. i = 0 \/ i = 1 \/ i = 2 \/ i = 3 \/ i = 4 \/ i = 5 \/ i = 6 \/ i = 7
  OBVIOUS
<1>2. /\ Two(0) = 1 /\ Two(1) = 2 /\ Two(2) = 4 /\ Two(3) = 8 /\ Two(4) = 16 /\ Two(5) = 32
      /\ Two(6) = 64 /\ Two(7) = 128
  BY Powers
<1>3. Digit(0, i) = 0
  BY <1>1, <1>2 DEF Digit
<1>4. Digit(1, i) = 1 <=> i = 0
  BY <1>1, <1>2 DEF Digit
<1>5. Digit(2, i) = 1 <=> i = 1
  BY <1>1, <1>2 DEF Digit
<1>6. Digit(3, i) = 1 <=> i = 0 \/ i = 1
  BY <1>1, <1>2 DEF Digit
<1>7. Digit(4, i) = 1 <=> i = 2
  BY <1>1, <1>2 DEF Digit
<1>8. Digit(5, i) = 1 <=> i = 0 \/ i = 2
  BY <1>1, <1>2 DEF Digit
<1> QED
  BY <1>3, <1>4, <1>5, <1>6, <1>7, <1>8

\* The small numbers in a field from bit b to bit t.
LEMMA PutSmall ==
  ASSUME NEW b \in Nat, NEW t \in Nat, b <= t, t <= b + 7
  PROVE  /\ Put(b .. t, 0) = {} /\ Put(b .. t, 1) = {b}
         /\ b + 1 <= t => Put(b .. t, 2) = {b + 1} /\ Put(b .. t, 3) = {b, b + 1}
         /\ b + 2 <= t => Put(b .. t, 4) = {b + 2} /\ Put(b .. t, 5) = {b, b + 2}
<1>1. t - b \in Nat /\ b + (t - b) = t
  OBVIOUS
<1>2. \A x, c : c \in Put(b .. t, x) <=> c \in b .. t /\ Digit(x, c - b) = 1
  <2>1. \A x, c : c \in Put(b .. b + (t - b), x) <=> c \in b .. b + (t - b) /\ Digit(x, c - b) = 1
    BY <1>1, PutBit, Zenon DEF Digit
  <2> QED
    BY <1>1, <2>1
<1>3. \A c \in b .. t : c - b \in 0 .. 7 /\ \A i \in 0 .. 2 : c - b = i <=> c = b + i
  OBVIOUS
<1>4. \A c : c \notin Put(b .. t, 0) /\ (c \in Put(b .. t, 1) <=> c = b)
  BY <1>2, <1>3, SmallDigits, SMTT(60)
<1>5. b + 1 <= t => \A c : /\ c \in Put(b .. t, 2) <=> c = b + 1
                           /\ c \in Put(b .. t, 3) <=> c = b \/ c = b + 1
  BY <1>2, <1>3, SmallDigits, SMTT(60)
<1>6. b + 2 <= t => \A c : /\ c \in Put(b .. t, 4) <=> c = b + 2
                           /\ c \in Put(b .. t, 5) <=> c = b \/ c = b + 2
  BY <1>2, <1>3, SmallDigits, SMTT(60)
<1> QED
  BY <1>4, <1>5, <1>6

\* The fields of the clock generator and of the dividers, with the values they take.
LEMMA ClockFields ==
  /\ Put(2 .. 3, 0) = {} /\ Put(2 .. 3, 2) = {3} /\ Put(2 .. 3, 3) = {2, 3}
  /\ Put(6 .. 7, 0) = {} /\ Put(6 .. 7, 2) = {7} /\ Put(3 .. 5, 3) = {3, 4}
  /\ Put(5 .. 6, 0) = {} /\ Put(5 .. 6, 3) = {5, 6} /\ Put(4 .. 5, 2) = {5}
  /\ Put(0 .. 4, 0) = {} /\ Put(0 .. 4, 1) = {0} /\ Put(16 .. 18, 1) = {16}
  /\ Put(28 .. 31, 0) = {} /\ Put(28 .. 31, 1) = {28}
<1>1. /\ 0 \in Nat /\ 2 \in Nat /\ 3 \in Nat /\ 4 \in Nat /\ 5 \in Nat /\ 6 \in Nat /\ 7 \in Nat
      /\ 16 \in Nat /\ 18 \in Nat /\ 28 \in Nat /\ 31 \in Nat
  OBVIOUS
<1>2. /\ 2 <= 3 /\ 3 <= 2 + 7 /\ 2 + 1 <= 3 /\ 6 <= 7 /\ 7 <= 6 + 7 /\ 6 + 1 <= 7
      /\ 3 <= 5 /\ 5 <= 3 + 7 /\ 3 + 1 <= 5 /\ 5 <= 6 /\ 6 <= 5 + 7 /\ 5 + 1 <= 6
      /\ 4 <= 5 /\ 5 <= 4 + 7 /\ 4 + 1 <= 5 /\ 0 <= 4 /\ 4 <= 0 + 7
      /\ 16 <= 18 /\ 18 <= 16 + 7 /\ 28 <= 31 /\ 31 <= 28 + 7
  OBVIOUS
<1>3. Put(2 .. 3, 0) = {} /\ Put(2 .. 3, 2) = {2 + 1} /\ Put(2 .. 3, 3) = {2, 2 + 1}
  BY <1>1, <1>2, PutSmall, Zenon
<1>4. Put(6 .. 7, 0) = {} /\ Put(6 .. 7, 2) = {6 + 1} /\ Put(3 .. 5, 3) = {3, 3 + 1}
  BY <1>1, <1>2, PutSmall, Zenon
<1>5. Put(5 .. 6, 0) = {} /\ Put(5 .. 6, 3) = {5, 5 + 1} /\ Put(4 .. 5, 2) = {4 + 1}
  BY <1>1, <1>2, PutSmall, Zenon
<1>6. /\ Put(0 .. 4, 0) = {} /\ Put(0 .. 4, 1) = {0} /\ Put(16 .. 18, 1) = {16}
      /\ Put(28 .. 31, 0) = {} /\ Put(28 .. 31, 1) = {28}
  BY <1>1, <1>2, PutSmall, Zenon
<1> QED
  BY <1>3, <1>4, <1>5, <1>6

\* x is a number the field from bit b to bit t has room for; with its bits the field reads x.
Fits(b, t, x) == b \in Nat /\ t \in b .. b + 7 /\ x \in 0 .. Two(t - b + 1) - 1
Reads(b, t, x) == \A w : w \cap (b .. t) = Put(b .. t, x) => Get(w, b .. t) = x

LEMMA FitsReads == \A b, t, x : Fits(b, t, x) => Reads(b, t, x)
BY GetField DEF Fits, Reads

LEMMA SmallFits ==
  \A b \in Nat, t \in Nat, x \in 0 .. 3 : b <= t /\ t <= b + 7 /\ (x <= 1 \/ b < t) => Fits(b, t, x)
<1>1. \A n \in 1 .. 8 : Two(n) >= 2 /\ Two(n) \in Nat /\ (n >= 2 => Two(n) >= 4)
  <2> TAKE n \in 1 .. 8
  <2>1. n = 1 \/ n = 2 \/ n = 3 \/ n = 4 \/ n = 5 \/ n = 6 \/ n = 7 \/ n = 8
    OBVIOUS
  <2> QED
    BY <2>1, Powers
<1> SUFFICES ASSUME NEW b \in Nat, NEW t \in Nat, NEW x \in 0 .. 3, b <= t, t <= b + 7, x <= 1 \/ b < t
             PROVE  Fits(b, t, x)
  OBVIOUS
<1>2. t - b + 1 \in 1 .. 8 /\ (t - b + 1 >= 2 \/ x <= 1)
  OBVIOUS
<1> QED
  BY <1>1, <1>2 DEF Fits

\* The number in each field, from the bits that are 1 in it.
LEMMA ClockNumbers ==
  \A w : /\ w \cap (2 .. 3) = {} => Get(w, 2 .. 3) = 0
         /\ w \cap (2 .. 3) = {3} => Get(w, 2 .. 3) = 2
         /\ w \cap (2 .. 3) = {2, 3} => Get(w, 2 .. 3) = 3
         /\ w \cap (6 .. 7) = {} => Get(w, 6 .. 7) = 0
         /\ w \cap (6 .. 7) = {7} => Get(w, 6 .. 7) = 2
         /\ w \cap (3 .. 5) = {3, 4} => Get(w, 3 .. 5) = 3
         /\ w \cap (5 .. 6) = {} => Get(w, 5 .. 6) = 0
         /\ w \cap (0 .. 4) = {} => Get(w, 0 .. 4) = 0
         /\ w \cap (0 .. 4) = {0} => Get(w, 0 .. 4) = 1
         /\ w \cap (16 .. 18) = {16} => Get(w, 16 .. 18) = 1
         /\ w \cap (28 .. 31) = {} => Get(w, 28 .. 31) = 0
         /\ w \cap (28 .. 31) = {28} => Get(w, 28 .. 31) = 1
<1>1. /\ Fits(2, 3, 0) /\ Fits(2, 3, 2) /\ Fits(2, 3, 3) /\ Fits(6, 7, 0)
      /\ Fits(6, 7, 2) /\ Fits(3, 5, 3) /\ Fits(5, 6, 0) /\ Fits(0, 4, 0)
      /\ Fits(0, 4, 1) /\ Fits(16, 18, 1) /\ Fits(28, 31, 0) /\ Fits(28, 31, 1)
  BY SmallFits
<1>2. /\ Reads(2, 3, 0) /\ Reads(2, 3, 2) /\ Reads(2, 3, 3) /\ Reads(6, 7, 0)
      /\ Reads(6, 7, 2) /\ Reads(3, 5, 3) /\ Reads(5, 6, 0) /\ Reads(0, 4, 0)
      /\ Reads(0, 4, 1) /\ Reads(16, 18, 1) /\ Reads(28, 31, 0) /\ Reads(28, 31, 1)
  BY <1>1, FitsReads
<1> QED
  BY <1>2, ClockFields DEF Reads

-----------------------------------------------------------------------------
(* The clock generator: the registers for each place in init_clocks, by the    *)
(* number n of its last 11 accesses that are still to come.                    *)

ClockSteps ==
  <<Set("MCG", "C2", {2, 5}), Set("MCG", "C1", {3, 4, 7}), AndNot("MCG", "C4", {5, 6, 7}),
    Set("MCG", "C5", {0}), Set("MCG", "C6", {}), Until("MCG", "S", {4}, {}),
    Until("MCG", "S", {2, 3}, {3}), Set("MCG", "C6", {6}), Until("MCG", "S", {6}, {6}),
    Set("MCG", "C1", {3, 4}), Until("MCG", "S", {2, 3}, {2, 3})>>

Tune == Set("SIM", "CLKDIV1", {16, 28})

\* What the status register may be: oscillator off, on, reference external, and so on.
StatusAt(n) ==
  CASE n \in {10, 11} -> {{4}}
    [] n \in 6 .. 9 -> {{4}, {1, 4}, {1}, {1, 3, 4}, {1, 3}}
    [] n = 5 -> {{1}, {1, 3}}
    [] n = 4 -> {{1, 3}}
    [] n = 3 -> {{1, 3}, {1, 3, 5, 6}}
    [] n = 2 -> {{1, 3, 5, 6}}
    [] n = 1 -> {{1, 3, 5, 6}, {1, 2, 3, 5, 6}}
    [] n = 0 -> {{1, 2, 3, 5, 6}}

Generator(f, n) ==
  /\ f["MCG"]["C1"] = (IF n >= 10 THEN {2} ELSE IF n >= 2 THEN {3, 4, 7} ELSE {3, 4})
  /\ f["MCG"]["C2"] = (IF n = 11 THEN {7} ELSE {2, 5})
  /\ f["MCG"]["C4"] = {0}
  /\ f["MCG"]["C5"] = (IF n >= 8 THEN {} ELSE {0})
  /\ f["MCG"]["C6"] = (IF n >= 4 THEN {} ELSE {6})
  /\ f["MCG"]["S"] \in StatusAt(n)

Dividers(f, n) ==
  f["SIM"]["CLKDIV1"] = {16, 28} \/ (f["SIM"]["CLKDIV1"] = {16} /\ n = 11)

\* Steps that do not touch the clock generator, nor the dividers but to set them.
Untouched(s) ==
  /\ s.of # "MCG"
  /\ s.of = "SIM" /\ s.reg = "CLKDIV1" /\ s.do \in {"=", "|=", "&=~"} => s = Tune

\* The last n of the steps are in s, after those of index up to p.
Pending(s, f, n) ==
  \E p \in 0 .. Len(s) - n :
    /\ \A i \in 1 .. n : s[p + i] = ClockSteps[11 - n + i]
    /\ \A j \in DOMAIN s : j \in p + 1 .. p + n \/ Untouched(s[j])
    /\ n = 11 => f["SIM"]["CLKDIV1"] = {16, 28} \/ \E j \in 1 .. p : s[j] = Tune

ProgressAt(n) ==
  /\ Generator(regs, n) /\ Dividers(regs, n)
  /\ task = "boot" => Pending(todo, regs, n)
  /\ task # "boot" => \A i \in DOMAIN todo : Untouched(todo[i])
  /\ task = "main" => n = 0

Progress == \E n \in 0 .. 11 : ProgressAt(n)

LEMMA ClockStepFields ==
  /\ Len(ClockSteps) = 11
  /\ \A i \in 1 .. 11 : ClockSteps[i].of = "MCG" /\ ClockSteps[i].do \in Accesses
  /\ ClockSteps[1] = Set("MCG", "C2", {2, 5}) /\ ClockSteps[2] = Set("MCG", "C1", {3, 4, 7})
  /\ ClockSteps[3] = AndNot("MCG", "C4", {5, 6, 7}) /\ ClockSteps[4] = Set("MCG", "C5", {0})
  /\ ClockSteps[5] = Set("MCG", "C6", {}) /\ ClockSteps[6] = Until("MCG", "S", {4}, {})
  /\ ClockSteps[7] = Until("MCG", "S", {2, 3}, {3}) /\ ClockSteps[8] = Set("MCG", "C6", {6})
  /\ ClockSteps[9] = Until("MCG", "S", {6}, {6}) /\ ClockSteps[10] = Set("MCG", "C1", {3, 4})
  /\ ClockSteps[11] = Until("MCG", "S", {2, 3}, {2, 3})
<1>1. \A i \in 1 .. 11 : ClockSteps[i].of = "MCG" /\ ClockSteps[i].do \in Accesses
  BY DEF ClockSteps, Set, AndNot, Until, Step, Accesses
<1> QED
  BY <1>1 DEF ClockSteps

\* The last accesses of init_clocks are those of the table; it sets the dividers before.
LEMMA ClocksShape ==
  /\ Len(init_clocks) = 20 /\ init_clocks[2] = Tune
  /\ \A k \in 1 .. 11 : init_clocks[9 + k] = ClockSteps[k]
  /\ \A j \in 1 .. 9 : Untouched(init_clocks[j])
<1>1. /\ Put(MCG_C2.RANGE0, 2) \cup MCG_C2.EREFS0 = {2, 5}
      /\ Put(MCG_C1.CLKS, 2) \cup Put(MCG_C1.FRDIV, 3) = {3, 4, 7} /\ Put(MCG_C1.FRDIV, 3) = {3, 4}
      /\ MCG_C4.DMX32 \cup Put(MCG_C4.DRST_DRS, 3) = {5, 6, 7}
      /\ Put(MCG_C5.PRDIV0, 1) = {0} /\ CoreDividers = {16, 28}
  BY ClockFields DEF MCG_C1, MCG_C2, MCG_C4, MCG_C5, CoreDividers, SIM_CLKDIV1
<1>2. MCG_S.IREFST = {4} /\ MCG_S.CLKST = {2, 3} /\ MCG_S.LOCK0 = {6} /\ MCG_C6.PLLS = {6}
  <2>1. 2 .. 3 = {2, 3}
    OBVIOUS
  <2> QED
    BY <2>1 DEF MCG_S, MCG_C6
<1>3. Word(8) = {3} /\ Word(12) = {2, 3}
  <2>1. \A c : c \in Word(8) <=> c = 3
    BY WordBit, Powers
  <2>2. \A c : c \in Word(12) <=> c \in {2, 3}
    BY WordBit, Powers
  <2> QED
    BY <2>1, <2>2
<1>4. Len(init_clocks) = 20 /\ init_clocks[2] = Tune
  BY <1>1 DEF init_clocks, UntilExternal, Tune
<1>5. \A k \in 1 .. 11 : init_clocks[9 + k] = ClockSteps[k]
  <2>1. /\ init_clocks[10] = Set("MCG", "C2", {2, 5}) /\ init_clocks[11] = Set("MCG", "C1", {3, 4, 7})
        /\ init_clocks[12] = AndNot("MCG", "C4", {5, 6, 7}) /\ init_clocks[13] = Set("MCG", "C5", {0})
        /\ init_clocks[14] = Set("MCG", "C6", {})
    BY <1>1, SMTT(60) DEF init_clocks, UntilExternal
  <2>2. init_clocks[15] = Until("MCG", "S", {4}, {})
    BY <1>2 DEF init_clocks, UntilExternal
  <2>3. init_clocks[16] = Until("MCG", "S", {2, 3}, {3})
    BY <1>2, <1>3 DEF init_clocks, UntilExternal
  <2>4. init_clocks[17] = Set("MCG", "C6", {6})
    BY <1>2 DEF init_clocks, UntilExternal
  <2>5. init_clocks[18] = Until("MCG", "S", {6}, {6})
    BY <1>2 DEF init_clocks, UntilExternal
  <2>6. init_clocks[19] = Set("MCG", "C1", {3, 4})
    BY <1>1, SMTT(60) DEF init_clocks, UntilExternal
  <2>7. init_clocks[20] = Until("MCG", "S", {2, 3}, {2, 3})
    BY <1>2, <1>3 DEF init_clocks, UntilExternal
  <2> TAKE k \in 1 .. 11
  <2>8. \/ k = 1 \/ k = 2 \/ k = 3 \/ k = 4 \/ k = 5 \/ k = 6 \/ k = 7 \/ k = 8 \/ k = 9 \/ k = 10
        \/ k = 11
    OBVIOUS
  <2> QED
    BY <2>1, <2>2, <2>3, <2>4, <2>5, <2>6, <2>7, <2>8, ClockStepFields
<1>6. \A j \in 1 .. 9 : Untouched(init_clocks[j])
  <2>1. Untouched(Tune)
    BY DEF Untouched, Tune, Set, Step
  <2>2. Untouched(init_clocks[1]) /\ Untouched(init_clocks[3]) /\ Untouched(init_clocks[4])
    BY DEF Untouched, init_clocks, UntilExternal, Set, Or, AndNot, Step
  <2>3. Untouched(init_clocks[5]) /\ Untouched(init_clocks[6])
    BY DEF Untouched, init_clocks, UntilExternal, Set, Or, AndNot, Step
  <2>4. Untouched(init_clocks[7]) /\ Untouched(init_clocks[8]) /\ Untouched(init_clocks[9])
    BY DEF Untouched, init_clocks, UntilExternal, Set, Or, AndNot, Step
  <2> TAKE j \in 1 .. 9
  <2>5. \/ j = 1 \/ j = 2 \/ j = 3 \/ j = 4 \/ j = 5 \/ j = 6 \/ j = 7 \/ j = 8 \/ j = 9
    OBVIOUS
  <2> QED
    BY <1>4, <2>1, <2>2, <2>3, <2>4, <2>5, Zenon
<1> QED
  BY <1>4, <1>5, <1>6

LEMMA LedIoUntouched == Len(init_led_io) = 16 /\ \A j \in 1 .. 16 : Untouched(init_led_io[j])
BY DEF init_led_io, RGB_LED, Untouched, Set, Or, Step

LEMMA ScriptUntouched ==
  \A f \in Functions : \A rate : \A i \in DOMAIN Script(f, rate) : Untouched(Script(f, rate)[i])
<1>1. \A rate : \A i \in DOMAIN uart_init(rate) : Untouched(uart_init(rate)[i])
  BY SMTT(60) DEF uart_init, enable_irq, Untouched, Set, Or, AndNot, Step
<1>2. \A i \in DOMAIN i2c_init : Untouched(i2c_init[i])
  BY DEF i2c_init, Untouched, Set, Or, Step
<1>3. \A i \in DOMAIN touch_init : Untouched(touch_init[i])
  BY DEF touch_init, enable_irq, Untouched, Set, Or, Step
<1>4. \A i \in DOMAIN spi_init : Untouched(spi_init[i])
  BY DEF spi_init, ClockPin, Untouched, Set, Or, Step
<1>5. \A i \in DOMAIN usb_init : Untouched(usb_init[i])
  BY DEF usb_init, enable_irq, Untouched, Set, Or, Until, Step
<1>6. \A n : \A i \in DOMAIN delay(n) : Untouched(delay(n)[i])
  BY DEF delay, Untouched, Set, Or, Until, Step
<1>7. \A f \in Functions : \A rate : \A i \in DOMAIN Body(f, rate) : Untouched(Body(f, rate)[i])
  BY <1>1, <1>2, <1>3, <1>4, <1>5, <1>6 DEF Body, Functions
<1>8. \A f : Untouched(Step("done", "", f, {}, {}))
  BY DEF Untouched, Step
<1> SUFFICES ASSUME NEW f \in Functions, NEW rate, NEW i \in DOMAIN Script(f, rate)
             PROVE  Untouched(Script(f, rate)[i])
  OBVIOUS
<1> DEFINE b == Body(f, rate)
<1>9. /\ DOMAIN Script(f, rate) = 1 .. Len(b) + 1 /\ Len(b) \in Nat /\ DOMAIN b = 1 .. Len(b)
      /\ Script(f, rate)[Len(b) + 1] = Step("done", "", f, {}, {})
      /\ \A j \in 1 .. Len(b) : Script(f, rate)[j] = b[j]
  BY ScriptShape, BodyType, Element
<1>10. \A j \in DOMAIN b : Untouched(b[j])
  BY <1>7
<1> HIDE DEF b
<1>11. i \in 1 .. Len(b) \/ i = Len(b) + 1
  <2>1. i \in 1 .. Len(b) + 1 /\ Len(b) \in Nat
    BY <1>9
  <2> QED
    BY <2>1
<1>12. CASE i \in 1 .. Len(b)
  BY <1>9, <1>10, <1>12
<1>13. CASE i = Len(b) + 1
  BY <1>8, <1>9, <1>13
<1> QED
  BY <1>11, <1>12, <1>13

LEMMA TurnUntouched ==
  \A red : \A pattern \in SUBSET (0 .. WordBits - 1) :
    \A i \in DOMAIN Turn(red, pattern) : Untouched(Turn(red, pattern)[i])
<1> SUFFICES ASSUME NEW red, NEW pattern \in SUBSET (0 .. WordBits - 1)
             PROVE  \A i \in DOMAIN Turn(red, pattern) : Untouched(Turn(red, pattern)[i])
  OBVIOUS
<1>1. \A i \in DOMAIN RGB_LED(red, 0, 0) : Untouched(RGB_LED(red, 0, 0)[i])
  BY DEF RGB_LED, Untouched, Set, Step
<1>2. \A i \in DOMAIN delay(100) : Untouched(delay(100)[i])
  BY DEF delay, Untouched, Set, Or, Until, Step
<1>3. Rotate(pattern) \in SUBSET (0 .. WordBits - 1)
  BY StartupAssumption DEF Rotate
<1>4. /\ fault(Rotate(pattern)) \in Seq(Steps)
      /\ \A i \in DOMAIN fault(Rotate(pattern)) : Untouched(fault(Rotate(pattern))[i])
  <2>1. \A x : Untouched(Other("fault", x))
    BY DEF Other, Step, Untouched
  <2> QED
    BY <1>3, <2>1, FaultType DEF fault
<1>5. RGB_LED(red, 0, 0) \in Seq(Steps) /\ delay(100) \in Seq(Steps)
  BY LedType, DelayType, AccessIsStep
<1> QED
  BY <1>1, <1>2, <1>4, <1>5 DEF Turn

LEMMA QuietUntouched == \A s : Quiet(s) => Untouched(s)
BY DEF Quiet, Untouched

LEMMA BoardClock ==
  /\ \A k \in 1 .. 20 : BoardSteps[k] = init_clocks[k]
  /\ \A k \in 1 .. 16 : BoardSteps[20 + k] = init_led_io[k]
<1>1. Joined(BoardSteps, init_clocks, init_led_io)
  BY Appended, ClocksType, LedIoType DEF BoardSteps
<1>2. Len(init_clocks) = 20 /\ Len(init_led_io) = 16
  BY ClocksShape, LedIoUntouched
<1> QED
  BY <1>1, <1>2 DEF Joined

LEMMA ResetPending == \A f : Pending(_reset_init, f, 11)
<1> DEFINE p == DataWords + 10
<1>1. DataWords \in Nat /\ Len(_reset_init) = DataWords + 39
  BY ResetShape, StartupAssumption
<1>2. \A i \in 1 .. 11 : _reset_init[p + i] = ClockSteps[i]
  <2> TAKE i \in 1 .. 11
  <2>1. p + i = DataWords + 1 + (9 + i) /\ 9 + i \in 1 .. 20 /\ 9 + i \in 1 .. 36
    BY <1>1
  <2>2. _reset_init[p + i] = BoardSteps[9 + i]
    BY <2>1, ResetShape
  <2> HIDE DEF p
  <2> QED
    BY <2>1, <2>2, BoardClock, ClocksShape
<1>3. ASSUME NEW i \in DOMAIN _reset_init, i \notin p + 1 .. p + 11
      PROVE  Untouched(_reset_init[i])
  <2>1. CASE i = 1
    BY <2>1, ResetShape DEF StopWatchdog, Untouched, Set, Step
  <2>2. \A do, bits : Untouched(Other(do, bits))
    BY DEF Untouched, Other, Step
  <2>3. CASE i = DataWords + 38 \/ i = DataWords + 39
    <3>1. /\ _reset_init[DataWords + 38] = Other("clear", {})
          /\ _reset_init[DataWords + 39] = Other("main", {})
      BY ResetShape
    <3> QED
      BY <2>2, <2>3, <3>1
  <2>4. CASE \E w \in 1 .. DataWords : i = 1 + w
    <3>1. PICK w \in 1 .. DataWords : _reset_init[i] = Other("copy", {w})
      BY <2>4, ResetShape
    <3> QED
      BY <2>2, <3>1
  <2>5. CASE \E j \in 1 .. 36 : i = DataWords + 1 + j
    <3>1. PICK j \in 1 .. 36 : i = DataWords + 1 + j
      BY <2>5
    <3>2. _reset_init[i] = BoardSteps[j]
      BY <3>1, ResetShape
    <3>3. j \in 1 .. 9 \/ j - 20 \in 1 .. 16
      BY <1>1, <1>3, <3>1
    <3>4. CASE j \in 1 .. 9
      BY <3>2, <3>4, BoardClock, ClocksShape
    <3>5. CASE j - 20 \in 1 .. 16
      <4>1. BoardSteps[20 + (j - 20)] = init_led_io[j - 20] /\ 20 + (j - 20) = j
        BY <3>5, BoardClock
      <4> QED
        BY <3>2, <3>5, <4>1, LedIoUntouched
    <3> QED
      BY <3>3, <3>4, <3>5
  <2> QED
    BY <2>1, <2>3, <2>4, <2>5, ResetParts
<1>4. DataWords + 3 \in 1 .. p /\ _reset_init[DataWords + 3] = Tune
  <2>1. DataWords + 3 = DataWords + 1 + 2 /\ DataWords + 3 \in 1 .. p
    BY <1>1
  <2>2. _reset_init[DataWords + 1 + 2] = BoardSteps[2] /\ BoardSteps[2] = init_clocks[2]
    BY ResetShape, BoardClock
  <2> QED
    BY <2>1, <2>2, ClocksShape
<1> TAKE f
<1>5. p \in 0 .. Len(_reset_init) - 11 /\ \A i \in 1 .. 11 : 11 - 11 + i = i
  BY <1>1
<1>6. /\ \A i \in 1 .. 11 : _reset_init[p + i] = ClockSteps[11 - 11 + i]
      /\ \A j \in DOMAIN _reset_init : j \in p + 1 .. p + 11 \/ Untouched(_reset_init[j])
      /\ \E j \in 1 .. p : _reset_init[j] = Tune
  <2> HIDE DEF p
  <2> QED
    BY <1>2, <1>3, <1>4, <1>5
<1> HIDE DEF p
<1> QED
  BY <1>5, <1>6 DEF Pending

\* The head is untouched, or it is the next step of the clock generator.
LEMMA HeadPending ==
  ASSUME NEW f, NEW s \in Seq(Steps), s # <<>>, NEW n \in 0 .. 11, Pending(s, f, n),
         ~Untouched(s[1])
  PROVE  /\ n # 0 /\ s[1] = ClockSteps[12 - n] /\ \A g : Pending(Tail(s), g, n - 1)
         /\ n = 11 => f["SIM"]["CLKDIV1"] = {16, 28}
<1>1. PICK p \in 0 .. Len(s) - n :
        /\ \A i \in 1 .. n : s[p + i] = ClockSteps[11 - n + i]
        /\ \A j \in DOMAIN s : j \in p + 1 .. p + n \/ Untouched(s[j])
        /\ n = 11 => f["SIM"]["CLKDIV1"] = {16, 28} \/ \E j \in 1 .. p : s[j] = Tune
  BY DEF Pending
<1>2. Len(s) \in Nat /\ 1 \in DOMAIN s /\ DOMAIN s = 1 .. Len(s)
  BY HeadType
<1>3. p = 0 /\ n # 0
  BY <1>1, <1>2
<1>4. s[1] = ClockSteps[12 - n]
  <2>1. 1 \in 1 .. n /\ 0 + 1 = 1 /\ 11 - n + 1 = 12 - n
    BY <1>3
  <2> QED
    BY <1>1, <1>3, <2>1
<1>5. /\ \A i \in 1 .. Len(s) - 1 : Tail(s)[i] = s[i + 1]
      /\ Len(Tail(s)) = Len(s) - 1 /\ DOMAIN Tail(s) = 1 .. Len(s) - 1
  BY <1>2, HeadType
<1>6. \A i \in 1 .. n - 1 : Tail(s)[0 + i] = ClockSteps[11 - (n - 1) + i]
  <2> TAKE i \in 1 .. n - 1
  <2>1. i + 1 \in 1 .. n /\ i \in 1 .. Len(s) - 1 /\ 0 + i = i /\ 0 + (i + 1) = i + 1
        /\ 11 - (n - 1) + i = 11 - n + (i + 1)
    BY <1>1, <1>2, <1>3
  <2> QED
    BY <1>1, <1>3, <1>5, <2>1
<1>7. \A j \in DOMAIN Tail(s) : j \in 0 + 1 .. 0 + (n - 1) \/ Untouched(Tail(s)[j])
  <2> TAKE j \in DOMAIN Tail(s)
  <2>1. j + 1 \in DOMAIN s /\ (j + 1 \in 0 + 1 .. 0 + n => j \in 0 + 1 .. 0 + (n - 1)) /\ Tail(s)[j] = s[j + 1]
    BY <1>2, <1>5
  <2> QED
    BY <1>1, <1>3, <2>1
<1>8. 0 \in 0 .. Len(Tail(s)) - (n - 1) /\ n - 1 # 11
  BY <1>1, <1>2, <1>3, <1>5
<1>9. \A g : Pending(Tail(s), g, n - 1)
  BY <1>6, <1>7, <1>8 DEF Pending
<1> QED
  BY <1>1, <1>3, <1>4, <1>9

LEMMA TailPending ==
  ASSUME NEW f, NEW g, NEW s \in Seq(Steps), s # <<>>, NEW n \in 0 .. 11, Pending(s, f, n),
         Untouched(s[1]),
         f["SIM"]["CLKDIV1"] = {16, 28} \/ s[1] = Tune => g["SIM"]["CLKDIV1"] = {16, 28}
  PROVE  Pending(Tail(s), g, n)
<1>1. PICK p \in 0 .. Len(s) - n :
        /\ \A i \in 1 .. n : s[p + i] = ClockSteps[11 - n + i]
        /\ \A j \in DOMAIN s : j \in p + 1 .. p + n \/ Untouched(s[j])
        /\ n = 11 => f["SIM"]["CLKDIV1"] = {16, 28} \/ \E j \in 1 .. p : s[j] = Tune
  BY DEF Pending
<1>2. /\ Len(s) \in Nat \ {0} /\ DOMAIN s = 1 .. Len(s)
      /\ \A i \in 1 .. Len(s) - 1 : Tail(s)[i] = s[i + 1]
      /\ Len(Tail(s)) = Len(s) - 1 /\ DOMAIN Tail(s) = 1 .. Len(s) - 1
  BY HeadType
<1>3. n = 0 \/ p # 0
  <2> SUFFICES ASSUME p = 0, n # 0 PROVE FALSE
    OBVIOUS
  <2>1. 1 \in 1 .. n /\ 0 + 1 = 1 /\ 11 - n + 1 \in 1 .. 11
    OBVIOUS
  <2>2. s[1] = ClockSteps[11 - n + 1]
    BY <1>1, <2>1
  <2> QED
    BY <2>1, <2>2, ClockStepFields DEF Untouched
<1> DEFINE q == IF p = 0 THEN 0 ELSE p - 1
<1>4. q \in 0 .. Len(Tail(s)) - n /\ q \in Nat /\ (n # 0 => p = q + 1)
  BY <1>1, <1>2, <1>3
<1>5. \A i \in 1 .. n : Tail(s)[q + i] = ClockSteps[11 - n + i]
  <2> TAKE i \in 1 .. n
  <2>1. q + i \in 1 .. Len(s) - 1 /\ q + i + 1 = p + i
    BY <1>1, <1>2, <1>4
  <2> HIDE DEF q
  <2> QED
    BY <1>1, <1>2, <2>1
<1>6. \A j \in DOMAIN Tail(s) : j \in q + 1 .. q + n \/ Untouched(Tail(s)[j])
  <2> TAKE j \in DOMAIN Tail(s)
  <2>1. j + 1 \in DOMAIN s /\ (j + 1 \in p + 1 .. p + n => j \in q + 1 .. q + n) /\ Tail(s)[j] = s[j + 1]
    BY <1>1, <1>2, <1>4
  <2> QED
    BY <1>1, <2>1
<1>7. n = 11 => g["SIM"]["CLKDIV1"] = {16, 28} \/ \E j \in 1 .. q : Tail(s)[j] = Tune
  <2> SUFFICES ASSUME n = 11, g["SIM"]["CLKDIV1"] # {16, 28} PROVE \E j \in 1 .. q : Tail(s)[j] = Tune
    OBVIOUS
  <2>1. PICK j \in 1 .. p : s[j] = Tune
    BY <1>1
  <2>2. j # 1
    BY <2>1
  <2>3. j - 1 \in 1 .. q /\ j - 1 \in 1 .. Len(s) - 1 /\ j - 1 + 1 = j
    BY <1>1, <1>2, <1>4, <2>2
  <2>4. Tail(s)[j - 1] = s[j]
    BY <1>2, <2>3
  <2> QED
    BY <2>1, <2>3, <2>4
<1> HIDE DEF q
<1> QED
  BY <1>4, <1>5, <1>6, <1>7 DEF Pending

LEMMA PushPending ==
  ASSUME NEW f, NEW g, NEW u \in Seq(Steps), NEW h \in Seq(Steps), NEW s \in Seq(Steps), Joined(u, h, s),
         \A j \in 1 .. Len(h) : Untouched(h[j]), NEW n \in 0 .. 11, Pending(s, f, n),
         g["SIM"]["CLKDIV1"] = f["SIM"]["CLKDIV1"]
  PROVE  Pending(u, g, n)
<1>1. PICK p \in 0 .. Len(s) - n :
        /\ \A i \in 1 .. n : s[p + i] = ClockSteps[11 - n + i]
        /\ \A j \in DOMAIN s : j \in p + 1 .. p + n \/ Untouched(s[j])
        /\ n = 11 => f["SIM"]["CLKDIV1"] = {16, 28} \/ \E j \in 1 .. p : s[j] = Tune
  BY DEF Pending
<1>2. /\ Len(s) \in Nat /\ DOMAIN s = 1 .. Len(s) /\ Len(h) \in Nat
      /\ Len(u) = Len(h) + Len(s) /\ DOMAIN u = 1 .. Len(u)
      /\ \A j \in 1 .. Len(h) : u[j] = h[j]
      /\ \A j \in 1 .. Len(s) : u[Len(h) + j] = s[j]
  BY DEF Joined
<1> DEFINE q == Len(h) + p
<1>3. p \in Nat /\ p + n <= Len(s)
  BY <1>1, <1>2
<1>4. q \in 0 .. Len(u) - n /\ q \in Nat
  BY <1>1, <1>2
<1>5. \A i \in 1 .. n : u[q + i] = ClockSteps[11 - n + i]
  <2> TAKE i \in 1 .. n
  <2>1. p + i \in 1 .. Len(s) /\ q + i = Len(h) + (p + i)
    <3>1. Len(h) \in Nat /\ Len(s) \in Nat
      BY <1>2
    <3> QED
      BY <1>3, <3>1
  <2> HIDE DEF q
  <2> QED
    BY <1>1, <1>2, <2>1
<1>6. \A j \in DOMAIN u : j \in q + 1 .. q + n \/ Untouched(u[j])
  <2> TAKE j \in DOMAIN u
  <2>1. CASE j <= Len(h)
    BY <1>2, <2>1
  <2>2. CASE j > Len(h)
    <3>1. /\ j - Len(h) \in 1 .. Len(s) /\ Len(h) + (j - Len(h)) = j
          /\ j - Len(h) \in p + 1 .. p + n => j \in q + 1 .. q + n
      BY <1>1, <1>2, <2>2, SMTT(60)
    <3>2. u[j] = s[j - Len(h)]
      BY <1>2, <3>1
    <3> QED
      BY <1>1, <1>2, <3>1, <3>2
  <2> QED
    BY <1>2, <2>1, <2>2
<1>7. n = 11 => g["SIM"]["CLKDIV1"] = {16, 28} \/ \E j \in 1 .. q : u[j] = Tune
  <2> SUFFICES ASSUME n = 11, g["SIM"]["CLKDIV1"] # {16, 28} PROVE \E j \in 1 .. q : u[j] = Tune
    OBVIOUS
  <2>1. PICK j \in 1 .. p : s[j] = Tune
    BY <1>1
  <2>2. j \in 1 .. Len(s) /\ Len(h) + j \in 1 .. q
    <3>1. Len(h) \in Nat /\ Len(s) \in Nat /\ j \in 1 .. p
      BY <1>2, <2>1
    <3> QED
      BY <1>3, <3>1
  <2> QED
    BY <1>2, <2>1, <2>2
<1> HIDE DEF q
<1> QED
  BY <1>4, <1>5, <1>6, <1>7 DEF Pending

\* The mode changes with the step it waits for, and a store does not change it.
LEMMA StatusFacts ==
  /\ StatusAt(11) = {{4}} /\ StatusAt(10) = {{4}}
  /\ \A n \in 6 .. 9 : StatusAt(n) = {{4}, {1, 4}, {1}, {1, 3, 4}, {1, 3}}
  /\ StatusAt(5) = {{1}, {1, 3}} /\ StatusAt(4) = {{1, 3}}
  /\ StatusAt(3) = {{1, 3}, {1, 3, 5, 6}} /\ StatusAt(2) = {{1, 3, 5, 6}}
  /\ StatusAt(1) = {{1, 3, 5, 6}, {1, 2, 3, 5, 6}} /\ StatusAt(0) = {{1, 2, 3, 5, 6}}
BY DEF StatusAt

LEMMA ClockNames ==
  /\ "MCG" \in DOMAIN Instances /\ "SIM" \in DOMAIN Instances
  /\ \A r \in {"C1", "C2", "C4", "C5", "C6", "S"} : r \in DOMAIN Instances["MCG"] /\ Instances["MCG"][r] = 0 .. 7
  /\ "CLKDIV1" \in DOMAIN Instances["SIM"] /\ Instances["SIM"]["CLKDIV1"] = 0 .. 31
BY InstanceNames, InstanceBits DEF Bytewise

LEMMA ClockStore ==
  ASSUME Registered(regs), todo \in Seq(Steps), Assign \/ SetBits \/ ClearBits, NEW n \in 1 .. 11,
         todo[1] = ClockSteps[12 - n], Generator(regs, n), regs["SIM"]["CLKDIV1"] = {16, 28}
  PROVE  Generator(regs', n - 1) /\ Dividers(regs', n - 1)
<1> DEFINE r == todo[1].reg
<1>1. /\ todo[1].of = "MCG" /\ todo[1].do # "while"
      /\ ~Volatile("MCG", r) => regs'["MCG"][r] = Outcome(todo[1], regs["MCG"][r]) \cap Instances["MCG"][r]
      /\ \A m \in DOMAIN Instances : \A q \in DOMAIN Instances[m] :
           (m # "MCG" \/ q # r) /\ (m # "UART0" \/ q # "S1") => regs'[m][q] = regs[m][q]
  <2>1. todo[1].of = "MCG"
    BY ClockStepFields, SMTT(60)
  <2> QED
    BY <2>1, StoreOutcome
<1>2. Dividers(regs', n - 1)
  BY <1>1, ClockNames DEF Dividers
<1>3. /\ r # "S" => regs'["MCG"][r] = Outcome(todo[1], regs["MCG"][r]) \cap Instances["MCG"][r]
      /\ \A q \in {"C1", "C2", "C4", "C5", "C6", "S"} : q # r => regs'["MCG"][q] = regs["MCG"][q]
  BY <1>1, ClockNames DEF Volatile
<1>4. \/ n = 1 \/ n = 2 \/ n = 3 \/ n = 4 \/ n = 5 \/ n = 6 \/ n = 7 \/ n = 8 \/ n = 9 \/ n = 10 \/ n = 11
  OBVIOUS
<1>5. CASE n = 1 \/ n = 3 \/ n = 5 \/ n = 6
  BY <1>1, <1>5, ClockStepFields, SMTT(60) DEF Until, Step
<1>6. CASE n = 11
  <2>1. todo[1] = Set("MCG", "C2", {2, 5})
    BY <1>6, ClockStepFields
  <2>2. todo[1].do = "=" /\ todo[1].bits = {2, 5} /\ r = "C2"
    BY <2>1 DEF Set, Step
  <2>3. regs'["MCG"]["C2"] = {2, 5}
    BY <1>3, <2>2, ClockNames DEF Outcome
  <2> QED
    BY <1>2, <1>3, <1>6, <2>2, <2>3, StatusFacts DEF Generator
<1>7. CASE n = 10
  <2>1. todo[1] = Set("MCG", "C1", {3, 4, 7})
    BY <1>7, ClockStepFields
  <2>2. todo[1].do = "=" /\ todo[1].bits = {3, 4, 7} /\ r = "C1"
    BY <2>1 DEF Set, Step
  <2>3. regs'["MCG"]["C1"] = {3, 4, 7}
    BY <1>3, <2>2, ClockNames DEF Outcome
  <2> QED
    BY <1>2, <1>3, <1>7, <2>2, <2>3, StatusFacts DEF Generator
<1>8. CASE n = 9
  <2>1. todo[1] = AndNot("MCG", "C4", {5, 6, 7})
    BY <1>8, ClockStepFields
  <2>2. todo[1].do = "&=~" /\ todo[1].bits = {5, 6, 7} /\ r = "C4"
    BY <2>1 DEF AndNot, Step
  <2>3. regs["MCG"]["C4"] = {0}
    BY DEF Generator
  <2>4. regs'["MCG"]["C4"] = {0}
    BY <1>3, <2>2, <2>3, ClockNames DEF Outcome
  <2> QED
    BY <1>2, <1>3, <1>8, <2>2, <2>4, StatusFacts DEF Generator
<1>9. CASE n = 8
  <2>1. todo[1] = Set("MCG", "C5", {0})
    BY <1>9, ClockStepFields
  <2>2. todo[1].do = "=" /\ todo[1].bits = {0} /\ r = "C5"
    BY <2>1 DEF Set, Step
  <2>3. regs'["MCG"]["C5"] = {0}
    BY <1>3, <2>2, ClockNames DEF Outcome
  <2> QED
    BY <1>2, <1>3, <1>9, <2>2, <2>3, StatusFacts DEF Generator
<1>10. CASE n = 7
  <2>1. todo[1] = Set("MCG", "C6", {})
    BY <1>10, ClockStepFields
  <2>2. todo[1].do = "=" /\ todo[1].bits = {} /\ r = "C6"
    BY <2>1 DEF Set, Step
  <2>3. regs'["MCG"]["C6"] = {}
    BY <1>3, <2>2, ClockNames DEF Outcome
  <2> QED
    BY <1>2, <1>3, <1>10, <2>2, <2>3, StatusFacts DEF Generator
<1>11. CASE n = 4
  <2>1. todo[1] = Set("MCG", "C6", {6})
    BY <1>11, ClockStepFields
  <2>2. todo[1].do = "=" /\ todo[1].bits = {6} /\ r = "C6"
    BY <2>1 DEF Set, Step
  <2>3. regs'["MCG"]["C6"] = {6}
    BY <1>3, <2>2, ClockNames DEF Outcome
  <2> QED
    BY <1>2, <1>3, <1>11, <2>2, <2>3, StatusFacts DEF Generator
<1>12. CASE n = 2
  <2>1. todo[1] = Set("MCG", "C1", {3, 4})
    BY <1>12, ClockStepFields
  <2>2. todo[1].do = "=" /\ todo[1].bits = {3, 4} /\ r = "C1"
    BY <2>1 DEF Set, Step
  <2>3. regs'["MCG"]["C1"] = {3, 4}
    BY <1>3, <2>2, ClockNames DEF Outcome
  <2> QED
    BY <1>2, <1>3, <1>12, <2>2, <2>3, StatusFacts DEF Generator
<1> QED
  BY <1>4, <1>5, <1>6, <1>7, <1>8, <1>9, <1>10, <1>11, <1>12

LEMMA ClockWait ==
  ASSUME todo \in Seq(Steps), LoopEnds, NEW n \in 1 .. 11, todo[1] = ClockSteps[12 - n],
         Generator(regs, n), regs["SIM"]["CLKDIV1"] = {16, 28}
  PROVE  Generator(regs', n - 1) /\ Dividers(regs', n - 1)
<1>1. /\ todo[1].do = "while" /\ todo[1].of = "MCG" /\ regs' = regs
      /\ regs["MCG"][todo[1].reg] \cap todo[1].bits = todo[1].until
  BY HeadType, ClockStepFields, SMTT(60) DEF LoopEnds, NextIs, Old
<1>2. \/ n = 1 \/ n = 2 \/ n = 3 \/ n = 4 \/ n = 5 \/ n = 6 \/ n = 7 \/ n = 8 \/ n = 9 \/ n = 10 \/ n = 11
  OBVIOUS
<1>3. CASE n \in {2, 4, 7, 8, 9, 10, 11}
  BY <1>1, <1>2, <1>3, ClockStepFields, SMTT(60) DEF Set, AndNot, Step
<1>4. CASE n = 6
  <2>1. regs["MCG"]["S"] \cap {4} = {}
    BY <1>1, <1>4, ClockStepFields, SMTT(60) DEF Until, Step
  <2> QED
    BY <1>1, <1>4, <2>1, StatusFacts, SMTT(60) DEF Generator, Dividers
<1>5. CASE n = 5
  <2>1. regs["MCG"]["S"] \cap {2, 3} = {3}
    BY <1>1, <1>5, ClockStepFields, SMTT(60) DEF Until, Step
  <2> QED
    BY <1>1, <1>5, <2>1, StatusFacts, SMTT(60) DEF Generator, Dividers
<1>6. CASE n = 3
  <2>1. todo[1] = Until("MCG", "S", {6}, {6})
    BY <1>6, ClockStepFields
  <2>2. 6 \in regs["MCG"]["S"]
    BY <1>1, <2>1 DEF Until, Step
  <2>3. regs["MCG"]["S"] = {1, 3, 5, 6}
    BY <1>6, <2>2, StatusFacts DEF Generator
  <2> QED
    BY <1>1, <1>6, <2>3, StatusFacts DEF Generator, Dividers
<1>7. CASE n = 1
  <2>1. regs["MCG"]["S"] \cap {2, 3} = {2, 3}
    BY <1>1, <1>7, ClockStepFields, SMTT(60) DEF Until, Step
  <2> QED
    BY <1>1, <1>7, <2>1, StatusFacts, SMTT(60) DEF Generator, Dividers
<1> QED
  BY <1>2, <1>3, <1>4, <1>5, <1>6, <1>7

\* The clock that the control registers ask for, and the one that the status shows.
LEMMA SelectedIs ==
  ASSUME NEW n \in 0 .. 11, Generator(regs, n)
  PROVE  Selected = IF n >= 10 THEN 0 ELSE IF n >= 2 THEN 2 ELSE 3
<1>1. MCG_C1.CLKS = 6 .. 7 /\ MCG_C6.PLLS = {6}
  BY DEF MCG_C1, MCG_C6
<1>2. /\ {2} \cap (6 .. 7) = {} /\ {3, 4, 7} \cap (6 .. 7) = {7} /\ {3, 4} \cap (6 .. 7) = {}
  OBVIOUS
<1>3. /\ Get({2}, 6 .. 7) = 0 /\ Get({3, 4, 7}, 6 .. 7) = 2 /\ Get({3, 4}, 6 .. 7) = 0
  BY <1>2, ClockNumbers
<1>4. Get(Mcg("C1"), 6 .. 7) = IF n >= 10 THEN 0 ELSE IF n >= 2 THEN 2 ELSE 0
  BY <1>3 DEF Generator, Mcg
<1>5. Has(Mcg("C6"), {6}) <=> n < 4
  BY DEF Generator, Mcg, Has
<1> QED
  BY <1>1, <1>4, <1>5 DEF Selected

LEMMA StatusNumber ==
  \A w : /\ 2 \in w /\ 3 \in w => Get(w, MCG_S.CLKST) = 3
         /\ 2 \notin w /\ 3 \in w => Get(w, MCG_S.CLKST) = 2
         /\ 2 \notin w /\ 3 \notin w => Get(w, MCG_S.CLKST) = 0
<1> TAKE w
<1>1. 2 .. 3 = {2, 3} /\ MCG_S.CLKST = 2 .. 3
  BY DEF MCG_S
<1>2. /\ 2 \in w /\ 3 \in w => w \cap (2 .. 3) = {2, 3}
      /\ 2 \notin w /\ 3 \in w => w \cap (2 .. 3) = {3}
      /\ 2 \notin w /\ 3 \notin w => w \cap (2 .. 3) = {}
  BY <1>1
<1> QED
  BY <1>1, <1>2, ClockNumbers

LEMMA ClockHardware ==
  ASSUME Registered(regs), NEW n \in 0 .. 11, Generator(regs, n), Hardware
  PROVE  Generator(regs', n) /\ regs'["SIM"]["CLKDIV1"] = regs["SIM"]["CLKDIV1"]
<1> DEFINE status == regs["MCG"]["S"]
<1>1. /\ regs'["SIM"]["CLKDIV1"] = regs["SIM"]["CLKDIV1"]
      /\ \A q \in {"C1", "C2", "C4", "C5", "C6"} : regs'["MCG"][q] = regs["MCG"][q]
  BY HardwareWords, ClockNames DEF Volatile
<1>2. /\ \/ n = 0 \/ n = 1 \/ n = 2 \/ n = 3 \/ n = 4 \/ n = 5
         \/ n \in 6 .. 9 \/ n = 10 \/ n = 11
      /\ status \in StatusAt(n)
  BY DEF Generator
<1>3. regs'["MCG"]["S"] \in StatusAt(n) => Generator(regs', n)
  BY <1>1 DEF Generator
<1>4. MCG_S.OSCINIT0 = {1} /\ MCG_S.IREFST = {4} /\ MCG_S.LOCK0 \cup MCG_S.PLLST = {5, 6} /\ MCG_S.LOCK0 = {6}
  BY DEF MCG_S
<1>5. /\ External => n <= 9 
      /\ Has(Mcg("C6"), MCG_C6.PLLS) => n <= 3
  BY DEF External, Has, Mcg, MCG_C1, MCG_C6, Generator
<1>6. CASE OscillatorStarts
  <2>1. External /\ 1 \notin status /\ Becomes("MCG", "S", {1}, {})
    BY <1>4, <1>6 DEF OscillatorStarts, OscillatorOn, Has, Mcg
  <2>2. regs'["MCG"]["S"] = status \cup {1}
    BY <2>1, ClockNames, BecomesWords
  <2>3. n \in 6 .. 9 /\ status = {4}
    BY <1>2, <1>5, <2>1, StatusFacts
  <2> QED
    BY <1>1, <1>3, <2>2, <2>3, StatusFacts
<1>7. CASE ReferenceFollows
  <2>1. External /\ 4 \in status /\ 1 \in status /\ Becomes("MCG", "S", {}, {4})
    BY <1>4, <1>7 DEF ReferenceFollows, OscillatorOn, Has, Mcg
  <2>2. regs'["MCG"]["S"] = status \ {4}
    BY <2>1, ClockNames, BecomesWords
  <2>3. n \in 6 .. 9 /\ status \in {{1, 4}, {1, 3, 4}}
    BY <1>2, <1>5, <2>1, StatusFacts
  <2> QED
    BY <1>1, <1>3, <2>2, <2>3, StatusFacts
<1>8. CASE PllLocks
  <2>1. n <= 3 /\ 6 \notin status /\ Becomes("MCG", "S", {5, 6}, {})
    BY <1>4, <1>5, <1>8 DEF PllLocks, Has, Mcg
  <2>2. regs'["MCG"]["S"] = status \cup {5, 6}
    BY <2>1, ClockNames, BecomesWords
  <2>3. n = 3 /\ status = {1, 3}
    BY <1>2, <2>1, StatusFacts
  <2> QED
    BY <1>1, <1>3, <2>2, <2>3, StatusFacts
<1>9. CASE ClockFollows
  <2> DEFINE w == (status \ MCG_S.CLKST) \cup Put(MCG_S.CLKST, Selected)
  <2>1. regs'["MCG"]["S"] = w
    <3>1. regs' = Write(regs, "MCG", "S", w)
      BY <1>9 DEF ClockFollows, Write
    <3>2. w \subseteq Instances["MCG"]["S"]
      BY ClockNames, PutType DEF Registered, MCG_S
    <3> HIDE DEF w
    <3> QED
      BY <3>1, <3>2, ClockNames, RegisterStored
  <2>2. /\ Selected = IF n >= 10 THEN 0 ELSE IF n >= 2 THEN 2 ELSE 3
        /\ Get(status, MCG_S.CLKST) # Selected /\ (Selected = 2 => 1 \in status)
    BY <1>4, <1>9, SelectedIs DEF ClockFollows, Mcg, OscillatorOn, Has
  <2>3. \/ n \in 5 .. 9 /\ 1 \in status /\ 3 \notin status
        \/ n = 1 /\ status = {1, 3, 5, 6}
    <3>1. CASE n \in {10, 11}
      BY <2>2, <3>1, <1>2, StatusFacts, StatusNumber
    <3>2. CASE n \in 6 .. 9
      <4>1. 2 \notin status
        BY <1>2, <3>2, StatusFacts
      <4> QED
        BY <2>2, <3>2, <4>1, StatusNumber
    <3>3. CASE n = 5
      <4>1. 2 \notin status
        BY <1>2, <3>3, StatusFacts
      <4> QED
        BY <2>2, <3>3, <4>1, StatusNumber
    <3>4. CASE n \in {2, 3, 4}
      <4>1. 2 \notin status /\ 3 \in status
        BY <1>2, <3>4, StatusFacts
      <4> QED
        BY <2>2, <3>4, <4>1, StatusNumber
    <3>5. CASE n = 1
      <4>1. status = {1, 3, 5, 6} \/ (2 \in status /\ 3 \in status)
        BY <1>2, <3>5, StatusFacts
      <4> QED
        BY <2>2, <3>5, <4>1, StatusNumber
    <3>6. CASE n = 0
      <4>1. 2 \in status /\ 3 \in status
        BY <1>2, <3>6, StatusFacts
      <4> QED
        BY <2>2, <3>6, <4>1, StatusNumber
    <3> QED
      BY <1>2, <3>1, <3>2, <3>3, <3>4, <3>5, <3>6
  <2>4. /\ MCG_S.CLKST = {2, 3} /\ Put(MCG_S.CLKST, 2) = {3} /\ Put(MCG_S.CLKST, 3) = {2, 3}
    <3>1. MCG_S.CLKST = 2 .. 3 /\ 2 .. 3 = {2, 3}
      BY DEF MCG_S
    <3> QED
      BY <3>1, ClockFields
  <2>5. CASE n \in 5 .. 9 /\ 1 \in status /\ 3 \notin status
    <3>1. w = status \cup {3}
      <4>1. 2 \notin status
        BY <1>2, <2>5, StatusFacts
      <4> QED
        BY <2>2, <2>4, <2>5, <4>1
    <3>2. (n \in 6 .. 9 /\ status \in {{1, 4}, {1}}) \/ (n = 5 /\ status = {1})
      <4>1. n \in 6 .. 9 => status \in {{1, 4}, {1}}
        BY <1>2, <2>5, StatusFacts
      <4>2. n = 5 => status = {1}
        BY <1>2, <2>5, StatusFacts
      <4>3. n \in 6 .. 9 \/ n = 5
        BY <2>5
      <4> QED
        BY <4>1, <4>2, <4>3
    <3> HIDE DEF w
    <3> QED
      BY <1>1, <1>3, <2>1, <3>1, <3>2, StatusFacts
  <2>6. CASE n = 1 /\ status = {1, 3, 5, 6}
    <3>1. w = {1, 2, 3, 5, 6}
      BY <2>2, <2>4, <2>6
    <3> HIDE DEF w
    <3> QED
      BY <1>1, <1>3, <2>1, <2>6, <3>1, StatusFacts
  <2> QED
    BY <2>3, <2>5, <2>6
<1>10. CASE TimerEnds \/ CharacterSent \/ UsbResetEnds
  <2>1. PICK m \in {"LPTMR0", "UART0", "USB0"} : \E r \in DOMAIN Instances[m] : \E on, off :
          on \subseteq Instances[m][r] /\ Becomes(m, r, on, off)
    <3>1. /\ LPTMR_CSR.TCF \subseteq Instances["LPTMR0"]["CSR"] /\ "CSR" \in DOMAIN Instances["LPTMR0"]
          /\ UARTLP_S1.TDRE \subseteq Instances["UART0"]["S1"] /\ "S1" \in DOMAIN Instances["UART0"]
          /\ {} \subseteq Instances["USB0"]["USBTRC0"] /\ "USBTRC0" \in DOMAIN Instances["USB0"]
      BY InstanceNames, InstanceBits DEF Bytewise, LPTMR_CSR, UARTLP_S1
    <3> QED
      BY <1>10, <3>1 DEF TimerEnds, CharacterSent, UsbResetEnds
  <2>2. PICK r \in DOMAIN Instances[m] : \E on, off :
          on \subseteq Instances[m][r] /\ Becomes(m, r, on, off)
    BY <2>1
  <2>3. m \in DOMAIN Instances
    BY InstanceNames
  <2>4. regs'["MCG"]["S"] = status
    BY <2>2, <2>3, BecomesWords, ClockNames
  <2> QED
    BY <1>1, <1>2, <1>3, <2>4
<1> QED
  BY <1>6, <1>7, <1>8, <1>9, <1>10 DEF Hardware

\* A store of a step that leaves the clock generator alone.
LEMMA OtherStore ==
  ASSUME Registered(regs), todo \in Seq(Steps), Assign \/ SetBits \/ ClearBits, Untouched(todo[1]),
         NEW n \in 0 .. 11, Generator(regs, n), Dividers(regs, n)
  PROVE  /\ Generator(regs', n) /\ Dividers(regs', n)
         /\ regs["SIM"]["CLKDIV1"] = {16, 28} \/ todo[1] = Tune => regs'["SIM"]["CLKDIV1"] = {16, 28}
<1> DEFINE m == todo[1].of
<1> DEFINE r == todo[1].reg
<1>1. /\ m # "MCG" /\ todo[1].do \in {"=", "|=", "&=~"}
      /\ ~Volatile(m, r) => regs'[m][r] = Outcome(todo[1], regs[m][r]) \cap Instances[m][r]
      /\ \A k \in DOMAIN Instances : \A q \in DOMAIN Instances[k] :
           (k # m \/ q # r) /\ (k # "UART0" \/ q # "S1") => regs'[k][q] = regs[k][q]
  BY StoreOutcome DEF Untouched
<1>2. \A q \in {"C1", "C2", "C4", "C5", "C6", "S"} : regs'["MCG"][q] = regs["MCG"][q]
  BY <1>1, ClockNames
<1>3. Generator(regs', n)
  BY <1>2 DEF Generator
<1>4. CASE m = "SIM" /\ r = "CLKDIV1"
  <2>1. todo[1] = Tune
    BY <1>1, <1>4 DEF Untouched
  <2>2. Outcome(todo[1], regs[m][r]) = {16, 28}
    BY <2>1 DEF Tune, Set, Step, Outcome
  <2>3. regs'["SIM"]["CLKDIV1"] = {16, 28}
    BY <1>1, <1>4, <2>2, ClockNames DEF Volatile
  <2> QED
    BY <1>3, <2>3 DEF Dividers
<1>5. CASE m # "SIM" \/ r # "CLKDIV1"
  <2>1. regs'["SIM"]["CLKDIV1"] = regs["SIM"]["CLKDIV1"]
    BY <1>1, <1>5, ClockNames
  <2>2. todo[1] # Tune
    BY <1>5 DEF Tune, Set, Step
  <2> QED
    BY <1>3, <2>1, <2>2 DEF Dividers
<1> QED
  BY <1>4, <1>5

LEMMA ResetClock == Generator(ResetRegisters, 11) /\ Dividers(ResetRegisters, 11)
BY ResetWords, ClockNames, StatusFacts DEF ResetWord, Generator, Dividers

\* Every step leaves the clock generator where it is, goes to the next place, or is a reset.
LEMMA ProgressMoves ==
  ASSUME TypeInv, Order, NEW n \in 0 .. 11, ProgressAt(n), [Next]_vars
  PROVE  \/ ProgressAt(n)'
         \/ n # 0 /\ ProgressAt(n - 1)'
         \/ ProgressAt(11)' /\ todo' = _reset_init
<1> DEFINE Moves == ProgressAt(n)' \/ (n # 0 /\ ProgressAt(n - 1)') \/ (ProgressAt(11)' /\ todo' = _reset_init)
<1>1. /\ todo \in Seq(Steps) /\ Registered(regs) /\ Generator(regs, n) /\ Dividers(regs, n)
      /\ task = "boot" => Pending(todo, regs, n)
      /\ task # "boot" => \A i \in DOMAIN todo : Untouched(todo[i])
      /\ task = "main" => n = 0
  BY DEF TypeInv, ProgressAt
\* A step that leaves the clock generator alone.
<1>2. ASSUME todo # <<>>, todo' = Tail(todo), task' = task, Untouched(todo[1]),
             Generator(regs', n), Dividers(regs', n),
             regs["SIM"]["CLKDIV1"] = {16, 28} \/ todo[1] = Tune => regs'["SIM"]["CLKDIV1"] = {16, 28}
      PROVE  Moves
  <2>1. task = "boot" => Pending(todo', regs', n)
    BY <1>1, <1>2, TailPending
  <2>2. task # "boot" => \A i \in DOMAIN todo' : Untouched(todo'[i])
    BY <1>1, <1>2, HeadType
  <2> QED
    BY <1>1, <1>2, <2>1, <2>2 DEF ProgressAt
\* The next step of the clock generator.
<1>3. ASSUME todo # <<>>, todo' = Tail(todo), task' = task, ~Untouched(todo[1]),
             n # 0 /\ todo[1] = ClockSteps[12 - n] /\ (n < 11 \/ regs["SIM"]["CLKDIV1"] = {16, 28}) =>
               Generator(regs', n - 1) /\ Dividers(regs', n - 1)
      PROVE  Moves
  <2>1. task = "boot"
    <3>1. 1 \in DOMAIN todo
      BY <1>1, <1>3, HeadType
    <3> QED
      BY <1>1, <1>3, <3>1
  <2>2. /\ n # 0 /\ todo[1] = ClockSteps[12 - n] /\ Pending(Tail(todo), regs', n - 1)
        /\ n = 11 => regs["SIM"]["CLKDIV1"] = {16, 28}
    BY <1>1, <1>3, <2>1, HeadPending
  <2>3. Generator(regs', n - 1) /\ Dividers(regs', n - 1) /\ n - 1 \in 0 .. 11
    BY <1>3, <2>2
  <2> QED
    BY <1>3, <2>1, <2>2, <2>3 DEF ProgressAt
<1>4. ASSUME todo # <<>>, Head(todo).do \notin Accesses
      PROVE  Untouched(todo[1])
  <2>1. 1 \in DOMAIN todo /\ Head(todo) = todo[1]
    BY <1>1, <1>4, HeadType
  <2> SUFFICES ASSUME ~Untouched(todo[1]) PROVE FALSE
    OBVIOUS
  <2>2. task = "boot" /\ Pending(todo, regs, n)
    BY <1>1, <2>1
  <2>3. n # 0 /\ todo[1] = ClockSteps[12 - n]
    BY <1>1, <1>4, <2>2, HeadPending
  <2>4. 12 - n \in 1 .. 11
    BY <2>3
  <2> QED
    BY <1>4, <2>1, <2>3, <2>4, ClockStepFields
<1>5. n < 11 => regs["SIM"]["CLKDIV1"] = {16, 28}
  BY <1>1 DEF Dividers
<1>6. CASE Assign \/ SetBits \/ ClearBits
  <2>1. todo # <<>> /\ todo' = Tail(todo) /\ task' = task
    BY <1>1, <1>6, StoreOutcome DEF Assign, SetBits, ClearBits, Store
  <2>2. CASE Untouched(todo[1])
    BY <1>1, <1>2, <1>6, <2>1, <2>2, OtherStore
  <2>3. CASE ~Untouched(todo[1])
    <3>1. ASSUME n # 0, todo[1] = ClockSteps[12 - n], n < 11 \/ regs["SIM"]["CLKDIV1"] = {16, 28}
          PROVE  Generator(regs', n - 1) /\ Dividers(regs', n - 1)
      <4>1. n \in 1 .. 11 /\ regs["SIM"]["CLKDIV1"] = {16, 28}
        BY <1>5, <3>1
      <4> QED
        BY <1>1, <1>6, <3>1, <4>1, ClockStore
    <3> QED
      BY <1>3, <2>1, <2>3, <3>1
  <2> QED
    BY <2>2, <2>3
<1>7. CASE LoopEnds
  <2>1. todo # <<>> /\ todo' = Tail(todo) /\ task' = task /\ regs' = regs /\ todo[1].do = "while"
    BY <1>1, <1>7, HeadType DEF LoopEnds, NextIs
  <2>2. CASE Untouched(todo[1])
    <3>1. todo[1] # Tune
      BY <2>1 DEF Tune, Set, Step
    <3> QED
      BY <1>1, <1>2, <2>1, <2>2, <3>1
  <2>3. CASE ~Untouched(todo[1])
    <3>1. ASSUME n # 0, todo[1] = ClockSteps[12 - n], n < 11 \/ regs["SIM"]["CLKDIV1"] = {16, 28}
          PROVE  Generator(regs', n - 1) /\ Dividers(regs', n - 1)
      <4>1. n \in 1 .. 11 /\ regs["SIM"]["CLKDIV1"] = {16, 28}
        BY <1>5, <3>1
      <4> QED
        BY <1>1, <1>7, <3>1, <4>1, ClockWait
    <3> QED
      BY <1>3, <2>1, <2>3, <3>1
  <2> QED
    BY <2>2, <2>3
<1>8. ASSUME todo # <<>>, Head(todo).do \notin Accesses
       PROVE  Untouched(todo[1]) /\ todo[1] # Tune
  <2>1. Tune.do \in Accesses
    BY DEF Tune, Set, Step, Accesses
  <2>2. Head(todo) = todo[1]
    BY <1>1, <1>8, HeadType
  <2> QED
    BY <1>4, <1>8, <2>1, <2>2
<1>9. CASE CopyWord \/ ClearBss \/ Done
  <2>1. /\ todo # <<>> /\ todo' = Tail(todo) /\ task' = task /\ regs' = regs
        /\ Head(todo).do \notin Accesses
    BY <1>9 DEF CopyWord, ClearBss, Done, NextIs, Accesses
  <2> QED
    BY <1>1, <1>2, <1>8, <2>1
<1>10. CASE EnterMain
  <2>1. /\ todo # <<>> /\ todo' = Tail(todo) /\ task' = "main" /\ regs' = regs
        /\ Head(todo).do = "main" /\ Head(todo).do \notin Accesses
    BY <1>10 DEF EnterMain, NextIs, Accesses
  <2>2. 1 \in DOMAIN todo /\ todo[1].do = "main" /\ Len(Tail(todo)) = Len(todo) - 1
    BY <1>1, <2>1, HeadType
  <2>3. task = "boot" /\ Len(todo) = 1
    BY <2>2 DEF Order
  <2>4. Pending(Tail(todo), regs, n)
    BY <1>1, <1>8, <2>1, <2>3, TailPending
  <2>5. n = 0 /\ DOMAIN todo' = {}
    <3>1. Len(Tail(todo)) = 0 /\ Tail(todo) \in Seq(Steps)
      BY <1>1, <2>1, <2>2, <2>3, HeadType
    <3>2. \E p \in 0 .. 0 - n : TRUE
      BY <2>4, <3>1 DEF Pending
    <3> QED
      BY <2>1, <3>1, <3>2
  <2> QED
    BY <1>1, <2>1, <2>5 DEF ProgressAt
<1>11. CASE FaultTurn
  <2>1. /\ todo # <<>> /\ Head(todo).do = "fault" /\ task' = "fault" /\ regs' = regs
        /\ todo' = Turn(IF 0 \in Head(todo).bits THEN 100 ELSE 0, Head(todo).bits)
    BY <1>11 DEF FaultTurn, NextIs, Turn
  <2>2. Head(todo).bits \in SUBSET (0 .. WordBits - 1)
    BY <1>1, <2>1, HeadType DEF WellFormed
  <2>3. \A i \in DOMAIN todo' : Untouched(todo'[i])
    BY <2>1, <2>2, TurnUntouched
  <2> QED
    BY <1>1, <2>1, <2>3 DEF ProgressAt
<1>12. CASE Pushes
  <2>1. PICK h \in Seq(Steps) : (\A i \in DOMAIN h : Quiet(h[i])) /\ todo' = h \o todo
    BY <1>12 DEF Pushes
  <2>2. /\ Joined(todo', h, todo) /\ todo' \in Seq(Steps) /\ task' = task
        /\ DOMAIN h = 1 .. Len(h) /\ Len(h) \in Nat
        /\ \A i \in 1 .. Len(h) : Untouched(h[i])
    BY <1>1, <1>12, <2>1, Appended, Element, QuietUntouched DEF Pushes
  <2>3. /\ \A q \in {"C1", "C2", "C4", "C5", "C6", "S"} : regs'["MCG"][q] = regs["MCG"][q]
        /\ regs'["SIM"]["CLKDIV1"] = regs["SIM"]["CLKDIV1"]
    BY <1>12, ClockNames DEF Pushes, Serviced, Attended
  <2>4. Generator(regs', n) /\ Dividers(regs', n)
    BY <1>1, <2>3 DEF Generator, Dividers
  <2>5. task = "boot" => Pending(todo', regs', n)
    BY <1>1, <2>1, <2>2, <2>3, PushPending
  <2>6. task # "boot" => \A i \in DOMAIN todo' : Untouched(todo'[i])
    <3> SUFFICES ASSUME task # "boot", NEW i \in DOMAIN todo' PROVE Untouched(todo'[i])
      OBVIOUS
    <3>1. /\ Len(todo) \in Nat /\ DOMAIN todo = 1 .. Len(todo)
          /\ DOMAIN todo' = 1 .. Len(h) + Len(todo)
      BY <1>1, <2>2, Element DEF Joined
    <3>2. CASE i \in 1 .. Len(h)
      BY <2>2, <3>2 DEF Joined
    <3>3. CASE i > Len(h)
      <4>1. i - Len(h) \in 1 .. Len(todo) /\ Len(h) + (i - Len(h)) = i
        BY <2>2, <3>1, <3>3
      <4>2. todo'[i] = todo[i - Len(h)]
        BY <2>2, <4>1 DEF Joined
      <4> QED
        BY <1>1, <3>1, <4>1, <4>2
    <3> QED
      BY <2>2, <3>1, <3>2, <3>3
  <2> QED
    BY <1>1, <2>2, <2>4, <2>5, <2>6 DEF ProgressAt
<1>13. CASE Restart
  <2>1. todo' = _reset_init /\ task' = "boot" /\ regs' = ResetRegisters
    BY <1>13 DEF Restart
  <2> QED
    BY <2>1, ResetPending, ResetClock DEF ProgressAt
<1>14. CASE Hardware
  <2>1. todo' = todo /\ task' = task
    BY <1>1, <1>14, HardwareWords DEF cpu
  <2>2. Generator(regs', n) /\ regs'["SIM"]["CLKDIV1"] = regs["SIM"]["CLKDIV1"]
    BY <1>1, <1>14, ClockHardware
  <2>3. Dividers(regs', n) /\ (task = "boot" => Pending(todo, regs', n))
    BY <1>1, <2>2 DEF Dividers, Pending
  <2> QED
    BY <1>1, <2>1, <2>2, <2>3 DEF ProgressAt
<1>15. CASE UNCHANGED vars
  BY <1>1, <1>15 DEF ProgressAt, vars, cpu
<1>16. ASSUME NEW f \in Functions, Call(f) PROVE Moves
  <2>1. PICK rate : todo' = Script(f, rate) /\ task' = "main" /\ task = "main" /\ regs' = regs
    BY <1>16 DEF Call, Script
  <2> QED
    BY <1>1, <2>1, ScriptUntouched DEF ProgressAt
<1> QED
  BY <1>6, <1>7, <1>9, <1>10, <1>11, <1>12, <1>13, <1>14, <1>15, <1>16, StepCases

LEMMA ProgressStep == TypeInv /\ Order /\ Progress /\ [Next]_vars => Progress'
<1> SUFFICES ASSUME TypeInv, Order, Progress, [Next]_vars PROVE Progress'
  OBVIOUS
<1>1. PICK n \in 0 .. 11 : ProgressAt(n)
  BY DEF Progress
<1>2. PICK k \in 0 .. 11 : ProgressAt(k)'
  BY <1>1, ProgressMoves
<1> QED
  BY <1>2 DEF Progress

LEMMA ProgressInvariant == Spec => [](TypeInv /\ Order /\ Progress)
<1>1. Init => Progress
  <2> SUFFICES ASSUME Init PROVE ProgressAt(11)
    BY DEF Progress
  <2>1. todo = _reset_init /\ task = "boot" /\ regs = ResetRegisters
    BY DEF Init
  <2> QED
    BY <2>1, ResetPending, ResetClock DEF ProgressAt
<1> QED
  BY <1>1, ProgressStep, OrderInvariant, PTL DEF Spec

-----------------------------------------------------------------------------
(* The frequencies.                                                            *)

\* What each field of the clock generator reads at each place.
LEMMA FieldsAt ==
  ASSUME NEW n \in 0 .. 11, Generator(regs, n), Dividers(regs, n)
  PROVE  /\ n <= 9 => Get(Mcg("C1"), MCG_C1.FRDIV) = 3 /\ Has(Mcg("C2"), MCG_C2.RANGE0)
         /\ Get(Mcg("C4"), MCG_C4.DRST_DRS) = 0 /\ Get(Mcg("C6"), MCG_C6.VDIV0) = 0
         /\ Get(Mcg("C5"), MCG_C5.PRDIV0) = IF n >= 8 THEN 0 ELSE 1
         /\ Get(regs["SIM"]["CLKDIV1"], SIM_CLKDIV1.OUTDIV4) = 1
         /\ Get(regs["SIM"]["CLKDIV1"], SIM_CLKDIV1.OUTDIV1) \in {0, 1}
         /\ n < 11 => Get(regs["SIM"]["CLKDIV1"], SIM_CLKDIV1.OUTDIV1) = 1
<1>1. /\ MCG_C1.FRDIV = 3 .. 5 /\ MCG_C2.RANGE0 = 4 .. 5 /\ MCG_C4.DRST_DRS = 5 .. 6 /\ MCG_C6.VDIV0 = 0 .. 4
      /\ MCG_C5.PRDIV0 = 0 .. 4 /\ SIM_CLKDIV1.OUTDIV4 = 16 .. 18 /\ SIM_CLKDIV1.OUTDIV1 = 28 .. 31
  BY DEF MCG_C1, MCG_C2, MCG_C4, MCG_C5, MCG_C6, SIM_CLKDIV1
<1>2. /\ {3, 4, 7} \cap (3 .. 5) = {3, 4} /\ {3, 4} \cap (3 .. 5) = {3, 4} /\ {2, 5} \cap (4 .. 5) # {}
      /\ {0} \cap (5 .. 6) = {} /\ {} \cap (0 .. 4) = {} /\ {6} \cap (0 .. 4) = {}
      /\ {0} \cap (0 .. 4) = {0} /\ {16, 28} \cap (16 .. 18) = {16} /\ {16} \cap (16 .. 18) = {16}
      /\ {16, 28} \cap (28 .. 31) = {28} /\ {16} \cap (28 .. 31) = {}
  OBVIOUS
<1>3. /\ Get({3, 4, 7}, 3 .. 5) = 3 /\ Get({3, 4}, 3 .. 5) = 3 /\ Get({0}, 5 .. 6) = 0
      /\ Get({}, 0 .. 4) = 0 /\ Get({6}, 0 .. 4) = 0 /\ Get({0}, 0 .. 4) = 1
      /\ Get({16, 28}, 16 .. 18) = 1 /\ Get({16}, 16 .. 18) = 1
      /\ Get({16, 28}, 28 .. 31) = 1 /\ Get({16}, 28 .. 31) = 0
  BY <1>2, ClockNumbers
<1>4. /\ n <= 9 => Mcg("C1") \in {{3, 4, 7}, {3, 4}} /\ Mcg("C2") = {2, 5}
      /\ Mcg("C4") = {0} /\ Mcg("C6") \in {{}, {6}} /\ Mcg("C5") = IF n >= 8 THEN {} ELSE {0}
  BY DEF Generator, Mcg
<1>5. /\ regs["SIM"]["CLKDIV1"] \in {{16, 28}, {16}}
      /\ n < 11 => regs["SIM"]["CLKDIV1"] = {16, 28}
  BY DEF Dividers
<1>6. n <= 9 => Get(Mcg("C1"), 3 .. 5) = 3 /\ Has(Mcg("C2"), 4 .. 5)
  BY <1>2, <1>3, <1>4 DEF Has
<1>7. /\ Get(Mcg("C4"), 5 .. 6) = 0 /\ Get(Mcg("C6"), 0 .. 4) = 0
      /\ Get(Mcg("C5"), 0 .. 4) = IF n >= 8 THEN 0 ELSE 1
  BY <1>3, <1>4
<1>8. /\ Get(regs["SIM"]["CLKDIV1"], 16 .. 18) = 1 /\ Get(regs["SIM"]["CLKDIV1"], 28 .. 31) \in {0, 1}
      /\ n < 11 => Get(regs["SIM"]["CLKDIV1"], 28 .. 31) = 1
  BY <1>3, <1>5
<1> QED
  BY <1>1, <1>6, <1>7, <1>8

\* The frequencies at each place.
LEMMA FrequenciesAt ==
  ASSUME NEW n \in 0 .. 11, Generator(regs, n), Dividers(regs, n)
  PROVE  /\ FllReference \in {32768, 31250} /\ PllReference = (IF n >= 8 THEN 8000000 ELSE 4000000)
         /\ n <= 7 => MCGPLLCLK = 96000000
         /\ MCGOUTCLK \in Nat
         /\ MCGOUTCLK <= 20971520 \/ (n <= 1 /\ MCGOUTCLK = 96000000)
         /\ n = 0 => MCGOUTCLK = 96000000
         /\ CoreClock = MCGOUTCLK \/ CoreClock = MCGOUTCLK \div 2
         /\ n < 11 => CoreClock = MCGOUTCLK \div 2
         /\ BusClock = CoreClock \div 2
<1> DEFINE status == regs["MCG"]["S"]
<1>1. FllReference = IF 4 \in status THEN 32768 ELSE 31250
  <2>1. Has(Mcg("S"), MCG_S.IREFST) <=> 4 \in status
    BY DEF Has, Mcg, MCG_S
  <2>2. n >= 10 => 4 \in status
    BY StatusFacts DEF Generator
  <2>3. CASE 4 \in status
    BY <2>1, <2>3 DEF FllReference, SlowClock
  <2>4. CASE 4 \notin status
    <3>1. Get(Mcg("C1"), MCG_C1.FRDIV) = 3 /\ Has(Mcg("C2"), MCG_C2.RANGE0)
      BY <2>2, <2>4, FieldsAt
    <3>2. 2 ^ Get(Mcg("C1"), MCG_C1.FRDIV) = 8
      <4>1. 2 ^ 3 = 8
        OBVIOUS
      <4> QED
        BY <3>1, <4>1
    <3>3. FllReference = 8000000 \div (8 * 32)
      BY <2>1, <2>4, <3>1, <3>2 DEF FllReference, Crystal
    <3> QED
      BY <2>4, <3>3
  <2> QED
    BY <2>3, <2>4
<1>2. MCGFLLCLK = IF 4 \in status THEN 20971520 ELSE 20000000
  BY <1>1, FieldsAt DEF MCGFLLCLK
<1>3. PllReference = (IF n >= 8 THEN 8000000 ELSE 4000000)
  BY FieldsAt DEF PllReference, Crystal
<1>4. n <= 7 => MCGPLLCLK = 96000000
  BY <1>3, FieldsAt DEF MCGPLLCLK
<1>5. \/ 2 \in status /\ 3 \in status /\ n <= 1
      \/ 2 \notin status /\ n # 0
  <2>1. \/ n = 0 \/ n = 1 \/ n = 2 \/ n = 3 \/ n = 4 \/ n = 5
        \/ n \in 6 .. 9 \/ n = 10 \/ n = 11
    OBVIOUS
  <2>2. status \in StatusAt(n)
    BY DEF Generator
  <2>3. CASE n <= 1
    BY <2>2, <2>3, StatusFacts
  <2>4. CASE n > 1
    BY <2>1, <2>2, <2>4, StatusFacts
  <2> QED
    BY <2>3, <2>4
<1>6. Get(Mcg("S"), MCG_S.CLKST) = IF 2 \in status THEN 3 ELSE IF 3 \in status THEN 2 ELSE 0
  <2>1. Mcg("S") = status
    BY DEF Mcg
  <2> QED
    BY <1>5, <2>1, StatusNumber
<1>7. MCGOUTCLK = IF 2 \in status THEN MCGPLLCLK ELSE IF 3 \in status THEN 8000000 ELSE MCGFLLCLK
  BY <1>6 DEF MCGOUTCLK, Crystal
<1>8. /\ MCGOUTCLK \in Nat /\ (MCGOUTCLK <= 20971520 \/ (n <= 1 /\ MCGOUTCLK = 96000000))
      /\ n = 0 => MCGOUTCLK = 96000000
  BY <1>2, <1>4, <1>5, <1>7
<1>9. /\ CoreClock = MCGOUTCLK \/ CoreClock = MCGOUTCLK \div 2
      /\ n < 11 => CoreClock = MCGOUTCLK \div 2
  <2>1. MCGOUTCLK \div 1 = MCGOUTCLK
    BY <1>8
  <2> HIDE DEF status
  <2> QED
    BY <2>1, FieldsAt DEF CoreClock
<1>10. BusClock = CoreClock \div 2
  BY FieldsAt DEF BusClock
<1> QED
  BY <1>1, <1>3, <1>4, <1>8, <1>9, <1>10

\* Core, bus, FLL and PLL stay within the limits of the chip, from every reset on.
THEOREM InLimits == Spec => []ClocksInLimits
<1>1. Progress => ClocksInLimits
  <2> SUFFICES ASSUME NEW n \in 0 .. 11, Generator(regs, n), Dividers(regs, n) PROVE ClocksInLimits
    BY SMT DEF Progress, ProgressAt
  <2>1. CoreClock <= 48000000 /\ BusClock <= 24000000
    <3>1. \A x \in Nat : x \div 2 \in Nat /\ x \div 2 <= x
      BY SMT
    <3>2. CASE MCGOUTCLK <= 20971520
      BY <3>1, <3>2, FrequenciesAt, SMT
    <3>3. CASE n <= 1 /\ MCGOUTCLK = 96000000
      <4>1. CoreClock = 96000000 \div 2
        BY <3>3, FrequenciesAt, SMT
      <4> QED
        BY <4>1, FrequenciesAt, SMT
    <3> QED
      BY <3>2, <3>3, FrequenciesAt, SMT
  <2>2. Has(Mcg("S"), MCG_S.PLLST) => n <= 3
    <3>1. Has(Mcg("S"), MCG_S.PLLST) <=> 5 \in regs["MCG"]["S"]
      BY SMT DEF Has, Mcg, MCG_S
    <3>2. \/ n <= 3 \/ n = 4 \/ n = 5 \/ n \in 6 .. 9 \/ n = 10 \/ n = 11
      BY SMT
    <3> QED
      BY <3>1, <3>2, StatusFacts, SMT DEF Generator
  <2>3. PllReference = (IF n >= 8 THEN 8000000 ELSE 4000000) /\ FllReference \in {32768, 31250}
    BY FrequenciesAt, SMT
  <2> QED
    BY <2>1, <2>2, <2>3, SMT DEF ClocksInLimits
<1> QED
  BY <1>1, ProgressInvariant, PTL

\* The three places where the request changes are those at which the generator has settled.
LEMMA SettledAt ==
  ASSUME NEW n \in {0, 2, 4, 10}, Generator(regs, n)
  PROVE  Settled
<1> DEFINE status == regs["MCG"]["S"]
<1>1. \/ n = 0 /\ status = {1, 2, 3, 5, 6}
      \/ n = 2 /\ status = {1, 3, 5, 6}
      \/ n = 4 /\ status = {1, 3}
      \/ n = 10 /\ status = {4}
  BY StatusFacts DEF Generator
<1>2. /\ Has(Mcg("S"), MCG_S.IREFST) <=> 4 \in status
      /\ Has(Mcg("C1"), MCG_C1.IREFS) <=> n = 10
      /\ Has(Mcg("C6"), MCG_C6.PLLS) <=> n \in {0, 2}
      /\ Has(Mcg("S"), MCG_S.LOCK0) <=> 6 \in status
      /\ Mcg("S") = status
  BY DEF Has, Mcg, MCG_S, MCG_C1, MCG_C6, Generator
<1>3. Selected = IF n = 10 THEN 0 ELSE IF n = 0 THEN 3 ELSE 2
  BY SelectedIs
<1>4. Get(status, MCG_S.CLKST) = Selected
  <2>1. \/ 2 \in status /\ 3 \in status /\ n = 0
        \/ 2 \notin status /\ 3 \in status /\ n \in {2, 4}
        \/ 2 \notin status /\ 3 \notin status /\ n = 10
    BY <1>1
  <2> HIDE DEF status
  <2> QED
    BY <1>3, <2>1, StatusNumber
<1>5. /\ Has(Mcg("S"), MCG_S.IREFST) <=> Has(Mcg("C1"), MCG_C1.IREFS)
      /\ Has(Mcg("C6"), MCG_C6.PLLS) => Has(Mcg("S"), MCG_S.LOCK0)
  BY <1>1, <1>2
<1>6. /\ Has(Mcg("S"), MCG_S.IREFST) \in BOOLEAN /\ Has(Mcg("C1"), MCG_C1.IREFS) \in BOOLEAN
  BY DEF Has
<1> QED
  BY <1>2, <1>4, <1>5, <1>6 DEF Settled

\* What is asked for at each place.
Requests ==
  \A n \in 0 .. 11 : Generator(regs, n) =>
    Request = <<n >= 10, IF n >= 10 THEN 0 ELSE IF n >= 2 THEN 2 ELSE 3, n < 4>>

LEMMA RequestIs == Requests
<1> SUFFICES ASSUME NEW n \in 0 .. 11, Generator(regs, n)
             PROVE  Request = <<n >= 10, IF n >= 10 THEN 0 ELSE IF n >= 2 THEN 2 ELSE 3, n < 4>>
  BY DEF Requests
<1>1. /\ Has(Mcg("C1"), MCG_C1.IREFS) <=> n >= 10
      /\ Has(Mcg("C6"), MCG_C6.PLLS) <=> n < 4
  BY DEF Has, Mcg, MCG_C1, MCG_C6, Generator
<1>2. /\ Has(Mcg("C1"), MCG_C1.IREFS) = (n >= 10)
      /\ Has(Mcg("C6"), MCG_C6.PLLS) = (n < 4)
  BY <1>1 DEF Has
<1> QED
  BY <1>2, SelectedIs DEF Request

\* "Mode progression: FEI (reset) -> FBE -> PBE -> PEE": each mode is asked for only when
\* the one before has been reached, and main starts in PEE at 48 MHz.
THEOREM ModesOrdered == Spec => ModesInOrder
<1> DEFINE Changes == Request' # Request /\ task' = task /\ todo' # _reset_init => Settled
<1> DEFINE Entry == task = "boot" /\ task' = "main" => Settled /\ CoreClock = 48000000
<1>1. TypeInv /\ Order /\ Progress /\ [Next]_vars => Changes
  <2> SUFFICES ASSUME TypeInv, Order, Progress, [Next]_vars, Request' # Request, todo' # _reset_init
               PROVE  Settled
    OBVIOUS
  <2>1. PICK n \in 0 .. 11 : ProgressAt(n)
    BY DEF Progress
  <2>2. ProgressAt(n)' \/ (n # 0 /\ ProgressAt(n - 1)')
    BY <2>1, ProgressMoves
  <2>3. Generator(regs, n)
    BY <2>1 DEF ProgressAt
  <2>4. PICK k \in {n, n - 1} : k \in 0 .. 11 /\ Generator(regs', k)
    BY <2>2 DEF ProgressAt
  <2>5. Request = <<n >= 10, IF n >= 10 THEN 0 ELSE IF n >= 2 THEN 2 ELSE 3, n < 4>>
    BY <2>3, RequestIs DEF Requests
  <2>6. Request' = <<k >= 10, IF k >= 10 THEN 0 ELSE IF k >= 2 THEN 2 ELSE 3, k < 4>>
    <3>1. Requests'
      BY RequestIs, PTL
    <3> QED
      BY <2>4, <3>1 DEF Requests
  <2>7. n \in {2, 4, 10}
    BY <2>4, <2>5, <2>6
  <2> QED
    BY <2>3, <2>7, SettledAt
<1>2. TypeInv /\ Order /\ Progress /\ [Next]_vars => Entry
  <2> SUFFICES ASSUME TypeInv, Order, Progress, [Next]_vars, task = "boot", task' = "main"
               PROVE  Settled /\ CoreClock = 48000000
    OBVIOUS
  <2>1. EnterMain
    BY StepCases, HardwareWords DEF TypeInv, Assign, SetBits, ClearBits, Store, LoopEnds, CopyWord,
       ClearBss, Done, FaultTurn, Pushes, Restart, vars, cpu, Call
  <2>2. PICK n \in 0 .. 11 : ProgressAt(n)'
    BY ProgressStep DEF Progress
  <2>3. n = 0 /\ regs' = regs
    BY <2>1, <2>2 DEF ProgressAt, EnterMain
  <2>4. Generator(regs, 0) /\ Dividers(regs, 0)
    BY <2>2, <2>3 DEF ProgressAt
  <2>5. CoreClock = 96000000 \div 2
    BY <2>4, FrequenciesAt
  <2> QED
    BY <2>4, <2>5, SettledAt
<1>3. TypeInv /\ Order /\ Progress /\ [Next]_vars => [Changes /\ Entry]_vars
  BY <1>1, <1>2
<1> QED
  BY <1>3, ProgressInvariant, PTL DEF Spec, ModesInOrder

-----------------------------------------------------------------------------
(* The registers each driver configures.  "leds" stands for init_clocks and     *)
(* init_led_io, which start-up calls.                                          *)

\* Whose register it is, and whose bits of SOPT2 they are.
Owner(m, r) ==
  CASE m = "UART0" -> "uart_init"
    [] m \in {"I2C0", "PORTE"} -> "accel_init"
    [] m = "TSI0" -> "touch_init"
    [] m \in {"SPI0", "PORTC"} -> "spi_init"
    [] m = "USB0" -> "usb_init"
    [] m = "LPTMR0" -> "delay"
    [] m = "PORTA" -> IF r \in {1, 2} THEN "uart_init" ELSE "leds"
    [] m = "PORTB" -> IF r \in {16, 17} THEN "touch_init" ELSE "leds"
    [] m = "PORTD" -> IF r = 1 THEN "leds" ELSE "spi_init"
    [] OTHER -> "leds"
BitOwner(b) == CASE b \in {26, 27} -> "uart_init" [] b = 18 -> "usb_init" [] OTHER -> "leds"

OwnedBy(f, m, r, bits) ==
  \/ m \notin {"SIM", "NVIC"} /\ Owner(m, r) = f
  \/ m = "SIM" /\ r = "SOPT2" /\ \A b \in bits : BitOwner(b) = f

\* A step that changes what f owns, or switches on a clock or an interrupt.
StepOf(f, s) ==
  \/ s.do \notin {"=", "|=", "&=~"}
  \/ OwnedBy(f, s.of, s.reg, s.bits) /\ (s.of = "SIM" => s.do # "=")
  \/ s.do = "|=" /\ (s.of = "NVIC" \/ (s.of = "SIM" /\ s.reg \in GateRegisters))

SettingOf(f, k) ==
  /\ Stable(k)
  /\ OwnedBy(f, k.of, k.reg, k.mask) \/ (k.of = "NVIC" /\ k.mask = k.value)

\* What f promises to the program: pins routed, bits on or off, registers with a word.
Route(port, pin, n) == Setting(port, pin, PORT_PCR.MUX, Mux(n))
On(m, r, bits) == Setting(m, r, bits, bits)
Off(m, r, bits) == Setting(m, r, bits, {})
Full(m, r, word) == Setting(m, r, Instances[m][r], word)

Divisor(rate) == Word(3000000 \div rate) \cap 0 .. 15
HighByte(rate) == {b - 8 : b \in Divisor(rate) \cap 8 .. 15} \cap UARTLP_BDH.SBR
LowByte(rate) == Divisor(rate) \cap UARTLP_BDL.SBR

LedSettings ==
  {Route("PORTB", 18, 3), Route("PORTB", 19, 3), Route("PORTD", 1, 4),
   Setting("TPM0", "SC", TPM_SC.CMOD, Put(TPM_SC.CMOD, 1)),
   Setting("TPM2", "SC", TPM_SC.CMOD, Put(TPM_SC.CMOD, 1)),
   On("SIM", "SOPT2", {16}), On("SIM", "SOPT2", {24}), Off("SIM", "SOPT2", {25})}

UartSettings(rate) ==
  {Route("PORTA", 1, 2), Route("PORTA", 2, 2), On("NVIC", "ISER", {12}),
   On("SIM", "SOPT2", {26}), Off("SIM", "SOPT2", {27}), Setting("UART0", "C2", (0 .. 7) \ {5, 7}, {2, 3}),
   Full("UART0", "C4", Put(UARTLP_C4.OSR, 15)), Full("UART0", "BDH", HighByte(rate)),
   Full("UART0", "BDL", LowByte(rate))}

AccelSettings ==
  {Route("PORTE", 24, 5), Route("PORTE", 25, 5), Full("I2C0", "F", Word(20)),
   Full("I2C0", "C1", {7})}

TouchSettings ==
  {Route("PORTB", 16, 0), Route("PORTB", 17, 0), On("NVIC", "ISER", {26}),
   On("TSI0", "GENCS", {6, 28}), On("TSI0", "GENCS", {7})}

SpiSettings ==
  {Route("PORTD", 0, 2), Route("PORTD", 2, 2), Route("PORTD", 3, 2), Route("PORTC", 5, 2),
   Full("SPI0", "C1", {1, 4, 6}), Full("SPI0", "C2", {4}), Full("SPI0", "BR", {2})}

UsbSettings ==
  {On("SIM", "SOPT2", {18}), On("NVIC", "ISER", {24}), Setting("USB0", "CTL", (0 .. 7) \ {1}, {0}),
   Full("USB0", "CONTROL", {4})}

Settings(f, rate) ==
  CASE f = "leds" -> LedSettings
    [] f = "uart_init" -> UartSettings(rate)
    [] f = "accel_init" -> AccelSettings
    [] f = "touch_init" -> TouchSettings
    [] f = "spi_init" -> SpiSettings
    [] f = "usb_init" -> UsbSettings
    [] OTHER -> {}

\* The functions that have been called, the one being executed included.
Due == {"leds"} \cup called \cup {todo[i].reg : i \in {j \in DOMAIN todo : todo[j].do = "done"}}

\* What they promised holds when the steps in todo have been taken.
Configured ==
  task # "fault" =>
    /\ \A f \in Due : \A k \in Settings(f, baud) : Promised(regs, todo, Len(todo) + 1, k)
    /\ "uart_init" \in Due => baud \in BaudRates

\* What a function's steps change is not what another one has promised.
LEMMA KeepsOthers ==
  ASSUME NEW f, NEW g, f # g, NEW s, StepOf(f, s), NEW k, SettingOf(g, k)
  PROVE  Keeps(s, k)
<1>1. k.value \subseteq k.mask
  BY DEF SettingOf, Stable
<1> SUFFICES ASSUME s.of = k.of, s.reg = k.reg, s.do \in {"=", "|=", "&=~"}
             PROVE  s.do # "=" /\ (s.do = "|=" => s.bits \cap k.mask \subseteq k.value) /\ (s.do = "&=~" => s.bits \cap k.value = {})
  BY DEF Keeps
<1>2. CASE k.of = "NVIC"
  BY <1>1, <1>2 DEF StepOf, SettingOf, OwnedBy
<1>3. CASE k.of = "SIM"
  <2>1. k.reg = "SOPT2" /\ \A b \in k.mask : BitOwner(b) = g
    BY <1>3 DEF SettingOf, OwnedBy
  <2>2. s.do # "=" /\ \A b \in s.bits : BitOwner(b) = f
    BY <1>3, <2>1 DEF StepOf, OwnedBy, GateRegisters
  <2> QED
    BY <1>1, <2>1, <2>2
<1>4. CASE k.of \notin {"NVIC", "SIM"}
  BY <1>4 DEF StepOf, SettingOf, OwnedBy
<1> QED
  BY <1>2, <1>3, <1>4

\* Some step of s makes the setting and the later ones keep it.
Delivers(s, k) == Provided(s, Len(s) + 1, k)

LEMMA DeliversJoined ==
  ASSUME NEW s \in Seq(Steps), NEW t \in Seq(Steps), NEW u, Joined(u, s, t), NEW k,
         Delivers(t, k) \/ (Delivers(s, k) /\ \A j \in 1 .. Len(t) : Keeps(t[j], k))
  PROVE  Delivers(u, k)
<1>1. Len(s) \in Nat /\ Len(t) \in Nat /\ Len(u) = Len(s) + Len(t)
  BY Element DEF Joined
<1>2. CASE Delivers(t, k)
  <2>1. PICK j \in 1 .. Len(t) : Makes(t[j], k) /\ \A l \in j + 1 .. Len(t) : Keeps(t[l], k)
    BY <1>1, <1>2 DEF Delivers, Provided
  <2>2. Len(s) + j \in 1 .. Len(u) /\ Makes(u[Len(s) + j], k)
    BY <1>1, <2>1 DEF Joined
  <2>3. ASSUME NEW l \in Len(s) + j + 1 .. Len(u) PROVE Keeps(u[l], k)
    <3>1. l - Len(s) \in j + 1 .. Len(t) /\ l - Len(s) \in 1 .. Len(t) /\ Len(s) + (l - Len(s)) = l
      BY <1>1, <2>1
    <3> QED
      BY <2>1, <3>1 DEF Joined
  <2> QED
    BY <1>1, <2>2, <2>3 DEF Delivers, Provided
<1>3. CASE Delivers(s, k) /\ \A j \in 1 .. Len(t) : Keeps(t[j], k)
  <2>1. PICK j \in 1 .. Len(s) : Makes(s[j], k) /\ \A l \in j + 1 .. Len(s) : Keeps(s[l], k)
    BY <1>1, <1>3 DEF Delivers, Provided
  <2>2. j \in 1 .. Len(u) /\ Makes(u[j], k)
    BY <1>1, <2>1 DEF Joined
  <2>3. ASSUME NEW l \in j + 1 .. Len(u) PROVE Keeps(u[l], k)
    <3>1. CASE l \in 1 .. Len(s)
      BY <2>1, <3>1 DEF Joined
    <3>2. CASE l > Len(s)
      <4>1. l - Len(s) \in 1 .. Len(t) /\ Len(s) + (l - Len(s)) = l
        BY <1>1, <2>1, <3>2
      <4> QED
        BY <1>3, <4>1 DEF Joined
    <3> QED
      BY <1>1, <2>1, <3>1, <3>2
  <2> QED
    BY <1>1, <2>2, <2>3 DEF Delivers, Provided
<1> QED
  BY <1>2, <1>3

-----------------------------------------------------------------------------
(* What each function's steps change.                                        *)

\* The steps of a function, by what they are.
LEMMA StepForms ==
  ASSUME NEW f
  PROVE  /\ \A m, r, bits : m \notin {"SIM", "NVIC"} /\ Owner(m, r) = f =>
              /\ StepOf(f, Set(m, r, bits)) /\ StepOf(f, Or(m, r, bits)) /\ StepOf(f, AndNot(m, r, bits))
         /\ \A r \in GateRegisters : \A bits : StepOf(f, Or("SIM", r, bits))
         /\ \A bits : (\A b \in bits : BitOwner(b) = f) =>
              StepOf(f, Or("SIM", "SOPT2", bits)) /\ StepOf(f, AndNot("SIM", "SOPT2", bits))
         /\ \A m, r, mask, value : StepOf(f, Until(m, r, mask, value))
         /\ \A r, bits : StepOf(f, Or("NVIC", r, bits))
BY DEF StepOf, OwnedBy, Set, Or, AndNot, Until, Step

LEMMA UartSteps == \A rate : \A i \in DOMAIN uart_init(rate) : StepOf("uart_init", uart_init(rate)[i])
<1> SUFFICES ASSUME NEW rate PROVE \A i \in DOMAIN uart_init(rate) : StepOf("uart_init", uart_init(rate)[i])
  OBVIOUS
<1> DEFINE source == SIM_SOPT2.UART0SRC
<1> DEFINE pll == Put(source, 1)
<1> DEFINE on == UARTLP_C2.RE \cup UARTLP_C2.TE \cup UART_C2.RIE
<1> DEFINE s(porta, uart0, pin, osr, high, low, irq) ==
  <<Or("SIM", "SCGC5", porta), Or("SIM", "SCGC4", uart0),
    AndNot("SIM", "SOPT2", source), Or("SIM", "SOPT2", pll),
    Set("PORTA", 1, pin), Set("PORTA", 2, pin), Set("UART0", "C2", {}), Set("UART0", "C1", {}),
    Set("UART0", "C3", {}), Set("UART0", "S2", {}), Set("UART0", "C4", osr),
    Set("UART0", "BDH", high), Set("UART0", "BDL", low), Set("UART0", "C2", on)>>
      \o <<Or("NVIC", "ICPR", irq), Or("NVIC", "ISER", irq)>>
<1>1. uart_init(rate) = s(SIM_SCGC5.PORTA, SIM_SCGC4.UART0, Mux(2), Put(UARTLP_C4.OSR, 15),
                          HighByte(rate), LowByte(rate), {INT.UART0 - 16})
  BY DEF uart_init, enable_irq, HighByte, LowByte, Divisor
<1>2. \A bits : /\ StepOf("uart_init", Set("PORTA", 1, bits)) /\ StepOf("uart_init", Set("PORTA", 2, bits))
                /\ \A r : StepOf("uart_init", Set("UART0", r, bits))
                /\ StepOf("uart_init", Or("SIM", "SCGC4", bits)) /\ StepOf("uart_init", Or("SIM", "SCGC5", bits))
                /\ \A r : StepOf("uart_init", Or("NVIC", r, bits))
  <2>1. Owner("PORTA", 1) = "uart_init" /\ Owner("PORTA", 2) = "uart_init" /\ \A r : Owner("UART0", r) = "uart_init"
    BY DEF Owner
  <2> QED
    BY <2>1, StepForms DEF GateRegisters
<1>3. StepOf("uart_init", AndNot("SIM", "SOPT2", source)) /\ StepOf("uart_init", Or("SIM", "SOPT2", pll))
  <2>1. \A b \in 26 .. 27 : BitOwner(b) = "uart_init"
    BY DEF BitOwner
  <2>2. source = 26 .. 27 /\ pll \subseteq 26 .. 27
    BY PutType DEF SIM_SOPT2
  <2> QED
    BY <2>1, <2>2, StepForms
<1> HIDE DEF source, pll, on
<1>4. ASSUME NEW a, NEW b, NEW c, NEW d, NEW e, NEW f, NEW g,
             NEW i \in DOMAIN s(a, b, c, d, e, f, g)
      PROVE  StepOf("uart_init", s(a, b, c, d, e, f, g)[i])
  <2>1. DOMAIN s(a, b, c, d, e, f, g) = 1 .. 16
    BY SMT
  <2>2. \/ i = 1 \/ i = 2 \/ i = 3 \/ i = 4 \/ i = 5 \/ i = 6 \/ i = 7 \/ i = 8
        \/ i = 9 \/ i = 10 \/ i = 11 \/ i = 12 \/ i = 13 \/ i = 14 \/ i = 15 \/ i = 16
    BY <2>1
  <2>3. CASE i \in 1 .. 8
    BY <1>2, <1>3, <2>2, <2>3, SMTT(60)
  <2>4. CASE i \in 9 .. 14
    BY <1>2, <1>3, <2>2, <2>4, SMTT(60)
  <2>5. CASE i \in 15 .. 16
    <3>1. s(a, b, c, d, e, f, g)[15] = Or("NVIC", "ICPR", g) /\ s(a, b, c, d, e, f, g)[16] = Or("NVIC", "ISER", g)
      BY SMT
    <3> HIDE DEF s
    <3> QED
      BY <1>2, <2>2, <2>5, <3>1
  <2> QED
    BY <2>2, <2>3, <2>4, <2>5
<1> HIDE DEF s
<1> QED
  BY <1>1, <1>4

LEMMA I2cSteps == \A i \in DOMAIN i2c_init : StepOf("accel_init", i2c_init[i])
<1>1. \A r : Owner("PORTE", r) = "accel_init" /\ Owner("I2C0", r) = "accel_init"
  BY DEF Owner
<1> QED
  BY <1>1, StepForms, SMTT(60) DEF i2c_init, GateRegisters

LEMMA TouchSteps == \A i \in DOMAIN touch_init : StepOf("touch_init", touch_init[i])
<1>1. \A r : Owner("TSI0", r) = "touch_init"
  BY DEF Owner
<1>2. Owner("PORTB", 16) = "touch_init" /\ Owner("PORTB", 17) = "touch_init"
  BY DEF Owner
<1> DEFINE s(tsi, scan, on, analog) ==
  <<Or("SIM", "SCGC5", tsi), Or("TSI0", "GENCS", scan), Or("TSI0", "GENCS", on),
    Set("PORTB", 16, analog), Set("PORTB", 17, analog)>>
      \o <<Or("NVIC", "ICPR", {INT.TSI0 - 16}), Or("NVIC", "ISER", {INT.TSI0 - 16})>>
<1>3. \E a, b, c, d : touch_init = s(a, b, c, d)
  BY DEF touch_init, enable_irq
<1>4. \A bits : /\ StepOf("touch_init", Set("PORTB", 16, bits)) /\ StepOf("touch_init", Set("PORTB", 17, bits))
                /\ StepOf("touch_init", Or("TSI0", "GENCS", bits)) /\ StepOf("touch_init", Or("SIM", "SCGC5", bits))
                /\ \A r : StepOf("touch_init", Or("NVIC", r, bits))
  BY <1>1, <1>2, StepForms DEF GateRegisters
<1>5. ASSUME NEW a, NEW b, NEW c, NEW d, NEW i \in DOMAIN s(a, b, c, d)
      PROVE  StepOf("touch_init", s(a, b, c, d)[i])
  BY <1>4, SMT
<1> HIDE DEF s
<1> QED
  BY <1>3, <1>5

LEMMA SpiSteps == \A i \in DOMAIN spi_init : StepOf("spi_init", spi_init[i])
<1>1. \A r : Owner("SPI0", r) = "spi_init" /\ Owner("PORTC", r) = "spi_init"
  BY DEF Owner
<1>2. \A pin \in {0, 2, 3} : Owner("PORTD", pin) = "spi_init"
  BY DEF Owner
<1> QED
  BY <1>1, <1>2, StepForms DEF spi_init, ClockPin, GateRegisters

LEMMA UsbSteps == \A i \in DOMAIN usb_init : StepOf("usb_init", usb_init[i])
<1>1. \A r : Owner("USB0", r) = "usb_init"
  BY DEF Owner
<1>2. \A b \in SIM_SOPT2.USBSRC : BitOwner(b) = "usb_init"
  BY DEF BitOwner, SIM_SOPT2
<1>3. StepOf("usb_init", Or("SIM", "SOPT2", SIM_SOPT2.USBSRC))
  BY <1>2, StepForms
<1>4. /\ \A r, bits : StepOf("usb_init", Set("USB0", r, bits)) /\ StepOf("usb_init", Or("USB0", r, bits))
      /\ \A bits : StepOf("usb_init", Or("SIM", "SCGC4", bits))
      /\ \A r, bits : StepOf("usb_init", Or("NVIC", r, bits))
      /\ \A m, r, mask, value : StepOf("usb_init", Until(m, r, mask, value))
  BY <1>1, StepForms DEF GateRegisters
<1> QED
  BY <1>3, <1>4, SMT DEF usb_init, enable_irq

LEMMA DelaySteps == \A n : \A i \in DOMAIN delay(n) : StepOf("delay", delay(n)[i])
<1>1. \A r : Owner("LPTMR0", r) = "delay"
  BY DEF Owner
<1> QED
  BY <1>1, StepForms DEF delay, GateRegisters

\* Each function keeps to what it owns.
LEMMA BodySteps ==
  \A f \in Functions : \A rate : \A i \in DOMAIN Body(f, rate) : StepOf(f, Body(f, rate)[i])
BY UartSteps, I2cSteps, TouchSteps, SpiSteps, UsbSteps, DelaySteps DEF Body, Functions

LEMMA SettingFields ==
  \A m, r, mask, value :
    /\ Setting(m, r, mask, value).of = m /\ Setting(m, r, mask, value).reg = r
    /\ Setting(m, r, mask, value).mask = mask /\ Setting(m, r, mask, value).value = value
BY DEF Setting

LEMMA StableSetting ==
  ASSUME NEW m \in DOMAIN Instances, NEW r \in DOMAIN Instances[m], ~Volatile(m, r),
         m # "UART0" \/ r # "D", NEW mask, mask \subseteq Instances[m][r],
         NEW value, value \subseteq mask, ~Attended(m, r) \/ Spared(Setting(m, r, mask, value))
  PROVE  Stable(Setting(m, r, mask, value))
<1> DEFINE k == Setting(m, r, mask, value)
<1>1. k.of = m /\ k.reg = r /\ k.mask = mask /\ k.value = value
  BY SettingFields
<1>2. ~Attended(k.of, k.reg) \/ Spared(k)
  BY <1>1
<1> HIDE DEF k
<1>3. Stable(k)
  BY <1>1, <1>2 DEF Stable
<1> QED
  BY <1>3 DEF k

LEMMA SettingForms ==
  ASSUME NEW f
  PROVE  /\ \A port \in {"PORTA", "PORTB", "PORTC", "PORTD", "PORTE"} :
              \A pin \in DOMAIN Instances[port] : \A n :
                Owner(port, pin) = f => SettingOf(f, Route(port, pin, n))
         /\ \A bits \in SUBSET (0 .. 31) : (\A b \in bits : BitOwner(b) = f) =>
              SettingOf(f, On("SIM", "SOPT2", bits)) /\ SettingOf(f, Off("SIM", "SOPT2", bits))
         /\ \A bits \in SUBSET (0 .. 31) : SettingOf(f, On("NVIC", "ISER", bits))
         /\ \A m \in {"UART0", "I2C0", "SPI0", "USB0"} : \A r \in DOMAIN Instances[m] : \A word \in SUBSET (0 .. 7) :
              Owner(m, r) = f /\ ~Volatile(m, r) /\ ~Attended(m, r) /\ r # "D" => SettingOf(f, Full(m, r, word))
<1>1. ASSUME NEW port \in {"PORTA", "PORTB", "PORTC", "PORTD", "PORTE"},
             NEW pin \in DOMAIN Instances[port], NEW n, Owner(port, pin) = f
      PROVE  SettingOf(f, Route(port, pin, n))
  <2>1. Instances[port][pin] = 0 .. 31 /\ port \in DOMAIN Instances
    BY InstanceNames, InstanceBits DEF Bytewise
  <2>2. PORT_PCR.MUX = 8 .. 10 /\ Mux(n) \subseteq 8 .. 10
    BY PutType DEF PORT_PCR
  <2> QED
    BY <1>1, <2>1, <2>2, SettingFields DEF SettingOf, Stable, Volatile, Attended, OwnedBy, Route
<1>2. ASSUME NEW bits \in SUBSET (0 .. 31), \A b \in bits : BitOwner(b) = f
      PROVE  SettingOf(f, On("SIM", "SOPT2", bits)) /\ SettingOf(f, Off("SIM", "SOPT2", bits))
  <2>1. "SIM" \in DOMAIN Instances /\ "SOPT2" \in DOMAIN Instances["SIM"] /\ Instances["SIM"]["SOPT2"] = 0 .. 31
    BY InstanceNames, InstanceBits DEF Bytewise
  <2>2. ASSUME NEW value, value \subseteq bits PROVE SettingOf(f, Setting("SIM", "SOPT2", bits, value))
    <3>1. Stable(Setting("SIM", "SOPT2", bits, value))
      BY <2>1, <2>2, StableSetting DEF Volatile, Attended
    <3>2. OwnedBy(f, "SIM", "SOPT2", bits)
      BY <1>2 DEF OwnedBy
    <3>3. LET k == Setting("SIM", "SOPT2", bits, value) IN k.of = "SIM" /\ k.reg = "SOPT2" /\ k.mask = bits
      BY SettingFields
    <3> QED
      BY <3>1, <3>2, <3>3 DEF SettingOf
  <2> QED
    BY <2>2 DEF On, Off
<1>3. ASSUME NEW bits \in SUBSET (0 .. 31)
      PROVE  SettingOf(f, On("NVIC", "ISER", bits))
  <2>1. "NVIC" \in DOMAIN Instances /\ "ISER" \in DOMAIN Instances["NVIC"] /\ Instances["NVIC"]["ISER"] = 0 .. 31
    BY InstanceNames, InstanceBits DEF Bytewise
  <2>2. Stable(Setting("NVIC", "ISER", bits, bits))
    BY <2>1, StableSetting DEF Volatile, Attended
  <2> QED
    BY <2>2, SettingFields DEF SettingOf, On
<1>4. ASSUME NEW m \in {"UART0", "I2C0", "SPI0", "USB0"}, NEW r \in DOMAIN Instances[m],
             NEW word \in SUBSET (0 .. 7), Owner(m, r) = f, ~Volatile(m, r), ~Attended(m, r), r # "D"
      PROVE  SettingOf(f, Full(m, r, word))
  <2>1. Instances[m][r] = 0 .. 7 /\ m \in DOMAIN Instances
    BY InstanceNames, InstanceBits DEF Bytewise
  <2>2. Stable(Setting(m, r, 0 .. 7, word))
    BY <1>4, <2>1, StableSetting
  <2> QED
    BY <1>4, <2>1, <2>2, SettingFields DEF SettingOf, OwnedBy, Full
<1> QED
  BY <1>1, <1>2, <1>3, <1>4

\* The settings of registers that handlers change, too.
LEMMA AttendedSettings ==
  /\ LET k == Setting("UART0", "C2", (0 .. 7) \ {5, 7}, {2, 3})
     IN  Stable(k) /\ k.of = "UART0" /\ k.reg = "C2"
  /\ LET k == Setting("USB0", "CTL", (0 .. 7) \ {1}, {0})
     IN  Stable(k) /\ k.of = "USB0" /\ k.reg = "CTL"
  /\ \A bits \in {{6, 28}, {7}} :
       LET k == On("TSI0", "GENCS", bits)
       IN  Stable(k) /\ k.of = "TSI0" /\ k.reg = "GENCS"
<1>1. /\ Spared(Setting("UART0", "C2", (0 .. 7) \ {5, 7}, {2, 3}))
      /\ Spared(Setting("USB0", "CTL", (0 .. 7) \ {1}, {0}))
      /\ \A bits \in {{6, 28}, {7}} : Spared(Setting("TSI0", "GENCS", bits, bits))
  BY SettingFields DEF Spared
<1>2. Stable(Setting("UART0", "C2", (0 .. 7) \ {5, 7}, {2, 3}))
  BY <1>1, AttendedNames, StableSetting DEF Volatile
<1>3. Stable(Setting("USB0", "CTL", (0 .. 7) \ {1}, {0}))
  BY <1>1, AttendedNames, StableSetting DEF Volatile
<1>4. \A bits \in {{6, 28}, {7}} : Stable(Setting("TSI0", "GENCS", bits, bits))
  BY <1>1, AttendedNames, StableSetting, SMTT(60) DEF Volatile
<1> QED
  BY <1>2, <1>3, <1>4, SettingFields DEF On

LEMMA LedSettingsOf == \A k \in LedSettings : SettingOf("leds", k)
<1>1. /\ Owner("PORTB", 18) = "leds" /\ Owner("PORTB", 19) = "leds" /\ Owner("PORTD", 1) = "leds"
      /\ \A b \in {16, 24, 25} : BitOwner(b) = "leds"
      /\ \A t \in {"TPM0", "TPM2"} : Owner(t, "SC") = "leds"
  BY DEF Owner, BitOwner
<1>2. /\ SettingOf("leds", Route("PORTB", 18, 3)) /\ SettingOf("leds", Route("PORTB", 19, 3))
      /\ SettingOf("leds", Route("PORTD", 1, 4))
  BY <1>1, SettingForms, InstanceNames, ZenonT(60)
<1>3. \A b \in {16, 24, 25} : SettingOf("leds", On("SIM", "SOPT2", {b})) /\ SettingOf("leds", Off("SIM", "SOPT2", {b}))
  <2> TAKE b \in {16, 24, 25}
  <2>1. {b} \in SUBSET (0 .. 31) /\ \A c \in {b} : BitOwner(c) = "leds"
    BY <1>1
  <2> QED
    BY <2>1, SettingForms
<1>4. \A t \in {"TPM0", "TPM2"} : SettingOf("leds", Setting(t, "SC", TPM_SC.CMOD, Put(TPM_SC.CMOD, 1)))
  <2> TAKE t \in {"TPM0", "TPM2"}
  <2>1. t \in DOMAIN Instances /\ "SC" \in DOMAIN Instances[t] /\ Instances[t]["SC"] = 0 .. 31
    BY InstanceNames, InstanceBits DEF Bytewise
  <2>2. TPM_SC.CMOD \subseteq 0 .. 31 /\ Put(TPM_SC.CMOD, 1) \subseteq TPM_SC.CMOD
    BY PutType DEF TPM_SC
  <2> QED
    BY <1>1, <2>1, <2>2, SettingFields DEF SettingOf, Stable, Volatile, Attended, OwnedBy
<1> QED
  BY <1>2, <1>3, <1>4 DEF LedSettings

LEMMA UartSettingsOf == \A rate : \A k \in UartSettings(rate) : SettingOf("uart_init", k)
<1> TAKE rate
<1>1. /\ Owner("PORTA", 1) = "uart_init" /\ Owner("PORTA", 2) = "uart_init" /\ \A r : Owner("UART0", r) = "uart_init"
      /\ \A b \in {26, 27} : BitOwner(b) = "uart_init"
  BY DEF Owner, BitOwner
<1>2. SettingOf("uart_init", Route("PORTA", 1, 2)) /\ SettingOf("uart_init", Route("PORTA", 2, 2))
  BY <1>1, SettingForms, InstanceNames
<1>3. \A b \in {26, 27} : SettingOf("uart_init", On("SIM", "SOPT2", {b})) /\ SettingOf("uart_init", Off("SIM", "SOPT2", {b}))
  <2> TAKE b \in {26, 27}
  <2>1. {b} \in SUBSET (0 .. 31) /\ \A c \in {b} : BitOwner(c) = "uart_init"
    BY <1>1
  <2> QED
    BY <2>1, SettingForms
<1>4. SettingOf("uart_init", On("NVIC", "ISER", {12}))
  BY SettingForms
<1>5. \A r \in {"C4", "BDH", "BDL"} : \A word \in SUBSET (0 .. 7) : SettingOf("uart_init", Full("UART0", r, word))
  BY <1>1, SettingForms, InstanceNames DEF Volatile, Attended
<1>6. /\ Put(UARTLP_C4.OSR, 15) \in SUBSET (0 .. 7)
      /\ HighByte(rate) \in SUBSET (0 .. 7) /\ LowByte(rate) \in SUBSET (0 .. 7)
  BY PutType DEF UARTLP_C4, UARTLP_BDH, UARTLP_BDL, HighByte, LowByte
<1>7. SettingOf("uart_init", Setting("UART0", "C2", (0 .. 7) \ {5, 7}, {2, 3}))
  BY <1>1, AttendedSettings DEF SettingOf, OwnedBy
<1> QED
  BY <1>2, <1>3, <1>4, <1>5, <1>6, <1>7 DEF UartSettings

LEMMA AccelSettingsOf == \A k \in AccelSettings : SettingOf("accel_init", k)
<1>1. \A r : Owner("PORTE", r) = "accel_init" /\ Owner("I2C0", r) = "accel_init"
  BY DEF Owner
<1>2. \A pin \in {24, 25} : SettingOf("accel_init", Route("PORTE", pin, 5))
  BY <1>1, SettingForms, InstanceNames, ZenonT(60)
<1>3. \A r \in {"F", "C1"} : \A word \in SUBSET (0 .. 7) : SettingOf("accel_init", Full("I2C0", r, word))
  BY <1>1, SettingForms, InstanceNames DEF Volatile, Attended
<1>4. {7} \in SUBSET (0 .. 7) /\ Word(20) \in SUBSET (0 .. 7)
  <2>1. \A c : c \in Word(20) => c \in 0 .. 7
    BY WordBit, Powers
  <2> QED
    BY <2>1
<1> QED
  BY <1>2, <1>3, <1>4 DEF AccelSettings

LEMMA TouchSettingsOf == \A k \in TouchSettings : SettingOf("touch_init", k)
<1>1. /\ Owner("TSI0", "GENCS") = "touch_init"
      /\ Owner("PORTB", 16) = "touch_init" /\ Owner("PORTB", 17) = "touch_init"
  BY DEF Owner
<1>2. \A pin \in {16, 17} : SettingOf("touch_init", Route("PORTB", pin, 0))
  BY <1>1, SettingForms, InstanceNames
<1>3. SettingOf("touch_init", On("NVIC", "ISER", {26}))
  BY SettingForms
<1>4. \A bits \in {{6, 28}, {7}} : SettingOf("touch_init", On("TSI0", "GENCS", bits))
  BY <1>1, AttendedSettings DEF SettingOf, OwnedBy
<1> QED
  BY <1>2, <1>3, <1>4 DEF TouchSettings

LEMMA SpiSettingsOf == \A k \in SpiSettings : SettingOf("spi_init", k)
<1>1. /\ \A r : Owner("SPI0", r) = "spi_init" /\ Owner("PORTC", r) = "spi_init"
      /\ \A pin \in {0, 2, 3} : Owner("PORTD", pin) = "spi_init"
  BY DEF Owner
<1>2. \A pin \in {0, 2, 3} : SettingOf("spi_init", Route("PORTD", pin, 2))
  BY <1>1, SettingForms, InstanceNames
<1>3. SettingOf("spi_init", Route("PORTC", 5, 2))
  BY <1>1, SettingForms, InstanceNames
<1>4. \A r \in {"C1", "C2", "BR"} : \A word \in SUBSET (0 .. 7) : SettingOf("spi_init", Full("SPI0", r, word))
  BY <1>1, SettingForms, InstanceNames, ZenonT(60) DEF Volatile, Attended
<1>5. {1, 4, 6} \in SUBSET (0 .. 7) /\ {4} \in SUBSET (0 .. 7) /\ {2} \in SUBSET (0 .. 7)
  OBVIOUS
<1> QED
  BY <1>2, <1>3, <1>4, <1>5 DEF SpiSettings

LEMMA UsbSettingsOf == \A k \in UsbSettings : SettingOf("usb_init", k)
<1>1. \A r : Owner("USB0", r) = "usb_init" /\ BitOwner(18) = "usb_init"
  BY DEF Owner, BitOwner
<1>2. SettingOf("usb_init", On("SIM", "SOPT2", {18}))
  BY <1>1, SettingForms
<1>3. SettingOf("usb_init", On("NVIC", "ISER", {24}))
  BY SettingForms
<1>4. \A word \in SUBSET (0 .. 7) : SettingOf("usb_init", Full("USB0", "CONTROL", word))
  BY <1>1, SettingForms, InstanceNames DEF Volatile, Attended
<1>5. {4} \in SUBSET (0 .. 7)
  OBVIOUS
<1>6. SettingOf("usb_init", Setting("USB0", "CTL", (0 .. 7) \ {1}, {0}))
  BY <1>1, AttendedSettings DEF SettingOf, OwnedBy
<1> QED
  BY <1>2, <1>3, <1>4, <1>5, <1>6 DEF UsbSettings

\* What a function promises is of its own registers.
LEMMA SettingsOf ==
  \A f \in {"leds"} \cup Functions : \A rate : \A k \in Settings(f, rate) : SettingOf(f, k)
BY LedSettingsOf, UartSettingsOf, AccelSettingsOf, TouchSettingsOf, SpiSettingsOf, UsbSettingsOf
   DEF Settings, Functions

-----------------------------------------------------------------------------
(* What each function's steps leave behind.                                  *)

\* The j-th of the n steps makes the setting, the later ones keep it.
Lasts(s, n, j, k) ==
  /\ Len(s) = n /\ j \in 1 .. n /\ Makes(s[j], k)
  /\ \A l \in 1 .. n : l > j => Keeps(s[l], k)

LEMMA Delivery == \A s, k, j : \A n \in Nat : Lasts(s, n, j, k) => Delivers(s, k)
BY DEF Lasts, Delivers, Provided

\* Accesses of other registers keep a setting.
LEMMA OtherRegister ==
  \A s, k : s.of # k.of \/ s.reg # k.reg => Keeps(s, k)
BY DEF Keeps

\* The accesses that make a setting.
LEMMA MakesForms ==
  /\ \A port, pin, n : Makes(Set(port, pin, Mux(n)), Route(port, pin, n))
  /\ \A m, r, bits, word : bits \subseteq word => Makes(Or(m, r, word), On(m, r, bits))
  /\ \A m, r, bits, word : bits \subseteq word => Makes(AndNot(m, r, word), Off(m, r, bits))
  /\ \A m, r, word : word \subseteq Instances[m][r] => Makes(Set(m, r, word), Full(m, r, word))
  /\ \A m, r, mask, word : word \subseteq mask => Makes(Set(m, r, word), Setting(m, r, mask, word))
  /\ \A m, r, mask, bits, word : word \cap mask = bits => Makes(Set(m, r, word), Setting(m, r, mask, bits))
<1>1. \A m, r, mask, bits, word : word \cap mask = bits => Makes(Set(m, r, word), Setting(m, r, mask, bits))
  BY DEF Makes, Set, Step, Setting
<1>2. \A port, pin, n : Makes(Set(port, pin, Mux(n)), Route(port, pin, n))
  <2>1. \A n : Mux(n) \cap PORT_PCR.MUX = Mux(n)
    BY PutType DEF Mux
  <2> QED
    BY <1>1, <2>1 DEF Route
<1>3. \A m, r, bits, word : bits \subseteq word => Makes(Or(m, r, word), On(m, r, bits))
  BY DEF Makes, Or, Step, On, Setting
<1>4. \A m, r, bits, word : bits \subseteq word => Makes(AndNot(m, r, word), Off(m, r, bits))
  BY DEF Makes, AndNot, Step, Off, Setting
<1>5. \A m, r, mask, word : word \subseteq mask => Makes(Set(m, r, word), Setting(m, r, mask, word))
  BY <1>1
<1>6. \A m, r, word : word \subseteq Instances[m][r] => Makes(Set(m, r, word), Full(m, r, word))
  BY <1>5 DEF Full
<1> QED
  BY <1>1, <1>2, <1>3, <1>4, <1>5, <1>6

\* The accesses that keep a setting of their own register.
LEMMA KeepsForms ==
  /\ \A m, r, bits, word : Keeps(Or(m, r, word), On(m, r, bits))
  /\ \A m, r, bits, word : word \cap bits = {} => Keeps(AndNot(m, r, word), On(m, r, bits))
  /\ \A m, r, bits, word : Keeps(AndNot(m, r, word), Off(m, r, bits))
  /\ \A m, r, bits, word : word \cap bits = {} => Keeps(Or(m, r, word), Off(m, r, bits))
<1>1. \A m, r, bits, word : Keeps(Or(m, r, word), On(m, r, bits))
  BY DEF Keeps, Or, Step, On, Setting
<1>2. \A m, r, bits, word : word \cap bits = {} => Keeps(AndNot(m, r, word), On(m, r, bits))
  BY DEF Keeps, AndNot, Step, On, Setting
<1>3. \A m, r, bits, word : Keeps(AndNot(m, r, word), Off(m, r, bits))
  BY DEF Keeps, AndNot, Step, Off, Setting
<1>4. \A m, r, bits, word : word \cap bits = {} => Keeps(Or(m, r, word), Off(m, r, bits))
  BY DEF Keeps, Or, Step, Off, Setting
<1> QED
  BY <1>1, <1>2, <1>3, <1>4

LEMMA SettingRegister ==
  /\ \A port, pin, n : Route(port, pin, n).of = port /\ Route(port, pin, n).reg = pin
  /\ \A m, r, bits : On(m, r, bits).of = m /\ On(m, r, bits).reg = r
  /\ \A m, r, bits : Off(m, r, bits).of = m /\ Off(m, r, bits).reg = r
  /\ \A m, r, word : Full(m, r, word).of = m /\ Full(m, r, word).reg = r
  /\ \A m, r, mask, value : Setting(m, r, mask, value).of = m /\ Setting(m, r, mask, value).reg = r
BY SettingFields DEF Route, On, Off, Full

LEMMA AccessRegister ==
  \A m, r, bits, value :
    /\ Set(m, r, bits).of = m /\ Set(m, r, bits).reg = r
    /\ Or(m, r, bits).of = m /\ Or(m, r, bits).reg = r
    /\ AndNot(m, r, bits).of = m /\ AndNot(m, r, bits).reg = r
    /\ Until(m, r, bits, value).of = m /\ Until(m, r, bits, value).reg = r
BY DEF Set, Or, AndNot, Until, Step

\* The words and bits the functions give.
LEMMA Words ==
  /\ Word(20) = {2, 4} /\ Word(82) = {1, 4, 6} /\ Word(16) = {4}
  /\ Put(24 .. 25, 1) = {24} /\ Put(24 .. 25, 2) = {25} /\ Put(26 .. 27, 1) = {26}
  /\ Put(3 .. 4, 1) = {3} /\ Mux(0) = {}
<1>1. \A c : c \in Word(20) <=> c \in {2, 4}
  BY WordBit, Powers
<1>2. \A c : c \in Word(82) <=> c \in {1, 4, 6}
  BY WordBit, Powers
<1>3. \A c : c \in Word(16) <=> c = 4
  BY WordBit, Powers
<1>4. Put(24 .. 25, 1) = {24} /\ Put(24 .. 25, 2) = {24 + 1} /\ Put(26 .. 27, 1) = {26} /\ Put(3 .. 4, 1) = {3}
  <2>1. /\ 24 \in Nat /\ 25 \in Nat /\ 26 \in Nat /\ 27 \in Nat /\ 3 \in Nat /\ 4 \in Nat
        /\ 24 <= 25 /\ 25 <= 24 + 7 /\ 24 + 1 <= 25 /\ 26 <= 27 /\ 27 <= 26 + 7 /\ 3 <= 4 /\ 4 <= 3 + 7
    OBVIOUS
  <2> QED
    BY <2>1, PutSmall, Zenon
<1>5. Mux(0) = {}
  <2>1. 8 \in Nat /\ 10 \in Nat /\ 8 <= 10 /\ 10 <= 8 + 7
    OBVIOUS
  <2>2. Put(8 .. 10, 0) = {}
    BY <2>1, PutSmall, Zenon
  <2> QED
    BY <2>2 DEF Mux, PORT_PCR
<1> QED
  BY <1>1, <1>2, <1>3, <1>4, <1>5

LEMMA UartDelivers == \A rate : \A k \in UartSettings(rate) : Delivers(uart_init(rate), k)
<1> TAKE rate
<1> DEFINE s == uart_init(rate)
<1>1. /\ Len(s) = 16
      /\ s[3] = AndNot("SIM", "SOPT2", SIM_SOPT2.UART0SRC)
      /\ s[4] = Or("SIM", "SOPT2", Put(SIM_SOPT2.UART0SRC, 1))
      /\ s[5] = Set("PORTA", 1, Mux(2)) /\ s[6] = Set("PORTA", 2, Mux(2))
      /\ s[7] = Set("UART0", "C2", {}) /\ s[8] = Set("UART0", "C1", {})
      /\ s[9] = Set("UART0", "C3", {}) /\ s[10] = Set("UART0", "S2", {})
      /\ s[11] = Set("UART0", "C4", Put(UARTLP_C4.OSR, 15))
      /\ s[12] = Set("UART0", "BDH", HighByte(rate)) /\ s[13] = Set("UART0", "BDL", LowByte(rate))
      /\ s[14] = Set("UART0", "C2", UARTLP_C2.RE \cup UARTLP_C2.TE \cup UART_C2.RIE)
      /\ s[15] = Or("NVIC", "ICPR", {INT.UART0 - 16}) /\ s[16] = Or("NVIC", "ISER", {INT.UART0 - 16})
  BY SMTT(60) DEF uart_init, enable_irq, HighByte, LowByte, Divisor
<1> HIDE DEF s
<1>2. /\ SIM_SOPT2.UART0SRC = 26 .. 27 /\ Put(SIM_SOPT2.UART0SRC, 1) = {26} /\ INT.UART0 - 16 = 12
      /\ UARTLP_C2.RE \cup UARTLP_C2.TE \cup UART_C2.RIE = {2, 3, 5}
  BY Words DEF SIM_SOPT2, INT, UARTLP_C2, UART_C2
<1>3. \A l \in 1 .. 16 : /\ l > 4 => s[l].of # "SIM"
                         /\ l > 5 => s[l].of # "PORTA" \/ s[l].reg # 1
                         /\ l > 6 => s[l].of # "PORTA"
                         /\ l > 11 => s[l].reg # "C4"
                         /\ l > 12 => s[l].reg # "BDH"
                         /\ l > 13 => s[l].reg # "BDL"
                         /\ l > 14 => s[l].of # "UART0"
  <2> TAKE l \in 1 .. 16
  <2>1. \/ l <= 4 \/ l = 5 \/ l = 6 \/ l = 7 \/ l = 8 \/ l = 9 \/ l = 10 \/ l = 11 \/ l = 12 \/ l = 13
        \/ l = 14 \/ l = 15 \/ l = 16
    OBVIOUS
  <2> QED
    BY <1>1, <2>1, AccessRegister
<1>4. Delivers(s, On("NVIC", "ISER", {12}))
  <2>1. Makes(s[16], On("NVIC", "ISER", {12}))
    BY <1>1, <1>2, MakesForms
  <2>2. Lasts(s, 16, 16, On("NVIC", "ISER", {12}))
    BY <1>1, <2>1 DEF Lasts
  <2> QED
    BY <2>2, Delivery
<1>5. Delivers(s, On("SIM", "SOPT2", {26}))
  <2>1. Makes(s[4], On("SIM", "SOPT2", {26}))
    BY <1>1, <1>2, MakesForms
  <2>2. \A l \in 1 .. 16 : l > 4 => Keeps(s[l], On("SIM", "SOPT2", {26}))
    BY <1>3, OtherRegister, SettingRegister
  <2>3. Lasts(s, 16, 4, On("SIM", "SOPT2", {26}))
    BY <1>1, <2>1, <2>2 DEF Lasts
  <2> QED
    BY <2>3, Delivery
<1>6. Delivers(s, Off("SIM", "SOPT2", {27}))
  <2>1. Makes(s[3], Off("SIM", "SOPT2", {27}))
    BY <1>1, <1>2, MakesForms
  <2>2. Keeps(s[4], Off("SIM", "SOPT2", {27}))
    BY <1>1, <1>2, KeepsForms
  <2>3. \A l \in 1 .. 16 : l > 4 => Keeps(s[l], Off("SIM", "SOPT2", {27}))
    BY <1>3, OtherRegister, SettingRegister
  <2>4. Lasts(s, 16, 3, Off("SIM", "SOPT2", {27}))
    BY <1>1, <2>1, <2>2, <2>3 DEF Lasts
  <2> QED
    BY <2>4, Delivery
<1>7. Delivers(s, Route("PORTA", 1, 2)) /\ Delivers(s, Route("PORTA", 2, 2))
  <2>1. Makes(s[5], Route("PORTA", 1, 2)) /\ Makes(s[6], Route("PORTA", 2, 2))
    BY <1>1, MakesForms
  <2>2. /\ \A l \in 1 .. 16 : l > 5 => Keeps(s[l], Route("PORTA", 1, 2))
        /\ \A l \in 1 .. 16 : l > 6 => Keeps(s[l], Route("PORTA", 2, 2))
    BY <1>3, OtherRegister, SettingRegister
  <2>3. Lasts(s, 16, 5, Route("PORTA", 1, 2)) /\ Lasts(s, 16, 6, Route("PORTA", 2, 2))
    BY <1>1, <2>1, <2>2 DEF Lasts
  <2> QED
    BY <2>3, Delivery
<1>8. /\ Delivers(s, Full("UART0", "C4", Put(UARTLP_C4.OSR, 15))) /\ Delivers(s, Full("UART0", "BDH", HighByte(rate)))
      /\ Delivers(s, Full("UART0", "BDL", LowByte(rate))) /\ Delivers(s, Setting("UART0", "C2", (0 .. 7) \ {5, 7}, {2, 3}))
  <2>1. /\ Instances["UART0"]["C4"] = 0 .. 7
        /\ Instances["UART0"]["BDH"] = 0 .. 7 /\ Instances["UART0"]["BDL"] = 0 .. 7
    BY InstanceNames, InstanceBits DEF Bytewise
  <2>2. /\ {2, 3, 5} \cap ((0 .. 7) \ {5, 7}) = {2, 3} /\ Put(UARTLP_C4.OSR, 15) \subseteq 0 .. 7
        /\ HighByte(rate) \subseteq 0 .. 7 /\ LowByte(rate) \subseteq 0 .. 7
    BY PutType DEF UARTLP_C4, UARTLP_BDH, UARTLP_BDL, HighByte, LowByte
  <2>3. /\ Makes(s[11], Full("UART0", "C4", Put(UARTLP_C4.OSR, 15)))
        /\ Makes(s[12], Full("UART0", "BDH", HighByte(rate)))
        /\ Makes(s[13], Full("UART0", "BDL", LowByte(rate)))
        /\ Makes(s[14], Setting("UART0", "C2", (0 .. 7) \ {5, 7}, {2, 3}))
    <3>1. \A r \in {"C4", "BDH", "BDL"} : \A word : word \subseteq 0 .. 7 =>
            Makes(Set("UART0", r, word), Full("UART0", r, word))
      BY <2>1, MakesForms
    <3>2. Makes(Set("UART0", "C2", {2, 3, 5}), Setting("UART0", "C2", (0 .. 7) \ {5, 7}, {2, 3}))
      BY <2>2, MakesForms, Zenon
    <3>3. Makes(s[14], Setting("UART0", "C2", (0 .. 7) \ {5, 7}, {2, 3}))
      BY <1>1, <1>2, <3>2, Zenon
    <3>4. Makes(s[11], Full("UART0", "C4", Put(UARTLP_C4.OSR, 15)))
      BY <1>1, <2>2, <3>1, SMTT(60)
    <3>5. Makes(s[12], Full("UART0", "BDH", HighByte(rate)))
      BY <1>1, <2>2, <3>1, SMTT(60)
    <3>6. Makes(s[13], Full("UART0", "BDL", LowByte(rate)))
      BY <1>1, <2>2, <3>1, SMTT(60)
    <3> QED
      BY <3>3, <3>4, <3>5, <3>6
  <2>4. \A word : /\ \A l \in 1 .. 16 : l > 11 => Keeps(s[l], Full("UART0", "C4", word))
                  /\ \A l \in 1 .. 16 : l > 12 => Keeps(s[l], Full("UART0", "BDH", word))
                  /\ \A l \in 1 .. 16 : l > 13 => Keeps(s[l], Full("UART0", "BDL", word))
                  /\ \A l \in 1 .. 16 : l > 14 => Keeps(s[l], Setting("UART0", "C2", (0 .. 7) \ {5, 7}, {2, 3}))
    BY <1>3, OtherRegister, SettingRegister
  <2>5. /\ Lasts(s, 16, 11, Full("UART0", "C4", Put(UARTLP_C4.OSR, 15)))
        /\ Lasts(s, 16, 12, Full("UART0", "BDH", HighByte(rate)))
        /\ Lasts(s, 16, 13, Full("UART0", "BDL", LowByte(rate)))
        /\ Lasts(s, 16, 14, Setting("UART0", "C2", (0 .. 7) \ {5, 7}, {2, 3}))
    BY <1>1, <2>3, <2>4 DEF Lasts
  <2> QED
    BY <2>5, Delivery
<1> QED
  BY <1>4, <1>5, <1>6, <1>7, <1>8 DEF UartSettings, s

LEMMA AccelDelivers == \A k \in AccelSettings : Delivers(i2c_init, k)
<1> DEFINE s == i2c_init
<1>1. /\ Len(s) = 6 /\ s[3] = Set("PORTE", 24, Mux(5)) /\ s[4] = Set("PORTE", 25, Mux(5))
      /\ s[5] = Set("I2C0", "F", Word(20)) /\ s[6] = Set("I2C0", "C1", I2C_C1.IICEN)
  BY DEF i2c_init
<1> HIDE DEF s
<1>2. \A l \in 1 .. 6 : /\ l > 3 => s[l].of # "PORTE" \/ s[l].reg # 24
                        /\ l > 4 => s[l].of # "PORTE"
                        /\ l > 5 => s[l].reg # "F"
  BY <1>1, AccessRegister
<1>3. /\ Instances["I2C0"]["F"] = 0 .. 7 /\ Instances["I2C0"]["C1"] = 0 .. 7
      /\ Word(20) \subseteq 0 .. 7 /\ I2C_C1.IICEN = {7} /\ {7} \subseteq 0 .. 7
  BY InstanceNames, InstanceBits, Words DEF Bytewise, I2C_C1
<1>4. /\ Makes(s[3], Route("PORTE", 24, 5)) /\ Makes(s[4], Route("PORTE", 25, 5))
      /\ Makes(s[5], Full("I2C0", "F", Word(20))) /\ Makes(s[6], Full("I2C0", "C1", {7}))
  BY <1>1, <1>3, MakesForms
<1>5. /\ \A l \in 1 .. 6 : l > 3 => Keeps(s[l], Route("PORTE", 24, 5))
      /\ \A l \in 1 .. 6 : l > 4 => Keeps(s[l], Route("PORTE", 25, 5))
      /\ \A l \in 1 .. 6 : l > 5 => Keeps(s[l], Full("I2C0", "F", Word(20)))
  BY <1>2, OtherRegister, SettingRegister
<1>6. /\ Lasts(s, 6, 3, Route("PORTE", 24, 5)) /\ Lasts(s, 6, 4, Route("PORTE", 25, 5))
      /\ Lasts(s, 6, 5, Full("I2C0", "F", Word(20))) /\ Lasts(s, 6, 6, Full("I2C0", "C1", {7}))
  BY <1>1, <1>4, <1>5 DEF Lasts
<1> QED
  BY <1>6, Delivery DEF AccelSettings, s

LEMMA SpiDelivers == \A k \in SpiSettings : Delivers(spi_init, k)
<1> DEFINE s == spi_init
<1>1. /\ Len(s) = 10 /\ s[4] = Set("PORTD", 0, Mux(2)) /\ s[5] = Set("PORTC", 5, Mux(2))
      /\ s[6] = Set("PORTD", 2, Mux(2)) /\ s[7] = Set("PORTD", 3, Mux(2))
      /\ s[8] = Set("SPI0", "C1", Word(82)) /\ s[9] = Set("SPI0", "C2", Word(16))
      /\ s[10] = Set("SPI0", "BR", Word(4))
  BY DEF spi_init, ClockPin
<1> HIDE DEF s
<1>2. \A l \in 1 .. 10 : /\ l > 4 => s[l].of # "PORTD" \/ s[l].reg # 0
                         /\ l > 5 => s[l].of # "PORTC"
                         /\ l > 6 => s[l].of # "PORTD" \/ s[l].reg # 2
                         /\ l > 7 => s[l].of # "PORTD"
                         /\ l > 8 => s[l].reg # "C1"
                         /\ l > 9 => s[l].reg # "C2"
  <2> TAKE l \in 1 .. 10
  <2>1. l <= 4 \/ l = 5 \/ l = 6 \/ l = 7 \/ l = 8 \/ l = 9 \/ l = 10
    OBVIOUS
  <2> QED
    BY <1>1, <2>1, AccessRegister
<1>3. /\ \A r \in {"C1", "C2", "BR"} : \A word : word \subseteq 0 .. 7 =>
           Makes(Set("SPI0", r, word), Full("SPI0", r, word))
      /\ Word(82) = {1, 4, 6} /\ Word(16) = {4} /\ Word(4) = {2}
      /\ {1, 4, 6} \subseteq 0 .. 7 /\ {4} \subseteq 0 .. 7 /\ {2} \subseteq 0 .. 7
  <2>1. \A r \in {"C1", "C2", "BR"} : Instances["SPI0"][r] = 0 .. 7
    BY InstanceNames, InstanceBits DEF Bytewise
  <2> QED
    BY <2>1, MakesForms, Words, ResetValues
<1>4. /\ Makes(s[4], Route("PORTD", 0, 2)) /\ Makes(s[5], Route("PORTC", 5, 2))
      /\ Makes(s[6], Route("PORTD", 2, 2)) /\ Makes(s[7], Route("PORTD", 3, 2))
      /\ Makes(s[8], Full("SPI0", "C1", {1, 4, 6})) /\ Makes(s[9], Full("SPI0", "C2", {4}))
      /\ Makes(s[10], Full("SPI0", "BR", {2}))
  BY <1>1, <1>3, MakesForms
<1>5. /\ \A l \in 1 .. 10 : l > 4 => Keeps(s[l], Route("PORTD", 0, 2))
      /\ \A l \in 1 .. 10 : l > 5 => Keeps(s[l], Route("PORTC", 5, 2))
      /\ \A l \in 1 .. 10 : l > 6 => Keeps(s[l], Route("PORTD", 2, 2))
      /\ \A l \in 1 .. 10 : l > 7 => Keeps(s[l], Route("PORTD", 3, 2))
      /\ \A l \in 1 .. 10 : l > 8 => Keeps(s[l], Full("SPI0", "C1", {1, 4, 6}))
      /\ \A l \in 1 .. 10 : l > 9 => Keeps(s[l], Full("SPI0", "C2", {4}))
  BY <1>2, OtherRegister, SettingRegister
<1>6. /\ Lasts(s, 10, 4, Route("PORTD", 0, 2)) /\ Lasts(s, 10, 5, Route("PORTC", 5, 2))
      /\ Lasts(s, 10, 6, Route("PORTD", 2, 2)) /\ Lasts(s, 10, 7, Route("PORTD", 3, 2))
      /\ Lasts(s, 10, 8, Full("SPI0", "C1", {1, 4, 6})) /\ Lasts(s, 10, 9, Full("SPI0", "C2", {4}))
      /\ Lasts(s, 10, 10, Full("SPI0", "BR", {2}))
  BY <1>1, <1>4, <1>5 DEF Lasts
<1> QED
  BY <1>6, Delivery DEF SpiSettings, s

LEMMA UsbDelivers == \A k \in UsbSettings : Delivers(usb_init, k)
<1> DEFINE s == usb_init
<1>1. /\ Len(s) = 12 /\ s[1] = Or("SIM", "SOPT2", SIM_SOPT2.USBSRC) /\ s[2] = Or("SIM", "SCGC4", SIM_SCGC4.USBOTG)
      /\ s[3] = Or("USB0", "USBTRC0", USB_USBTRC0.USBRESET)
      /\ s[4] = Until("USB0", "USBTRC0", USB_USBTRC0.USBRESET, {})
      /\ s[5] = Set("USB0", "ISTAT", Word(255)) /\ s[6] = Set("USB0", "INTEN", USB_INTEN.USBRSTEN)
      /\ s[7] = Set("USB0", "USBCTRL", {}) /\ s[8] = Set("USB0", "CONTROL", USB_CONTROL.DPPULLUPNONOTG)
      /\ s[9] = Or("USB0", "USBTRC0", Word(64)) /\ s[10] = Set("USB0", "CTL", USB_CTL.USBENSOFEN)
      /\ s[11] = Or("NVIC", "ICPR", {INT.USB0 - 16}) /\ s[12] = Or("NVIC", "ISER", {INT.USB0 - 16})
  BY SMTT(60) DEF usb_init, enable_irq
<1> HIDE DEF s
<1>2. /\ SIM_SOPT2.USBSRC = {18} /\ USB_CONTROL.DPPULLUPNONOTG = {4} /\ USB_CTL.USBENSOFEN = {0}
      /\ INT.USB0 - 16 = 24 /\ {0} \subseteq (0 .. 7) \ {1} /\ {4} \subseteq 0 .. 7
      /\ Instances["USB0"]["CONTROL"] = 0 .. 7
  BY InstanceNames, InstanceBits DEF Bytewise, SIM_SOPT2, USB_CONTROL, USB_CTL, INT
<1>3. \A l \in 1 .. 12 : /\ l > 1 => s[l].of # "SIM" \/ s[l].reg # "SOPT2"
                         /\ l > 8 => s[l].reg # "CONTROL"
                         /\ l > 10 => s[l].of # "USB0"
  <2> TAKE l \in 1 .. 12
  <2>1. \/ l = 1 \/ l = 2 \/ l = 3 \/ l = 4 \/ l = 5 \/ l = 6 \/ l = 7 \/ l = 8 \/ l = 9 \/ l = 10
        \/ l = 11 \/ l = 12
    OBVIOUS
  <2> QED
    BY <1>1, <2>1, AccessRegister
<1>4. /\ Makes(s[1], On("SIM", "SOPT2", {18})) /\ Makes(s[12], On("NVIC", "ISER", {24}))
      /\ Makes(s[8], Full("USB0", "CONTROL", {4})) /\ Makes(s[10], Setting("USB0", "CTL", (0 .. 7) \ {1}, {0}))
  BY <1>1, <1>2, MakesForms
<1>5. /\ \A l \in 1 .. 12 : l > 1 => Keeps(s[l], On("SIM", "SOPT2", {18}))
      /\ \A l \in 1 .. 12 : l > 8 => Keeps(s[l], Full("USB0", "CONTROL", {4}))
      /\ \A l \in 1 .. 12 : l > 10 => Keeps(s[l], Setting("USB0", "CTL", (0 .. 7) \ {1}, {0}))
  BY <1>3, OtherRegister, SettingRegister
<1>6. /\ Lasts(s, 12, 1, On("SIM", "SOPT2", {18})) /\ Lasts(s, 12, 12, On("NVIC", "ISER", {24}))
      /\ Lasts(s, 12, 8, Full("USB0", "CONTROL", {4})) /\ Lasts(s, 12, 10, Setting("USB0", "CTL", (0 .. 7) \ {1}, {0}))
  BY <1>1, <1>4, <1>5 DEF Lasts
<1> QED
  BY <1>6, Delivery DEF UsbSettings, s

LEMMA TouchDelivers == \A k \in TouchSettings : Delivers(touch_init, k)
<1> DEFINE s == touch_init
<1> DEFINE scan == TSI_GENCS.ESOR \cup Put(TSI_GENCS.REFCHRG, 4) \cup Put(TSI_GENCS.EXTCHRG, 7)
                     \cup Put(TSI_GENCS.PS, 4) \cup Put(TSI_GENCS.NSCN, 11) \cup TSI_GENCS.TSIIEN
                     \cup TSI_GENCS.STPE
<1>1. /\ Len(s) = 7 /\ s[1] = Or("SIM", "SCGC5", SIM_SCGC5.TSI) /\ s[2] = Or("TSI0", "GENCS", scan)
      /\ s[3] = Or("TSI0", "GENCS", TSI_GENCS.TSIEN)
      /\ s[4] = Set("PORTB", 16, Mux(0)) /\ s[5] = Set("PORTB", 17, Mux(0))
      /\ s[6] = Or("NVIC", "ICPR", {INT.TSI0 - 16}) /\ s[7] = Or("NVIC", "ISER", {INT.TSI0 - 16})
  BY SMTT(60) DEF touch_init, enable_irq
<1>2. {6, 28} \subseteq scan /\ TSI_GENCS.TSIEN = {7} /\ INT.TSI0 - 16 = 26
  BY DEF TSI_GENCS, INT
<1> HIDE DEF s, scan
<1>3. \A l \in 1 .. 7 : /\ l > 3 => s[l].of # "TSI0"
                        /\ l > 4 => s[l].of # "PORTB" \/ s[l].reg # 16
                        /\ l > 5 => s[l].of # "PORTB"
  BY <1>1, AccessRegister
<1>4. /\ Makes(s[2], On("TSI0", "GENCS", {6, 28})) /\ Makes(s[3], On("TSI0", "GENCS", {7}))
      /\ Makes(s[4], Route("PORTB", 16, 0)) /\ Makes(s[5], Route("PORTB", 17, 0))
      /\ Makes(s[7], On("NVIC", "ISER", {26}))
  BY <1>1, <1>2, MakesForms
<1>5. /\ \A bits : \A l \in 1 .. 7 : l > 3 => Keeps(s[l], On("TSI0", "GENCS", bits))
      /\ \A l \in 1 .. 7 : l > 4 => Keeps(s[l], Route("PORTB", 16, 0))
      /\ \A l \in 1 .. 7 : l > 5 => Keeps(s[l], Route("PORTB", 17, 0))
  BY <1>3, OtherRegister, SettingRegister
<1>6. Keeps(s[3], On("TSI0", "GENCS", {6, 28}))
  BY <1>1, KeepsForms
<1>7. /\ Lasts(s, 7, 2, On("TSI0", "GENCS", {6, 28})) /\ Lasts(s, 7, 3, On("TSI0", "GENCS", {7}))
      /\ Lasts(s, 7, 4, Route("PORTB", 16, 0)) /\ Lasts(s, 7, 5, Route("PORTB", 17, 0))
      /\ Lasts(s, 7, 7, On("NVIC", "ISER", {26}))
  BY <1>1, <1>4, <1>5, <1>6 DEF Lasts
<1> QED
  BY <1>7, Delivery DEF TouchSettings, s

\* Each function keeps its promises by the time it returns.
LEMMA BodyDelivers ==
  \A f \in Functions : \A rate : \A k \in Settings(f, rate) : Delivers(Body(f, rate), k)
BY UartDelivers, AccelDelivers, TouchDelivers, SpiDelivers, UsbDelivers DEF Body, Settings, Functions

LEMMA ScriptDelivers ==
  ASSUME NEW f \in Functions, NEW rate, NEW k \in Settings(f, rate)
  PROVE  Delivers(Script(f, rate), k)
<1> DEFINE end == Step("done", "", f, {}, {})
<1>1. Body(f, rate) \in Seq(Steps)
  BY BodyType, AccessIsStep
<1>2. end \in Steps /\ end.do = "done"
  <2>1. end.do = "done"
    BY DEF Step
  <2> QED
    BY <2>1, DoneStep
<1> HIDE DEF end
<1>3. <<end>> \in Seq(Steps) /\ Len(<<end>>) = 1 /\ <<end>>[1] = end
  BY <1>2
<1>4. Joined(Script(f, rate), Body(f, rate), <<end>>)
  BY <1>1, <1>3, Appended DEF Script, end
<1>5. \A j \in 1 .. Len(<<end>>) : Keeps(<<end>>[j], k)
  BY <1>2, <1>3 DEF Keeps
<1>6. Delivers(Body(f, rate), k)
  BY BodyDelivers
<1> QED
  BY <1>1, <1>3, <1>4, <1>5, <1>6, DeliversJoined

LEMMA ClocksDeliver ==
  \A k \in {On("SIM", "SOPT2", {16}), On("SIM", "SOPT2", {24}), Off("SIM", "SOPT2", {25})} :
    Delivers(init_clocks, k)
<1> DEFINE s == init_clocks
<1>1. /\ Len(s) = 20 /\ s[4] = Or("SIM", "SOPT2", SIM_SOPT2.PLLFLLSEL)
      /\ s[5] = AndNot("SIM", "SOPT2", Put(SIM_SOPT2.TPMSRC, 2))
      /\ s[6] = Or("SIM", "SOPT2", Put(SIM_SOPT2.TPMSRC, 1))
  BY SMTT(60) DEF init_clocks, UntilExternal
<1>2. \A l \in 1 .. 20 : l > 6 => s[l].of # "SIM"
  BY SMTT(60) DEF init_clocks, UntilExternal, Set, Or, AndNot, Until, Step
<1>3. SIM_SOPT2.PLLFLLSEL = {16} /\ Put(SIM_SOPT2.TPMSRC, 2) = {25} /\ Put(SIM_SOPT2.TPMSRC, 1) = {24}
  BY Words DEF SIM_SOPT2
<1> HIDE DEF s
<1>4. /\ Makes(s[4], On("SIM", "SOPT2", {16})) /\ Makes(s[5], Off("SIM", "SOPT2", {25}))
      /\ Makes(s[6], On("SIM", "SOPT2", {24}))
  BY <1>1, <1>3, MakesForms
<1>5. /\ Keeps(s[5], On("SIM", "SOPT2", {16})) /\ Keeps(s[6], On("SIM", "SOPT2", {16}))
      /\ Keeps(s[6], Off("SIM", "SOPT2", {25}))
  <2>1. {25} \cap {16} = {} /\ {24} \cap {25} = {}
    OBVIOUS
  <2> QED
    BY <1>1, <1>3, <2>1, KeepsForms
<1>6. \A l \in 1 .. 20 : l > 6 => \A bits : /\ Keeps(s[l], On("SIM", "SOPT2", bits))
                                           /\ Keeps(s[l], Off("SIM", "SOPT2", bits))
  BY <1>2, OtherRegister, SettingRegister
<1>7. \A l \in 1 .. 20 : /\ l > 4 => l = 5 \/ l = 6 \/ l > 6
                         /\ l > 5 => l = 6 \/ l > 6
  OBVIOUS
<1>8. /\ Lasts(s, 20, 4, On("SIM", "SOPT2", {16})) /\ Lasts(s, 20, 5, Off("SIM", "SOPT2", {25}))
      /\ Lasts(s, 20, 6, On("SIM", "SOPT2", {24}))
  BY <1>1, <1>4, <1>5, <1>6, <1>7 DEF Lasts
<1> QED
  BY <1>8, Delivery DEF s

LEMMA LedIoDelivers ==
  /\ \A k \in LedSettings : \/ Delivers(init_led_io, k)
                            \/ /\ \A j \in 1 .. 16 : Keeps(init_led_io[j], k)
                               /\ k \in {On("SIM", "SOPT2", {16}), On("SIM", "SOPT2", {24}),
                                         Off("SIM", "SOPT2", {25})}
<1> DEFINE s == init_led_io
<1> DEFINE on == Put(TPM_SC.CMOD, 1) \cup Put(TPM_SC.PS, 0)
<1>1. /\ Len(s) = 16 /\ s[1] = Or("SIM", "SCGC5", LedPorts)
      /\ s[2] = Or("SIM", "SCGC6", SIM_SCGC6.TPM0 \cup SIM_SCGC6.TPM2)
      /\ s[3] = Or("SIM", "SOPT2", Put(SIM_SOPT2.TPMSRC, 1))
      /\ s[4] = Set("PORTB", 18, Mux(3)) /\ s[5] = Set("PORTB", 19, Mux(3)) /\ s[6] = Set("PORTD", 1, Mux(4))
      /\ s[15] = Set("TPM2", "SC", on) /\ s[16] = Set("TPM0", "SC", on)
  BY SMTT(60) DEF init_led_io, RGB_LED
<1>2. \A l \in 1 .. 16 : /\ l > 3 => s[l].of # "SIM"
                         /\ l > 4 => s[l].of # "PORTB" \/ s[l].reg # 18
                         /\ l > 5 => s[l].of # "PORTB"
                         /\ l > 6 => s[l].of # "PORTD"
  BY SMTT(60) DEF init_led_io, RGB_LED, Set, Or, Step
<1>3. on \cap TPM_SC.CMOD = Put(TPM_SC.CMOD, 1)
  <2>1. Put(TPM_SC.CMOD, 1) \subseteq 3 .. 4 /\ Put(TPM_SC.PS, 0) \subseteq 0 .. 2 /\ TPM_SC.CMOD = 3 .. 4
    BY PutType DEF TPM_SC
  <2> QED
    BY <2>1
<1> HIDE DEF s, on
<1>4. /\ Makes(s[4], Route("PORTB", 18, 3)) /\ Makes(s[5], Route("PORTB", 19, 3)) /\ Makes(s[6], Route("PORTD", 1, 4))
      /\ Makes(s[15], Setting("TPM2", "SC", TPM_SC.CMOD, Put(TPM_SC.CMOD, 1)))
      /\ Makes(s[16], Setting("TPM0", "SC", TPM_SC.CMOD, Put(TPM_SC.CMOD, 1)))
  BY <1>1, <1>3, MakesForms
<1>5. /\ \A l \in 1 .. 16 : l > 4 => Keeps(s[l], Route("PORTB", 18, 3))
      /\ \A l \in 1 .. 16 : l > 5 => Keeps(s[l], Route("PORTB", 19, 3))
      /\ \A l \in 1 .. 16 : l > 6 => Keeps(s[l], Route("PORTD", 1, 4))
  BY <1>2, OtherRegister, SettingRegister
<1>6. \A l \in 1 .. 16 : l > 15 => Keeps(s[l], Setting("TPM2", "SC", TPM_SC.CMOD, Put(TPM_SC.CMOD, 1)))
  <2>1. s[16].of # "TPM2"
    BY <1>1, AccessRegister
  <2> QED
    BY <2>1, OtherRegister, SettingFields
<1>7. /\ Lasts(s, 16, 4, Route("PORTB", 18, 3)) /\ Lasts(s, 16, 5, Route("PORTB", 19, 3))
      /\ Lasts(s, 16, 6, Route("PORTD", 1, 4))
      /\ Lasts(s, 16, 15, Setting("TPM2", "SC", TPM_SC.CMOD, Put(TPM_SC.CMOD, 1)))
      /\ Lasts(s, 16, 16, Setting("TPM0", "SC", TPM_SC.CMOD, Put(TPM_SC.CMOD, 1)))
  BY <1>1, <1>4, <1>5, <1>6 DEF Lasts
<1>8. \A j \in 1 .. 16 : /\ Keeps(s[j], On("SIM", "SOPT2", {16})) /\ Keeps(s[j], On("SIM", "SOPT2", {24}))
                         /\ Keeps(s[j], Off("SIM", "SOPT2", {25}))
  <2> TAKE j \in 1 .. 16
  <2>1. CASE j = 3
    <3>1. Put(SIM_SOPT2.TPMSRC, 1) = {24} /\ {24} \cap {25} = {}
      BY Words DEF SIM_SOPT2
    <3> QED
      BY <1>1, <2>1, <3>1, KeepsForms
  <2>2. CASE j # 3
    <3>1. s[j].of # "SIM" \/ s[j].reg # "SOPT2"
      <4>1. j = 1 \/ j = 2 \/ j > 3
        BY <2>2
      <4> QED
        BY <1>1, <1>2, <4>1, AccessRegister
    <3> QED
      BY <3>1, OtherRegister, SettingRegister
  <2> QED
    BY <2>1, <2>2
<1> QED
  BY <1>7, <1>8, Delivery DEF LedSettings, s

LEMMA BoardDelivers == \A k \in LedSettings : Delivers(BoardSteps, k)
<1> TAKE k \in LedSettings
<1>1. init_clocks \in Seq(Steps) /\ init_led_io \in Seq(Steps)
  BY ClocksType, LedIoType, AccessIsStep
<1>2. Joined(BoardSteps, init_clocks, init_led_io)
  BY <1>1, Appended DEF BoardSteps
<1>3. Len(init_led_io) = 16
  BY DEF init_led_io, RGB_LED
<1> QED
  BY <1>1, <1>2, <1>3, ClocksDeliver, LedIoDelivers, DeliversJoined, ZenonT(60)

\* Start-up keeps the promises of init_clocks and init_led_io by the time main begins.
LEMMA ResetDelivers == \A k \in LedSettings : Delivers(_reset_init, k)
<1> DEFINE s == _reset_init
<1>1. /\ DataWords \in Nat /\ Len(s) = DataWords + 39
      /\ \A i \in 1 .. 36 : s[DataWords + 1 + i] = BoardSteps[i]
  BY ResetShape, StartupAssumption
<1>2. s[DataWords + 38] = Other("clear", {}) /\ s[DataWords + 39] = Other("main", {})
  BY ResetShape
<1>3. \A do, bits, k : do \notin {"=", "|=", "&=~"} => Keeps(Other(do, bits), k)
  BY ZenonT(60) DEF Other, Step, Keeps
<1>4. Len(BoardSteps) = 36
  BY BoardType
<1> HIDE DEF s
<1> SUFFICES ASSUME NEW k \in LedSettings PROVE Delivers(s, k)
  BY DEF s
<1>5. Keeps(s[DataWords + 38], k) /\ Keeps(s[DataWords + 39], k)
  BY <1>2, <1>3
<1>6. Delivers(BoardSteps, k)
  BY BoardDelivers
<1>7. PICK j \in 1 .. 36 : Makes(BoardSteps[j], k) /\ \A l \in j + 1 .. 36 : Keeps(BoardSteps[l], k)
  <2>1. \E j \in 1 .. Len(BoardSteps) + 1 - 1 :
          Makes(BoardSteps[j], k) /\ \A l \in j + 1 .. Len(BoardSteps) + 1 - 1 : Keeps(BoardSteps[l], k)
    BY <1>6 DEF Delivers, Provided
  <2>2. Len(BoardSteps) + 1 - 1 = 36
    BY <1>4
  <2> QED
    BY <2>1, <2>2, ZenonT(60)
<1>8. ASSUME NEW l \in DataWords + 1 + j + 1 .. DataWords + 39 PROVE Keeps(s[l], k)
  <2>1. CASE l <= DataWords + 37
    <3>1. l - (DataWords + 1) \in j + 1 .. 36 /\ DataWords + 1 + (l - (DataWords + 1)) = l
          /\ l - (DataWords + 1) \in 1 .. 36
      <4>1. DataWords \in Nat /\ j \in 1 .. 36
        BY <1>1, <1>7
      <4> QED
        BY <2>1, <4>1
    <3>2. s[l] = BoardSteps[l - (DataWords + 1)]
      BY <1>1, <3>1
    <3> QED
      BY <1>7, <3>1, <3>2
  <2>2. CASE l = DataWords + 38 \/ l = DataWords + 39
    BY <1>5, <2>2
  <2>3. l <= DataWords + 37 \/ l = DataWords + 38 \/ l = DataWords + 39
    BY <1>1, <1>7
  <2> QED
    BY <2>1, <2>2, <2>3
<1>9. DataWords + 1 + j \in 1 .. DataWords + 39 /\ Makes(s[DataWords + 1 + j], k)
  <2>1. DataWords + 1 + j \in 1 .. DataWords + 39
    <3>1. DataWords \in Nat /\ j \in 1 .. 36
      BY <1>1, <1>7
    <3> QED
      BY <3>1
  <2>2. s[DataWords + 1 + j] = BoardSteps[j]
    BY <1>1, <1>7
  <2> QED
    BY <1>7, <2>1, <2>2
<1>10. Len(s) + 1 - 1 = DataWords + 39
  BY <1>1
<1> QED
  BY <1>8, <1>9, <1>10 DEF Delivers, Provided

-----------------------------------------------------------------------------
(* The invariant.                                                            *)

LEMMA DueFunctions == TypeInv => Due \subseteq {"leds"} \cup Functions
<1> SUFFICES ASSUME TypeInv PROVE Due \subseteq {"leds"} \cup Functions
  OBVIOUS
<1>1. called \subseteq Functions
  BY DEF TypeInv, TypeOK
<1>2. \A i \in DOMAIN todo : todo[i].do = "done" => todo[i].reg \in Functions
  BY DEF TypeInv, Steps, WellFormed
<1> QED
  BY <1>1, <1>2 DEF Due

LEMMA DueStable == TypeInv => \A f \in Due : \A rate : \A k \in Settings(f, rate) : Stable(k)
BY DueFunctions, SettingsOf DEF SettingOf

\* A step that is executed brings forth what it promised.
LEMMA PopConfigured ==
  ASSUME TypeInv, Configured, todo # <<>>, todo' = Tail(todo), task' # "fault" => task # "fault",
         called' \subseteq Due, baud' = baud,
         \A k : Stable(k) => /\ Makes(todo[1], k) => Holds(regs', k)
                             /\ Holds(regs, k) /\ Keeps(todo[1], k) => Holds(regs', k)
  PROVE  Configured'
<1> SUFFICES ASSUME task' # "fault"
             PROVE  /\ \A f \in Due' : \A k \in Settings(f, baud) : Promised(regs', todo', Len(todo') + 1, k)
                    /\ "uart_init" \in Due' => baud \in BaudRates
  BY DEF Configured
<1>1. todo \in Seq(Steps)
  BY DEF TypeInv
<1>2. /\ Len(todo) \in 1 .. Len(todo) /\ Len(todo') + 1 = Len(todo) /\ Len(todo) \in Nat
      /\ DOMAIN todo = 1 .. Len(todo) /\ DOMAIN todo' = 1 .. Len(todo) - 1
      /\ \A i \in 1 .. Len(todo) - 1 : todo'[i] = todo[i + 1] /\ i + 1 \in 1 .. Len(todo)
  BY <1>1, HeadType
<1>3. Due' \subseteq Due
  <2>1. ASSUME NEW i \in DOMAIN todo' PROVE \E j \in DOMAIN todo : todo'[i] = todo[j]
    BY <1>2
  <2>2. ASSUME NEW i \in DOMAIN todo', todo'[i].do = "done" PROVE todo'[i].reg \in Due
    BY <2>1, <2>2 DEF Due
  <2>3. /\ "leds" \in Due
        /\ Due' = {"leds"} \cup called' \cup {todo'[i].reg : i \in {j \in DOMAIN todo' : todo'[j].do = "done"}}
    BY DEF Due
  <2> QED
    BY <2>2, <2>3
<1>4. ASSUME NEW f \in Due', NEW k \in Settings(f, baud) PROVE Promised(regs', todo', Len(todo') + 1, k)
  <2>1. Promised(regs, todo, Len(todo) + 1, k) /\ Stable(k)
    BY <1>3, <1>4, DueStable DEF Configured
  <2>2. Promised(regs', Tail(todo), Len(todo), k)
    BY <1>1, <1>2, <2>1, PopPromised
  <2> QED
    BY <1>2, <2>2
<1>5. "uart_init" \in Due' => baud \in BaudRates
  BY <1>3 DEF Configured
<1> QED
  BY <1>4, <1>5

LEMMA StoreConfigured ==
  ASSUME TypeInv, Configured, Assign \/ SetBits \/ ClearBits
  PROVE  Configured'
<1>1. todo \in Seq(Steps) /\ Registered(regs)
  BY DEF TypeInv
<1>2. task' = task /\ called' = called /\ baud' = baud /\ called' \subseteq Due /\ todo' = Tail(todo) /\ todo # <<>>
  BY DEF Assign, SetBits, ClearBits, Store, NextIs, history, Due
<1>3. \A k : Stable(k) => /\ Makes(todo[1], k) => Holds(regs', k)
                          /\ Holds(regs, k) /\ Keeps(todo[1], k) => Holds(regs', k)
  BY <1>1, StoreMakes
<1> QED
  BY <1>2, <1>3, PopConfigured

LEMMA PopsConfigured ==
  ASSUME TypeInv, Configured, Order,
         LoopEnds \/ CopyWord \/ ClearBss \/ EnterMain \/ Done
  PROVE  Configured'
<1>1. /\ todo # <<>> /\ todo' = Tail(todo) /\ regs' = regs /\ baud' = baud
      /\ Head(todo).do \in {"while", "copy", "clear", "main", "done"}
      /\ task' = task \/ Head(todo).do = "main"
      /\ called' = called \/ (Head(todo).do = "done" /\ called' = called \cup {Head(todo).reg})
  BY DEF LoopEnds, CopyWord, ClearBss, EnterMain, Done, NextIs, history
<1>2. todo \in Seq(Steps)
  BY DEF TypeInv
<1>3. Head(todo) = todo[1] /\ 1 \in DOMAIN todo
  BY <1>1, <1>2, HeadType
<1>4. \A k : ~Makes(todo[1], k)
  BY <1>1, <1>3 DEF Makes
<1>5. called' \subseteq Due
  BY <1>1, <1>3 DEF Due
<1>6. task' # "fault" => task # "fault"
  BY <1>1, <1>3 DEF Order
<1> QED
  BY <1>1, <1>4, <1>5, <1>6, PopConfigured

LEMMA PushConfigured ==
  ASSUME TypeInv, Configured, Pushes
  PROVE  Configured'
<1> SUFFICES ASSUME task # "fault"
             PROVE  /\ \A f \in Due' : \A k \in Settings(f, baud) : Promised(regs', todo', Len(todo') + 1, k)
                    /\ "uart_init" \in Due' => baud \in BaudRates
  BY DEF Configured, Pushes
<1>1. todo \in Seq(Steps)
  BY DEF TypeInv
<1>2. PICK h \in Seq(Steps) : (\A i \in DOMAIN h : Quiet(h[i])) /\ todo' = h \o todo
  BY DEF Pushes
<1>3. todo' \in Seq(Steps) /\ Joined(todo', h, todo)
  BY <1>1, <1>2, Appended
<1>4. /\ Len(h) \in Nat /\ Len(todo) \in Nat /\ DOMAIN h = 1 .. Len(h) /\ DOMAIN todo = 1 .. Len(todo)
      /\ Len(todo') = Len(h) + Len(todo) /\ DOMAIN todo' = 1 .. Len(h) + Len(todo)
  BY <1>1, <1>2, <1>3, Element DEF Joined
<1>5. ASSUME NEW i \in DOMAIN todo', todo'[i].do = "done" PROVE \E j \in DOMAIN todo : todo[j] = todo'[i]
  <2>1. CASE i \in 1 .. Len(h)
    BY <1>2, <1>3, <1>4, <1>5, <2>1 DEF Joined, Quiet
  <2>2. CASE i > Len(h)
    <3>1. i - Len(h) \in 1 .. Len(todo) /\ Len(h) + (i - Len(h)) = i
      BY <1>4, <2>2
    <3>2. todo'[Len(h) + (i - Len(h))] = todo[i - Len(h)]
      BY <1>3, <3>1 DEF Joined
    <3> QED
      BY <1>4, <3>1, <3>2
  <2> QED
    BY <1>4, <2>1, <2>2
<1>6. Due' \subseteq Due
  <2>1. called' = called
    BY DEF Pushes
  <2> QED
    BY <1>5, <2>1 DEF Due
<1>7. ASSUME NEW f \in Due', NEW k \in Settings(f, baud) PROVE Promised(regs', todo', Len(todo') + 1, k)
  <2>1. Promised(regs, todo, Len(todo) + 1, k) /\ Stable(k)
    BY <1>6, <1>7, DueStable DEF Configured
  <2>2. \A j \in 1 .. Len(h) : Keeps(h[j], k)
    BY <1>2, <1>4, <2>1, QuietKeeps
  <2>3. Len(todo) + 1 \in 1 .. Len(todo) + 1 /\ Len(h) + (Len(todo) + 1) = Len(todo') + 1
    BY <1>4
  <2>4. Promised(regs, todo', Len(h) + (Len(todo) + 1), k)
    BY <1>1, <1>3, <2>1, <2>2, <2>3, PushPromised
  <2>5. Holds(regs, k) => Holds(regs', k)
    BY <2>1, ServicedHolds DEF Pushes
  <2> QED
    BY <2>3, <2>4, <2>5 DEF Promised
<1>8. "uart_init" \in Due' => baud \in BaudRates
  BY <1>6 DEF Configured
<1> QED
  BY <1>7, <1>8

LEMMA RestartConfigured == Restart => Configured'
<1> SUFFICES ASSUME Restart PROVE Configured'
  OBVIOUS
<1>1. todo' = _reset_init /\ called' = {} /\ baud' = 0
  BY DEF Restart
<1>2. \A i \in DOMAIN todo' : todo'[i].do # "done"
  BY <1>1, ResetSteps
<1>3. Due' = {"leds"}
  BY <1>1, <1>2 DEF Due
<1>4. \A k \in LedSettings : Promised(regs', todo', Len(todo') + 1, k)
  BY <1>1, ResetDelivers DEF Delivers, Promised
<1>5. \A rate : Settings("leds", rate) = LedSettings
  BY DEF Settings
<1> QED
  BY <1>3, <1>4, <1>5 DEF Configured

LEMMA CallConfigured ==
  ASSUME TypeInv, Configured, NEW f \in Functions, Call(f)
  PROVE  Configured'
<1>1. /\ task = "main" /\ todo = <<>> /\ f \notin called /\ todo' = Script(f, baud')
      /\ IF f = "uart_init" THEN baud' \in BaudRates ELSE baud' = baud
      /\ UNCHANGED <<regs, called, task>>
  BY DEF Call, Script
<1> DEFINE s == Script(f, baud')
<1>2. /\ s \in Seq(Steps) /\ Len(s) \in Nat /\ DOMAIN s = 1 .. Len(s)
      /\ \A i \in 1 .. Len(s) : StepOf(f, s[i]) /\ (s[i].do = "done" => s[i].reg = f)
  <2>1. /\ s \in Seq(Steps) /\ Len(Body(f, baud')) \in Nat /\ Len(s) = Len(Body(f, baud')) + 1
        /\ DOMAIN s = 1 .. Len(Body(f, baud')) + 1
        /\ s[Len(Body(f, baud')) + 1] = Step("done", "", f, {}, {})
    BY ScriptShape
  <2>2. ASSUME NEW i \in 1 .. Len(Body(f, baud')) PROVE StepOf(f, s[i]) /\ s[i].do # "done"
    <3>1. s[i] = Body(f, baud')[i] /\ Body(f, baud')[i] \in AccessSteps
      BY ScriptShape
    <3>2. DOMAIN Body(f, baud') = 1 .. Len(Body(f, baud'))
      BY BodyType, Element
    <3>3. StepOf(f, Body(f, baud')[i])
      BY <3>2, BodySteps
    <3> QED
      BY <3>1, <3>3 DEF AccessSteps, Accesses
  <2>3. Step("done", "", f, {}, {}).do = "done" /\ Step("done", "", f, {}, {}).reg = f
    BY DEF Step
  <2>4. StepOf(f, Step("done", "", f, {}, {}))
    BY <2>3 DEF StepOf
  <2> HIDE DEF s
  <2> DEFINE n == Len(Body(f, baud'))
  <2>5. n \in Nat /\ Len(s) = n + 1 /\ s[n + 1] = Step("done", "", f, {}, {})
    BY <2>1
  <2>6. \A i \in 1 .. n : StepOf(f, s[i]) /\ s[i].do # "done"
    BY <2>2
  <2>7. s \in Seq(Steps) /\ DOMAIN s = 1 .. Len(s)
    BY <2>1, Element
  <2> HIDE DEF n
  <2>8. Len(s) \in Nat /\ \A i \in 1 .. Len(s) : i \in 1 .. n \/ i = n + 1
    <3>1. n \in Nat /\ Len(s) = n + 1
      BY <2>5
    <3> QED
      BY <3>1
  <2>9. ASSUME NEW i \in 1 .. Len(s) PROVE StepOf(f, s[i]) /\ (s[i].do = "done" => s[i].reg = f)
    <3>1. CASE i = n + 1
      BY <2>3, <2>4, <2>5, <3>1
    <3>2. CASE i \in 1 .. n
      BY <2>6, <3>2
    <3> QED
      BY <2>8, <3>1, <3>2
  <2> QED
    BY <2>7, <2>8, <2>9
<1>3. todo' = s
  BY <1>1
<1> HIDE DEF s
<1>4. Len(todo) = 0
  BY <1>1
<1>5. Due' \subseteq Due \cup {f} /\ Due = {"leds"} \cup called
  <2>1. \A i \in DOMAIN todo' : todo'[i].do = "done" => todo'[i].reg = f
    BY <1>2, <1>3
  <2> QED
    BY <1>1, <2>1 DEF Due
<1>6. f \notin Due
  BY <1>1, <1>5 DEF Functions
<1>7. ASSUME NEW g \in Due, NEW k \in Settings(g, baud') PROVE Promised(regs, s, Len(s) + 1, k)
  <2>1. Settings(g, baud') = Settings(g, baud)
    <3>1. g # "uart_init" \/ baud' = baud
      BY <1>1, <1>6, <1>7
    <3> QED
      BY <3>1 DEF Settings
  <2>2. Promised(regs, todo, 1, k)
    BY <1>1, <1>4, <1>7, <2>1 DEF Configured
  <2>3. Holds(regs, k) /\ SettingOf(g, k)
    BY <1>7, <2>2, FirstPromised, DueFunctions, SettingsOf
  <2>4. \A j \in 1 .. Len(s) : Keeps(s[j], k)
    BY <1>2, <1>6, <1>7, <2>3, KeepsOthers
  <2>5. Len(s) + 1 - 1 = Len(s)
    BY <1>2
  <2> QED
    BY <2>3, <2>4, <2>5 DEF Promised
<1>8. ASSUME NEW k \in Settings(f, baud') PROVE Promised(regs, s, Len(s) + 1, k)
  BY <1>8, ScriptDelivers DEF Delivers, Promised, s
<1>9. "uart_init" \in Due' => baud' \in BaudRates
  BY <1>1, <1>5 DEF Configured
<1> QED
  BY <1>1, <1>3, <1>5, <1>7, <1>8, <1>9 DEF Configured

LEMMA ConfiguredStep == TypeInv /\ Order /\ Configured /\ [Next]_vars => Configured'
<1> SUFFICES ASSUME TypeInv, Order, Configured, [Next]_vars PROVE Configured'
  OBVIOUS
<1>1. CASE Assign \/ SetBits \/ ClearBits
  BY <1>1, StoreConfigured
<1>2. CASE LoopEnds \/ CopyWord \/ ClearBss \/ EnterMain \/ Done
  BY <1>2, PopsConfigured
<1>3. CASE FaultTurn
  BY <1>3 DEF FaultTurn, Configured
<1>4. CASE Pushes
  BY <1>4, PushConfigured
<1>5. CASE Restart
  BY <1>5, RestartConfigured
<1>6. CASE Hardware
  <2>1. /\ UNCHANGED <<todo, task, called, baud>>
        /\ \A n \in DOMAIN Instances : \A q \in DOMAIN Instances[n] :
             ~Volatile(n, q) => regs'[n][q] = regs[n][q]
    BY <1>6, HardwareWords DEF TypeInv, cpu, history
  <2>2. \A k : Stable(k) => (Holds(regs, k) => Holds(regs', k))
    BY <2>1 DEF Stable, Holds
  <2>3. \A k : Stable(k) => \A s, i : Promised(regs, s, i, k) => Promised(regs', s, i, k)
    BY <2>2 DEF Promised
  <2>4. Due' = Due
    BY <2>1 DEF Due
  <2>5. \A f \in Due : \A k \in Settings(f, baud) : Stable(k)
    BY DueStable
  <2> QED
    BY <2>1, <2>3, <2>4, <2>5 DEF Configured
<1>7. CASE UNCHANGED vars
  BY <1>7 DEF vars, cpu, history, Configured, Due
<1>8. ASSUME NEW f \in Functions, Call(f) PROVE Configured'
  BY <1>8, CallConfigured
<1> QED
  BY <1>1, <1>2, <1>3, <1>4, <1>5, <1>6, <1>7, <1>8, StepCases

LEMMA ConfiguredInvariant == Spec => [](TypeInv /\ Configured)
<1>1. Init => Configured
  <2> SUFFICES ASSUME Init PROVE Configured
    OBVIOUS
  <2>1. todo = _reset_init /\ called = {} /\ baud = 0
    BY DEF Init
  <2>2. Due = {"leds"}
    BY <2>1, ResetSteps DEF Due
  <2>3. \A k \in LedSettings : Promised(regs, todo, Len(todo) + 1, k)
    BY <2>1, ResetDelivers DEF Delivers, Promised
  <2>4. \A rate : Settings("leds", rate) = LedSettings
    BY DEF Settings
  <2> QED
    BY <2>2, <2>3, <2>4 DEF Configured
<1>2. TypeInv /\ Order /\ Clean /\ Configured /\ [Next]_vars => Configured'
  BY ConfiguredStep
<1> QED
  BY <1>1, <1>2, OrderInvariant, PTL DEF Spec

-----------------------------------------------------------------------------
(* The numbers in the drivers' fields.                                       *)

Divisors == {q \in Nat : 1 <= q /\ q <= 8191}

\* A rate whose divisor of 3 MHz has 13 bits and brings the UART within 2.5 % of it.
Reachable(rate) ==
  LET q == 3000000 \div rate
  IN  q \in Divisors /\ Near(48000000 \div (16 * q), rate)

\* The numbers in the fields the drivers set.
LEMMA DriverNumbers ==
  /\ \A n \in 0 .. 7 : Reads(8, 10, n)
  /\ Reads(3, 4, 1) /\ Reads(24, 25, 1) /\ Reads(26, 27, 1) /\ Reads(0, 5, 20)
  /\ Reads(0, 3, 4) /\ Reads(4, 6, 0)
  /\ \A x \in 0 .. 31 : Reads(0, 4, x)
  /\ \A x \in 0 .. 255 : Reads(0, 7, x)
<1>1. \A n \in 0 .. 7 : Fits(8, 10, n)
  BY Powers DEF Fits
<1>2. Fits(3, 4, 1) /\ Fits(24, 25, 1) /\ Fits(26, 27, 1) /\ Fits(4, 6, 0)
  BY SmallFits
<1>3. Fits(0, 5, 20) /\ Fits(0, 3, 4)
  BY Powers DEF Fits
<1>4. \A x \in 0 .. 31 : Fits(0, 4, x)
  BY Powers DEF Fits
<1>5. \A x \in 0 .. 255 : Fits(0, 7, x)
  BY Powers DEF Fits
<1> QED
  BY <1>1, <1>2, <1>3, <1>4, <1>5, FitsReads

LEMMA DriverBits ==
  /\ Put(24 .. 25, 1) = {24} /\ Put(26 .. 27, 1) = {26}
  /\ Put(0 .. 3, 4) = {2} /\ Put(4 .. 6, 0) = {} /\ Put(0 .. 5, 20) = {2, 4}
<1>1. Put(0 .. 3, 4) = {2} /\ Put(4 .. 6, 0) = {}
  <2>1. 0 \in Nat /\ 3 \in Nat /\ 4 \in Nat /\ 6 \in Nat /\ 0 <= 3 /\ 3 <= 0 + 7 /\ 0 + 2 <= 3 /\ 4 <= 6 /\ 6 <= 4 + 7
    OBVIOUS
  <2>2. Put(0 .. 3, 4) = {0 + 2} /\ Put(4 .. 6, 0) = {}
    BY <2>1, PutSmall, Zenon
  <2> QED
    BY <2>2
<1>2. \A c : c \in Put(0 .. 5, 20) <=> c \in {2, 4}
  <2>1. \A c \in 0 .. 5 : c - 0 = c
    OBVIOUS
  <2>2. \A c : c \in Put(0 .. 5, 20) <=> c \in 0 .. 5 /\ (20 \div Two(c)) % 2 = 1
    BY <2>1, LowestBit DEF Put, Two
  <2> QED
    BY <2>2, Powers
<1> QED
  BY <1>1, <1>2, Words

LEMMA RouteReads ==
  ASSUME NEW port, NEW pin, NEW n \in 0 .. 7, Holds(regs, Route(port, pin, n))
  PROVE  MuxOf(port, pin) = n
<1>1. PORT_PCR.MUX = 8 .. 10
  BY DEF PORT_PCR
<1>2. regs[port][pin] \cap (8 .. 10) = Put(8 .. 10, n)
  <2>1. LET k == Route(port, pin, n) IN k.of = port /\ k.reg = pin /\ k.mask = 8 .. 10 /\ k.value = Put(8 .. 10, n)
    BY <1>1, SettingFields DEF Route, Mux
  <2> QED
    BY <2>1 DEF Holds
<1> QED
  BY <1>1, <1>2, DriverNumbers, ZenonT(60) DEF Reads, MuxOf

LEMMA FullReads ==
  ASSUME Registered(regs), NEW m \in DOMAIN Instances, NEW r \in DOMAIN Instances[m], NEW word,
         Holds(regs, Full(m, r, word))
  PROVE  regs[m][r] = word
<1>1. regs[m][r] \subseteq Instances[m][r]
  BY DEF Registered
<1>2. regs[m][r] \cap Instances[m][r] = word
  <2>1. LET k == Full(m, r, word)
        IN  k.of = m /\ k.reg = r /\ k.mask = Instances[m][r] /\ k.value = word
    BY SettingFields DEF Full
  <2> QED
    BY <2>1 DEF Holds
<1> QED
  BY <1>1, <1>2

LEMMA OnReads ==
  \A m, r, bits : /\ Holds(regs, On(m, r, bits)) <=> bits \subseteq regs[m][r]
                  /\ Holds(regs, Off(m, r, bits)) <=> bits \cap regs[m][r] = {}
BY SettingFields DEF Holds, On, Off

LEMMA HalvesOf ==
  \A x \in Divisors : /\ x \div 256 \in 0 .. 31 /\ x % 256 \in 0 .. 255 /\ x = 256 * (x \div 256) + (x % 256)
                      /\ x \div 256 = (x \div 256) \div 1 /\ x \div 512 = (x \div 256) \div 2
                      /\ x \div 1024 = (x \div 256) \div 4 /\ x \div 2048 = (x \div 256) \div 8
                      /\ x \div 4096 = (x \div 256) \div 16
<1> SUFFICES ASSUME NEW x \in Divisors
             PROVE  /\ x \div 256 \in 0 .. 31 /\ x % 256 \in 0 .. 255 /\ x = 256 * (x \div 256) + (x % 256)
                    /\ x \div 256 = (x \div 256) \div 1 /\ x \div 512 = (x \div 256) \div 2
                    /\ x \div 1024 = (x \div 256) \div 4 /\ x \div 2048 = (x \div 256) \div 8
                    /\ x \div 4096 = (x \div 256) \div 16
  OBVIOUS
<1>1. x \div 256 \in 0 .. 31 /\ x % 256 \in 0 .. 255
  BY SMT DEF Divisors
<1>2. x = 256 * (x \div 256) + (x % 256)
  BY SMT DEF Divisors
<1>3. x \div 256 = (x \div 256) \div 1 /\ x \div 512 = (x \div 256) \div 2
  BY SMT DEF Divisors
<1>4. x \div 1024 = (x \div 256) \div 4 /\ x \div 2048 = (x \div 256) \div 8
  BY SMT DEF Divisors
<1>5. x \div 4096 = (x \div 256) \div 16
  BY SMT DEF Divisors
<1> QED
  BY <1>1, <1>2, <1>3, <1>4, <1>5, SMT

LEMMA LowDigits ==
  \A x \in Divisors :
    /\ (x \div 1) % 2 = ((x % 256) \div 1) % 2 /\ (x \div 2) % 2 = ((x % 256) \div 2) % 2
    /\ (x \div 4) % 2 = ((x % 256) \div 4) % 2 /\ (x \div 8) % 2 = ((x % 256) \div 8) % 2
    /\ (x \div 16) % 2 = ((x % 256) \div 16) % 2 /\ (x \div 32) % 2 = ((x % 256) \div 32) % 2
    /\ (x \div 64) % 2 = ((x % 256) \div 64) % 2 /\ (x \div 128) % 2 = ((x % 256) \div 128) % 2
BY SMT DEF Divisors

\* Bits 8 to 12 of a divisor, and bits 0 to 7.
High(q) == {b - 8 : b \in (Word(q) \cap 0 .. 15) \cap 8 .. 15} \cap 0 .. 4
Low(q) == (Word(q) \cap 0 .. 15) \cap 0 .. 7

LEMMA HighIs == ASSUME NEW q \in Divisors PROVE High(q) = Put(0 .. 4, q \div 256)
<1>1. \A c : c \in Word(q) <=> c \in 0 .. 30 /\ (q \div Two(c)) % 2 = 1
  BY WordBit
<1>2. \A x, c : c \in Put(0 .. 4, x) <=> c \in 0 .. 4 /\ (x \div Two(c)) % 2 = 1
  <2>1. \A c \in 0 .. 4 : c - 0 = c
    OBVIOUS
  <2> QED
    BY <2>1, LowestBit DEF Put, Two
<1>3. ASSUME NEW c \in 0 .. 4 PROVE q \div Two(c + 8) = (q \div 256) \div Two(c)
  <2>1. c = 0 \/ c = 1 \/ c = 2 \/ c = 3 \/ c = 4
    OBVIOUS
  <2>2. /\ q \div 256 = (q \div 256) \div 1 /\ q \div 512 = (q \div 256) \div 2
        /\ q \div 1024 = (q \div 256) \div 4 /\ q \div 2048 = (q \div 256) \div 8
        /\ q \div 4096 = (q \div 256) \div 16
    BY HalvesOf
  <2>3. 0 + 8 = 8 /\ 1 + 8 = 9 /\ 2 + 8 = 10 /\ 3 + 8 = 11 /\ 4 + 8 = 12
    OBVIOUS
  <2> QED
    BY <2>1, <2>2, <2>3, Powers, SMT
<1>4. ASSUME NEW c PROVE c \in High(q) <=> c \in 0 .. 4 /\ c + 8 \in Word(q)
  <2>1. c \in High(q) <=> c \in 0 .. 4 /\ \E b \in (Word(q) \cap 0 .. 15) \cap 8 .. 15 : c = b - 8
    BY DEF High
  <2>2. c \in 0 .. 4 => c + 8 \in 8 .. 15 /\ c + 8 \in 0 .. 15 /\ c = (c + 8) - 8
    BY SMT
  <2>3. \A b \in 8 .. 15 : c = b - 8 => c + 8 = b
    BY SMT
  <2> QED
    BY <2>1, <2>2, <2>3
<1>5. \A c \in 0 .. 4 : c + 8 \in 0 .. 30
  BY SMT
<1>6. \A c : c \in High(q) <=> c \in Put(0 .. 4, q \div 256)
  BY <1>1, <1>2, <1>3, <1>4, <1>5
<1> QED
  BY <1>6

LEMMA LowIs == ASSUME NEW q \in Divisors PROVE Low(q) = Put(0 .. 7, q % 256)
<1>1. \A c : c \in Word(q) <=> c \in 0 .. 30 /\ (q \div Two(c)) % 2 = 1
  BY WordBit
<1>2. \A x, c : c \in Put(0 .. 7, x) <=> c \in 0 .. 7 /\ (x \div Two(c)) % 2 = 1
  <2>1. \A c \in 0 .. 7 : c - 0 = c
    OBVIOUS
  <2> QED
    BY <2>1, LowestBit DEF Put, Two
<1>3. ASSUME NEW c \in 0 .. 7 PROVE (q \div Two(c)) % 2 = ((q % 256) \div Two(c)) % 2
  <2>1. c = 0 \/ c = 1 \/ c = 2 \/ c = 3 \/ c = 4 \/ c = 5 \/ c = 6 \/ c = 7
    OBVIOUS
  <2>2. \A n \in 0 .. 7 : Two(n) = <<1, 2, 4, 8, 16, 32, 64, 128>>[n + 1]
    BY Powers, SMT
  <2> QED
    BY <2>1, LowDigits, Powers, SMT
<1>4. \A c : c \in 0 .. 7 => c \in 0 .. 15 /\ c \in 0 .. 30
  OBVIOUS
<1>5. \A c : c \in Low(q) <=> c \in Put(0 .. 7, q % 256)
  BY <1>1, <1>2, <1>3, <1>4 DEF Low
<1> QED
  BY <1>5

\* The two bytes of the divisor.
LEMMA DivisorBytes ==
  ASSUME NEW q \in Divisors
  PROVE  /\ Get(High(q), 0 .. 4) = q \div 256 /\ Get(Low(q), 0 .. 7) = q % 256
         /\ 256 * Get(High(q), 0 .. 4) + Get(Low(q), 0 .. 7) = q
<1>1. q \div 256 \in 0 .. 31 /\ q % 256 \in 0 .. 255 /\ q = 256 * (q \div 256) + (q % 256)
  BY HalvesOf
<1>2. Reads(0, 4, q \div 256) /\ Reads(0, 7, q % 256)
  BY <1>1, DriverNumbers
<1>3. High(q) \cap (0 .. 4) = High(q) /\ Low(q) \cap (0 .. 7) = Low(q)
  BY DEF High, Low
<1>4. Get(High(q), 0 .. 4) = q \div 256
  BY <1>2, <1>3, HighIs DEF Reads
<1>5. Get(Low(q), 0 .. 7) = q % 256
  BY <1>2, <1>3, LowIs DEF Reads
<1> QED
  BY <1>1, <1>4, <1>5, SMT

\* When main has returned from its calls, every promise is kept.
LEMMA Kept ==
  ASSUME TypeInv, Configured, task = "main", todo = <<>>
  PROVE  /\ \A f \in {"leds"} \cup called : \A k \in Settings(f, baud) : Holds(regs, k)
         /\ "uart_init" \in called => baud \in BaudRates
<1>1. Len(todo) = 0 /\ {"leds"} \cup called \subseteq Due
  BY DEF Due
<1>2. \A f \in Due : \A k \in Settings(f, baud) : Promised(regs, todo, 1, k)
  BY <1>1 DEF Configured
<1> QED
  BY <1>1, <1>2, FirstPromised DEF Configured

LEMMA LedsConfigured ==
  ASSUME \A k \in LedSettings : Holds(regs, k)
  PROVE  /\ MuxOf("PORTB", 18) = 3 /\ MuxOf("PORTB", 19) = 3 /\ MuxOf("PORTD", 1) = 4
         /\ \A t \in {"TPM0", "TPM2"} : Get(regs[t]["SC"], TPM_SC.CMOD) = 1
         /\ Get(regs["SIM"]["SOPT2"], SIM_SOPT2.TPMSRC) = 1
         /\ Has(regs["SIM"]["SOPT2"], SIM_SOPT2.PLLFLLSEL)
<1>1. MuxOf("PORTB", 18) = 3 /\ MuxOf("PORTB", 19) = 3 /\ MuxOf("PORTD", 1) = 4
  BY RouteReads DEF LedSettings
<1>2. ASSUME NEW t \in {"TPM0", "TPM2"} PROVE Get(regs[t]["SC"], TPM_SC.CMOD) = 1
  <2>1. TPM_SC.CMOD = 3 .. 4
    BY DEF TPM_SC
  <2>2. Holds(regs, Setting(t, "SC", TPM_SC.CMOD, Put(TPM_SC.CMOD, 1)))
    BY DEF LedSettings
  <2>3. regs[t]["SC"] \cap (3 .. 4) = Put(3 .. 4, 1)
    BY <2>1, <2>2, SettingFields, SMTT(60) DEF Holds
  <2> QED
    BY <2>1, <2>3, DriverNumbers, ZenonT(60) DEF Reads
<1>3. {16} \subseteq regs["SIM"]["SOPT2"] /\ {24} \subseteq regs["SIM"]["SOPT2"] /\ {25} \cap regs["SIM"]["SOPT2"] = {}
  BY OnReads DEF LedSettings
<1>4. Get(regs["SIM"]["SOPT2"], SIM_SOPT2.TPMSRC) = 1
  <2>1. SIM_SOPT2.TPMSRC = 24 .. 25
    BY DEF SIM_SOPT2
  <2>2. regs["SIM"]["SOPT2"] \cap (24 .. 25) = {24}
    BY <1>3
  <2>3. Reads(24, 25, 1) /\ Put(24 .. 25, 1) = {24}
    BY DriverNumbers, DriverBits
  <2>4. Get(regs["SIM"]["SOPT2"], 24 .. 25) = 1
    BY <2>2, <2>3 DEF Reads
  <2> QED
    BY <2>1, <2>4
<1>5. Has(regs["SIM"]["SOPT2"], SIM_SOPT2.PLLFLLSEL)
  BY <1>3 DEF Has, SIM_SOPT2
<1> QED
  BY <1>1, <1>2, <1>4, <1>5

Quotient(rate) == 3000000 \div rate

LEMMA UartConfigured ==
  ASSUME TypeInv, \A k \in UartSettings(baud) : Holds(regs, k), NEW q \in Divisors, q = Quotient(baud)
  PROVE  /\ MuxOf("PORTA", 1) = 2 /\ MuxOf("PORTA", 2) = 2 /\ Enabled(INT.UART0)
         /\ Get(regs["SIM"]["SOPT2"], SIM_SOPT2.UART0SRC) = 1
         /\ regs["UART0"]["C2"] \ (UART_C2.RIE \cup UART_C2.TIE) = UARTLP_C2.RE \cup UARTLP_C2.TE
         /\ 256 * Get(regs["UART0"]["BDH"], UARTLP_BDH.SBR) + Get(regs["UART0"]["BDL"], UARTLP_BDL.SBR) = q
         /\ 1 + Get(regs["UART0"]["C4"], UARTLP_C4.OSR) = 16
<1>1. MuxOf("PORTA", 1) = 2 /\ MuxOf("PORTA", 2) = 2
  BY RouteReads DEF UartSettings
<1>2. {12} \subseteq regs["NVIC"]["ISER"] /\ {26} \subseteq regs["SIM"]["SOPT2"] /\ {27} \cap regs["SIM"]["SOPT2"] = {}
  BY OnReads DEF UartSettings
<1>3. Enabled(INT.UART0)
  BY <1>2 DEF Enabled, INT
<1>4. Get(regs["SIM"]["SOPT2"], SIM_SOPT2.UART0SRC) = 1
  <2>1. SIM_SOPT2.UART0SRC = 26 .. 27
    BY DEF SIM_SOPT2
  <2>2. regs["SIM"]["SOPT2"] \cap (26 .. 27) = {26}
    BY <1>2
  <2>3. Reads(26, 27, 1) /\ Put(26 .. 27, 1) = {26}
    BY DriverNumbers, DriverBits
  <2>4. Get(regs["SIM"]["SOPT2"], 26 .. 27) = 1
    BY <2>2, <2>3 DEF Reads
  <2> QED
    BY <2>1, <2>4
<1>5. /\ regs["UART0"]["C4"] = Put(UARTLP_C4.OSR, 15)
      /\ regs["UART0"]["BDH"] = HighByte(baud) /\ regs["UART0"]["BDL"] = LowByte(baud)
  <2>1. /\ Holds(regs, Full("UART0", "C4", Put(UARTLP_C4.OSR, 15)))
        /\ Holds(regs, Full("UART0", "BDH", HighByte(baud))) /\ Holds(regs, Full("UART0", "BDL", LowByte(baud)))
    BY DEF UartSettings
  <2>2. Registered(regs) /\ "UART0" \in DOMAIN Instances /\ {"C4", "BDH", "BDL"} \subseteq DOMAIN Instances["UART0"]
    BY InstanceNames DEF TypeInv
  <2> QED
    BY <2>1, <2>2, FullReads
<1>6. regs["UART0"]["C2"] \ (UART_C2.RIE \cup UART_C2.TIE) = UARTLP_C2.RE \cup UARTLP_C2.TE
  <2>1. regs["UART0"]["C2"] \subseteq 0 .. 7
    BY InstanceNames, InstanceBits DEF TypeInv, Registered, Bytewise
  <2>2. regs["UART0"]["C2"] \cap ((0 .. 7) \ {5, 7}) = {2, 3}
    <3>1. Holds(regs, Setting("UART0", "C2", (0 .. 7) \ {5, 7}, {2, 3}))
      BY DEF UartSettings
    <3>2. LET k == Setting("UART0", "C2", (0 .. 7) \ {5, 7}, {2, 3})
          IN  k.of = "UART0" /\ k.reg = "C2" /\ k.mask = (0 .. 7) \ {5, 7} /\ k.value = {2, 3}
      BY SettingFields
    <3> QED
      BY <3>1, <3>2 DEF Holds
  <2>3. regs["UART0"]["C2"] \ {5, 7} = {2, 3}
    BY <2>1, <2>2
  <2> QED
    BY <2>3 DEF UARTLP_C2, UART_C2
<1>7. UARTLP_BDH.SBR = 0 .. 4 /\ UARTLP_BDL.SBR = 0 .. 7 /\ UARTLP_C4.OSR = 0 .. 4
  BY DEF UARTLP_BDH, UARTLP_BDL, UARTLP_C4
<1>8. HighByte(baud) = High(q) /\ LowByte(baud) = Low(q)
  BY <1>7, SMT DEF HighByte, LowByte, Divisor, High, Low, Quotient
<1>10. 256 * Get(regs["UART0"]["BDH"], UARTLP_BDH.SBR) + Get(regs["UART0"]["BDL"], UARTLP_BDL.SBR) = q
  BY <1>5, <1>7, <1>8, DivisorBytes, SMT
<1>11. 1 + Get(regs["UART0"]["C4"], UARTLP_C4.OSR) = 16
  <2>1. Put(0 .. 4, 15) \cap (0 .. 4) = Put(0 .. 4, 15)
    BY PutType
  <2>2. Reads(0, 4, 15)
    BY DriverNumbers
  <2>3. Get(Put(0 .. 4, 15), 0 .. 4) = 15
    BY <2>1, <2>2 DEF Reads
  <2> QED
    BY <1>5, <1>7, <2>3
<1> QED
  BY <1>1, <1>3, <1>4, <1>6, <1>10, <1>11

LEMMA AccelConfigured ==
  ASSUME TypeInv, \A k \in AccelSettings : Holds(regs, k)
  PROVE  /\ MuxOf("PORTE", 24) = 5 /\ MuxOf("PORTE", 25) = 5
         /\ regs["I2C0"]["C1"] = I2C_C1.IICEN /\ Get(regs["I2C0"]["F"], I2C_F.ICR) = 20
<1>1. MuxOf("PORTE", 24) = 5 /\ MuxOf("PORTE", 25) = 5
  BY RouteReads DEF AccelSettings
<1>2. regs["I2C0"]["F"] = Word(20) /\ regs["I2C0"]["C1"] = {7}
  <2>1. Holds(regs, Full("I2C0", "F", Word(20))) /\ Holds(regs, Full("I2C0", "C1", {7}))
    BY DEF AccelSettings
  <2>2. Registered(regs) /\ "I2C0" \in DOMAIN Instances /\ {"F", "C1"} \subseteq DOMAIN Instances["I2C0"]
    BY InstanceNames DEF TypeInv
  <2> QED
    BY <2>1, <2>2, FullReads
<1>3. I2C_F.ICR = 0 .. 5 /\ I2C_C1.IICEN = {7}
  BY DEF I2C_F, I2C_C1
<1>4. {2, 4} \cap (0 .. 5) = {2, 4}
  OBVIOUS
<1>5. Get(regs["I2C0"]["F"], 0 .. 5) = 20
  <2>1. Reads(0, 5, 20) /\ Put(0 .. 5, 20) = {2, 4} /\ Word(20) = {2, 4}
    BY DriverNumbers, DriverBits, Words
  <2> QED
    BY <1>2, <1>4, <2>1 DEF Reads
<1> QED
  BY <1>1, <1>2, <1>3, <1>5

LEMMA TouchConfigured ==
  ASSUME \A k \in TouchSettings : Holds(regs, k)
  PROVE  /\ MuxOf("PORTB", 16) = 0 /\ MuxOf("PORTB", 17) = 0 /\ Enabled(INT.TSI0)
         /\ TSI_GENCS.TSIEN \cup TSI_GENCS.TSIIEN \cup TSI_GENCS.ESOR \subseteq regs["TSI0"]["GENCS"]
<1>1. MuxOf("PORTB", 16) = 0 /\ MuxOf("PORTB", 17) = 0
  BY RouteReads DEF TouchSettings
<1>2. {26} \subseteq regs["NVIC"]["ISER"] /\ {6, 28} \subseteq regs["TSI0"]["GENCS"] /\ {7} \subseteq regs["TSI0"]["GENCS"]
  BY OnReads DEF TouchSettings
<1>3. Enabled(INT.TSI0)
  BY <1>2 DEF Enabled, INT
<1>4. TSI_GENCS.TSIEN = {7} /\ TSI_GENCS.TSIIEN = {6} /\ TSI_GENCS.ESOR = {28}
  BY DEF TSI_GENCS
<1> QED
  BY <1>1, <1>2, <1>3, <1>4

LEMMA SpiConfigured ==
  ASSUME TypeInv, \A k \in SpiSettings : Holds(regs, k)
  PROVE  /\ \A pin \in {0, 2, 3} : MuxOf("PORTD", pin) = 2
         /\ MuxOf("PORTC", 5) = 2
         /\ regs["SPI0"]["C1"] = SPI_C1.SPE \cup SPI_C1.MSTR \cup SPI_C1.SSOE
         /\ regs["SPI0"]["C2"] = SPI_C2.MODFEN
         /\ (1 + Get(regs["SPI0"]["BR"], SPI_BR.SPPR)) * 2 ^ (1 + Get(regs["SPI0"]["BR"], SPI_BR.SPR)) = 32
<1>1. (\A pin \in {0, 2, 3} : MuxOf("PORTD", pin) = 2) /\ MuxOf("PORTC", 5) = 2
  BY RouteReads DEF SpiSettings
<1>2. regs["SPI0"]["C1"] = {1, 4, 6} /\ regs["SPI0"]["C2"] = {4} /\ regs["SPI0"]["BR"] = {2}
  <2>1. /\ Holds(regs, Full("SPI0", "C1", {1, 4, 6})) /\ Holds(regs, Full("SPI0", "C2", {4}))
        /\ Holds(regs, Full("SPI0", "BR", {2}))
    BY DEF SpiSettings
  <2>2. Registered(regs) /\ "SPI0" \in DOMAIN Instances /\ {"C1", "C2", "BR"} \subseteq DOMAIN Instances["SPI0"]
    BY InstanceNames DEF TypeInv
  <2> QED
    BY <2>1, <2>2, FullReads
<1>3. regs["SPI0"]["C1"] = SPI_C1.SPE \cup SPI_C1.MSTR \cup SPI_C1.SSOE /\ regs["SPI0"]["C2"] = SPI_C2.MODFEN
  BY <1>2 DEF SPI_C1, SPI_C2
<1>4. SPI_BR.SPR = 0 .. 3 /\ SPI_BR.SPPR = 4 .. 6
  BY DEF SPI_BR
<1>5. {2} \cap (0 .. 3) = {2} /\ {2} \cap (4 .. 6) = {}
  OBVIOUS
<1>6. Get({2}, 0 .. 3) = 4 /\ Get({2}, 4 .. 6) = 0
  BY <1>5, DriverNumbers, DriverBits, ZenonT(60) DEF Reads
<1>7. 2 ^ (1 + 4) = 32
  <2>1. 1 + 4 = 5
    OBVIOUS
  <2> QED
    BY <2>1, Powers DEF Two
<1> QED
  BY <1>1, <1>2, <1>3, <1>4, <1>6, <1>7

LEMMA UsbConfigured ==
  ASSUME TypeInv, \A k \in UsbSettings : Holds(regs, k)
  PROVE  /\ Has(regs["SIM"]["SOPT2"], SIM_SOPT2.USBSRC)
         /\ Enabled(INT.USB0) /\ regs["USB0"]["CTL"] \ USB_CTL.ODDRST = USB_CTL.USBENSOFEN
         /\ USB_CONTROL.DPPULLUPNONOTG = regs["USB0"]["CONTROL"]
<1>1. {18} \subseteq regs["SIM"]["SOPT2"] /\ {24} \subseteq regs["NVIC"]["ISER"]
  BY OnReads DEF UsbSettings
<1>2. regs["USB0"]["CONTROL"] = {4}
  <2>1. Holds(regs, Full("USB0", "CONTROL", {4}))
    BY DEF UsbSettings
  <2>2. Registered(regs) /\ "USB0" \in DOMAIN Instances /\ "CONTROL" \in DOMAIN Instances["USB0"]
    BY InstanceNames DEF TypeInv
  <2> QED
    BY <2>1, <2>2, FullReads
<1>3. regs["USB0"]["CTL"] \ {1} = {0}
  <2>1. regs["USB0"]["CTL"] \subseteq 0 .. 7
    BY InstanceNames, InstanceBits DEF TypeInv, Registered, Bytewise
  <2>2. regs["USB0"]["CTL"] \cap ((0 .. 7) \ {1}) = {0}
    <3>1. Holds(regs, Setting("USB0", "CTL", (0 .. 7) \ {1}, {0}))
      BY DEF UsbSettings
    <3>2. LET k == Setting("USB0", "CTL", (0 .. 7) \ {1}, {0})
          IN  k.of = "USB0" /\ k.reg = "CTL" /\ k.mask = (0 .. 7) \ {1} /\ k.value = {0}
      BY SettingFields
    <3> QED
      BY <3>1, <3>2 DEF Holds
  <2> QED
    BY <2>1, <2>2
<1> QED
  BY <1>1, <1>2, <1>3 DEF Has, Enabled, INT, SIM_SOPT2, USB_CTL, USB_CONTROL

\* Clocks in main.
LEMMA MainClocks ==
  ASSUME Progress, task = "main", Has(regs["SIM"]["SOPT2"], SIM_SOPT2.PLLFLLSEL)
  PROVE  PeripheralClock = 48000000 /\ BusClock \div 80 <= 400000
<1>1. Generator(regs, 0) /\ Dividers(regs, 0) /\ 0 \in 0 .. 11
  BY DEF Progress, ProgressAt
<1>2. /\ MCGPLLCLK = 96000000 /\ MCGOUTCLK = 96000000 /\ CoreClock = MCGOUTCLK \div 2
      /\ BusClock = CoreClock \div 2
  BY <1>1, FrequenciesAt, SMT
<1> QED
  BY <1>2, SMT DEF PeripheralClock

\* After any calls in any order, at rates the divisor can come near: every driver's pins,
\* clocks and registers are as it needs them, and so are the LEDs (the *_init functions).
LEMMA ReachableConfigured ==
  ASSUME \A rate \in BaudRates : Reachable(rate)
  PROVE  Spec => []DriversConfigured
<1>1. TypeInv /\ Progress /\ Configured => DriversConfigured
  <2> SUFFICES ASSUME TypeInv, Progress, Configured, task = "main", todo = <<>> PROVE DriversConfigured
    BY DEF DriversConfigured
  <2>1. /\ \A f \in {"leds"} \cup called : \A k \in Settings(f, baud) : Holds(regs, k)
        /\ "uart_init" \in called => baud \in BaudRates
    BY Kept
  <2>2. /\ \A k \in LedSettings : Holds(regs, k)
        /\ "uart_init" \in called => \A k \in UartSettings(baud) : Holds(regs, k)
        /\ "accel_init" \in called => \A k \in AccelSettings : Holds(regs, k)
        /\ "touch_init" \in called => \A k \in TouchSettings : Holds(regs, k)
        /\ "spi_init" \in called => \A k \in SpiSettings : Holds(regs, k)
        /\ "usb_init" \in called => \A k \in UsbSettings : Holds(regs, k)
    BY <2>1 DEF Settings
  <2>3. PeripheralClock = 48000000 /\ BusClock \div 80 <= 400000
    BY <2>2, LedsConfigured, MainClocks, SMT
  <2>4. /\ MuxOf("PORTB", 18) = 3 /\ MuxOf("PORTB", 19) = 3 /\ MuxOf("PORTD", 1) = 4
        /\ \A t \in {"TPM0", "TPM2"} : Get(regs[t]["SC"], TPM_SC.CMOD) = 1
        /\ Get(regs["SIM"]["SOPT2"], SIM_SOPT2.TPMSRC) = 1
    BY <2>2, LedsConfigured
  <2>5. ASSUME "uart_init" \in called
        PROVE  /\ MuxOf("PORTA", 1) = 2 /\ MuxOf("PORTA", 2) = 2 /\ Enabled(INT.UART0)
               /\ Get(regs["SIM"]["SOPT2"], SIM_SOPT2.UART0SRC) = 1
               /\ regs["UART0"]["C2"] \ (UART_C2.RIE \cup UART_C2.TIE) = UARTLP_C2.RE \cup UARTLP_C2.TE
               /\ LET sbr == 256 * Get(regs["UART0"]["BDH"], UARTLP_BDH.SBR)
                               + Get(regs["UART0"]["BDL"], UARTLP_BDL.SBR)
                      osr == 1 + Get(regs["UART0"]["C4"], UARTLP_C4.OSR)
                  IN  Near(PeripheralClock \div (osr * sbr), baud)
    <3> DEFINE q == Quotient(baud)
    <3>1. q \in Divisors /\ Near(48000000 \div (16 * q), baud)
      BY <2>1, <2>5, SMT DEF Reachable, Quotient
    <3> HIDE DEF q
    <3>2. /\ MuxOf("PORTA", 1) = 2 /\ MuxOf("PORTA", 2) = 2 /\ Enabled(INT.UART0)
          /\ Get(regs["SIM"]["SOPT2"], SIM_SOPT2.UART0SRC) = 1
          /\ regs["UART0"]["C2"] \ (UART_C2.RIE \cup UART_C2.TIE) = UARTLP_C2.RE \cup UARTLP_C2.TE
          /\ 256 * Get(regs["UART0"]["BDH"], UARTLP_BDH.SBR) + Get(regs["UART0"]["BDL"], UARTLP_BDL.SBR) = q
          /\ 1 + Get(regs["UART0"]["C4"], UARTLP_C4.OSR) = 16
      BY <2>2, <2>5, <3>1, UartConfigured, SMT DEF q
    <3> QED
      BY <2>3, <3>1, <3>2, SMT
  <2>6. "accel_init" \in called =>
          /\ MuxOf("PORTE", 24) = 5 /\ MuxOf("PORTE", 25) = 5
          /\ regs["I2C0"]["C1"] = I2C_C1.IICEN
          /\ Get(regs["I2C0"]["F"], I2C_F.ICR) = 20 /\ BusClock \div 80 <= 400000
    BY <2>2, <2>3, AccelConfigured, SMT
  <2> QED
    BY <2>2, <2>3, <2>4, <2>5, <2>6, TouchConfigured, SpiConfigured, UsbConfigured, SMTT(60)
       DEF DriversConfigured
<1> QED
  BY <1>1, ProgressInvariant, ConfiguredInvariant, PTL

LEMMA QuotientBounds ==
  ASSUME NEW a \in Nat, NEW b \in Nat, b > 0
  PROVE  a \div b \in Nat /\ b * (a \div b) <= a /\ a < b * (a \div b) + b
BY SMT

\* The rates that the divisor comes near to: from 367 to 75000, and 115200.
LEMMA ReachableRates ==
  /\ \A rate \in Nat : 367 <= rate /\ rate <= 75000 => Reachable(rate)
  /\ Reachable(115200)
<1>1. ASSUME NEW rate \in Nat, 367 <= rate, rate <= 75000 PROVE Reachable(rate)
  <2> DEFINE q == 3000000 \div rate
  <2> DEFINE x == 48000000 \div (16 * q)
  <2>1. q \in Nat /\ rate * q <= 3000000 /\ 3000000 < rate * q + rate
    BY <1>1, QuotientBounds, SMT
  <2> HIDE DEF q
  <2>2. q >= 40
    BY <1>1, <2>1, SMT
  <2>3. q <= 8191
    BY <1>1, <2>1, SMT
  <2>4. x \in Nat /\ (16 * q) * x <= 48000000 /\ 48000000 < (16 * q) * x + 16 * q
    <3>1. 16 * q \in Nat /\ 16 * q > 0 /\ 48000000 \in Nat
      BY <2>1, <2>2, SMT
    <3> QED
      BY <3>1, QuotientBounds, SMT
  <2> HIDE DEF x
  <2>5. q * x <= 3000000 /\ 3000000 < q * x + q
    BY <2>1, <2>4, SMT
  <2>6. rate <= x
    BY <1>1, <2>1, <2>2, <2>4, <2>5, SMT
  <2>7. 40 * x <= 41 * rate
    BY <1>1, <2>1, <2>2, <2>4, <2>5, <2>6, SMT
  <2>8. Near(x, rate)
    BY <1>1, <2>4, <2>6, <2>7, SMT DEF Near
  <2> QED
    BY <2>1, <2>2, <2>3, <2>8, SMT DEF Reachable, Divisors, q, x
<1>2. Reachable(115200)
  BY SMT DEF Reachable, Divisors, Near
<1> QED
  BY <1>1, <1>2, SMT

\* After any calls of the set-up functions in any order, at any rate from 367 to 75000 baud or
\* at 115200, the rate of demo.c: every driver's pins, clocks, interrupt and registers are as
\* it needs them, its rate within 2.5 %, and so are the LEDs (uart.c, accel8451.c, touch.c,
\* spi.c, usb.c, delay.c).  The handlers and the console, which may come at any moment,
\* change no more than TIE and RIE in UART0's C2 and ODDRST in USB0's CTL.
THEOREM StaysConfigured ==
  ASSUME \A rate \in BaudRates : rate = 115200 \/ (367 <= rate /\ rate <= 75000)
  PROVE  Spec => []DriversConfigured
<1>1. ASSUME NEW rate \in BaudRates PROVE Reachable(rate)
  <2>1. rate \in Nat /\ (rate = 115200 \/ (367 <= rate /\ rate <= 75000))
    BY <1>1, StartupAssumption, SMT
  <2> QED
    BY <2>1, ReachableRates, SMT
<1> QED
  BY <1>1, ReachableConfigured
=============================================================================
