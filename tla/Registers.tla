------------------------------ MODULE Registers ------------------------------
(* MKL25Z4.h: the registers the program uses.  A word is the set of the        *)
(* numbers of its bits that are 1, and a field is its mask, the set of the     *)
(* bits it takes.  "|= m" is then union, "&= ~m" difference, "& m"             *)
(* intersection.                                                               *)
EXTENDS Integers, FiniteSets

Lowest(field) == CHOOSE b \in field : \A c \in field : b <= c

\* The macro FIELD(x): x shifted to the field and cut to its width.
Put(field, x) == {b \in field : (x \div 2 ^ (b - Lowest(field))) % 2 = 1}

\* The number in a field of a word.
Get(word, field) == CHOOSE x \in 0 .. 2 ^ Cardinality(field) - 1 : Put(field, x) = word \cap field

\* A constant written to a register; bit 31 is beyond the integers TLC computes with.
Word(x) == Put(0 .. 30, x)

-----------------------------------------------------------------------------
(* The layouts: the registers of a peripheral and their widths.                *)

Wide(names) == [n \in names |-> 0 .. 31]
Byte(names) == [n \in names |-> 0 .. 7]

SIM_MemMap == Wide({"SOPT1", "SOPT2", "SCGC4", "SCGC5", "SCGC6", "CLKDIV1", "COPC"})
MCG_MemMap == Byte({"C1", "C2", "C3", "C4", "C5", "C6", "S"})
\* The pins the program routes.
PORT_MemMap == Wide({0, 1, 2, 3, 5, 16, 17, 18, 19, 24, 25})
TPM_MemMap == Wide({"SC", "MOD", "C0SC", "C0V", "C1SC", "C1V"})
LPTMR_MemMap == Wide({"CSR", "PSR", "CMR"})
TSI_MemMap == Wide({"GENCS", "DATA"})
I2C_MemMap == Byte({"F", "C1", "S", "D"})
SPI_MemMap == Byte({"C1", "C2", "BR", "S", "D"})
UARTLP_MemMap == Byte({"BDH", "BDL", "C1", "C2", "S1", "S2", "C3", "D", "C4"})
USB_MemMap == Byte({"ISTAT", "INTEN", "CTL", "USBCTRL", "CONTROL", "USBTRC0"})
NVIC_MemMap == Wide({"ISER", "ICPR"})

(* The instances: UART0_D is the register D in the layout of UART0.            *)

SIM == SIM_MemMap
MCG == MCG_MemMap
OSC0 == Byte({"CR"})
NVIC == NVIC_MemMap
PORTA == PORT_MemMap
PORTB == PORT_MemMap
PORTC == PORT_MemMap
PORTD == PORT_MemMap
PORTE == PORT_MemMap
TPM0 == TPM_MemMap
TPM2 == TPM_MemMap
LPTMR0 == LPTMR_MemMap
TSI0 == TSI_MemMap
I2C0 == I2C_MemMap
SPI0 == SPI_MemMap
UART0 == UARTLP_MemMap
USB0 == USB_MemMap

Instances ==
  [SIM |-> SIM, MCG |-> MCG, OSC0 |-> OSC0, NVIC |-> NVIC, PORTA |-> PORTA, PORTB |-> PORTB,
   PORTC |-> PORTC, PORTD |-> PORTD, PORTE |-> PORTE, TPM0 |-> TPM0, TPM2 |-> TPM2,
   LPTMR0 |-> LPTMR0, TSI0 |-> TSI0, I2C0 |-> I2C0, SPI0 |-> SPI0, UART0 |-> UART0,
   USB0 |-> USB0]

-----------------------------------------------------------------------------
(* The fields.                                                                 *)

MCG_C1 == [IREFSTEN |-> {0}, IRCLKEN |-> {1}, IREFS |-> {2}, FRDIV |-> 3 .. 5, CLKS |-> 6 .. 7]
MCG_C2 == [IRCS |-> {0}, LP |-> {1}, EREFS0 |-> {2}, HGO0 |-> {3}, RANGE0 |-> 4 .. 5, LOCRE0 |-> {7}]
MCG_C4 == [SCFTRIM |-> {0}, FCTRIM |-> 1 .. 4, DRST_DRS |-> 5 .. 6, DMX32 |-> {7}]
MCG_C5 == [PRDIV0 |-> 0 .. 4, PLLSTEN0 |-> {5}, PLLCLKEN0 |-> {6}]
MCG_C6 == [VDIV0 |-> 0 .. 4, CME0 |-> {5}, PLLS |-> {6}, LOLIE0 |-> {7}]
MCG_S == [IRCST |-> {0}, OSCINIT0 |-> {1}, CLKST |-> 2 .. 3, IREFST |-> {4}, PLLST |-> {5},
          LOCK0 |-> {6}, LOLS |-> {7}]

SIM_SOPT1 == [OSC32KSEL |-> 18 .. 19, USBVSTBY |-> {29}, USBSSTBY |-> {30}, USBREGEN |-> {31}]
SIM_SOPT2 == [RTCCLKOUTSEL |-> {4}, CLKOUTSEL |-> 5 .. 7, PLLFLLSEL |-> {16}, USBSRC |-> {18},
              TPMSRC |-> 24 .. 25, UART0SRC |-> 26 .. 27]
SIM_SCGC4 == [I2C0 |-> {6}, I2C1 |-> {7}, UART0 |-> {10}, UART1 |-> {11}, UART2 |-> {12},
              USBOTG |-> {18}, CMP |-> {19}, SPI0 |-> {22}, SPI1 |-> {23}]
SIM_SCGC5 == [LPTMR |-> {0}, TSI |-> {5}, PORTA |-> {9}, PORTB |-> {10}, PORTC |-> {11},
              PORTD |-> {12}, PORTE |-> {13}]
SIM_SCGC6 == [FTF |-> {0}, DMAMUX |-> {1}, PIT |-> {23}, TPM0 |-> {24}, TPM1 |-> {25},
              TPM2 |-> {26}, ADC0 |-> {27}, RTC |-> {29}, DAC0 |-> {31}]
SIM_CLKDIV1 == [OUTDIV4 |-> 16 .. 18, OUTDIV1 |-> 28 .. 31]
SIM_COPC == [COPW |-> {0}, COPCLKS |-> {1}, COPT |-> 2 .. 3]

PORT_PCR == [PS |-> {0}, PE |-> {1}, SRE |-> {2}, PFE |-> {4}, DSE |-> {6}, MUX |-> 8 .. 10,
             IRQC |-> 16 .. 19, ISF |-> {24}]
TPM_SC == [PS |-> 0 .. 2, CMOD |-> 3 .. 4, CPWMS |-> {5}, TOIE |-> {6}, TOF |-> {7}, DMA |-> {8}]
TPM_CnSC == [DMA |-> {0}, ELSA |-> {2}, ELSB |-> {3}, MSA |-> {4}, MSB |-> {5}, CHIE |-> {6},
             CHF |-> {7}]
LPTMR_CSR == [TEN |-> {0}, TMS |-> {1}, TFC |-> {2}, TPP |-> {3}, TPS |-> 4 .. 5, TIE |-> {6},
              TCF |-> {7}]
LPTMR_PSR == [PCS |-> 0 .. 1, PBYP |-> {2}, PRESCALE |-> 3 .. 6]
TSI_GENCS == [CURSW |-> {1}, EOSF |-> {2}, SCNIP |-> {3}, STM |-> {4}, STPE |-> {5},
              TSIIEN |-> {6}, TSIEN |-> {7}, NSCN |-> 8 .. 12, PS |-> 13 .. 15,
              EXTCHRG |-> 16 .. 18, DVOLT |-> 19 .. 20, REFCHRG |-> 21 .. 23,
              MODE |-> 24 .. 27, ESOR |-> {28}, OUTRGF |-> {31}]
I2C_F == [ICR |-> 0 .. 5, MULT |-> 6 .. 7]
I2C_C1 == [DMAEN |-> {0}, WUEN |-> {1}, RSTA |-> {2}, TXAK |-> {3}, TX |-> {4}, MST |-> {5},
           IICIE |-> {6}, IICEN |-> {7}]
SPI_C1 == [LSBFE |-> {0}, SSOE |-> {1}, CPHA |-> {2}, CPOL |-> {3}, MSTR |-> {4}, SPTIE |-> {5},
           SPE |-> {6}, SPIE |-> {7}]
SPI_C2 == [SPC0 |-> {0}, SPISWAI |-> {1}, RXDMAE |-> {2}, BIDIROE |-> {3}, MODFEN |-> {4},
           TXDMAE |-> {5}, SPLPIE |-> {6}, SPMIE |-> {7}]
SPI_BR == [SPR |-> 0 .. 3, SPPR |-> 4 .. 6]

\* uart.c uses masks of UART1 and UART2 as well as those of UART0 (UARTLP).
UART_C2 == [SBK |-> {0}, RWU |-> {1}, RE |-> {2}, TE |-> {3}, ILIE |-> {4}, RIE |-> {5},
            TCIE |-> {6}, TIE |-> {7}]
UART_S1 == [PF |-> {0}, FE |-> {1}, NF |-> {2}, OR |-> {3}, IDLE |-> {4}, RDRF |-> {5},
            TC |-> {6}, TDRE |-> {7}]
UARTLP_BDH == [SBR |-> 0 .. 4, SBNS |-> {5}, RXEDGIE |-> {6}, LBKDIE |-> {7}]
UARTLP_BDL == [SBR |-> 0 .. 7]
UARTLP_C2 == [SBK |-> {0}, RWU |-> {1}, RE |-> {2}, TE |-> {3}, ILIE |-> {4}, RIE |-> {5},
              TCIE |-> {6}, TIE |-> {7}]
UARTLP_S1 == [PF |-> {0}, FE |-> {1}, NF |-> {2}, OR |-> {3}, IDLE |-> {4}, RDRF |-> {5},
              TC |-> {6}, TDRE |-> {7}]
UARTLP_C4 == [OSR |-> 0 .. 4, M10 |-> {5}, MAEN2 |-> {6}, MAEN1 |-> {7}]

USB_INTEN == [USBRSTEN |-> {0}, ERROREN |-> {1}, SOFTOKEN |-> {2}, TOKDNEEN |-> {3},
              SLEEPEN |-> {4}, RESUMEEN |-> {5}, ATTACHEN |-> {6}, STALLEN |-> {7}]
USB_CTL == [USBENSOFEN |-> {0}, ODDRST |-> {1}, RESUME |-> {2}, HOSTMODEEN |-> {3},
            RESET |-> {4}, TXSUSPENDTOKENBUSY |-> {5}, SE0 |-> {6}, JSTATE |-> {7}]
USB_CONTROL == [DPPULLUPNONOTG |-> {4}]
USB_USBTRC0 == [USB_RESUME_INT |-> {0}, SYNC_DET |-> {1}, USBRESMEN |-> {5}, USBRESET |-> {7}]

-----------------------------------------------------------------------------
(* The interrupt numbers.                                                      *)

INT ==
  [NMI |-> 2, Hard_Fault |-> 3, SVCall |-> 11, PendableSrvReq |-> 14, SysTick |-> 15,
   DMA0 |-> 16, DMA1 |-> 17, DMA2 |-> 18, DMA3 |-> 19, FTFA |-> 21, LVD_LVW |-> 22, LLW |-> 23,
   I2C0 |-> 24, I2C1 |-> 25, SPI0 |-> 26, SPI1 |-> 27, UART0 |-> 28, UART1 |-> 29,
   UART2 |-> 30, ADC0 |-> 31, CMP0 |-> 32, TPM0 |-> 33, TPM1 |-> 34, TPM2 |-> 35, RTC |-> 36,
   RTC_Seconds |-> 37, PIT |-> 38, USB0 |-> 40, DAC0 |-> 41, TSI0 |-> 42, MCG |-> 43,
   LPTimer |-> 44, PORTA |-> 46, PORTD |-> 47]
=============================================================================
