------------------------------- MODULE MCUart -------------------------------
(* The instances TLC checks, and the two directions of the driver as         *)
(* implementations of Fifo.                                                  *)
EXTENDS Uart

\* From the store of the new head to the end of buf_get_byte the byte is
\* delivered, although with IndexFirst it is still in its slot.
Taken == CASE pc = "r_data" /\ IndexFirst -> << rx.data[slot] >>
           [] pc = "r_wrap" -> << item >>
           [] OTHER -> << >>

Receiver == INSTANCE Fifo WITH Bytes <- 1 .. MaxRx, Capacity <- Size - 1,
                               queue <- Contents(rx),
                               delivered <- got \o Taken

Transmitter == INSTANCE Fifo WITH Bytes <- 1 .. MaxTx, Capacity <- Size - 1,
                                  queue <- Contents(tx),
                                  delivered <- sent

\* UART0_IRQHandler and uart_read together are a bounded FIFO channel from the
\* receiver to the program, at every point the handler can interrupt.
RxIsFifo == Receiver!Spec

\* uart_write and UART0_IRQHandler together are a bounded FIFO channel from the
\* program to the transmitter when the data is stored before the index, until
\* the receive side locks the processor in the handler.
TxIsFifo == /\ Transmitter!Init
            /\ [][ReceiveStorm \/ Transmitter!Next]_<<Contents(tx), sent>>
=============================================================================
