----------------------------- MODULE UartProofs -----------------------------
(* Theorems about modules Uart and Console, for every ring size: the enables,  *)
(* the received stream, both directions as FIFO channels, and what a line      *)
(* printed by the USB handler needs to return.                                 *)
EXTENDS Console, TLAPS

-----------------------------------------------------------------------------
(* The inductive invariant.                                                  *)

\* The program has stored the new head of rx and not yet the byte it got.
Taking == pc = "r_wrap" \/ (IndexFirst /\ pc = "r_data")

\* The indices: each is a slot, except in its owner's steps between the
\* increment and the wrap, where it is the successor of the loaded one.
IndexInv ==
  /\ TypeOK
  /\ rx.tail \in Slots /\ tx.head \in Slots
  /\ Taking => rx.head = slot + 1
  /\ ~Taking => rx.head \in Slots
  /\ pc \in {"r_head", "r_data"} /\ ~Taking => rx.head = slot
  /\ pc = "w_wrap" \/ (IndexFirst /\ pc = "w_data") => tx.tail = slot + 1
  /\ ~(pc = "w_wrap" \/ (IndexFirst /\ pc = "w_data")) => tx.tail \in Slots
  /\ pc \notin {"idle", "e_enable"} => todo # 0

\* The enables: a read-modify-write of UART0_C2 in progress has loaded at least
\* what is enabled now, since the handler only ever disables.
EnableInv ==
  /\ pc \in {"w_store", "r_store"} => c2 \subseteq saved
  /\ NoLostTransmitEnable
  /\ NoLostReceiveEnable

\* The number of bytes that have left rx, the one being taken included.
Gone == IF Taking THEN Len(got) + 1 ELSE Len(got)

\* The received stream: the bytes returned, the one being taken, those of the
\* ring and the one in the data register are consecutive.
StreamInv ==
  /\ RxInOrder
  /\ \A i \in Slots : Distance(rx.head, i) < buf_len(rx)
                         => rx.data[i] = Gone + 1 + Distance(rx.head, i)
  /\ arrived = Gone + buf_len(rx) + (IF rdr = 0 THEN 0 ELSE 1)
  /\ rdr # 0 => rdr = arrived
  /\ IndexFirst /\ pc = "r_data" => rx.data[slot] = Len(got) + 1
  /\ pc = "r_wrap" \/ (~IndexFirst /\ pc = "r_head") => item = Len(got) + 1
  /\ pc \in {"r_head", "r_data"} /\ ~Taking => ~buf_isempty(rx)

-----------------------------------------------------------------------------
(* What the ring operations return.                                          *)

LEMMA RingFields ==
  ASSUME NEW b \in Rings
  PROVE  b.head \in 0 .. Size /\ b.tail \in 0 .. Size /\ b.data \in [Slots -> Nat]
BY DEF Rings

LEMMA StoreHeadResult ==
  ASSUME NEW b \in Rings, NEW i \in 0 .. Size
  PROVE  /\ StoreHead(b, i) \in Rings
         /\ StoreHead(b, i).head = i
         /\ StoreHead(b, i).tail = b.tail
         /\ StoreHead(b, i).data = b.data
BY DEF StoreHead, Rings

LEMMA StoreTailResult ==
  ASSUME NEW b \in Rings, NEW i \in 0 .. Size
  PROVE  /\ StoreTail(b, i) \in Rings
         /\ StoreTail(b, i).head = b.head
         /\ StoreTail(b, i).tail = i
         /\ StoreTail(b, i).data = b.data
BY DEF StoreTail, Rings

LEMMA StoreDataResult ==
  ASSUME NEW b \in Rings, NEW i \in Slots, NEW v \in Nat
  PROVE  /\ StoreData(b, i, v) \in Rings
         /\ StoreData(b, i, v).head = b.head
         /\ StoreData(b, i, v).tail = b.tail
BY DEF StoreData, Rings

LEMMA StoreDataSlot ==
  ASSUME NEW b \in Rings, NEW i \in Slots, NEW v \in Nat, NEW j \in Slots
  PROVE  StoreData(b, i, v).data[j] = IF j = i THEN v ELSE b.data[j]
<1>1. StoreData(b, i, v).data = [b.data EXCEPT ![i] = v]
  BY DEF StoreData
<1> QED BY <1>1, RingFields

LEMMA WrapResult ==
  ASSUME NEW i \in Slots
  PROVE  Wrap(i + 1) \in Slots /\ Wrap(i + 1) \in 0 .. Size
BY SizeAssumption DEF Wrap, Slots

LEMMA PutResult ==
  ASSUME NEW b \in Rings, b.tail \in Slots, NEW v \in Nat
  PROVE  /\ buf_put_byte(b, v) \in Rings
         /\ buf_put_byte(b, v).head = b.head
         /\ buf_put_byte(b, v).tail = Wrap(b.tail + 1)
         /\ buf_put_byte(b, v).tail \in Slots
<1>1. /\ StoreData(b, b.tail, v) \in Rings
      /\ StoreData(b, b.tail, v).head = b.head
  BY StoreDataResult
<1> QED
  BY <1>1, WrapResult, StoreTailResult DEF buf_put_byte

LEMMA PutSlot ==
  ASSUME NEW b \in Rings, b.tail \in Slots, NEW v \in Nat, NEW j \in Slots
  PROVE  buf_put_byte(b, v).data[j] = IF j = b.tail THEN v ELSE b.data[j]
<1>1. buf_put_byte(b, v).data = StoreData(b, b.tail, v).data
  BY StoreDataResult, StoreTailResult, WrapResult DEF buf_put_byte
<1> QED BY <1>1, StoreDataSlot

LEMMA GetResult ==
  ASSUME NEW b \in Rings, b.head \in Slots
  PROVE  /\ buf_get_byte(b).item \in Nat
         /\ buf_get_byte(b).rest \in Rings
         /\ buf_get_byte(b).rest.head \in Slots
         /\ buf_get_byte(b).rest.tail = b.tail
<1>1. b.data[b.head] \in Nat
  BY RingFields
<1> QED
  BY <1>1, WrapResult, StoreHeadResult DEF buf_get_byte

\* The two halves of the handler, without its interrupt enables.
LEMMA HandlerResult ==
  ASSUME IndexInv, Transmit, Receive
  PROVE  /\ tx' \in Rings /\ tx'.head \in Slots /\ tx'.tail = tx.tail
         /\ rx' \in Rings /\ rx'.tail \in Slots /\ rx'.head = rx.head
         /\ tdre' \in BOOLEAN /\ shifting' \in BOOLEAN
         /\ rdr' \in Nat /\ sent' \in Seq(Nat)
<1>0. /\ tx \in Rings /\ tx.head \in Slots /\ rx \in Rings /\ rx.tail \in Slots
      /\ rdr \in Nat /\ sent \in Seq(Nat)
  BY DEF IndexInv, TypeOK
<1>1. tdre' \in BOOLEAN /\ shifting' \in BOOLEAN
  BY DEF Transmit, StoreD, IndexInv, TypeOK
<1>2. /\ tx' \in Rings /\ tx'.head \in Slots /\ tx'.tail = tx.tail
      /\ sent' \in Seq(Nat)
  <2>1. CASE Sending
    <3>1. tx' = buf_get_byte(tx).rest /\ sent' = Append(sent, buf_get_byte(tx).item)
      BY <2>1 DEF Transmit
    <3> QED BY <3>1, <1>0, GetResult
  <2>2. CASE ~Sending
    BY <2>2, <1>0 DEF Transmit
  <2> QED BY <2>1, <2>2
<1>3. /\ rx' \in Rings /\ rx'.tail \in Slots /\ rx'.head = rx.head /\ rdr' \in Nat
  <2>1. CASE Receiving
    <3>1. rx' = buf_put_byte(rx, rdr) /\ rdr' = 0
      BY <2>1 DEF Receive
    <3> QED BY <3>1, <1>0, PutResult
  <2>2. CASE ~Receiving
    BY <2>2, <1>0 DEF Receive
  <2> QED BY <2>1, <2>2
<1> QED BY <1>1, <1>2, <1>3

\* The distance from an index, Size included, to a slot.
LEMMA DistanceRange ==
  ASSUME NEW h \in 0 .. Size, NEW i \in Slots
  PROVE  Distance(h, i) \in 0 .. Size - 1
BY SizeAssumption DEF Distance, Slots

LEMMA DistanceInjective ==
  ASSUME NEW h \in 0 .. Size, NEW i \in Slots, NEW j \in Slots,
         Distance(h, i) = Distance(h, j)
  PROVE  i = j
BY SizeAssumption DEF Distance, Slots

\* A put adds one to the length, and a get takes one off.
LEMMA DistanceNextTail ==
  ASSUME NEW h \in 0 .. Size, NEW t \in Slots, Distance(h, t) # Size - 1
  PROVE  Distance(h, Wrap(t + 1)) = Distance(h, t) + 1
BY SizeAssumption DEF Distance, Slots, Wrap

LEMMA DistanceNextHead ==
  ASSUME NEW h \in Slots, NEW i \in Slots
  PROVE  /\ i # h => Distance(h, i) = Distance(h + 1, i) + 1
         /\ i = h => Distance(h, i) = 0 /\ Distance(h + 1, i) = Size - 1
BY SizeAssumption DEF Distance, Slots

LEMMA DistanceWrapHead ==
  ASSUME NEW h \in Slots, NEW i \in Slots
  PROVE  Distance(Wrap(h + 1), i) = Distance(h + 1, i)
BY SizeAssumption DEF Distance, Slots, Wrap

-----------------------------------------------------------------------------
(* Types and indices.                                                        *)

LEMMA ResetResult ==
  /\ buf_reset \in Rings /\ buf_reset.head = 0 /\ buf_reset.tail = 0
  /\ buf_reset.data \in [Slots -> Nat]
<1>1. [i \in Slots |-> 0] \in [Slots -> Nat]
  OBVIOUS
<1>2. 0 \in 0 .. Size
  BY SizeAssumption
<1> QED
  BY <1>1, <1>2 DEF buf_reset, Rings

LEMMA IndexInit == Init => IndexInv
<1> SUFFICES ASSUME Init PROVE IndexInv
  OBVIOUS
<1>1. 0 \in Slots
  BY SizeAssumption DEF Slots
<1>2. TypeOK
  <2>1. << >> \in Seq(Nat)
    OBVIOUS
  <2>2. tx \in Rings /\ rx \in Rings
    BY ResetResult DEF Init, uart_init
  <2> QED
    BY <1>1, <2>1, <2>2 DEF Init, uart_init, TypeOK, PCs
<1> QED
  BY <1>1, <1>2, ResetResult DEF Init, uart_init, IndexInv, Taking

LEMMA IndexStep == IndexInv /\ [Next]_vars => IndexInv'
<1> SUFFICES ASSUME IndexInv, [Next]_vars PROVE IndexInv'
  OBVIOUS
<1> USE SizeAssumption, UartAssumption
<1>1. CASE UART0_IRQHandler
  <2>1. c2' \subseteq {"TIE", "RIE"}
    BY <1>1 DEF UART0_IRQHandler, IndexInv, TypeOK
  <2> QED
    BY <1>1, <2>1, HandlerResult
       DEF UART0_IRQHandler, IndexInv, TypeOK, Taking, program
<1>2. CASE ShiftDone
  BY <1>2 DEF ShiftDone, Tick, IndexInv, TypeOK, Taking, program, history
<1>3. CASE CharacterArrives
  BY <1>3 DEF CharacterArrives, Tick, IndexInv, TypeOK, Taking, program
<1>4. CASE uart_write
  <2> USE DEF Step, IndexInv, TypeOK, Taking, uart, history,
          PCs, WriteSteps, ReadSteps, ErrSteps
  <2>1. CASE CallWrite
    BY <2>1 DEF CallWrite, Call, Lengths
  <2>2. CASE WriteNotFull
    BY <2>2 DEF WriteNotFull
  <2>3. CASE PutData
    <3>1. /\ tx' \in Rings
          /\ tx'.head = tx.head /\ tx'.tail = tx.tail
      <4>1. PICK val \in Nat : tx' = StoreData(tx, slot, val)
        BY <2>3 DEF PutData
      <4>2. tx \in Rings /\ slot \in Slots
        OBVIOUS
      <4>3. /\ StoreData(tx, slot, val) \in Rings
            /\ StoreData(tx, slot, val).head = tx.head
            /\ StoreData(tx, slot, val).tail = tx.tail
        BY <4>1, <4>2, StoreDataResult
      <4> QED BY <4>1, <4>3
    <3> QED BY <2>3, <3>1 DEF PutData
  <2>4. CASE PutIndex
    <3>1. tx' \in Rings /\ tx'.head = tx.head /\ tx'.tail = slot + 1
      <4>1. slot + 1 \in 0 .. Size
        BY DEF Slots
      <4> QED BY <4>1, <2>4, StoreTailResult DEF PutIndex
    <3> QED BY <2>4, <3>1 DEF PutIndex
  <2>5. CASE PutWrap
    <3>1. tx' \in Rings /\ tx'.head = tx.head /\ tx'.tail \in Slots
      <4>1. Wrap(tx.tail) \in Slots /\ Wrap(tx.tail) \in 0 .. Size
        BY <2>5, WrapResult DEF PutWrap
      <4> QED BY <4>1, <2>5, StoreTailResult DEF PutWrap
    <3> QED BY <2>5, <3>1 DEF PutWrap
  <2>6. CASE WriteLoadC2
    BY <2>6 DEF WriteLoadC2, LoadC2
  <2>7. CASE WriteStoreC2
    BY <2>7 DEF WriteStoreC2, StoreC2
  <2> QED
    BY <1>4, <2>1, <2>2, <2>3, <2>4, <2>5, <2>6, <2>7 DEF uart_write
<1>5. CASE uart_read
  <2> USE DEF Step, IndexInv, TypeOK, Taking, uart, history,
          PCs, WriteSteps, ReadSteps, ErrSteps
  <2>1. CASE CallRead
    BY <2>1 DEF CallRead, Call, Lengths
  <2>2. CASE ReadNotEmpty
    BY <2>2 DEF ReadNotEmpty
  <2>3. CASE GetData
    BY <2>3, RingFields DEF GetData
  <2>4. CASE GetIndex
    <3>1. rx' \in Rings /\ rx'.head = slot + 1 /\ rx'.tail = rx.tail
      <4>1. slot + 1 \in 0 .. Size
        BY DEF Slots
      <4> QED BY <4>1, <2>4, StoreHeadResult DEF GetIndex
    <3> QED BY <2>4, <3>1 DEF GetIndex
  <2>5. CASE GetWrap
    <3>1. rx' \in Rings /\ rx'.head \in Slots /\ rx'.tail = rx.tail
      <4>1. Wrap(rx.head) \in Slots /\ Wrap(rx.head) \in 0 .. Size
        BY <2>5, WrapResult DEF GetWrap
      <4> QED BY <4>1, <2>5, StoreHeadResult DEF GetWrap
    <3> QED BY <2>5, <3>1 DEF GetWrap
  <2>6. CASE ReadLoadC2
    BY <2>6 DEF ReadLoadC2, LoadC2
  <2>7. CASE ReadStoreC2
    BY <2>7 DEF ReadStoreC2, StoreC2
  <2> QED
    BY <1>5, <2>1, <2>2, <2>3, <2>4, <2>5, <2>6, <2>7 DEF uart_read
<1>6. CASE uart_write_err
  <2> USE DEF Step, IndexInv, TypeOK, Taking, uart, history,
          PCs, WriteSteps, ReadSteps, ErrSteps
  <2>1. CASE CallErr
    BY <2>1 DEF CallErr, Call, Lengths
  <2>2. CASE DisableIrq
    BY <2>2 DEF DisableIrq
  <2>3. CASE ErrRegisterEmpty
    BY <2>3 DEF ErrRegisterEmpty
  <2>4. CASE ErrStore
    BY <2>4 DEF ErrStore, StoreD
  <2>5. CASE EnableIrq
    BY <2>5 DEF EnableIrq
  <2> QED
    BY <1>6, <2>1, <2>2, <2>3, <2>4, <2>5 DEF uart_write_err
<1>7. CASE UNCHANGED vars
  BY <1>7 DEF vars, program, uart, history, IndexInv, TypeOK, Taking
<1> QED
  BY <1>1, <1>2, <1>3, <1>4, <1>5, <1>6, <1>7 DEF Next

-----------------------------------------------------------------------------
(* The interrupt enables.                                                    *)

LEMMA EnableInit == Init => EnableInv
<1> SUFFICES ASSUME Init PROVE EnableInv
  OBVIOUS
<1>1. buf_isempty(tx)
  BY ResetResult DEF Init, uart_init, buf_isempty
<1> QED
  BY <1>1 DEF Init, uart_init, EnableInv, NoLostTransmitEnable,
              NoLostReceiveEnable

\* A step that leaves the rings and UART0_C2 alone, and neither completes a put
\* or a get nor starts a read-modify-write, keeps the enables.
LEMMA EnableKept ==
  ASSUME EnableInv, tx' = tx, rx' = rx, c2' = c2, saved' = saved,
         pc' \in {"w_store", "r_store"} => pc' = pc,
         Publishing' \/ ~Publishing, Freeing' \/ ~Freeing
  PROVE  EnableInv'
BY DEF EnableInv, NoLostTransmitEnable, NoLostReceiveEnable, buf_isempty,
       buf_isfull, buf_len, Distance

LEMMA EnableHandler ==
  ASSUME IndexInv, EnableInv, UART0_IRQHandler
  PROVE  EnableInv'
<1>1. c2' \subseteq c2 /\ saved' = saved /\ pc' = pc
  BY DEF UART0_IRQHandler, program
<1>2. pc' \in {"w_store", "r_store"} => c2' \subseteq saved'
  BY <1>1 DEF EnableInv
<1>3. NoLostTransmitEnable'
  <2> SUFFICES ASSUME ~buf_isempty(tx)', ~Publishing PROVE "TIE" \in c2'
    BY <1>1 DEF NoLostTransmitEnable, Publishing
  <2>1. ~buf_isempty(tx)
    BY DEF UART0_IRQHandler, Transmit, Sending, buf_isempty
  <2>2. "TIE" \in c2
    BY <2>1 DEF EnableInv, NoLostTransmitEnable
  <2> QED
    BY <2>2 DEF UART0_IRQHandler, buf_isempty
<1>4. NoLostReceiveEnable'
  <2> SUFFICES ASSUME ~buf_isfull(rx)', ~Freeing PROVE "RIE" \in c2'
    BY <1>1 DEF NoLostReceiveEnable, Freeing
  <2>1. ~buf_isfull(rx)
    BY DEF UART0_IRQHandler, Receive, Receiving, buf_isfull, buf_len, Distance
  <2>2. "RIE" \in c2
    BY <2>1 DEF EnableInv, NoLostReceiveEnable
  <2> QED
    BY <2>2 DEF UART0_IRQHandler, buf_isfull, buf_len, Distance
<1> QED
  BY <1>2, <1>3, <1>4 DEF EnableInv

LEMMA EnableStep == IndexInv /\ EnableInv /\ [Next]_vars => EnableInv'
<1> SUFFICES ASSUME IndexInv, EnableInv, [Next]_vars PROVE EnableInv'
  OBVIOUS
<1>1. CASE UART0_IRQHandler
  BY <1>1, EnableHandler
<1>2. CASE ShiftDone \/ CharacterArrives \/ UNCHANGED vars
  BY <1>2, EnableKept
     DEF ShiftDone, CharacterArrives, vars, program, Publishing, Freeing
<1> USE DEF Step, Publishing, Freeing, WriteSteps, ReadSteps
<1>3. CASE uart_write_err \/ CallWrite \/ CallRead \/ WriteNotFull \/ ReadNotEmpty
           \/ GetData
  BY <1>3, EnableKept
     DEF uart_write_err, CallErr, DisableIrq, ErrRegisterEmpty, ErrStore, EnableIrq,
         CallWrite, CallRead, WriteNotFull, ReadNotEmpty, GetData, Call
<1>4. CASE PutData \/ PutIndex \/ PutWrap
  <2>1. /\ pc' \in WriteSteps \ {"w_store"} /\ pc \in WriteSteps
        /\ rx' = rx /\ c2' = c2
    BY <1>4 DEF PutData, PutIndex, PutWrap
  <2> QED
    BY <2>1 DEF EnableInv, NoLostTransmitEnable, NoLostReceiveEnable, buf_isfull,
                buf_len, Distance
<1>5. CASE GetIndex \/ GetWrap
  <2>1. /\ pc' \in ReadSteps \ {"r_store"} /\ pc \in ReadSteps
        /\ tx' = tx /\ c2' = c2
    BY <1>5 DEF GetIndex, GetWrap
  <2> QED
    BY <2>1 DEF EnableInv, NoLostTransmitEnable, NoLostReceiveEnable, buf_isempty
<1>6. CASE WriteLoadC2 \/ ReadLoadC2
  BY <1>6 DEF WriteLoadC2, ReadLoadC2, LoadC2, EnableInv, NoLostTransmitEnable,
              NoLostReceiveEnable, buf_isempty, buf_isfull, buf_len, Distance
<1>7. CASE WriteStoreC2
  <2>1. /\ c2 \subseteq c2' /\ "TIE" \in c2' /\ rx' = rx
        /\ pc' \in {"idle", "w_wait"} /\ pc = "w_store"
    BY <1>7 DEF WriteStoreC2, StoreC2, EnableInv
  <2> QED
    BY <2>1 DEF EnableInv, NoLostTransmitEnable, NoLostReceiveEnable, buf_isfull,
                buf_len, Distance
<1>8. CASE ReadStoreC2
  <2>1. /\ c2 \subseteq c2' /\ "RIE" \in c2' /\ tx' = tx
        /\ pc' \in {"idle", "r_wait"} /\ pc = "r_store"
    BY <1>8 DEF ReadStoreC2, StoreC2, EnableInv
  <2> QED
    BY <2>1 DEF EnableInv, NoLostTransmitEnable, NoLostReceiveEnable, buf_isempty
<1> QED
  BY <1>1, <1>2, <1>3, <1>4, <1>5, <1>6, <1>7, <1>8 DEF Next, uart_write, uart_read

-----------------------------------------------------------------------------
(* The received stream.                                                      *)

LEMMA StreamInit == Init => StreamInv
<1> SUFFICES ASSUME Init PROVE StreamInv
  OBVIOUS
<1>1. rx.head = 0 /\ rx.tail = 0 /\ Len(got) = 0 /\ got = << >>
  BY ResetResult DEF Init, uart_init
<1>2. buf_len(rx) = 0
  BY <1>1 DEF buf_len, Distance
<1>3. \A i \in Slots : ~(Distance(rx.head, i) < 0)
  BY <1>1 DEF Distance, Slots
<1>4. RxInOrder
  BY <1>1 DEF RxInOrder
<1> QED
  BY <1>1, <1>2, <1>3, <1>4 DEF Init, uart_init, StreamInv, Gone, Taking

\* The handler: the byte of the data register, if there is room for it, goes
\* behind the others, and not into the slot that is being read.
LEMMA StreamHandler ==
  ASSUME IndexInv, StreamInv, UART0_IRQHandler
  PROVE  StreamInv'
<1>1. /\ rx \in Rings /\ rx.head \in 0 .. Size /\ rx.tail \in Slots
      /\ rdr \in Nat /\ slot \in Slots /\ IndexFirst \in BOOLEAN
      /\ got \in Seq(Nat) /\ Len(got) \in Nat
  BY RingFields, UartAssumption DEF IndexInv, TypeOK
<1>2. /\ got' = got /\ arrived' = arrived /\ pc' = pc /\ slot' = slot /\ item' = item
      /\ Gone' = Gone /\ Taking' = Taking /\ RxInOrder' = RxInOrder
  BY DEF UART0_IRQHandler, program, Gone, Taking, RxInOrder
<1>3. CASE ~Receiving
  <2>1. rx' = rx /\ rdr' = rdr
    BY <1>3 DEF UART0_IRQHandler, Receive
  <2> QED
    BY <1>2, <2>1 DEF StreamInv, buf_len, buf_isempty, Distance
<1>4. CASE Receiving
  <2>1. rx' = buf_put_byte(rx, rdr) /\ rdr' = 0
    BY <1>4 DEF UART0_IRQHandler, Receive
  <2>2. rx'.head = rx.head /\ rx'.tail = Wrap(rx.tail + 1)
    BY <1>1, <2>1, PutResult
  <2>3. \A j \in Slots : rx'.data[j] = IF j = rx.tail THEN rdr ELSE rx.data[j]
    BY <1>1, <2>1, PutSlot
  <2>4. Distance(rx.head, rx.tail) # Size - 1 /\ rdr # 0
    BY <1>4 DEF Receiving, buf_isfull, buf_len
  <2>5. Distance(rx.head, rx'.tail) = Distance(rx.head, rx.tail) + 1
    BY <1>1, <2>2, <2>4, DistanceNextTail
  <2>6. Distance(rx.head, rx.tail) \in 0 .. Size - 1
    BY <1>1, DistanceRange
  <2>7. /\ RxInOrder
        /\ \A i \in Slots : Distance(rx.head, i) < Distance(rx.head, rx.tail)
                               => rx.data[i] = Gone + 1 + Distance(rx.head, i)
        /\ arrived = Gone + Distance(rx.head, rx.tail) + 1
        /\ rdr = arrived
        /\ IndexFirst /\ pc = "r_data" => rx.data[slot] = Len(got) + 1
        /\ pc = "r_wrap" \/ (~IndexFirst /\ pc = "r_head") => item = Len(got) + 1
        /\ pc \in {"r_head", "r_data"} /\ ~Taking => rx.head # rx.tail
    BY <2>4 DEF StreamInv, buf_len, buf_isempty
  <2>8. Gone \in Nat
    BY <1>1 DEF Gone
  <2>9. ASSUME NEW i \in Slots, Distance(rx.head, i) < Distance(rx.head, rx.tail) + 1
        PROVE  rx'.data[i] = Gone + 1 + Distance(rx.head, i)
    <3>1. Distance(rx.head, i) \in 0 .. Size - 1
      BY <1>1, DistanceRange
    <3>2. CASE i = rx.tail
      BY <2>3, <2>6, <2>7, <2>8, <3>2
    <3>3. CASE i # rx.tail
      <4>1. Distance(rx.head, i) # Distance(rx.head, rx.tail)
        BY <1>1, <3>3, DistanceInjective
      <4> QED BY <2>3, <2>6, <2>7, <2>9, <3>1, <3>3, <4>1
    <3> QED BY <3>2, <3>3
  <2>10. IndexFirst /\ pc = "r_data" => rx'.data[slot] = Len(got) + 1
    <3> SUFFICES ASSUME IndexFirst, pc = "r_data" PROVE rx'.data[slot] = Len(got) + 1
      OBVIOUS
    <3>1. rx.head = slot + 1
      BY DEF IndexInv, Taking
    <3>2. Distance(rx.head, slot) = Size - 1
      BY <1>1, <3>1, DistanceNextHead
    <3> QED BY <1>1, <2>3, <2>4, <2>7, <3>2
  <2>11. rx.head # rx.tail => rx.head # rx'.tail
    <3>1. CASE rx.head = Size
      BY <1>1, <2>2, <3>1, WrapResult, SizeAssumption DEF Slots
    <3>2. CASE rx.head # Size
      <4>1. rx.head \in Slots
        BY <1>1, <3>2, SizeAssumption DEF Slots
      <4>2. Distance(rx.head, rx.head) = 0
        BY <4>1, DistanceNextHead
      <4> QED BY <2>5, <2>6, <4>2
    <3> QED BY <3>1, <3>2
  <2> QED
    BY <1>2, <2>1, <2>2, <2>5, <2>6, <2>7, <2>8, <2>9, <2>10, <2>11
       DEF StreamInv, buf_len, buf_isempty
<1> QED BY <1>3, <1>4

\* A step of another activity keeps the stream.
LEMMA StreamKept ==
  ASSUME StreamInv, rx' = rx, rdr' = rdr, arrived' = arrived, got' = got,
         \/ pc' = pc /\ slot' = slot /\ item' = item
         \/ pc \notin {"r_head", "r_data", "r_wrap"}
              /\ pc' \notin {"r_head", "r_data", "r_wrap"}
  PROVE  StreamInv'
<1>1. Gone' = Gone /\ Taking' = Taking
  BY DEF Gone, Taking
<1> QED
  BY <1>1 DEF StreamInv, RxInOrder, buf_len, buf_isempty, Distance, Taking

LEMMA StreamArrival ==
  ASSUME IndexInv, StreamInv, CharacterArrives
  PROVE  StreamInv'
<1>1. /\ rx' = rx /\ got' = got /\ pc' = pc /\ slot' = slot /\ item' = item
      /\ rdr = 0 /\ arrived' = arrived + 1 /\ rdr' = arrived + 1
  BY DEF CharacterArrives, program
<1>2. /\ Gone' = Gone /\ Taking' = Taking /\ arrived \in Nat /\ Gone \in Nat
  BY <1>1 DEF Gone, Taking, IndexInv, TypeOK
<1>3. arrived = Gone + buf_len(rx)
  <2>1. rx.head \in 0 .. Size /\ rx.tail \in Slots
    BY RingFields DEF IndexInv, TypeOK
  <2>2. buf_len(rx) \in 0 .. Size - 1
    BY <2>1, DistanceRange DEF buf_len
  <2> QED BY <1>1, <1>2, <2>2, SizeAssumption DEF StreamInv
<1>4. arrived' = Gone' + buf_len(rx)' + 1 /\ rdr' # 0 /\ rdr' = arrived'
  <2>1. rx.head \in 0 .. Size /\ rx.tail \in Slots
    BY RingFields DEF IndexInv, TypeOK
  <2>2. buf_len(rx) \in 0 .. Size - 1 /\ buf_len(rx)' = buf_len(rx)
    BY <1>1, <2>1, DistanceRange DEF buf_len
  <2> QED BY <1>1, <1>2, <1>3, <2>2, SizeAssumption
<1> QED
  BY <1>1, <1>2, <1>4 DEF StreamInv, RxInOrder, buf_len, buf_isempty, Distance

\* The steps of buf_get_byte, up to the store of the byte.
LEMMA StreamGet ==
  ASSUME IndexInv, StreamInv, ReadNotEmpty \/ GetData \/ GetIndex \/ GetWrap
  PROVE  StreamInv'
<1>0. /\ rx \in Rings /\ rx.head \in 0 .. Size /\ rx.tail \in Slots
      /\ rdr \in Nat /\ slot \in Slots /\ IndexFirst \in BOOLEAN
      /\ got \in Seq(Nat) /\ Len(got) \in Nat /\ arrived \in Nat /\ item \in Nat
      /\ Size \in Nat /\ Size >= 2
  BY RingFields, UartAssumption, SizeAssumption DEF IndexInv, TypeOK
<1> USE DEF Step
<1>1. CASE ReadNotEmpty
  <2>1. /\ rx' = rx /\ rdr' = rdr /\ arrived' = arrived /\ got' = got
        /\ pc' \in {"r_head", "r_data"} /\ ~buf_isempty(rx) /\ pc = "r_wait"
        /\ pc' = IF IndexFirst THEN "r_head" ELSE "r_data"
    BY <1>1 DEF ReadNotEmpty, history, uart
  <2>2. ~Taking /\ ~Taking' /\ Gone' = Gone
    BY <1>0, <2>1 DEF Taking, Gone
  <2> QED
    BY <2>1, <2>2 DEF StreamInv, RxInOrder, buf_len, buf_isempty, Distance, Taking
<1>2. CASE GetData
  <2>1. /\ rx' = rx /\ rdr' = rdr /\ arrived' = arrived /\ got' = got /\ slot' = slot
        /\ pc = "r_data" /\ pc' = (IF IndexFirst THEN "r_wrap" ELSE "r_head")
        /\ item' = rx.data[slot]
    BY <1>2 DEF GetData, history, uart
  <2>2. Taking = IndexFirst /\ Taking' = IndexFirst /\ Gone' = Gone
    BY <1>0, <2>1 DEF Taking, Gone
  <2>3. rx.data[slot] = Len(got) + 1
    <3>1. CASE IndexFirst
      BY <2>1, <3>1 DEF StreamInv
    <3>2. CASE ~IndexFirst
      <4>1. rx.head = slot /\ rx.head # rx.tail /\ Gone = Len(got)
        BY <2>1, <2>2, <3>2 DEF IndexInv, StreamInv, buf_isempty, Gone
      <4>2. Distance(rx.head, slot) = 0
        BY <1>0, <4>1, DistanceNextHead
      <4>3. Distance(rx.head, rx.tail) # 0 /\ Distance(rx.head, rx.tail) \in 0 .. Size - 1
        BY <1>0, <4>1, <4>2, DistanceInjective, DistanceRange
      <4>4. 0 < buf_len(rx)
        BY <1>0, <4>3 DEF buf_len
      <4> QED BY <1>0, <4>1, <4>2, <4>4 DEF StreamInv
    <3> QED BY <1>0, <3>1, <3>2
  <2>4. /\ RxInOrder' = RxInOrder /\ buf_len(rx)' = buf_len(rx)
        /\ buf_isempty(rx)' = buf_isempty(rx)
    BY <2>1 DEF RxInOrder, buf_len, buf_isempty, Distance
  <2> QED
    BY <1>0, <2>1, <2>2, <2>3, <2>4 DEF StreamInv, Distance
<1>3. CASE GetIndex
  <2>1. /\ rx' = StoreHead(rx, slot + 1) /\ rdr' = rdr /\ arrived' = arrived
        /\ got' = got /\ slot' = slot /\ item' = item
        /\ pc = "r_head" /\ pc' = (IF IndexFirst THEN "r_data" ELSE "r_wrap")
    BY <1>3 DEF GetIndex, history, uart
  <2>2. slot + 1 \in 0 .. Size
    BY <1>0 DEF Slots
  <2>3. rx'.head = slot + 1 /\ rx'.tail = rx.tail /\ rx'.data = rx.data
    BY <1>0, <2>1, <2>2, StoreHeadResult
  <2>4. ~Taking /\ Taking' /\ Gone = Len(got) /\ Gone' = Len(got) + 1
    BY <1>0, <2>1 DEF Taking, Gone
  <2>5. rx.head = slot /\ rx.head # rx.tail
    BY <2>1, <2>4 DEF IndexInv, StreamInv, buf_isempty
  <2>6. /\ Distance(slot, slot) = 0
        /\ Distance(slot, rx.tail) = Distance(slot + 1, rx.tail) + 1
        /\ Distance(slot + 1, rx.tail) \in 0 .. Size - 1
        /\ Distance(slot + 1, slot) = Size - 1
        /\ Distance(slot, rx.tail) \in 0 .. Size - 1
    BY <1>0, <2>2, <2>5, DistanceNextHead, DistanceRange
  <2>7. rx.data[slot] = Len(got) + 1
    <3>1. Distance(rx.head, slot) = 0 /\ 0 < Distance(rx.head, rx.tail)
      BY <1>0, <2>5, <2>6
    <3>2. rx.data[slot] = Gone + 1 + Distance(rx.head, slot)
      BY <1>0, <3>1 DEF StreamInv, buf_len
    <3> QED BY <1>0, <2>4, <3>1, <3>2
  <2>8. ASSUME NEW i \in Slots, Distance(slot + 1, i) < Distance(slot + 1, rx.tail)
        PROVE  rx.data[i] = Len(got) + 2 + Distance(slot + 1, i)
    <3>1. i # slot
      BY <1>0, <2>6, <2>8
    <3>2. Distance(slot, i) = Distance(slot + 1, i) + 1 /\ Distance(slot + 1, i) \in 0 .. Size - 1
      BY <1>0, <2>2, <3>1, DistanceNextHead, DistanceRange
    <3>3. rx.data[i] = Len(got) + 1 + Distance(slot, i)
      BY <2>4, <2>5, <2>6, <2>8, <3>2 DEF StreamInv, buf_len
    <3> QED BY <1>0, <3>2, <3>3
  <2>9. arrived = Len(got) + Distance(slot, rx.tail) + (IF rdr = 0 THEN 0 ELSE 1)
    BY <2>4, <2>5 DEF StreamInv, buf_len
  <2>10. arrived = Len(got) + 1 + Distance(slot + 1, rx.tail) + (IF rdr = 0 THEN 0 ELSE 1)
    BY <1>0, <2>6, <2>9
  <2>11. RxInOrder' /\ (rdr # 0 => rdr = arrived)
    BY <2>1 DEF StreamInv, RxInOrder
  <2>12. ~IndexFirst => item = Len(got) + 1
    BY <2>1 DEF StreamInv
  <2>13. \A i \in Slots : Distance(rx'.head, i) < buf_len(rx')
                            => rx'.data[i] = Gone' + 1 + Distance(rx'.head, i)
    <3> SUFFICES ASSUME NEW i \in Slots, Distance(slot + 1, i) < Distance(slot + 1, rx.tail)
                 PROVE  rx.data[i] = Len(got) + 1 + 1 + Distance(slot + 1, i)
      BY <2>3, <2>4 DEF buf_len
    <3>1. Distance(slot + 1, i) \in 0 .. Size - 1
      BY <2>2, DistanceRange
    <3> QED BY <1>0, <2>8, <3>1
  <2> QED
    BY <1>0, <2>1, <2>3, <2>4, <2>7, <2>10, <2>11, <2>12, <2>13 DEF StreamInv, buf_len
<1>4. CASE GetWrap
  <2>1. /\ rx' = StoreHead(rx, Wrap(rx.head)) /\ rdr' = rdr /\ arrived' = arrived
        /\ got' = Append(got, item) /\ pc = "r_wrap" /\ pc' = "r_load"
    BY <1>4 DEF GetWrap, uart
  <2>2. rx.head = slot + 1 /\ item = Len(got) + 1
    BY <2>1 DEF IndexInv, StreamInv, Taking
  <2>3. Wrap(rx.head) \in 0 .. Size
    BY <1>0, <2>2, WrapResult
  <2>4. rx'.head = Wrap(slot + 1) /\ rx'.tail = rx.tail /\ rx'.data = rx.data
    <3>1. /\ StoreHead(rx, Wrap(rx.head)).head = Wrap(rx.head)
          /\ StoreHead(rx, Wrap(rx.head)).tail = rx.tail
          /\ StoreHead(rx, Wrap(rx.head)).data = rx.data
      BY <1>0, <2>3, StoreHeadResult
    <3> QED BY <2>1, <2>2, <3>1
  <2>5. \A i \in Slots : Distance(rx'.head, i) = Distance(rx.head, i)
    BY <1>0, <2>2, <2>4, DistanceWrapHead
  <2>6. buf_len(rx') = buf_len(rx)
    BY <1>0, <2>4, <2>5 DEF buf_len
  <2>7. Len(got') = Len(got) + 1
    BY <1>0, <2>1
  <2>8. Gone' = Gone /\ ~Taking'
    BY <1>0, <2>1, <2>7 DEF Taking, Gone
  <2>9. RxInOrder'
    BY <1>0, <2>1, <2>2 DEF StreamInv, RxInOrder
  <2> QED
    BY <2>1, <2>4, <2>5, <2>6, <2>8, <2>9 DEF StreamInv
<1> QED BY <1>1, <1>2, <1>3, <1>4

LEMMA StreamStep == IndexInv /\ StreamInv /\ [Next]_vars => StreamInv'
<1> SUFFICES ASSUME IndexInv, StreamInv, [Next]_vars PROVE StreamInv'
  OBVIOUS
<1>1. CASE UART0_IRQHandler
  BY <1>1, StreamHandler
<1>2. CASE CharacterArrives
  BY <1>2, StreamArrival
<1>3. CASE ReadNotEmpty \/ GetData \/ GetIndex \/ GetWrap
  BY <1>3, StreamGet
<1>4. CASE ShiftDone \/ UNCHANGED vars
  BY <1>4, StreamKept DEF ShiftDone, vars, program, uart, history
<1> USE DEF Step, uart, history
<1>5. CASE uart_write
  BY <1>5, StreamKept
     DEF uart_write, CallWrite, Call, WriteNotFull, PutData, PutIndex, PutWrap,
         WriteLoadC2, WriteStoreC2, LoadC2, StoreC2
<1>6. CASE CallRead \/ ReadLoadC2 \/ ReadStoreC2
  BY <1>6, StreamKept
     DEF CallRead, Call, ReadLoadC2, ReadStoreC2, LoadC2, StoreC2
<1>7. CASE uart_write_err
  BY <1>7, StreamKept
     DEF uart_write_err, CallErr, Call, DisableIrq, ErrRegisterEmpty, ErrStore,
         EnableIrq
<1> QED
  BY <1>1, <1>2, <1>3, <1>4, <1>5, <1>6, <1>7 DEF Next, uart_read

-----------------------------------------------------------------------------
(* The data register.                                                        *)

\* uart_write_err keeps the handler out from its first poll to its last store.
RegisterInv ==
  /\ pc \in ErrSteps => primask = TRUE
  /\ pc = "e_store" => tdre = TRUE

LEMMA RegisterStep == RegisterInv /\ [Next]_vars => RegisterInv'
<1> SUFFICES ASSUME RegisterInv, [Next]_vars PROVE RegisterInv'
  OBVIOUS
<1> USE DEF RegisterInv, ErrSteps
<1>1. CASE UART0_IRQHandler
  BY <1>1 DEF UART0_IRQHandler, IrqPending, program
<1>2. CASE ShiftDone \/ CharacterArrives \/ UNCHANGED vars
  BY <1>2 DEF ShiftDone, CharacterArrives, vars, program, uart
<1> USE DEF Step, uart
<1>3. CASE uart_write
  BY <1>3
     DEF uart_write, CallWrite, Call, WriteNotFull, PutData, PutIndex, PutWrap,
         WriteLoadC2, WriteStoreC2, LoadC2, StoreC2
<1>4. CASE uart_read
  BY <1>4
     DEF uart_read, CallRead, Call, ReadNotEmpty, GetData, GetIndex, GetWrap,
         ReadLoadC2, ReadStoreC2, LoadC2, StoreC2
<1>5. CASE uart_write_err
  BY <1>5
     DEF uart_write_err, CallErr, Call, DisableIrq, ErrRegisterEmpty, ErrStore,
         EnableIrq
<1> QED
  BY <1>1, <1>2, <1>3, <1>4, <1>5 DEF Next

LEMMA RegisterUse ==
  ASSUME [Next]_vars, RegisterInv, sent' # sent \/ errs' # errs
  PROVE  tdre
<1>1. CASE UART0_IRQHandler
  BY <1>1 DEF UART0_IRQHandler, Transmit, Sending
<1>2. CASE uart_write_err
  BY <1>2 DEF uart_write_err, CallErr, Call, DisableIrq, ErrRegisterEmpty, ErrStore,
              EnableIrq, Step, history, RegisterInv
<1>3. CASE ShiftDone \/ CharacterArrives \/ UNCHANGED vars
  BY <1>3 DEF ShiftDone, CharacterArrives, vars, history
<1>4. CASE uart_write \/ uart_read
  BY <1>4 DEF uart_write, CallWrite, Call, WriteNotFull, PutData, PutIndex, PutWrap,
              WriteLoadC2, WriteStoreC2, LoadC2, StoreC2,
              uart_read, CallRead, ReadNotEmpty, GetData, GetIndex, GetWrap,
              ReadLoadC2, ReadStoreC2, history
<1> QED
  BY <1>1, <1>2, <1>3, <1>4 DEF Next

-----------------------------------------------------------------------------
(* The theorems.                                                             *)

IInv == IndexInv /\ EnableInv /\ StreamInv

LEMMA Invariance == Spec => []IInv
<1>1. Init => IInv
  BY IndexInit, EnableInit, StreamInit DEF IInv
<1>2. IInv /\ [Next]_vars => IInv'
  BY IndexStep, EnableStep, StreamStep DEF IInv
<1> QED
  BY <1>1, <1>2, PTL DEF Spec

\* Every variable of the driver keeps its type; in particular no index leaves
\* its ring, though head and tail pass through Size before each wrap.
THEOREM TypeCorrect == Spec => []TypeOK
<1>1. IInv => TypeOK
  BY DEF IInv, IndexInv
<1> QED
  BY <1>1, Invariance, PTL

\* No wakeup is lost on the transmit side: outside uart_write, bytes waiting in
\* the ring have TIE set, however the handler falls into the updates of UART0_C2.
THEOREM TransmitEnableKept == Spec => []NoLostTransmitEnable
<1>1. IInv => NoLostTransmitEnable
  BY DEF IInv, EnableInv
<1> QED
  BY <1>1, Invariance, PTL

\* No wakeup is lost on the receive side: outside uart_read, a ring with room has
\* RIE set.
THEOREM ReceiveEnableKept == Spec => []NoLostReceiveEnable
<1>1. IInv => NoLostReceiveEnable
  BY DEF IInv, EnableInv
<1> QED
  BY <1>1, Invariance, PTL

\* uart_read returns the received bytes once and in order, for every ring size,
\* whichever way the compiler orders buf_get_byte and however often the handler
\* runs inside it.
THEOREM ReceiveInOrder == Spec => []RxInOrder
<1>1. IInv => RxInOrder
  BY DEF IInv, StreamInv
<1> QED
  BY <1>1, Invariance, PTL

\* Whoever stores a byte in the data register found it empty: uart_write_err and
\* the handler never overwrite each other's bytes.
THEOREM RegisterNeverOverwritten == Spec => DataRegisterFree
<1>1. Init => RegisterInv
  BY DEF Init, uart_init, RegisterInv, ErrSteps
<1>2. RegisterInv /\ [Next]_vars => RegisterInv'
  BY RegisterStep
<1>3. RegisterInv /\ [Next]_vars => [sent' # sent \/ errs' # errs => tdre]_vars
  BY RegisterUse
<1> QED
  BY <1>1, <1>2, <1>3, PTL DEF Spec, DataRegisterFree


-----------------------------------------------------------------------------
(* The inductive invariants.                                                   *)

\* The bytes buf holds, an index that is not wrapped yet counted as if it were.
Held(buf) == Distance(Wrap(buf.head), Wrap(buf.tail))

\* What the handler interrupted was between two ring operations of the program.
OuterInv ==
  Printing => /\ primask = TRUE /\ pc \in WriteSteps \cup {"w_wait", "idle"}
              /\ outer[1] \in {"idle", "w_wait", "r_wait"}
              /\ outer[2] \in Nat /\ (outer[1] # "idle" => outer[2] # 0)
              /\ outer[3] \in Slots /\ outer[4] \in Nat
              /\ outer[5] \subseteq {"TIE", "RIE"}
              /\ (pc = "idle" => todo = 0)

\* The byte of the iteration in progress has been counted in the ring.
Counted == pc \in {"w_wrap", "w_load", "w_store"} \/ (IndexFirst /\ pc = "w_data")

\* The bytes of the call not yet counted in the ring.
Left == IF Counted THEN todo - 1 ELSE todo

\* A line that does not fit keeps more bytes than the ring has room for.
RoomInv ==
  /\ pc \in WriteSteps /\ ~Counted => slot = tx.tail /\ Held(tx) < Size - 1
  /\ Printing /\ ~fits => Left + Held(tx) > Size - 1

\* The bytes left of the call the handler interrupted.
Owed == IF Printing THEN outer[2] ELSE 0

\* The bytes of the calls in progress stay within the bound.
BoundInv ==
  /\ pc \in WriteSteps \cup {"w_wait"} => written + Left + Owed <= MaxTx
  /\ Printing /\ pc = "idle" => written + Owed <= MaxTx

\* The transmitted stream: the bytes sent and those of the ring are consecutive.
SendInv ==
  /\ \A k \in DOMAIN sent : sent[k] = k
  /\ written = Len(sent) + Held(tx)
  /\ \A i \in Slots : Distance(tx.head, i) < Held(tx)
                         => tx.data[i] = Len(sent) + 1 + Distance(tx.head, i)
  /\ pc = "w_tail" => tx.data[slot] = written + 1

\* Between tail++ and its wrap the ring can look full of bytes when it is empty.
LooksFull == pc = "w_wrap" /\ tx.tail = Size /\ tx.head = 0

\* The handler runs at most once in that step with something to send: what called
\* it has used up the one character that ends on its line meanwhile.
WireInv ==
  /\ ~tdre => shifting
  /\ pc = "w_wrap" /\ buf_isempty(tx) => "TIE" \notin c2
  /\ pc = "w_wrap" /\ ~primask /\ ~ReceiveStorm =>
       /\ "RIE" \in c2 /\ rdr # 0 => "rx" \in ticked
       /\ "TIE" \in c2 /\ tdre => "tx" \in ticked /\ shifting
  /\ LooksFull /\ ~ReceiveStorm =>
       IF "TIE" \in c2 THEN ~tdre /\ "tx" \in ticked
                       ELSE "RIE" \in c2 => rdr = 0 /\ "rx" \in ticked
  /\ LooksFull => ~primask

TxInv == ReceiveStorm \/ (SendInv /\ WireInv)

-----------------------------------------------------------------------------
(* The bytes of a ring as a sequence.                                          *)

\* n consecutive bytes, after the first g.
Run(g, n) == [k \in 1 .. n |-> g + k]

LEMMA SeqEqual ==
  ASSUME NEW s \in Seq(Nat), NEW t \in Seq(Nat), Len(s) = Len(t),
         \A k \in 1 .. Len(s) : s[k] = t[k]
  PROVE  s = t
OBVIOUS

\* A run is extended at its end and shortened at its front.
LEMMA RunResult ==
  ASSUME NEW g \in Nat, NEW n \in Nat
  PROVE  /\ Run(g, n) \in Seq(Nat) /\ Len(Run(g, n)) = n
         /\ Append(Run(g, n), g + n + 1) = Run(g, n + 1)
         /\ n > 0 => /\ Run(g, n) # << >> /\ Head(Run(g, n)) = g + 1
                     /\ Tail(Run(g, n)) = Run(g + 1, n - 1)
<1>1. Run(g, n) \in Seq(Nat) /\ Len(Run(g, n)) = n
  BY DEF Run
<1>2. Append(Run(g, n), g + n + 1) = Run(g, n + 1)
  <2>1. /\ Append(Run(g, n), g + n + 1) \in Seq(Nat) /\ Run(g, n + 1) \in Seq(Nat)
        /\ Len(Append(Run(g, n), g + n + 1)) = n + 1 /\ Len(Run(g, n + 1)) = n + 1
    BY <1>1 DEF Run
  <2>2. \A k \in 1 .. n + 1 : Append(Run(g, n), g + n + 1)[k] = Run(g, n + 1)[k]
    BY <1>1 DEF Run
  <2> QED BY <2>1, <2>2, SeqEqual
<1>3. ASSUME n > 0
      PROVE  /\ Run(g, n) # << >> /\ Head(Run(g, n)) = g + 1
             /\ Tail(Run(g, n)) = Run(g + 1, n - 1)
  <2>1. /\ Tail(Run(g, n)) \in Seq(Nat) /\ Run(g + 1, n - 1) \in Seq(Nat)
        /\ Len(Tail(Run(g, n))) = n - 1 /\ Len(Run(g + 1, n - 1)) = n - 1
    BY <1>1, <1>3 DEF Run
  <2>2. \A k \in 1 .. n - 1 : Tail(Run(g, n))[k] = Run(g + 1, n - 1)[k]
    BY <1>1, <1>3 DEF Run
  <2>3. Tail(Run(g, n)) = Run(g + 1, n - 1)
    BY <2>1, <2>2, SeqEqual
  <2>4. Run(g, n)[1] = g + 1
    BY <1>3 DEF Run
  <2> QED BY <1>1, <1>3, <2>3, <2>4
<1> QED BY <1>1, <1>2, <1>3

\* A stream whose bytes are numbered from 1 is a run, and so is one with the next
\* byte behind it.
LEMMA StreamIsRun ==
  ASSUME NEW s \in Seq(Nat), \A k \in DOMAIN s : s[k] = k
  PROVE  /\ s = Run(0, Len(s)) /\ s \o << >> = Run(0, Len(s))
         /\ s \o << Len(s) + 1 >> = Run(0, Len(s) + 1)
<1>1. /\ Run(0, Len(s)) \in Seq(Nat) /\ Len(Run(0, Len(s))) = Len(s)
      /\ Append(Run(0, Len(s)), Len(s) + 1) = Run(0, Len(s) + 1)
  <2>1. Len(s) \in Nat
    OBVIOUS
  <2>2. \A n \in Nat : /\ Run(0, n) \in Seq(Nat) /\ Len(Run(0, n)) = n
                         /\ Append(Run(0, n), n + 1) = Run(0, n + 1)
    <3> SUFFICES ASSUME NEW n \in Nat
                 PROVE  /\ Run(0, n) \in Seq(Nat) /\ Len(Run(0, n)) = n
                        /\ Append(Run(0, n), n + 1) = Run(0, n + 1)
      OBVIOUS
    <3>1. Append(Run(0, n), 0 + n + 1) = Run(0, n + 1)
      BY RunResult
    <3>2. 0 + n + 1 = n + 1
      OBVIOUS
    <3> QED BY <3>1, <3>2, RunResult
  <2> QED BY <2>1, <2>2
<1>2. \A k \in 1 .. Len(s) : s[k] = Run(0, Len(s))[k]
  BY DEF Run
<1>3. s = Run(0, Len(s))
  BY <1>1, <1>2, SeqEqual
<1>4. s \o << Len(s) + 1 >> = Append(s, Len(s) + 1) /\ s \o << >> = s
  OBVIOUS
<1> QED BY <1>1, <1>3, <1>4

\* The distance from an index to a slot does not depend on its wrap.
LEMMA WrapHead ==
  ASSUME NEW h \in 0 .. Size, NEW i \in Slots
  PROVE  Wrap(h) \in Slots /\ Distance(Wrap(h), i) = Distance(h, i)
BY SizeAssumption DEF Wrap, Slots, Distance

LEMMA HeldRange ==
  ASSUME NEW b \in Rings
  PROVE  Held(b) \in 0 .. Size - 1
<1>1. Wrap(b.tail) \in Slots /\ Wrap(b.head) \in Slots
  BY RingFields, WrapHead, SizeAssumption DEF Slots
<1> QED BY <1>1, DistanceRange, SizeAssumption DEF Held, Slots

\* If the bytes from the head on are consecutive, so are those of Contents.
LEMMA ContentsIsRun ==
  ASSUME NEW b \in Rings, NEW g \in Nat,
         \A i \in Slots : Distance(Wrap(b.head), i) < Held(b)
                            => b.data[i] = g + 1 + Distance(Wrap(b.head), i)
  PROVE  Contents(b) = Run(g, Held(b))
<1> DEFINE h == Wrap(b.head)
<1>1. h \in Slots /\ Held(b) \in 0 .. Size - 1
  BY RingFields, WrapHead, HeldRange, SizeAssumption DEF Slots
<1>2. ASSUME NEW k \in 1 .. Held(b) PROVE b.data[(h + k - 1) % Size] = g + k
  <2> DEFINE i == (h + k - 1) % Size
  <2>1. i = IF h + k - 1 < Size THEN h + k - 1 ELSE h + k - 1 - Size
    <3>1. h \in Nat /\ h < Size /\ k \in Nat /\ 1 <= k /\ k < Size /\ Size \in Nat
      BY <1>1, SizeAssumption DEF Slots
    <3> HIDE DEF h
    <3> QED BY <3>1
  <2>2. i \in Slots /\ Distance(h, i) = k - 1
    BY <1>1, <2>1, SizeAssumption DEF Slots, Distance
  <2> HIDE DEF h, i
  <2>3. b.data[i] = g + 1 + Distance(h, i)
    BY <1>1, <2>2 DEF h
  <2> QED BY <1>1, <2>2, <2>3 DEF i
<1>3. Contents(b) = [k \in 1 .. Held(b) |-> b.data[(h + k - 1) % Size]]
  BY DEF Contents, Held
<1> HIDE DEF h
<1> QED BY <1>2, <1>3 DEF Run

-----------------------------------------------------------------------------
(* The receive direction implements Fifo.                                      *)

\* What the refinement makes of the state: the bytes that left rx, and the rest.
RxRuns ==
  /\ Contents(rx) = Run(Gone, buf_len(rx)) /\ got \o Taken = Run(0, Gone)
  /\ Gone \in Nat /\ buf_len(rx) \in 0 .. Size - 1 /\ arrived \in Nat
  /\ arrived = Gone + buf_len(rx) + (IF rdr = 0 THEN 0 ELSE 1)

RxBound == arrived <= MaxRx

LEMMA ReceiverRuns == IndexInv /\ StreamInv => RxRuns
<1> SUFFICES ASSUME IndexInv, StreamInv PROVE RxRuns
  OBVIOUS
<1>1. /\ rx \in Rings /\ rx.head \in 0 .. Size /\ rx.tail \in Slots
      /\ got \in Seq(Nat) /\ Len(got) \in Nat /\ arrived \in Nat
  BY RingFields DEF IndexInv, TypeOK
<1>2. Gone \in Nat
  BY <1>1 DEF Gone
<1>3. buf_len(rx) \in 0 .. Size - 1
  BY <1>1, DistanceRange DEF buf_len
<1>4. Contents(rx) = Run(Gone, buf_len(rx))
  <2>1. Held(rx) = buf_len(rx)
    <3>1. Wrap(rx.tail) = rx.tail
      BY <1>1, SizeAssumption DEF Wrap, Slots
    <3> QED BY <1>1, <3>1, WrapHead DEF Held, buf_len
  <2>2. \A i \in Slots : Distance(Wrap(rx.head), i) < Held(rx)
                           => rx.data[i] = Gone + 1 + Distance(Wrap(rx.head), i)
    BY <1>1, <2>1, WrapHead DEF StreamInv
  <2> QED BY <1>1, <1>2, <2>1, <2>2, ContentsIsRun
<1>5. got \o Taken = Run(0, Gone)
  <2>1. \A k \in DOMAIN got : got[k] = k
    BY DEF StreamInv, RxInOrder
  <2>2. CASE Taking
    <3>1. Taken = << Len(got) + 1 >>
      BY <2>2 DEF Taken, Taking, StreamInv
    <3> QED BY <1>1, <2>1, <2>2, <3>1, StreamIsRun DEF Gone
  <2>3. CASE ~Taking
    <3>1. Taken = << >>
      BY <2>3 DEF Taken, Taking
    <3> QED BY <1>1, <2>1, <2>3, <3>1, StreamIsRun DEF Gone
  <2> QED BY <2>2, <2>3
<1> QED
  BY <1>1, <1>2, <1>3, <1>4, <1>5 DEF RxRuns, StreamInv

\* In each step at most one byte enters rx at its end or leaves it at its front.
LEMMA ReceiverStep ==
  ASSUME IndexInv, StreamInv, RxRuns, RxRuns', RxBound, [Next]_vars
  PROVE  [Receiver!Next]_<<Contents(rx), got \o Taken>>
<1> DEFINE n == buf_len(rx)
<1>0. Gone \in Nat /\ n \in 0 .. Size - 1 /\ Size \in Nat /\ n \in Nat
  BY SizeAssumption DEF RxRuns
<1>1. CASE Gone' = Gone /\ buf_len(rx)' = n
  BY <1>1 DEF RxRuns
<1>2. CASE Gone' = Gone /\ buf_len(rx)' = n + 1 /\ Gone + n + 1 \in 1 .. MaxRx
           /\ n < Size - 1
  <2>1. /\ Contents(rx)' = Append(Contents(rx), Gone + n + 1)
        /\ (got \o Taken)' = got \o Taken /\ Len(Contents(rx)) = n
    <3>1. Contents(rx) = Run(Gone, n) /\ Contents(rx)' = Run(Gone, n + 1)
      BY <1>2 DEF RxRuns
    <3>2. Append(Run(Gone, n), Gone + n + 1) = Run(Gone, n + 1) /\ Len(Run(Gone, n)) = n
      BY <1>0, RunResult
    <3>3. (got \o Taken)' = got \o Taken
      BY <1>2 DEF RxRuns
    <3> QED BY <3>1, <3>2, <3>3
  <2>2. Receiver!Accept(Gone + n + 1)
    BY <1>2, <2>1 DEF Receiver!Accept
  <2> QED BY <1>2, <2>2 DEF Receiver!Next
<1>3. CASE Gone' = Gone + 1 /\ buf_len(rx)' = n - 1
  <2>1. n > 0
    BY <1>0, <1>3 DEF RxRuns
  <2>2. Append(Run(0, Gone), Gone + 1) = Run(0, Gone + 1)
    <3>1. Append(Run(0, Gone), 0 + Gone + 1) = Run(0, Gone + 1)
      BY <1>0, RunResult
    <3>2. 0 + Gone + 1 = Gone + 1
      BY <1>0
    <3> QED BY <3>1, <3>2
  <2>3. /\ Contents(rx) # << >> /\ Head(Contents(rx)) = Gone + 1
        /\ Contents(rx)' = Tail(Contents(rx))
        /\ (got \o Taken)' = Append(got \o Taken, Gone + 1)
    <3>1. Contents(rx) = Run(Gone, n) /\ Contents(rx)' = Run(Gone + 1, n - 1)
      BY <1>3 DEF RxRuns
    <3>2. /\ Run(Gone, n) # << >> /\ Head(Run(Gone, n)) = Gone + 1
          /\ Tail(Run(Gone, n)) = Run(Gone + 1, n - 1)
      BY <1>0, <2>1, RunResult
    <3>3. got \o Taken = Run(0, Gone) /\ (got \o Taken)' = Run(0, Gone + 1)
      BY <1>3 DEF RxRuns
    <3> QED BY <2>2, <3>1, <3>2, <3>3
  <2>4. Receiver!Deliver
    BY <2>3 DEF Receiver!Deliver
  <2> QED BY <2>4 DEF Receiver!Next
<1>4. CASE UART0_IRQHandler /\ Receiving
  <2>1. /\ rdr # 0 /\ rdr' = 0 /\ arrived' = arrived /\ Gone' = Gone /\ n # Size - 1
    BY <1>4 DEF UART0_IRQHandler, Receiving, Receive, program, Gone, Taking, buf_isfull
  <2>2. buf_len(rx)' = n + 1 /\ Gone + n + 1 = arrived /\ n < Size - 1
    <3>1. arrived = Gone + n + 1 /\ arrived = Gone + buf_len(rx)' + 0
      BY <2>1 DEF RxRuns
    <3>2. buf_len(rx)' \in Nat
      BY SizeAssumption DEF RxRuns
    <3> HIDE DEF n
    <3> QED BY <1>0, <2>1, <3>1, <3>2
  <2> QED BY <1>0, <1>2, <2>1, <2>2, UartAssumption DEF RxBound, RxRuns
<1>5. CASE GetIndex
  <2>1. /\ rdr' = rdr /\ arrived' = arrived /\ Gone = Len(got) /\ Gone' = Len(got) + 1
    BY <1>5, UartAssumption
       DEF GetIndex, Step, uart, history, Gone, Taking, IndexInv, TypeOK
  <2>2. buf_len(rx)' = n - 1
    <3>1. Gone' = Gone + 1 /\ buf_len(rx)' \in Nat
      BY <2>1, SizeAssumption DEF RxRuns
    <3>2. /\ arrived = Gone + n + (IF rdr = 0 THEN 0 ELSE 1)
          /\ arrived = Gone + 1 + buf_len(rx)' + (IF rdr = 0 THEN 0 ELSE 1)
      BY <2>1, <3>1 DEF RxRuns
    <3> HIDE DEF n
    <3> QED BY <1>0, <3>1, <3>2
  <2> QED BY <1>3, <2>1, <2>2
<1>6. CASE GetWrap
  <2>1. /\ rdr' = rdr /\ arrived' = arrived
        /\ Gone = Len(got) + 1 /\ Gone' = Len(got')
    BY <1>6 DEF GetWrap, Step, uart, Gone, Taking
  <2>2. Len(got') = Len(got) + 1
    BY <1>6 DEF GetWrap, IndexInv, TypeOK
  <2>3. buf_len(rx)' = n
    <3>1. Gone' = Gone /\ buf_len(rx)' \in Nat
      BY <2>1, <2>2, SizeAssumption DEF RxRuns
    <3>2. /\ arrived = Gone + n + (IF rdr = 0 THEN 0 ELSE 1)
          /\ arrived = Gone + buf_len(rx)' + (IF rdr = 0 THEN 0 ELSE 1)
      BY <2>1, <3>1 DEF RxRuns
    <3> HIDE DEF n
    <3> QED BY <1>0, <3>1, <3>2
  <2> QED BY <1>1, <2>1, <2>2, <2>3
<1>7. CASE rx' = rx /\ got' = got /\ (pc' = pc \/ (~Taking /\ ~Taking'))
  BY <1>1, <1>7 DEF Gone, Taking, buf_len, Distance
<1>8. CASE UART0_IRQHandler /\ ~Receiving
  BY <1>7, <1>8 DEF UART0_IRQHandler, Receive, program
<1>9. CASE ShiftDone \/ CharacterArrives \/ UNCHANGED vars
  BY <1>7, <1>9 DEF ShiftDone, CharacterArrives, vars, program, history
<1> USE DEF Step, history
<1>10. CASE uart_write
  BY <1>7, <1>10
     DEF uart_write, CallWrite, Call, WriteNotFull, PutData, PutIndex, PutWrap,
         WriteLoadC2, WriteStoreC2, LoadC2, StoreC2, Taking
<1>11. CASE CallRead \/ ReadNotEmpty \/ ReadLoadC2 \/ ReadStoreC2
  BY <1>7, <1>11
     DEF CallRead, Call, ReadNotEmpty, ReadLoadC2, ReadStoreC2, LoadC2, StoreC2, Taking
<1>12. CASE uart_write_err
  BY <1>7, <1>12
     DEF uart_write_err, CallErr, Call, DisableIrq, ErrRegisterEmpty, ErrStore,
         EnableIrq, Taking
<1>13. CASE GetData
  <2>1. rx' = rx /\ got' = got /\ Gone' = Gone
    BY <1>13, UartAssumption DEF GetData, Gone, Taking
  <2> QED BY <1>1, <2>1 DEF buf_len, Distance
<1> QED
  BY <1>4, <1>5, <1>6, <1>8, <1>9, <1>10, <1>11, <1>12, <1>13 DEF Next, uart_read

LEMMA BoundStep == IInv /\ RxBound /\ [Next]_vars => RxBound'
<1> SUFFICES ASSUME IInv, RxBound, [Next]_vars PROVE RxBound'
  OBVIOUS
<1>1. CASE CharacterArrives
  <2>1. arrived < MaxRx /\ arrived' = arrived + 1
    BY <1>1 DEF CharacterArrives
  <2> QED BY <2>1, UartAssumption DEF RxBound, IInv, IndexInv, TypeOK
<1>2. CASE UART0_IRQHandler \/ ShiftDone \/ UNCHANGED vars
  BY <1>2 DEF UART0_IRQHandler, ShiftDone, vars, history, RxBound
<1>3. CASE uart_write \/ uart_read \/ uart_write_err
  BY <1>3 DEF uart_write, CallWrite, Call, WriteNotFull, PutData, PutIndex, PutWrap,
              WriteLoadC2, WriteStoreC2, LoadC2, StoreC2,
              uart_read, CallRead, ReadNotEmpty, GetData, GetIndex, GetWrap,
              ReadLoadC2, ReadStoreC2, uart_write_err, CallErr, DisableIrq,
              ErrRegisterEmpty, ErrStore, EnableIrq, history, RxBound
<1> QED
  BY <1>1, <1>2, <1>3 DEF Next

\* UART0_IRQHandler and uart_read together are a FIFO channel of Size - 1 bytes from
\* the receiver to the program, for every ring size and both orders of the accesses
\* in buf_get_byte: a byte is delivered at the store of the new head.
THEOREM ReceiverIsFifo == Spec => RxIsFifo
<1>1. Init => Receiver!Init
  <2> SUFFICES ASSUME Init PROVE Receiver!Init
    OBVIOUS
  <2>1. RxRuns
    BY IndexInit, StreamInit, ReceiverRuns
  <2>2. Gone = 0 /\ buf_len(rx) = 0
    BY ResetResult DEF Init, uart_init, Gone, Taking, buf_len, Distance
  <2>3. Run(0, 0) = << >>
    <3>1. Run(0, 0) \in Seq(Nat) /\ Len(Run(0, 0)) = 0
      BY RunResult
    <3> QED BY <3>1
  <2> QED BY <2>1, <2>2, <2>3 DEF RxRuns, Receiver!Init
<1>2. Init => RxBound
  BY UartAssumption DEF Init, uart_init, RxBound
<1>3. IInv => RxRuns
  BY ReceiverRuns DEF IInv
<1>4. IInv /\ RxRuns /\ RxRuns' /\ RxBound /\ [Next]_vars
        => [Receiver!Next]_<<Contents(rx), got \o Taken>>
  BY ReceiverStep DEF IInv
<1> QED
  BY <1>1, <1>2, <1>3, <1>4, Invariance, BoundStep, PTL DEF Spec, RxIsFifo, Receiver!Spec

-----------------------------------------------------------------------------
(* The program under the USB handler.                                          *)

\* A step of the driver that is not one of the USB handler's entry and end.
DriverStep ==
  /\ Program \/ UART0_IRQHandler \/ ShiftDone \/ CharacterArrives
  /\ UNCHANGED <<outer, fits>>

\* The steps of uart_write inside a call.
WriteStep == \/ WriteNotFull \/ PutData \/ PutIndex \/ PutWrap
             \/ WriteLoadC2 \/ WriteStoreC2

\* While the handler prints only uart_write and the wire make steps.
LEMMA PrintingSteps ==
  ASSUME OuterInv, Printing, DriverStep
  PROVE  WriteStep \/ ShiftDone \/ CharacterArrives
<1>1. primask = TRUE /\ pc \in WriteSteps \cup {"w_wait", "idle"}
  BY DEF OuterInv
<1>2. ~UART0_IRQHandler
  BY <1>1 DEF UART0_IRQHandler, IrqPending
<1>3. ASSUME Program PROVE WriteStep
  <2>1. pc \in WriteSteps \cup {"w_wait"}
    BY <1>1, <1>3 DEF Program
  <2>2. ~uart_read /\ ~uart_write_err /\ ~CallWrite
    BY <2>1 DEF uart_read, CallRead, Call, ReadNotEmpty, GetData, GetIndex, GetWrap,
                ReadLoadC2, ReadStoreC2, LoadC2, StoreC2, uart_write_err, CallErr,
                DisableIrq, ErrRegisterEmpty, ErrStore, EnableIrq, CallWrite, Step,
                WriteSteps
  <2> QED BY <1>3, <2>2 DEF Program, Return, uart_write, WriteStep
<1> QED BY <1>2, <1>3 DEF DriverStep

LEMMA DriverStepIsNext == DriverStep => Next
BY DEF DriverStep, Program, Return, Next

LEMMA WriteStepIs ==
  ASSUME WriteStep
  PROVE  /\ primask' = primask /\ pc \in WriteSteps \cup {"w_wait"}
         /\ pc' \in WriteSteps \cup {"w_wait", "idle"}
         /\ pc' = "idle" => pc = "w_store" /\ todo = 1 /\ todo' = todo - 1
BY DEF WriteStep, WriteNotFull, PutData, PutIndex, PutWrap, WriteLoadC2, WriteStoreC2,
       LoadC2, StoreC2, Step, WriteSteps

LEMMA ConsoleStep ==
  IndexInv /\ OuterInv /\ [ConsoleNext]_consoleVars => IndexInv' /\ OuterInv'
<1> SUFFICES ASSUME IndexInv, OuterInv, [ConsoleNext]_consoleVars
             PROVE  IndexInv' /\ OuterInv'
  OBVIOUS
<1>1. CASE DriverStep
  <2>1. IndexInv'
    BY <1>1, DriverStepIsNext, IndexStep
  <2>2. CASE ~Printing
    BY <1>1, <2>1, <2>2 DEF DriverStep, OuterInv, Printing
  <2>3. CASE Printing /\ WriteStep
    <3>1. /\ outer' = outer /\ primask' = TRUE /\ pc' \in WriteSteps \cup {"w_wait", "idle"}
          /\ pc' = "idle" => todo' = 0
      BY <1>1, <2>3, WriteStepIs DEF DriverStep, OuterInv
    <3> QED BY <2>1, <2>3, <3>1 DEF OuterInv, Printing
  <2>4. CASE Printing /\ (ShiftDone \/ CharacterArrives)
    <3>1. /\ outer' = outer /\ primask' = primask /\ pc' = pc /\ todo' = todo
      BY <1>1, <2>4 DEF DriverStep, ShiftDone, CharacterArrives, program
    <3> QED BY <2>1, <2>4, <3>1 DEF OuterInv, Printing
  <2> QED BY <1>1, <2>1, <2>2, <2>3, <2>4, PrintingSteps
<1>2. CASE CallPrint
  <2>1. PICK len \in 1 .. MaxPrint : BeginPrint(len)
    BY <1>2 DEF CallPrint
  <2>2. pc \in {"idle", "w_wait", "r_wait"} /\ len \in Nat /\ len # 0
    BY <1>2, ConsoleAssumption DEF CallPrint
  <2>3. /\ outer' = <<pc, todo, slot, item, saved>> /\ pc' = "w_wait" /\ todo' = len
        /\ primask' = TRUE
        /\ UNCHANGED <<tx, rx, c2, tdre, shifting, rdr, slot, item, saved, ticked,
                       written, arrived, errs, sent, got>>
    BY <2>1 DEF BeginPrint, program, uart, history
  <2>4. TypeOK'
    BY <2>2, <2>3 DEF IndexInv, TypeOK, PCs
  <2>5. IndexInv'
    BY <2>2, <2>3, <2>4 DEF IndexInv, Taking
  <2>6. /\ outer'[1] = pc /\ outer'[2] = todo /\ outer'[3] = slot /\ outer'[4] = item
        /\ outer'[5] = saved
    BY <2>3
  <2>7. OuterInv'
    BY <2>2, <2>3, <2>6 DEF OuterInv, IndexInv, TypeOK
  <2> QED BY <2>5, <2>7
<1>3. CASE EndPrint
  <2>1. /\ outer[1] \in {"idle", "w_wait", "r_wait"}
        /\ outer[2] \in Nat /\ (outer[1] # "idle" => outer[2] # 0)
        /\ outer[3] \in Slots /\ outer[4] \in Nat
        /\ outer[5] \subseteq {"TIE", "RIE"} /\ pc = "idle"
    BY <1>3 DEF EndPrint, OuterInv
  <2>2. /\ outer' = None /\ pc' = outer[1] /\ todo' = outer[2] /\ slot' = outer[3]
        /\ item' = outer[4] /\ saved' = outer[5] /\ primask' = FALSE
        /\ UNCHANGED <<tx, rx, c2, tdre, shifting, rdr, ticked,
                       written, arrived, errs, sent, got>>
    BY <1>3 DEF EndPrint, uart, history
  <2>3. TypeOK'
    BY <2>1, <2>2 DEF IndexInv, TypeOK, PCs
  <2>4. IndexInv'
    BY <2>1, <2>2, <2>3 DEF IndexInv, Taking
  <2> QED BY <2>2, <2>4 DEF OuterInv, Printing
<1>4. CASE UNCHANGED consoleVars
  <2>1. UNCHANGED vars /\ outer' = outer
    BY <1>4 DEF consoleVars
  <2>2. IndexInv'
    BY <2>1, IndexStep
  <2> QED BY <2>1, <2>2 DEF OuterInv, Printing, vars, program
<1> QED
  BY <1>1, <1>2, <1>3, <1>4 DEF ConsoleNext, DriverStep

-----------------------------------------------------------------------------
(* The room in the ring.                                                       *)

LEMMA HeldOfTx ==
  ASSUME IndexInv
  PROVE  /\ tx.head \in Slots /\ tx.tail \in 0 .. Size /\ Wrap(tx.tail) \in Slots
         /\ Held(tx) = Distance(tx.head, Wrap(tx.tail)) /\ Held(tx) \in 0 .. Size - 1
         /\ tx.tail \in Slots => Wrap(tx.tail) = tx.tail /\ Held(tx) = buf_len(tx)
<1>1. tx \in Rings /\ tx.head \in Slots /\ tx.tail \in 0 .. Size
  BY RingFields DEF IndexInv, TypeOK
<1>2. Wrap(tx.head) = tx.head /\ Wrap(tx.tail) \in Slots
  BY <1>1, WrapHead, SizeAssumption DEF Wrap, Slots
<1>3. tx.tail \in Slots => Wrap(tx.tail) = tx.tail
  BY SizeAssumption DEF Wrap, Slots
<1> QED BY <1>1, <1>2, <1>3, HeldRange DEF Held, buf_len

\* The handler takes one byte from a ring in which the two indices are slots.
LEMMA HeldAfterSend ==
  ASSUME IndexInv, UART0_IRQHandler, Sending
  PROVE  /\ tx'.tail = tx.tail /\ tx'.data = tx.data /\ tx'.head = Wrap(tx.head + 1)
         /\ tx'.head \in Slots
         /\ sent' = Append(sent, tx.data[tx.head])
         /\ \A i \in Slots : i # tx.head
              => Distance(tx.head, i) = Distance(tx'.head, i) + 1
<1>1. /\ tx' = buf_get_byte(tx).rest /\ sent' = Append(sent, buf_get_byte(tx).item)
      /\ tx \in Rings /\ tx.head \in Slots
  BY DEF UART0_IRQHandler, Transmit, IndexInv, TypeOK
<1>2. Wrap(tx.head + 1) \in Slots /\ Wrap(tx.head + 1) \in 0 .. Size
  BY <1>1, WrapResult
<1>3. /\ tx'.tail = tx.tail /\ tx'.data = tx.data /\ tx'.head = Wrap(tx.head + 1)
  BY <1>1, <1>2, StoreHeadResult DEF buf_get_byte
<1>4. \A i \in Slots : i # tx.head => Distance(tx.head, i) = Distance(tx'.head, i) + 1
  BY <1>1, <1>3, DistanceNextHead, DistanceWrapHead
<1> QED BY <1>1, <1>2, <1>3, <1>4 DEF buf_get_byte

\* What the steps of uart_write do to the ring.
LEMMA HeldAfterPut ==
  ASSUME IndexInv, WriteStep
  PROVE  /\ pc # "w_tail" => Wrap(tx'.tail) = Wrap(tx.tail)
         /\ pc = "w_tail" => tx'.tail = slot + 1
         /\ tx'.head = tx.head
         /\ UNCHANGED <<rx, primask, tdre, shifting, rdr, sent, got>>
<1>1. tx \in Rings /\ slot \in Slots /\ tx.tail \in 0 .. Size
  BY RingFields DEF IndexInv, TypeOK
<1>2. CASE PutData
  <2>1. PICK val \in Nat : tx' = StoreData(tx, slot, val)
    BY <1>2 DEF PutData, IndexInv, TypeOK
  <2>2. tx'.head = tx.head /\ tx'.tail = tx.tail
    BY <1>1, <2>1, StoreDataResult
  <2> QED BY <1>2, <2>2 DEF PutData, Step, uart, history
<1>3. CASE PutIndex
  <2>1. slot + 1 \in 0 .. Size
    BY <1>1, SizeAssumption DEF Slots
  <2> QED BY <1>1, <1>3, <2>1, StoreTailResult DEF PutIndex, Step, uart
<1>4. CASE PutWrap
  <2>1. Wrap(tx.tail) \in 0 .. Size /\ Wrap(Wrap(tx.tail)) = Wrap(tx.tail)
    BY <1>1, SizeAssumption DEF Wrap
  <2> QED BY <1>1, <1>4, <2>1, StoreTailResult DEF PutWrap, Step, uart, history
<1>5. CASE WriteNotFull \/ WriteLoadC2 \/ WriteStoreC2
  BY <1>5 DEF WriteNotFull, WriteLoadC2, WriteStoreC2, LoadC2, StoreC2, Step, uart, history
<1> QED BY <1>2, <1>3, <1>4, <1>5 DEF WriteStep

LEMMA RoomWrite ==
  ASSUME IndexInv, IndexInv', OuterInv, RoomInv, WriteStep, outer' = outer, fits' = fits
  PROVE  RoomInv'
<1>0. /\ Size \in Nat /\ Size >= 2 /\ IndexFirst \in BOOLEAN /\ slot \in Slots /\ todo \in Nat
      /\ tx.head \in Slots
  BY SizeAssumption, UartAssumption, HeldOfTx DEF IndexInv, TypeOK
<1>1. Held(tx) = Distance(tx.head, Wrap(tx.tail)) /\ Held(tx) \in 0 .. Size - 1
  BY HeldOfTx
<1>2. Held(tx)' = Distance(tx.head, Wrap(tx'.tail))
  <2>1. tx'.head = tx.head
    BY HeldAfterPut
  <2>2. Wrap(tx.head) = tx.head
    BY <1>0 DEF Wrap, Slots
  <2> QED BY <2>1, <2>2 DEF Held
<1>3. pc # "w_tail" => Held(tx)' = Held(tx)
  BY <1>1, <1>2, HeldAfterPut
<1>4. CASE PutIndex
  <2>1. /\ pc = "w_tail" /\ pc' = (IF IndexFirst THEN "w_data" ELSE "w_wrap")
        /\ todo' = todo
    BY <1>4 DEF PutIndex, Step
  <2>2. ~Counted /\ Counted' /\ Left' = todo - 1 /\ Left = todo
    BY <1>0, <2>1 DEF Counted, Left
  <2>3. slot = tx.tail /\ Held(tx) < Size - 1
    BY <2>1, <2>2 DEF RoomInv, WriteSteps
  <2>4. Held(tx)' = Held(tx) + 1
    <3>1. tx'.tail = slot + 1
      BY <2>1, HeldAfterPut
    <3>2. Wrap(slot) = slot
      BY <1>0 DEF Wrap, Slots
    <3>3. Held(tx) = Distance(tx.head, slot)
      BY <1>1, <2>3, <3>2
    <3>4. Distance(tx.head, Wrap(slot + 1)) = Distance(tx.head, slot) + 1
      BY <1>0, <1>1, <2>3, <3>3, DistanceNextTail DEF Slots
    <3> QED BY <1>2, <3>1, <3>3, <3>4
  <2>5. ASSUME Printing', ~fits' PROVE Left' + Held(tx)' > Size - 1
    <3>1. Printing /\ ~fits
      BY <2>5 DEF Printing
    <3>2. Left + Held(tx) > Size - 1
      BY <3>1 DEF RoomInv
    <3> QED BY <1>0, <1>1, <2>2, <2>4, <3>2
  <2> QED BY <2>2, <2>5 DEF RoomInv
<1>5. CASE WriteNotFull
  <2>1. /\ pc = "w_wait" /\ pc' = (IF IndexFirst THEN "w_tail" ELSE "w_data")
        /\ ~buf_isfull(tx) /\ slot' = tx.tail /\ todo' = todo /\ tx' = tx
    BY <1>5 DEF WriteNotFull, Step
  <2>2. ~Counted /\ ~Counted' /\ Left' = Left /\ Held(tx)' = Held(tx)
    BY <1>0, <1>3, <2>1 DEF Counted, Left
  <2>3. tx.tail \in Slots
    BY <2>1 DEF IndexInv
  <2>4. Held(tx) < Size - 1
    BY <1>0, <1>1, <2>1, <2>3, HeldOfTx DEF buf_isfull
  <2> QED BY <2>1, <2>2, <2>4 DEF RoomInv, Printing
<1>6. CASE PutData
  <2>1. /\ pc = "w_data" /\ pc' = (IF IndexFirst THEN "w_wrap" ELSE "w_tail")
        /\ todo' = todo /\ slot' = slot
    BY <1>6 DEF PutData, Step
  <2>2. Counted' = Counted /\ Left' = Left /\ Held(tx)' = Held(tx)
    BY <1>0, <1>3, <2>1 DEF Counted, Left
  <2>3. ~Counted => tx'.tail = tx.tail
    <3> SUFFICES ASSUME ~IndexFirst PROVE tx'.tail = tx.tail
      BY <2>1 DEF Counted
    <3>1. PICK val \in Nat : tx' = StoreData(tx, slot, val)
      BY <1>6 DEF PutData, IndexInv, TypeOK
    <3>2. tx \in Rings
      BY DEF IndexInv, TypeOK
    <3> QED BY <1>0, <3>1, <3>2, StoreDataResult
  <2> QED BY <2>1, <2>2, <2>3 DEF RoomInv, Printing, WriteSteps
<1>7. CASE PutWrap \/ WriteLoadC2
  <2>1. /\ pc \in {"w_wrap", "w_load"} /\ pc' \in {"w_load", "w_store"}
        /\ todo' = todo
    BY <1>7 DEF PutWrap, WriteLoadC2, LoadC2, Step
  <2>2. Counted /\ Counted' /\ Left' = Left /\ Held(tx)' = Held(tx)
    BY <1>0, <1>3, <2>1 DEF Counted, Left
  <2> QED BY <2>2 DEF RoomInv, Printing
<1>8. CASE WriteStoreC2
  <2>1. /\ pc = "w_store" /\ pc' \in {"idle", "w_wait"} /\ todo' = todo - 1
    BY <1>8 DEF WriteStoreC2, StoreC2, Step
  <2>2. Counted /\ ~Counted' /\ Left' = Left /\ Held(tx)' = Held(tx)
    BY <1>0, <1>3, <2>1 DEF Counted, Left
  <2> QED BY <2>1, <2>2 DEF RoomInv, Printing, WriteSteps
<1> QED BY <1>4, <1>5, <1>6, <1>7, <1>8 DEF WriteStep

LEMMA RoomStep ==
  IndexInv /\ OuterInv /\ RoomInv /\ [ConsoleNext]_consoleVars => RoomInv'
<1> SUFFICES ASSUME IndexInv, OuterInv, RoomInv, [ConsoleNext]_consoleVars
             PROVE  RoomInv'
  OBVIOUS
<1>0. IndexInv' /\ OuterInv'
  BY ConsoleStep
<1>1. CASE DriverStep /\ WriteStep
  BY <1>0, <1>1, RoomWrite DEF DriverStep
<1>2. CASE DriverStep /\ UART0_IRQHandler
  <2>1. ~Printing /\ ~Printing'
    BY <1>2 DEF DriverStep, OuterInv, UART0_IRQHandler, IrqPending, Printing
  <2>2. /\ pc' = pc /\ slot' = slot /\ Counted' = Counted
    BY <1>2 DEF UART0_IRQHandler, program, Counted
  <2>3. ASSUME pc \in WriteSteps, ~Counted
        PROVE  tx'.tail = tx.tail /\ Held(tx)' <= Held(tx)
    <3>1. tx.tail = slot /\ tx.tail \in Slots
      BY <2>3 DEF RoomInv, IndexInv, TypeOK
    <3>2. CASE ~Sending
      BY <1>2, <3>2, HeldOfTx DEF UART0_IRQHandler, Transmit
    <3>3. CASE Sending
      <4>1. /\ tx'.tail = tx.tail /\ tx'.head \in Slots
            /\ \A i \in Slots : i # tx.head
                 => Distance(tx.head, i) = Distance(tx'.head, i) + 1
        BY <1>2, <3>3, HeldAfterSend
      <4>2. tx.head # tx.tail
        BY <3>3 DEF Sending, buf_isempty
      <4>3. Wrap(tx'.head) = tx'.head /\ Wrap(tx.tail) = tx.tail
        BY <3>1, <4>1, SizeAssumption DEF Wrap, Slots
      <4>4. Held(tx)' = Distance(tx'.head, tx.tail) /\ Held(tx) = Distance(tx.head, tx.tail)
        BY <4>1, <4>3, HeldOfTx DEF Held
      <4>5. Distance(tx'.head, tx.tail) \in 0 .. Size - 1
        <5>1. tx'.head \in 0 .. Size
          BY <4>1, SizeAssumption DEF Slots
        <5> QED BY <3>1, <5>1, DistanceRange
      <4> QED BY <3>1, <4>1, <4>2, <4>4, <4>5, SizeAssumption
    <3> QED BY <3>2, <3>3
  <2>4. Held(tx) \in 0 .. Size - 1 /\ Held(tx)' \in 0 .. Size - 1 /\ Size \in Nat
    <3>1. tx \in Rings /\ tx' \in Rings
      BY <1>0 DEF IndexInv, TypeOK
    <3> QED BY <3>1, HeldRange, SizeAssumption
  <2> QED BY <2>1, <2>2, <2>3, <2>4 DEF RoomInv
<1>3. CASE DriverStep /\ ~WriteStep /\ ~UART0_IRQHandler
  <2>1. /\ tx' = tx /\ outer' = outer /\ fits' = fits
        /\ Printing => pc' = pc /\ todo' = todo /\ slot' = slot
        /\ pc' \in WriteSteps => pc' = pc /\ todo' = todo /\ slot' = slot
    <3>1. CASE ShiftDone \/ CharacterArrives
      BY <1>3, <3>1 DEF DriverStep, ShiftDone, CharacterArrives, program
    <3>2. CASE Program /\ ~(ShiftDone \/ CharacterArrives)
      <4>1. CallWrite \/ uart_read \/ uart_write_err
        BY <1>3, <3>2 DEF Program, Return, uart_write, WriteStep
      <4>2. tx' = tx /\ pc' \notin WriteSteps
        BY <4>1 DEF uart_read, CallRead, Call, ReadNotEmpty, GetData, GetIndex, GetWrap,
                    ReadLoadC2, ReadStoreC2, LoadC2, StoreC2, uart_write_err, CallErr,
                    DisableIrq, ErrRegisterEmpty, ErrStore, EnableIrq, CallWrite, Step,
                    WriteSteps
      <4>3. ~Printing
        BY <1>3, <3>2, PrintingSteps
      <4> QED BY <1>3, <4>2, <4>3 DEF DriverStep
    <3> QED BY <1>3, <3>1, <3>2 DEF DriverStep
  <2>2. Held(tx)' = Held(tx)
    BY <2>1 DEF Held
  <2> QED BY <2>1, <2>2 DEF RoomInv, Printing, Counted, Left
<1>4. CASE CallPrint
  <2>1. PICK len \in 1 .. MaxPrint : BeginPrint(len)
    BY <1>4 DEF CallPrint
  <2>2. /\ pc' = "w_wait" /\ tx' = tx /\ todo' = len
        /\ len \in Nat
    BY <2>1, ConsoleAssumption DEF BeginPrint
  <2>3. Held(tx)' = buf_len(tx)
    <3>1. tx.tail \in Slots
      BY <1>4 DEF CallPrint, IndexInv
    <3> QED BY <2>2, <3>1, HeldOfTx DEF Held, buf_len
  <2>4. Left' = len /\ ~(pc' \in WriteSteps)
    BY <2>2 DEF Left, Counted, WriteSteps
  <2>5. buf_len(tx) \in Nat /\ Size \in Nat
    <3>1. tx' \in Rings
      BY <1>0 DEF IndexInv, TypeOK
    <3> QED BY <2>3, <3>1, HeldRange, SizeAssumption
  <2>6. ~fits' => len + buf_len(tx) > Size - 1
    <3>1. fits' = (len <= Size - 1 - buf_len(tx))
      BY <2>1 DEF BeginPrint
    <3>2. len <= Size - 1 - buf_len(tx) => fits'
      BY <3>1, Zenon
    <3> QED BY <2>2, <2>5, <3>2
  <2>7. ~fits' => Left' + Held(tx)' > Size - 1
    BY <2>3, <2>4, <2>6
  <2> QED BY <2>4, <2>7 DEF RoomInv
<1>5. CASE EndPrint
  <2>1. ~Printing' /\ pc' \notin WriteSteps
    BY <1>5 DEF EndPrint, OuterInv, Printing, WriteSteps
  <2> QED BY <2>1 DEF RoomInv
<1>6. CASE UNCHANGED consoleVars
  <2>1. tx' = tx /\ outer' = outer /\ fits' = fits /\ pc' = pc /\ todo' = todo /\ slot' = slot
    BY <1>6 DEF consoleVars, vars, program
  <2> QED BY <2>1 DEF RoomInv, Held, Printing, Counted, Left
<1> QED
  BY <1>1, <1>2, <1>3, <1>4, <1>5, <1>6 DEF ConsoleNext, DriverStep

-----------------------------------------------------------------------------
(* Printing.                                                                   *)

ConsoleInv == IndexInv /\ OuterInv /\ RoomInv

LEMMA ConsoleInvariance == ConsoleSpec => []ConsoleInv
<1>1. ConsoleInit => ConsoleInv
  <2> SUFFICES ASSUME ConsoleInit PROVE ConsoleInv
    OBVIOUS
  <2>1. IndexInv
    BY IndexInit DEF ConsoleInit
  <2>2. ~Printing /\ pc = "idle"
    BY DEF ConsoleInit, Printing, Init, uart_init
  <2> QED BY <2>1, <2>2 DEF ConsoleInv, OuterInv, RoomInv, WriteSteps
<1>2. ConsoleInv /\ [ConsoleNext]_consoleVars => ConsoleInv'
  BY ConsoleStep, RoomStep DEF ConsoleInv
<1> QED
  BY <1>1, <1>2, PTL DEF ConsoleSpec

\* A line the USB handler prints with more bytes than the ring has room for never
\* returns, whatever the order of the accesses and the timing of the wire: the
\* handler of the UART, which would make room, cannot run.
THEOREM PrintNeedsRoom == ConsoleSpec => HangsWithoutRoom
<1>1. ConsoleInv /\ [ConsoleNext]_consoleVars => [Printing /\ ~Printing' => fits]_consoleVars
  <2> SUFFICES ASSUME ConsoleInv, [ConsoleNext]_consoleVars, Printing, ~Printing', ~fits
               PROVE  FALSE
    OBVIOUS
  <2>1. EndPrint
    BY DEF ConsoleNext, consoleVars, CallPrint, Printing
  <2>2. pc = "idle" /\ todo = 0
    BY <2>1 DEF EndPrint, ConsoleInv, OuterInv
  <2>3. Left = 0
    BY <2>2 DEF Left, Counted
  <2>4. Held(tx) \in 0 .. Size - 1
    BY HeldOfTx DEF ConsoleInv
  <2>5. Left + Held(tx) > Size - 1
    BY DEF ConsoleInv, RoomInv
  <2> QED BY <2>3, <2>4, <2>5, SizeAssumption
<1> QED
  BY <1>1, ConsoleInvariance, PTL DEF ConsoleSpec, HangsWithoutRoom

-----------------------------------------------------------------------------
(* The transmitted stream, when the data is stored before the index.           *)

LEMMA StormStays ==
  ASSUME OuterInv, ReceiveStorm, [ConsoleNext]_consoleVars
  PROVE  ReceiveStorm'
<1>1. /\ ~primask /\ "RIE" \in c2 /\ rdr # 0 /\ buf_isfull(rx) /\ IrqPending
  BY DEF ReceiveStorm, IrqPending
<1>2. CASE UART0_IRQHandler
  <2>1. ~Receiving
    BY <1>1 DEF Receiving
  <2>2. rx' = rx /\ rdr' = rdr /\ primask' = primask /\ "RIE" \in c2'
    BY <1>1, <1>2, <2>1 DEF UART0_IRQHandler, Receive
  <2> QED BY <1>1, <2>2 DEF ReceiveStorm, buf_isfull, buf_len, Distance
<1>3. CASE ShiftDone \/ UNCHANGED consoleVars
  <2>1. rx' = rx /\ rdr' = rdr /\ primask' = primask /\ c2' = c2
    BY <1>3 DEF ShiftDone, consoleVars, vars, uart
  <2> QED BY <1>1, <2>1 DEF ReceiveStorm, buf_isfull, buf_len, Distance
<1>4. ~CharacterArrives /\ ~CallPrint
  BY <1>1 DEF CharacterArrives, CallPrint
<1>5. ~EndPrint
  BY <1>1 DEF EndPrint, OuterInv
<1>6. ~Return
  BY <1>1 DEF Return, uart_write, CallWrite, Call, WriteNotFull, PutData, PutIndex, PutWrap,
              WriteLoadC2, WriteStoreC2, LoadC2, StoreC2,
              uart_read, CallRead, ReadNotEmpty, GetData, GetIndex, GetWrap,
              ReadLoadC2, ReadStoreC2, uart_write_err, CallErr, DisableIrq,
              ErrRegisterEmpty, ErrStore, EnableIrq, Step
<1> QED
  BY <1>2, <1>3, <1>4, <1>5, <1>6 DEF ConsoleNext, Program

\* With something to send the handler never finds a ring that only looks full.
LEMMA SendsWhatIsHeld ==
  ASSUME ~IndexFirst, IndexInv, WireInv, ~ReceiveStorm, IrqPending, Sending
  PROVE  tx.head # Wrap(tx.tail) /\ ~LooksFull
<1>1. ~LooksFull
  <2> SUFFICES ASSUME LooksFull PROVE FALSE
    OBVIOUS
  <2>1. IF "TIE" \in c2 THEN ~tdre ELSE "RIE" \in c2 => rdr = 0
    BY DEF WireInv
  <2>2. tdre
    BY DEF Sending
  <2>3. "TIE" \in c2 \/ ("RIE" \in c2 /\ rdr # 0)
    BY DEF IrqPending
  <2> QED BY <2>1, <2>2, <2>3
<1>2. tx.head # tx.tail /\ tx.head \in Slots
  BY HeldOfTx DEF Sending, buf_isempty
<1>3. CASE tx.tail \in Slots
  BY <1>1, <1>2, <1>3, HeldOfTx
<1>4. CASE tx.tail \notin Slots
  <2>1. pc = "w_wrap" /\ tx.tail = Size
    BY <1>4, HeldOfTx, SizeAssumption DEF IndexInv, Slots
  <2>2. Wrap(tx.tail) = 0
    BY <2>1 DEF Wrap
  <2> QED BY <1>1, <2>1, <2>2 DEF LooksFull
<1> QED BY <1>1, <1>3, <1>4

LEMMA SendHandler ==
  ASSUME ~IndexFirst, IndexInv, SendInv, WireInv, ~ReceiveStorm, UART0_IRQHandler
  PROVE  SendInv'
<1>1. pc' = pc /\ slot' = slot /\ written' = written
  BY DEF UART0_IRQHandler, program
<1>2. CASE ~Sending
  <2>1. tx' = tx /\ sent' = sent
    BY <1>2 DEF UART0_IRQHandler, Transmit
  <2> QED BY <1>1, <2>1 DEF SendInv, Held, Distance
<1>3. CASE Sending
  <2> DEFINE h == tx.head
             g == Wrap(tx.head + 1)
             t == Wrap(tx.tail)
  <2>1. /\ tx'.tail = tx.tail /\ tx'.data = tx.data /\ tx'.head = g /\ g \in Slots
        /\ sent' = Append(sent, tx.data[h])
        /\ \A i \in Slots : i # h => Distance(h, i) = Distance(g, i) + 1
    BY <1>3, HeldAfterSend
  <2>2. h \in Slots /\ t \in Slots /\ h # t
    BY <1>3, HeldOfTx, SendsWhatIsHeld DEF UART0_IRQHandler
  <2>3. Held(tx) = Distance(h, t) /\ Held(tx)' = Distance(g, t)
    <3>1. Wrap(g) = g
      BY <2>1, SizeAssumption DEF Wrap, Slots
    <3> QED BY <2>1, <3>1, HeldOfTx DEF Held
  <2>4. /\ Size \in Nat /\ Size >= 2 /\ sent \in Seq(Nat) /\ Len(sent) \in Nat
        /\ tx \in Rings /\ h \in 0 .. Size /\ g \in 0 .. Size /\ tx.data[h] \in Nat
    <3>1. tx \in Rings /\ sent \in Seq(Nat)
      BY DEF IndexInv, TypeOK
    <3>2. tx.data \in [Slots -> Nat]
      BY <3>1, RingFields
    <3>3. h \in 0 .. Size /\ g \in 0 .. Size
      BY <2>1, <2>2, SizeAssumption DEF Slots
    <3> QED BY <2>2, <3>1, <3>2, <3>3, SizeAssumption
  <2> HIDE DEF g, h, t
  <2>5. /\ \A i \in Slots : Distance(h, i) \in 0 .. Size - 1 /\ Distance(g, i) \in 0 .. Size - 1
    BY <2>4, DistanceRange
  <2>6. Distance(h, t) = Distance(g, t) + 1 /\ Distance(h, h) = 0 /\ Distance(g, h) = Size - 1
    BY <2>1, <2>2, <2>4, DistanceNextHead, DistanceWrapHead DEF g, h
  <2>7. \A i \in Slots : Distance(h, i) < Distance(h, t)
                           => tx.data[i] = Len(sent) + 1 + Distance(h, i)
    BY <2>3 DEF SendInv, h
  <2>8. tx.data[h] = Len(sent) + 1
    BY <2>2, <2>4, <2>5, <2>6, <2>7
  <2>9. Len(sent') = Len(sent) + 1 /\ \A k \in DOMAIN sent' : sent'[k] = k
    BY <2>1, <2>4, <2>8 DEF SendInv
  <2>10. written = Len(sent') + Distance(g, t)
    <3>1. written = Len(sent) + Distance(h, t)
      BY <2>3 DEF SendInv
    <3> QED BY <2>2, <2>4, <2>5, <2>6, <2>9, <3>1
  <2>11. ASSUME NEW i \in Slots, Distance(g, i) < Distance(g, t)
         PROVE  tx.data[i] = Len(sent') + 1 + Distance(g, i)
    <3>1. i # h
      BY <2>2, <2>5, <2>6, <2>11
    <3>2. Distance(h, i) = Distance(g, i) + 1
      BY <2>1, <3>1
    <3>3. Distance(h, i) < Distance(h, t)
      BY <2>2, <2>4, <2>5, <2>6, <2>11, <3>2
    <3>4. tx.data[i] = Len(sent) + 1 + Distance(h, i)
      BY <2>7, <3>3
    <3>5. Distance(g, i) \in Int
      BY <2>4, <2>5
    <3> QED BY <2>4, <2>9, <3>2, <3>4, <3>5
  <2>12. pc = "w_tail" => tx.data[slot] = written + 1
    BY DEF SendInv
  <2> QED
    BY <1>1, <2>1, <2>3, <2>9, <2>10, <2>11, <2>12 DEF SendInv
<1> QED BY <1>2, <1>3

LEMMA SendWrite ==
  ASSUME ~IndexFirst, IndexInv, RoomInv, SendInv, WriteStep
  PROVE  SendInv'
<1> DEFINE h == tx.head
<1>0. /\ Size \in Nat /\ Size >= 2 /\ tx \in Rings /\ h \in Slots /\ h \in 0 .. Size
      /\ slot \in Slots /\ written \in Nat /\ Len(sent) \in Nat /\ sent' = sent
      /\ tx'.head = h /\ Held(tx) \in 0 .. Size - 1
  BY SizeAssumption, RingFields, HeldOfTx, HeldAfterPut DEF IndexInv, TypeOK, Slots
<1>1. Held(tx) = Distance(h, Wrap(tx.tail)) /\ Held(tx)' = Distance(h, Wrap(tx'.tail))
  <2>1. Wrap(h) = h
    BY <1>0 DEF Wrap, Slots
  <2> QED BY <1>0, <2>1 DEF Held
<1>2. /\ \A k \in DOMAIN sent : sent[k] = k
      /\ written = Len(sent) + Held(tx)
      /\ \A i \in Slots : Distance(h, i) < Held(tx)
                            => tx.data[i] = Len(sent) + 1 + Distance(h, i)
  BY DEF SendInv
<1>3. CASE PutIndex
  <2>1. pc = "w_tail" /\ pc' = "w_wrap" /\ written' = written + 1
    BY <1>3 DEF PutIndex, Step
  <2>2. slot = tx.tail /\ Held(tx) < Size - 1 /\ tx.data[slot] = written + 1
    BY <2>1 DEF RoomInv, WriteSteps, Counted, SendInv
  <2>3. tx'.tail = slot + 1 /\ tx'.data = tx.data
    <3>1. slot + 1 \in 0 .. Size
      BY <1>0 DEF Slots
    <3> QED BY <1>0, <1>3, <3>1, StoreTailResult DEF PutIndex
  <2>4. Held(tx) = Distance(h, slot) /\ Held(tx)' = Held(tx) + 1
    <3>1. Wrap(slot) = slot
      BY <1>0 DEF Wrap, Slots
    <3>2. Held(tx) = Distance(h, slot)
      BY <1>1, <2>2, <3>1
    <3>3. Distance(h, Wrap(slot + 1)) = Distance(h, slot) + 1
      BY <1>0, <2>2, <3>2, DistanceNextTail
    <3> QED BY <1>1, <2>3, <3>2, <3>3
  <2>5. ASSUME NEW i \in Slots, Distance(h, i) < Held(tx) + 1
        PROVE  tx.data[i] = Len(sent) + 1 + Distance(h, i)
    <3>1. CASE i = slot
      BY <1>0, <1>2, <2>2, <2>4, <3>1
    <3>2. CASE i # slot
      <4>1. Distance(h, i) # Distance(h, slot) /\ Distance(h, i) \in 0 .. Size - 1
        BY <1>0, <3>2, DistanceInjective, DistanceRange
      <4> QED BY <1>0, <1>2, <2>4, <2>5, <4>1
    <3> QED BY <3>1, <3>2
  <2>6. written' = Len(sent') + Held(tx)'
    BY <1>0, <1>2, <2>1, <2>4
  <2> QED BY <1>0, <1>2, <2>1, <2>3, <2>4, <2>5, <2>6 DEF SendInv
<1>4. CASE PutData
  <2>1. /\ pc = "w_data" /\ pc' = "w_tail" /\ slot' = slot /\ written' = written
        /\ tx' = StoreData(tx, slot, written + 1)
    BY <1>4 DEF PutData, Step, history
  <2>2. slot = tx.tail
    BY <2>1 DEF RoomInv, WriteSteps, Counted
  <2>3. /\ tx'.tail = tx.tail /\ tx'.data[slot] = written + 1
        /\ \A i \in Slots : i # slot => tx'.data[i] = tx.data[i]
    <3>1. written + 1 \in Nat
      BY <1>0
    <3>2. StoreData(tx, slot, written + 1).tail = tx.tail
      BY <1>0, <3>1, StoreDataResult
    <3>3. \A i \in Slots : StoreData(tx, slot, written + 1).data[i]
                             = IF i = slot THEN written + 1 ELSE tx.data[i]
      BY <1>0, <3>1, StoreDataSlot
    <3> QED BY <1>0, <2>1, <3>2, <3>3
  <2>4. Held(tx) = Distance(h, slot) /\ Held(tx)' = Held(tx)
    <3>1. Wrap(slot) = slot
      BY <1>0 DEF Wrap, Slots
    <3> QED BY <1>1, <2>2, <2>3, <3>1
  <2>5. ASSUME NEW i \in Slots, Distance(h, i) < Held(tx)
        PROVE  tx'.data[i] = Len(sent) + 1 + Distance(h, i)
    <3>1. i # slot
      BY <1>0, <2>4, <2>5
    <3> QED BY <1>2, <2>3, <2>5, <3>1
  <2> QED BY <1>0, <1>2, <2>1, <2>3, <2>4, <2>5 DEF SendInv
<1>5. CASE WriteNotFull \/ PutWrap \/ WriteLoadC2 \/ WriteStoreC2
  <2>1. pc # "w_tail" /\ pc' # "w_tail" /\ written' = written /\ tx'.data = tx.data
    <3>1. CASE PutWrap
      <4>1. Wrap(tx.tail) \in 0 .. Size
        BY <1>0, RingFields DEF Wrap
      <4> QED BY <1>0, <3>1, <4>1, StoreTailResult DEF PutWrap, Step, history
    <3>2. CASE WriteNotFull \/ WriteLoadC2 \/ WriteStoreC2
      BY <3>2 DEF WriteNotFull, WriteLoadC2, WriteStoreC2, LoadC2, StoreC2, Step, history
    <3> QED BY <1>5, <3>1, <3>2
  <2>2. Held(tx)' = Held(tx)
    BY <1>1, <2>1, HeldAfterPut
  <2> QED BY <1>0, <1>2, <2>1, <2>2 DEF SendInv
<1> QED BY <1>3, <1>4, <1>5 DEF WriteStep

\* In the step before the wrap the transmitter calls no storm.
LEMMA NoTransmitStorm ==
  ASSUME WireInv, pc = "w_wrap" PROVE ~TransmitStorm
BY DEF WireInv, TransmitStorm

LEMMA WireHandler ==
  ASSUME ~IndexFirst, IndexInv, IndexInv', WireInv, ~ReceiveStorm, UART0_IRQHandler
  PROVE  WireInv'
<1>1. /\ pc' = pc /\ ticked' = ticked /\ primask' = primask /\ c2' \subseteq c2
      /\ tx'.tail = tx.tail /\ primask = FALSE
  BY HandlerResult DEF UART0_IRQHandler, program, IrqPending, IndexInv, TypeOK
<1>2. \/ "TIE" \in c2 /\ tdre
      \/ "RIE" \in c2 /\ rdr # 0
  BY DEF UART0_IRQHandler, IrqPending
<1>3. /\ ~tdre => shifting
      /\ pc = "w_wrap" => /\ "RIE" \in c2 /\ rdr # 0 => "rx" \in ticked
                          /\ "TIE" \in c2 /\ tdre => "tx" \in ticked /\ shifting
      /\ pc = "w_wrap" /\ buf_isempty(tx) => "TIE" \notin c2
  BY <1>1 DEF WireInv
<1>4. /\ ~tdre' => shifting'
      /\ ~Sending => tdre' = tdre /\ shifting' = shifting /\ tx' = tx
      /\ Sending => tdre /\ (tdre' <=> ~shifting) /\ shifting'
  <2>1. CASE Sending
    BY <1>3, <2>1 DEF UART0_IRQHandler, Transmit, StoreD, Sending, IndexInv, TypeOK
  <2>2. CASE ~Sending
    BY <1>3, <2>2 DEF UART0_IRQHandler, Transmit
  <2> QED BY <2>1, <2>2
<1>5. rdr' # 0 => rdr' = rdr /\ ~Receiving
  BY DEF UART0_IRQHandler, Receive
<1>6. pc = "w_wrap" /\ buf_isempty(tx)' => "TIE" \notin c2'
  <2>1. CASE Sending
    BY <2>1 DEF UART0_IRQHandler, buf_isempty
  <2>2. CASE ~Sending
    BY <1>1, <1>3, <1>4, <2>2 DEF buf_isempty
  <2> QED BY <2>1, <2>2
<1>7. pc = "w_wrap" => /\ "RIE" \in c2' /\ rdr' # 0 => "rx" \in ticked
                       /\ "TIE" \in c2' /\ tdre' => "tx" \in ticked /\ shifting'
  <2> SUFFICES ASSUME pc = "w_wrap"
               PROVE  /\ "RIE" \in c2' /\ rdr' # 0 => "rx" \in ticked
                      /\ "TIE" \in c2' /\ tdre' => "tx" \in ticked /\ shifting'
    OBVIOUS
  <2>1. "RIE" \in c2' /\ rdr' # 0 => "rx" \in ticked
    BY <1>1, <1>3, <1>5
  <2>2. CASE Sending
    BY <1>1, <1>3, <1>4, <2>1, <2>2
  <2>3. CASE ~Sending
    BY <1>1, <1>3, <1>4, <2>1, <2>3
  <2> QED BY <2>1, <2>2, <2>3
<1>8. LooksFull' => IF "TIE" \in c2' THEN ~tdre' /\ "tx" \in ticked
                                    ELSE "RIE" \in c2' => rdr' = 0 /\ "rx" \in ticked
  <2> SUFFICES ASSUME LooksFull'
               PROVE  IF "TIE" \in c2' THEN ~tdre' /\ "tx" \in ticked
                                       ELSE "RIE" \in c2' => rdr' = 0 /\ "rx" \in ticked
    OBVIOUS
  <2>1. pc = "w_wrap" /\ tx.tail = Size /\ tx'.head = 0 /\ Size # 0
    BY <1>1, SizeAssumption DEF LooksFull
  <2>2. CASE Sending
    <3>1. "TIE" \in c2 => ~tdre' /\ "tx" \in ticked
      BY <1>3, <1>4, <2>1, <2>2
    <3>2. "TIE" \in c2 => "TIE" \in c2'
      BY <1>1, <2>1, <2>2 DEF UART0_IRQHandler, buf_isempty
    <3>3. ASSUME "TIE" \notin c2, "RIE" \in c2' PROVE rdr' = 0 /\ "rx" \in ticked
      <4>1. rdr # 0 /\ "RIE" \in c2 /\ "rx" \in ticked
        BY <1>1, <1>2, <1>3, <2>1, <3>3
      <4>2. ~buf_isfull(rx)
        BY <1>1, <4>1 DEF ReceiveStorm
      <4>3. Receiving
        BY <4>1, <4>2 DEF Receiving
      <4> QED BY <1>5, <4>1, <4>3
    <3> QED BY <1>1, <3>1, <3>2, <3>3
  <2>3. CASE ~Sending
    <3>1. LooksFull
      BY <1>4, <2>1, <2>3 DEF LooksFull
    <3>2. IF "TIE" \in c2 THEN ~tdre /\ "tx" \in ticked
                          ELSE "RIE" \in c2 => rdr = 0 /\ "rx" \in ticked
      BY <3>1 DEF WireInv
    <3>3. "TIE" \in c2 => "TIE" \in c2'
      BY <2>3 DEF UART0_IRQHandler
    <3> QED BY <1>1, <1>2, <1>4, <2>3, <3>2, <3>3
  <2> QED BY <2>2, <2>3
<1> QED
  BY <1>1, <1>4, <1>6, <1>7, <1>8 DEF WireInv

LEMMA WireCharacters ==
  ASSUME SlowWire, IndexInv, WireInv, ~ReceiveStorm, ShiftDone \/ CharacterArrives
  PROVE  WireInv'
<1>1. /\ pc' = pc /\ primask' = primask /\ c2' = c2 /\ tx' = tx
      /\ LooksFull' = LooksFull /\ buf_isempty(tx)' = buf_isempty(tx)
  BY DEF ShiftDone, CharacterArrives, program, LooksFull, buf_isempty
<1>2. /\ ~tdre => shifting
      /\ pc = "w_wrap" /\ ~primask => /\ "RIE" \in c2 /\ rdr # 0 => "rx" \in ticked
                                      /\ "TIE" \in c2 /\ tdre => "tx" \in ticked /\ shifting
      /\ LooksFull => IF "TIE" \in c2 THEN ~tdre /\ "tx" \in ticked
                                      ELSE "RIE" \in c2 => rdr = 0 /\ "rx" \in ticked
  BY DEF WireInv
<1>3. pc = "w_wrap" => ~Storm
  BY NoTransmitStorm DEF Storm
<1>4. pc = "w_wrap" => ticked \subseteq ticked'
  BY DEF ShiftDone, CharacterArrives, Tick, InOperation, WriteSteps
<1>5. CASE ShiftDone
  <2>1. /\ rdr' = rdr /\ tdre' /\ (shifting' <=> ~tdre)
        /\ pc = "w_wrap" => "tx" \notin ticked /\ "tx" \in ticked'
    BY <1>3, <1>5 DEF ShiftDone, Tick, InOperation, WriteSteps
  <2>2. pc = "w_wrap" /\ ~primask /\ "TIE" \in c2 => shifting' /\ "tx" \in ticked'
    BY <1>2, <2>1
  <2>3. LooksFull => "TIE" \notin c2 /\ ("RIE" \in c2 => rdr' = 0 /\ "rx" \in ticked')
    BY <1>2, <1>4, <2>1 DEF LooksFull
  <2> QED BY <1>1, <1>2, <1>4, <2>1, <2>2, <2>3 DEF WireInv
<1>6. CASE CharacterArrives
  <2>1. /\ tdre' = tdre /\ shifting' = shifting
        /\ pc = "w_wrap" => "rx" \notin ticked /\ "rx" \in ticked'
    BY <1>3, <1>6 DEF CharacterArrives, Tick, InOperation, WriteSteps
  <2>2. LooksFull => IF "TIE" \in c2 THEN ~tdre' /\ "tx" \in ticked' ELSE "RIE" \notin c2
    BY <1>2, <1>4, <2>1 DEF LooksFull
  <2> QED BY <1>1, <1>2, <1>4, <2>1, <2>2 DEF WireInv
<1> QED BY <1>5, <1>6

LEMMA WireWrite ==
  ASSUME ~IndexFirst, IndexInv, IndexInv', RoomInv, WireInv, WriteStep
  PROVE  WireInv'
<1>1. /\ tdre' = tdre /\ shifting' = shifting /\ primask' = primask /\ rdr' = rdr
      /\ rx' = rx /\ ~IrqPending
  BY HeldAfterPut
     DEF WriteStep, WriteNotFull, PutData, PutIndex, PutWrap, WriteLoadC2, WriteStoreC2,
         LoadC2, StoreC2, Step
<1>2. CASE PutIndex
  <2>1. pc = "w_tail" /\ pc' = "w_wrap" /\ c2' = c2
    BY <1>2 DEF PutIndex, Step
  <2>2. slot = tx.tail /\ Held(tx) < Size - 1 /\ slot \in Slots
    BY <2>1 DEF RoomInv, WriteSteps, Counted, IndexInv, TypeOK
  <2>3. tx'.tail = slot + 1 /\ tx'.head = tx.head
    BY <2>1, HeldAfterPut
  <2>4. Held(tx) = Distance(tx.head, slot) /\ tx.head \in Slots
    BY <2>2, HeldOfTx
  <2>5. tx.head # slot + 1 /\ ~(slot + 1 = Size /\ tx.head = 0)
    BY <2>2, <2>4, SizeAssumption DEF Distance, Slots
  <2>6. ~buf_isempty(tx)' /\ ~LooksFull'
    BY <2>3, <2>5 DEF buf_isempty, LooksFull
  <2>7. ~primask => ("TIE" \in c2 => ~tdre) /\ ("RIE" \in c2 => rdr = 0)
    BY <1>1 DEF IrqPending
  <2>8. ~tdre => shifting
    BY DEF WireInv
  <2> QED BY <1>1, <2>1, <2>6, <2>7, <2>8 DEF WireInv
<1>3. CASE WriteNotFull \/ PutData \/ PutWrap \/ WriteLoadC2 \/ WriteStoreC2
  <2>1. pc' # "w_wrap"
    BY <1>3 DEF WriteNotFull, PutData, PutWrap, WriteLoadC2, WriteStoreC2, LoadC2,
                StoreC2, Step
  <2>2. ~tdre => shifting
    BY DEF WireInv
  <2> QED BY <1>1, <2>1, <2>2 DEF WireInv, LooksFull
<1> QED BY <1>2, <1>3 DEF WriteStep

\* The rest of the program, and the entry and the end of the USB handler, come to
\* none of the steps between tail++ and the wrap.
LEMMA OtherSteps ==
  ASSUME OuterInv,
         \/ CallWrite \/ uart_read \/ uart_write_err
         \/ CallPrint \/ EndPrint
  PROVE  /\ tx' = tx /\ sent' = sent /\ written' = written
         /\ pc' \notin WriteSteps
         /\ (tdre' = tdre /\ shifting' = shifting) \/ shifting'
<1>1. CASE CallWrite \/ uart_read \/ uart_write_err
  BY <1>1 DEF uart_read, CallRead, Call, ReadNotEmpty, GetData, GetIndex, GetWrap,
              ReadLoadC2, ReadStoreC2, LoadC2, StoreC2, uart_write_err, CallErr,
              DisableIrq, ErrRegisterEmpty, ErrStore, EnableIrq, CallWrite, Step,
              WriteSteps, history, uart, StoreD
<1>2. CASE CallPrint
  BY <1>2 DEF CallPrint, BeginPrint, WriteSteps, history, uart
<1>3. CASE EndPrint
  BY <1>3 DEF EndPrint, OuterInv, WriteSteps, history, uart
<1> QED BY <1>1, <1>2, <1>3

LEMMA TxOther ==
  ASSUME OuterInv, SendInv, WireInv,
         \/ CallWrite \/ uart_read \/ uart_write_err
         \/ CallPrint \/ EndPrint
  PROVE  SendInv' /\ WireInv'
<1>1. /\ tx' = tx /\ sent' = sent /\ written' = written
      /\ pc' # "w_wrap" /\ pc' # "w_tail"
      /\ (tdre' = tdre /\ shifting' = shifting) \/ shifting'
  BY OtherSteps DEF WriteSteps
<1>2. SendInv'
  BY <1>1 DEF SendInv, Held, Distance
<1>3. ~tdre => shifting
  BY DEF WireInv
<1> QED BY <1>1, <1>2, <1>3 DEF WireInv, LooksFull

LEMMA TxStep ==
  ASSUME SlowWire, ~IndexFirst, ConsoleInv, ConsoleInv', SendInv, WireInv, ~ReceiveStorm,
         [ConsoleNext]_consoleVars
  PROVE  SendInv' /\ WireInv'
<1> USE DEF ConsoleInv
<1>1. CASE UART0_IRQHandler
  BY <1>1, SendHandler, WireHandler
<1>2. CASE WriteStep
  BY <1>2, SendWrite, WireWrite
<1>3. CASE ShiftDone \/ CharacterArrives
  <2>1. tx' = tx /\ sent' = sent /\ written' = written /\ pc' = pc /\ slot' = slot
    BY <1>3 DEF ShiftDone, CharacterArrives, program, history
  <2>2. SendInv'
    BY <2>1 DEF SendInv, Held, Distance
  <2> QED BY <1>3, <2>2, WireCharacters
<1>4. CASE CallWrite \/ uart_read \/ uart_write_err \/ CallPrint \/ EndPrint
  BY <1>4, TxOther
<1>5. CASE UNCHANGED consoleVars
  <2>1. /\ tx' = tx /\ sent' = sent /\ written' = written /\ pc' = pc /\ slot' = slot
        /\ rx' = rx /\ c2' = c2 /\ primask' = primask /\ tdre' = tdre /\ ticked' = ticked
        /\ shifting' = shifting /\ rdr' = rdr
    BY <1>5 DEF consoleVars, vars, program, uart, history
  <2>2. SendInv'
    BY <2>1 DEF SendInv, Held, Distance
  <2>3. LooksFull' = LooksFull /\ ReceiveStorm' = ReceiveStorm
        /\ buf_isempty(tx)' = buf_isempty(tx)
    BY <2>1 DEF LooksFull, ReceiveStorm, buf_isempty, buf_isfull, buf_len, Distance
  <2>4. WireInv'
    BY <2>1, <2>3 DEF WireInv
  <2> QED BY <2>2, <2>4
<1> QED
  BY <1>1, <1>2, <1>3, <1>4, <1>5
     DEF ConsoleNext, Program, Return, uart_write, WriteStep

-----------------------------------------------------------------------------
(* The transmit direction implements Fifo.                                     *)

TxRuns ==
  /\ Contents(tx) = Run(Len(sent), Held(tx)) /\ sent = Run(0, Len(sent))
  /\ Len(sent) \in Nat /\ Held(tx) \in 0 .. Size - 1
  /\ written = Len(sent) + Held(tx)

SendRuns == IndexInv /\ SendInv => TxRuns

LEMMA TransmitterRuns == SendRuns
<1> SUFFICES ASSUME IndexInv, SendInv PROVE TxRuns
  BY DEF SendRuns
<1>1. /\ tx \in Rings /\ sent \in Seq(Nat) /\ Len(sent) \in Nat
      /\ Held(tx) \in 0 .. Size - 1 /\ tx.head \in Slots
  BY HeldOfTx DEF IndexInv, TypeOK
<1>2. Wrap(tx.head) = tx.head
  BY <1>1, SizeAssumption DEF Wrap, Slots
<1>3. Contents(tx) = Run(Len(sent), Held(tx))
  <2>1. \A i \in Slots : Distance(Wrap(tx.head), i) < Held(tx)
                           => tx.data[i] = Len(sent) + 1 + Distance(Wrap(tx.head), i)
    BY <1>2 DEF SendInv
  <2> QED BY <1>1, <2>1, ContentsIsRun
<1>4. sent = Run(0, Len(sent))
  BY <1>1, StreamIsRun DEF SendInv
<1> QED BY <1>1, <1>3, <1>4 DEF TxRuns, SendInv

LEMMA TxBoundStep ==
  ASSUME ConsoleInv, ConsoleInv', BoundInv, [ConsoleNext]_consoleVars
  PROVE  BoundInv'
<1>0. /\ written \in Nat /\ todo \in Nat /\ Owed \in Nat /\ MaxTx \in Nat
      /\ IndexFirst \in BOOLEAN
  BY UartAssumption DEF ConsoleInv, IndexInv, TypeOK, OuterInv, Owed
<1>1. CASE WriteStep /\ outer' = outer
  <2>1. Owed' = Owed /\ Printing' = Printing
    BY <1>1 DEF Owed, Printing
  <2>2. pc \in WriteSteps \cup {"w_wait"} /\ todo # 0
    BY <1>1, WriteStepIs DEF ConsoleInv, IndexInv, WriteSteps
  <2>3. written + Left + Owed <= MaxTx
    BY <2>2 DEF BoundInv
  <2>4. CASE PutIndex
    <3>1. /\ pc = "w_tail" /\ pc' = (IF IndexFirst THEN "w_data" ELSE "w_wrap")
          /\ todo' = todo /\ written' = written + 1
      BY <2>4 DEF PutIndex, Step
    <3>2. Left = todo /\ Left' = todo - 1 /\ pc' # "idle"
      BY <1>0, <3>1 DEF Left, Counted
    <3> QED BY <1>0, <2>1, <2>3, <3>1, <3>2 DEF BoundInv
  <2>5. CASE WriteStoreC2
    <3>1. /\ pc = "w_store" /\ pc' \in {"idle", "w_wait"} /\ todo' = todo - 1
          /\ written' = written /\ (pc' = "idle" => todo = 1)
      BY <2>5 DEF WriteStoreC2, StoreC2, Step, history
    <3>2. Left = todo - 1 /\ (pc' = "w_wait" => Left' = todo - 1)
      BY <3>1 DEF Left, Counted
    <3> QED BY <1>0, <2>1, <2>2, <2>3, <3>1, <3>2 DEF BoundInv, WriteSteps
  <2>6. CASE WriteNotFull \/ PutData \/ PutWrap \/ WriteLoadC2
    <3>1. /\ todo' = todo /\ written' = written /\ pc' # "idle"
          /\ Counted' = Counted
      BY <1>0, <2>6
         DEF WriteNotFull, PutData, PutWrap, WriteLoadC2, LoadC2, Step, history, Counted
    <3>2. Left' = Left
      BY <3>1 DEF Left
    <3> QED BY <2>1, <2>3, <3>1, <3>2 DEF BoundInv
  <2> QED BY <1>1, <2>4, <2>5, <2>6 DEF WriteStep
<1>2. CASE CallWrite /\ ~Printing /\ outer' = outer
  <2>1. /\ pc' = "w_wait" /\ written + todo' <= MaxTx /\ written' = written /\ todo' \in Nat
    BY <1>2, UartAssumption DEF CallWrite, Call, Step, history, Lengths
  <2>2. Left' = todo' /\ Owed' = 0 /\ ~Printing'
    BY <1>2, <2>1 DEF Left, Counted, Owed, Printing
  <2>3. written' + Left' + Owed' <= MaxTx
    <3>1. PICK len \in Nat : todo' = len /\ written + len <= MaxTx
      BY <2>1
    <3>2. written' + len + 0 <= MaxTx
      BY <1>0, <2>1, <3>1
    <3> QED BY <2>2, <3>1, <3>2
  <2> QED BY <2>2, <2>3 DEF BoundInv
<1>3. CASE (uart_read \/ uart_write_err) /\ ~Printing /\ outer' = outer
  <2>1. pc' \notin WriteSteps \cup {"w_wait"}
    BY <1>3 DEF uart_read, CallRead, Call, ReadNotEmpty, GetData, GetIndex, GetWrap,
                ReadLoadC2, ReadStoreC2, LoadC2, StoreC2, uart_write_err, CallErr,
                DisableIrq, ErrRegisterEmpty, ErrStore, EnableIrq, Step, WriteSteps
  <2>2. ~Printing'
    BY <1>3 DEF Printing
  <2> QED BY <2>1, <2>2 DEF BoundInv
<1>4. CASE (UART0_IRQHandler \/ ShiftDone \/ CharacterArrives) /\ outer' = outer
  <2>1. pc' = pc /\ todo' = todo /\ written' = written
    BY <1>4 DEF UART0_IRQHandler, ShiftDone, CharacterArrives, program, history
  <2> QED BY <1>4, <2>1 DEF BoundInv, Left, Counted, Owed, Printing
<1>5. CASE CallPrint
  <2>1. PICK len \in 1 .. MaxPrint : written + todo + len <= MaxTx /\ BeginPrint(len)
    BY <1>5 DEF CallPrint
  <2>2. /\ pc' = "w_wait" /\ todo' = len /\ written' = written
        /\ outer' = <<pc, todo, slot, item, saved>> /\ len \in Nat
    BY <2>1, ConsoleAssumption DEF BeginPrint, program, history
  <2>3. Left' = len /\ Owed' = todo
    BY <2>2 DEF Left, Counted, Owed, Printing, None
  <2> QED BY <1>0, <2>1, <2>2, <2>3 DEF BoundInv
<1>6. CASE EndPrint
  <2>1. /\ Printing /\ pc = "idle" /\ ~Printing' /\ pc' = outer[1] /\ todo' = outer[2]
        /\ written' = written /\ Owed = outer[2] /\ Owed' = 0
    BY <1>6 DEF EndPrint, Printing, history, Owed
  <2>2. written + Owed <= MaxTx
    BY <2>1 DEF BoundInv
  <2>3. pc' \in WriteSteps \cup {"w_wait"} => Left' = todo'
    BY <2>1 DEF ConsoleInv, OuterInv, Left, Counted, WriteSteps
  <2> QED BY <1>0, <2>1, <2>2, <2>3 DEF BoundInv
<1>7. CASE UNCHANGED consoleVars
  <2>1. pc' = pc /\ todo' = todo /\ written' = written /\ outer' = outer
    BY <1>7 DEF consoleVars, vars, program, history
  <2> QED BY <2>1 DEF BoundInv, Left, Counted, Owed, Printing
<1>8. ASSUME DriverStep PROVE BoundInv'
  <2>1. outer' = outer
    BY <1>8 DEF DriverStep
  <2>2. CASE Printing
    BY <1>1, <1>4, <1>8, <2>1, <2>2, PrintingSteps DEF ConsoleInv
  <2>3. CASE ~Printing
    BY <1>1, <1>2, <1>3, <1>4, <1>8, <2>1, <2>3
       DEF DriverStep, Program, Return, uart_write, WriteStep
  <2> QED BY <2>2, <2>3
<1> QED
  BY <1>5, <1>6, <1>7, <1>8 DEF ConsoleNext, DriverStep

\* In each step at most one byte enters tx at its end or leaves it at its front.
LEMMA TransmitterStep ==
  ASSUME ~IndexFirst, ConsoleInv, ConsoleInv', BoundInv, TxRuns, TxRuns',
         [ConsoleNext]_consoleVars
  PROVE  [Transmitter!Next]_<<Contents(tx), sent>>
<1> DEFINE n == Held(tx)
           g == Len(sent)
<1>0. g \in Nat /\ n \in 0 .. Size - 1 /\ Size \in Nat /\ n \in Nat
  BY SizeAssumption DEF TxRuns
<1>1. CASE sent' = sent /\ written' = written
  <2>1. Held(tx)' = n
    <3>1. written = g + n /\ written = g + Held(tx)' /\ Held(tx)' \in Nat
      BY <1>1, SizeAssumption DEF TxRuns
    <3> HIDE DEF n, g
    <3> QED BY <1>0, <3>1
  <2>2. Contents(tx)' = Contents(tx)
    BY <1>1, <2>1 DEF TxRuns
  <2> QED BY <1>1, <2>2
<1>2. CASE PutIndex
  <2>1. sent' = sent /\ written' = written + 1 /\ pc = "w_tail"
    BY <1>2 DEF PutIndex, Step
  <2>2. n < Size - 1
    BY <2>1 DEF ConsoleInv, RoomInv, WriteSteps, Counted
  <2>3. Held(tx)' = n + 1 /\ g + n + 1 = written + 1
    <3>1. written = g + n /\ written + 1 = g + Held(tx)' /\ Held(tx)' \in Nat
      BY <2>1, SizeAssumption DEF TxRuns
    <3> HIDE DEF n, g
    <3> QED BY <1>0, <3>1
  <2>4. g + n + 1 \in 1 .. MaxTx
    <3>1. written + Left + Owed <= MaxTx /\ Left = todo /\ todo # 0
      BY <2>1 DEF BoundInv, WriteSteps, Left, Counted, ConsoleInv, IndexInv
    <3>2. /\ written \in Nat /\ todo \in Nat /\ Owed \in Nat /\ MaxTx \in Nat
      BY UartAssumption DEF ConsoleInv, IndexInv, TypeOK, OuterInv, Owed
    <3> QED BY <2>3, <3>1, <3>2
  <2>5. /\ Contents(tx)' = Append(Contents(tx), g + n + 1) /\ Len(Contents(tx)) = n
    <3>1. Contents(tx) = Run(g, n) /\ Contents(tx)' = Run(g, n + 1)
      BY <2>1, <2>3 DEF TxRuns
    <3>2. Append(Run(g, n), g + n + 1) = Run(g, n + 1) /\ Len(Run(g, n)) = n
      BY <1>0, RunResult
    <3> QED BY <3>1, <3>2
  <2>6. Transmitter!Accept(g + n + 1)
    BY <2>1, <2>2, <2>5 DEF Transmitter!Accept
  <2> QED BY <2>4, <2>6 DEF Transmitter!Next
<1>3. CASE UART0_IRQHandler /\ Sending
  <2>1. written' = written /\ Len(sent') = g + 1
    <3>1. sent' = Append(sent, tx.data[tx.head])
      BY <1>3, HeldAfterSend DEF ConsoleInv
    <3> QED BY <1>3, <3>1 DEF UART0_IRQHandler, ConsoleInv, IndexInv, TypeOK
  <2>2. Held(tx)' = n - 1 /\ n > 0
    <3>1. written = g + n /\ written = g + 1 + Held(tx)' /\ Held(tx)' \in Nat
      BY <2>1, SizeAssumption DEF TxRuns
    <3> HIDE DEF n, g
    <3> QED BY <1>0, <3>1
  <2>3. /\ Contents(tx) # << >> /\ Head(Contents(tx)) = g + 1
        /\ Contents(tx)' = Tail(Contents(tx))
    <3>1. Contents(tx) = Run(g, n) /\ Contents(tx)' = Run(g + 1, n - 1)
      BY <2>1, <2>2 DEF TxRuns
    <3>2. /\ Run(g, n) # << >> /\ Head(Run(g, n)) = g + 1
          /\ Tail(Run(g, n)) = Run(g + 1, n - 1)
      BY <1>0, <2>2, RunResult
    <3> QED BY <3>1, <3>2
  <2>4. sent' = Append(sent, g + 1)
    <3>1. sent = Run(0, g) /\ sent' = Run(0, g + 1)
      BY <2>1 DEF TxRuns
    <3>2. Append(Run(0, g), 0 + g + 1) = Run(0, g + 1)
      BY <1>0, RunResult
    <3>3. 0 + g + 1 = g + 1
      BY <1>0
    <3> QED BY <3>1, <3>2, <3>3
  <2>5. Transmitter!Deliver
    BY <2>3, <2>4 DEF Transmitter!Deliver
  <2> QED BY <2>5 DEF Transmitter!Next
<1>4. CASE UART0_IRQHandler /\ ~Sending
  BY <1>1, <1>4 DEF UART0_IRQHandler, Transmit
<1>5. CASE ShiftDone \/ CharacterArrives \/ UNCHANGED consoleVars
  BY <1>1, <1>5 DEF ShiftDone, CharacterArrives, consoleVars, vars, history
<1>6. CASE WriteNotFull \/ PutData \/ PutWrap \/ WriteLoadC2 \/ WriteStoreC2
  BY <1>1, <1>6
     DEF WriteNotFull, PutData, PutWrap, WriteLoadC2, WriteStoreC2, LoadC2, StoreC2, history
<1>7. CASE CallWrite \/ uart_read \/ uart_write_err \/ CallPrint \/ EndPrint
  BY <1>1, <1>7, OtherSteps DEF ConsoleInv
<1> QED
  BY <1>2, <1>3, <1>4, <1>5, <1>6, <1>7
     DEF ConsoleNext, Program, Return, uart_write

\* uart_write and UART0_IRQHandler together are a FIFO channel of Size - 1 bytes from
\* the program to the transmitter, also when the USB handler prints in between, for
\* every ring size: provided that the data is stored before the index and that at most
\* one character ends on each line during a ring operation, and until the receive
\* side locks the processor in the handler.
THEOREM TransmitterIsFifo == SlowWire /\ ~IndexFirst => (ConsoleSpec => TxIsFifo)
<1> SUFFICES ASSUME SlowWire, ~IndexFirst PROVE ConsoleSpec => TxIsFifo
  OBVIOUS
<1>1. ConsoleInit => TxInv /\ BoundInv /\ Transmitter!Init
  <2> SUFFICES ASSUME ConsoleInit PROVE TxInv /\ BoundInv /\ Transmitter!Init
    OBVIOUS
  <2>1. /\ tx = buf_reset /\ sent = << >> /\ written = 0 /\ pc = "idle" /\ tdre
        /\ ~Printing
    BY DEF ConsoleInit, Init, uart_init, Printing
  <2>2. Held(tx) = 0 /\ Len(sent) = 0
    BY <2>1, ResetResult, SizeAssumption DEF Held, Wrap, Distance
  <2>3. \A i \in Slots : ~(Distance(tx.head, i) < 0)
    BY <2>1, ResetResult, SizeAssumption DEF Distance, Slots
  <2>4. SendInv
    BY <2>1, <2>2, <2>3 DEF SendInv
  <2>5. WireInv /\ BoundInv
    BY <2>1 DEF WireInv, LooksFull, BoundInv, WriteSteps
  <2>6. IndexInv
    BY IndexInit DEF ConsoleInit
  <2>7. Contents(tx) = << >>
    <3>1. Contents(tx) = Run(0, 0)
      BY <2>2, <2>4, <2>6, TransmitterRuns DEF SendRuns, TxRuns
    <3>2. Run(0, 0) \in Seq(Nat) /\ Len(Run(0, 0)) = 0
      BY RunResult
    <3> QED BY <3>1, <3>2
  <2> QED BY <2>1, <2>4, <2>5, <2>7 DEF TxInv, Transmitter!Init
<1>2. ConsoleInv /\ ConsoleInv' /\ TxInv /\ [ConsoleNext]_consoleVars => TxInv'
  BY TxStep, StormStays DEF TxInv, ConsoleInv
<1>3. ConsoleInv /\ ConsoleInv' /\ BoundInv /\ [ConsoleNext]_consoleVars => BoundInv'
  BY TxBoundStep
<1>4. ConsoleInv /\ ConsoleInv' /\ TxInv /\ BoundInv /\ SendRuns /\ SendRuns'
      /\ [ConsoleNext]_consoleVars
        => [ReceiveStorm \/ Transmitter!Next]_<<Contents(tx), sent>>
  <2> SUFFICES ASSUME ConsoleInv, ConsoleInv', TxInv, BoundInv, SendRuns, SendRuns',
                      [ConsoleNext]_consoleVars, ~ReceiveStorm
               PROVE  [Transmitter!Next]_<<Contents(tx), sent>>
    OBVIOUS
  <2>1. SendInv /\ WireInv
    BY DEF TxInv
  <2>2. SendInv'
    BY <2>1, TxStep
  <2>3. TxRuns /\ TxRuns'
    BY <2>1, <2>2 DEF SendRuns, ConsoleInv
  <2> QED BY <2>3, TransmitterStep
<1> QED
  BY <1>1, <1>2, <1>3, <1>4, ConsoleInvariance, TransmitterRuns, PTL
     DEF ConsoleSpec, TxIsFifo
=============================================================================
