------------------------------ MODULE SpiProofs ------------------------------
(* Theorems about module Spi, for calls of any size and any time a byte takes  *)
(* of at least two accesses: which answers the calls return, and that there is *)
(* room for what they store.                                                   *)
EXTENDS Spi, TLAPS, SequenceTheorems

-----------------------------------------------------------------------------
(* The inductive invariant: each position in a call fixes what is in the       *)
(* shifter and in the two buffers around it.                                   *)

\* The kth byte of the current call.
B(k) == <<call, k>>

\* The next access of the call is the nth of t.
At(t, n) == script = SubSeq(t, n, Len(t))

\* Byte k was stored while the byte before it was on its way, or it has replaced it
\* just now.
Loaded(k) == \/ buffer = B(k) /\ shifter = B(k - 1) /\ received = None
             \/ buffer = None /\ shifter = B(k) /\ received = B(k - 1) /\ age = 0

\* The answer to byte k - 1 has been seen, and byte k cannot be out yet.
Answered(k) == buffer = None /\ shifter = B(k) /\ received = B(k - 1) /\ age = 1

\* Byte k is on its way or has come back, and nothing else is.
Room(k) == /\ buffer = None
           /\ \/ shifter = B(k) /\ received = None
              \/ shifter = None /\ received = B(k)

\* Before the nth access of what spi_single and spi_read begin with.
Opening(n) ==
  /\ results = << >>
  /\ n \in 1 .. 2 => count = 0
  /\ n \in 3 .. 5 => count = 1
  /\ n \in 6 .. 7 => count = 2
  /\ n = 2 => buffer = None
  /\ n = 3 => \/ buffer = B(0) /\ shifter # None
              \/ buffer = None /\ shifter = B(0) /\ age = 0
  /\ n = 4 => buffer = None /\ shifter = B(0) /\ age = 1
  /\ n = 5 => Room(0)
  /\ n = 6 => Loaded(1)
  /\ n = 7 => Answered(1)

\* spi_single and spi_read make the same accesses up to the eighth.
OpeningAt(n) == \/ At(spi_single, n)
                \/ \E size \in 0 .. MaxSize : At(spi_read(size), n)

Writing(size, j) ==
  /\ results = << >> /\ count = j
  /\ \/ At(spi_write(size), 2 * j + 1)
     \/ j <= size /\ At(spi_write(size), 2 * j + 2) /\ buffer = None

Ending(n) == /\ At(spi_single, n) /\ results = << >> /\ count = 2 /\ Room(1)
             /\ n = 9 => received # None

\* The call returns the answer to byte i + 1, the ith behind the address.
Reading(size, i) ==
  /\ count = i + 3
  /\ \/ At(spi_read(size), 3 * i + 9) /\ Len(results) = i /\ Loaded(i + 2)
     \/ At(spi_read(size), 3 * i + 10) /\ Len(results) = i /\ Answered(i + 2)
     \/ At(spi_read(size), 3 * i + 11) /\ Len(results) = i + 1 /\ Room(i + 2)

ScriptInv ==
  \/ script = << >>
  \/ \E size \in 0 .. MaxSize : \E j \in 0 .. size + 1 : Writing(size, j)
  \/ \E n \in 1 .. 7 : OpeningAt(n) /\ Opening(n)
  \/ \E n \in 8 .. 9 : Ending(n)
  \/ \E size \in 0 .. MaxSize : /\ At(spi_read(size), 8) /\ results = << >>
                                /\ count = 2 /\ Room(1)
  \/ \E size \in 0 .. MaxSize : \E i \in 0 .. size - 1 : Reading(size, i)

\* The transmit buffer is filled only while the shifter is busy.
Feeds == shifter = None => buffer = None

IInv == TypeOK /\ AnswersMatch /\ Feeds /\ ScriptInv

\* Clocking a byte out takes at least the time between finding the transmit buffer empty
\* and storing the next byte.
Slow == ByteSteps >= 2

-----------------------------------------------------------------------------
(* The calls as sequences of accesses.                                         *)

Names == {"cts", "dr", "put", "drop", "take"}

LEMMA RepeatTwo ==
  ASSUME NEW a \in Names, NEW b \in Names, NEW n \in Nat
  PROVE  /\ Repeat(<< a, b >>, n) \in Seq(Names)
         /\ Len(Repeat(<< a, b >>, n)) = 2 * n
         /\ \A k \in 1 .. 2 * n :
              Repeat(<< a, b >>, n)[k] = IF k % 2 = 1 THEN a ELSE b
<1> DEFINE part == << a, b >>
           r == [k \in 1 .. 2 * n |-> part[((k - 1) % 2) + 1]]
<1>1. Len(part) = 2 /\ part[1] = a /\ part[2] = b
  OBVIOUS
<1>2. Repeat(part, n) = r
  BY <1>1 DEF Repeat
<1>3. ASSUME NEW k \in 1 .. 2 * n PROVE r[k] = IF k % 2 = 1 THEN a ELSE b
  <2>1. r[k] = part[((k - 1) % 2) + 1]
    OBVIOUS
  <2>2. (k - 1) % 2 = IF k % 2 = 1 THEN 0 ELSE 1
    OBVIOUS
  <2> QED BY <1>1, <2>1, <2>2
<1>4. r \in [1 .. 2 * n -> Names]
  BY <1>3
<1>5. r \in Seq(Names) /\ Len(r) = 2 * n
  <2>1. 2 * n \in Nat
    OBVIOUS
  <2>2. r \in Seq(Names)
    BY <1>4, <2>1, SeqDef
  <2>3. DOMAIN r = 1 .. 2 * n
    OBVIOUS
  <2> QED BY <2>1, <2>2, <2>3, LenProperties
<1> QED BY <1>2, <1>3, <1>5

LEMMA ReadLoop ==
  ASSUME NEW n \in Nat
  PROVE  /\ Repeat(<< "dr", "take", "put" >>, n) \in Seq(Names)
         /\ Len(Repeat(<< "dr", "take", "put" >>, n)) = 3 * n
         /\ \A i \in 0 .. n - 1 : /\ Repeat(<< "dr", "take", "put" >>, n)[3 * i + 1] = "dr"
                                  /\ Repeat(<< "dr", "take", "put" >>, n)[3 * i + 2] = "take"
                                  /\ Repeat(<< "dr", "take", "put" >>, n)[3 * i + 3] = "put"
<1> DEFINE part == << "dr", "take", "put" >>
           r == [k \in 1 .. 3 * n |-> part[((k - 1) % 3) + 1]]
<1>1. Len(part) = 3 /\ part[1] = "dr" /\ part[2] = "take" /\ part[3] = "put"
  OBVIOUS
<1>2. Repeat(part, n) = r
  BY <1>1 DEF Repeat
<1>3. ASSUME NEW k \in 1 .. 3 * n
      PROVE  r[k] = part[((k - 1) % 3) + 1] /\ (k - 1) % 3 \in 0 .. 2
  OBVIOUS
<1>4. r \in [1 .. 3 * n -> Names]
  BY <1>1, <1>3 DEF Names
<1>5. r \in Seq(Names) /\ Len(r) = 3 * n
  <2>1. 3 * n \in Nat
    OBVIOUS
  <2>2. r \in Seq(Names)
    BY <1>4, <2>1, SeqDef
  <2>3. DOMAIN r = 1 .. 3 * n
    OBVIOUS
  <2> QED BY <2>1, <2>2, <2>3, LenProperties
<1>6. ASSUME NEW i \in 0 .. n - 1
      PROVE  r[3 * i + 1] = "dr" /\ r[3 * i + 2] = "take" /\ r[3 * i + 3] = "put"
  <2>1. 3 * i + 1 \in 1 .. 3 * n /\ 3 * i + 2 \in 1 .. 3 * n /\ 3 * i + 3 \in 1 .. 3 * n
    OBVIOUS
  <2>2. /\ ((3 * i + 1) - 1) % 3 = 0 /\ ((3 * i + 2) - 1) % 3 = 1
        /\ ((3 * i + 3) - 1) % 3 = 2
    OBVIOUS
  <2> QED BY <1>1, <1>3, <2>1, <2>2
<1> QED BY <1>2, <1>5, <1>6

\* The elements of a concatenation, one part at a time.
LEMMA Concatenated ==
  ASSUME NEW s \in Seq(Names), NEW t \in Seq(Names), NEW m \in Nat, NEW n \in Nat,
         Len(s) = m, Len(t) = n
  PROVE  /\ s \o t \in Seq(Names) /\ Len(s \o t) = m + n
         /\ \A k \in 1 .. m : (s \o t)[k] = s[k]
<1>1. /\ s \o t \in Seq(Names) /\ Len(s \o t) = m + n
      /\ \A k \in 1 .. m + n : (s \o t)[k] = IF k <= m THEN s[k] ELSE t[k - m]
  BY ConcatProperties
<1>2. ASSUME NEW k \in 1 .. m PROVE (s \o t)[k] = s[k]
  BY <1>1
<1> QED BY <1>1, <1>2

LEMMA SecondPart ==
  ASSUME NEW s \in Seq(Names), NEW t \in Seq(Names),
         NEW k \in Len(s) + 1 .. Len(s) + Len(t)
  PROVE  (s \o t)[k] = t[k - Len(s)]
<1>1. k \in 1 .. Len(s) + Len(t) /\ ~(k <= Len(s))
  OBVIOUS
<1> QED BY <1>1, ConcatProperties

\* spi_write alternates: a wait, a store, and a wait at the end.
LEMMA WriteScript ==
  ASSUME NEW size \in Nat
  PROVE  /\ spi_write(size) \in Seq(Names) /\ Len(spi_write(size)) = 2 * size + 3
         /\ \A k \in 1 .. 2 * size + 3 :
              spi_write(size)[k] = IF k % 2 = 1 THEN "cts" ELSE "put"
<1> DEFINE head == << "cts", "put" >>
           middle == Repeat(<< "cts", "put" >>, size)
           both == head \o middle
           end == << "cts" >>
<1>0. "cts" \in Names /\ "put" \in Names
  BY DEF Names
<1>1. head \in Seq(Names) /\ Len(head) = 2 /\ head[1] = "cts" /\ head[2] = "put"
  BY <1>0
<1>2. end \in Seq(Names) /\ Len(end) = 1 /\ end[1] = "cts"
  BY <1>0
<1>3. /\ middle \in Seq(Names) /\ Len(middle) = 2 * size
      /\ \A k \in 1 .. 2 * size : middle[k] = IF k % 2 = 1 THEN "cts" ELSE "put"
  BY <1>0, RepeatTwo, Zenon
<1> HIDE DEF head, middle, end
<1>4. /\ both \in Seq(Names) /\ Len(both) = 2 + 2 * size
      /\ \A k \in 1 .. 2 : both[k] = head[k]
      /\ \A k \in 3 .. 2 + 2 * size : both[k] = middle[k - 2]
  <2> DEFINE m == 2
             n == 2 * size
  <2>1. m \in Nat /\ n \in Nat /\ Len(head) = m /\ Len(middle) = n
    BY <1>1, <1>3
  <2>2. head \in Seq(Names) /\ middle \in Seq(Names)
    BY <1>1, <1>3
  <2> HIDE DEF m, n
  <2>3. both \in Seq(Names)
    BY <2>1, <2>2, Concatenated
  <2>4. Len(both) = m + n
    BY <2>1, <2>2, Concatenated
  <2>5. \A k \in 1 .. m : both[k] = head[k]
    BY <2>1, <2>2, Concatenated
  <2>6. ASSUME NEW k \in m + 1 .. m + n PROVE both[k] = middle[k - m]
    <3>1. k \in Len(head) + 1 .. Len(head) + Len(middle)
      BY <2>1
    <3>2. both[k] = middle[k - Len(head)]
      BY <2>2, <3>1, SecondPart, Zenon
    <3> QED BY <2>1, <3>2
  <2> QED BY <2>3, <2>4, <2>5, <2>6 DEF m, n
<1> HIDE DEF both
<1>5. ASSUME NEW k \in 1 .. 2 + 2 * size
      PROVE  both[k] = IF k % 2 = 1 THEN "cts" ELSE "put"
  <2>1. CASE k = 1
    BY <1>1, <1>4, <2>1
  <2>2. CASE k = 2
    BY <1>1, <1>4, <2>2
  <2>3. CASE k > 2
    <3>1. k - 2 \in 1 .. 2 * size /\ (k - 2) % 2 = k % 2 /\ k \in 3 .. 2 + 2 * size
      BY <2>3
    <3>2. both[k] = middle[k - 2]
      BY <1>4, <3>1
    <3>3. middle[k - 2] = IF (k - 2) % 2 = 1 THEN "cts" ELSE "put"
      BY <1>3, <3>1
    <3> QED BY <3>1, <3>2, <3>3
  <2> QED BY <2>1, <2>2, <2>3
<1>6. /\ both \o end \in Seq(Names) /\ Len(both \o end) = (2 + 2 * size) + 1
      /\ \A k \in 1 .. 2 + 2 * size : (both \o end)[k] = both[k]
      /\ (both \o end)[(2 + 2 * size) + 1] = end[1]
  <2> DEFINE m == 2 + 2 * size
             n == 1
  <2>1. m \in Nat /\ n \in Nat /\ Len(both) = m /\ Len(end) = n
    BY <1>2, <1>4
  <2>2. both \in Seq(Names) /\ end \in Seq(Names)
    BY <1>2, <1>4
  <2> HIDE DEF m, n
  <2>3. both \o end \in Seq(Names)
    BY <2>1, <2>2, Concatenated
  <2>4. Len(both \o end) = m + n
    BY <2>1, <2>2, Concatenated
  <2>5. \A k \in 1 .. m : (both \o end)[k] = both[k]
    BY <2>1, <2>2, Concatenated
  <2>6. ASSUME NEW k \in m + 1 .. m + n PROVE (both \o end)[k] = end[k - m]
    <3>1. k \in Len(both) + 1 .. Len(both) + Len(end)
      BY <2>1
    <3>2. (both \o end)[k] = end[k - Len(both)]
      BY <2>2, <3>1, SecondPart, Zenon
    <3> QED BY <2>1, <3>2
  <2>7. m + 1 \in m + 1 .. m + n /\ (m + 1) - m = 1
    BY <2>1 DEF n
  <2>8. (both \o end)[m + 1] = end[1]
    BY <2>6, <2>7
  <2> QED BY <2>3, <2>4, <2>5, <2>8 DEF m, n
<1>7. spi_write(size) = both \o end
  BY DEF spi_write, both, head, middle, end
<1>8. ASSUME NEW k \in 1 .. 2 * size + 3
      PROVE  spi_write(size)[k] = IF k % 2 = 1 THEN "cts" ELSE "put"
  <2>1. CASE k \in 1 .. 2 + 2 * size
    BY <1>5, <1>6, <1>7, <2>1
  <2>2. CASE k = (2 + 2 * size) + 1
    <3>1. k % 2 = 1
      BY <2>2
    <3>2. (both \o end)[(2 + 2 * size) + 1] = end[1]
      BY <1>6
    <3> QED BY <1>2, <1>7, <2>2, <3>1, <3>2
  <2> QED BY <2>1, <2>2
<1>9. (2 + 2 * size) + 1 = 2 * size + 3
  OBVIOUS
<1> QED BY <1>6, <1>7, <1>8, <1>9

LEMMA SingleScript ==
  /\ spi_single \in Seq(Names) /\ Len(spi_single) = 9
  /\ spi_single[1] = "cts" /\ spi_single[2] = "put" /\ spi_single[3] = "cts"
  /\ spi_single[4] = "drop" /\ spi_single[5] = "put" /\ spi_single[6] = "dr"
  /\ spi_single[7] = "drop" /\ spi_single[8] = "dr" /\ spi_single[9] = "take"
BY DEF spi_single, Names

\* spi_read begins as spi_single does, and then alternates between a wait, a load and a
\* store.
LEMMA ReadScript ==
  ASSUME NEW size \in Nat
  PROVE  /\ spi_read(size) \in Seq(Names) /\ Len(spi_read(size)) = 3 * size + 8
         /\ \A k \in 1 .. 7 : spi_read(size)[k] = spi_single[k]
         /\ spi_read(size)[8] = "put"
         /\ \A i \in 0 .. size - 1 : /\ spi_read(size)[3 * i + 9] = "dr"
                                     /\ spi_read(size)[3 * i + 10] = "take"
                                     /\ spi_read(size)[3 * i + 11] = "put"
<1> DEFINE head == << "cts", "put", "cts", "drop", "put", "dr", "drop", "put" >>
           loop == Repeat(<< "dr", "take", "put" >>, size)
<1>0. "cts" \in Names /\ "put" \in Names /\ "dr" \in Names /\ "take" \in Names /\ "drop" \in Names
  BY DEF Names
<1>1. /\ head \in Seq(Names) /\ Len(head) = 8
      /\ \A k \in 1 .. 7 : head[k] = spi_single[k]
      /\ head[8] = "put"
  BY <1>0 DEF spi_single
<1>2. /\ loop \in Seq(Names) /\ Len(loop) = 3 * size
      /\ \A i \in 0 .. size - 1 : /\ loop[3 * i + 1] = "dr"
                                  /\ loop[3 * i + 2] = "take"
                                  /\ loop[3 * i + 3] = "put"
  BY ReadLoop
<1>3. spi_read(size) = head \o loop
  BY DEF spi_read
<1> HIDE DEF head, loop
<1>4. /\ spi_read(size) \in Seq(Names) /\ Len(spi_read(size)) = 8 + 3 * size
      /\ \A k \in 1 .. 8 : spi_read(size)[k] = head[k]
      /\ \A k \in 9 .. 8 + 3 * size : spi_read(size)[k] = loop[k - 8]
  <2> DEFINE m == 8
             n == 3 * size
  <2>1. m \in Nat /\ n \in Nat /\ Len(head) = m /\ Len(loop) = n
    BY <1>1, <1>2
  <2>2. head \in Seq(Names) /\ loop \in Seq(Names)
    BY <1>1, <1>2
  <2> HIDE DEF m, n
  <2>3. head \o loop \in Seq(Names)
    BY <2>1, <2>2, Concatenated, Zenon
  <2>4. Len(head \o loop) = m + n
    BY <2>1, <2>2, Concatenated
  <2>5. \A k \in 1 .. m : (head \o loop)[k] = head[k]
    BY <2>1, <2>2, Concatenated
  <2>6. ASSUME NEW k \in m + 1 .. m + n PROVE (head \o loop)[k] = loop[k - m]
    <3>1. k \in Len(head) + 1 .. Len(head) + Len(loop)
      BY <2>1
    <3>2. (head \o loop)[k] = loop[k - Len(head)]
      BY <2>2, <3>1, SecondPart, Zenon
    <3> QED BY <2>1, <3>2
  <2>7. spi_read(size) \in Seq(Names) /\ Len(spi_read(size)) = 8 + 3 * size
    BY <1>3, <2>3, <2>4 DEF m, n
  <2>8. \A k \in 1 .. 8 : spi_read(size)[k] = head[k]
    BY <1>3, <2>5, Zenon DEF m
  <2>9. ASSUME NEW k \in 9 .. 8 + 3 * size PROVE spi_read(size)[k] = loop[k - 8]
    <3>1. k \in m + 1 .. m + n
      BY DEF m, n
    <3>2. (head \o loop)[k] = loop[k - m]
      BY <2>6, <3>1, Zenon
    <3> QED BY <1>3, <3>2, Zenon DEF m
  <2> QED BY <2>7, <2>8, <2>9
<1>5. ASSUME NEW i \in 0 .. size - 1
      PROVE  /\ spi_read(size)[3 * i + 9] = "dr"
             /\ spi_read(size)[3 * i + 10] = "take"
             /\ spi_read(size)[3 * i + 11] = "put"
  <2>1. /\ 3 * i + 9 \in 9 .. 8 + 3 * size /\ (3 * i + 9) - 8 = 3 * i + 1
        /\ 3 * i + 10 \in 9 .. 8 + 3 * size /\ (3 * i + 10) - 8 = 3 * i + 2
        /\ 3 * i + 11 \in 9 .. 8 + 3 * size /\ (3 * i + 11) - 8 = 3 * i + 3
    OBVIOUS
  <2>2. /\ spi_read(size)[3 * i + 9] = loop[(3 * i + 9) - 8]
        /\ spi_read(size)[3 * i + 10] = loop[(3 * i + 10) - 8]
        /\ spi_read(size)[3 * i + 11] = loop[(3 * i + 11) - 8]
    BY <1>4, <2>1
  <2> QED BY <1>2, <2>1, <2>2
<1>6. 8 + 3 * size = 3 * size + 8
  OBVIOUS
<1>7. \A k \in 1 .. 7 : spi_read(size)[k] = spi_single[k]
  BY <1>1, <1>4
<1>8. spi_read(size)[8] = "put"
  BY <1>1, <1>4
<1> QED BY <1>4, <1>5, <1>6, <1>7, <1>8
-----------------------------------------------------------------------------
(* Where an access is made.                                                    *)

\* The next access is the one at this position, and the position moves by one.
LEMMA Stepped ==
  ASSUME NEW t \in Seq(Names), NEW n \in 1 .. Len(t), At(t, n), NEW name, Access(name)
  PROVE  t[n] = name /\ At(t, n + 1)'
<1>1. Len(t) \in Nat /\ \A i \in n .. Len(t) : t[i] \in Names
  OBVIOUS
<1>2. script = SubSeq(t, n, Len(t))
  BY DEF At
<1>3. Head(script) = t[n] /\ Tail(script) = SubSeq(t, n + 1, Len(t))
  BY <1>1, <1>2, HeadTailOfSubSeq
<1> QED BY <1>3 DEF Access, At

\* Behind the last access there is none.
LEMMA Ended ==
  ASSUME NEW t \in Seq(Names), At(t, Len(t) + 1)'
  PROVE  script' = << >>
<1>1. Len(t) \in Nat
  OBVIOUS
<1>2. script' = SubSeq(t, Len(t) + 1, Len(t))
  BY DEF At
<1> QED BY <1>1, <1>2, SubSeqEmpty

LEMMA Begun ==
  ASSUME NEW t \in Seq(Names), script' = t
  PROVE  At(t, 1)'
<1>1. t = SubSeq(t, 1, Len(t))
  BY SubSeqFull
<1> QED BY <1>1 DEF At

\* What holds before an access, and where the call is after it.
Accessed(name) ==
  \/ \E size \in 0 .. MaxSize : \E j \in 0 .. size + 1 :
       name = "cts" /\ results = << >> /\ count = j /\ At(spi_write(size), 2 * j + 2)'
  \/ \E size \in 0 .. MaxSize : \E j \in 0 .. size :
       /\ name = "put" /\ results = << >> /\ count = j /\ buffer = None
       /\ At(spi_write(size), 2 * (j + 1) + 1)'
  \/ \E n \in 1 .. 7 : name = spi_single[n] /\ Opening(n) /\ OpeningAt(n + 1)'
  \/ \E n \in 8 .. 9 : name = spi_single[n] /\ Ending(n) /\ At(spi_single, n + 1)'
  \/ \E size \in 0 .. MaxSize : /\ name = "put" /\ results = << >> /\ count = 2 /\ Room(1)
                                /\ At(spi_read(size), 9)'
  \/ \E size \in 0 .. MaxSize : \E i \in 0 .. size - 1 :
       /\ count = i + 3
       /\ \/ /\ name = "dr" /\ Len(results) = i /\ Loaded(i + 2)
             /\ At(spi_read(size), 3 * i + 10)'
          \/ /\ name = "take" /\ Len(results) = i /\ Answered(i + 2)
             /\ At(spi_read(size), 3 * i + 11)'
          \/ /\ name = "put" /\ Len(results) = i + 1 /\ Room(i + 2)
             /\ At(spi_read(size), 3 * (i + 1) + 9)'

LEMMA AccessCases ==
  ASSUME ScriptInv, NEW name, Access(name)
  PROVE  Accessed(name)
<1>0. script # << >>
  BY DEF Access
<1>1. ASSUME NEW size \in 0 .. MaxSize, NEW j \in 0 .. size + 1, Writing(size, j)
      PROVE  Accessed(name)
  <2>1. /\ spi_write(size) \in Seq(Names) /\ Len(spi_write(size)) = 2 * size + 3
        /\ \A k \in 1 .. 2 * size + 3 : spi_write(size)[k] = IF k % 2 = 1 THEN "cts" ELSE "put"
    <3>1. size \in Nat
      BY SpiAssumption
    <3> QED BY <3>1, WriteScript
  <2>2. CASE At(spi_write(size), 2 * j + 1)
    <3>1. 2 * j + 1 \in 1 .. 2 * size + 3 /\ (2 * j + 1) % 2 = 1 /\ (2 * j + 1) + 1 = 2 * j + 2
      OBVIOUS
    <3>2. 2 * j + 1 \in 1 .. Len(spi_write(size))
      BY <2>1, <3>1
    <3>3. spi_write(size)[2 * j + 1] = name /\ At(spi_write(size), (2 * j + 1) + 1)'
      BY <2>1, <2>2, <3>2, Stepped
    <3>4. spi_write(size)[2 * j + 1] = "cts"
      BY <2>1, <3>1
    <3> QED BY <1>1, <3>1, <3>3, <3>4 DEF Accessed, Writing
  <2>3. CASE j <= size /\ At(spi_write(size), 2 * j + 2) /\ buffer = None
    <3>1. /\ 2 * j + 2 \in 1 .. 2 * size + 3 /\ (2 * j + 2) % 2 = 0
          /\ (2 * j + 2) + 1 = 2 * (j + 1) + 1 /\ j \in 0 .. size
      BY <2>3
    <3>2. 2 * j + 2 \in 1 .. Len(spi_write(size))
      BY <2>1, <3>1
    <3>3. spi_write(size)[2 * j + 2] = name /\ At(spi_write(size), (2 * j + 2) + 1)'
      BY <2>1, <2>3, <3>2, Stepped
    <3>4. spi_write(size)[2 * j + 2] = "put"
      BY <2>1, <3>1
    <3> QED BY <1>1, <2>3, <3>1, <3>3, <3>4 DEF Accessed, Writing
  <2> QED BY <1>1, <2>2, <2>3 DEF Writing
<1>2. ASSUME NEW n \in 1 .. 7, OpeningAt(n), Opening(n) PROVE Accessed(name)
  <2>1. CASE At(spi_single, n)
    <3>1. n \in 1 .. Len(spi_single)
      BY SingleScript
    <3>2. spi_single[n] = name /\ At(spi_single, n + 1)'
      BY <2>1, <3>1, SingleScript, Stepped
    <3> QED BY <1>2, <3>2 DEF Accessed, OpeningAt
  <2>2. CASE \E size \in 0 .. MaxSize : At(spi_read(size), n)
    <3>1. PICK size \in 0 .. MaxSize : At(spi_read(size), n)
      BY <2>2
    <3>2. /\ spi_read(size) \in Seq(Names) /\ n \in 1 .. Len(spi_read(size))
          /\ spi_read(size)[n] = spi_single[n]
      <4>1. size \in Nat
        BY SpiAssumption
      <4>2. /\ spi_read(size) \in Seq(Names) /\ Len(spi_read(size)) = 3 * size + 8
            /\ spi_read(size)[n] = spi_single[n]
        BY <4>1, ReadScript
      <4> QED BY <4>1, <4>2
    <3>3. spi_read(size)[n] = name /\ At(spi_read(size), n + 1)'
      BY <3>1, <3>2, Stepped
    <3> QED BY <1>2, <3>2, <3>3 DEF Accessed, OpeningAt
  <2> QED BY <1>2, <2>1, <2>2 DEF OpeningAt
<1>3. ASSUME NEW n \in 8 .. 9, Ending(n) PROVE Accessed(name)
  <2>1. n \in 1 .. Len(spi_single) /\ At(spi_single, n)
    BY <1>3, SingleScript DEF Ending
  <2>2. spi_single[n] = name /\ At(spi_single, n + 1)'
    BY <2>1, SingleScript, Stepped
  <2> QED BY <1>3, <2>2 DEF Accessed
<1>4. ASSUME NEW size \in 0 .. MaxSize, At(spi_read(size), 8), results = << >>, count = 2, Room(1)
      PROVE  Accessed(name)
  <2>1. spi_read(size) \in Seq(Names) /\ 8 \in 1 .. Len(spi_read(size)) /\ spi_read(size)[8] = "put"
    BY ReadScript
  <2>2. spi_read(size)[8] = name /\ At(spi_read(size), 8 + 1)'
    BY <1>4, <2>1, Stepped
  <2> QED BY <1>4, <2>1, <2>2 DEF Accessed
<1>5. ASSUME NEW size \in 0 .. MaxSize, NEW i \in 0 .. size - 1, Reading(size, i)
      PROVE  Accessed(name)
  <2>1. /\ spi_read(size) \in Seq(Names) /\ Len(spi_read(size)) = 3 * size + 8
        /\ spi_read(size)[3 * i + 9] = "dr" /\ spi_read(size)[3 * i + 10] = "take"
        /\ spi_read(size)[3 * i + 11] = "put"
    <3>1. size \in Nat
      BY SpiAssumption
    <3> QED BY <3>1, ReadScript
  <2>2. /\ 3 * i + 9 \in 1 .. Len(spi_read(size)) /\ (3 * i + 9) + 1 = 3 * i + 10
        /\ 3 * i + 10 \in 1 .. Len(spi_read(size)) /\ (3 * i + 10) + 1 = 3 * i + 11
        /\ 3 * i + 11 \in 1 .. Len(spi_read(size)) /\ (3 * i + 11) + 1 = 3 * (i + 1) + 9
    BY <2>1
  <2>3. CASE At(spi_read(size), 3 * i + 9) /\ Len(results) = i /\ Loaded(i + 2)
    <3>1. spi_read(size)[3 * i + 9] = name /\ At(spi_read(size), (3 * i + 9) + 1)'
      BY <2>1, <2>2, <2>3, Stepped
    <3> QED BY <1>5, <2>1, <2>2, <2>3, <3>1 DEF Accessed, Reading
  <2>4. CASE At(spi_read(size), 3 * i + 10) /\ Len(results) = i /\ Answered(i + 2)
    <3>1. spi_read(size)[3 * i + 10] = name /\ At(spi_read(size), (3 * i + 10) + 1)'
      BY <2>1, <2>2, <2>4, Stepped
    <3> QED BY <1>5, <2>1, <2>2, <2>4, <3>1 DEF Accessed, Reading
  <2>5. CASE At(spi_read(size), 3 * i + 11) /\ Len(results) = i + 1 /\ Room(i + 2)
    <3>1. spi_read(size)[3 * i + 11] = name /\ At(spi_read(size), (3 * i + 11) + 1)'
      BY <2>1, <2>2, <2>5, Stepped
    <3> QED BY <1>5, <2>1, <2>2, <2>5, <3>1 DEF Accessed, Reading
  <2> QED BY <1>5, <2>3, <2>4, <2>5 DEF Reading
<1> QED BY <1>0, <1>1, <1>2, <1>3, <1>4, <1>5 DEF ScriptInv
-----------------------------------------------------------------------------
(* The steps.  A byte takes the time of two accesses at least.                 *)

LEMMA ByteIsNotNone == TypeOK => \A k : B(k) # None
BY DEF TypeOK, B, None

LEMMA OpeningGoesOn ==
  ASSUME NEW n \in 1 .. 7, OpeningAt(n)', Opening(n)'
  PROVE  ScriptInv'
<1>1. \E m \in 1 .. 7 : OpeningAt(m)' /\ Opening(m)'
  OBVIOUS
<1> QED BY <1>1 DEF ScriptInv

LEMMA CallStep == IInv /\ Call => IInv'
<1> SUFFICES ASSUME IInv, Call PROVE IInv'
  OBVIOUS
<1>1. /\ call' = (call + 1) % 3 /\ count' = 0 /\ results' = << >>
      /\ UNCHANGED <<buffer, shifter, received, last, age>>
  BY DEF Call
<1>2. TypeOK'
  BY <1>1, SpiAssumption DEF IInv, TypeOK, Bytes
<1>3. AnswersMatch' /\ Feeds'
  BY <1>1 DEF IInv, AnswersMatch, Feeds
<1>4. Opening(1)'
  BY <1>1 DEF Opening
<1>5. ASSUME NEW size \in 0 .. MaxSize, script' = spi_write(size) PROVE ScriptInv'
  <2>1. size \in Nat
    BY SpiAssumption
  <2>2. At(spi_write(size), 1)'
    BY <1>5, <2>1, WriteScript, Begun
  <2>3. 2 * 0 + 1 = 1 /\ 0 \in 0 .. size + 1
    BY <2>1
  <2>4. Writing(size, 0)'
    BY <1>1, <2>2, <2>3 DEF Writing
  <2> QED BY <2>3, <2>4 DEF ScriptInv
<1>6. ASSUME script' = spi_single PROVE OpeningAt(1)'
  <2>1. At(spi_single, 1)'
    BY <1>6, SingleScript, Begun
  <2> QED BY <2>1 DEF OpeningAt
<1>7. ASSUME NEW size \in 0 .. MaxSize, script' = spi_read(size) PROVE OpeningAt(1)'
  <2>1. size \in Nat
    BY SpiAssumption
  <2>2. At(spi_read(size), 1)'
    BY <1>7, <2>1, ReadScript, Begun
  <2> QED BY <2>2 DEF OpeningAt
<1>8. OpeningAt(1)' => ScriptInv'
  BY <1>4, OpeningGoesOn
<1>9. ScriptInv'
  BY <1>5, <1>6, <1>7, <1>8 DEF Call
<1> QED BY <1>2, <1>3, <1>9 DEF IInv

\* Where a call is behind its last access, or before another one.
LEMMA WriteGoesOn ==
  ASSUME NEW size \in 0 .. MaxSize, NEW j \in 0 .. size + 1, results' = << >>, count' = j
  PROVE  /\ At(spi_write(size), 2 * j + 1)' => ScriptInv'
         /\ At(spi_write(size), 2 * j + 2)' /\ buffer' = None => ScriptInv'
<1>1. At(spi_write(size), 2 * j + 1)' => Writing(size, j)'
  BY DEF Writing
<1>2. CASE j <= size
  <2>1. At(spi_write(size), 2 * j + 2)' /\ buffer' = None => Writing(size, j)'
    BY <1>2 DEF Writing
  <2> QED BY <1>1, <2>1 DEF ScriptInv
<1>3. CASE j = size + 1
  <2>1. size \in Nat
    BY SpiAssumption
  <2>2. spi_write(size) \in Seq(Names) /\ 2 * j + 2 = Len(spi_write(size)) + 1
    <3>1. spi_write(size) \in Seq(Names) /\ Len(spi_write(size)) = 2 * size + 3
      BY <2>1, WriteScript
    <3> QED BY <1>3, <2>1, <3>1
  <2>3. At(spi_write(size), 2 * j + 2)' => script' = << >>
    BY <2>2, Ended
  <2> QED BY <1>1, <2>3 DEF ScriptInv
<1> QED BY <1>2, <1>3

LEMMA ReadGoesOn ==
  ASSUME NEW size \in 0 .. MaxSize, NEW i \in 0 .. size, At(spi_read(size), 3 * i + 9)',
         Len(results)' = i, count' = i + 3, Loaded(i + 2)'
  PROVE  ScriptInv'
<1>1. CASE i \in 0 .. size - 1
  <2>1. Reading(size, i)'
    BY DEF Reading
  <2> QED BY <1>1, <2>1 DEF ScriptInv
<1>2. CASE i = size
  <2>1. size \in Nat
    BY SpiAssumption
  <2>2. spi_read(size) \in Seq(Names) /\ 3 * i + 9 = Len(spi_read(size)) + 1
    <3>1. spi_read(size) \in Seq(Names) /\ Len(spi_read(size)) = 3 * size + 8
      BY <2>1, ReadScript
    <3> QED BY <1>2, <2>1, <3>1
  <2>3. script' = << >>
    BY <2>2, Ended
  <2> QED BY <2>3 DEF ScriptInv
<1> QED BY <1>1, <1>2

LEMMA CtsStep == Slow /\ IInv /\ spiCTS => IInv'
<1> SUFFICES ASSUME Slow, IInv, spiCTS PROVE IInv'
  OBVIOUS
<1>1. /\ Access("cts") /\ buffer = None /\ Older
      /\ UNCHANGED <<call, count, results, buffer, shifter, received, last>>
  BY DEF spiCTS
<1>2. TypeOK' /\ AnswersMatch' /\ Feeds'
  BY <1>1, SpiAssumption DEF IInv, TypeOK, AnswersMatch, Feeds, Older
<1>3. Accessed("cts")
  BY <1>1, AccessCases DEF IInv
<1>4. ASSUME NEW size \in 0 .. MaxSize, NEW j \in 0 .. size + 1, results = << >>, count = j,
             At(spi_write(size), 2 * j + 2)'
      PROVE  ScriptInv'
  BY <1>1, <1>4, WriteGoesOn
<1>5. ASSUME NEW n \in 1 .. 7, "cts" = spi_single[n], Opening(n), OpeningAt(n + 1)'
      PROVE  ScriptInv'
  <2>1. n = 1 \/ n = 3
    BY <1>5, SingleScript
  <2>2. CASE n = 1
    <3>1. Opening(2)'
      BY <1>1, <1>5, <2>2 DEF Opening
    <3> QED BY <1>5, <2>2, <3>1, OpeningGoesOn
  <2>3. CASE n = 3
    <3>1. Opening(3) /\ B(0) # None
      BY <1>5, <2>3, ByteIsNotNone DEF IInv
    <3>2. shifter = B(0) /\ age = 0 /\ results = << >> /\ count = 1
      BY <1>1, <3>1 DEF Opening
    <3>3. Opening(4)'
      BY <1>1, <3>2, SpiAssumption DEF Opening, Older, B, Slow
    <3> QED BY <1>5, <2>3, <3>3, OpeningGoesOn
  <2> QED BY <2>1, <2>2, <2>3
<1>6. ASSUME NEW n \in 8 .. 9 PROVE "cts" # spi_single[n]
  BY SingleScript
<1>7. ScriptInv'
  BY <1>3, <1>4, <1>5, <1>6 DEF Accessed
<1> QED BY <1>2, <1>7 DEF IInv

LEMMA DrStep == Slow /\ IInv /\ spiDR => IInv'
<1> SUFFICES ASSUME Slow, IInv, spiDR PROVE IInv'
  OBVIOUS
<1>1. /\ Access("dr") /\ received # None /\ Older
      /\ UNCHANGED <<call, count, results, buffer, shifter, received, last>>
  BY DEF spiDR
<1>2. TypeOK' /\ AnswersMatch' /\ Feeds'
  BY <1>1, SpiAssumption DEF IInv, TypeOK, AnswersMatch, Feeds, Older
<1>3. Accessed("dr")
  BY <1>1, AccessCases DEF IInv
<1>4. ASSUME NEW k, Loaded(k) PROVE Answered(k)'
  BY <1>1, <1>4, SpiAssumption DEF Loaded, Answered, Older, B, Slow
<1>5. ASSUME NEW n \in 1 .. 7, "dr" = spi_single[n], Opening(n), OpeningAt(n + 1)'
      PROVE  ScriptInv'
  <2>1. n = 6
    BY <1>5, SingleScript
  <2>2. Opening(6) /\ OpeningAt(7)'
    BY <1>5, <2>1
  <2>3. Opening(7)'
    BY <1>1, <1>4, <2>2 DEF Opening
  <2> QED BY <2>2, <2>3, OpeningGoesOn
<1>6. ASSUME NEW n \in 8 .. 9, "dr" = spi_single[n], Ending(n), At(spi_single, n + 1)'
      PROVE  ScriptInv'
  <2>1. n = 8
    BY <1>6, SingleScript
  <2>2. Ending(8) /\ At(spi_single, 9)'
    BY <1>6, <2>1
  <2>3. Ending(9)'
    BY <1>1, <2>2 DEF Ending, Room, B
  <2> QED BY <2>3 DEF ScriptInv
<1>7. ASSUME NEW size \in 0 .. MaxSize, NEW i \in 0 .. size - 1, count = i + 3,
             Len(results) = i, Loaded(i + 2), At(spi_read(size), 3 * i + 10)'
      PROVE  ScriptInv'
  <2>1. Reading(size, i)'
    BY <1>1, <1>4, <1>7 DEF Reading
  <2> QED BY <2>1 DEF ScriptInv
<1>8. ScriptInv'
  BY <1>3, <1>5, <1>6, <1>7 DEF Accessed
<1> QED BY <1>2, <1>8 DEF IInv

\* A stored byte has room, and it follows the byte before.
LEMMA PutStep == IInv /\ Put => IInv'
<1> SUFFICES ASSUME IInv, Put PROVE IInv'
  OBVIOUS
<1>1. /\ Access("put") /\ count' = count + 1 /\ UNCHANGED <<call, results, received, last>>
      /\ \/ /\ shifter = None /\ shifter' = B(count) /\ age' = 0 /\ buffer' = buffer
         \/ /\ shifter # None /\ buffer' = (IF buffer = None THEN B(count) ELSE buffer)
            /\ Older /\ shifter' = shifter
  BY DEF Put, B
<1>2. \A k : B(k) # None
  BY ByteIsNotNone DEF IInv
<1>3. AnswersMatch' /\ Feeds'
  BY <1>1, <1>2 DEF IInv, AnswersMatch, Feeds
<1>4. ASSUME count + 1 <= MaxSize + 3 PROVE TypeOK'
  <2>1. B(count) \in Bytes /\ count' \in 0 .. MaxSize + 3
    BY <1>1, <1>4 DEF IInv, TypeOK, Bytes, B
  <2>2. age' \in 0 .. ByteSteps
    BY <1>1, SpiAssumption DEF IInv, TypeOK, Older
  <2>3. buffer' \in Bytes \cup {None} /\ shifter' \in Bytes \cup {None}
    BY <1>1, <2>1 DEF IInv, TypeOK
  <2> QED BY <1>1, <2>1, <2>2, <2>3 DEF IInv, TypeOK
<1>5. ASSUME NEW k \in Nat, Room(k), count = k + 1 PROVE Loaded(k + 1)' /\ count' = k + 2
  <2>1. B(k + 1)' = B(k + 1) /\ B((k + 1) - 1)' = B(k) /\ count' = k + 2
    BY <1>1, <1>5 DEF B
  <2>2. CASE shifter = B(k) /\ received = None
    BY <1>1, <1>2, <1>5, <2>1, <2>2 DEF Room, Loaded
  <2>3. CASE shifter = None /\ received = B(k)
    BY <1>1, <1>2, <1>5, <2>1, <2>3 DEF Room, Loaded
  <2> QED BY <1>5, <2>1, <2>2, <2>3 DEF Room
<1>6. Accessed("put")
  BY <1>1, AccessCases DEF IInv
<1>7. ASSUME NEW size \in 0 .. MaxSize, NEW j \in 0 .. size, results = << >>, count = j,
             At(spi_write(size), 2 * (j + 1) + 1)'
      PROVE  TypeOK' /\ ScriptInv'
  <2>1. count + 1 <= MaxSize + 3 /\ j + 1 \in 0 .. size + 1 /\ count' = j + 1
    BY <1>1, <1>7, SpiAssumption
  <2> QED BY <1>1, <1>4, <1>7, <2>1, WriteGoesOn
<1>8. ASSUME NEW n \in 1 .. 7, "put" = spi_single[n], Opening(n), OpeningAt(n + 1)'
      PROVE  TypeOK' /\ ScriptInv'
  <2>1. n = 2 \/ n = 5
    BY <1>8, SingleScript
  <2>2. CASE n = 2
    <3>1. Opening(2) /\ OpeningAt(3)'
      BY <1>8, <2>2
    <3>2. buffer = None /\ count = 0 /\ results = << >>
      BY <3>1 DEF Opening
    <3>3. Opening(3)'
      BY <1>1, <3>2 DEF Opening, B
    <3> QED BY <1>4, <3>1, <3>2, <3>3, OpeningGoesOn, SpiAssumption
  <2>3. CASE n = 5
    <3>1. Opening(5) /\ OpeningAt(6)'
      BY <1>8, <2>3
    <3>2. Room(0) /\ count = 0 + 1 /\ results = << >>
      BY <3>1 DEF Opening
    <3>3. Loaded(0 + 1)' /\ count' = 0 + 2
      BY <1>5, <3>2
    <3>4. Opening(6)'
      BY <1>1, <3>2, <3>3 DEF Opening
    <3> QED BY <1>4, <3>1, <3>2, <3>4, OpeningGoesOn, SpiAssumption
  <2> QED BY <2>1, <2>2, <2>3
<1>9. ASSUME NEW n \in 8 .. 9 PROVE "put" # spi_single[n]
  BY SingleScript
<1>10. ASSUME NEW size \in 0 .. MaxSize, results = << >>, count = 2, Room(1),
              At(spi_read(size), 9)'
       PROVE  TypeOK' /\ ScriptInv'
  <2>1. Loaded(1 + 1)' /\ count' = 1 + 2
    BY <1>5, <1>10
  <2>2. 3 * 0 + 9 = 9 /\ 0 \in 0 .. size /\ Len(results)' = 0 /\ 0 + 2 = 1 + 1 /\ 0 + 3 = 1 + 2
    BY <1>1, <1>10, SpiAssumption
  <2>3. ScriptInv'
    BY <1>10, <2>1, <2>2, ReadGoesOn
  <2> QED BY <1>4, <1>10, <2>3, SpiAssumption
<1>11. ASSUME NEW size \in 0 .. MaxSize, NEW i \in 0 .. size - 1, count = i + 3,
              Len(results) = i + 1, Room(i + 2), At(spi_read(size), 3 * (i + 1) + 9)'
       PROVE  TypeOK' /\ ScriptInv'
  <2>1. Loaded((i + 2) + 1)' /\ count' = (i + 2) + 2
    BY <1>5, <1>11
  <2>2. /\ (i + 2) + 1 = (i + 1) + 2 /\ (i + 2) + 2 = (i + 1) + 3 /\ i + 1 \in 0 .. size
        /\ Len(results)' = i + 1
    BY <1>1, <1>11
  <2>3. ScriptInv'
    BY <1>11, <2>1, <2>2, ReadGoesOn
  <2>4. count + 1 <= MaxSize + 3
    BY <1>11, SpiAssumption
  <2> QED BY <1>4, <2>3, <2>4
<1>12. TypeOK' /\ ScriptInv'
  BY <1>6, <1>7, <1>8, <1>9, <1>10, <1>11 DEF Accessed
<1> QED BY <1>3, <1>12 DEF IInv

\* What is dropped is the answer of an earlier call or to the address.
LEMMA DropStep == IInv /\ Drop => IInv'
<1> SUFFICES ASSUME IInv, Drop PROVE IInv'
  OBVIOUS
<1>1. /\ Access("drop") /\ received' = None /\ Older
      /\ last' = (IF received = None THEN last ELSE received)
      /\ UNCHANGED <<call, count, buffer, shifter, results>>
  BY DEF Drop, Load
<1>2. TypeOK' /\ AnswersMatch' /\ Feeds'
  BY <1>1, SpiAssumption DEF IInv, TypeOK, AnswersMatch, Feeds, Older
<1>3. Accessed("drop")
  BY <1>1, AccessCases DEF IInv
<1>4. ASSUME NEW n \in 1 .. 7, "drop" = spi_single[n], Opening(n), OpeningAt(n + 1)'
      PROVE  ScriptInv'
  <2>1. n = 4 \/ n = 7
    BY <1>4, SingleScript
  <2>2. CASE n = 4
    <3>1. Opening(4) /\ OpeningAt(5)'
      BY <1>4, <2>2
    <3>2. Room(0)'
      BY <1>1, <3>1 DEF Opening, Room, B
    <3>3. Opening(5)'
      BY <1>1, <3>1, <3>2 DEF Opening
    <3> QED BY <3>1, <3>3, OpeningGoesOn
  <2>3. CASE n = 7
    <3>1. Opening(7) /\ OpeningAt(8)'
      BY <1>4, <2>3
    <3>2. Room(1)' /\ results' = << >> /\ count' = 2
      BY <1>1, <3>1 DEF Opening, Answered, Room, B
    <3>3. At(spi_single, 8)' => Ending(8)'
      BY <3>2 DEF Ending
    <3> QED BY <3>1, <3>2, <3>3 DEF OpeningAt, ScriptInv
  <2> QED BY <2>1, <2>2, <2>3
<1>5. ASSUME NEW n \in 8 .. 9 PROVE "drop" # spi_single[n]
  BY SingleScript
<1>6. ScriptInv'
  BY <1>3, <1>4, <1>5 DEF Accessed
<1> QED BY <1>2, <1>6 DEF IInv

\* What is taken is the answer to the byte behind the last one taken.
LEMMA TakeStep == IInv /\ Take => IInv'
<1> SUFFICES ASSUME IInv, Take PROVE IInv'
  OBVIOUS
<1>1. /\ Access("take") /\ received' = None /\ Older
      /\ last' = (IF received = None THEN last ELSE received)
      /\ results' = Append(results, last')
      /\ UNCHANGED <<call, count, buffer, shifter>>
  BY DEF Take, Load
<1>2. Feeds' /\ \A k : B(k)' = B(k)
  BY <1>1 DEF IInv, Feeds, B
<1>3. results \in Seq(Bytes) /\ MaxSize \in Nat
  BY SpiAssumption DEF IInv, TypeOK
<1>4. ASSUME NEW k \in Nat, received = B(k + 1), Len(results) = k, k <= MaxSize
      PROVE  TypeOK' /\ AnswersMatch' /\ Len(results') = k + 1
  <2>1. B(k + 1) # None
    BY ByteIsNotNone DEF IInv
  <2>2. last' = <<call, k + 1>> /\ <<call, k + 1>> \in Bytes
    BY <1>1, <1>3, <1>4, <2>1 DEF B, IInv, TypeOK, Bytes
  <2>3. /\ results' \in Seq(Bytes) /\ Len(results') = k + 1
        /\ \A m \in 1 .. k : results'[m] = results[m]
        /\ results'[k + 1] = <<call, k + 1>>
    BY <1>1, <1>3, <1>4, <2>2, AppendProperties
  <2>4. DOMAIN results = 1 .. k /\ DOMAIN results' = 1 .. k + 1
    BY <1>3, <1>4, <2>3, LenProperties
  <2>5. ASSUME NEW m \in DOMAIN results' PROVE results'[m] = <<call', m>>
    <3>1. CASE m \in 1 .. k
      BY <1>1, <2>3, <2>4, <3>1 DEF IInv, AnswersMatch
    <3>2. CASE m = k + 1
      BY <1>1, <2>3, <3>2
    <3> QED BY <1>4, <2>4, <2>5, <3>1, <3>2
  <2>6. AnswersMatch'
    BY <2>5 DEF AnswersMatch
  <2>7. last' \in Bytes \cup {None} /\ age' \in 0 .. ByteSteps
    BY <1>1, <2>2, SpiAssumption DEF Older, IInv, TypeOK
  <2>8. TypeOK'
    BY <1>1, <1>3, <1>4, <2>3, <2>7 DEF IInv, TypeOK
  <2> QED BY <2>3, <2>6, <2>8
<1>5. Accessed("take")
  BY <1>1, AccessCases DEF IInv
<1>6. ASSUME NEW n \in 1 .. 7 PROVE "take" # spi_single[n]
  BY SingleScript
<1>7. ASSUME NEW n \in 8 .. 9, "take" = spi_single[n], Ending(n), At(spi_single, n + 1)'
      PROVE  TypeOK' /\ AnswersMatch' /\ ScriptInv'
  <2>1. n = 9
    BY <1>7, SingleScript
  <2>2. Ending(9) /\ At(spi_single, 10)'
    BY <1>7, <2>1
  <2>3. received = B(0 + 1) /\ Len(results) = 0
    BY <2>2 DEF Ending, Room
  <2>4. TypeOK' /\ AnswersMatch'
    BY <1>3, <1>4, <2>3
  <2>5. spi_single \in Seq(Names) /\ 10 = Len(spi_single) + 1
    BY SingleScript
  <2>6. script' = << >>
    BY <2>2, <2>5, Ended
  <2> QED BY <2>4, <2>6 DEF ScriptInv
<1>8. ASSUME NEW size \in 0 .. MaxSize, NEW i \in 0 .. size - 1, count = i + 3,
             Len(results) = i, Answered(i + 2), At(spi_read(size), 3 * i + 11)'
      PROVE  TypeOK' /\ AnswersMatch' /\ ScriptInv'
  <2>1. received = B(i + 1) /\ buffer = None /\ shifter = B(i + 2)
    BY <1>8 DEF Answered, B
  <2>2. TypeOK' /\ AnswersMatch' /\ Len(results') = i + 1
    BY <1>3, <1>4, <1>8, <2>1
  <2>3. Room(i + 2)'
    BY <1>1, <2>1 DEF Room, B
  <2>4. Reading(size, i)'
    BY <1>1, <1>8, <2>2, <2>3 DEF Reading
  <2> QED BY <2>2, <2>4 DEF ScriptInv
<1>9. TypeOK' /\ AnswersMatch' /\ ScriptInv'
  BY <1>5, <1>6, <1>7, <1>8 DEF Accessed
<1> QED BY <1>2, <1>9 DEF IInv

\* The access the call is about to make.
LEMMA NextAccess ==
  ASSUME NEW t \in Seq(Names), NEW n \in 1 .. Len(t), At(t, n)
  PROVE  script # << >> /\ Head(script) = t[n]
<1>1. Len(t) \in Nat /\ \A i \in n .. Len(t) : t[i] \in Names
  OBVIOUS
<1>2. script = SubSeq(t, n, Len(t))
  BY DEF At
<1>3. Len(script) = Len(t) - n + 1
  BY <1>1, <1>2, SubSeqProperties
<1>4. Len(script) # 0
  BY <1>1, <1>3
<1>5. script # << >>
  BY <1>4, EmptySeq
<1> QED BY <1>1, <1>2, <1>5, HeadTailOfSubSeq

LEMMA NextOfOpening ==
  ASSUME NEW n \in 1 .. 7, OpeningAt(n)
  PROVE  script # << >> /\ Head(script) = spi_single[n]
<1>1. CASE At(spi_single, n)
  <2>1. n \in 1 .. Len(spi_single)
    BY SingleScript
  <2> QED BY <1>1, <2>1, SingleScript, NextAccess
<1>2. CASE \E size \in 0 .. MaxSize : At(spi_read(size), n)
  <2>1. PICK size \in 0 .. MaxSize : At(spi_read(size), n)
    BY <1>2
  <2>2. size \in Nat
    BY SpiAssumption
  <2>3. /\ spi_read(size) \in Seq(Names) /\ Len(spi_read(size)) = 3 * size + 8
        /\ spi_read(size)[n] = spi_single[n]
    BY <2>2, ReadScript
  <2>4. n \in 1 .. Len(spi_read(size))
    BY <2>2, <2>3
  <2> QED BY <2>1, <2>3, <2>4, NextAccess
<1> QED BY <1>1, <1>2 DEF OpeningAt

\* A byte ends only when its time is over or the program waits for it: the answer in the
\* receive buffer is taken before the next one comes.
LEMMA ShiftStep == Slow /\ IInv /\ ShiftDone => IInv'
<1> SUFFICES ASSUME Slow, IInv, ShiftDone PROVE IInv'
  OBVIOUS
<1>1. /\ shifter # None /\ (age >= ByteSteps \/ Polling)
      /\ received' = (IF received = None THEN shifter ELSE received)
      /\ shifter' = buffer /\ buffer' = None /\ age' = 0
      /\ UNCHANGED <<script, call, count, results, last>>
  BY DEF ShiftDone
<1>2. TypeOK' /\ AnswersMatch' /\ Feeds'
  BY <1>1, SpiAssumption DEF IInv, TypeOK, AnswersMatch, Feeds
<1>3. \A k : B(k)' = B(k) /\ B(k) # None
  BY <1>1, ByteIsNotNone DEF IInv, B
<1>4. ASSUME NEW t, NEW n, At(t, n) PROVE At(t, n)'
  BY <1>1, <1>4 DEF At
<1>5. age < ByteSteps => Polling
  BY <1>1, SpiAssumption DEF IInv, TypeOK
<1>6. ASSUME script # << >>, Head(script) = "cts", buffer = None PROVE ~Polling
  BY <1>6 DEF Polling
<1>7. ASSUME script # << >>, Head(script) = "dr", received # None PROVE ~Polling
  BY <1>7 DEF Polling
<1>8. ASSUME script # << >>, Head(script) \in {"drop", "take", "put"} PROVE ~Polling
  BY <1>8 DEF Polling
<1>9. ASSUME NEW k, Room(k) PROVE Room(k)'
  BY <1>1, <1>3, <1>9 DEF Room
<1>10. ASSUME NEW k, Loaded(k), script # << >>, Head(script) = "dr" PROVE Loaded(k)'
  <2>1. received # B(k - 1)
    <3>1. SUFFICES ASSUME received = B(k - 1) PROVE FALSE
      OBVIOUS
    <3>2. received # None /\ age = 0
      BY <1>3, <1>10, <3>1 DEF Loaded
    <3> QED BY <1>5, <1>7, <1>10, <3>2, SpiAssumption DEF Slow
  <2>2. buffer = B(k) /\ shifter = B(k - 1) /\ received = None
    BY <1>10, <2>1 DEF Loaded
  <2>3. shifter' = B(k) /\ received' = B(k - 1) /\ buffer' = None /\ age' = 0
    BY <1>1, <2>2
  <2>4. B(k)' = B(k) /\ B(k - 1)' = B(k - 1)
    BY <1>3
  <2> QED BY <2>3, <2>4 DEF Loaded
<1>11. ASSUME NEW k, Answered(k), script # << >>, Head(script) \in {"drop", "take", "put"}
       PROVE  FALSE
  BY <1>5, <1>8, <1>11, SpiAssumption DEF Answered, Slow
<1>12. ASSUME script = << >> PROVE ScriptInv'
  <2>1. script' = << >>
    BY <1>1, <1>12
  <2> QED BY <2>1 DEF ScriptInv
<1>13. ASSUME NEW size \in 0 .. MaxSize, NEW j \in 0 .. size + 1, Writing(size, j)
       PROVE  ScriptInv'
  <2>1. Writing(size, j)'
    BY <1>1, <1>4, <1>13 DEF Writing
  <2> QED BY <2>1 DEF ScriptInv
<1>14. ASSUME NEW n \in 1 .. 7, OpeningAt(n), Opening(n) PROVE ScriptInv'
  <2>1. script # << >> /\ Head(script) = spi_single[n]
    BY <1>14, NextOfOpening
  <2>2. OpeningAt(n)'
    BY <1>4, <1>14 DEF OpeningAt
  <2>3. /\ results' = << >>
        /\ n \in 1 .. 2 => count' = 0
        /\ n \in 3 .. 5 => count' = 1
        /\ n \in 6 .. 7 => count' = 2
    BY <1>1, <1>14 DEF Opening
  <2>4. n = 2 => buffer' = None
    BY <1>1
  <2>5. n = 3 => buffer' = None /\ shifter' = B(0)' /\ age' = 0
    <3>1. SUFFICES ASSUME n = 3 PROVE buffer' = None /\ shifter' = B(0)' /\ age' = 0
      OBVIOUS
    <3>2. Head(script) = "cts"
      BY <2>1, <3>1, SingleScript
    <3>3. buffer # None
      <4>1. SUFFICES ASSUME buffer = None PROVE FALSE
        OBVIOUS
      <4>2. age = 0
        BY <1>3, <1>14, <3>1, <4>1 DEF Opening
      <4> QED BY <1>5, <1>6, <2>1, <3>2, <4>1, <4>2, SpiAssumption DEF Slow
    <3>4. buffer = B(0)
      BY <1>14, <3>1, <3>3 DEF Opening
    <3> QED BY <1>1, <1>3, <3>4
  <2>6. n # 4
    <3>1. SUFFICES ASSUME n = 4 PROVE FALSE
      OBVIOUS
    <3>2. Head(script) = "drop" /\ age = 1
      BY <1>14, <2>1, <3>1, SingleScript DEF Opening
    <3> QED BY <1>5, <1>8, <2>1, <3>2, SpiAssumption DEF Slow
  <2>7. n = 5 => Room(0)'
    BY <1>9, <1>14 DEF Opening
  <2>8. n = 6 => Loaded(1)'
    <3>1. SUFFICES ASSUME n = 6 PROVE Loaded(1)'
      OBVIOUS
    <3>2. Head(script) = "dr" /\ Loaded(1)
      BY <1>14, <2>1, <3>1, SingleScript DEF Opening
    <3> QED BY <1>10, <2>1, <3>2
  <2>9. n # 7
    <3>1. SUFFICES ASSUME n = 7 PROVE FALSE
      OBVIOUS
    <3>2. Head(script) = "drop" /\ Answered(1)
      BY <1>14, <2>1, <3>1, SingleScript DEF Opening
    <3> QED BY <1>11, <2>1, <3>2
  <2>10. Opening(n)'
    BY <2>3, <2>4, <2>5, <2>6, <2>7, <2>8, <2>9 DEF Opening
  <2> QED BY <2>2, <2>10, OpeningGoesOn
<1>15. ASSUME NEW n \in 8 .. 9, Ending(n) PROVE ScriptInv'
  <2>1. n = 8
    BY <1>1, <1>3, <1>15 DEF Ending, Room
  <2>2. Ending(8)'
    BY <1>1, <1>4, <1>9, <1>15, <2>1 DEF Ending
  <2> QED BY <2>2 DEF ScriptInv
<1>16. ASSUME NEW size \in 0 .. MaxSize, At(spi_read(size), 8), results = << >>, count = 2, Room(1)
       PROVE  ScriptInv'
  <2>1. At(spi_read(size), 8)' /\ results' = << >> /\ count' = 2 /\ Room(1)'
    BY <1>1, <1>4, <1>9, <1>16
  <2> QED BY <2>1 DEF ScriptInv
<1>17. ASSUME NEW size \in 0 .. MaxSize, NEW i \in 0 .. size - 1, Reading(size, i)
       PROVE  ScriptInv'
  <2>1. size \in Nat
    BY SpiAssumption
  <2>2. /\ spi_read(size) \in Seq(Names) /\ Len(spi_read(size)) = 3 * size + 8
        /\ spi_read(size)[3 * i + 9] = "dr" /\ spi_read(size)[3 * i + 10] = "take"
    BY <2>1, ReadScript
  <2>3. 3 * i + 9 \in 1 .. Len(spi_read(size)) /\ 3 * i + 10 \in 1 .. Len(spi_read(size))
    BY <2>1, <2>2
  <2>4. CASE At(spi_read(size), 3 * i + 9) /\ Len(results) = i /\ Loaded(i + 2)
    <3>1. script # << >> /\ Head(script) = "dr"
      BY <2>2, <2>3, <2>4, NextAccess
    <3>2. Loaded(i + 2)' /\ At(spi_read(size), 3 * i + 9)'
      BY <1>4, <1>10, <2>4, <3>1
    <3>3. Reading(size, i)'
      BY <1>1, <1>17, <2>4, <3>2 DEF Reading
    <3> QED BY <3>3 DEF ScriptInv
  <2>5. CASE At(spi_read(size), 3 * i + 10) /\ Len(results) = i /\ Answered(i + 2)
    <3>1. script # << >> /\ Head(script) = "take"
      BY <2>2, <2>3, <2>5, NextAccess
    <3> QED BY <1>11, <2>5, <3>1
  <2>6. CASE At(spi_read(size), 3 * i + 11) /\ Len(results) = i + 1 /\ Room(i + 2)
    <3>1. Room(i + 2)' /\ At(spi_read(size), 3 * i + 11)'
      BY <1>4, <1>9, <2>6
    <3>2. Reading(size, i)'
      BY <1>1, <1>17, <2>6, <3>1 DEF Reading
    <3> QED BY <3>2 DEF ScriptInv
  <2> QED BY <1>17, <2>4, <2>5, <2>6 DEF Reading
<1>18. ScriptInv'
  BY <1>12, <1>13, <1>14, <1>15, <1>16, <1>17 DEF IInv, ScriptInv
<1> QED BY <1>2, <1>18 DEF IInv

LEMMA InitInv == Init => IInv
<1> SUFFICES ASSUME Init PROVE IInv
  OBVIOUS
<1>1. << >> \in Seq(Bytes) /\ Len(<< >>) = 0
  OBVIOUS
<1>2. TypeOK
  BY <1>1, SpiAssumption DEF Init, TypeOK
<1>3. AnswersMatch /\ Feeds /\ ScriptInv
  BY DEF Init, AnswersMatch, Feeds, ScriptInv
<1> QED BY <1>2, <1>3 DEF IInv

LEMMA StutterStep == IInv /\ UNCHANGED vars => IInv'
<1> SUFFICES ASSUME IInv, UNCHANGED vars PROVE IInv'
  OBVIOUS
<1>1. /\ script' = script /\ call' = call /\ count' = count /\ results' = results
      /\ buffer' = buffer /\ shifter' = shifter /\ received' = received /\ last' = last
      /\ age' = age
  BY DEF vars
<1>2. TypeOK' /\ AnswersMatch' /\ Feeds'
  BY <1>1 DEF IInv, TypeOK, AnswersMatch, Feeds
<1>3. ASSUME NEW t, NEW n, At(t, n) PROVE At(t, n)'
  BY <1>1, <1>3 DEF At
<1>4. ASSUME NEW k PROVE Room(k)' = Room(k) /\ Loaded(k)' = Loaded(k) /\ Answered(k)' = Answered(k)
  BY <1>1, Zenon DEF Room, Loaded, Answered, B
<1>5. ASSUME NEW size, NEW j, Writing(size, j) PROVE Writing(size, j)'
  BY <1>1, <1>3, <1>5 DEF Writing
<1>6. ASSUME NEW n, OpeningAt(n) PROVE OpeningAt(n)'
  BY <1>3, <1>6 DEF OpeningAt
<1>7. ASSUME NEW n, Opening(n) PROVE Opening(n)'
  BY <1>1, <1>7, Zenon DEF Opening, Room, Loaded, Answered, B
<1>8. ASSUME NEW n, Ending(n) PROVE Ending(n)'
  BY <1>1, <1>3, <1>4, <1>8 DEF Ending
<1>9. ASSUME NEW size, NEW i, Reading(size, i) PROVE Reading(size, i)'
  BY <1>1, <1>3, <1>4, <1>9 DEF Reading
<1>10. ASSUME NEW size \in 0 .. MaxSize, At(spi_read(size), 8), results = << >>, count = 2, Room(1)
       PROVE  At(spi_read(size), 8)' /\ results' = << >> /\ count' = 2 /\ Room(1)'
  BY <1>1, <1>3, <1>4, <1>10
<1>11. ScriptInv'
  BY <1>1, <1>5, <1>6, <1>7, <1>8, <1>9, <1>10, Zenon DEF IInv, ScriptInv
<1> QED BY <1>2, <1>11 DEF IInv

-----------------------------------------------------------------------------
(* The theorems.                                                               *)

LEMMA PutFindsRoom == IInv => PutHasRoom
<1> SUFFICES ASSUME IInv, script # << >>, Head(script) = "put" PROVE buffer = None
  BY DEF PutHasRoom
<1>1. ASSUME NEW size \in 0 .. MaxSize, NEW j \in 0 .. size + 1, Writing(size, j)
      PROVE  buffer = None
  <2>1. CASE At(spi_write(size), 2 * j + 1)
    <3>1. size \in Nat
      BY SpiAssumption
    <3>2. /\ spi_write(size) \in Seq(Names) /\ Len(spi_write(size)) = 2 * size + 3
          /\ \A k \in 1 .. 2 * size + 3 : spi_write(size)[k] = IF k % 2 = 1 THEN "cts" ELSE "put"
      BY <3>1, WriteScript
    <3>3. 2 * j + 1 \in 1 .. 2 * size + 3 /\ (2 * j + 1) % 2 = 1
      BY <3>1
    <3>4. spi_write(size)[2 * j + 1] = "cts"
      BY <3>2, <3>3
    <3>5. 2 * j + 1 \in 1 .. Len(spi_write(size))
      BY <3>2, <3>3
    <3>6. Head(script) = spi_write(size)[2 * j + 1]
      BY <2>1, <3>2, <3>5, NextAccess
    <3> QED BY <3>4, <3>6
  <2> QED BY <1>1, <2>1 DEF Writing
<1>2. ASSUME NEW n \in 1 .. 7, OpeningAt(n), Opening(n) PROVE buffer = None
  <2>1. Head(script) = spi_single[n]
    BY <1>2, NextOfOpening
  <2>2. n = 2 \/ n = 5
    BY <2>1, SingleScript
  <2> QED BY <1>2, <2>2 DEF Opening, Room
<1>3. ASSUME NEW n \in 8 .. 9, Ending(n) PROVE buffer = None
  BY <1>3 DEF Ending, Room
<1>4. ASSUME Room(1) PROVE buffer = None
  BY <1>4 DEF Room
<1>5. ASSUME NEW size \in 0 .. MaxSize, NEW i \in 0 .. size - 1, Reading(size, i)
      PROVE  buffer = None
  <2>1. size \in Nat
    BY SpiAssumption
  <2>2. /\ spi_read(size) \in Seq(Names) /\ Len(spi_read(size)) = 3 * size + 8
        /\ spi_read(size)[3 * i + 9] = "dr"
    BY <2>1, ReadScript
  <2>3. 3 * i + 9 \in 1 .. Len(spi_read(size))
    BY <2>1, <2>2
  <2>4. CASE At(spi_read(size), 3 * i + 9)
    <3>1. Head(script) = "dr"
      BY <2>2, <2>3, <2>4, NextAccess
    <3> QED BY <3>1
  <2> QED BY <1>5, <2>4 DEF Reading, Answered, Room
<1> QED BY <1>1, <1>2, <1>3, <1>4, <1>5 DEF IInv, ScriptInv

\* The inductive invariant holds of every behaviour.
THEOREM Invariance == Slow => (Spec => []IInv)
<1> SUFFICES ASSUME Slow PROVE Spec => []IInv
  OBVIOUS
<1>1. IInv /\ [Next]_vars => IInv'
  BY CallStep, CtsStep, DrStep, PutStep, DropStep, TakeStep, ShiftStep, StutterStep
     DEF Next, Program
<1> QED BY InitInv, <1>1, PTL DEF Spec

\* Whatever the calls before have left in the shifter and in both buffers, spi_single and
\* spi_read return the answers to their own bytes, in order, and every byte that is stored
\* finds the transmit buffer empty, also the ones spi_read stores without testing SPTEF.
THEOREM AnswersAreTheirOwn == Slow => (Spec => []Inv)
<1> SUFFICES ASSUME Slow PROVE Spec => []Inv
  OBVIOUS
<1>1. IInv => Inv
  BY PutFindsRoom DEF IInv, Inv
<1> QED BY Invariance, <1>1, PTL
=============================================================================
