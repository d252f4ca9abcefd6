----------------------------- MODULE TouchProofs -----------------------------
(* Theorems about module Touch, for every number of channels and every mask    *)
(* with an enabled channel.                                                    *)
EXTENDS Touch, TLAPS, WellFoundedInduction, FiniteSetTheorems

\* Going round from channel c: the channels passed on the way to channel d.
Offset(c, d) == (d - c - 1) % NCHANNELS

\* There is a next enabled channel, and it is one of the mask: the endless loop
\* of TSI0_IRQHandler ends.  No other enabled channel comes before it.
LEMMA NextEnabledIsFirst ==
  ASSUME enable_mask \in SUBSET Channels, enable_mask # {}, NEW ch \in Channels
  PROVE  /\ NextEnabled(ch) \in enable_mask
         /\ \A d \in enable_mask : Offset(ch, NextEnabled(ch)) <= Offset(ch, d)
<1> DEFINE Offsets == {Offset(ch, c) : c \in enable_mask}
           Less == OpToRel(<, Nat)
<1> USE ChannelsAssumption
<1>1. \A c \in enable_mask : Offset(ch, c) \in Nat
  BY DEF Channels, Offset
<1>2. Offsets \subseteq Nat /\ Offsets # {}
  BY <1>1
<1>3. PICK m \in Offsets : \A n \in Offsets : <<n, m>> \notin Less
  <2> HIDE DEF Offsets, Less
  <2>1. IsWellFoundedOn(Less, Nat)
    BY NatLessThanWellFounded DEF Less
  <2> QED BY <1>2, <2>1, WFMin
<1>4. \A n \in Offsets : m <= n
  <2> SUFFICES ASSUME NEW n \in Offsets PROVE m <= n
    OBVIOUS
  <2>1. m \in Nat /\ n \in Nat
    BY <1>2
  <2>2. ~(n < m)
    BY <1>3, <2>1 DEF OpToRel
  <2> QED BY <2>1, <2>2
<1>5. PICK c \in enable_mask : m = Offset(ch, c)
  OBVIOUS
<1>6. \A d \in enable_mask : Offset(ch, c) <= Offset(ch, d)
  BY <1>4, <1>5
<1> QED
  BY <1>6 DEF NextEnabled, Offset

-----------------------------------------------------------------------------
(* The inductive invariant: which scan runs at each step, and which results    *)
(* have been stored.                                                           *)

ScanInv ==
  /\ TypeOK
  /\ pc # "call" => enable_mask # {}
  /\ pc \in {"call", "baseline", "poll"} <=> enabled = FALSE
  /\ pc \in {"call", "baseline", "start"} => scanning = NoCount /\ eosf = FALSE
  /\ pc = "poll" => /\ i \in enable_mask /\ tsich = i
                    /\ IF eosf THEN scanning = NoCount /\ tsicnt = i
                               ELSE scanning = i
  /\ pc = "start" => pending = FALSE
  /\ pc \in {"start", "run"} => i = -1
  /\ pc = "run" => /\ tsich \in enable_mask
                   /\ IF pending THEN scanning = NoCount /\ tsicnt = tsich
                                 ELSE scanning = tsich

StoredInv ==
  /\ RawOfItsChannel
  /\ pc # "call" => \A c \in enable_mask :
       c > i => base_counts[c] = c /\ first_channel \in enable_mask

SafeInv == ScanInv /\ StoredInv

LEMMA SafeInit == Init => SafeInv
<1> SUFFICES ASSUME Init PROVE SafeInv
  OBVIOUS
<1> USE ChannelsAssumption DEF Init, Channels, Counts, NoCount
<1>1. TypeOK
  <2>1. /\ raw_counts \in [Channels -> Counts] /\ base_counts \in [Channels -> Counts]
        /\ waited \in [Channels -> Nat]
    OBVIOUS
  <2>2. /\ 0 \in Channels /\ 0 \in -1 .. NCHANNELS - 1
        /\ NoCount \in Counts
    OBVIOUS
  <2> HIDE DEF Channels, Counts, NoCount
  <2> QED BY <2>1, <2>2 DEF TypeOK
<1>2. ScanInv
  BY <1>1 DEF ScanInv
<1>3. StoredInv
  BY DEF StoredInv, RawOfItsChannel
<1> QED BY <1>2, <1>3 DEF SafeInv

LEMMA SafeStep == SafeInv /\ [Next]_vars => SafeInv'
<1> SUFFICES ASSUME SafeInv, [Next]_vars PROVE SafeInv'
  OBVIOUS
<1> USE ChannelsAssumption
        DEF SafeInv, ScanInv, StoredInv, RawOfItsChannel, TypeOK, counts, nvic
<1>0. NoCount \notin Channels /\ Channels \subseteq Counts /\ NoCount \in Counts
      /\ \A c \in Channels : c \in Int /\ c >= 0 /\ c < NCHANNELS
  BY DEF NoCount, Channels, Counts
<1>1. CASE CallInit
  <2>1. i' \in -1 .. NCHANNELS - 1 /\ first_channel' \in Channels
        /\ \A c \in Channels : ~(c > i')
    BY <1>1 DEF CallInit, Channels
  <2>2. enable_mask' \subseteq Channels /\ enable_mask' # {}
    BY <1>1 DEF CallInit
  <2>3. /\ pc = "call" /\ pc' = "baseline"
        /\ UNCHANGED <<counts, tsich, tsicnt, scanning, eosf, nvic, waited>>
    BY <1>1 DEF CallInit
  <2>4. \A c \in enable_mask' : ~(c > i')
    BY <2>1, <2>2
  <2> QED BY <1>0, <2>1, <2>2, <2>3, <2>4
<1>2. CASE BaselineSkip
  <2>1. i' \in -1 .. NCHANNELS - 1
        /\ \A c \in enable_mask : c > i' => c > i
    BY <1>0, <1>2 DEF BaselineSkip
  <2> QED BY <1>0, <1>2, <2>1 DEF BaselineSkip
<1>3. CASE BaselineStart
  <2>1. /\ pc = "baseline" /\ i \in enable_mask /\ i \in Channels
        /\ pc' = "poll" /\ tsich' = i /\ scanning' = i /\ scanning' \in Counts
        /\ UNCHANGED <<enable_mask, i, first_channel, counts, tsicnt, eosf, nvic, waited>>
    BY <1>0, <1>3 DEF BaselineStart, scan_start
  <2>2. eosf = FALSE
    BY <2>1
  <2> QED BY <1>0, <2>1, <2>2
<1>4. CASE BaselineDone
  <2>1. /\ base_counts' = [base_counts EXCEPT ![i] = i] /\ eosf' = FALSE
        /\ i \in enable_mask /\ i \in Channels /\ i' = i - 1
        /\ first_channel' = i /\ pc' = "baseline" /\ scanning = NoCount
    BY <1>4 DEF BaselineDone, scan_data
  <2>2. i' \in -1 .. NCHANNELS - 1
        /\ \A c \in enable_mask : c > i' => c = i \/ c > i
    BY <1>0, <2>1
  <2>3. /\ base_counts' \in [Channels -> Counts]
        /\ base_counts'[i] = i
        /\ \A c \in Channels : c # i => base_counts'[c] = base_counts[c]
    BY <1>0, <2>1
  <2> QED BY <1>0, <1>4, <2>1, <2>2, <2>3 DEF BaselineDone
<1>5. CASE enable_irq
  <2>1. i = -1
    BY <1>5 DEF enable_irq
  <2> QED BY <1>0, <1>5, <2>1 DEF enable_irq
<1>6. CASE StartFirst
  <2>1. first_channel \in enable_mask
    <3>1. PICK c \in enable_mask : TRUE
      BY <1>6 DEF StartFirst
    <3>2. c > i
      BY <1>0, <1>6 DEF StartFirst
    <3> QED BY <1>6, <3>2 DEF StartFirst
  <2> QED BY <1>0, <1>6, <2>1 DEF StartFirst, scan_start
<1>7. CASE ScanDone
  BY <1>0, <1>7 DEF ScanDone, local
<1>8. CASE TSI0_IRQHandler
  <2>1. pc = "run" /\ pending = TRUE /\ tsicnt = tsich /\ scanning = NoCount
        /\ tsich \in enable_mask /\ tsich \in Channels
    BY <1>8 DEF TSI0_IRQHandler
  <2>2. /\ raw_counts' = [raw_counts EXCEPT ![tsich] = tsich] /\ eosf' = FALSE
        /\ waited' = [c \in Channels |-> IF c = tsich \/ c \notin enable_mask THEN 0
                                         ELSE waited[c] + 1]
    BY <1>8, <2>1 DEF TSI0_IRQHandler, Save, scan_data
  <2>3. NextEnabled(tsich) \in enable_mask
    BY <2>1, NextEnabledIsFirst
  <2>4. tsich' = NextEnabled(tsich) /\ scanning' = NextEnabled(tsich) /\ pending' = FALSE
    BY <1>8, <2>1 DEF TSI0_IRQHandler, scan_start
  <2>5. /\ raw_counts' \in [Channels -> Counts]
        /\ \A c \in Channels : raw_counts'[c] \in {c, NoCount}
    BY <1>0, <2>1, <2>2
  <2>6. waited' \in [Channels -> Nat]
    BY <2>2
  <2>7. UNCHANGED <<local, base_counts, tsicnt, enabled>>
    BY <1>8 DEF TSI0_IRQHandler
  <2> QED BY <1>0, <2>1, <2>2, <2>3, <2>4, <2>5, <2>6, <2>7 DEF local
<1>9. CASE UNCHANGED vars
  BY <1>9 DEF vars, local
<1> QED
  BY <1>1, <1>2, <1>3, <1>4, <1>5, <1>6, <1>7, <1>8, <1>9 DEF Next, touch_init

-----------------------------------------------------------------------------
(* Round robin.  Going round from channel c, Behind(c) are the enabled         *)
(* channels before the one being measured: a channel has waited for no result  *)
(* but theirs since its own last one.                                          *)

Behind(c) == {d \in enable_mask : Offset(c, d) < Offset(c, tsich)}

WaitInv ==
  /\ \A c \in Channels : pc # "run" \/ c \notin enable_mask => waited[c] = 0
  /\ pc = "run" => \A c \in enable_mask : waited[c] <= Cardinality(Behind(c))

\* The offset of a channel is the number of channels passed on the way to it.
LEMMA OffsetValue ==
  ASSUME NEW c \in Channels, NEW d \in Channels
  PROVE  Offset(c, d) = IF d > c THEN d - c - 1 ELSE d - c - 1 + NCHANNELS
<1> USE ChannelsAssumption
<1>1. c \in Int /\ d \in Int /\ 0 <= c /\ c < NCHANNELS /\ 0 <= d /\ d < NCHANNELS
  BY DEF Channels
<1>2. CASE d > c
  <2>1. d - c - 1 \in Int /\ 0 <= d - c - 1 /\ d - c - 1 < NCHANNELS
    BY <1>1, <1>2
  <2> QED BY <1>2, <2>1 DEF Offset
<1>3. CASE ~(d > c)
  <2>1. /\ d - c - 1 \in Int /\ 0 <= d - c - 1 + NCHANNELS
        /\ d - c - 1 + NCHANNELS < NCHANNELS
    BY <1>1, <1>3
  <2> QED BY <1>3, <2>1 DEF Offset
<1> QED BY <1>2, <1>3

\* On the way from an enabled channel to the next one no other is passed: going
\* round from c, the next channel lies beyond this one.
LEMMA NextLiesBeyond ==
  ASSUME enable_mask \in SUBSET Channels, NEW ch \in enable_mask,
         NEW c \in enable_mask, c # ch
  PROVE  Offset(c, ch) < Offset(c, NextEnabled(ch))
<1> DEFINE next == NextEnabled(ch)
<1>1. /\ ch \in Channels /\ c \in Channels /\ next \in Channels
      /\ next \in enable_mask
  BY NextEnabledIsFirst
<1>2. Offset(ch, next) <= Offset(ch, c)
  BY NextEnabledIsFirst
<1>3. /\ Offset(ch, next) = IF next > ch THEN next - ch - 1 ELSE next - ch - 1 + NCHANNELS
      /\ Offset(ch, c) = IF c > ch THEN c - ch - 1 ELSE c - ch - 1 + NCHANNELS
      /\ Offset(c, next) = IF next > c THEN next - c - 1 ELSE next - c - 1 + NCHANNELS
      /\ Offset(c, ch) = IF ch > c THEN ch - c - 1 ELSE ch - c - 1 + NCHANNELS
  BY <1>1, OffsetValue
<1>4. /\ ch \in Int /\ c \in Int /\ next \in Int /\ 0 <= ch /\ ch < NCHANNELS
      /\ 0 <= c /\ c < NCHANNELS /\ 0 <= next /\ next < NCHANNELS
  BY <1>1, ChannelsAssumption DEF Channels
<1> HIDE DEF next
<1>5. Offset(c, ch) < Offset(c, next)
  BY <1>2, <1>3, <1>4, ChannelsAssumption
<1> QED BY <1>5 DEF next

\* The channels of a mask are finitely many.
LEMMA MaskFinite ==
  ASSUME enable_mask \in SUBSET Channels
  PROVE  /\ IsFiniteSet(enable_mask)
         /\ \A S \in SUBSET enable_mask : IsFiniteSet(S) /\ Cardinality(S) \in Nat
<1>1. IsFiniteSet(Channels)
  BY FS_Interval, ChannelsAssumption DEF Channels
<1> QED BY <1>1, FS_Subset, FS_CardinalityType

LEMMA WaitInit == Init => WaitInv
  BY DEF Init, WaitInv

LEMMA WaitStep == SafeInv /\ WaitInv /\ [Next]_vars => WaitInv'
<1> SUFFICES ASSUME SafeInv, WaitInv, [Next]_vars PROVE WaitInv'
  OBVIOUS
<1> USE DEF SafeInv, ScanInv
<1>0. TypeOK /\ enable_mask \in SUBSET Channels /\ TypeOK'
  BY SafeStep DEF TypeOK
<1>1. CASE CallInit
  BY <1>0, <1>1 DEF CallInit, WaitInv
<1>2. CASE BaselineSkip \/ BaselineStart \/ BaselineDone \/ enable_irq
  BY <1>2 DEF BaselineSkip, BaselineStart, BaselineDone, enable_irq, WaitInv
<1>3. CASE StartFirst
  <2>1. pc' = "run" /\ waited' = waited /\ enable_mask' = enable_mask
        /\ \A c \in Channels : waited[c] = 0
    BY <1>3 DEF StartFirst, WaitInv
  <2>2. ASSUME NEW c \in enable_mask PROVE waited'[c] <= Cardinality(Behind(c)')
    <3>1. Behind(c)' \in SUBSET enable_mask
      BY <2>1 DEF Behind
    <3>2. Cardinality(Behind(c)') \in Nat /\ waited'[c] = 0
      BY <1>0, <2>1, <3>1, MaskFinite
    <3> QED BY <3>2
  <2> QED BY <1>0, <2>1, <2>2 DEF WaitInv
<1>4. CASE ScanDone
  <2>1. UNCHANGED <<pc, enable_mask, tsich, waited>>
    BY <1>4 DEF ScanDone, local
  <2> QED BY <2>1 DEF WaitInv, Behind
<1>5. CASE TSI0_IRQHandler
  <2>1. pc = "run" /\ tsich \in enable_mask /\ tsich \in Channels
    <3>1. pending = TRUE /\ enabled = TRUE
      BY <1>0, <1>5 DEF TSI0_IRQHandler, TypeOK
    <3> QED BY <1>0, <3>1 DEF TypeOK
  <2>2. /\ waited' = [c \in Channels |-> IF c = tsich \/ c \notin enable_mask THEN 0
                                         ELSE waited[c] + 1]
        /\ tsich' = NextEnabled(tsich) /\ pc' = pc /\ enable_mask' = enable_mask
    BY <1>5 DEF TSI0_IRQHandler, Save, scan_start, local
  <2>3. ASSUME NEW c \in enable_mask PROVE waited'[c] <= Cardinality(Behind(c)')
    <3>1. Behind(c) \in SUBSET enable_mask /\ Behind(c)' \in SUBSET enable_mask
      BY <2>2 DEF Behind
    <3>2. /\ IsFiniteSet(Behind(c)) /\ IsFiniteSet(Behind(c)')
          /\ Cardinality(Behind(c)) \in Nat /\ Cardinality(Behind(c)') \in Nat
      BY <1>0, <3>1, MaskFinite
    <3>3. c \in Channels /\ waited[c] \in Nat
      BY <1>0 DEF TypeOK
    <3>4. CASE c = tsich
      <4>1. waited'[c] = 0
        BY <2>2, <3>3, <3>4
      <4> QED BY <3>2, <4>1
    <3>5. CASE c # tsich
      <4>1. waited'[c] = waited[c] + 1
        BY <2>2, <3>3, <3>5
      <4>2. Offset(c, tsich) < Offset(c, tsich')
        BY <1>0, <2>1, <2>2, <3>5, NextLiesBeyond
      <4>3. /\ \A d \in enable_mask : Offset(c, d) \in Int
            /\ Offset(c, tsich) \in Int /\ Offset(c, tsich') \in Int
        <5>1. \A d \in Channels : d \in Int
          BY ChannelsAssumption DEF Channels
        <5>2. tsich' \in Channels
          BY <1>0 DEF TypeOK
        <5> QED BY <1>0, <2>1, <3>3, <5>1, <5>2, ChannelsAssumption DEF Offset
      <4>4. Behind(c) \cup {tsich} \subseteq Behind(c)' /\ tsich \notin Behind(c)
        BY <2>1, <2>2, <4>2, <4>3 DEF Behind
      <4>5. Cardinality(Behind(c) \cup {tsich}) = Cardinality(Behind(c)) + 1
        BY <3>2, <4>4, FS_AddElement
      <4>6. Cardinality(Behind(c) \cup {tsich}) <= Cardinality(Behind(c)')
        BY <3>2, <4>4, FS_Subset
      <4>7. waited[c] <= Cardinality(Behind(c))
        BY <2>1 DEF WaitInv
      <4> QED BY <3>2, <3>3, <4>1, <4>5, <4>6, <4>7
    <3> QED BY <3>4, <3>5
  <2>4. \A c \in Channels : c \notin enable_mask' => waited'[c] = 0
    BY <2>2
  <2> QED BY <2>1, <2>2, <2>3, <2>4 DEF WaitInv
<1>6. CASE UNCHANGED vars
  BY <1>6 DEF vars, local, WaitInv, Behind
<1> QED
  BY <1>1, <1>2, <1>3, <1>4, <1>5, <1>6 DEF Next, touch_init

-----------------------------------------------------------------------------
(* The theorems.                                                               *)

\* Every variable of the driver keeps its type: the channel of a scan is always
\* one there is, so the handler stores inside raw_counts.
THEOREM TypeCorrect == Spec => []TypeOK
<1>1. SafeInv => TypeOK
  BY DEF SafeInv, ScanInv
<1> QED
  BY <1>1, SafeInit, SafeStep, PTL DEF Spec

\* The handler never saves a count under another channel's number.
THEOREM RawCountsOfTheirChannel == Spec => []RawOfItsChannel
<1>1. SafeInv => RawOfItsChannel
  BY DEF SafeInv, StoredInv
<1> QED
  BY <1>1, SafeInit, SafeStep, PTL DEF Spec

\* From the return of touch_init on touch_data subtracts the channel's own
\* baseline from the channel's own count, or from the initial one.
THEOREM DataOfTheirChannel == Spec => []DataOfItsChannel
<1>1. SafeInv => DataOfItsChannel
  <2> SUFFICES ASSUME SafeInv, pc = "run", NEW c \in enable_mask
               PROVE  touch_data(c) \in {<<c, c>>, <<NoCount, c>>}
    BY DEF DataOfItsChannel
  <2>1. c \in Channels /\ c > i
    BY ChannelsAssumption DEF SafeInv, ScanInv, TypeOK, Channels
  <2>2. base_counts[c] = c /\ raw_counts[c] \in {c, NoCount}
    BY <2>1 DEF SafeInv, StoredInv, RawOfItsChannel
  <2> QED BY <2>2 DEF touch_data
<1> QED
  BY <1>1, SafeInit, SafeStep, PTL DEF Spec

\* The sensor only ever measures enabled channels.
THEOREM EnabledOnly == Spec => []OnlyEnabled
<1>1. SafeInv => OnlyEnabled
  BY DEF SafeInv, ScanInv, OnlyEnabled, TypeOK
<1> QED
  BY <1>1, SafeInit, SafeStep, PTL DEF Spec

\* Between two results of an enabled channel the sensor measures every other one
\* at most once, whatever the mask: the handler's search goes round, and never
\* passes over an enabled channel.
THEOREM NoneWaitsLonger == Spec => []RoundRobin
<1>1. SafeInv /\ WaitInv => RoundRobin
  <2> SUFFICES ASSUME SafeInv, WaitInv, enable_mask # {}, NEW c \in Channels
               PROVE  waited[c] < Cardinality(enable_mask)
    BY DEF RoundRobin
  <2>1. enable_mask \in SUBSET Channels /\ waited[c] \in Nat
    BY DEF SafeInv, ScanInv, TypeOK
  <2>2. IsFiniteSet(enable_mask) /\ Cardinality(enable_mask) \in Nat
    BY <2>1, MaskFinite
  <2>3. CASE waited[c] = 0
    BY <2>2, <2>3, FS_EmptySet
  <2>4. CASE waited[c] # 0
    <3>1. pc = "run" /\ c \in enable_mask /\ tsich \in enable_mask
      BY <2>4 DEF WaitInv, SafeInv, ScanInv
    <3>2. waited[c] <= Cardinality(Behind(c))
      BY <3>1 DEF WaitInv
    <3>3. ~(Offset(c, tsich) < Offset(c, tsich))
      <4>1. tsich \in Int /\ c \in Int
        BY <2>1, <3>1, ChannelsAssumption DEF Channels
      <4>2. Offset(c, tsich) \in Int
        BY <4>1, ChannelsAssumption DEF Offset
      <4> QED BY <4>2
    <3>4. Behind(c) \subseteq enable_mask /\ Behind(c) # enable_mask
      BY <3>1, <3>3 DEF Behind
    <3>5. Cardinality(Behind(c)) < Cardinality(enable_mask)
          /\ Cardinality(Behind(c)) \in Nat
      BY <2>1, <2>2, <3>4, FS_Subset, FS_CardinalityType
    <3> QED BY <2>1, <2>2, <3>2, <3>5
  <2> QED BY <2>3, <2>4
<1> QED
  BY <1>1, SafeInit, SafeStep, WaitInit, WaitStep, PTL DEF Spec
=============================================================================
