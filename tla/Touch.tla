-------------------------------- MODULE Touch --------------------------------
(* touch.c: the touch sensor.  touch_init measures a baseline of every enabled *)
(* channel, polling, and starts the first scan; from then on TSI0_IRQHandler   *)
(* saves each result and starts a scan of the next enabled channel.            *)
(*                                                                             *)
(* A measured count is represented by the channel it was measured on, so that  *)
(* a count stored for another channel shows.                                   *)
EXTENDS Integers, FiniteSets

CONSTANT NCHANNELS

ASSUME ChannelsAssumption == NCHANNELS \in Nat /\ NCHANNELS > 0

Channels == 0 .. NCHANNELS - 1

\* The content of a count nothing was stored in.
NoCount == NCHANNELS

Counts == Channels \cup {NoCount}

VARIABLES
  enable_mask,          \* the enabled channels
  raw_counts, base_counts,
  pc,                   \* the next step of touch_init; "run" after it
  i, first_channel,     \* its local variables
  tsich,                \* channel field of TSI0_DATA
  tsicnt,               \* count field of TSI0_DATA
  scanning,             \* the channel being measured, or NoCount
  eosf,                 \* end-of-scan flag
  pending, enabled,     \* the interrupt in the NVIC
  waited                \* history: results saved since each channel's last one

counts == <<raw_counts, base_counts>>
local == <<enable_mask, pc, i, first_channel>>
nvic == <<pending, enabled>>
vars == <<local, counts, tsich, tsicnt, scanning, eosf, nvic, waited>>

-----------------------------------------------------------------------------
(* The operations of the driver on the sensor.                               *)

\* A scan that is started while another one runs does not replace it: the
\* result will be of the old channel under the new channel's number.
scan_start(channel) ==
  /\ tsich' = channel
  /\ scanning' = IF scanning = NoCount THEN channel ELSE scanning

\* Clears the flag and returns the count.
scan_data(count) == eosf' = FALSE /\ count = tsicnt

\* What touch_data subtracts: the last count and the baseline.
touch_data(channel) == <<raw_counts[channel], base_counts[channel]>>

\* Mutant: the search starts over at channel 0.
BugLowest(channel) == CHOOSE c \in enable_mask : \A d \in enable_mask : c <= d

\* The first enabled channel after this one, going round.
NextEnabled(channel) ==
  CHOOSE c \in enable_mask :
    \A d \in enable_mask :
      (c - channel - 1) % NCHANNELS <= (d - channel - 1) % NCHANNELS

-----------------------------------------------------------------------------
(* touch_init.                                                               *)

CallInit ==
  /\ pc = "call"
  /\ \E channel_mask \in SUBSET Channels :
       channel_mask # {} /\ enable_mask' = channel_mask
  /\ pc' = "baseline" /\ i' = NCHANNELS - 1 /\ first_channel' = 0
  /\ UNCHANGED <<counts, tsich, tsicnt, scanning, eosf, nvic, waited>>

\* Mutant: the loop counts on below 0.
BugNoEnd ==
  /\ pc = "baseline" /\ i \notin enable_mask
  /\ i' = i - 1
  /\ UNCHANGED <<enable_mask, pc, first_channel, counts, tsich, tsicnt, scanning,
                 eosf, nvic, waited>>

BaselineSkip ==
  /\ pc = "baseline" /\ i >= 0 /\ i \notin enable_mask
  /\ i' = i - 1
  /\ UNCHANGED <<enable_mask, pc, first_channel, counts, tsich, tsicnt, scanning,
                 eosf, nvic, waited>>

BaselineStart ==
  /\ pc = "baseline" /\ i \in enable_mask
  /\ scan_start(i)
  /\ pc' = "poll"
  /\ UNCHANGED <<enable_mask, i, first_channel, counts, tsicnt, eosf, nvic, waited>>

\* Mutant: the count is read without waiting for the end of the scan.
BugNoPoll ==
  /\ pc = "poll"
  /\ \E count \in Counts : /\ scan_data(count)
                           /\ base_counts' = [base_counts EXCEPT ![i] = count]
  /\ first_channel' = i
  /\ pc' = "baseline" /\ i' = i - 1
  /\ UNCHANGED <<enable_mask, raw_counts, tsich, tsicnt, scanning, nvic, waited>>

BaselineDone ==
  /\ pc = "poll" /\ eosf
  /\ \E count \in Counts : /\ scan_data(count)
                           /\ base_counts' = [base_counts EXCEPT ![i] = count]
  /\ first_channel' = i
  /\ pc' = "baseline" /\ i' = i - 1
  /\ UNCHANGED <<enable_mask, raw_counts, tsich, tsicnt, scanning, nvic, waited>>

\* Mutant: the pending interrupt is not cleared.
BugKeepPending ==
  /\ pc = "baseline" /\ i < 0
  /\ enabled' = TRUE
  /\ pc' = "start"
  /\ UNCHANGED <<enable_mask, i, first_channel, counts, tsich, tsicnt, scanning,
                 eosf, pending, waited>>

\* The polled scans have left the interrupt pending: enable_irq clears it.
enable_irq ==
  /\ pc = "baseline" /\ i < 0
  /\ pending' = FALSE /\ enabled' = TRUE
  /\ pc' = "start"
  /\ UNCHANGED <<enable_mask, i, first_channel, counts, tsich, tsicnt, scanning,
                 eosf, waited>>

\* Mutant: no scan is started.
BugNoFirstScan ==
  /\ pc = "start" /\ ~(pending /\ enabled)
  /\ pc' = "run"
  /\ UNCHANGED <<enable_mask, i, first_channel, counts, tsich, tsicnt, scanning,
                 eosf, nvic, waited>>

StartFirst ==
  /\ pc = "start" /\ ~(pending /\ enabled)
  /\ scan_start(first_channel)
  /\ pc' = "run"
  /\ UNCHANGED <<enable_mask, i, first_channel, counts, tsicnt, eosf, nvic, waited>>

-----------------------------------------------------------------------------
(* The sensor and the interrupt.                                             *)

ScanDone ==
  /\ scanning # NoCount
  /\ tsicnt' = scanning /\ scanning' = NoCount
  /\ eosf' = TRUE /\ pending' = TRUE
  /\ UNCHANGED <<local, counts, tsich, enabled, waited>>

Save(channel) ==
  /\ \E count \in Counts : /\ scan_data(count)
                           /\ raw_counts' = [raw_counts EXCEPT ![channel] = count]
  /\ waited' = [c \in Channels |-> IF c = channel \/ c \notin enable_mask THEN 0
                                   ELSE waited[c] + 1]

TSI0_IRQHandler ==
  /\ pending /\ enabled
  /\ pending' = FALSE
  /\ Save(tsich)
  /\ scan_start(NextEnabled(tsich))
  /\ UNCHANGED <<local, base_counts, tsicnt, enabled>>

-----------------------------------------------------------------------------
Init ==
  /\ enable_mask = {} /\ pc = "call" /\ i = 0 /\ first_channel = 0
  /\ raw_counts = [c \in Channels |-> NoCount]
  /\ base_counts = [c \in Channels |-> NoCount]
  /\ tsich = 0 /\ tsicnt = NoCount /\ scanning = NoCount /\ eosf = FALSE
  /\ pending = FALSE /\ enabled = FALSE
  /\ waited = [c \in Channels |-> 0]

touch_init == \/ CallInit \/ BaselineSkip \/ BaselineStart \/ BaselineDone
              \/ enable_irq \/ StartFirst

Next == touch_init \/ ScanDone \/ TSI0_IRQHandler

Spec == Init /\ [][Next]_vars

\* The processor runs touch_init and takes the interrupt; a scan ends.
Fairness == WF_vars(touch_init) /\ WF_vars(ScanDone) /\ WF_vars(TSI0_IRQHandler)

FairSpec == Spec /\ Fairness

-----------------------------------------------------------------------------
TypeOK ==
  /\ enable_mask \subseteq Channels
  /\ raw_counts \in [Channels -> Counts] /\ base_counts \in [Channels -> Counts]
  /\ pc \in {"call", "baseline", "poll", "start", "run"}
  /\ i \in -1 .. NCHANNELS - 1 /\ first_channel \in Channels
  /\ tsich \in Channels /\ tsicnt \in Counts /\ scanning \in Counts
  /\ eosf \in BOOLEAN /\ pending \in BOOLEAN /\ enabled \in BOOLEAN
  /\ waited \in [Channels -> Nat]

\* Every count the handler saves for a channel was measured on that channel:
\* the interrupt the polled scans leave pending does not start a scan that
\* touch_init then starts over.
RawOfItsChannel ==
  \A c \in Channels : raw_counts[c] \in {c, NoCount}

\* From the moment touch_init returns, touch_data of an enabled channel subtracts
\* that channel's baseline, from that channel's count or from the initial one.
DataOfItsChannel ==
  pc = "run" => \A c \in enable_mask : touch_data(c) \in {<<c, c>>, <<NoCount, c>>}

\* Between two results of an enabled channel every other enabled channel is
\* measured once: none waits for more than one round.
RoundRobin ==
  \A c \in Channels : waited[c] < Cardinality(enable_mask) \/ enable_mask = {}

\* Only enabled channels are measured: the handler passes over the others.
OnlyEnabled == scanning # NoCount => scanning \in enable_mask

\* Scanning never stops: every enabled channel is measured again and again.
EveryChannelScanned ==
  \A c \in Channels : []<>(c \in enable_mask => scanning = c)
=============================================================================
