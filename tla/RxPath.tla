------------------------------- MODULE RxPath -------------------------------
(***************************************************************************)
(* The receive path of the firmware: handle_rx, wlan_rx_filter, the cache  *)
(* of BlockAck requests and the overrun check of carlfw/src/wlan.c, and    *)
(* handle_upload of hostif.c.  A frame is in a descriptor that the MAC has *)
(* filled (rxq), that is on its way to the host (upq) or that is empty     *)
(* (free).  The MAC and the USB DMA run between the steps of main_loop.    *)
(***************************************************************************)
EXTENDS Integers, Sequences, FiniteSets

CONSTANTS
  RxDescs,     \* descriptors of the receive queue
  BackReqs,    \* CONFIG_CARL9170FW_BACK_REQS_NUM
  UintWrap,    \* where an unsigned int wraps (the code: 2 ^ 32)
  Kinds,       \* frames on the air: see IsKind
  Filters,     \* values of fw.wlan.rx_filter the host sets
  MaxFrames,   \* bound: frames received
  MaxBars,     \* bound: BARs the host sends
  MaxTicks     \* bound: rounds of wlan_timer

(* err are the error bits of the MAC status, total and mpdu the length in  *)
(* the descriptor and the place of the frame in its aggregate; compressed: *)
(* a compressed BAR for one TID; own: a BlockAck for a BAR of the host.  Of *)
(* a frame shorter than what the MAC adds, type and compressed are what    *)
(* is in the buffer where they would be: what an earlier frame left there. *)
IsKind(k) ==
  /\ k.type \in {"data", "mgmt", "bar", "pspoll", "ba", "ctl"}
  /\ k.err \subseteq {"FCS", "PLCP", "WRONG_RA", "DECRYPT", "OTHER"}
  /\ k.total \in Nat /\ k.mpdu \in {"single", "first", "middle", "last"}
  /\ k.compressed \in BOOLEAN /\ k.own \in BOOLEAN
  /\ k.own => k.type = "ba"

FrameLen == 8192    \* CONFIG_CARL9170FW_RX_FRAME_LEN

(* What the proofs about this module assume.                               *)
Sizes ==
  /\ RxDescs \in Nat /\ BackReqs \in Nat \ {0}
  /\ MaxFrames \in Nat /\ MaxBars \in Nat /\ MaxTicks \in Nat
  /\ UintWrap \in Nat /\ UintWrap > 2 * FrameLen
  /\ \A k \in Kinds : IsKind(k)

Bars == 1 .. MaxBars
Slots == 0 .. BackReqs - 1
None == 0

VARIABLES
  free, rxq, upq,   \* the descriptors: empty, filled, in fw.pta.up_queue
  sent,             \* how many of upq the USB DMA is done with
  rxOn, upOn,       \* the two DMA engines run
  rxc, txc,         \* pending interrupts of the MAC
  intr,             \* the local variable of handle_wlan
  stage,            \* where main_loop is
  rx_filter,        \* fw.wlan.rx_filter
  ba_cache,         \* fw.wlan.ba_cache: the number of the BAR's frame
  ba_head_idx, ba_tail_idx, queued_ba,
  fw_desc,          \* "available", "queued" or "done"
  bars,             \* the BARs of the host: "none", "queued", "air", "done", "reported"
  queued_bar,       \* fw.wlan.queued_bar
  total, overrun,   \* AR9170_MAC_REG_RX_TOTAL and _OVERRUN, cleared when read
  mac_reset,        \* fw.wlan.mac_reset
  ticks,            \* calls of wlan_check_rx_overrun
  arrived,          \* history: frames on the air
  asked,            \* history: the frames that have to be answered, and misread
  misread,          \* history: the short frames that left an earlier BAR in the buffer
  answers,          \* history: the BARs that were answered
  late,             \* history: the cache has overflowed
  dropped           \* history: the frames handle_rx reclaimed

desc == <<free, rxq, upq, sent>>
cache == <<ba_cache, ba_head_idx, ba_tail_idx, queued_ba>>
own == <<bars, queued_bar>>
tally == <<total, overrun, mac_reset, ticks>>
hist == <<asked, misread, answers, late, dropped>>
vars == <<desc, rxOn, upOn, rxc, txc, intr, stage, rx_filter, cache, fw_desc, own, tally,
          arrived, hist>>

Init ==
  /\ free = RxDescs /\ rxq = <<>> /\ upq = <<>> /\ sent = 0
  /\ rxOn = TRUE /\ upOn = FALSE
  /\ rxc = FALSE /\ txc = FALSE /\ intr = [rxc |-> FALSE, txc |-> FALSE]
  /\ stage = "wlan" /\ rx_filter = {}
  /\ ba_cache = [i \in Slots |-> None]
  /\ ba_head_idx = 0 /\ ba_tail_idx = 0 /\ queued_ba = 0 /\ fw_desc = "available"
  /\ bars = [b \in Bars |-> "none"] /\ queued_bar = 0
  /\ total = 0 /\ overrun = 0 /\ mac_reset = 0 /\ ticks = 0
  /\ arrived = 0 /\ asked = <<>> /\ answers = <<>> /\ late = FALSE
  /\ dropped = {} /\ misread = {}
-----------------------------------------------------------------------------
(* The hardware.  A frame goes into an empty descriptor, if there is one   *)
(* and the engine runs; the engine stops at a descriptor that is not its.  *)
(* noticed: handle_wlan saw the frame's interrupt before the report of the *)
(* BAR it answers.                                                         *)
Frame(k, b) == [n |-> arrived + 1, kind |-> k, bar |-> b,
                queued |-> queued_bar > 0, noticed |-> FALSE]

Receive(k, b) ==
  /\ arrived < MaxFrames
  /\ IF k.own THEN b \in Bars /\ bars[b] \in {"air", "done", "reported"} ELSE b = None
  /\ arrived' = arrived + 1 /\ total' = total + 1
  /\ IF rxOn /\ free > 0
     THEN /\ free' = free - 1 /\ rxq' = Append(rxq, Frame(k, b))
          /\ rxc' = TRUE /\ rxOn' = (free > 1)
          /\ UNCHANGED overrun
     ELSE overrun' = overrun + 1 /\ UNCHANGED <<free, rxq, rxc, rxOn>>
  /\ UNCHANGED <<upq, sent, upOn, txc, intr, stage, rx_filter, cache, fw_desc, own,
                 mac_reset, ticks, hist>>

Upload ==
  /\ upOn /\ sent < Len(upq)
  /\ sent' = sent + 1 /\ upOn' = (sent' < Len(upq))
  /\ UNCHANGED <<free, rxq, upq, rxOn, rxc, txc, intr, stage, rx_filter, cache, fw_desc,
                 own, tally, arrived, hist>>

(* A BAR of the host, or the BlockAck of the firmware, is sent.            *)
Air(b) ==
  /\ bars[b] = "queued" /\ bars' = [bars EXCEPT ![b] = "air"]
  /\ UNCHANGED <<desc, rxOn, upOn, rxc, txc, intr, stage, rx_filter, cache, fw_desc,
                 queued_bar, tally, arrived, hist>>

BarSent(b) ==
  /\ bars[b] = "air" /\ bars' = [bars EXCEPT ![b] = "done"]
  /\ txc' = TRUE
  /\ UNCHANGED <<desc, rxOn, upOn, rxc, intr, stage, rx_filter, cache, fw_desc,
                 queued_bar, tally, arrived, hist>>

BaSent ==
  /\ fw_desc = "queued" /\ fw_desc' = "done"
  /\ txc' = TRUE
  /\ UNCHANGED <<desc, rxOn, upOn, rxc, intr, stage, rx_filter, cache, own, tally,
                 arrived, hist>>

Hardware ==
  \/ \E k \in Kinds, b \in Bars \cup {None} : Receive(k, b)
  \/ Upload \/ BaSent
  \/ \E b \in Bars : Air(b) \/ BarSent(b)
-----------------------------------------------------------------------------
(* ar9170_get_rx_mpdu_len: the length without what the MAC adds, unsigned. *)
MacStatus == 2
PhyStatus == 20
RxHead == 12
FcsLen == 4
BarLen == 20

Overhead(mpdu) ==
  MacStatus + (CASE mpdu = "last" -> PhyStatus
                 [] mpdu = "single" -> PhyStatus + RxHead
                 [] mpdu = "first" -> RxHead
                 [] mpdu = "middle" -> 0)

TooShort(k) == k.total < Overhead(k.mpdu)

\* Slip: the length is signed.
MpduLenSigned(k) == k.total - Overhead(k.mpdu)

MpduLen(k) == k.total - Overhead(k.mpdu) + (IF TooShort(k) THEN UintWrap ELSE 0)

Damaged(k) ==
  \/ MpduLen(k) < 4 + 6 + FcsLen
  \/ k.total > FrameLen
  \/ k.err \cap {"FCS", "PLCP"} # {}

(* For the history: a BAR the firmware has to answer, and a frame that     *)
(* looks like one where it ends before it begins.                          *)
Intact(k) ==
  /\ k.type = "bar" /\ k.err = {} /\ k.compressed
  /\ k.total \in BarLen + FcsLen + Overhead(k.mpdu) .. FrameLen
Leftover(k) == k.type = "bar" /\ k.err = {} /\ k.compressed /\ TooShort(k)

(* handle_bar remembers a BAR that came without any error, for us, and is  *)
(* of the one form it implements.                                          *)
BarAccepted(k) == k.err = {} /\ MpduLen(k) >= BarLen + FcsLen /\ k.compressed

(* wlan_get_bar_cache_buffer and the copy into the slot it returns: when   *)
(* the cache is full the oldest is overwritten, and the head stays.        *)
Queued == IF queued_ba < BackReqs THEN queued_ba + 1 ELSE queued_ba

CacheBar(n) ==
  /\ ba_cache' = [ba_cache EXCEPT ![ba_tail_idx] = n]
  /\ ba_tail_idx' = (ba_tail_idx + 1) % BackReqs
  /\ queued_ba' = Queued
  /\ late' = (late \/ queued_ba = BackReqs)
  /\ UNCHANGED ba_head_idx

(* wlan_rx_filter: the classes a frame is in.  BlockAcks are not filtered  *)
(* while BARs of the host are queued.                                      *)
\* Slip: the BARs of the host do not matter.
TypeFlagAlways(type) == IF type = "ba" THEN {"CTL_OTHER"} ELSE {}

TypeFlag(type) ==
  CASE type = "data" -> {"DATA"}
    [] type = "mgmt" -> {"MGMT"}
    [] type = "bar" -> {"CTL_BACKR"}
    [] type = "pspoll" -> {"CTL_PSPOLL"}
    [] type = "ba" -> IF queued_bar > 0 THEN {} ELSE {"CTL_OTHER"}
    [] type = "ctl" -> {"CTL_OTHER"}

RxFilter(k) ==
  IF Damaged(k) THEN {"BAD"}
  ELSE {e \in {"OTHER_RA", "DECRY_FAIL"} :
          \/ e = "OTHER_RA" /\ "WRONG_RA" \in k.err
          \/ e = "DECRY_FAIL" /\ "DECRYPT" \in k.err} \cup TypeFlag(k.type)
-----------------------------------------------------------------------------
(* main_loop: handle_wlan, then handle_host_interface, then the rest.      *)
Go(from, to) == stage = from /\ stage' = to

(* handle_wlan takes the interrupts, and calls handle_rx before            *)
(* handle_tx_completion.                                                   *)
ReadIntr ==
  /\ Go("wlan", "rx")
  /\ intr' = [rxc |-> rxc, txc |-> txc] /\ rxc' = FALSE /\ txc' = FALSE
  /\ rxq' = [i \in DOMAIN rxq |->
               IF rxc /\ rxq[i].bar # None /\ bars[rxq[i].bar] \in {"air", "done"}
               THEN [rxq[i] EXCEPT !.noticed = TRUE] ELSE rxq[i]]
  /\ UNCHANGED <<free, upq, sent, rxOn, upOn, rx_filter, cache, fw_desc, own, tally,
                 arrived, hist>>

(* One round of the loop of handle_rx.                                     *)
\* Slip: the MAC is not told of the descriptor.
RetriggerNot == rxOn

Retrigger == TRUE    \* wlan_trigger(AR9170_DMA_TRIGGER_RXQ), behind a dma_reclaim

Reclaim == free + 1

HandleRx ==
  /\ stage = "rx" /\ intr.rxc /\ rxq # <<>>
  /\ LET f == Head(rxq)
         k == f.kind
     IN  /\ IF RxFilter(k) \cap rx_filter = {}
            THEN /\ upq' = Append(upq, f) /\ upOn' = TRUE
                 /\ UNCHANGED <<free, rxOn, dropped>>
            ELSE /\ free' = Reclaim /\ rxOn' = Retrigger
                 /\ dropped' = dropped \cup {f}
                 /\ UNCHANGED <<upq, upOn>>
         /\ IF k.type = "bar" /\ ~Damaged(k) /\ BarAccepted(k) THEN CacheBar(f.n)
            ELSE UNCHANGED <<cache, late>>
         /\ asked' = IF Intact(k) \/ Leftover(k) THEN Append(asked, f.n) ELSE asked
         /\ misread' = IF Leftover(k) THEN misread \cup {f.n} ELSE misread
  /\ rxq' = Tail(rxq)
  /\ UNCHANGED <<sent, rxc, txc, intr, stage, rx_filter, fw_desc, own, tally, arrived,
                 answers>>

RxEnd ==
  /\ ~(intr.rxc /\ rxq # <<>>)
  /\ Go("rx", "tx")
  /\ UNCHANGED <<desc, rxOn, upOn, rxc, txc, intr, rx_filter, cache, fw_desc, own, tally,
                 arrived, hist>>

(* handle_tx_completion, as far as it concerns BARs and fw_desc; TxPath    *)
(* has the rest.                                                           *)
TxDone ==
  /\ Go("tx", "janitor")
  /\ IF intr.txc
     THEN /\ bars' = [b \in Bars |-> IF bars[b] = "done" THEN "reported" ELSE bars[b]]
          /\ queued_bar' = queued_bar - Cardinality({b \in Bars : bars[b] = "done"})
          /\ fw_desc' = IF fw_desc = "done" THEN "available" ELSE fw_desc
     ELSE UNCHANGED <<own, fw_desc>>
  /\ UNCHANGED <<desc, rxOn, upOn, rxc, txc, intr, rx_filter, cache, tally, arrived, hist>>

(* wlan_send_buffered_ba and wlan_tx_fw.                                   *)
\* Slip: the head is not advanced.
NextHeadSame == ba_head_idx

NextHead == (ba_head_idx + 1) % BackReqs

Janitor ==
  /\ Go("janitor", "host")
  /\ IF queued_ba > 0 /\ fw_desc = "available"
     THEN /\ answers' = Append(answers, ba_cache[ba_head_idx])
          /\ ba_head_idx' = NextHead
          /\ queued_ba' = queued_ba - 1
          /\ fw_desc' = "queued"
     ELSE UNCHANGED <<answers, ba_head_idx, queued_ba, fw_desc>>
  /\ UNCHANGED <<desc, rxOn, upOn, rxc, txc, intr, rx_filter, ba_cache, ba_tail_idx, own,
                 tally, arrived, asked, misread, late, dropped>>

(* handle_upload reclaims what the host has.                               *)
HandleUpload ==
  /\ stage = "host" /\ sent > 0
  /\ upq' = Tail(upq) /\ sent' = sent - 1
  /\ free' = Reclaim /\ rxOn' = Retrigger
  /\ UNCHANGED <<rxq, upOn, rxc, txc, intr, stage, rx_filter, cache, fw_desc, own, tally,
                 arrived, hist>>

(* handle_download queues a BAR of the host.                               *)
HostBar(b) ==
  /\ stage = "host" /\ bars[b] = "none" /\ (b > 1 => bars[b - 1] # "none")
  /\ bars' = [bars EXCEPT ![b] = "queued"] /\ queued_bar' = queued_bar + 1
  /\ UNCHANGED <<desc, rxOn, upOn, rxc, txc, intr, stage, rx_filter, cache, fw_desc, tally,
                 arrived, hist>>

(* CARL9170_CMD_RX_FILTER, in handle_usb.                                  *)
SetFilter(s) ==
  /\ stage = "host" /\ rx_filter # s /\ rx_filter' = s
  /\ UNCHANGED <<desc, rxOn, upOn, rxc, txc, intr, stage, cache, fw_desc, own, tally,
                 arrived, hist>>

HostEnd ==
  /\ Go("host", "wlan") /\ sent = 0
  /\ UNCHANGED <<desc, rxOn, upOn, rxc, txc, intr, rx_filter, cache, fw_desc, own, tally,
                 arrived, hist>>

(* wlan_check_rx_overrun: when every frame was lost the MAC is reset.      *)
CheckOverrun ==
  /\ stage = "host" /\ ticks < MaxTicks /\ ticks' = ticks + 1
  /\ total' = 0 /\ overrun' = 0
  /\ IF overrun > 0
     THEN /\ mac_reset' = IF overrun = total THEN mac_reset + 1 ELSE mac_reset
          /\ rxOn' = Retrigger
     ELSE UNCHANGED <<mac_reset, rxOn>>
  /\ UNCHANGED <<desc, upOn, rxc, txc, intr, stage, rx_filter, cache, fw_desc, own,
                 arrived, hist>>

Firmware ==
  \/ ReadIntr \/ HandleRx \/ RxEnd \/ TxDone \/ Janitor \/ HandleUpload \/ HostEnd

Host ==
  \/ \E b \in Bars : HostBar(b)
  \/ \E s \in Filters : SetFilter(s)
  \/ CheckOverrun

Next == Hardware \/ Firmware \/ Host

Spec == Init /\ [][Next]_vars

(* main_loop runs, and the DMA engines and the MAC get their work done.    *)
Fairness ==
  /\ WF_vars(Firmware) /\ WF_vars(Upload) /\ WF_vars(BaSent)
  /\ \A b \in Bars : WF_vars(Air(b)) /\ WF_vars(BarSent(b))
-----------------------------------------------------------------------------
(* Types; queued_bar is the number of BARs between wlan_tx and their status, *)
(* and no more frames are overruns than there are frames.                  *)
TypeOK ==
  /\ free \in 0 .. RxDescs /\ sent \in 0 .. Len(upq)
  /\ rxOn \in BOOLEAN /\ upOn \in BOOLEAN /\ rxc \in BOOLEAN /\ txc \in BOOLEAN
  /\ intr \in [rxc : BOOLEAN, txc : BOOLEAN]
  /\ stage \in {"wlan", "rx", "tx", "janitor", "host"}
  /\ ba_cache \in [Slots -> 0 .. MaxFrames]
  /\ ba_head_idx \in Slots /\ ba_tail_idx \in Slots /\ queued_ba \in 0 .. BackReqs
  /\ fw_desc \in {"available", "queued", "done"}
  /\ bars \in [Bars -> {"none", "queued", "air", "done", "reported"}]
  /\ queued_bar = Cardinality({b \in Bars : bars[b] \in {"queued", "air", "done"}})
  /\ overrun <= total /\ total <= MaxFrames

(* A frame is with the MAC, with the USB DMA, or its descriptor is empty:  *)
(* whatever handle_rx decides, no descriptor of the receive queue is lost  *)
(* and none is handed out twice.                                           *)
DescsKept == free + Len(rxq) + Len(upq) = RxDescs

(* As long as the cache has not overflowed, the requests that came intact  *)
(* and for us are answered once and in the order they came in, and nothing *)
(* else but frames shorter than what the MAC adds (wl.h:182), whose length *)
(* wraps past every check and whose buffer still holds a request; those    *)
(* not yet answered are in the cache.                                      *)
AnsweredInOrder ==
  ~late => asked = answers \o [i \in 1 .. queued_ba |->
                                 ba_cache[(ba_head_idx + i - 1) % BackReqs]]

(* "Sneaky, corrupted BARs... but not with us!" (wlan.c:628)               *)
SneakyRefused == \A i \in DOMAIN answers : answers[i] \notin misread

(* A BlockAck whose interrupt handle_wlan took before it reported the BAR  *)
(* of the host reaches the host, unless it is damaged: handle_rx comes     *)
(* before handle_tx_completion counts queued_bar down.                     *)
NoticedBaReachesHost ==
  \A f \in dropped : ~(f.noticed /\ f.kind.err = {} /\ ~Damaged(f.kind))

(* An intact BlockAck that arrives while BARs of the host are queued       *)
(* reaches the host.                                                       *)
QueuedBaReachesHost ==
  \A f \in dropped : ~(f.queued /\ f.kind.own /\ f.kind.err = {} /\ ~Damaged(f.kind))

(* However the queue ran dry: when the air is quiet, all descriptors come  *)
(* back to a MAC that receives, and every cached request is answered.      *)
AllReturn == <>[](free = RxDescs /\ rxOn /\ queued_ba = 0)
=============================================================================
