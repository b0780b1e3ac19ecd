------------------------------ MODULE MCRings ------------------------------
(* What the firmware tells the host, and in which order: the TX status     *)
(* ring, the response ring, and the receive path with the answers to       *)
(* BlockAck requests.  The parts share no state, so only one of them moves *)
(* in a behaviour, and the others stay as they begin.                      *)
EXTENDS TxStatusRing

CONSTANTS
  CARL9170_INT_RQ_CACHES, Space, Lens, MaxMsgs,                     \* IntRing
  RxDescs, BackReqs, UintWrap, Kinds, Filters, MaxBars, MaxTicks, MaxArrived  \* RxPath

VARIABLES
  part,     \* the part that moves: "status", "int" or "rx"
  int_buf, int_head, int_tail, int_pending, available, inEnabled, building, rem, xfer,
  upload, posted, overflowed, int_host,
  free, rxq, upq, sent, rxOn, upOn, rxc, txc, intr, stage, rx_filter, ba_cache,
  ba_head_idx, ba_tail_idx, queued_ba, fw_desc, bars, queued_bar, total, overrun,
  mac_reset, ticks, arrived, asked, misread, answers, late, dropped

Rsp == INSTANCE IntRing WITH
         head <- int_head, tail <- int_tail, pending <- int_pending, host <- int_host
Rx == INSTANCE RxPath WITH MaxFrames <- MaxArrived

ASSUME IntAssumption == Rsp!Sizes

intVars == <<int_buf, int_head, int_tail, int_pending, available, inEnabled, building, rem,
             xfer, upload, posted, overflowed, int_host>>
rxVars == <<free, rxq, upq, sent, rxOn, upOn, rxc, txc, intr, stage, rx_filter, ba_cache,
            ba_head_idx, ba_tail_idx, queued_ba, fw_desc, bars, queued_bar, total, overrun,
            mac_reset, ticks, arrived, asked, misread, answers, late, dropped>>

(* A BlockAck request as short as it may be, a frame so short that its     *)
(* length wraps, and a broken frame, which the host may not want.          *)
Frame(type, err, length, mpdu) ==
  [type |-> type, err |-> err, total |-> length, mpdu |-> mpdu, compressed |-> TRUE, own |-> FALSE]
MCKinds ==
  { Frame("bar", {}, 38, "first"), Frame("bar", {}, 13, "first"),
    Frame("ctl", {"FCS"}, 54, "single") }
MCFilters == {{"BAD", "OTHER_RA"}}
-----------------------------------------------------------------------------
AllInit == part \in {"status", "int", "rx"} /\ Init /\ Rsp!Init /\ Rx!Init

StatusStep == part = "status" /\ Next /\ UNCHANGED <<part, intVars, rxVars>>
IntStep == part = "int" /\ Rsp!Next /\ UNCHANGED <<part, vars, rxVars>>
RxStep == part = "rx" /\ Rx!Next /\ UNCHANGED <<part, vars, intVars>>

AllNext == StatusStep \/ IntStep \/ RxStep

(* The fairness of the parts, each while it is the one that moves.         *)
StatusFair ==
  /\ WF_vars(part = "status" /\ (FillStatus \/ Splice \/ SpliceDone))
  /\ SF_vars(part = "status" /\ Janitor)
IntFair ==
  /\ WF_intVars(part = "int" /\ (Rsp!Dequeue \/ Rsp!StatusInDone))
  /\ WF_intVars(part = "int" /\ Rsp!StatusIn) /\ WF_intVars(part = "int" /\ Rsp!HandleUsb)
  /\ WF_intVars(part = "int" /\ Rsp!HostRead) /\ WF_intVars(part = "int" /\ Rsp!HandleUpload)
RxFair ==
  /\ WF_rxVars(part = "rx" /\ Rx!Firmware)
  /\ WF_rxVars(part = "rx" /\ Rx!Upload) /\ WF_rxVars(part = "rx" /\ Rx!BaSent)

AllSpec == AllInit /\ [][AllNext]_<<part, vars, intVars, rxVars>> /\ StatusFair /\ IntFair /\ RxFair
-----------------------------------------------------------------------------
(* The properties of the parts, as IntRing and RxPath state them.          *)
(* get_int_buf and dequeue_int_buf: messages reach the host in the order   *)
(* they were posted in, until the ring overflows.                          *)
InOrderUntilOverflow == Rsp!InOrderUntilOverflow

(* usb_status_in never writes into the response the hardware is sending.   *)
DescriptorExclusive == Rsp!DescriptorExclusive

(* Every completion wlan_tx_complete has stored is reported in the end.    *)
StatusReported == part = "status" => EventuallyReported

(* Every message reaches the host unless the ring ran over.                *)
MessagesRead == part = "int" => Rsp!EventuallyRead

(* handle_rx: when the air is quiet the MAC has all descriptors back, and  *)
(* every cached BlockAck request is answered.                              *)
AllReturn == part = "rx" => Rx!AllReturn
=============================================================================
