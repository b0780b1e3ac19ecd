---------------------------- MODULE TxStatusRing ----------------------------
(***************************************************************************)
(* The ring in which the carl9170 firmware collects transmission statuses  *)
(* before it reports them to the host (carlfw/src/wlan.c: wlan_tx_complete *)
(* wlan_get_tx_status_buffer, wlan_send_buffered_tx_status).               *)
(*                                                                         *)
(* A status is named by the number of the frame whose completion it        *)
(* reports: the first call of wlan_tx_complete stores 1, the second 2, ... *)
(* The loop of wlan_send_buffered_tx_status is one action per iteration.   *)
(***************************************************************************)
EXTENDS Naturals, Sequences, RingIndex

CONSTANTS
  CARL9170_TX_STATUS_NUM,      \* slots of tx_status_cache
  CARL9170_RSP_TX_STATUS_NUM,  \* statuses one TXCOMP response can carry
  MaxFrames                    \* bound: frames completed in a behaviour

ASSUME RingAssumption ==
  /\ CARL9170_TX_STATUS_NUM \in Nat \ {0}
  /\ CARL9170_RSP_TX_STATUS_NUM \in Nat \ {0}
  /\ MaxFrames \in Nat

VARIABLES
  cache,      \* fw.wlan.tx_status_cache
  head,       \* fw.wlan.tx_status_head_idx
  tail,       \* fw.wlan.tx_status_tail_idx
  pending,    \* fw.wlan.tx_status_pending
  pc,         \* which function runs: see Pc
  slot,       \* the slot wlan_get_tx_status_buffer hands to its caller
  completed,  \* history: statuses stored so far
  host        \* history: statuses handed to send_cmd_to_host, in order

vars == <<cache, head, tail, pending, pc, slot, completed, host>>

Slots == 0 .. CARL9170_TX_STATUS_NUM - 1
Frames == 0 .. MaxFrames           \* 0: a slot nothing was stored in yet

(* "full": wlan_get_tx_status_buffer flushes a full ring; "fill": its      *)
(* caller writes the slot; "janitor": wlan_janitor flushes; else "idle".   *)
Pc == {"idle", "full", "fill", "janitor"}

(* %= CARL9170_TX_STATUS_NUM                                               *)
Slot(i) == Wrapped(i, CARL9170_TX_STATUS_NUM)

SmallerOf(a, b) == IF a <= b THEN a ELSE b

Init ==
  /\ cache = [i \in Slots |-> 0]
  /\ head = 0
  /\ tail = 0
  /\ pending = 0
  /\ pc = "idle"
  /\ slot = 0
  /\ completed = 0
  /\ host = <<>>

(* Slip: the full ring is not flushed.                                     *)
GetTxStatusBufferNoFlush ==
  /\ pc = "idle"
  /\ completed < MaxFrames
  /\ slot' = tail
  /\ tail' = Slot(tail + 1)
  /\ pc' = "fill"
  /\ pending' = SmallerOf(pending + 1, CARL9170_TX_STATUS_NUM)
  /\ UNCHANGED <<cache, head, completed, host>>

(* wlan_tx_complete asks for a slot.  A full ring is flushed before the    *)
(* caller may overwrite the slot the tail pointed at.                      *)
GetTxStatusBuffer ==
  /\ pc = "idle"
  /\ completed < MaxFrames
  /\ slot' = tail
  /\ tail' = Slot(tail + 1)
  /\ IF pending = CARL9170_TX_STATUS_NUM
     THEN pc' = "full" /\ UNCHANGED pending
     ELSE pc' = "fill" /\ pending' = pending + 1
  /\ UNCHANGED <<cache, head, completed, host>>

(* wlan_tx_complete writes the status into the slot it was given.          *)
FillStatus ==
  /\ pc = "fill"
  /\ cache' = [cache EXCEPT ![slot] = completed + 1]
  /\ completed' = completed + 1
  /\ pc' = "idle"
  /\ UNCHANGED <<head, tail, pending, slot, host>>

(* Slip: a partly filled response waits for more statuses.                 *)
JanitorBatches ==
  /\ pc = "idle"
  /\ pending >= CARL9170_RSP_TX_STATUS_NUM
  /\ pc' = "janitor"
  /\ UNCHANGED <<cache, head, tail, pending, slot, completed, host>>

(* handle_wlan ends in wlan_janitor.                                       *)
Janitor ==
  /\ pc = "idle"
  /\ pending > 0
  /\ pc' = "janitor"
  /\ UNCHANGED <<cache, head, tail, pending, slot, completed, host>>

(* How many statuses one response takes: what is pending, what fits, and   *)
(* nothing beyond the edge of the array.                                   *)
SpliceLen ==
  SmallerOf(SmallerOf(pending, CARL9170_RSP_TX_STATUS_NUM),
            CARL9170_TX_STATUS_NUM - head)

Splice ==
  /\ pc \in {"full", "janitor"}
  /\ pending > 0
  /\ host' = host \o [i \in 1 .. SpliceLen |-> cache[head + i - 1]]
  /\ pending' = pending - SpliceLen
  /\ head' = Slot(head + SpliceLen)
  /\ UNCHANGED <<cache, tail, pc, slot, completed>>

SpliceDone ==
  /\ pc \in {"full", "janitor"}
  /\ pending = 0
  /\ IF pc = "full"
     THEN pc' = "fill" /\ pending' = pending + 1
     ELSE pc' = "idle" /\ UNCHANGED pending
  /\ UNCHANGED <<cache, head, tail, slot, completed, host>>

Next == GetTxStatusBuffer \/ FillStatus \/ Janitor \/ Splice \/ SpliceDone

(* The firmware is one loop that always runs on; handle_wlan is called in  *)
(* every round of it (carlfw/src/main.c main_loop), so the janitor comes.  *)
Fairness ==
  /\ WF_vars(FillStatus \/ Splice \/ SpliceDone)
  /\ SF_vars(Janitor)

Spec == Init /\ [][Next]_vars
FairSpec == Spec /\ Fairness
-----------------------------------------------------------------------------
(* Types; head, tail and the number of pending statuses stay in the ring.  *)
TypeOK ==
  /\ cache \in [Slots -> Frames]
  /\ head \in Slots
  /\ tail \in Slots
  /\ pending \in 0 .. CARL9170_TX_STATUS_NUM
  /\ pc \in Pc
  /\ slot \in Slots
  /\ completed \in Frames
  /\ host \in Seq(Frames)
  /\ pc \in {"full", "fill"} => completed < MaxFrames

(* The host is told of every completion once and in the order in which the *)
(* frames completed: no status is overwritten before it was reported, sent *)
(* twice, or sent from a slot that has not been filled yet                 *)
(* (wlan_get_tx_status_buffer, wlan_send_buffered_tx_status).              *)
HostInOrder == \A i \in 1 .. Len(host) : host[i] = i

Filled == pending - (IF pc = "fill" THEN 1 ELSE 0)

(* What the three indices promise about the ring: the pending slots follow *)
(* head, carry the next completions in order, and tail is the slot after   *)
(* them (the slot handed out, while wlan_tx_complete has not filled it).   *)
RingInv ==
  /\ completed = Len(host) + Filled
  /\ \A i \in 0 .. Filled - 1 :
       cache[Slot(head + i)] = Len(host) + i + 1
  /\ pc \in {"idle", "janitor", "fill"} =>
       tail = Slot(head + pending)
  /\ pc = "fill" =>
       pending > 0 /\ slot = Slot(head + pending - 1)
  /\ pc = "full" =>
       /\ slot = Slot(head + pending)
       /\ tail = Slot(slot + 1)

(* A completion is eventually reported: statuses do not stay in the ring   *)
(* (wlan_janitor flushes it in every round of the main loop).              *)
EventuallyReported ==
  \A n \in 1 .. MaxFrames : (completed >= n) ~> (Len(host) >= n)
=============================================================================
