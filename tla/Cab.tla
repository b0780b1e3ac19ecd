-------------------------------- MODULE Cab --------------------------------
(***************************************************************************)
(* Content after beacon in the carl9170 firmware (carlfw/src/wlan.c,       *)
(* carlfw/src/cmd.c): the broadcast frames of an access point wait in      *)
(* cab_queue until a DTIM beacon has announced them, and are then sent in  *)
(* one batch, a little after the beacon.  One virtual interface; its       *)
(* frames share the transmit queue, which sends in order (TxPath).         *)
(*                                                                         *)
(* The clock is abstracted to "elapsed": whether is_after_msecs holds for  *)
(* cab_flush_time.  The loop of wlan_cab_flush_queue is one action per     *)
(* frame.                                                                  *)
(***************************************************************************)
EXTENDS Naturals, Sequences

CONSTANT MaxFrames  \* bound: broadcast frames from the host in a behaviour

ASSUME CabAssumption == MaxFrames \in Nat

VARIABLES
  cab_queue,     \* fw.wlan.cab_queue
  cab_queue_len, \* fw.wlan.cab_queue_len
  trigger,       \* fw.wlan.cab_flush_trigger
  elapsed,       \* is_after_msecs(fw.wlan.cab_flush_time, CARL9170_TBTT_DELTA)
  bitmap_ctrl,   \* the multicast bit in the beacon's TIM
  tx_queue,      \* the CAB frames handed to the MAC, with their MOREDATA flags
  flushing,      \* who runs wlan_cab_flush_queue: "none", "janitor" or "host"
  queued,        \* history: frames the host has sent
  dtim,          \* history: a DTIM beacon was made since the last batch
  commanded,     \* history: the host flushed, and its frames or its beacon remain
  batch          \* history: the last frame flushed, and whether more was promised

vars == <<cab_queue, cab_queue_len, trigger, elapsed, bitmap_ctrl, tx_queue,
          flushing, queued, dtim, commanded, batch>>

EMPTY == 0
ARMED == 1
DEFER == 2

Init ==
  /\ cab_queue = <<>>
  /\ cab_queue_len = 0
  /\ trigger = EMPTY
  /\ elapsed \in BOOLEAN
  /\ bitmap_ctrl = 0
  /\ tx_queue = <<>>
  /\ flushing = "none"
  /\ queued = 0
  /\ dtim = FALSE
  /\ commanded = FALSE
  /\ batch = [last |-> 0, more |-> FALSE]

(* wlan_tx of a frame for the CAB queue.                                   *)
Queue ==
  /\ flushing = "none"
  /\ queued < MaxFrames
  /\ queued' = queued + 1
  /\ cab_queue' = Append(cab_queue, queued + 1)
  /\ cab_queue_len' = cab_queue_len + 1
  /\ UNCHANGED <<trigger, elapsed, bitmap_ctrl, tx_queue, flushing, dtim, commanded, batch>>

(* Slip: the interface has nothing left when its queue is empty, although  *)
(* frames are with the MAC.                                                *)
NothingLeftInQueue == cab_queue = <<>>
(* Nothing of the interface is waiting or with the MAC.                    *)
NothingLeft == cab_queue_len = 0

(* Slip: an interface that was deferred is not armed again.                *)
ArmsEmptyOnly(isDtim) == isDtim /\ cab_queue # <<>> /\ trigger = EMPTY
(* "schedule DTIM transfer"                                                *)
Arms(isDtim) == isDtim /\ cab_queue # <<>>

(* CARL9170_CMD_BCN_CTRL with CAB_TRIGGER: wlan_modify_beacon, for a       *)
(* beacon that is a DTIM or not, and in which the host has cleared the bit *)
(* (fresh) or not.                                                         *)
ModifyBeacon(isDtim, fresh) ==
  LET bit == IF fresh THEN 0 ELSE bitmap_ctrl
      undo == ~Arms(isDtim) /\ NothingLeft /\ trigger # EMPTY
  IN  /\ flushing = "none"
      /\ trigger' = IF Arms(isDtim) THEN ARMED ELSE IF undo THEN EMPTY ELSE trigger
      /\ bitmap_ctrl' = IF trigger' # EMPTY THEN 1 ELSE IF undo THEN 0 ELSE bit
      /\ dtim' = (dtim \/ isDtim)
      /\ commanded' = (commanded /\ ~(fresh /\ tx_queue = <<>>))
      /\ UNCHANGED <<cab_queue, cab_queue_len, elapsed, tx_queue, flushing, queued, batch>>

(* handle_pretbtt takes the time.                                          *)
Pretbtt ==
  /\ flushing = "none"
  /\ elapsed' = FALSE
  /\ UNCHANGED <<cab_queue, cab_queue_len, trigger, bitmap_ctrl, tx_queue,
                 flushing, queued, dtim, commanded, batch>>

(* The clock: CARL9170_TBTT_DELTA passes, or the clock counter wraps.      *)
Clock ==
  /\ elapsed' = ~elapsed
  /\ UNCHANGED <<cab_queue, cab_queue_len, trigger, bitmap_ctrl, tx_queue,
                 flushing, queued, dtim, commanded, batch>>

(* wlan_send_buffered_cab in wlan_janitor.                                 *)
SendBufferedCab ==
  /\ flushing = "none"
  /\ trigger = ARMED
  /\ elapsed
  /\ flushing' = "janitor"
  /\ UNCHANGED <<cab_queue, cab_queue_len, trigger, elapsed, bitmap_ctrl,
                 tx_queue, queued, dtim, commanded, batch>>

(* CARL9170_CMD_BCN_CTRL without CAB_TRIGGER.                              *)
FlushCommand ==
  /\ flushing = "none"
  /\ flushing' = "host"
  /\ commanded' = TRUE
  /\ UNCHANGED <<cab_queue, cab_queue_len, trigger, elapsed, bitmap_ctrl,
                 tx_queue, queued, dtim, batch>>

(* Slip: the test comes before the frame is unlinked.                      *)
MoreDataBefore == cab_queue # <<>>
(* MOREDATA for all but the last frame.                                    *)
MoreData == Tail(cab_queue) # <<>>

(* One round of wlan_cab_flush_queue.                                      *)
FlushFrame ==
  /\ flushing # "none"
  /\ cab_queue # <<>>
  /\ cab_queue' = Tail(cab_queue)
  /\ tx_queue' = Append(tx_queue, [id |-> Head(cab_queue), more |-> MoreData])
  /\ batch' = [last |-> Head(cab_queue), more |-> MoreData]
  /\ UNCHANGED <<cab_queue_len, trigger, elapsed, bitmap_ctrl, flushing,
                 queued, dtim, commanded>>

(* Slip: the trigger remains armed.                                        *)
AfterFlushArmed == IF flushing = "janitor" THEN ARMED ELSE EMPTY
(* After the janitor's batch, new frames wait for the next DTIM beacon.    *)
AfterFlush == IF flushing = "janitor" THEN DEFER ELSE EMPTY

FlushEnd ==
  /\ flushing # "none"
  /\ cab_queue = <<>>
  /\ trigger' = AfterFlush
  /\ flushing' = "none"
  /\ dtim' = FALSE
  /\ UNCHANGED <<cab_queue, cab_queue_len, elapsed, bitmap_ctrl, tx_queue,
                 queued, commanded, batch>>

(* wlan_tx_status counts the frame down.                                   *)
TxStatusLen == cab_queue_len - 1

(* The MAC has sent the frame, and wlan_tx_status frees it.                *)
TxStatus ==
  /\ flushing = "none"
  /\ tx_queue # <<>>
  /\ tx_queue' = Tail(tx_queue)
  /\ cab_queue_len' = TxStatusLen
  /\ UNCHANGED <<cab_queue, trigger, elapsed, bitmap_ctrl, flushing, queued,
                 dtim, commanded, batch>>

Next ==
  \/ Queue
  \/ \E isDtim, fresh \in BOOLEAN : ModifyBeacon(isDtim, fresh)
  \/ Pretbtt
  \/ Clock
  \/ SendBufferedCab
  \/ FlushCommand
  \/ FlushFrame
  \/ FlushEnd
  \/ TxStatus

(* The firmware never waits, the MAC sends, and an access point makes DTIM *)
(* beacons again and again, with more than CARL9170_TBTT_DELTA between     *)
(* their pretbtt interrupts.                                               *)
Fairness ==
  /\ WF_vars(FlushFrame \/ FlushEnd)
  /\ SF_vars(SendBufferedCab)
  /\ SF_vars(TxStatus)
  /\ SF_vars(\E fresh \in BOOLEAN : ModifyBeacon(TRUE, fresh))
  /\ WF_vars(~elapsed /\ Clock)

Spec == Init /\ [][Next]_vars
FairSpec == Spec /\ Fairness
-----------------------------------------------------------------------------
(* Types; the queue of cab frames is never longer than what was sent.      *)
TypeOK ==
  /\ cab_queue \in Seq(1 .. MaxFrames)
  /\ cab_queue_len \in 0 .. MaxFrames
  /\ trigger \in {EMPTY, ARMED, DEFER}
  /\ elapsed \in BOOLEAN
  /\ bitmap_ctrl \in {0, 1}
  /\ tx_queue \in Seq([id : 1 .. MaxFrames, more : BOOLEAN])
  /\ flushing \in {"none", "janitor", "host"}
  /\ queued \in 0 .. MaxFrames
  /\ dtim \in BOOLEAN
  /\ commanded \in BOOLEAN
  /\ batch \in [last : 0 .. MaxFrames, more : BOOLEAN]

(* "This prevents the code from sending new BC/MC frames which were queued *)
(* after the previous buffered traffic has been sent out... They will have *)
(* to wait until the next DTIM beacon comes along" (wlan.c:863-868): the   *)
(* janitor flushes only behind a DTIM beacon that was made after the batch *)
(* before, and whose multicast bit is set, so that the stations listen.    *)
AnnouncedFirst == flushing = "janitor" => dtim /\ bitmap_ctrl = 1

(* The multicast bit stays set while a batch is on its way, even when the  *)
(* queue is empty again, and the bit never stands without a trigger that   *)
(* will undo it (wlan.c:818-829), unless the host flushed the queue in     *)
(* between.                                                                *)
BitUndone ==
  ~commanded => /\ bitmap_ctrl = 1 => trigger # EMPTY
                /\ tx_queue # <<>> => bitmap_ctrl = 1

(* Stations listen on for as long as MOREDATA promises another frame, and  *)
(* sleep after one that does not (802.11 11.2.1.5 f, wlan.c:765-778): a    *)
(* promised frame comes, and it comes at once, however the frames of the   *)
(* host and the commands are interleaved with the batches.                 *)
PromiseKept ==
  /\ batch.more => /\ flushing # "none"
                   /\ cab_queue # <<>> /\ Head(cab_queue) = batch.last + 1
  /\ \A n \in 1 .. Len(tx_queue) - 1 :
       tx_queue[n].more => tx_queue[n + 1].id = tx_queue[n].id + 1

(* cab_queue_len counts the frames of the interface that wait or are with  *)
(* the MAC.                                                                *)
LenCounts == cab_queue_len = Len(cab_queue) + Len(tx_queue)

(* Every broadcast frame is sent: a deferred interface is armed again.     *)
EventuallySent ==
  \A id \in 1 .. MaxFrames : (queued >= id) ~> (queued - cab_queue_len >= id)
=============================================================================
