------------------------------- MODULE HostTx -------------------------------
(***************************************************************************)
(* How carlu sends frames (tx.c, usb.c): the sender's thread reserves      *)
(* device memory, links the frame into tx_sent_queue and tx_queue and      *)
(* submits transfers; the event thread handles the completion of a         *)
(* transfer and the TX status of the firmware, which may come in either    *)
(* order.  A frame is on both lists by two list heads and is counted by    *)
(* ref.  Every critical section is one step.                               *)
(*                                                                         *)
(* The device is the environment.  It receives the transfers of one        *)
(* endpoint in order and reports the frames of one queue in order, under   *)
(* the cookie they carry.  All frames are of one queue (alloc_frame sets   *)
(* queue 2) and not in stream mode: the firmware's Kconfig names the       *)
(* option USB_DN_STREAM, its code USB_DOWN_STREAM.                         *)
(***************************************************************************)
EXTENDS Integers, Sequences, FiniteSets, SequencesExt, FiniteSetsExt

CONSTANTS
  Frames,     \* the buffers malloc hands out
  chunks,     \* device memory a frame takes
  DmaChunks,  \* ar->dma_chunks
  MaxUrbs,    \* AR9170_TX_MAX_ACTIVE_URBS
  Cookies,    \* cookies before the uint8_t wraps
  MayFail,    \* transfers may fail and memory may be short
  MaxLeaks    \* bound: failures that keep a slot of the transfer limit

VARIABLES
  ref,           \* frame->ref, 0 when freed
  cookie,        \* ar->cookie
  frame_cookie,  \* s.cookie of a frame
  used_dma_chunks, tx_pending,
  tx_sent_queue, tx_queue,
  tx_queue_len,
  urbs,          \* transfers not completed: frame, received by the device
  firmware,      \* frames the firmware has, by frame and cookie
  statuses,      \* TX statuses on their way to the host
  pc, cur,       \* the sender
  evpc, evframe, \* the event thread
  failed,        \* history: transfers nobody will report
  lost,          \* history: frames whose owner forgot them
  unowned,       \* history: a freed frame was freed or read again
  confused       \* history: a status found another frame, or none

sender == <<pc, cur>>
event == <<evpc, evframe>>
memory == <<used_dma_chunks, tx_pending>>
device == <<urbs, firmware, statuses>>
history == <<failed, lost, unowned, confused>>
vars == <<ref, cookie, frame_cookie, memory, tx_sent_queue, tx_queue, tx_queue_len,
          device, sender, event, history>>

(* What the constants are.                                                 *)
Sizes ==
  /\ IsFiniteSet(Frames) /\ chunks \in [Frames -> Nat] /\ DmaChunks \in Nat \ {0}
  /\ MaxUrbs \in Nat /\ Cookies \in Nat \ {0} /\ MayFail \in BOOLEAN /\ MaxLeaks \in Nat

None == "none"

Init ==
  /\ ref = [f \in Frames |-> 0]
  /\ cookie = 0
  /\ frame_cookie = [f \in Frames |-> 0]
  /\ used_dma_chunks = 0 /\ tx_pending = 0
  /\ tx_sent_queue = <<>> /\ tx_queue = <<>> /\ tx_queue_len = 0
  /\ urbs = <<>> /\ firmware = <<>> /\ statuses = <<>>
  /\ pc = "idle" /\ cur = None
  /\ evpc = "idle" /\ evframe = None
  /\ failed = 0 /\ lost = {} /\ unowned = FALSE /\ confused = FALSE

(* frame_free                                                              *)
Free(f) ==
  /\ ref' = [ref EXCEPT ![f] = IF @ = 0 THEN 0 ELSE @ - 1]
  /\ unowned' = (unowned \/ ref[f] = 0)
-----------------------------------------------------------------------------
(* carlu_alloc_frame.                                                      *)
AllocFrame(f) ==
  /\ pc = "idle" /\ evpc # "gone" /\ ref[f] = 0
  /\ ref' = [ref EXCEPT ![f] = 1]
  /\ pc' = "tx" /\ cur' = f
  /\ UNCHANGED <<cookie, frame_cookie, memory, tx_sent_queue, tx_queue, tx_queue_len,
                 device, event, history>>

(* carlu_tx refuses a frame whose rix is set.  The superframe came from    *)
(* malloc unwritten and err has no value: the caller frees the frame, or   *)
(* takes it for sent and forgets it.                                       *)
Refuse ==
  /\ pc = "tx"
  /\ \/ Free(cur) /\ UNCHANGED lost
     \/ lost' = lost \union {cur} /\ UNCHANGED <<ref, unowned>>
  /\ pc' = "idle" /\ cur' = None
  /\ UNCHANGED <<cookie, frame_cookie, memory, tx_sent_queue, tx_queue, tx_queue_len,
                 device, event, failed, confused>>

MemFree(f) ==
  tx_pending < DmaChunks /\ used_dma_chunks + chunks[f] < DmaChunks

(* -ENOSPC: the caller frees the frame.                                    *)
NoSpace ==
  /\ pc = "tx" /\ ~MemFree(cur)
  /\ Free(cur)
  /\ pc' = "idle" /\ cur' = None
  /\ UNCHANGED <<cookie, frame_cookie, memory, tx_sent_queue, tx_queue, tx_queue_len,
                 device, event, failed, lost, confused>>

(* carlu_alloc_dev_mem, up to the release of mem_lock.                     *)
AllocDevMem ==
  /\ pc = "tx" /\ MemFree(cur)
  /\ used_dma_chunks' = used_dma_chunks + chunks[cur]
  /\ tx_pending' = tx_pending + 1
  /\ frame_cookie' = [frame_cookie EXCEPT ![cur] = cookie]
  /\ cookie' = (cookie + 1) % Cookies
  /\ pc' = "sent"
  /\ UNCHANGED <<ref, tx_sent_queue, tx_queue, tx_queue_len, cur, device, event, history>>

(* frame_queue_tail, then carlusb_tx up to carlusb_tx_pending.             *)
Queue ==
  \/ /\ pc = "sent" /\ pc' = "queue"
     /\ tx_sent_queue' = Append(tx_sent_queue, cur) /\ UNCHANGED tx_queue
  \/ /\ pc = "queue" /\ pc' = "kick"
     /\ tx_queue' = Append(tx_queue, cur) /\ UNCHANGED tx_sent_queue

QueueFrame ==
  /\ Queue
  /\ UNCHANGED <<ref, cookie, frame_cookie, memory, tx_queue_len, cur, device, event,
                 history>>
-----------------------------------------------------------------------------
(* The limit of transfers is reached, or no frame waits.                   *)
NothingToSubmit == tx_queue_len >= MaxUrbs \/ tx_queue = <<>>

(* carlusb_tx_pending submits the first frame, with a reference for the    *)
(* transfer.                                                               *)
Submit ==
  /\ tx_queue_len' = tx_queue_len + 1
  /\ tx_queue' = Tail(tx_queue)
  /\ ref' = [ref EXCEPT ![Head(tx_queue)] = @ + 1]
  /\ urbs' = Append(urbs, [frame |-> Head(tx_queue), received |-> FALSE])
  /\ UNCHANGED failed

(* No memory for the transfer, or it cannot be submitted: the slot is      *)
(* taken for good, and in the second case so is the frame's reference.     *)
SubmitFailed ==
  /\ MayFail /\ failed < MaxLeaks
  /\ tx_queue_len' = tx_queue_len + 1
  /\ failed' = failed + 1
  /\ \/ UNCHANGED <<tx_queue, ref>>
     \/ /\ tx_queue' = Tail(tx_queue)
        /\ ref' = [ref EXCEPT ![Head(tx_queue)] = @ + 1]
  /\ UNCHANGED urbs

(* carlusb_tx_pending as a whole, under tx_queue_lock.                     *)
TxPending ==
  \/ NothingToSubmit /\ UNCHANGED <<ref, tx_queue, tx_queue_len, urbs, failed>>
  \/ ~NothingToSubmit /\ (Submit \/ SubmitFailed)

SenderPending ==
  /\ pc = "kick"
  /\ TxPending
  /\ pc' = "idle" /\ cur' = None
  /\ UNCHANGED <<cookie, frame_cookie, memory, tx_sent_queue, firmware, statuses, event,
                 lost, unowned, confused>>
-----------------------------------------------------------------------------
(* The device takes the next transfer, and the firmware has the frame.     *)
Receive ==
  \E i \in DOMAIN urbs :
    /\ ~urbs[i].received
    /\ \A j \in 1 .. i - 1 : urbs[j].received
    /\ urbs' = [urbs EXCEPT ![i].received = TRUE]
    /\ LET f == urbs[i].frame IN
         firmware' = Append(firmware, [frame |-> f, cookie |-> frame_cookie[f]])
    /\ UNCHANGED <<ref, cookie, frame_cookie, memory, tx_sent_queue, tx_queue,
                   tx_queue_len, statuses, sender, event, history>>

(* The firmware reports its next frame.                                    *)
Report ==
  /\ firmware # <<>>
  /\ firmware' = Tail(firmware)
  /\ statuses' = Append(statuses, Head(firmware))
  /\ UNCHANGED <<ref, cookie, frame_cookie, memory, tx_sent_queue, tx_queue, tx_queue_len,
                 urbs, sender, event, history>>
-----------------------------------------------------------------------------
SlotBack == tx_queue_len' = tx_queue_len - 1

(* carlusb_tx_bulk_cb, up to the release of tx_queue_lock.  It does not    *)
(* look at the status of the transfer.                                     *)
BulkCb ==
  /\ evpc = "idle" /\ urbs # <<>>
  /\ Head(urbs).received \/ MayFail
  /\ SlotBack
  /\ evpc' = "bulk" /\ evframe' = Head(urbs).frame
  /\ urbs' = Tail(urbs)
  /\ UNCHANGED <<ref, cookie, frame_cookie, memory, tx_sent_queue, tx_queue, firmware,
                 statuses, sender, history>>

(* carlusb_tx_cb drops the reference of the transfer.                      *)
BulkFree ==
  /\ evpc = "bulk"
  /\ Free(evframe)
  /\ evpc' = "kick" /\ evframe' = None
  /\ UNCHANGED <<cookie, frame_cookie, memory, tx_sent_queue, tx_queue, tx_queue_len,
                 device, sender, failed, lost, confused>>

(* Slip: the callback of a transfer does not submit the next one.          *)
NoPending == UNCHANGED <<ref, tx_queue, tx_queue_len, urbs, failed>>

(* What the callback ends with.                                            *)
NextPending == TxPending

EventPending ==
  /\ evpc = "kick"
  /\ NextPending
  /\ evpc' = "idle"
  /\ UNCHANGED <<cookie, frame_cookie, memory, tx_sent_queue, firmware, statuses, sender,
                 evframe, lost, unowned, confused>>

(* The places of the cookie c in tx_sent_queue.                            *)
Places(c) == {i \in DOMAIN tx_sent_queue : frame_cookie[tx_sent_queue[i]] = c}

(* carlu_tx_feedback, one status: carlu_find_frame takes the first frame   *)
(* with the cookie.                                                        *)
FindFrame ==
  /\ evpc = "idle" /\ statuses # <<>>
  /\ statuses' = Tail(statuses)
  /\ LET places == Places(Head(statuses).cookie)
         i == Min(places)
     IN IF places = {}
        THEN /\ confused' = TRUE
             /\ UNCHANGED <<tx_sent_queue, event>>
        ELSE /\ confused' = (confused \/ tx_sent_queue[i] # Head(statuses).frame)
             /\ tx_sent_queue' = RemoveAt(tx_sent_queue, i)
             /\ evpc' = "fb" /\ evframe' = tx_sent_queue[i]
  /\ UNCHANGED <<ref, cookie, frame_cookie, memory, tx_queue, tx_queue_len, urbs, firmware,
                 sender, failed, lost, unowned>>

(* Slip: the device memory of a reported frame stays reserved.             *)
KeepDevMem == UNCHANGED memory

(* carlu_free_dev_mem.                                                     *)
FreeDevMem ==
  /\ used_dma_chunks' = used_dma_chunks - chunks[evframe]
  /\ tx_pending' = tx_pending - 1

(* The rest of carlu_tx_feedback, up to carlu_tx_fb_cb.                    *)
Feedback ==
  /\ evpc = "fb"
  /\ FreeDevMem
  /\ Free(evframe)
  /\ evpc' = "idle" /\ evframe' = None
  /\ UNCHANGED <<cookie, frame_cookie, tx_sent_queue, tx_queue, tx_queue_len, device,
                 sender, failed, lost, confused>>
-----------------------------------------------------------------------------
(* carlusb_close, once the event thread is gone: carlusb_zap_queues takes  *)
(* the frames off tx_queue and drops a reference of each ...               *)
ZapQueues ==
  /\ pc = "idle" /\ evpc \in {"idle", "gone"}
  /\ evpc' = "gone"
  /\ IF tx_queue = <<>>
     THEN pc' = "kill" /\ UNCHANGED <<tx_queue, ref, unowned>>
     ELSE /\ tx_queue' = Tail(tx_queue)
          /\ Free(Head(tx_queue))
          /\ UNCHANGED pc
  /\ UNCHANGED <<cookie, frame_cookie, memory, tx_sent_queue, tx_queue_len, device, cur,
                 evframe, failed, lost, confused>>

(* ... and carlu_free_driver those on tx_sent_queue (frame_queue_kill).    *)
KillQueue ==
  /\ pc = "kill" /\ tx_sent_queue # <<>>
  /\ tx_sent_queue' = Tail(tx_sent_queue)
  /\ Free(Head(tx_sent_queue))
  /\ UNCHANGED <<cookie, frame_cookie, memory, tx_queue, tx_queue_len, device, sender,
                 event, failed, lost, confused>>
-----------------------------------------------------------------------------
Sender == Refuse \/ NoSpace \/ AllocDevMem \/ QueueFrame \/ SenderPending
EventThread == BulkCb \/ BulkFree \/ EventPending \/ FindFrame \/ Feedback

Next ==
  \/ \E f \in Frames : AllocFrame(f)
  \/ Refuse \/ NoSpace \/ AllocDevMem \/ QueueFrame \/ SenderPending
  \/ Receive \/ Report
  \/ BulkCb \/ BulkFree \/ EventPending \/ FindFrame \/ Feedback
  \/ ZapQueues \/ KillQueue

(* Both threads and the device run; that a status beats the completion of  *)
(* its transfer for ever, or the other way round, is no schedule of libusb.*)
Fairness ==
  /\ WF_vars(Sender) /\ WF_vars(Receive) /\ WF_vars(Report)
  /\ WF_vars(BulkFree \/ EventPending \/ Feedback)
  /\ SF_vars(BulkCb) /\ SF_vars(FindFrame)

Spec == Init /\ [][Next]_vars
FairSpec == Spec /\ Fairness
-----------------------------------------------------------------------------
InFlight == {urbs[i].frame : i \in DOMAIN urbs}
Elems(q) == {q[i] : i \in DOMAIN q}
Closed == evpc = "gone"

\* Types; references, transfers and cookies stay in their ranges.
TypeOK ==
  /\ ref \in [Frames -> 0 .. 2]
  /\ cookie \in 0 .. Cookies - 1
  /\ frame_cookie \in [Frames -> 0 .. Cookies - 1]
  /\ used_dma_chunks \in Nat /\ tx_pending \in Nat
  /\ tx_sent_queue \in Seq(Frames) /\ tx_queue \in Seq(Frames)
  /\ tx_queue_len \in 0 .. MaxUrbs
  /\ urbs \in Seq([frame : Frames, received : BOOLEAN])
  /\ firmware \in Seq([frame : Frames, cookie : 0 .. Cookies - 1])
  /\ statuses \in Seq([frame : Frames, cookie : 0 .. Cookies - 1])
  /\ pc \in {"idle", "tx", "sent", "queue", "kick", "kill"} /\ cur \in Frames \union {None}
  /\ evpc \in {"idle", "bulk", "kick", "fb", "gone"} /\ evframe \in Frames \union {None}
  /\ failed \in 0 .. MaxLeaks /\ lost \in SUBSET Frames
  /\ unowned \in BOOLEAN /\ confused \in BOOLEAN

(* The frames whose device memory is reserved.                             *)
Reserved ==
  Elems(tx_sent_queue)
    \union (IF pc = "sent" THEN {cur} ELSE {})
    \union (IF evpc = "fb" THEN {evframe} ELSE {})

(* The chunks of device memory they take.                                  *)
Taken == UNION {{f} \X (1 .. chunks[f]) : f \in Reserved}

(* The device memory carlu counts as used is that of the frames it waits   *)
(* to hear of, through every interleaving of carlu_tx, the completions and *)
(* the statuses, also when transfers fail; it stays below what the device  *)
(* has.                                                                    *)
MemAccounted ==
  ~Closed =>
    /\ used_dma_chunks = Cardinality(Taken)
    /\ tx_pending = Cardinality(Reserved)
    /\ used_dma_chunks < DmaChunks

(* tx_queue_len counts the transfers in flight, and one more for each that *)
(* could not be allocated or submitted (usb.c:358-388): after MaxUrbs such *)
(* failures nothing is ever sent.                                          *)
SlotsCounted == tx_queue_len = Len(urbs) + failed

(* While the driver is open no frame is freed twice or used after it is    *)
(* free: what a list, a transfer or a thread holds has a reference.        *)
HeldIsAlive ==
  ~Closed =>
    /\ ~unowned
    /\ \A f \in Elems(tx_sent_queue) \union Elems(tx_queue) \union InFlight :
         ref[f] > 0
    /\ \A f \in InFlight \intersect Elems(tx_sent_queue) : ref[f] = 2

(* A status finds the frame it is about, as the firmware's comment on the  *)
(* unique cookie (wlan.c:166) supposes, although the cookie wraps.         *)
RightFrame == ~confused

(* A frame waits in tx_queue only behind MaxUrbs transfers or a thread on  *)
(* its way to carlusb_tx_pending.                                          *)
NoStall ==
  tx_queue # <<>> => \/ tx_queue_len = MaxUrbs
                     \/ pc = "kick" \/ evpc \in {"bulk", "kick", "gone"}

(* carlu_free_driver kills the queues of frames nobody has freed before.   *)
FreedByLastUser == ~unowned

(* What carlu_tx has accepted is freed in the end.                         *)
EventuallyFreed ==
  \A f \in Frames : (f \in Elems(tx_sent_queue)) ~> (ref[f] = 0 \/ Closed)
=============================================================================
