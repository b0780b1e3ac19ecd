------------------------------ MODULE IntRing ------------------------------
(***************************************************************************)
(* How command responses and traps leave the carl9170 firmware             *)
(* (carlfw/usb/main.c, carlfw/src/hostif.c): get_int_buf takes a slot of   *)
(* the ring fw.usb.int_buf, usb_status_in packs pending slots into the     *)
(* payload of the one response descriptor fw.usb.int_desc and puts it into *)
(* the up queue, and handle_upload makes the descriptor available again    *)
(* when the host has read it.                                              *)
(*                                                                         *)
(* A message is its number in the order of the get_int_buf calls and the   *)
(* length of its payload.  The loop of usb_status_in is one action per     *)
(* message.  The USB interrupts and the host are the environment.          *)
(***************************************************************************)
EXTENDS Naturals, Sequences, RingIndex

CONSTANTS
  CARL9170_INT_RQ_CACHES,  \* slots of int_buf
  Space,    \* AR9170_BLOCK_SIZE - AR9170_INT_MAGIC_HEADER_SIZE
  Lens,     \* payload lengths (hdr.len) that occur; a message fits an empty response
  MaxMsgs   \* bound: messages posted in a behaviour

(* A ring of at least one slot, and messages with a length.                *)
Sizes ==
  /\ CARL9170_INT_RQ_CACHES \in Nat \ {0}
  /\ Space \in Nat /\ MaxMsgs \in Nat
  /\ Lens \subseteq Nat /\ Lens # {}

VARIABLES
  int_buf,     \* fw.usb.int_buf
  head,        \* fw.usb.int_head_index
  tail,        \* fw.usb.int_tail_index
  pending,     \* fw.usb.int_pending
  available,   \* fw.usb.int_desc_available
  inEnabled,   \* the IN interrupt is not masked (usb_trigger_in/usb_reset_in)
  building,    \* usb_status_in is in its loop
  rem,         \* the local "rem" of usb_status_in
  xfer,        \* messages in the payload of int_desc
  upload,      \* int_desc in the up queue: "none", "queued", "done"
  posted,      \* history: messages posted
  overflowed,  \* history: a message was posted into a full ring
  host         \* history: messages the host has read

ring == <<int_buf, head, tail, pending>>
desc == <<available, building, rem, xfer, upload>>
vars == <<ring, desc, inEnabled, posted, overflowed, host>>

Slots == 0 .. CARL9170_INT_RQ_CACHES - 1
Message == [id : 0 .. MaxMsgs, len : Lens]
Slot(i) == Wrapped(i, CARL9170_INT_RQ_CACHES)

Init ==
  /\ int_buf \in [Slots -> [id : {0}, len : {CHOOSE l \in Lens : TRUE}]]
  /\ head = 0
  /\ tail = 0
  /\ pending = 0
  /\ available = TRUE
  /\ inEnabled = FALSE
  /\ building = FALSE
  /\ rem = Space
  /\ xfer = <<>>
  /\ upload = "none"
  /\ posted = 0
  /\ overflowed = FALSE
  /\ host = <<>>

(* get_int_buf, and the message its caller puts into the slot.  A full     *)
(* ring takes the message all the same: the tail runs over the head, and   *)
(* the head stays.                                                         *)
GetIntBuf(len) ==
  /\ int_buf' = [int_buf EXCEPT ![tail] = [id |-> posted + 1, len |-> len]]
  /\ tail' = Slot(tail + 1)
  /\ IF pending # CARL9170_INT_RQ_CACHES
     THEN pending' = pending + 1 /\ UNCHANGED overflowed
     ELSE overflowed' = TRUE /\ UNCHANGED pending

(* send_cmd_to_host, or usb_reg_out answering a command: the message is    *)
(* stored, and the IN interrupt enabled (usb_trigger_in).                  *)
Post(len) ==
  /\ ~building
  /\ posted < MaxMsgs
  /\ GetIntBuf(len)
  /\ posted' = posted + 1
  /\ inEnabled' = TRUE
  /\ UNCHANGED <<head, desc, host>>

(* Slip: the descriptor is refilled while it may still be in the up queue. *)
StatusInUnguarded ==
  /\ ~building
  /\ inEnabled
  /\ available' = FALSE
  /\ inEnabled' = FALSE
  /\ building' = TRUE
  /\ rem' = Space
  /\ xfer' = <<>>
  /\ UNCHANGED <<ring, upload, posted, overflowed, host>>

(* usb_status_in up to its loop, on the IN interrupt.                      *)
StatusIn ==
  /\ ~building
  /\ inEnabled
  /\ available
  /\ available' = FALSE
  /\ inEnabled' = FALSE
  /\ building' = TRUE
  /\ rem' = Space
  /\ xfer' = <<>>
  /\ UNCHANGED <<ring, upload, posted, overflowed, host>>

(* dequeue_int_buf returns a message: there is one, and it fits.           *)
Fits == pending > 0 /\ int_buf[head].len + 8 <= rem

(* Slip: the head moves past the message behind the one that was taken.    *)
DequeueSkips ==
  /\ building
  /\ Fits
  /\ xfer' = Append(xfer, int_buf[head])
  /\ rem' = rem - (int_buf[head].len + 4)
  /\ head' = Slot(head + 2)
  /\ pending' = pending - 1
  /\ UNCHANGED <<int_buf, tail, available, building, upload, inEnabled,
                 posted, overflowed, host>>

(* dequeue_int_buf and the copy into the response.                         *)
Dequeue ==
  /\ building
  /\ Fits
  /\ xfer' = Append(xfer, int_buf[head])
  /\ rem' = rem - (int_buf[head].len + 4)
  /\ head' = Slot(head + 1)
  /\ pending' = pending - 1
  /\ UNCHANGED <<int_buf, tail, available, building, upload, inEnabled,
                 posted, overflowed, host>>

(* The end of usb_status_in: dma_put into the up queue, or, when nothing   *)
(* was packed, the descriptor stays available.                             *)
StatusInDone ==
  /\ building
  /\ ~Fits
  /\ building' = FALSE
  /\ IF xfer = <<>>
     THEN available' = TRUE /\ UNCHANGED upload
     ELSE upload' = "queued" /\ UNCHANGED available
  /\ UNCHANGED <<ring, rem, xfer, inEnabled, posted, overflowed, host>>

(* Slip: what did not fit into a response waits for the next message.      *)
HandleUsbNoRetrigger == FALSE /\ UNCHANGED vars

(* The end of handle_usb: while messages wait, the IN interrupt stays on.  *)
HandleUsb ==
  /\ ~building
  /\ pending > 0
  /\ ~inEnabled
  /\ inEnabled' = TRUE
  /\ UNCHANGED <<ring, desc, posted, overflowed, host>>

(* The host reads the response: the hardware finishes the descriptor.      *)
HostRead ==
  /\ upload = "queued"
  /\ upload' = "done"
  /\ host' = host \o [i \in DOMAIN xfer |-> xfer[i].id]
  /\ UNCHANGED <<ring, available, building, rem, xfer, inEnabled, posted, overflowed>>

(* handle_upload finds the response buffer in the finished descriptor.     *)
HandleUpload ==
  /\ ~building
  /\ upload = "done"
  /\ upload' = "none"
  /\ available' = TRUE
  /\ UNCHANGED <<ring, building, rem, xfer, inEnabled, posted, overflowed, host>>

Next ==
  \/ \E len \in Lens : Post(len)
  \/ StatusIn
  \/ Dequeue
  \/ StatusInDone
  \/ HandleUsb
  \/ HostRead
  \/ HandleUpload

(* main_loop calls handle_host_interface and handle_usb in every round, an *)
(* enabled interrupt is served, and a host that is present keeps reading.  *)
Fairness ==
  /\ WF_vars(Dequeue \/ StatusInDone)
  /\ WF_vars(StatusIn)
  /\ WF_vars(HandleUsb)
  /\ WF_vars(HostRead)
  /\ WF_vars(HandleUpload)

Spec == Init /\ [][Next]_vars
FairSpec == Spec /\ Fairness
-----------------------------------------------------------------------------
(* Types; head, tail and the number of pending messages stay in the ring   *)
(* (get_int_buf, dequeue_int_buf).                                         *)
TypeOK ==
  /\ int_buf \in [Slots -> Message]
  /\ head \in Slots /\ tail \in Slots
  /\ pending \in 0 .. CARL9170_INT_RQ_CACHES
  /\ available \in BOOLEAN /\ inEnabled \in BOOLEAN /\ building \in BOOLEAN
  /\ rem \in 0 .. Space
  /\ xfer \in Seq(Message)
  /\ upload \in {"none", "queued", "done"}
  /\ posted \in 0 .. MaxMsgs
  /\ overflowed \in BOOLEAN
  /\ host \in Seq(0 .. MaxMsgs)

(* As long as the ring never ran full, the host reads every message once   *)
(* and in the order in which it was posted (get_int_buf, dequeue_int_buf). *)
InOrderUntilOverflow ==
  ~overflowed => \A i \in 1 .. Len(host) : host[i] = i

(* The response buffer is in one hand: available, being filled by          *)
(* usb_status_in, or in the up queue.  Otherwise usb_status_in would write *)
(* into a payload the hardware is sending (usb/main.c:134,179,             *)
(* hostif.c:95-97).                                                        *)
Hands == {"available", "building", "uploading"}
DescriptorExclusive ==
  \E hand \in Hands :
    {x \in Hands : \/ x = "available" /\ available
                   \/ x = "building" /\ building
                   \/ x = "uploading" /\ upload # "none"} = {hand}

(* Every message reaches the host, whether it fitted into the first        *)
(* response or not, unless the ring ran over.                              *)
EventuallyRead ==
  \A n \in 1 .. MaxMsgs : (posted >= n) ~> (overflowed \/ Len(host) >= n)

(* What the code says of the ring: get_int_buf fetches "the _oldest_       *)
(* buffer" (usb/main.c:69), so a full ring loses its oldest message, and   *)
(* the queue "pops up" the others (usb/main.c:84) in order: the host never *)
(* reads a message after a younger one, or again.                          *)
QueueOrder == \A i, j \in 1 .. Len(host) : i < j => host[i] < host[j]
=============================================================================
