----------------------------- MODULE CabProofs -----------------------------
(***************************************************************************)
(* Proofs about Cab, for any number of broadcast frames.  The inductive    *)
(* invariant adds to the properties what the trigger says of the beacon    *)
(* (TriggerInv) and how the frames stand in the queues (QueueInv).         *)
(***************************************************************************)
EXTENDS Cab, QueueLemmas, TLAPS

(* An armed trigger belongs to a DTIM beacon, and any trigger to a beacon  *)
(* with its bit set; the janitor flushes for an armed trigger.             *)
TriggerInv ==
  /\ trigger = ARMED => dtim
  /\ trigger # EMPTY => bitmap_ctrl = 1
  /\ flushing = "janitor" => trigger = ARMED
  /\ flushing = "host" => commanded

Last(s) == s[Len(s)]

(* The waiting frames are the youngest ones, in order, and the batch ends  *)
(* where the transmit queue does.                                          *)
QueueInv ==
  /\ Len(cab_queue) + Len(tx_queue) <= queued
  /\ \A n \in 1 .. Len(cab_queue) : cab_queue[n] = queued - Len(cab_queue) + n
  /\ tx_queue # <<>> => Last(tx_queue) = [id |-> batch.last, more |-> batch.more]

IInv ==
  /\ TypeOK
  /\ LenCounts
  /\ TriggerInv
  /\ QueueInv
  /\ BitUndone
  /\ PromiseKept
-----------------------------------------------------------------------------
(* The types the sequence theorems are used with.                          *)
Ids == 1 .. MaxFrames
Sent == [id : Ids, more : BOOLEAN]

(* The lengths of the queues are numbers, and zero when they are empty.    *)
LEMMA Lengths ==
  ASSUME TypeOK
  PROVE  /\ Len(cab_queue) \in Nat /\ Len(tx_queue) \in Nat
         /\ cab_queue = <<>> <=> Len(cab_queue) = 0
         /\ tx_queue = <<>> <=> Len(tx_queue) = 0
<1>1. /\ Len(cab_queue) \in Nat /\ Len(tx_queue) \in Nat
  BY LenProperties DEF TypeOK
<1>2. cab_queue # <<>> => Len(cab_queue) \in Nat \ {0}
  BY EmptySeq DEF TypeOK
<1>3. tx_queue # <<>> => Len(tx_queue) \in Nat \ {0}
  BY EmptySeq DEF TypeOK
<1>4. Len(<<>>) = 0
  BY EmptySeq
<1> QED
  BY <1>1, <1>2, <1>3, <1>4

(* The queues, the trigger and the clock are empty at first.               *)
LEMMA InitIInv == Init => IInv
<1> SUFFICES ASSUME Init PROVE IInv
  OBVIOUS
<1>1. TypeOK
  <2>1. cab_queue \in Seq(1 .. MaxFrames) /\ tx_queue \in Seq([id : 1 .. MaxFrames, more : BOOLEAN])
    BY EmptySeq DEF Init
  <2>2. cab_queue_len = 0 /\ trigger = EMPTY /\ elapsed \in BOOLEAN /\ bitmap_ctrl = 0
    BY DEF Init
  <2>3. flushing = "none" /\ queued = 0 /\ dtim = FALSE /\ commanded = FALSE
    BY DEF Init
  <2>4. batch \in [last : 0 .. MaxFrames, more : BOOLEAN]
    BY CabAssumption DEF Init
  <2>5. cab_queue_len \in 0 .. MaxFrames /\ queued \in 0 .. MaxFrames
    BY <2>2, <2>3, CabAssumption
  <2> QED
    BY <2>1, <2>2, <2>3, <2>4, <2>5 DEF TypeOK
<1>2. Len(cab_queue) = 0 /\ Len(tx_queue) = 0
  BY EmptySeq DEF Init
<1>3. LenCounts /\ QueueInv
  BY <1>2 DEF Init, LenCounts, QueueInv
<1>4. TriggerInv /\ BitUndone
  BY DEF Init, TriggerInv, BitUndone, EMPTY, ARMED
<1>5. PromiseKept
  BY <1>2 DEF Init, PromiseKept
<1> QED
  BY <1>1, <1>3, <1>4, <1>5 DEF IInv

(* wlan_tx of a CAB frame.                                                 *)
LEMMA QueueStep ==
  ASSUME IInv, Queue
  PROVE  IInv'
<1>1. queued + 1 \in Ids /\ cab_queue \in Seq(Ids) /\ queued \in Nat /\ queued' = queued + 1
  BY CabAssumption DEF IInv, TypeOK, Queue, Ids
<1>0. cab_queue' = Append(cab_queue, queued + 1)
  BY DEF Queue
<1>2. /\ cab_queue' \in Seq(Ids)
      /\ cab_queue' # <<>>
      /\ Len(cab_queue') = Len(cab_queue) + 1
      /\ \A n \in 1 .. Len(cab_queue) : cab_queue'[n] = cab_queue[n]
      /\ cab_queue'[Len(cab_queue) + 1] = queued + 1
  BY <1>0, <1>1, Pushed
<1>3. Len(cab_queue) \in Nat /\ Len(tx_queue) \in Nat
  BY Lengths DEF IInv
<1>4. TypeOK'
  <2>1. cab_queue_len' \in 0 .. MaxFrames
    BY <1>3, CabAssumption DEF IInv, TypeOK, Queue, LenCounts, QueueInv
  <2> QED
    BY <1>1, <1>2, <2>1, CabAssumption DEF IInv, TypeOK, Queue, Ids
<1>5. LenCounts'
  BY <1>2, <1>3 DEF IInv, Queue, LenCounts
<1>6. TriggerInv'
  BY DEF IInv, Queue, TriggerInv
<1>7. QueueInv'
  <2>1. \A n \in 1 .. Len(cab_queue') : cab_queue'[n] = queued' - Len(cab_queue') + n
    <3> TAKE n \in 1 .. Len(cab_queue')
    <3>1. CASE n \in 1 .. Len(cab_queue)
      <4>1. cab_queue[n] = queued - Len(cab_queue) + n
        BY <3>1 DEF IInv, QueueInv
      <4> QED
        BY <1>1, <1>2, <1>3, <3>1, <4>1
    <3>2. CASE n = Len(cab_queue) + 1
      BY <1>1, <1>2, <1>3, <3>2
    <3> QED
      BY <1>2, <1>3, <3>1, <3>2
  <2>2. Len(cab_queue') + Len(tx_queue') <= queued'
    BY <1>1, <1>2, <1>3 DEF IInv, QueueInv, Queue
  <2>3. tx_queue' # <<>> => Last(tx_queue') = [id |-> batch'.last, more |-> batch'.more]
    BY DEF IInv, QueueInv, Queue, Last
  <2> QED
    BY <2>1, <2>2, <2>3 DEF QueueInv
<1>8. BitUndone'
  BY DEF IInv, Queue, BitUndone
<1>9. PromiseKept'
  BY DEF IInv, Queue, PromiseKept
<1> QED
  BY <1>4, <1>5, <1>6, <1>7, <1>8, <1>9 DEF IInv

(* A command that changes the beacon: neither queue changes.               *)
LEMMA ModifyBeaconStep ==
  ASSUME IInv, NEW isDtim \in BOOLEAN, NEW fresh \in BOOLEAN,
         ModifyBeacon(isDtim, fresh)
  PROVE  IInv'
<1>1. UNCHANGED <<cab_queue, cab_queue_len, elapsed, tx_queue, flushing, queued, batch>>
  BY DEF ModifyBeacon
<1>2. LenCounts' /\ QueueInv' /\ PromiseKept'
  BY <1>1 DEF IInv, LenCounts, QueueInv, PromiseKept, Last
<1>3. TypeOK'
  BY <1>1 DEF IInv, TypeOK, ModifyBeacon, EMPTY, ARMED, DEFER
<1>4. TriggerInv'
  BY DEF IInv, TypeOK, TriggerInv, ModifyBeacon, Arms, EMPTY, ARMED, DEFER
<1>5. BitUndone'
  <2>1. NothingLeft => tx_queue = <<>>
    BY Lengths DEF IInv, NothingLeft, LenCounts
  <2> QED
    BY <2>1 DEF IInv, TypeOK, TriggerInv, BitUndone, ModifyBeacon, Arms, EMPTY, ARMED, DEFER
<1> QED
  BY <1>2, <1>3, <1>4, <1>5 DEF IInv

(* The clock, and the janitor or the host deciding to flush.               *)
LEMMA DecideStep ==
  ASSUME IInv, Pretbtt \/ Clock \/ SendBufferedCab \/ FlushCommand
  PROVE  IInv'
<1>1. UNCHANGED <<cab_queue, cab_queue_len, trigger, bitmap_ctrl, tx_queue, queued, dtim, batch>>
  BY DEF Pretbtt, Clock, SendBufferedCab, FlushCommand
<1>2. LenCounts' /\ QueueInv'
  BY <1>1 DEF IInv, LenCounts, QueueInv, Last
<1>3. TypeOK'
  BY <1>1 DEF IInv, TypeOK, Pretbtt, Clock, SendBufferedCab, FlushCommand
<1>4. TriggerInv'
  BY DEF IInv, TriggerInv, Pretbtt, Clock, SendBufferedCab, FlushCommand
<1>5. BitUndone'
  BY DEF IInv, BitUndone, Pretbtt, Clock, SendBufferedCab, FlushCommand
<1>6. PromiseKept'
  BY <1>1 DEF IInv, PromiseKept, Pretbtt, Clock, SendBufferedCab, FlushCommand
<1> QED
  BY <1>2, <1>3, <1>4, <1>5, <1>6 DEF IInv

(* A frame leaves the CAB queue for the transmit queue.                    *)
LEMMA FlushFrameStep ==
  ASSUME IInv, FlushFrame
  PROVE  IInv'
<1> DEFINE entry == [id |-> Head(cab_queue), more |-> MoreData]
<1>1. /\ cab_queue \in Seq(Ids) /\ tx_queue \in Seq(Sent) /\ cab_queue # <<>>
      /\ queued \in Nat
  BY DEF IInv, TypeOK, FlushFrame, Ids, Sent
<1>2. /\ Head(cab_queue) \in Ids /\ Head(cab_queue) = cab_queue[1]
      /\ cab_queue' \in Seq(Ids)
      /\ Len(cab_queue) \in Nat \ {0}
      /\ Len(cab_queue') = Len(cab_queue) - 1
      /\ \A n \in 1 .. Len(cab_queue') : cab_queue'[n] = cab_queue[n + 1]
      /\ cab_queue' = <<>> <=> Len(cab_queue) = 1
  BY <1>1, Popped, Zenon DEF FlushFrame
<1>3. entry \in Sent
  BY <1>2 DEF Sent, MoreData
<1>0. tx_queue' = Append(tx_queue, entry)
  BY DEF FlushFrame
<1>5. batch' = [last |-> entry.id, more |-> entry.more]
  BY DEF FlushFrame
<1>e. /\ entry.id = Head(cab_queue) /\ entry = [id |-> entry.id, more |-> entry.more]
      /\ entry.more <=> cab_queue' # <<>>
  BY DEF MoreData, FlushFrame
<1> HIDE DEF entry
<1>4. /\ tx_queue' \in Seq(Sent)
      /\ tx_queue' # <<>>
      /\ Len(tx_queue) \in Nat
      /\ Len(tx_queue') = Len(tx_queue) + 1
      /\ \A n \in 1 .. Len(tx_queue) : tx_queue'[n] = tx_queue[n]
      /\ tx_queue'[Len(tx_queue) + 1] = entry
  BY <1>0, <1>1, <1>3, Pushed
<1>6. TypeOK'
  BY <1>2, <1>3, <1>4, CabAssumption DEF IInv, TypeOK, FlushFrame, Ids, Sent
<1>7. LenCounts'
  BY <1>2, <1>4 DEF IInv, LenCounts, FlushFrame
<1>8. TriggerInv'
  BY DEF IInv, TriggerInv, FlushFrame
<1>9. QueueInv'
  <2>1. \A n \in 1 .. Len(cab_queue') : cab_queue'[n] = queued' - Len(cab_queue') + n
    BY <1>1, <1>2 DEF IInv, QueueInv, FlushFrame
  <2>2. Last(tx_queue') = [id |-> batch'.last, more |-> batch'.more]
    BY <1>4, <1>5, <1>e DEF Last
  <2> QED
    BY <1>2, <1>4, <2>1, <2>2 DEF IInv, QueueInv, FlushFrame
<1>10. BitUndone'
  BY DEF IInv, TypeOK, BitUndone, TriggerInv, FlushFrame, EMPTY, ARMED
<1>11. PromiseKept'
  <2>2. cab_queue' # <<>> => Head(cab_queue') = entry.id + 1
    <3>1. cab_queue' # <<>> => Head(cab_queue') = cab_queue'[1] /\ 1 \in 1 .. Len(cab_queue')
      BY <1>2, Popped
    <3> QED
      <4>1. cab_queue' # <<>> => Len(cab_queue) # 1 /\ 1 \in 1 .. Len(cab_queue') /\ 2 \in 1 .. Len(cab_queue)
        BY <1>2
      <4>2. cab_queue' # <<>> => Head(cab_queue') = cab_queue[2]
        BY <1>2, <3>1, <4>1
      <4>3. cab_queue[1] = queued - Len(cab_queue) + 1
        BY <1>2 DEF IInv, QueueInv
      <4>4. cab_queue' # <<>> => cab_queue[2] = queued - Len(cab_queue) + 2
        BY <4>1 DEF IInv, QueueInv
      <4> QED
        BY <1>1, <1>2, <1>e, <4>2, <4>3, <4>4
  <2>3. batch'.more => flushing' # "none" /\ cab_queue' # <<>> /\ Head(cab_queue') = batch'.last + 1
    <3>1. batch'.more = entry.more /\ batch'.last = entry.id
      BY <1>5
    <3>2. flushing' # "none"
      BY DEF FlushFrame
    <3> QED
      BY <1>e, <2>2, <3>1, <3>2
  <2>4. ASSUME NEW n \in 1 .. Len(tx_queue') - 1, tx_queue'[n].more
        PROVE  tx_queue'[n + 1].id = tx_queue'[n].id + 1
    <3>1. CASE n < Len(tx_queue)
      BY <1>4, <2>4, <3>1 DEF IInv, PromiseKept
    <3>2. CASE n = Len(tx_queue)
      <4>1. tx_queue # <<>> /\ tx_queue'[n] = Last(tx_queue)
        BY <1>4, <2>4, <3>2, EmptySeq DEF Last
      <4>2. batch.more /\ tx_queue'[n].id = batch.last
        BY <2>4, <4>1 DEF IInv, QueueInv
      <4>3. Head(cab_queue) = batch.last + 1
        BY <4>2 DEF IInv, PromiseKept
      <4> QED
        BY <1>4, <1>e, <3>2, <4>2, <4>3
    <3> QED
      BY <1>4, <2>4, <3>1, <3>2
  <2> QED
    BY <2>3, <2>4 DEF PromiseKept
<1> QED
  BY <1>6, <1>7, <1>8, <1>9, <1>10, <1>11 DEF IInv

(* The end of a batch: whoever flushed, nothing was promised last.         *)
LEMMA FlushEndStep ==
  ASSUME IInv, FlushEnd
  PROVE  IInv'
<1>1. UNCHANGED <<cab_queue, cab_queue_len, bitmap_ctrl, tx_queue, queued, batch>>
  BY DEF FlushEnd
<1>2. LenCounts' /\ QueueInv'
  BY <1>1 DEF IInv, LenCounts, QueueInv, Last
<1>3. TypeOK'
  BY <1>1 DEF IInv, TypeOK, FlushEnd, AfterFlush, EMPTY, ARMED, DEFER
<1>4. TriggerInv'
  BY DEF IInv, TypeOK, TriggerInv, FlushEnd, AfterFlush, EMPTY, ARMED, DEFER
<1>5. BitUndone'
  BY DEF IInv, TypeOK, TriggerInv, BitUndone, FlushEnd, AfterFlush, EMPTY, ARMED, DEFER
<1>6. PromiseKept'
  BY <1>1 DEF IInv, PromiseKept, FlushEnd
<1> QED
  BY <1>2, <1>3, <1>4, <1>5, <1>6 DEF IInv

(* The frame in front of the transmit queue is done.                       *)
LEMMA TxStatusStep ==
  ASSUME IInv, TxStatus
  PROVE  IInv'
<1>1. tx_queue \in Seq(Sent) /\ tx_queue # <<>>
  BY DEF IInv, TypeOK, TxStatus, Sent, Ids
<1>2. /\ tx_queue' \in Seq(Sent)
      /\ Len(tx_queue) \in Nat \ {0}
      /\ Len(tx_queue') = Len(tx_queue) - 1
      /\ \A n \in 1 .. Len(tx_queue') : tx_queue'[n] = tx_queue[n + 1]
      /\ tx_queue' = <<>> <=> Len(tx_queue) = 1
  BY <1>1, Popped, Zenon DEF TxStatus
<1>3. Len(cab_queue) \in Nat
  BY Lengths DEF IInv
<1>4. TypeOK'
  <2>1. cab_queue_len' \in 0 .. MaxFrames
    <3>1. cab_queue_len \in 0 .. MaxFrames /\ cab_queue_len = Len(cab_queue) + Len(tx_queue)
      BY DEF IInv, TypeOK, LenCounts
    <3>2. cab_queue_len' = cab_queue_len - 1
      BY DEF TxStatus, TxStatusLen
    <3>3. Len(tx_queue) \in Nat \ {0}
      BY <1>2
    <3> QED
      BY <1>3, <3>1, <3>2, <3>3, CabAssumption
  <2> QED
    BY <1>2, <2>1 DEF IInv, TypeOK, TxStatus, Sent, Ids
<1>5. LenCounts'
  BY <1>2, <1>3 DEF IInv, LenCounts, TxStatus, TxStatusLen
<1>6. TriggerInv'
  BY DEF IInv, TriggerInv, TxStatus
<1>7. QueueInv'
  <2>1. tx_queue' # <<>> => Last(tx_queue') = Last(tx_queue)
    BY <1>2 DEF Last
  <2>2. Len(cab_queue') + Len(tx_queue') <= queued'
    BY <1>2, <1>3 DEF IInv, TypeOK, QueueInv, TxStatus
  <2> QED
    BY <1>1, <2>1, <2>2 DEF IInv, QueueInv, TxStatus
<1>8. BitUndone'
  BY <1>1 DEF IInv, BitUndone, TxStatus
<1>9. PromiseKept'
  <2>1. \A n \in 1 .. Len(tx_queue') - 1 :
          n + 1 \in 1 .. Len(tx_queue) - 1
            /\ tx_queue'[n] = tx_queue[n + 1] /\ tx_queue'[n + 1] = tx_queue[n + 2]
    BY <1>2
  <2>2. \A n \in 1 .. Len(tx_queue') - 1 :
          tx_queue'[n].more => tx_queue'[n + 1].id = tx_queue'[n].id + 1
    <3> TAKE n \in 1 .. Len(tx_queue') - 1
    <3>1. tx_queue[n + 1].more => tx_queue[(n + 1) + 1].id = tx_queue[n + 1].id + 1
      BY <2>1 DEF IInv, PromiseKept
    <3>2. (n + 1) + 1 = n + 2
      OBVIOUS
    <3> QED
      BY <2>1, <3>1, <3>2
  <2> QED
    BY <2>2 DEF IInv, PromiseKept, TxStatus
<1> QED
  BY <1>4, <1>5, <1>6, <1>7, <1>8, <1>9 DEF IInv

(* Every step of the firmware, the MAC, the host and the clock.            *)
LEMMA StepIInv == IInv /\ [Next]_vars => IInv'
<1> SUFFICES ASSUME IInv, [Next]_vars PROVE IInv'
  OBVIOUS
<1>1. CASE UNCHANGED vars
  BY <1>1 DEF vars, IInv, TypeOK, LenCounts, TriggerInv, QueueInv, BitUndone, PromiseKept, Last
<1> QED
  BY <1>1, QueueStep, ModifyBeaconStep, DecideStep, FlushFrameStep, FlushEndStep, TxStatusStep
     DEF Next
-----------------------------------------------------------------------------
(* The inductive invariant holds in every behaviour.                       *)
LEMMA CabCorrect == Spec => []IInv
<1>1. Init => IInv
  BY InitIInv
<1>2. IInv /\ [Next]_vars => IInv'
  BY StepIInv
<1> QED
  BY <1>1, <1>2, PTL DEF Spec

(* The counters and queues of the content after beacon stay in their types *)
(* for any number of frames; in particular cab_queue_len never goes below  *)
(* zero (wlan.c:455-458).                                                  *)
THEOREM CabTypeCorrect == Spec => []TypeOK
<1>1. IInv => TypeOK
  BY DEF IInv
<1> QED
  BY <1>1, CabCorrect, PTL

(* cab_queue_len counts the frames that wait or are with the MAC, for any  *)
(* number of frames (wlan_tx, wlan_tx_status).                             *)
THEOREM LenCorrect == Spec => []LenCounts
<1>1. IInv => LenCounts
  BY DEF IInv
<1> QED
  BY <1>1, CabCorrect, PTL

(* The janitor flushes behind a new DTIM beacon with the multicast bit     *)
(* only (wlan_modify_beacon, wlan_send_buffered_cab).                      *)
THEOREM AnnouncedCorrect == Spec => []AnnouncedFirst
<1>1. IInv => AnnouncedFirst
  BY DEF IInv, TriggerInv, AnnouncedFirst, EMPTY, ARMED
<1> QED
  BY <1>1, CabCorrect, PTL

(* The multicast bit stands as long as a batch is on its way, and never    *)
(* without a trigger that undoes it (wlan_modify_beacon).                  *)
THEOREM BitCorrect == Spec => []BitUndone
<1>1. IInv => BitUndone
  BY DEF IInv
<1> QED
  BY <1>1, CabCorrect, PTL

(* A frame promised by MOREDATA comes next (wlan_cab_flush_queue).         *)
THEOREM PromiseCorrect == Spec => []PromiseKept
<1>1. IInv => PromiseKept
  BY DEF IInv
<1> QED
  BY <1>1, CabCorrect, PTL
=============================================================================
